----------------------------- MODULE MCControlFlow -----------------------------
EXTENDS ControlFlow

CONSTANT l

Atoms == { Plain, Return, Break, Continue, GotoLabel(l), MacroCall, AndThen(Break),
           AndThen(GotoLabel(l)), Operand(Plain), Operand(Break), Nested(<<Label(l)>>) }
Some == { Plain, Return, Break, GotoLabel(l), Label(l) }
Short == { <<>> } \cup { <<s>> : s \in Some } \cup { <<s, t>> : s \in {Return, Plain}, t \in {Label(l), Break} }

Compounds(B, C) ==
    { Begin(x) : x \in B } \cup { While(x) : x \in B } \cup { Forever(x) : x \in B }
    \cup { IfElse(<<x>>, NoClause) : x \in B }
    \cup { IfElse(<<x>>, y) : x \in B, y \in C }
    \cup { IfElse(<<x, y>>, x) : x \in B, y \in C }
    \cup { Try(x, y, NoClause, NoClause) : x \in B, y \in C }
    \cup { Try(x, NoClause, NoClause, y) : x \in B, y \in C }
    \cup { Try(x, y, NoClause, x) : x \in B, y \in C }
    \cup { Try(x, x, y, NoClause) : x \in B, y \in C }

(* Loops around a compound and something more; then what follows. *)
Inner == Compounds({<<Return>>, <<Break>>, <<Plain>>}, {<<Plain>>, <<Break>>, <<GotoLabel(l)>>})
Loops == { Forever(<<x, y>>) : x \in Inner \cup Atoms, y \in {Plain, Return, AndThen(Break), Label(l)} }
         \cup { While(<<x>>) : x \in Inner }
Tails == { <<Plain>>, <<Label(l), Plain>>, <<Return, Plain, Label(l), Plain>> }
Heads == { <<>>, <<AndThen(GotoLabel(l))>>, <<GotoLabel(l)>>, <<MacroCall, Return>> }

(* Julia refuses a label that is defined twice. *)
Valid(r) == Cardinality({at \in Placed(r, <<>>) : at[2].k = "label"}) <= 1

MCRegions == { r \in { h \o <<c>> \o t : h \in Heads, c \in Compounds(Short, Short) \cup Loops \cup Atoms, t \in Tails } :
               Valid(r) }
=============================================================================
