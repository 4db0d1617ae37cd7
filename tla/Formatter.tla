------------------------------- MODULE Formatter -------------------------------
(* A document under the formatter: someone spreads it over lines, and it is   *)
(* formatted at one line width or another. Shape and comments are what        *)
(* fatou-formatter/src/verify.rs compares.                                    *)
EXTENDS Layout
LOCAL INSTANCE SequencesExt

CONSTANTS Sources,    \* the first documents
          Widths       \* line widths

VARIABLES original, document, line_width
formatVars == <<original, document, line_width>>

(* Tokens that would be read as others if nothing stood between them.         *)
Symbols == (InfixTokens \cup UnaryOps \cup {"..."}) \ {"where", "?"}
Wordlike == Words \cup Numbers \cup Reserved \cup {"mutable", "where"}
Glued(t) ==
    \E k \in 1..(Len(t) - 1) :
        \/ /\ t[k] \in Wordlike /\ t[k + 1] \in Wordlike
           /\ ~(t[k] \in Numbers /\ t[k + 1] \in Words \ {"in"})
        \/ t[k] \in Numbers /\ t[k + 1] \in {".", ".^"}
        \/ t[k] \in Symbols /\ t[k + 1] \in Symbols \ {"-", "+", "!"} /\ t[k] # "..."
        \/ t[k] \in {"+", "-", "="} /\ t[k + 1] \in {"+", "-"} /\ t[k] # "="
        \/ t[k] = LineComment /\ t[k + 1] # "nl"

(* The s-expression of a tree, with what formatting may change erased: a      *)
(* trailing comma, the braces of a lone where bound, parentheses around one   *)
(* expression, the = of a for, and semicolons but those that mute a line.     *)
RECURSIVE Shape(_)
Shape(n) ==
    LET of(kids) == FlattenSeq([k \in DOMAIN kids |-> Shape(kids[k])])
        listed(inside) == <<"(", n.kind>> \o inside \o <<")">>
        bound(b) == IF b.kind = "BRACES" /\ Len(Nodes(b)) = 1 THEN Shape(Nodes(b)[1]) ELSE Shape(b)
    IN CASE IsTok(n) -> IF n.tok \in Trivia \cup Openers \cup Closers \cup {",", ";"} THEN <<>> ELSE <<n.tok>>
         [] n.kind \in {"PAREN_EXPR", "ARG"} -> of(n.kids)
         [] n.kind = "WHERE_EXPR" -> listed(Shape(Nodes(n)[1]) \o bound(Nodes(n)[2]))
         [] n.kind = "FOR_BINDING" ->
                listed(FlattenSeq([k \in DOMAIN n.kids |->
                           IF n.kids[k].kind = "ASSIGNMENT_EXPR" THEN of(Nodes(n.kids[k])) ELSE Shape(n.kids[k])]))
         [] n.kind = "TOPLEVEL_SEMICOLON" ->
                of(n.kids) \o (IF Nodes(n) # <<>> /\ Last(Significant(n)).tok = ";" THEN <<";">> ELSE <<>>)
         [] n.kind = "PAREN_BLOCK" ->
                listed(FlattenSeq([k \in DOMAIN n.kids |->
                           IF n.kids[k].kind = "PARAMETERS" THEN of(n.kids[k].kids) ELSE Shape(n.kids[k])]))
         [] OTHER -> listed(of(n.kids))
ProgramShape(root) == SelectSeq(Shape(root), LAMBDA x : x # "in")
Comments(t) == SelectSeq(t, LAMBDA x : x = LineComment)

(* A line break inside every bracket, after every comma, and around a block.  *)
BlockEdges == {"begin", "quote", "try", "else", "finally"}
StartsLine(t, k) == t[k - 1] = "nl" \/ (t[k - 1] = "ws" /\ k > 2 /\ t[k - 2] = "nl")
Spread(t) ==
    FlattenSeq([k \in DOMAIN t |->
        CASE t[k] \in Openers -> IF At(t, k + 1) \in Closers \cup {";"} THEN <<t[k]>> ELSE <<t[k], "nl">>
          [] t[k] \in Closers -> IF t[k - 1] \in Openers \cup {";"} THEN <<t[k]>> ELSE <<"nl", t[k]>>
          [] t[k] \in BlockEdges \cup {","} -> <<t[k], "nl">>
          [] t[k] = "end" /\ ~StartsLine(t, k) -> <<"nl", t[k]>>
          [] OTHER -> <<t[k]>>])

(* A rule that declines a shape keeps its line breaks, and those of a do      *)
(* block's parameters would end them.                                         *)
Declined(n) ==
    \/ Commented(n) /\ n.kind \notin {"ROOT", "BLOCK", "TOPLEVEL_SEMICOLON"}
    \/ n.kind = "DO_PARAMS" /\ HasTok(n, {","})
    \/ n.kind \in BareLiterals \cup {"ARG_LIST"} /\ UnmodeledList(n)
    \/ n.kind = "PARAMETERS" /\ UnmodeledTail(n)
    \/ n.kind = "FOR_BINDING" /\ UnmodeledBinding(n)
    \/ n.kind = "PAREN_BLOCK" /\ Len(Statements(n)) < 2
KeepsLineBreaks(t) == \E n \in Subtrees(Program(t)) : Declined(n)

FormatInit ==
    /\ original \in Sources
    /\ document = original /\ line_width = 0

(* A document just opened or just formatted.                                  *)
SpreadOut ==
    /\ line_width # 0 \/ document = original
    /\ ~KeepsLineBreaks(document)
    /\ document' = Spread(document)
    /\ line_width' = 0
    /\ UNCHANGED original

FormatDocument(width) ==
    /\ document' = FormatNode(document, width)
    /\ line_width' = width
    /\ UNCHANGED original

FormatNext == SpreadOut \/ \E width \in Widths : FormatDocument(width)
FormatSpec == FormatInit /\ [][FormatNext]_formatVars

(* Formatting leaves the program and its comments alone, and the text reads   *)
(* as the tokens that were printed (verify.rs:1-10, verify_format), all of    *)
(* which the tree holds.                                                      *)
SameProgram ==
    LET tree == Program(document)
    IN /\ Parses(tree) /\ ~Glued(document)
       /\ Leaves(tree) = document
       /\ ProgramShape(tree) = ProgramShape(Program(original))
       /\ Comments(document) = Comments(original)

(* Programs whose layout reads as another program: a sign kept apart from a   *)
(* number that more belongs to, a range that ends in a bare annotation, and a *)
(* where without parameters, which no layout is printed for.                  *)
Sign(n) == n.kind = "UNARY_EXPR" /\ MarkOf(n) \in {"+", "-"}
Negated(n) == Sign(n) /\ Nodes(n)[1].kind = "LITERAL"
MisreadNode(n) ==
    \/ Sign(n) /\ ~Negated(n) /\ Leaves(n.kids[Len(n.kids)])[1] \in Numbers
    \/ n.kind \in {"CALL_EXPR", "JUXTAPOSE_EXPR"} /\ Negated(n.kids[1])
    \/ n.kind = "BINARY_EXPR" /\ MarkOf(n) = ":" /\ Leaves(Nodes(n)[2])[1] = "::"
    \/ n.kind = "WHERE_EXPR" /\ Nodes(n)[2].kind = "BRACES" /\ Nodes(Nodes(n)[2]) = <<>>
KnownMisread(tree) == \E n \in Subtrees(tree) : MisreadNode(n)

(* Only the width and the program decide a layout: not the line breaks of the *)
(* source, nor the width it was formatted at before (rules.rs, Tenet 1), so   *)
(* formatting twice changes nothing. The parentheses lower_unary adds around  *)
(* a number can break only once they are read again: Negated leaves them out. *)
WidthAloneDecides ==
    line_width # 0 /\ ~(\E n \in Subtrees(Program(original)) : Negated(n)) =>
        document = FormatNode(original, line_width)

===============================================================================
