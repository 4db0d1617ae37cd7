------------------------------ MODULE ControlFlow ------------------------------
(***************************************************************************)
(* The control-flow graph of one region and the statements it calls        *)
(* unreachable (semantic/cfg.rs, which the unreachable-code rule reports   *)
(* from), next to what executing the region may reach.                     *)
(*                                                                         *)
(* A region is a sequence of statements.  A statement is a record: its     *)
(* kind k and what the kind has, bodies being sequences again.  A          *)
(* statement's range is its path in the region, the indexes that lead to   *)
(* it; expressions, names and conditions are left out, and a condition may *)
(* go either way, but for the literal `true` of a `forever`.               *)
(***************************************************************************)
EXTENDS Naturals, Sequences, FiniteSets, SequencesExt

CONSTANTS
    Regions,          \* the regions a file may hold
    NoExit,           \* None: control does not leave a sequence at its end
    NoLoop,           \* None: no enclosing loop
    NoClause          \* a try or an if without that clause

VARIABLES region, flow

flowVars == <<region, flow>>
-----------------------------------------------------------------------------
(* Statements.                                                              *)

Plain == [k |-> "plain"]
Return == [k |-> "return"]           \* or a call of throw, error, rethrow
Break == [k |-> "break"]
Continue == [k |-> "continue"]
MacroCall == [k |-> "macro"]
GotoLabel(l) == [k |-> "goto", label |-> l]
Label(l) == [k |-> "label", label |-> l]
AndThen(s) == [k |-> "and", jump |-> s]          \* cond && jump
Operand(s) == [k |-> "operand", inner |-> s]     \* x = if cond; jump; end
Nested(body) == [k |-> "function", body |-> body]
Begin(body) == [k |-> "begin", body |-> body]
While(body) == [k |-> "while", body |-> body]
Forever(body) == [k |-> "forever", body |-> body]
IfElse(arms, otherwise) == [k |-> "if", arms |-> arms, otherwise |-> otherwise]
Try(body, catch, els, finally) ==
    [k |-> "try", body |-> body, catch |-> catch, els |-> els, finally |-> finally]

IsJump(s) == s.k \in {"return", "break", "continue", "goto"}

(* The bodies of a statement, each with the index it has in the path; those *)
(* of nested regions are not the region's. *)
Bodies(s) ==
    CASE s.k \in {"begin", "while", "forever"} -> {<<1, s.body>>}
      [] s.k = "if" -> { <<Len(s.arms) + 1 - i, s.arms[i]>> : i \in DOMAIN s.arms }
                       \cup ({<<0, s.otherwise>>} \ {<<0, NoClause>>})
      [] s.k = "try" -> { c \in { <<1, s.body>>, <<2, s.catch>>, <<3, s.els>>, <<4, s.finally>> } :
                            c[2] # NoClause }
      [] s.k = "operand" -> {<<1, <<s.inner>>>>}
      [] s.k = "and" -> {<<1, <<s.jump>>>>}
      [] OTHER -> {}

(* Every statement of a region with its path. *)
RECURSIVE Placed(_, _)
Placed(stmts, p) ==
    UNION { {<<Append(p, i), stmts[i]>>}
              \cup UNION { Placed(b[2], p \o <<i, b[1]>>) : b \in Bodies(stmts[i]) } :
            i \in DOMAIN stmts }

AllOf(stmts) == { at[2] : at \in Placed(stmts, <<>>) }

CollectLabels(stmts) == { s.label : s \in {t \in AllOf(stmts) : t.k = "label"} }
ContainsOpaqueMacro(stmts) == \E s \in AllOf(stmts) : s.k = "macro"
-----------------------------------------------------------------------------
(* Builder.  Its state b is the blocks, and the block of each label that    *)
(* was met.  Each lowering answers [b, exit]: the block control leaves      *)
(* through, or NoExit.                                                      *)

Goto(t) == [kind |-> "goto", targets |-> {t}]
Branch(t, u) == [kind |-> "branch", targets |-> {t, u}]
ReturnTerm == [kind |-> "return", targets |-> {}]
Diverge == [kind |-> "diverge", targets |-> {}]
Unreachable == [kind |-> "unreachable", targets |-> {}]

NewBlock(b) == [b EXCEPT !.blocks = Append(@, [stmts |-> {}, term |-> ReturnTerm])]
NewBlocks(b, n) == FoldLeft(LAMBDA c, i : NewBlock(c), b, [i \in 1 .. n |-> i])
Newest(b) == Len(b.blocks)
SetTerm(b, blk, t) == [b EXCEPT !.blocks[blk].term = t]
PushStmt(b, blk, p) == [b EXCEPT !.blocks[blk].stmts = @ \cup {p}]
PushStmts(b, blk, P) == [b EXCEPT !.blocks[blk].stmts = @ \cup P]
HasPredecessor(b, blk) == \E i \in DOMAIN b.blocks : blk \in b.blocks[i].term.targets

WithLabelBlock(b, l) ==
    IF l \in DOMAIN b.label_blocks THEN b
    ELSE LET c == NewBlock(b)
         IN  [c EXCEPT !.label_blocks =
                [m \in DOMAIN @ \cup {l} |-> IF m = l THEN Newest(c) ELSE @[m]]]

(* Whether a jump has a target here, and the terminator it becomes. *)
Resolves(b, jump, lc) ==
    CASE jump.k = "return" -> TRUE
      [] jump.k \in {"break", "continue"} -> lc # NoLoop
      [] jump.k = "goto" -> jump.label \in b.labels

JumpTerminator(b, jump, lc) ==
    CASE jump.k = "return" -> Diverge
      [] jump.k = "break" -> Goto(lc.after)
      [] jump.k = "continue" -> Goto(lc.header)
      [] jump.k = "goto" -> Goto(b.label_blocks[jump.label])

WithJumpTarget(b, jump) == IF jump.k = "goto" THEN WithLabelBlock(b, jump.label) ELSE b

(* Merge the exits into a fresh block, if any falls through. *)
Join(b, exits) ==
    LET live == exits \ {NoExit}
        c == NewBlock(b)
    IN  IF live = {} THEN [b |-> b, exit |-> NoExit]
        ELSE [b |-> [c EXCEPT !.blocks =
                        [i \in DOMAIN @ |-> IF i \in live THEN [@[i] EXCEPT !.term = Goto(Newest(c))]
                                            ELSE @[i]]],
              exit |-> Newest(c)]

(* lower_conditional_jump: the jump on one edge, falling through on the other. *)
LowerConditionalJump(b, cur, p, jump, lc) ==
    LET t == WithJumpTarget(b, jump)
        c == NewBlocks(t, 2)
        taken == Newest(t) + 1
    IN  IF ~Resolves(b, jump, lc) THEN [b |-> b, exit |-> cur]
        ELSE [b |-> SetTerm(PushStmt(SetTerm(c, cur, Branch(taken, taken + 1)), taken, p \o <<1, 1>>),
                            taken, JumpTerminator(t, jump, lc)),
              exit |-> taken + 1]

(* A plausible mistake: a break may hide in what a macro expands to. *)
NeverExitsWhateverItHolds(s) == s.k = "forever"

(* Whether a `while` is one that nothing but a visible break leaves. *)
NeverExits(s) == s.k = "forever" /\ ~ContainsOpaqueMacro(s.body)

RECURSIVE LowerSeq(_, _, _, _, _, _), LowerStmt(_, _, _, _, _), LowerIf(_, _, _, _, _, _)

(* After a divergence the rest is dead up to the next label, where lowering  *)
(* resumes. *)
AfterDivergence(b, stmts, i, p, lc) ==
    LET labels == {j \in i + 1 .. Len(stmts) : stmts[j].k = "label"}
        resume == Min(labels \cup {Len(stmts) + 1})
        dead == { Append(p, j) : j \in i + 1 .. resume - 1 }
        c == NewBlock(b)
        skipped == IF dead = {} THEN b ELSE PushStmts(SetTerm(c, Newest(c), Unreachable), Newest(c), dead)
        at == WithLabelBlock(skipped, stmts[resume].label)
        blk == at.label_blocks[stmts[resume].label]
    IN  IF labels = {} THEN [b |-> skipped, exit |-> NoExit]
        ELSE LowerSeq(PushStmt(at, blk, Append(p, resume)), stmts, resume + 1, p, blk, lc)

(* The statements from i on. *)
AfterStmt(low, stmts, i, p, lc) ==
    IF low.exit = NoExit THEN AfterDivergence(low.b, stmts, i, p, lc)
    ELSE LowerSeq(low.b, stmts, i + 1, p, low.exit, lc)

LowerSeq(b, stmts, i, p, cur, lc) ==
    IF i > Len(stmts) THEN [b |-> b, exit |-> cur]
    ELSE AfterStmt(LowerStmt(b, stmts[i], Append(p, i), cur, lc), stmts, i, p, lc)

(* An elseif is an else that holds the rest of the chain. *)
LowerElse(then, then_blk, arms, otherwise, p, cur, lc) ==
    LET else_blk == Newest(then.b) + 1
        start == NewBlock(then.b)
        rest == IF Len(arms) > 1
                THEN LowerIf(start, Tail(arms), otherwise, p, else_blk, lc)
                ELSE LowerSeq(start, otherwise, 1, Append(p, 0), else_blk, lc)
        d == SetTerm(start, cur, Branch(then_blk, else_blk))
    IN  IF Len(arms) = 1 /\ otherwise = NoClause
        THEN [b |-> IF then.exit = NoExit THEN d ELSE SetTerm(d, then.exit, Goto(else_blk)),
              exit |-> else_blk]
        ELSE Join(SetTerm(rest.b, cur, Branch(then_blk, else_blk)), {then.exit, rest.exit})

LowerIf(b, arms, otherwise, p, cur, lc) ==
    LET then_blk == Newest(b) + 1
    IN  LowerElse(LowerSeq(NewBlock(b), Head(arms), 1, Append(p, Len(arms)), then_blk, lc),
                  then_blk, arms, otherwise, p, cur, lc)

LowerLoop(b, s, p, cur) ==
    LET header == Newest(b) + 1
        after == header + 1
        body_blk == header + 2
        c == SetTerm(SetTerm(NewBlocks(b, 3), cur, Goto(header)), header,
                     IF NeverExits(s) THEN Goto(body_blk) ELSE Branch(body_blk, after))
        low == LowerSeq(c, s.body, 1, Append(p, 1), body_blk, [header |-> header, after |-> after])
        d == IF low.exit = NoExit THEN low.b ELSE SetTerm(low.b, low.exit, Goto(header))
    IN  IF NeverExits(s) /\ ~HasPredecessor(d, after)
        THEN [b |-> SetTerm(d, after, Unreachable), exit |-> NoExit]
        ELSE [b |-> d, exit |-> after]

(* lower_try: the handler hangs off the header, since anything in the body  *)
(* may throw; a finally runs after the body, the handler, and an exception  *)
(* of the handler.  An else clause is not looked at. *)
LowerTry(b, s, p, cur, lc) ==
    LET try_blk == Newest(b) + 1
        catch_blk == try_blk + (IF s.catch = NoClause THEN 0 ELSE 1)
        finally_blk == catch_blk + (IF s.finally = NoClause THEN 0 ELSE 1)
        both == s.catch # NoClause /\ s.finally # NoClause
        c == NewBlocks(b, finally_blk - Newest(b))
        headed == IF both
                  THEN LET h == NewBlock(c)
                       IN  SetTerm(SetTerm(h, cur, Branch(try_blk, Newest(h))),
                                   Newest(h), Branch(catch_blk, finally_blk))
                  ELSE SetTerm(c, cur, IF finally_blk = try_blk THEN Goto(try_blk)
                                       ELSE Branch(try_blk, finally_blk))
        body == LowerSeq(headed, s.body, 1, Append(p, 1), try_blk, lc)
        caught == IF s.catch = NoClause THEN [b |-> body.b, exit |-> NoExit]
                  ELSE LowerSeq(body.b, s.catch, 1, Append(p, 2), catch_blk, lc)
        exits == {body.exit, caught.exit}
        joined == [caught.b EXCEPT !.blocks =
                     [i \in DOMAIN @ |-> IF i \in exits THEN [@[i] EXCEPT !.term = Goto(finally_blk)]
                                         ELSE @[i]]]
        finally == LowerSeq(joined, s.finally, 1, Append(p, 4), finally_blk, lc)
    IN  IF s.finally = NoClause THEN Join(caught.b, exits)
        ELSE Join(finally.b, {finally.exit})

LowerStmt(b, s, p, cur, lc) ==
    LET pushed == PushStmt(b, cur, p)
    IN  CASE s.k = "label" ->
                LET at == WithLabelBlock(b, s.label)
                    target == at.label_blocks[s.label]
                IN  [b |-> PushStmt(SetTerm(at, cur, Goto(target)), target, p), exit |-> target]
          [] IsJump(s) ->
                LET at == WithJumpTarget(pushed, s)
                IN  IF Resolves(b, s, lc)
                    THEN [b |-> SetTerm(at, cur, JumpTerminator(at, s, lc)), exit |-> NoExit]
                    ELSE [b |-> pushed, exit |-> cur]
          [] s.k = "begin" -> LowerSeq(b, s.body, 1, Append(p, 1), cur, lc)
          [] s.k = "if" -> LowerIf(pushed, s.arms, s.otherwise, p, cur, lc)
          [] s.k \in {"while", "forever"} -> LowerLoop(pushed, s, p, cur)
          [] s.k = "try" -> LowerTry(pushed, s, p, cur, lc)
          [] s.k = "and" -> LowerConditionalJump(pushed, cur, p, s.jump, lc)
          [] OTHER -> [b |-> pushed, exit |-> cur]
-----------------------------------------------------------------------------
(* reachable_from, and the ranges of the unreachable blocks.                *)

(* The least set that holds what is in S and is closed under Next. *)
RECURSIVE ClosedUnder(_, _)
ClosedUnder(S, edges) ==
    LET more == { e[2] : e \in {d \in edges : d[1] \in S} }
    IN  IF more \subseteq S THEN S ELSE ClosedUnder(S \cup more, edges)

GraphOf(b, stmts) ==
    LET edges == UNION { {i} \X b.blocks[i].term.targets : i \in DOMAIN b.blocks }
        roots == {1} \cup (IF ContainsOpaqueMacro(stmts) THEN Range(b.label_blocks) ELSE {})
        reachable == ClosedUnder(roots, edges)
        StmtsOf(B) == UNION { b.blocks[i].stmts : i \in B }
    IN  [built |-> TRUE, recorded |-> StmtsOf(DOMAIN b.blocks),
         unreachable |-> StmtsOf(DOMAIN b.blocks \ reachable)]

(* A fresh block's terminator is Return already. *)
BuildRegion(stmts) ==
    LET start == NewBlock([blocks |-> <<>>, label_blocks |-> <<>>, labels |-> CollectLabels(stmts)])
    IN  GraphOf(LowerSeq(start, stmts, 1, <<>>, 1, NoLoop).b, stmts)

NoGraph == [built |-> FALSE, recorded |-> {}, unreachable |-> {}]

FlowInit == region \in Regions /\ flow = NoGraph

BuildGraph ==
    /\ ~flow.built
    /\ flow' = BuildRegion(region)
    /\ UNCHANGED region

FlowNext == BuildGraph
FlowSpec == FlowInit /\ [][FlowNext]_flowVars
-----------------------------------------------------------------------------
(* What executing a region may do: the steps from statement to statement.   *)
(* `next` is where control goes after a statement, brk and cont where the   *)
(* loop's jumps go, exc where an exception goes; labels says where a label  *)
(* is.                                                                      *)

Exit == <<0>>          \* no statement has this path

FirstOf(stmts, p, next) == IF stmts = <<>> THEN next ELSE Append(p, 1)

RECURSIVE Steps(_, _, _, _), StepsOfSeq(_, _, _, _)

StepsOfSeq(stmts, p, next, env) ==
    UNION { Steps(stmts[i], Append(p, i),
                  IF i = Len(stmts) THEN next ELSE Append(p, i + 1), env) : i \in DOMAIN stmts }

Steps(s, p, next, env) ==
    LET From(targets) == {p} \X targets
        Body(stmts, k, then) == StepsOfSeq(stmts, Append(p, k), then, env)
        Start(stmts, k, then) == FirstOf(stmts, Append(p, k), then)
        Clause(stmts, k, then) == IF stmts = NoClause THEN then ELSE Start(stmts, k, then)
    IN  From(env.exc) \cup
        CASE s.k = "return" -> {}
          [] s.k = "break" -> From(IF env.brk = NoLoop THEN {next} ELSE {env.brk})
          [] s.k = "continue" -> From(IF env.brk = NoLoop THEN {next} ELSE {env.cont})
          [] s.k = "goto" -> From(IF s.label \in DOMAIN env.labels THEN {env.labels[s.label]} ELSE {next})
          [] s.k = "macro" -> From({next} \cup Range(env.labels)
                                   \cup (IF env.brk = NoLoop THEN {} ELSE {env.brk, env.cont}))
          [] s.k = "and" -> From({next, p \o <<1, 1>>}) \cup Body(<<s.jump>>, 1, next)
          [] s.k = "operand" -> From({next, p \o <<1, 1>>}) \cup Body(<<s.inner>>, 1, next)
          [] s.k = "begin" -> From({Start(s.body, 1, next)}) \cup Body(s.body, 1, next)
          [] s.k = "if" ->
                LET n == Len(s.arms)
                IN  From({Clause(s.otherwise, 0, next)}
                         \cup {Start(s.arms[i], n + 1 - i, next) : i \in 1 .. n})
                    \cup UNION { Body(s.arms[i], n + 1 - i, next) : i \in 1 .. n }
                    \cup (IF s.otherwise = NoClause THEN {} ELSE Body(s.otherwise, 0, next))
          [] s.k \in {"while", "forever"} ->
                From({Start(s.body, 1, p)} \cup (IF s.k = "while" THEN {next} ELSE {}))
                \cup StepsOfSeq(s.body, Append(p, 1), p, [env EXCEPT !.brk = next, !.cont = p])
          [] s.k = "try" ->
                LET last == Clause(s.finally, 4, next)
                    handler == Clause(s.catch, 2, last)
                    guarded == s.catch # NoClause \/ s.finally # NoClause
                    inner == IF guarded THEN [env EXCEPT !.exc = {handler}] ELSE env
                    outer == IF s.finally = NoClause THEN env ELSE [env EXCEPT !.exc = {last}]
                IN  From({Start(s.body, 1, Clause(s.els, 3, last))})
                    \cup (IF guarded THEN From({handler}) ELSE {})
                    \cup (IF s.finally # NoClause THEN From({last}) ELSE {})
                    \cup StepsOfSeq(s.body, Append(p, 1), Clause(s.els, 3, last), inner)
                    \cup (IF s.catch = NoClause THEN {}
                          ELSE StepsOfSeq(s.catch, Append(p, 2), last, outer))
                    \cup (IF s.els = NoClause THEN {}
                          ELSE StepsOfSeq(s.els, Append(p, 3), last, outer))
                    \cup (IF s.finally = NoClause THEN {}
                          ELSE StepsOfSeq(s.finally, Append(p, 4), next, env))
          [] OTHER -> From({next})

LabelsOf(stmts) ==
    LET labels == { at \in Placed(stmts, <<>>) : at[2].k = "label" }
    IN  [l \in { at[2].label : at \in labels } |->
            (CHOOSE at \in labels : at[2].label = l)[1]]

Reached(stmts) ==
    LET env == [brk |-> NoLoop, cont |-> NoLoop, exc |-> {}, labels |-> LabelsOf(stmts)]
    IN  ClosedUnder({FirstOf(stmts, <<>>, Exit)}, StepsOfSeq(stmts, <<>>, Exit, env))
-----------------------------------------------------------------------------
(* Properties.                                                              *)

MayJump(stmts) == \E s \in AllOf(stmts) : IsJump(s) \/ s.k = "label"

(* What the builder does not look into: a statement that is an operand, the *)
(* else clause of a try, and what follows a divergence. *)
NoJumpInOperand == \A s \in AllOf(region) : s.k = "operand" => ~MayJump(<<s.inner>>)
NoJumpInTryElse == \A s \in AllOf(region) : s.k = "try" /\ s.els # NoClause => ~MayJump(s.els)
NoLabelInDeadCode ==
    \A at \in Placed(region, <<>>) :
        at[2].k = "label" => \A p \in flow.unreachable : ~IsStrictPrefix(p, at[1])

(* Where no jump or label hides, the graph is right: what it calls          *)
(* unreachable no execution reaches, and without macros it calls unreachable *)
(* every statement it records that none reaches.                            *)
UnreachableIsDead ==
    flow.built /\ NoJumpInOperand /\ NoJumpInTryElse /\ NoLabelInDeadCode =>
        /\ flow.unreachable \cap Reached(region) = {}
        /\ ~ContainsOpaqueMacro(region) =>
              flow.recorded \ Reached(region) \subseteq flow.unreachable

(* "An opaque statement is conservative: it never makes anything look       *)
(* unreachable" (cfg.rs, of statements used as operands).                   *)
OpaqueIsConservative ==
    flow.built /\ NoJumpInTryElse /\ NoLabelInDeadCode =>
        flow.unreachable \cap Reached(region) = {}

(* The same for the else clause of a try, and for labels in dead code. *)
TryElseIsConservative ==
    flow.built /\ NoJumpInOperand /\ NoLabelInDeadCode =>
        flow.unreachable \cap Reached(region) = {}
LabelsAreEntryPoints ==
    flow.built /\ NoJumpInOperand /\ NoJumpInTryElse =>
        flow.unreachable \cap Reached(region) = {}
=============================================================================
