------------------------------ MODULE FormatRules ------------------------------
(* The formatting rules (fatou-formatter/src/formatter/rules.rs): a tree to a *)
(* layout document, which Layout prints. A shape a rule does not own is kept  *)
(* verbatim, only its nodes are lowered. Shapes that error recovery alone     *)
(* builds are left out, and so is the layout of a bracketed list with a       *)
(* comment directly in it.                                                    *)
EXTENDS ExprParser
LOCAL INSTANCE SequencesExt

Text(toks) == [ir |-> "text", toks |-> toks]
Line == [ir |-> "line"]
SoftLine == [ir |-> "soft"]
HardLine == [ir |-> "hard"]
BlankLine == [ir |-> "blank"]
Concat(parts) == [ir |-> "concat", parts |-> parts]
Group(inner) == [ir |-> "group", inner |-> inner]
Indent(inner) == [ir |-> "indent", inner |-> inner]
CommaIfBroken == [ir |-> "comma_if_broken"]
HugGroup(prefix, body, close, explode) ==
    [ir |-> "hug", prefix |-> prefix, body |-> body, close |-> close, explode |-> explode]
CondGroup(primary, fallback, probe) ==
    [ir |-> "cond", primary |-> primary, fallback |-> fallback, probe |-> probe]
NoBody == [ir |-> "none"]
Space == Text(<<"ws">>)
CommaSpace == Text(<<",", "ws">>)

(* ------------------------------ The tree read ---------------------------- *)
RECURSIVE Subtrees(_)
Subtrees(n) == {n} \cup UNION {Subtrees(n.kids[k]) : k \in DOMAIN n.kids}
IsTok(k) == k.kind = "TOKEN"
Nodes(n) == SelectSeq(n.kids, LAMBDA k : ~IsTok(k))
Significant(n) == SelectSeq(n.kids, LAMBDA k : k.tok \notin Trivia)
HasTok(n, toks) == \E k \in DOMAIN n.kids : IsTok(n.kids[k]) /\ n.kids[k].tok \in toks
Commented(n) == HasTok(n, {LineComment})
CommentWithin(n) == LineComment \in ToSet(Leaves(n))
MarkOf(n) == SelectSeq(n.kids, LAMBDA k : IsTok(k) /\ k.tok \notin Trivia)[1].tok

TightOps == {"^", ".^", ":", "."}
SameBreakTier(a, b) == a = b \/ {a, b} \subseteq {"+", "-"}
HuggableKinds == {"CALL_EXPR", "INDEX_EXPR", "CURLY_EXPR", "VECT_EXPR", "TUPLE_EXPR", "BRACES", "COMPREHENSION",
                  "GENERATOR"}
BareLiterals == {"VECT_EXPR", "TUPLE_EXPR", "BRACES"}

ShortCircuitGuard(n) ==
    /\ MarkOf(n) \in {"&&", "||"} /\ Last(Nodes(n)).kind \in {"RETURN_EXPR", "BREAK_EXPR", "CONTINUE_EXPR"}
    /\ ~Commented(n)

(* collect_binary_chain: operands and operators of a chain, the operands that *)
(* are chains of its tier opened. A comment stays in, for the rule to refuse. *)
RECURSIVE BinaryChain(_, _, _)
BinaryChain(n, op, flatten) ==
    LET item(k) ==
            IF flatten /\ k.kind = "BINARY_EXPR" /\ SameBreakTier(MarkOf(k), op) /\ ~ShortCircuitGuard(k)
            THEN BinaryChain(k, op, flatten)
            ELSE IF k.tok \in {"ws", "nl"} THEN <<>> ELSE <<k>>
    IN FlattenSeq([k \in DOMAIN n.kids |-> item(n.kids[k])])

(* pair_operands and pair_hug_chain: a => b => f(c) is a prefix, a => b =>,   *)
(* and a construct that can break inside its own brackets.                    *)
IsPair(n) == n.kind = "BINARY_EXPR" /\ MarkOf(n) = "=>" /\ ~Commented(n)
RECURSIVE PairConstruct(_)
PairConstruct(n) ==
    IF ~IsPair(n) THEN n
    ELSE IF Nodes(n)[2].kind \in HuggableKinds THEN Nodes(n)[2] ELSE PairConstruct(Nodes(n)[2])
PairHugs(n) == IsPair(n) /\ PairConstruct(n).kind \in HuggableKinds
RECURSIVE PairLabels(_)
PairLabels(n) ==
    <<Nodes(n)[1]>> \o (IF Nodes(n)[2].kind \in HuggableKinds THEN <<>> ELSE PairLabels(Nodes(n)[2]))
SplatHugs(n) == n.kind = "SPLAT_EXPR" /\ ~Commented(n) /\ Nodes(n)[1].kind \in HuggableKinds

(* The value of a list's item, none when a keyword's is not plainly its own.  *)
ItemValue(item) ==
    IF item.kind = "KEYWORD_ARG" /\ HasTok(item, {"nl", LineComment}) THEN Leaf("") ELSE Last(Nodes(item))
ItemHugs(item) ==
    LET value == ItemValue(item)
    IN value.kind \in HuggableKinds \/ SplatHugs(value) \/ PairHugs(value)
Hugs(list, items) ==
    /\ Len(items) = 1 /\ ItemHugs(items[1])
    /\ ~(list # "ARG_LIST" /\ items[1].kind = "ARG" /\ Nodes(items[1])[1].kind \in BareLiterals)

Items(n) == SelectSeq(n.kids, LAMBDA k : k.kind \in {"ARG", "KEYWORD_ARG"})
ParamGroups(n) == SelectSeq(n.kids, LAMBDA k : k.kind = "PARAMETERS")
(* collect_arg_list and collect_collection_items: the shapes they refuse.     *)
UnmodeledList(n) ==
    \/ \E k \in DOMAIN Nodes(n) : Nodes(n)[k].kind \notin {"ARG", "KEYWORD_ARG", "PARAMETERS"}
    \/ Len(ParamGroups(n)) > (IF n.kind = "ARG_LIST" THEN 1 ELSE 0)
    \/ \E k \in 2..Len(Significant(n)) :
           Significant(n)[k].kind = "PARAMETERS" /\ Significant(n)[k - 1].tok = ","
UnmodeledTail(p) == Commented(p) \/ Items(p) = <<>> \/ Items(p) # Nodes(p)

KeywordStmts == {"RETURN_EXPR", "CONST_STMT", "GLOBAL_STMT", "LOCAL_STMT"}

(* A comma after these would be read as part of them.                         *)
EndsWithCloser(n) == LET s == SelectSeq(n.kids, LAMBDA k : IsTok(k) /\ k.tok \notin Trivia)
                     IN s # <<>> /\ Last(s).tok \in Closers \cup {"end"}
RECURSIVE BlocksTrailingComma(_)
BlocksTrailingComma(n) ==
    \/ n.kind \in KeywordStmts \cup {"BREAK_EXPR", "CONTINUE_EXPR", "GENERATOR"}
    \/ ~EndsWithCloser(n) /\ Nodes(n) # <<>> /\ BlocksTrailingComma(Last(Nodes(n)))
(* A trailing comma whatever the last item ends in, the mutant of the next.   *)
ListTrailingComma(items, semantic) == IF semantic THEN Text(<<",">>) ELSE CommaIfBroken
ListTrailing(items, semantic) ==
    CASE semantic -> Text(<<",">>)
      [] BlocksTrailingComma(Last(items)) -> Text(<<>>)
      [] OTHER -> CommaIfBroken

(* collect_chain: the receiver and the links of a run of .name and            *)
(* .name(args), in print order; a call of another shape has no chain.         *)
DotAccess(n) ==
    /\ n.kind = "BINARY_EXPR" /\ MarkOf(n) = "." /\ ~Commented(n)
CleanCall(n) == Len(Nodes(n)) = 2 /\ Nodes(n)[2].kind = "ARG_LIST" /\ ~HasTok(n, {LineComment})
RECURSIVE DotChain(_)
DotChain(n) ==
    LET called == n.kind = "CALL_EXPR"
        access == IF called THEN Nodes(n)[1] ELSE n
        inner == DotChain(Nodes(access)[1])
        link == [name |-> Nodes(access)[2], args |-> IF called THEN <<Nodes(n)[2]>> ELSE <<>>]
    IN CASE called /\ ~CleanCall(n) -> [ok |-> FALSE, base |-> n, links |-> <<>>]
         [] n.kind \in {"CALL_EXPR", "BINARY_EXPR"} /\ DotAccess(access) ->
                [inner EXCEPT !.links = Append(@, link)]
         [] OTHER -> [ok |-> TRUE, base |-> n, links |-> <<>>]
MIN_CHAIN_CALLS == 2
IsFluent(n) ==
    LET chain == DotChain(n)
    IN chain.ok /\ Len(SelectSeq(chain.links, LAMBDA l : l.args # <<>>)) >= MIN_CHAIN_CALLS

(* ------------------------------- The rules ------------------------------- *)
(* Lower(n, as): a node as a node; as the body an enclosing group owns, or    *)
(* none; or as the arguments of an operator written as a call.                *)
RECURSIVE Lower(_, _)
LowerNode(n) == Lower(n, "node")
Each(nodes) == [k \in DOMAIN nodes |-> LowerNode(nodes[k])]
Joint(parts, sep) == FlattenSeq([k \in DOMAIN parts |-> IF k = 1 THEN <<parts[k]>> ELSE sep \o <<parts[k]>>])

(* lower_transparent: tokens as they are, but for space before a line's end.  *)
Verbatim(n) ==
    LET part(k) ==
            CASE ~IsTok(n.kids[k]) -> LowerNode(n.kids[k])
              [] n.kids[k].tok = "ws" /\ k < Len(n.kids) /\ n.kids[k + 1].tok = "nl" -> Text(<<>>)
              [] OTHER -> Text(<<n.kids[k].tok>>)
    IN Concat([k \in DOMAIN n.kids |-> part(k)])

(* One group, broken after every operator, the operands indented.             *)
BrokenGroup(first, rest) == Group(Concat(<<first, Indent(Concat(rest))>>))

LowerDotChain(chain) ==
    LET link(l) == IF l.args = <<>> THEN Concat(<<Text(<<".">>), LowerNode(l.name)>>)
                   ELSE Concat(<<Text(<<".">>), SoftLine, LowerNode(l.name), LowerNode(l.args[1])>>)
    IN BrokenGroup(LowerNode(chain.base), [k \in DOMAIN chain.links |-> link(chain.links[k])])

LowerChain(n, items, stays_flat) ==
    LET tight(k) == /\ ~stays_flat /\ items[k].tok \in TightOps
                    /\ ~(items[k].tok = ".^" /\ Last(Leaves(items[k - 1])) \in Numbers)
        operator(k) == IF tight(k) THEN <<Text(<<items[k].tok>>)>> ELSE <<Text(<<"ws", items[k].tok>>)>>
        operand(k) == (IF tight(k - 1) THEN <<>> ELSE IF stays_flat THEN <<Space>> ELSE <<Line>>)
                          \o <<LowerNode(items[k])>>
        rest == FlattenSeq([k \in 1..(Len(items) - 1) |-> IF k % 2 = 1 THEN operator(k + 1) ELSE operand(k + 1)])
    IN CASE \E k \in DOMAIN items : items[k].tok = LineComment -> Verbatim(n)
         [] stays_flat -> Concat(<<LowerNode(items[1])>> \o rest)
         [] OTHER -> BrokenGroup(LowerNode(items[1]), rest)

LowerBinary(n) ==
    LET op == MarkOf(n)
        stays_flat == \/ n.kind = "ASSIGNMENT_EXPR"
                      \/ op = "=>" /\ PairHugs(n)
                      \/ ShortCircuitGuard(n)
    IN IF IsFluent(n) THEN LowerDotChain(DotChain(n))
       ELSE LowerChain(n, BinaryChain(n, op, ~stays_flat /\ op \notin TightOps), stays_flat)

(* Operators between all operands: a comparison, a ternary, a bare tuple.     *)
LowerAlternating(n) ==
    LET items == Significant(n)
        rest == [k \in 1..(Len(items) - 1) |->
                     IF IsTok(items[k + 1]) THEN Text(<<"ws", items[k + 1].tok>>)
                     ELSE Concat(<<Line, LowerNode(items[k + 1])>>)]
    IN IF Commented(n) THEN Verbatim(n) ELSE BrokenGroup(LowerNode(items[1]), rest)
LowerCommaList(n) ==
    LET items == Nodes(n)
    IN CASE Commented(n) \/ IsTok(Last(Significant(n))) -> Verbatim(n)
         [] Len(items) = 1 -> LowerNode(items[1])
         [] OTHER -> BrokenGroup(LowerNode(items[1]),
                         [k \in 1..(Len(items) - 1) |-> Concat(<<Text(<<",">>), Line, LowerNode(items[k + 1])>>)])

(* Tight operators that a source line break turns off: a range, a type        *)
(* annotation, and a keyword argument's spaced =.                             *)
LowerTight(n, mark) ==
    LET part(k) == IF IsTok(k) THEN Text(mark) ELSE LowerNode(k)
        items == Significant(n)
    IN IF HasTok(n, {"nl", LineComment}) THEN Verbatim(n) ELSE Concat([k \in DOMAIN items |-> part(items[k])])

OperatorLed == (InfixTokens \ {".", ".^", "where"}) \cup {"!"}
LowerUnary(n) ==
    LET op == MarkOf(n)
        operand == Nodes(n)[1]
        leads == Leaves(operand)[1]
    IN CASE Commented(n) \/ operand.kind = "UNARY_EXPR" \/ leads \in OperatorLed -> Verbatim(n)
         [] op \in {"+", "-"} /\ operand.kind = "LITERAL" /\ leads \in Numbers ->
                Concat(<<Text(<<op, "(">>), LowerNode(operand), Text(<<")">>)>>)
         [] OTHER -> Concat(<<Text(<<op>>), LowerNode(operand)>>)
LowerSplat(n) ==
    IF Commented(n) \/ Last(Leaves(Nodes(n)[1])) = "..." THEN Verbatim(n)
    ELSE Concat(<<LowerNode(Nodes(n)[1]), Text(<<"...">>)>>)
LowerArrow(n) ==
    IF Commented(n) THEN Verbatim(n)
    ELSE Concat(<<LowerNode(Nodes(n)[1]), Text(<<"ws", "->", "ws">>), LowerNode(Nodes(n)[2])>>)
LowerKeywordStmt(n) ==
    CASE HasTok(n, {"nl", LineComment}) -> Verbatim(n)
      [] Nodes(n) = <<>> -> Text(<<MarkOf(n)>>)
      [] OTHER -> Concat(<<Text(<<MarkOf(n), "ws">>), LowerNode(Nodes(n)[1])>>)
LowerBreakStmt(n) == Concat(Joint(<<Text(<<MarkOf(n)>>)>> \o Each(Nodes(n)), <<Space>>))

(* ( and ) around an indented inside.                                         *)
Framed(open, inside, close) == Concat(<<Text(<<open>>), Indent(Concat(<<SoftLine>> \o inside)), SoftLine, Text(<<close>>)>>)
(* Parentheses on several lines kept as they stand, the mutant of the next.   *)
ParenBodyAsWritten(n) == IF HasTok(n, {"nl", LineComment}) THEN NoBody ELSE Framed("(", Each(Nodes(n)), ")")
ParenBody(n) == IF Commented(n) THEN NoBody ELSE Framed("(", Each(Nodes(n)), ")")
Statements(n) ==
    FlattenSeq([k \in DOMAIN Nodes(n) |->
        IF Nodes(n)[k].kind = "PARAMETERS" THEN Nodes(Nodes(n)[k]) ELSE <<Nodes(n)[k]>>])
LowerParenBlock(n) ==
    LET statements == Statements(n)
    IN IF Commented(n) \/ Len(statements) < 2 \/ (\E k \in DOMAIN ParamGroups(n) : Commented(ParamGroups(n)[k]))
       THEN Verbatim(n)
       ELSE Group(Framed("(", Joint(Each(statements), <<Text(<<";">>), Line>>), ")"))

(* A token no program has: the rule's expect fails.                           *)
Panic == Text(<<"panic">>)

(* lower_where: a bound always wears braces. Several parameters after a call  *)
(* stay on the line that closes its arguments, if they fit there.             *)
BracesFlat(params) == Concat(<<Text(<<"{">>)>> \o Joint(Each(params), <<CommaSpace>>) \o <<Text(<<"}">>)>>)
(* render_flat: nothing in the document asks for a line of its own.           *)
RECURSIVE RendersFlat(_)
RendersFlat(ir) ==
    CASE ir.ir = "text" -> "nl" \notin ToSet(ir.toks)
      [] ir.ir \in {"hard", "blank"} -> FALSE
      [] ir.ir = "concat" -> \A k \in DOMAIN ir.parts : RendersFlat(ir.parts[k])
      [] ir.ir \in {"group", "indent"} -> RendersFlat(ir.inner)
      [] ir.ir = "hug" -> RendersFlat(ir.prefix) /\ RendersFlat(ir.body) /\ RendersFlat(ir.close)
      [] ir.ir = "cond" -> RendersFlat(ir.primary)
      [] OTHER -> TRUE
WhereClosingPrefix(lhs) ==
    CASE lhs.kind = "CALL_EXPR" -> <<Text(<<")", "ws", "where", "ws">>)>>
      [] lhs.kind = "TYPE_ANNOTATION" /\ Nodes(lhs)[1].kind = "CALL_EXPR" /\ RendersFlat(LowerNode(lhs)) ->
             <<Text(<<")", "::">>), LowerNode(Nodes(lhs)[2]), Text(<<"ws", "where", "ws">>)>>
      [] OTHER -> <<>>
LowerWhere(n) ==
    LET lhs == Nodes(n)[1]
        rhs == Nodes(n)[2]
        where(bound) == Concat(<<LowerNode(lhs), Text(<<"ws", "where", "ws">>), bound>>)
        params == Nodes(rhs)
    IN CASE HasTok(n, {"nl", LineComment}) -> Verbatim(n)
         [] rhs.kind # "BRACES" -> where(BracesFlat(<<rhs>>))
         [] params = <<>> -> Panic
         [] Len(params) = 1 -> where(BracesFlat(params))
         [] WhereClosingPrefix(lhs) = <<>> -> where(LowerNode(rhs))
         [] OTHER -> CondGroup(where(BracesFlat(params)), where(LowerNode(rhs)),
                               Concat(WhereClosingPrefix(lhs) \o <<BracesFlat(params)>>))

(* What an item adds to the first line of a hug, its body, and what follows   *)
(* the body before the closing bracket.                                       *)
HugParts(item, as) ==
    LET value == ItemValue(item)
        label == IF item.kind = "KEYWORD_ARG" THEN <<LowerNode(Nodes(item)[1]), Text(<<"ws", "=", "ws">>)>> ELSE <<>>
        pairs == FlattenSeq([k \in DOMAIN PairLabels(value) |->
                                 <<LowerNode(PairLabels(value)[k]), Text(<<"ws", "=>", "ws">>)>>])
    IN CASE value.kind \in HuggableKinds -> [prefix |-> label, body |-> Lower(value, as), suffix |-> <<>>]
         [] SplatHugs(value) ->
                [prefix |-> label, body |-> Lower(Nodes(value)[1], as), suffix |-> <<Text(<<"...">>)>>]
         [] OTHER -> [prefix |-> label \o pairs, body |-> Lower(PairConstruct(value), as), suffix |-> <<>>]
HugOf(open, hug, closing, explode) ==
    IF hug.body.ir = "none" THEN NoBody
    ELSE HugGroup(Concat(<<Text(open)>> \o hug.prefix), hug.body, Concat(hug.suffix \o <<Text(closing)>>), explode)

(* Positional items, then a ; that never leads a line, then keyword items.    *)
TailBody(open, items, params, close) ==
    LET keywords == FlattenSeq([k \in DOMAIN params |-> (IF k = 1 THEN <<>> ELSE <<Text(<<",">>)>>)
                                                            \o <<Line, LowerNode(params[k])>>])
        before == IF items = <<>> THEN <<>>
                  ELSE <<SoftLine>> \o Joint(Each(items), <<Text(<<",">>), Line>>) \o <<Text(<<";">>)>>
    IN Concat(<<Text(IF items = <<>> THEN <<open, ";">> ELSE <<open>>),
                Indent(Concat(before \o keywords \o <<ListTrailing(params, FALSE)>>)), SoftLine, Text(<<close>>)>>)

LowerParameters(p) ==
    IF HasTok(p, {"nl"}) \/ Items(p) # Nodes(p) THEN Indent(Verbatim(p))
    ELSE Concat(<<Text(<<";">>)>> \o (IF Items(p) = <<>> THEN <<>> ELSE <<Space>> \o Joint(Each(Items(p)), <<CommaSpace>>)))

(* lower_arg_list, lower_collection and the bodies an outer group owns: flat  *)
(* if it fits, else an item a line; a lone item that brings its own brackets  *)
(* shares its list's.                                                         *)
LowerList(n, as, semantic) ==
    LET open == n.kids[1].tok
        close == Last(n.kids).tok
        items == Items(n)
        comma == IF semantic THEN <<",", close>> ELSE <<close>>
        own(body) == IF as = "body" THEN body ELSE Group(body)
        exploded == own(Framed(open, Joint(Each(items), <<Text(<<",">>), Line>>) \o <<ListTrailing(items, semantic)>>,
                               close))
    IN CASE UnmodeledList(n) -> IF as = "body" THEN NoBody ELSE Verbatim(n)
         [] ParamGroups(n) # <<>> ->
                LET tail == ParamGroups(n)[1]
                    params == Items(tail)
                    body == own(TailBody(open, items, params, close))
                IN CASE UnmodeledTail(tail) ->
                            IF as = "body" THEN NoBody
                            ELSE Concat(<<Text(<<open>>)>> \o Joint(Each(items), <<CommaSpace>>)
                                          \o <<LowerNode(tail), Text(<<close>>)>>)
                     [] items = <<>> /\ Hugs(n.kind, params) ->
                            HugOf(<<open, ";", "ws">>, HugParts(params[1], as), <<close>>, body)
                     [] OTHER -> body
         [] items = <<>> -> Text(<<open, close>>)
         [] Hugs(n.kind, items) -> HugOf(<<open>>, HugParts(items[1], as), comma, exploded)
         [] OTHER -> exploded
SingletonTuple(n) == n.kind = "TUPLE_EXPR" /\ Len(Items(n)) = 1

(* A bare operator's call of one argument keeps the comma that makes it one.  *)
OperatorCall(n) == IsTok(n.kids[1])
OperatorComma(args) == Len(Items(args)) = 1 /\ HasTok(args, {","}) /\ ParamGroups(args) = <<>>
LowerCall(n) ==
    CASE IsFluent(n) -> LowerDotChain(DotChain(n))
      [] OperatorCall(n) -> Concat(<<Text(<<n.kids[1].tok>>), Lower(n.kids[2], "operator_args")>>)
      [] OTHER -> Verbatim(n)

Applied(callee, args) ==
    LET body == Lower(args, "body") IN IF body.ir = "none" THEN NoBody ELSE Concat(<<LowerNode(callee), body>>)
CallBody(n) ==
    IF Len(n.kids) = 2 /\ ~IsTok(n.kids[1]) /\ n.kids[2].kind = "ARG_LIST" /\ ~CommentWithin(n.kids[1])
    THEN Applied(n.kids[1], n.kids[2]) ELSE NoBody

(* The subject of an index yields first, and the index rides its bracket.     *)
ChainRootIsName(n) == (n.kind = "NAME" \/ (n.kind = "BINARY_EXPR" /\ HasTok(n, {"."}))) /\ ~CommentWithin(n)
IndexBody(n) ==
    LET subject == Lower(n.kids[1], "body")
    IN CASE Len(n.kids) # 2 -> NoBody
         [] subject.ir # "none" -> Concat(<<subject, LowerNode(n.kids[2])>>)
         [] ChainRootIsName(n.kids[1]) -> Applied(n.kids[1], n.kids[2])
         [] OTHER -> NoBody

(* lower_for_binding: for x = xs and for x in xs are both for x in xs. A      *)
(* loop's for stands outside its binding.                                     *)
ForSpecIr(spec) ==
    IF Len(spec) = 1 THEN Concat(<<LowerNode(Nodes(spec[1])[1]), Text(<<"ws", "in", "ws">>), LowerNode(Nodes(spec[1])[2])>>)
    ELSE Concat(<<LowerNode(spec[1]), Text(<<"ws", "in", "ws">>), LowerNode(spec[3])>>)
ForSpecOk(spec) ==
    \/ Len(spec) = 1 /\ spec[1].kind = "ASSIGNMENT_EXPR" /\ ~Commented(spec[1])
    \/ Len(spec) = 3 /\ spec[2].tok = "in"
SpecsOf(items) ==
    FoldLeft(LAMBDA specs, k : IF k.tok = "," THEN Append(specs, <<>>)
                               ELSE [specs EXCEPT ![Len(specs)] = Append(@, k)], <<<<>>>>, items)
BindingSpecs(n) == SpecsOf(SelectSeq(Significant(n), LAMBDA k : k.tok # "for"))
UnmodeledBinding(n) == Commented(n) \/ \E k \in DOMAIN BindingSpecs(n) : ~ForSpecOk(BindingSpecs(n)[k])
LowerForBinding(n) ==
    LET specs == BindingSpecs(n)
    IN IF UnmodeledBinding(n) THEN Verbatim(n)
       ELSE Concat((IF HasTok(n, {"for"}) THEN <<Text(<<"for", "ws">>)>> ELSE <<>>)
                     \o Joint([k \in DOMAIN specs |-> ForSpecIr(specs[k])], <<CommaSpace>>))
ComprehensionBody(n) ==
    LET clause(k) == IF k.kind = "COMPREHENSION_IF" THEN Concat(<<Text(<<"if", "ws">>), LowerNode(Nodes(k)[1])>>)
                     ELSE LowerNode(k)
        parts == [k \in DOMAIN Nodes(n) |-> clause(Nodes(n)[k])]
    IN IF CommentWithin(n) \/ ~IsTok(n.kids[1]) THEN NoBody
       ELSE Framed(n.kids[1].tok, Joint(parts, <<Line>>), Last(n.kids).tok)

(* construct_reflow_body                                                      *)
Body(n) ==
    CASE n.kind \in BareLiterals -> LowerList(n, "body", SingletonTuple(n))
      [] n.kind = "ARG_LIST" -> LowerList(n, "body", FALSE)
      [] n.kind = "PAREN_EXPR" -> ParenBody(n)
      [] n.kind \in {"CALL_EXPR", "CURLY_EXPR"} -> CallBody(n)
      [] n.kind = "INDEX_EXPR" -> IndexBody(n)
      [] n.kind \in {"COMPREHENSION", "GENERATOR"} -> ComprehensionBody(n)
      [] OTHER -> NoBody
Grouped(n, body) == IF body.ir = "none" THEN Verbatim(n) ELSE Group(body)

(* ----------------------------- Block bodies ------------------------------ *)
(* collect_body_lines: the source lines of a body, each its statements and    *)
(* perhaps a comment; a top-level line with semicolons is opened, and one     *)
(* after its last statement, which mutes its value, is kept.                  *)
BlankSourceLine == [stmts |-> <<>>, comment |-> <<>>, muted |-> FALSE]
BodyElements(n) ==
    FlattenSeq([k \in DOMAIN n.kids |->
        IF n.kids[k].kind = "TOPLEVEL_SEMICOLON" THEN n.kids[k].kids ELSE <<n.kids[k]>>])
BodyLines(n) ==
    LET onto(lines, k) ==
            CASE k.tok = "nl" -> Append(lines, BlankSourceLine)
              [] k.tok = "ws" -> lines
              [] k.tok = LineComment -> [lines EXCEPT ![Len(lines)].comment = <<Text(<<LineComment>>)>>]
              [] k.tok = ";" -> [lines EXCEPT ![Len(lines)].muted = n.kind = "ROOT" /\ Last(lines).stmts # <<>>]
              [] OTHER -> [lines EXCEPT ![Len(lines)].stmts = Append(@, LowerNode(k)), ![Len(lines)].muted = FALSE]
    IN FoldLeft(onto, <<BlankSourceLine>>, BodyElements(n))
BodyLine(line) ==
    IF line.stmts = <<>> THEN <<HardLine>> \o line.comment
    ELSE FlattenSeq([k \in DOMAIN line.stmts |-> <<HardLine, line.stmts[k]>>])
             \o (IF line.muted THEN <<Text(<<";">>)>> ELSE <<>>)
             \o (IF line.comment = <<>> THEN <<>> ELSE <<Space>> \o line.comment)

(* Every statement on a line of its own; of a run of blank lines one stays.   *)
UsedLines(lines) == {k \in DOMAIN lines : lines[k].stmts # <<>> \/ lines[k].comment # <<>>}
Content(lines) ==
    LET used == UsedLines(lines)
        blank(k) == k - 1 \notin used /\ \E j \in used : j < k
    IN FlattenSeq([k \in DOMAIN lines |->
           IF k \notin used THEN <<>> ELSE (IF blank(k) THEN <<BlankLine>> ELSE <<>>) \o BodyLine(lines[k])])

LowerRoot(n) ==
    LET content == Content(BodyLines(n))
    IN IF content = <<>> THEN Text(<<>>) ELSE Concat(Tail(content) \o <<HardLine>>)

(* build_block_body: only a module keeps a blank line at each end.            *)
BoundaryBlanks(lines) ==
    LET used == UsedLines(lines)
    IN [leading |-> IF \E k \in used : k > 2 /\ \A j \in used : k <= j THEN <<BlankLine>> ELSE <<>>,
        trailing |-> IF \A k \in used : k < Len(lines) - 1 THEN <<BlankLine>> ELSE <<>>]
ModuleContent(lines) == BoundaryBlanks(lines).leading \o Content(lines) \o BoundaryBlanks(lines).trailing

(* module_should_indent: a module that stands alone, or in a block that is no *)
(* module's, has its body flush.                                              *)
RECURSIVE Flushed(_, _)
Flushed(n, alone) ==
    IF n.kind = "MODULE_DEF" THEN (IF alone THEN [n EXCEPT !.tok = "flush"] ELSE n)
    ELSE [n EXCEPT !.kids = [k \in DOMAIN n.kids |-> Flushed(n.kids[k], n.kind # "ROOT" \/ Len(Nodes(n)) = 1)]]
ModuleShouldIndent(n) == n.tok # "flush"

IsClause(k) == k.kind \in {"ELSEIF_CLAUSE", "ELSE_CLAUSE", "CATCH_CLAUSE", "FINALLY_CLAUSE"}
BlockOf(n) == SelectSeq(n.kids, LAMBDA k : k.kind = "BLOCK")[1]
BlockIsEmpty(block) == \A k \in DOMAIN block.kids : block.kids[k].tok \in {"ws", "nl", ";"}
LowerBlockBody(n) ==
    LET lines == BodyLines(BlockOf(n))
    IN CASE BlockIsEmpty(BlockOf(n)) -> <<>>
         [] n.kind # "MODULE_DEF" -> <<Indent(Concat(Content(lines)))>>
         [] ModuleShouldIndent(n) -> <<Indent(Concat(ModuleContent(lines)))>>
         [] OTHER -> ModuleContent(lines)

(* What precedes a body: keywords, then the header, which breaks deeper than  *)
(* the body where it is a condition or a loop's binding.                      *)
LowerControlHeader(h) == IF h.kind \in {"CONDITION", "FOR_BINDING"} THEN Indent(LowerNode(h)) ELSE LowerNode(h)
BlockHead(n) ==
    LET keywords == SelectSeq(n.kids, LAMBDA k : IsTok(k) /\ k.tok \notin Trivia \cup {"end"})
        headers == SelectSeq(Nodes(n), LAMBDA k : k.kind # "BLOCK" /\ ~IsClause(k))
    IN Concat(Joint([k \in DOMAIN keywords |-> Text(<<keywords[k].tok>>)]
                        \o [k \in DOMAIN headers |-> LowerControlHeader(headers[k])], <<Space>>))
LowerDoHead(n) ==
    LET params == SelectSeq(n.kids, LAMBDA k : k.kind = "DO_PARAMS")
    IN Concat(<<LowerNode(Nodes(n)[1]), Text(<<"ws", "do">>)>>
                \o (IF params = <<>> THEN <<>> ELSE <<Space>> \o Joint(Each(Nodes(params[1])), <<CommaSpace>>)))
DanglingComma(n) == \E k \in DOMAIN n.kids : n.kids[k].kind = "DO_PARAMS" /\ IsTok(Last(Significant(n.kids[k])))

LowerBranchClause(k) == <<HardLine, BlockHead(k)>> \o LowerBlockBody(k)

(* lower_block_expr, lower_struct, lower_function, lower_do, lower_module,    *)
(* lower_let, lower_loop, lower_if and lower_try: an empty body shares a line *)
(* with its end, unless clauses do.                                           *)
LowerBlockForm(n) ==
    LET clauses == SelectSeq(n.kids, IsClause)
        head == IF n.kind = "DO_EXPR" THEN LowerDoHead(n) ELSE BlockHead(n)
    IN CASE Commented(n) \/ DanglingComma(n) -> Verbatim(n)
         [] clauses = <<>> /\ BlockIsEmpty(BlockOf(n)) -> Concat(<<head, Text(<<"ws", "end">>)>>)
         [] OTHER -> Concat(<<head>> \o LowerBlockBody(n)
                              \o FlattenSeq([k \in DOMAIN clauses |-> LowerBranchClause(clauses[k])])
                              \o <<HardLine, Text(<<"end">>)>>)

Lower(n, as) ==
    CASE as = "body" -> Body(n)
      [] as = "operator_args" -> LowerList(n, as, OperatorComma(n))
      [] n.kind \in {"BINARY_EXPR", "ASSIGNMENT_EXPR"} -> LowerBinary(n)
      [] n.kind = "ARROW_EXPR" -> LowerArrow(n)
      [] n.kind = "WHERE_EXPR" -> LowerWhere(n)
      [] n.kind \in {"COMPARISON_EXPR", "TERNARY_EXPR"} -> LowerAlternating(n)
      [] n.kind = "RANGE_EXPR" -> LowerTight(n, <<":">>)
      [] n.kind = "TYPE_ANNOTATION" -> LowerTight(n, <<"::">>)
      [] n.kind = "KEYWORD_ARG" -> LowerTight(n, <<"ws", "=", "ws">>)
      [] n.kind = "UNARY_EXPR" -> LowerUnary(n)
      [] n.kind = "SPLAT_EXPR" -> LowerSplat(n)
      [] n.kind = "ARG_LIST" -> LowerList(n, as, FALSE)
      [] n.kind \in BareLiterals -> LowerList(n, as, SingletonTuple(n))
      [] n.kind = "CALL_EXPR" -> LowerCall(n)
      [] n.kind \in {"INDEX_EXPR", "COMPREHENSION", "GENERATOR", "PAREN_EXPR"} -> Grouped(n, Body(n))
      [] n.kind = "PAREN_BLOCK" -> LowerParenBlock(n)
      [] n.kind \in {"BARE_TUPLE_EXPR", "LET_BINDINGS"} -> LowerCommaList(n)
      [] n.kind = "PARAMETERS" -> LowerParameters(n)
      [] n.kind = "FOR_BINDING" -> LowerForBinding(n)
      [] n.kind \in KeywordStmts -> LowerKeywordStmt(n)
      [] n.kind \in {"BREAK_EXPR", "CONTINUE_EXPR"} -> LowerBreakStmt(n)
      [] n.kind \in BlockForms \cup {"DO_EXPR"} -> LowerBlockForm(n)
      [] n.kind = "ROOT" -> LowerRoot(n)
      [] OTHER -> Verbatim(n)
===============================================================================
