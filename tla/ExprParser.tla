------------------------------ MODULE ExprParser ------------------------------
(* The parser (fatou-parser/src/parser/: core.rs, structural.rs, expr.rs and  *)
(* expr/): tokens to a lossless tree, expressions by precedence climbing, the *)
(* block forms by descent. One recursive operator, Parse, runs a job: a       *)
(* record whose rule names the Rust function, with its arguments and, for a   *)
(* loop, what the loop carries. A parse that records a diagnostic is Invalid: *)
(* recovery is not modelled, nor are strings, macros, quotes, matrices, type  *)
(* declarations, imports and operators used as values.                        *)
EXTENDS Integers, Sequences

Words == {"a", "b", "c", "longname", "in"}
Numbers == {"1"}
LineComment == "# note"
Trivia == {"ws", "nl", LineComment}
Openers == {"(", "[", "{"}
Closers == {")", "]", "}"}
Comparisons == {"==", "<:"}
Chained == {"+", "*"}
UnaryOps == {"+", "-", "!", "<:", "::"}
Declarations == {"const", "global", "local"}
ClauseKeywords == {"end", "elseif", "else", "catch", "finally"}
BlockKeywords == {"begin", "quote", "if", "while", "for", "let", "try", "function", "macro", "struct",
                  "mutable", "module", "baremodule"}
Reserved == (BlockKeywords \ {"mutable"}) \cup ClauseKeywords \cup Declarations
                \cup {"do", "break", "continue", "return"}

(* Left and right binding power of an infix operator; -1 binds nothing.       *)
Power(op) ==
    CASE op = "=" -> <<2, 1>> [] op = "?" -> <<3, 2>> [] op = "=>" -> <<4, 3>>
      [] op = "||" -> <<6, 5>> [] op = "&&" -> <<8, 7>>
      [] op \in Comparisons \cup {"in"} -> <<10, 11>>
      [] op = "|>" -> <<13, 14>> [] op = ":" -> <<14, 15>>
      [] op \in {"+", "-"} -> <<20, 21>> [] op = "*" -> <<24, 25>>
      [] op \in {"^", ".^"} -> <<34, 33>> [] op = "->" -> <<35, 1>>
      [] op = "::" -> <<36, 37>> [] op = "." -> <<40, 41>> [] OTHER -> <<-1, -1>>
PREFIX_BP == 32
JUXTAPOSE_L == 34
JUXTAPOSE_R == 33
WHERE_BP == 31
WHERE_BOUND_BP == 10
SPLAT_BP == 14
COMMA_BP == 2
COMMA_ITEM_BP == 3

At(t, i) == IF i <= Len(t) THEN t[i] ELSE "eof"
Skip(t, i, kinds) ==
    CHOOSE j \in i..(Len(t) + 1) :
        At(t, j) \notin kinds /\ \A k \in i..(j - 1) : t[k] \in kinds
SkipSpace(t, i) == Skip(t, i, {"ws"})
SkipTrivia(t, i) == Skip(t, i, Trivia)
SkipLines(t, i) == Skip(t, i, {"ws", "nl"})

Leaf(tok) == [kind |-> "TOKEN", tok |-> tok, kids |-> <<>>]
Node(kind, kids) == [kind |-> kind, tok |-> "", kids |-> kids]
Gap(t, from, to) == [k \in 1..(to - from) |-> Leaf(t[from + k - 1])]

(* What a parse returns: a node and the tokens from start up to end, nothing  *)
(* to parse here, or a diagnostic.                                            *)
Got(node, start, end) == [is |-> "node", node |-> node, start |-> start, end |-> end]
NoExpr == [is |-> "none"]
Invalid == [is |-> "invalid"]
Found(r) == r.is = "node"
Atom(kind, t, i) == Got(Node(kind, <<Leaf(t[i])>>), i, i + 1)

RECURSIVE Parse(_, _)
Expr(t, at, bp, flags) == Parse(t, [rule |-> "expr", at |-> at, bp |-> bp, flags |-> flags])
Climb(t, lhs, bp, flags) == Parse(t, [rule |-> "climb", lhs |-> lhs, bp |-> bp, flags |-> flags])
BracketFlags == {"brackets"}

(* build_operands: operands with the tokens between them.                     *)
Joined(t, kind, l, r) ==
    IF Found(l) /\ Found(r)
    THEN Got(Node(kind, <<l.node>> \o Gap(t, l.end, r.start) \o <<r.node>>), l.start, r.end)
    ELSE Invalid

Extended(t, kind, l, r) ==
    IF Found(l) /\ Found(r)
    THEN Got(Node(kind, l.node.kids \o Gap(t, l.end, r.start) \o <<r.node>>), l.start, r.end)
    ELSE Invalid
Grown(t, l, r) == Extended(t, l.node.kind, l, r)
Wrapped(kind, r) == IF Found(r) THEN [r EXCEPT !.node = Node(kind, <<@>>)] ELSE Invalid

(* ------------------------------ Token scans ------------------------------ *)
(* next_operator with word_operator: an operator is looked for past a newline *)
(* only inside brackets. 0 when none follows.                                 *)
InfixTokens == {"=", "?", "=>", "||", "&&", "==", "<:", "|>", ":", "+", "-", "*", "^", ".^",
                "->", "::", ".", "where"}
NextOperator(t, from, flags) ==
    LET i == IF At(t, SkipSpace(t, from)) = "nl" /\ "brackets" \in flags
             THEN SkipLines(t, from) ELSE SkipSpace(t, from)
        words == IF "for_var" \in flags THEN {} ELSE {"in"}
    IN IF At(t, i) \in InfixTokens \cup words THEN i ELSE 0

(* Inside an array, an operator with a space before and none after starts the *)
(* next element.                                                              *)
ArrayElementBoundary(t, end, op) ==
    op > end /\ t[op] \in {"+", "-", ":"} /\ At(t, op + 1) \notin {"ws", "nl", "eof"}

(* The tokens directly inside the bracket at i, not in a nested one.          *)
Depth(t, i, k) ==
    LET count(set) == Len(SelectSeq(SubSeq(t, i + 1, k - 1), LAMBDA x : x \in set))
    IN count(Openers) - count(Closers)
DirectlyIn(t, i) ==
    LET close == CHOOSE k \in (i + 1)..(Len(t) + 1) :
            /\ k > Len(t) \/ (t[k] \in Closers /\ Depth(t, i, k) = 0)
            /\ \A m \in (i + 1)..(k - 1) : t[m] \in Closers => Depth(t, i, m) # 0
    IN {t[k] : k \in {m \in (i + 1)..(close - 1) : Depth(t, i, m) = 0}}

(* A semicolon in parentheses makes a block of them, unless a comma, a splat  *)
(* or a leading semicolon makes a tuple. (A second leading semicolon is not   *)
(* modelled.)                                                                 *)
ParenIsBlock(t, i) ==
    LET inside == DirectlyIn(t, i)
    IN /\ ";" \in inside /\ "," \notin inside /\ "..." \notin inside
       /\ At(t, SkipTrivia(t, i + 1)) # ";"
ParenListKind(t, i) == IF ParenIsBlock(t, i) THEN "PAREN_BLOCK" ELSE "TUPLE_EXPR"
UnaryOpParenIsCall(t, i) ==
    \/ At(t, SkipTrivia(t, i + 1)) \in {")", ";"}
    \/ DirectlyIn(t, i) \cap {",", "..."} # {}

(* A block form takes operators and nothing else, a do block ends a chain,    *)
(* and parentheses around a block form are no factor of a product.            *)
BlockForms == {"BEGIN_EXPR", "QUOTE_EXPR", "IF_EXPR", "WHILE_EXPR", "FOR_EXPR", "LET_EXPR", "TRY_EXPR",
               "FUNCTION_DEF", "MACRO_DEF", "STRUCT_DEF", "MODULE_DEF"}
Sealed(l) == l.node.kind \in BlockForms \cup {"DO_EXPR"}
ParenBlockForm(n) == n.kind = "PAREN_EXPR" /\ \E k \in DOMAIN n.kids : n.kids[k].kind \in BlockForms

IsNumber(l) == l.node.kind = "LITERAL"
ValueCloseKinds == {"PAREN_EXPR", "CALL_EXPR", "INDEX_EXPR", "CURLY_EXPR", "VECT_EXPR", "JUXTAPOSE_EXPR",
                    "UNARY_EXPR"}
Juxtaposes(t, l, bp, flags) ==
    LET next == At(t, l.end)
    IN /\ "no_juxtapose" \notin flags /\ JUXTAPOSE_L >= bp /\ ~ParenBlockForm(l.node)
       /\ next \in (Words \ {"in"}) \cup Numbers \cup Openers \cup {"!"}
       /\ IsNumber(l) \/ (next \notin Numbers /\ l.node.kind \in ValueCloseKinds)
SignedLiteral(t, i) ==
    /\ t[i] \in {"+", "-"} /\ At(t, i + 1) \in Numbers
    /\ At(t, SkipSpace(t, i + 2)) \notin {"^", ".^", "[", "{"}

(* ------------------------------- Prefixes -------------------------------- *)
Close(open) == CASE open = "(" -> ")" [] open = "[" -> "]" [] open = "{" -> "}"
List(t, open, kind) ==
    Parse(t, [rule |-> "list", open |-> open, kind |-> kind, at |-> open + 1,
              kids |-> <<Leaf(t[open])>>, params |-> <<>>, empty |-> TRUE])
Clauses(t, at) == Parse(t, [rule |-> "clauses", start |-> at, at |-> at, kids |-> <<>>])

(* parse_comprehension: the generator's clauses up to the closing bracket.    *)
Closed(t, kind, open, first, clauses) ==
    LET close == SkipTrivia(t, clauses.end)
    IN IF Found(clauses) /\ At(t, close) = Close(t[open])
       THEN Got(Node(kind, Gap(t, open, first.start) \o <<first.node>> \o clauses.node.kids
                             \o Gap(t, clauses.end, close + 1)), open, close + 1)
       ELSE Invalid
Comprehension(t, kind, open, first) == Closed(t, kind, open, first, Clauses(t, first.end))

ParenOf(t, i, inner) ==
    IF ~Found(inner) THEN Invalid
    ELSE LET next == SkipTrivia(t, inner.end)
         IN CASE At(t, next) = "for" -> Comprehension(t, "GENERATOR", i, inner)
              [] At(t, next) \in {",", ";"} -> List(t, i, ParenListKind(t, i))
              [] At(t, next) = ")" ->
                     Got(Node("PAREN_EXPR", Gap(t, i, inner.start) \o <<inner.node>>
                                              \o Gap(t, inner.end, next + 1)), i, next + 1)
              [] OTHER -> Invalid
Paren(t, i) ==
    LET inner == SkipTrivia(t, i + 1)
    IN CASE At(t, inner) = ")" -> Got(Node("TUPLE_EXPR", Gap(t, i, inner + 1)), i, inner + 1)
         [] At(t, inner) = ";" -> List(t, i, ParenListKind(t, i))
         [] OTHER -> ParenOf(t, i, Expr(t, inner, 0, BracketFlags))

(* parse_delimited_literal: what follows the first element decides; a second  *)
(* element without a comma would be a matrix.                                 *)
DelimitedOf(t, i, first) ==
    LET look == SkipTrivia(t, first.end)
    IN CASE At(t, look) = "for" -> Comprehension(t, "COMPREHENSION", i, first)
         [] At(t, look) \in {",", Close(t[i])} -> List(t, i, IF t[i] = "[" THEN "VECT_EXPR" ELSE "BRACES")
         [] OTHER -> Invalid
Delimited(t, i) ==
    LET inner == SkipTrivia(t, i + 1)
    IN IF At(t, inner) = Close(t[i]) THEN List(t, i, IF t[i] = "[" THEN "VECT_EXPR" ELSE "BRACES")
       ELSE LET first == Expr(t, inner, 0, {"array"})
            IN IF Found(first) THEN DelimitedOf(t, i, first) ELSE Invalid

(* A unary operator heads a call when its parentheses hold an argument list.  *)
UnaryCall(t, i, args) ==
    IF Found(args) THEN Got(Node("CALL_EXPR", <<Leaf(t[i]), args.node>>), i, args.end) ELSE Invalid
UnaryFlags(op, flags) ==
    IF op = "<:" THEN flags \ {"no_range", "no_juxtapose"}
    ELSE (flags \ {"no_range"}) \cup {"no_where", "no_juxtapose"}
UnaryOf(t, i, operand) ==
    IF ~Found(operand) THEN Invalid
    ELSE Got(Node(IF t[i] = "::" THEN "TYPE_ANNOTATION" ELSE "UNARY_EXPR",
                  Gap(t, i, operand.start) \o <<operand.node>>), i, operand.end)
Unary(t, i, flags) ==
    LET paren == SkipSpace(t, i + 1)
        newline_significant == "brackets" \notin flags \/ "array" \in flags
    IN CASE t[i] # "::" /\ At(t, paren) = "(" /\ UnaryOpParenIsCall(t, paren) ->
                IF paren > i + 1 THEN Invalid ELSE UnaryCall(t, i, List(t, paren, "ARG_LIST"))
         [] newline_significant /\ At(t, paren) = "nl" /\ t[i] # "::" -> Invalid
         [] OTHER -> UnaryOf(t, i, Expr(t, SkipTrivia(t, i + 1), IF t[i] = "<:" THEN WHERE_BP ELSE PREFIX_BP,
                                        UnaryFlags(t[i], flags)))

Prefix(t, i, flags) ==
    CASE At(t, i) \in Words \cup {"where"} -> Atom("NAME", t, i)
      [] At(t, i) \in Numbers -> Atom("LITERAL", t, i)
      [] At(t, i) \in UnaryOps ->
             IF SignedLiteral(t, i) THEN Got(Node("LITERAL", Gap(t, i, i + 2)), i, i + 2) ELSE Unary(t, i, flags)
      [] At(t, i) = "(" -> Paren(t, i)
      [] At(t, i) \in {"[", "{"} -> Delimited(t, i)
      [] At(t, i) \in InfixTokens -> Invalid
      [] OTHER -> NoExpr

(* --------------------------- Keyword statements -------------------------- *)
HeaderEnds(t, i) == At(t, i) \in {"eof", "nl", ";", LineComment} \cup ClauseKeywords \cup Closers
StatementKind(keyword) ==
    CASE keyword = "return" -> "RETURN_EXPR" [] keyword = "const" -> "CONST_STMT"
      [] keyword = "global" -> "GLOBAL_STMT" [] keyword = "local" -> "LOCAL_STMT"
      [] keyword = "break" -> "BREAK_EXPR" [] keyword = "continue" -> "CONTINUE_EXPR"
Keyword(kind, t, i) == Atom(kind, t, i)

(* A const declares by assignment, perhaps behind a global or a local.        *)
RECURSIVE Assigns(_)
Assigns(n) ==
    \/ n.kind = "ASSIGNMENT_EXPR"
    \/ n.kind \in {"GLOBAL_STMT", "LOCAL_STMT"} /\ \E k \in DOMAIN n.kids : Assigns(n.kids[k])

(* parse_keyword_stmt: a statement's operand, commas and all, wherever it     *)
(* stands; where a generator may follow, a for ends it. return needs no       *)
(* operand, a declaration without one is left out.                            *)
ForEnds(flags) == "stmt_comma" \notin flags \/ "generator_body" \in flags
KeywordStmtOf(t, i, at, operand, for_ends) ==
    LET value == IF Found(operand) THEN <<operand.node>> ELSE <<>>
        end == IF Found(operand) THEN operand.end ELSE at
        for == for_ends /\ At(t, SkipSpace(t, end)) = "for"
        stop == IF for THEN end ELSE SkipSpace(t, end)
    IN CASE operand.is = "invalid" \/ ~(for \/ HeaderEnds(t, stop)) -> Invalid
         [] t[i] # "return" /\ value = <<>> -> Invalid
         [] t[i] = "const" /\ ~Assigns(operand.node) -> Invalid
         [] value = <<>> /\ At(t, at) \in Closers -> Keyword("RETURN_EXPR", t, i)
         [] OTHER -> Got(Node(StatementKind(t[i]), Gap(t, i, at) \o value \o Gap(t, end, stop)), i, stop)
KeywordStmt(t, i, flags) ==
    LET at == IF t[i] = "return" THEN SkipSpace(t, i + 1) ELSE SkipTrivia(t, i + 1)
        inherited == IF ForEnds(flags) THEN {"generator_body"} ELSE {}
    IN KeywordStmtOf(t, i, at, IF HeaderEnds(t, at) THEN NoExpr ELSE Expr(t, at, 0, {"stmt_comma"} \cup inherited),
                     ForEnds(flags))

(* parse_break_label: break and continue may name a block, and break give its *)
(* value. The colon of a ternary ends them; a comma after a bare one is       *)
(* reported.                                                                  *)
BreakStmt(t, i, flags) ==
    LET label == SkipSpace(t, i + 1)
        value == SkipSpace(t, label + 1)
        ends(k) == HeaderEnds(t, k) \/ (At(t, k) = ":" /\ "no_range" \in flags)
        labelled == Joined(t, StatementKind(t[i]), Got(Leaf(t[i]), i, i + 1), Atom("NAME", t, label))
    IN CASE ends(label) -> Keyword(StatementKind(t[i]), t, i)
         [] At(t, label) \notin Words -> Invalid
         [] t[i] = "continue" \/ ends(value) \/ At(t, value) = "," -> labelled
         [] OTHER -> Grown(t, labelled, Expr(t, value, 0, {}))

(* -------------------------------- Blocks --------------------------------- *)
(* run_block_inner: trivia, semicolons and statements up to a stop. A         *)
(* statement needs a newline or a semicolon between it and the one before.    *)
Block(t, at, stops) == Parse(t, [rule |-> "block", start |-> at, at |-> at, stops |-> stops, kids |-> <<>>])
BlockStatement(t, j, stmt) ==
    IF Found(stmt) THEN Parse(t, [j EXCEPT !.at = stmt.end, !.kids = Append(@, stmt.node)]) ELSE Invalid
BlockBody(t, j) ==
    LET next == Skip(t, j.at, (Trivia \cup {";"}) \ j.stops)
        kids == j.kids \o Gap(t, j.at, next)
        separated == j.at = j.start \/ \E k \in j.at..(next - 1) : t[k] \in {"nl", ";"}
    IN CASE At(t, next) \in j.stops \cup {"eof"} -> Got(Node("BLOCK", kids), j.start, next)
         [] separated -> BlockStatement(t, [j EXCEPT !.kids = kids], Expr(t, next, 0, {"stmt_comma"}))
         [] OTHER -> Invalid

Opened(kind, t, i) == Keyword(kind, t, i)
WithBlock(t, l, stops) == Grown(t, l, Block(t, l.end, stops))
WithHeader(t, l, kind, flags) == Grown(t, l, Wrapped(kind, Expr(t, SkipSpace(t, l.end), 0, flags)))
WithCondition(t, l) == WithHeader(t, l, "CONDITION", {})
WithEnd(t, l) == IF Found(l) /\ At(t, l.end) = "end" THEN Grown(t, l, Got(Leaf("end"), l.end, l.end + 1)) ELSE Invalid
Ended(t, l) == WithEnd(t, WithBlock(t, l, {"end"}))

(* parse_header and parse_do_params: names or bindings with commas between;   *)
(* a newline may follow the comma of a let.                                   *)
HeaderItem(t, j, item) ==
    LET comma == SkipSpace(t, item.end)
        past == SkipTrivia(t, comma + 1)
        at == CASE j.kind = "DO_PARAMS" -> SkipSpace(t, comma + 1)
                [] HeaderEnds(t, past) -> comma + 1
                [] OTHER -> past
    IN CASE item.is = "none" /\ j.kids # <<>> -> Got(Node(j.kind, j.kids), j.start, j.at)
         [] ~Found(item) -> Invalid
         [] At(t, comma) = "," ->
                Parse(t, [j EXCEPT !.kids = Append(@, item.node) \o Gap(t, item.end, at), !.at = at])
         [] OTHER -> Got(Node(j.kind, Append(j.kids, item.node)), j.start, item.end)
PastSpace(t, l) ==
    LET at == SkipSpace(t, l.end) IN [l EXCEPT !.node.kids = @ \o Gap(t, l.end, at), !.end = at]
WithList(t, l, kind) ==
    LET at == SkipSpace(t, l.end)
    IN IF HeaderEnds(t, at) THEN PastSpace(t, l)
       ELSE Grown(t, l, Parse(t, [rule |-> "header", start |-> at, at |-> at, kind |-> kind, kids |-> <<>>]))
DoBlock(t, l, do) ==
    Ended(t, WithList(t, Got(Node("DO_EXPR", <<l.node>> \o Gap(t, l.end, do + 1)), l.start, do + 1), "DO_PARAMS"))

(* -------------------------------- Postfix -------------------------------- *)
OpensPostfix(t, l, flags) ==
    LET i == SkipSpace(t, l.end)
    IN \/ /\ At(t, i) \in Openers
          /\ ~("array" \in flags /\ i > l.end)
          /\ ~(At(t, i) = "(" /\ IsNumber(l))
       \/ At(t, i) = "." /\ At(t, SkipSpace(t, i + 1)) = "("
PostfixKind(open) ==
    CASE open = "(" -> "CALL_EXPR" [] open = "[" -> "INDEX_EXPR" [] open = "{" -> "CURLY_EXPR"
PostfixList(t, l, open) == Joined(t, PostfixKind(t[open]), l, List(t, open, "ARG_LIST"))

(* A lone generator argument owns the parentheses, unless parameters follow.  *)
PostfixOf(t, l, open, first, clauses) ==
    CASE ~Found(first) -> PostfixList(t, l, open)
      [] At(t, SkipTrivia(t, first.end)) # "for" ->
             IF t[open] = "[" /\ At(t, SkipTrivia(t, first.end)) \notin {",", "]"} THEN Invalid
             ELSE PostfixList(t, l, open)
      [] t[open] = "(" /\ Found(clauses) /\ At(t, SkipTrivia(t, clauses.end)) = ";" -> PostfixList(t, l, open)
      [] t[open] = "(" -> Joined(t, "CALL_EXPR", l, Closed(t, "GENERATOR", open, first, clauses))
      [] OTHER -> Invalid
PostfixFirst(t, l, open, first) ==
    PostfixOf(t, l, open, first, IF Found(first) THEN Clauses(t, first.end) ELSE Invalid)
Postfix(t, l) ==
    LET i == SkipSpace(t, l.end)
        inner == SkipTrivia(t, i + 1)
    IN CASE t[i] = "." ->
                IF i > l.end \/ At(t, i + 1) # "(" THEN Invalid
                ELSE Joined(t, "DOT_CALL_EXPR", l, List(t, i + 1, "ARG_LIST"))
         [] i > l.end -> Invalid
         [] At(t, inner) = Close(t[i]) -> PostfixList(t, l, i)
         [] OTHER -> PostfixFirst(t, l, i, Expr(t, inner, 0, BracketFlags))

(* ------------------------------- Operators ------------------------------- *)
Juxtaposed(l, r) ==
    IF ~Found(r) THEN Invalid
    ELSE Got(Node("JUXTAPOSE_EXPR", (IF l.node.kind = "JUXTAPOSE_EXPR" THEN l.node.kids ELSE <<l.node>>) \o <<r.node>>),
             l.start, r.end)

OperatorNodeKind(op) ==
    CASE op = "=" -> "ASSIGNMENT_EXPR" [] op = "->" -> "ARROW_EXPR" [] op = "::" -> "TYPE_ANNOTATION"
      [] OTHER -> "BINARY_EXPR"

(* Parentheses before an arrow are its parameters, unless they wrap a where.  *)
WrapsWhere(n) == \E k \in DOMAIN n.kids : n.kids[k].kind = "WHERE_EXPR"
ReclassifyArrowParameters(l) ==
    IF l.node.kind \in {"PAREN_EXPR", "PAREN_BLOCK"} /\ ~WrapsWhere(l.node)
    THEN [l EXCEPT !.node.kind = "TUPLE_EXPR"] ELSE l

(* An annotation takes the where clauses after its type, but that of a        *)
(* signature leaves them to the signature.                                    *)
Annotated(t, r, flags) ==
    LET op == NextOperator(t, r.end, flags)
    IN IF Found(r) /\ {"no_where", "no_decl_where"} \cap flags = {} /\ op # 0 /\ At(t, op) = "where"
       THEN Parse(t, [rule |-> "where", lhs |-> r, op |-> op, flags |-> flags]) ELSE r
Binary(t, l, op, flags) ==
    LET at == SkipTrivia(t, op + 1)
        right == Power(t[op])[2]
    IN CASE t[op] = "." -> IF op > l.end THEN Invalid ELSE Joined(t, "BINARY_EXPR", l, Prefix(t, at, flags))
         [] t[op] = "::" -> Joined(t, "TYPE_ANNOTATION", l, Annotated(t, Expr(t, at, right, flags \ {"no_juxtapose"}), flags))
         [] OTHER -> Joined(t, OperatorNodeKind(t[op]), IF t[op] = "->" THEN ReclassifyArrowParameters(l) ELSE l,
                            Expr(t, at, right, flags \ {"no_juxtapose"}))

(* A ternary needs space around ? and : ; a bare colon ends its first branch. *)
TernaryThen(t, cond, q, then, flags) ==
    LET colon == IF "brackets" \in flags THEN SkipLines(t, then.end) ELSE SkipSpace(t, then.end)
    IN IF /\ Found(then) /\ At(t, colon) = ":" /\ colon > then.end /\ At(t, colon + 1) \in Trivia
          /\ q > cond.end /\ At(t, q + 1) \in Trivia
       THEN Extended(t, "TERNARY_EXPR", Joined(t, "TERNARY_EXPR", cond, then),
                     Expr(t, SkipTrivia(t, colon + 1), COMMA_BP, flags \ {"array", "stmt_comma"}))
       ELSE Invalid
Ternary(t, cond, q, flags) ==
    TernaryThen(t, cond, q, Expr(t, SkipTrivia(t, q + 1), COMMA_BP,
                                 (flags \cup {"no_range"}) \ {"array", "stmt_comma"}), flags)

Infix(t, l, op, flags) ==
    CASE t[op] = ":" -> Parse(t, [rule |-> "range", sofar |-> l, op |-> op, half |-> FALSE, flags |-> flags])
      [] t[op] \in Comparisons \cup Chained ->
             Parse(t, [rule |-> "chain", sofar |-> l, op |-> op, first |-> TRUE, flags |-> flags])
      [] t[op] = "?" -> Ternary(t, l, op, flags)
      [] OTHER -> Binary(t, l, op, flags)

(* One round of the operator loop of parse_expr_in: the alternatives in the   *)
(* order the code tries them.                                                 *)
Boundary(t, end, op, flags) == "array" \in flags /\ ArrayElementBoundary(t, end, op)
Stops(t, l, op, bp, flags) ==
    \/ op = 0
    \/ Boundary(t, l.end, op, flags)
    \/ "no_range" \in flags /\ t[op] = ":"
    \/ Power(t[op])[1] < bp
Round(t, l, op, bp, flags) ==
    LET next == SkipSpace(t, l.end) IN
    IF ~Sealed(l) /\ OpensPostfix(t, l, flags) THEN Climb(t, Postfix(t, l), bp, flags)
    ELSE IF ~Sealed(l) /\ At(t, next) = "do" THEN Climb(t, DoBlock(t, l, next), bp, flags)
    ELSE IF ~Sealed(l) /\ Juxtaposes(t, l, bp, flags)
    THEN Climb(t, Juxtaposed(l, Expr(t, l.end, JUXTAPOSE_R, flags \cup {"no_juxtapose"})), bp, flags)
    ELSE IF SPLAT_BP >= bp /\ At(t, next) = "..."
    THEN Climb(t, Got(Node("SPLAT_EXPR", <<l.node>> \o Gap(t, l.end, next + 1)), l.start, next + 1), bp, flags)
    ELSE IF "no_where" \notin flags /\ WHERE_BP >= bp /\ op # 0 /\ At(t, op) = "where"
    THEN Climb(t, Parse(t, [rule |-> "where", lhs |-> l, op |-> op, flags |-> flags]), bp, flags)
    ELSE IF "stmt_comma" \in flags /\ bp <= COMMA_BP /\ At(t, next) = ","
    THEN Climb(t, Parse(t, [rule |-> "commas", start |-> l.start, at |-> l.end, kids |-> <<l.node>>,
                            flags |-> flags]), bp, flags)
    ELSE IF Stops(t, l, op, bp, flags) THEN l
    ELSE Climb(t, Infix(t, l, op, flags), bp, flags)

(* ------------------------- The loops Parse carries ------------------------ *)
WhereStep(t, j, l) ==
    LET next == NextOperator(t, l.end, j.flags)
    IN IF Found(l) /\ next # 0 /\ At(t, next) = "where" THEN Parse(t, [j EXCEPT !.lhs = l, !.op = next]) ELSE l
WhereChain(t, j) ==
    WhereStep(t, j, Joined(t, "WHERE_EXPR", j.lhs,
                           Expr(t, SkipTrivia(t, j.op + 1), WHERE_BOUND_BP, j.flags \cup {"no_where"})))

(* parse_comma_tuple: an item may start on a later line; a comma before an    *)
(* assignment is the last.                                                    *)
CommaItem(t, j, comma, item) ==
    IF item.is = "invalid" THEN Invalid
    ELSE IF ~Found(item)
    THEN Got(Node("BARE_TUPLE_EXPR", j.kids \o Gap(t, j.at, comma + 1)), j.start, comma + 1)
    ELSE Parse(t, [j EXCEPT !.at = item.end, !.kids = @ \o Gap(t, j.at, item.start) \o <<item.node>>])
CommaTuple(t, j) ==
    LET comma == SkipSpace(t, j.at)
        at == SkipTrivia(t, comma + 1)
    IN IF At(t, comma) # "," THEN Got(Node("BARE_TUPLE_EXPR", j.kids), j.start, j.at)
       ELSE CommaItem(t, j, comma, IF At(t, at) = "=" THEN NoExpr ELSE Expr(t, at, COMMA_ITEM_BP, j.flags))

(* parse_colon_range: every second colon folds three operands into one range, *)
(* and a newline may not follow one where newlines count.                     *)
RangeNext(t, j, r, next) ==
    IF ~Found(r) THEN Invalid
    ELSE IF next # 0 /\ At(t, next) = ":" /\ "no_range" \notin j.flags /\ ~Boundary(t, r.end, next, j.flags)
    THEN Parse(t, [j EXCEPT !.sofar = r, !.op = next, !.half = ~@])
    ELSE r
RangeStep(t, j, r) == IF Found(r) THEN RangeNext(t, j, r, NextOperator(t, r.end, j.flags)) ELSE Invalid
ColonRange(t, j) ==
    LET significant == "brackets" \notin j.flags \/ "array" \in j.flags
        operand == IF significant /\ At(t, SkipSpace(t, j.op + 1)) = "nl" THEN NoExpr
                   ELSE Expr(t, SkipTrivia(t, j.op + 1), Power(":")[2], j.flags)
    IN RangeStep(t, j, IF j.half THEN Extended(t, "RANGE_EXPR", j.sofar, operand)
                       ELSE Joined(t, "BINARY_EXPR", j.sofar, operand))

(* parse_operator_chain: comparisons of any kind, or the same + or * again,   *)
(* fold into one flat node.                                                   *)
ChainNext(t, j, r, next) ==
    LET same == IF t[j.op] \in Comparisons THEN Comparisons ELSE {t[j.op]}
    IN IF next # 0 /\ At(t, next) \in same /\ ~Boundary(t, r.end, next, j.flags)
       THEN Parse(t, [j EXCEPT !.sofar = r, !.op = next, !.first = FALSE])
       ELSE r
ChainStep(t, j, r) == IF Found(r) THEN ChainNext(t, j, r, NextOperator(t, r.end, j.flags)) ELSE Invalid
OperatorChain(t, j) ==
    LET operand == Expr(t, SkipTrivia(t, j.op + 1), Power(t[j.op])[2], j.flags)
        flat == IF t[j.op] \in Comparisons THEN "COMPARISON_EXPR" ELSE "BINARY_EXPR"
    IN ChainStep(t, j, IF j.first THEN Joined(t, "BINARY_EXPR", j.sofar, operand)
                       ELSE Extended(t, flat, j.sofar, operand))

(* parse_one_arg: a keyword argument is a name before an =, and a for makes a *)
(* generator of what was parsed.                                              *)
GeneratorArg(arg, clauses) ==
    IF Found(clauses) THEN Got(Node("GENERATOR", <<arg.node>> \o clauses.node.kids), arg.start, clauses.end)
    ELSE Invalid
ArgOf(t, arg) ==
    CASE ~Found(arg) -> Invalid
      [] At(t, SkipTrivia(t, arg.end)) = "for" -> GeneratorArg(arg, Clauses(t, arg.end))
      [] arg.node.kind = "KEYWORD_ARG" -> arg
      [] OTHER -> [arg EXCEPT !.node = Node("ARG", <<@>>)]
Arg(t, i) ==
    LET eq == SkipSpace(t, i + 1)
    IN IF t[i] \in Words /\ At(t, eq) = "="
       THEN ArgOf(t, Joined(t, "KEYWORD_ARG", Atom("NAME", t, i), Expr(t, SkipTrivia(t, eq + 1), 0, BracketFlags)))
       ELSE ArgOf(t, Expr(t, i, 0, BracketFlags))

(* parse_arg_list: one token or one argument at a time; a ; opens a group of  *)
(* parameters, which lasts until the next one or the end.                     *)
Params(j) == IF j.params = <<>> THEN j.kids ELSE Append(j.kids, Node("PARAMETERS", j.params))
Put(j, node, end) ==
    IF j.params = <<>> THEN [j EXCEPT !.kids = Append(@, node), !.at = end]
    ELSE [j EXCEPT !.params = Append(@, node), !.at = end]
ListArg(t, j, arg) ==
    IF Found(arg) THEN Parse(t, [Put(j, arg.node, arg.end) EXCEPT !.empty = FALSE]) ELSE Invalid
ArgList(t, j) ==
    CASE At(t, j.at) \in Trivia -> Parse(t, Put(j, Leaf(t[j.at]), j.at + 1))
      [] At(t, j.at) = Close(t[j.open]) ->
             Got(Node(j.kind, Append(Params(j), Leaf(t[j.at]))), j.open, j.at + 1)
      [] At(t, j.at) = "," ->
             IF j.empty THEN Invalid ELSE Parse(t, [Put(j, Leaf(","), j.at + 1) EXCEPT !.empty = TRUE])
      [] At(t, j.at) = ";" ->
             Parse(t, [j EXCEPT !.kids = Params(j), !.params = <<Leaf(";")>>, !.at = @ + 1, !.empty = TRUE])
      [] At(t, j.at) = "eof" -> Invalid
      [] OTHER -> ListArg(t, j, Arg(t, j.at))

(* parse_generator_clauses and parse_for_specs: for clauses, each with its    *)
(* specs and an optional filter.                                              *)
ClauseIf(t, j, kids, at, cond) ==
    IF Found(cond)
    THEN Parse(t, [j EXCEPT !.kids = kids \o <<Node("COMPREHENSION_IF", Gap(t, at, cond.start) \o <<cond.node>>)>>,
                            !.at = cond.end])
    ELSE Invalid
ClauseOf(t, j, for, specs) ==
    LET kids == j.kids \o Gap(t, j.at, for) \o <<Node("FOR_BINDING", <<Leaf("for")>> \o specs.node.kids)>>
        if == SkipTrivia(t, specs.end)
    IN IF At(t, if) = "if"
       THEN ClauseIf(t, j, kids \o Gap(t, specs.end, if), if, Expr(t, SkipTrivia(t, if + 1), 0, BracketFlags))
       ELSE Parse(t, [j EXCEPT !.kids = kids, !.at = specs.end])
ClauseSpecs(t, j, for, specs) == IF Found(specs) THEN ClauseOf(t, j, for, specs) ELSE Invalid
GeneratorClauses(t, j) ==
    LET for == SkipTrivia(t, j.at)
    IN CASE At(t, for) # "for" -> Got(Node("CLAUSES", j.kids), j.start, j.at)
         [] for = j.at -> Invalid
         [] OTHER -> ClauseSpecs(t, j, for, Parse(t, [rule |-> "specs", start |-> for + 1, at |-> for + 1, kids |-> <<>>,
                                                    flags |-> BracketFlags]))
SpecMore(t, j, spec) ==
    LET comma == SkipTrivia(t, spec.end)
        kids == j.kids \o Gap(t, j.at, spec.start) \o (IF spec.node.kind = "SPEC" THEN spec.node.kids ELSE <<spec.node>>)
    IN CASE ~Found(spec) -> Invalid
         [] At(t, comma) = "," ->
                Parse(t, [j EXCEPT !.kids = kids \o Gap(t, spec.end, comma + 1), !.at = comma + 1])
         [] OTHER -> Got(Node("SPECS", kids), j.start, spec.end)
SpecOf(t, j, var) ==
    LET in == SkipTrivia(t, var.end)
    IN CASE ~Found(var) -> Invalid
         [] At(t, in) = "in" -> SpecMore(t, j, Joined(t, "SPEC", var, Expr(t, SkipTrivia(t, in + 1), 0, j.flags)))
         [] OTHER -> SpecMore(t, j, var)
ForSpecs(t, j) == SpecOf(t, j, Expr(t, SkipTrivia(t, j.at), 0, j.flags \cup {"for_var"}))

(* ------------------------------ Block forms ------------------------------ *)
(* parse_if_expr: else if on a line is reported.                              *)
IF_TERMINATORS == {"end", "elseif", "else"}
Branches(t, l) == Parse(t, [rule |-> "branches", lhs |-> l])
Branch(t, kind, i) == WithBlock(t, WithCondition(t, Opened(kind, t, i)), IF_TERMINATORS)
IfClauses(t, l) ==
    CASE ~Found(l) -> Invalid
      [] At(t, l.end) = "elseif" -> Branches(t, Grown(t, l, Branch(t, "ELSEIF_CLAUSE", l.end)))
      [] At(t, l.end) = "else" /\ At(t, SkipSpace(t, l.end + 1)) # "if" ->
             Grown(t, l, WithBlock(t, Opened("ELSE_CLAUSE", t, l.end), {"end"}))
      [] OTHER -> l

(* parse_try_expr: an else needs a catch before it, and only a catch may      *)
(* follow a finally; a catch names a plain variable or none.                  *)
TRY_TERMINATORS == {"end", "catch", "else", "finally"}
CatchVariable(t, l) ==
    LET var == SkipSpace(t, l.end)
        value == Expr(t, var, 0, {})
    IN CASE HeaderEnds(t, var) -> WithBlock(t, PastSpace(t, l), TRY_TERMINATORS)
         [] Found(value) /\ value.node.kind = "NAME" -> WithBlock(t, Grown(t, l, value), TRY_TERMINATORS)
         [] OTHER -> Invalid
Handlers(t, l, caught) == Parse(t, [rule |-> "handlers", lhs |-> l, caught |-> caught])
AfterFinally(t, l) == IF Found(l) /\ At(t, l.end) = "catch" THEN Handlers(t, l, FALSE) ELSE l
TryClauses(t, l, caught) ==
    CASE ~Found(l) -> Invalid
      [] At(t, l.end) = "catch" -> Handlers(t, Grown(t, l, CatchVariable(t, Opened("CATCH_CLAUSE", t, l.end))), TRUE)
      [] At(t, l.end) = "finally" ->
             AfterFinally(t, Grown(t, l, WithBlock(t, Opened("FINALLY_CLAUSE", t, l.end), TRY_TERMINATORS)))
      [] ~caught -> Invalid
      [] At(t, l.end) = "else" ->
             Handlers(t, Grown(t, l, WithBlock(t, Opened("ELSE_CLAUSE", t, l.end), TRY_TERMINATORS)), TRUE)
      [] OTHER -> l

(* A for loop's specs, without the for.                                       *)
ForBinding(t, at) ==
    LET specs == Parse(t, [rule |-> "specs", start |-> at, at |-> at, kids |-> <<>>, flags |-> {}])
    IN IF Found(specs) THEN [specs EXCEPT !.node.kind = "FOR_BINDING"] ELSE Invalid

(* parse_function_like: parentheses that no call explains are the parameters  *)
(* of a function without a name; a name alone declares and has no body.       *)
RECURSIVE EventuallyCall(_)
EventuallyCall(n) ==
    LET nodes == SelectSeq(n.kids, LAMBDA k : k.kind # "TOKEN")
        marks == SelectSeq(n.kids, LAMBDA k : k.kind = "TOKEN" /\ k.tok \notin Trivia)
    IN CASE n.kind = "CALL_EXPR" -> TRUE
         [] n.kind \in {"TYPE_ANNOTATION", "WHERE_EXPR", "PAREN_EXPR"} -> nodes # <<>> /\ EventuallyCall(nodes[1])
         [] n.kind = "BINARY_EXPR" -> marks[1].tok \in {"+", "-", "*", "^", ":", "=>", "|>", "=="}
         [] OTHER -> FALSE
Signature(t, i, sig) ==
    LET params == /\ t[i] = "function"
                  /\ sig.node.kind = "PAREN_BLOCK" \/ (sig.node.kind = "PAREN_EXPR" /\ ~EventuallyCall(sig.node))
    IN IF Found(sig) THEN Wrapped("SIGNATURE", IF params THEN [sig EXCEPT !.node.kind = "TUPLE_EXPR"] ELSE sig)
       ELSE Invalid
ForwardWithBody(n) ==
    LET sig == (CHOOSE k \in DOMAIN n.kids : n.kids[k].kind = "SIGNATURE")
        body == n.kids[sig + 1].kids
    IN n.kids[sig].kids[1].kind = "NAME" /\ \E k \in DOMAIN body : body[k].tok \notin Trivia
FunctionOf(l) == IF Found(l) /\ ~ForwardWithBody(l.node) THEN l ELSE Invalid
Function(t, i) ==
    FunctionOf(Ended(t, Grown(t, Opened(IF t[i] = "macro" THEN "MACRO_DEF" ELSE "FUNCTION_DEF", t, i),
                              Signature(t, i, Expr(t, SkipTrivia(t, i + 1), 0, {"no_decl_where", "name"})))))
Named(t, l) == IF Found(l) THEN Ended(t, WithHeader(t, l, "SIGNATURE", {"name"})) ELSE Invalid
Struct(t, i) ==
    LET struct == IF t[i] = "mutable" THEN SkipSpace(t, i + 1) ELSE i
    IN IF At(t, struct) = "struct" THEN Named(t, Got(Node("STRUCT_DEF", Gap(t, i, struct + 1)), i, struct + 1))
       ELSE Invalid

(* Inside a bracket that may index, begin and end are positions: left out.    *)
Indexing(t, i) ==
    LET count(tok) == Len(SelectSeq(SubSeq(t, 1, i - 1), LAMBDA x : x = tok)) IN count("[") > count("]")
BlockForm(t, i) ==
    CASE t[i] = "begin" -> IF Indexing(t, i) THEN Invalid ELSE Ended(t, Opened("BEGIN_EXPR", t, i))
      [] t[i] = "quote" -> Ended(t, Opened("QUOTE_EXPR", t, i))
      [] t[i] = "if" -> WithEnd(t, Branches(t, Branch(t, "IF_EXPR", i)))
      [] t[i] = "while" -> Ended(t, WithCondition(t, Opened("WHILE_EXPR", t, i)))
      [] t[i] = "for" -> Ended(t, Grown(t, Opened("FOR_EXPR", t, i), ForBinding(t, SkipSpace(t, i + 1))))
      [] t[i] = "let" -> Ended(t, WithList(t, Opened("LET_EXPR", t, i), "LET_BINDINGS"))
      [] t[i] = "try" -> WithEnd(t, Handlers(t, WithBlock(t, Opened("TRY_EXPR", t, i), TRY_TERMINATORS), FALSE))
      [] t[i] \in {"function", "macro"} -> Function(t, i)
      [] t[i] \in {"struct", "mutable"} -> Struct(t, i)
      [] t[i] \in {"module", "baremodule"} -> Named(t, Opened("MODULE_DEF", t, i))

(* The top level: a line with a semicolon in it is a node of its own.         *)
LineOf(line) ==
    IF \E k \in DOMAIN line.kids : line.kids[k].tok = ";" THEN <<Node("TOPLEVEL_SEMICOLON", line.kids)>> ELSE line.kids
TopLine(t, j, line) ==
    IF Found(line) THEN Parse(t, [j EXCEPT !.at = line.end, !.kids = @ \o LineOf(line.node)]) ELSE Invalid
TopLevel(t, j) ==
    LET next == SkipTrivia(t, j.at)
        kids == j.kids \o Gap(t, j.at, next)
    IN IF next > Len(t) THEN Got(Node("ROOT", kids), 1, next)
       ELSE TopLine(t, [j EXCEPT !.kids = kids], Block(t, next, {"nl"}))

(* The forms a keyword opens, else an operand; a name is no reserved word.    *)
Start(t, at, bp, flags) ==
    CASE "name" \in flags /\ At(t, at) \in Reserved -> Invalid
      [] At(t, at) \in Declarations \cup {"return"} -> KeywordStmt(t, at, flags)
      [] At(t, at) \in {"break", "continue"} -> BreakStmt(t, at, flags)
      [] At(t, at) \in BlockKeywords -> Climb(t, BlockForm(t, at), bp, flags)
      [] OTHER -> Climb(t, Prefix(t, at, flags), bp, flags)

Parse(t, j) ==
    CASE j.rule = "expr" -> Start(t, j.at, j.bp, j.flags)
      [] j.rule = "climb" ->
             IF Found(j.lhs) THEN Round(t, j.lhs, NextOperator(t, j.lhs.end, j.flags), j.bp, j.flags) ELSE j.lhs
      [] j.rule = "where" -> WhereChain(t, j)
      [] j.rule = "commas" -> CommaTuple(t, j)
      [] j.rule = "range" -> ColonRange(t, j)
      [] j.rule = "chain" -> OperatorChain(t, j)
      [] j.rule = "list" -> ArgList(t, j)
      [] j.rule = "clauses" -> GeneratorClauses(t, j)
      [] j.rule = "specs" -> ForSpecs(t, j)
      [] j.rule = "block" -> BlockBody(t, j)
      [] j.rule = "branches" -> IfClauses(t, j.lhs)
      [] j.rule = "handlers" -> TryClauses(t, j.lhs, j.caught)
      [] j.rule = "header" -> HeaderItem(t, j, Expr(t, j.at, 0, {}))
      [] j.rule = "toplevel" -> TopLevel(t, j)

ProgramOf(r) == IF Found(r) THEN r.node ELSE Node("ERROR", <<>>)
Program(t) == ProgramOf(Parse(t, [rule |-> "toplevel", at |-> 1, kids |-> <<>>]))
Parses(root) == root.kind = "ROOT"

(* The tokens of a tree, in order.                                            *)
RECURSIVE Leaves(_)
Leaves(n) ==
    IF n.kind = "TOKEN" THEN <<n.tok>>
    ELSE LET from[k \in 0..Len(n.kids)] == IF k = 0 THEN <<>> ELSE from[k - 1] \o Leaves(n.kids[k])
         IN from[Len(n.kids)]
===============================================================================
