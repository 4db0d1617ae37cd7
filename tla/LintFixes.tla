------------------------------- MODULE LintFixes -------------------------------
(***************************************************************************)
(* `fatou lint --fix` on one file: the findings of a text, the directives  *)
(* (`# fatou-ignore` comments) that suppress some of them, the report of   *)
(* directives that suppress nothing, and the passes that apply fixes until *)
(* none applies (linter/rules.rs run, suppression.rs, fix.rs and the rules *)
(* of rules/meta).                                                         *)
(*                                                                         *)
(* A text is a sequence of tokens: statements, if / else / end, comments   *)
(* that are directives, and line breaks; an offset counts tokens.  A       *)
(* statement carries the rule it breaks, if any.  White space within a     *)
(* line and the reasons of directives are left out.                        *)
(***************************************************************************)
EXTENDS Naturals, Sequences, FiniteSets, SequencesExt

CONSTANTS
    CodeRules,        \* rules about statements
    Outdated,         \* outdated-suppression
    Misnamed,         \* misnamed-suppression
    Blanket,          \* blanket-suppression
    Typo,             \* an id no rule has
    NearMatch,        \* the rule misnamed-suppression takes it for
    NoRule,           \* rule: None
    NoTarget,         \* target: None
    Rewrites,         \* a code rule with a fix -> the rule its result breaks, or NoRule
    UnsafeRules,      \* those whose fix is not Applicability::Safe
    FirstFiles,       \* the texts that are linted
    Enabled,          \* the sets of rules a run may have enabled
    Quiets,           \* the sets of code rules that may lack the context to speak
    LooseFixes,       \* the fixes that are offered to apply_fixes by itself
    LooseText,        \* the text they apply to
    MaxPasses         \* MAX_PASSES

Rules == CodeRules \cup {Outdated, Misnamed, Blanket}
ShippedRules == Rules
FixableRules == DOMAIN Rewrites

ASSUME LintAssumption ==
    /\ NearMatch \in CodeRules /\ Typo \notin Rules /\ NoRule \notin Rules \cup {Typo}
    /\ CodeRules \cap {Outdated, Misnamed, Blanket} = {}
    /\ NoTarget \notin [start : Nat, end : Nat]
    /\ FixableRules \cup UnsafeRules \subseteq CodeRules
    /\ \A r \in FixableRules : Rewrites[r] \in CodeRules \cup {NoRule}
    /\ MaxPasses \in Nat \ {0}

VARIABLES
    source,           \* the text `fix_with` was called on
    current,          \* the text now
    settings,         \* [enabled, quiet, unsafe]: the run's rules and context, include_unsafe
    passes,           \* passes of the loop so far
    remaining,        \* FixOutcome::remaining, once the loop has ended
    offered           \* fixes given to apply_fixes by themselves

lintVars == <<source, current, settings, passes, remaining, offered>>
-----------------------------------------------------------------------------
(* The tree of a text.                                                      *)

Stmt(r) == [t |-> "stmt", kind |-> "code", rule |-> r]
If == [t |-> "if", kind |-> "code", rule |-> NoRule]
Else == [t |-> "else", kind |-> "code", rule |-> NoRule]
End == [t |-> "end", kind |-> "code", rule |-> NoRule]
NewLine == [t |-> "newline", kind |-> "trivia", rule |-> NoRule]
Comment(kind, r) == [t |-> "comment", kind |-> kind, rule |-> r]

(* A directive for the whole file that names no rule is of the kind "all".  *)
Tokens ==
    { Stmt(r) : r \in CodeRules \cup {NoRule} } \cup {If, Else, End, NewLine, Comment("all", NoRule)}
    \cup { Comment(kind, r) : kind \in {"file", "node"}, r \in Rules \cup {Typo, NoRule} }

Count(text, i, j, t) == Cardinality({k \in i .. j : text[k].t = t})
Least(S) == CHOOSE i \in S : \A j \in S : i <= j
Greatest(S) == CHOOSE i \in S : \A j \in S : i >= j

(* The `end` of the `if` or of the `else` at i. *)
Ends(text, i) ==
    LET opened == IF text[i].t = "if" THEN 0 ELSE 1
    IN  {j \in i .. Len(text) : text[j].t = "end"
            /\ opened + Count(text, i, j, "if") = Count(text, i, j, "end")}

EndOf(text, i) == Least(Ends(text, i))

(* The rules see no text the parser has something to say about (check.rs).  *)
Parses(text) ==
    /\ text \in Seq(Tokens)
    /\ \A i \in DOMAIN text : text[i].t \in {"if", "else"} => Ends(text, i) # {}

ASSUME FilesAssumption == \A text \in FirstFiles : Parses(text)

(* The token after the block that starts at i: its `else` or its `end`. *)
Closer(text, i) ==
    LET alternatives == {j \in i + 1 .. EndOf(text, i) :
                            /\ text[i].t = "if" /\ text[j].t = "else"
                            /\ Count(text, i, j, "if") = Count(text, i, j, "end") + 1}
    IN  IF alternatives = {} THEN EndOf(text, i) ELSE Least(alternatives)

(* Where the innermost block around token i starts: its `if` or `else`; 0 is *)
(* the root. *)
Opener(text, i) ==
    Greatest({0} \cup {o \in 1 .. i - 1 : text[o].t \in {"if", "else"} /\ Closer(text, o) > i})

BlockEnd(text, o) == IF o = 0 THEN Len(text) + 1 ELSE Closer(text, o)
IsTrivia(token) == token.t \in {"newline", "comment"}

(* The range of the element that starts at i: a whole `if`, or the token. *)
ElementAt(text, i) == [start |-> i - 1,
                       end |-> IF text[i].t = "if" THEN EndOf(text, i) ELSE i]

ContainsRange(outer, inner) == outer.start <= inner.start /\ inner.end <= outer.end
-----------------------------------------------------------------------------
(* SuppressionMap.                                                          *)

(* The next sibling of the comment at i that is not trivia; then of the     *)
(* block that ends with it; then the search goes on from the first token of *)
(* what that block ends.  Of an `else` clause that is the `else`, and what  *)
(* follows the `else` is the block itself.                                  *)
NextMeaningfulSibling(text, i) ==
    LET o == Opener(text, i)
        after == {j \in i + 1 .. BlockEnd(text, o) - 1 : ~IsTrivia(text[j])}
    IN  CASE after # {} -> ElementAt(text, Least(after))
          [] after = {} /\ o = 0 -> NoTarget
          [] after = {} /\ o # 0 /\ text[o].t = "if" ->
                IF text[Closer(text, o)].t = "else"
                THEN [start |-> Closer(text, o) - 1, end |-> EndOf(text, o) - 1]
                ELSE ElementAt(text, Closer(text, o))
          [] OTHER -> [start |-> o, end |-> Closer(text, o) - 1]

Directives(text) == {i \in DOMAIN text : text[i].t = "comment"}
Target(text, i) == IF text[i].kind = "node" THEN NextMeaningfulSibling(text, i) ELSE NoTarget
IsDangling(text, i) == text[i].kind = "node" /\ Target(text, i) = NoTarget

(* The directives that suppress a finding of rule r on a range. *)
Matches(text, r, range) ==
    { i \in Directives(text) :
        /\ ~ContainsRange(ElementAt(text, i), range)
        /\ CASE text[i].kind = "all" -> TRUE
             [] text[i].kind = "file" -> text[i].rule = r
             [] text[i].kind = "node" -> /\ text[i].rule = r
                                         /\ Target(text, i) # NoTarget
                                         /\ ContainsRange(Target(text, i), range) }

IsSuppressed(text, finding) == Matches(text, finding.rule, finding.range) # {}
-----------------------------------------------------------------------------
(* The rules.                                                               *)

NoFix == <<>>
Fix(start, end, content, safe) == [start |-> start, end |-> end, content |-> content, safe |-> safe]
Finding(r, range, fixes) == [rule |-> r, range |-> range, fixes |-> fixes]

StatementFix(i, r) ==
    IF r \notin FixableRules THEN NoFix
    ELSE << Fix(i - 1, i, <<Stmt(Rewrites[r])>>, r \notin UnsafeRules) >>

StatementFindings(text, quiet) ==
    { Finding(text[i].rule, ElementAt(text, i), StatementFix(i, text[i].rule)) :
        i \in {j \in DOMAIN text : text[j].t = "stmt" /\ text[j].rule \in CodeRules \ quiet} }

(* A directive that names no rule of the linter; its fix writes the one     *)
(* that was meant. *)
MisnamedFindings(text) ==
    { Finding(Misnamed, ElementAt(text, i),
              << Fix(i - 1, i, <<[text[i] EXCEPT !.rule = NearMatch]>>, TRUE) >>) :
        i \in {j \in Directives(text) : text[j].rule = Typo} }

BlanketFindings(text) ==
    { Finding(Blanket, ElementAt(text, i), NoFix) :
        i \in {j \in Directives(text) : text[j].rule = NoRule} }

(* deletion_span: a comment on a line of its own goes with its line break. *)
DeletionSpan(text, i) ==
    LET own_line == i = 1 \/ text[i - 1].t = "newline"
    IN  [start |-> i - 1,
         end |-> IF own_line /\ i < Len(text) /\ text[i + 1].t = "newline" THEN i + 1 ELSE i]

(* A plausible mistake: a rule that did not run counts as silent. *)
OutdatedWhateverRan(text, enabled, quiet, used, i) ==
    text[i].rule \in ShippedRules /\ (IsDangling(text, i) \/ i \notin used)

(* check_suppressions: the directives that suppressed nothing although      *)
(* their rule ran and had what it needs to speak, and those with nothing    *)
(* after them. *)
IsOutdated(text, enabled, quiet, used, i) ==
    /\ text[i].rule \in ShippedRules
    /\ \/ IsDangling(text, i)
       \/ i \notin used /\ text[i].rule \in enabled /\ text[i].rule \notin quiet

OutdatedFindings(text, enabled, quiet, used) ==
    { LET span == DeletionSpan(text, i)
      IN  Finding(Outdated, ElementAt(text, i), << Fix(span.start, span.end, <<>>, TRUE) >>) :
        i \in {j \in Directives(text) : IsOutdated(text, enabled, quiet, used, j)} }

(* ResolvedRules::run: the findings of the rules, without the suppressed    *)
(* ones; then the directives that suppressed none of those, themselves      *)
(* suppressible. *)
Run(text, enabled, quiet) ==
    LET all == { f \in StatementFindings(text, quiet) \cup MisnamedFindings(text)
                       \cup BlanketFindings(text) : f.rule \in enabled }
        used == UNION { Matches(text, f.rule, f.range) : f \in all }
        post == IF Outdated \in enabled THEN OutdatedFindings(text, enabled, quiet, used) ELSE {}
    IN  { f \in all \cup post : ~IsSuppressed(text, f) }
-----------------------------------------------------------------------------
(* Fixing.                                                                  *)

Ascending(S, Before(_, _)) ==
    [k \in 1 .. Cardinality(S) |->
        CHOOSE x \in S : Cardinality({y \in S : Before(y, x)}) = k - 1]

StartsBefore(f, g) == f.start < g.start \/ (f.start = g.start /\ f.end < g.end)

(* The fixes in order of start, then end; the sort is stable. *)
SortedFixes(fixes) ==
    LET Before(i, j) == \/ StartsBefore(fixes[i], fixes[j])
                        \/ ~StartsBefore(fixes[j], fixes[i]) /\ i < j
        order == Ascending(DOMAIN fixes, Before)
    IN  [k \in DOMAIN order |-> fixes[order[k]]]

(* Of the fixes that overlap, the first. *)
Accept(accepted, fix) ==
    IF fix.start >= (IF accepted = <<>> THEN 0 ELSE Last(accepted).end)
    THEN Append(accepted, fix)
    ELSE accepted

AcceptedFixes(fixes) == FoldLeft(Accept, <<>>, SortedFixes(fixes))

ReplaceRange(text, fix) ==
    SubSeq(text, 1, fix.start) \o fix.content \o SubSeq(text, fix.end + 1, Len(text))

(* apply_fixes: right to left, so that the earlier offsets stay valid. *)
ApplyFixes(text, fixes) == FoldLeft(ReplaceRange, text, Reverse(AcceptedFixes(fixes)))

ASSUME FixesAssumption ==
    /\ LooseText \in Seq(Tokens)
    /\ \A fixes \in LooseFixes :
          /\ fixes \in Seq([start : Nat, end : Nat, content : Seq(Tokens), safe : BOOLEAN])
          /\ \A i \in DOMAIN fixes : fixes[i].start <= fixes[i].end /\ fixes[i].end <= Len(LooseText)

FixesOf(findings, unsafe) ==
    { f.fixes[1] : f \in {g \in findings : g.fixes # NoFix /\ (unsafe \/ g.fixes[1].safe)} }

Applicable(text) ==
    Ascending(FixesOf(Run(text, settings.enabled, settings.quiet), settings.unsafe), StartsBefore)

NotDone == [findings |-> {}, ended |-> FALSE]
Outcome == [findings |-> Run(current, settings.enabled, settings.quiet), ended |-> TRUE]

LintInit ==
    /\ passes = 0
    /\ \/ /\ source \in FirstFiles
          /\ settings \in [enabled : Enabled, quiet : Quiets, unsafe : BOOLEAN]
          /\ offered = <<>>
          /\ remaining = NotDone
       \/ /\ source = LooseText
          /\ settings = [enabled |-> {}, quiet |-> {}, unsafe |-> TRUE]
          /\ offered \in LooseFixes
          /\ remaining = [NotDone EXCEPT !.ended = TRUE]
    /\ current = source

(* One pass of the loop that applied something. *)
FixPass ==
    /\ ~remaining.ended /\ passes < MaxPasses
    /\ Applicable(current) # <<>>
    /\ current' = ApplyFixes(current, Applicable(current))
    /\ passes' = passes + 1
    /\ UNCHANGED <<source, settings, remaining, offered>>

(* Nothing applied, or the cap is hit: what is left is reported. *)
ReportRemaining ==
    /\ ~remaining.ended
    /\ passes = MaxPasses \/ Applicable(current) = <<>>
    /\ remaining' = Outcome
    /\ UNCHANGED <<source, current, settings, passes, offered>>

LintNext == FixPass \/ ReportRemaining
LintSpec == LintInit /\ [][LintNext]_lintVars
-----------------------------------------------------------------------------
(* Properties.                                                              *)

(* A statement's position among the code tokens of a text. *)
CodeIndex(text, i) == Cardinality({j \in 1 .. i : text[j].kind = "code"})

(* The code of a text with its line ends, without comments and blank lines. *)
AddToken(lines, token) ==
    IF \/ token.t = "comment"
       \/ token.t = "newline" /\ (lines = <<>> \/ Last(lines) = "newline")
    THEN lines
    ELSE Append(lines, token.t)

CodeLines(text) == FoldLeft(AddToken, <<>>, text)

(* What a reader sees of the code, whatever rules a run has enabled. *)
Visible(text) ==
    { <<CodeIndex(text, f.range.end), f.rule>> :
        f \in {g \in Run(text, Rules, {}) : g.rule \in CodeRules} }

(* The k-th code token is the same. *)
Untouched(before, after, k) ==
    \E i \in DOMAIN before, j \in DOMAIN after :
        /\ before[i].kind = "code" /\ CodeIndex(before, i) = k
        /\ after[j].kind = "code" /\ CodeIndex(after, j) = k
        /\ before[i] = after[j]

(* Fixing takes away no suppression that still works: a finding in a        *)
(* statement that was not rewritten is visible after the passes only if it  *)
(* was before, also to a run with more rules or more context than the one   *)
(* that fixed (verdict_is_trustworthy and the enabled rules in              *)
(* outdated-suppression).                                                   *)
SuppressionsSurvive ==
    \A seen \in Visible(current) :
        Untouched(source, current, seen[1]) => seen \in Visible(source)

(* Fixing keeps every statement on its line. *)
LinesKept == CodeLines(current) = CodeLines(source)

Joined(left, right) == left \o right

(* Applying fixes one by one from the right gives what applying them at     *)
(* once would: what lies between the accepted ones, which do not overlap,   *)
(* is untouched; and a fix that is skipped overlaps an accepted one.        *)
AppliedAtOnce ==
    LET accepted == AcceptedFixes(offered)
        From(k) == IF k = 0 THEN 0 ELSE accepted[k].end
        To(k) == IF k = Len(accepted) THEN Len(LooseText) ELSE accepted[k + 1].start
        Gap(k) == SubSeq(LooseText, From(k) + 1, To(k))
        Pieces == [k \in DOMAIN accepted |-> accepted[k].content \o Gap(k)]
    IN  offered # <<>> =>
          /\ ApplyFixes(LooseText, offered) = FoldLeft(Joined, Gap(0), Pieces)
          /\ \A k \in 0 .. Len(accepted) : From(k) <= To(k)
          /\ \A i \in DOMAIN offered :
                \E k \in DOMAIN accepted :
                    \/ accepted[k] = offered[i]
                    \/ offered[i].start < accepted[k].end /\ accepted[k].start <= offered[i].start

FixesAreSafe == SuppressionsSurvive /\ LinesKept /\ AppliedAtOnce

(* "Attaches to the next non-trivia CST sibling": a directive for a node    *)
(* hides no finding in code that stands before it (suppression.rs).         *)
HidesOnlyWhatFollows ==
    \A f \in StatementFindings(current, settings.quiet) :
        \A i \in Matches(current, f.rule, f.range) :
            current[i].kind = "node" => f.range.start >= i

(* "Report a suppression comment that no longer suppresses a finding": a    *)
(* directive is reported as outdated only if the file reads the same        *)
(* without it (outdated_suppression.rs).                                    *)
OutdatedMeansIdle ==
    \A f \in Run(current, settings.enabled, settings.quiet) :
        f.rule = Outdated =>
          LET without == ReplaceRange(current, f.fixes[1])
          IN  Cardinality(Run(without, settings.enabled, settings.quiet))
                = Cardinality(Run(current, settings.enabled, settings.quiet)) - 1
=============================================================================
