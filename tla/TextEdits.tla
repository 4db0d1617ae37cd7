------------------------------- MODULE TextEdits -------------------------------
(***************************************************************************)
(* The server's copy of a document.  A client edits its buffer, describes  *)
(* each change by positions (line and character) in the text it had at     *)
(* that moment, and sends the changes in batches; the server turns the     *)
(* positions into bytes with a line table it patches rather than rescans   *)
(* (text/edit.rs, buffer.rs, line_index.rs), and keeps the byte edits for  *)
(* the incremental reparse (parser/edit.rs).  In the other direction the   *)
(* server answers a format request with line-scoped edits (lsp/format.rs   *)
(* over text/line_diff.rs) and the client applies those.                   *)
(*                                                                         *)
(* A text is a sequence of characters; what tells them apart here is their *)
(* UTF-8 bytes, their UTF-16 units and whether they end a line.            *)
(***************************************************************************)
EXTENDS Naturals, Integers, Sequences, FiniteSets, SequencesExt

CONSTANTS
    Chars,            \* characters
    CR, LF,           \* two of them: \r and \n
    BytesOf,          \* a character's UTF-8 bytes
    UnitsOf,          \* how many UTF-16 units it takes
    Utf8, Utf16,      \* the position encodings a client may negotiate
    FirstTexts,       \* what a document may hold when it is opened
    Typed,            \* what the client may insert
    Formatted,        \* what the formatter may make of a text
    GapStyles,        \* how the diff library may render a gap (see GapOps)
    MaxChanges,       \* bound: changes a behaviour makes
    MaxTyped,         \* bound: characters in a text that is typed in
    MaxUnanchored,    \* MAX_UNANCHORED_LINE_PAIRS
    NoEdits           \* edits: None

ASSUME CharsAssumption ==
    /\ {CR, LF} \subseteq Chars
    /\ BytesOf \in [Chars -> Seq(Nat)] /\ UnitsOf \in [Chars -> Nat]
    /\ FirstTexts \cup Typed \cup Formatted \subseteq Seq(Chars)
    /\ {MaxChanges, MaxTyped, MaxUnanchored} \subseteq Nat

VARIABLES
    encoding,
    client_text,      \* the client's buffer
    batch,            \* the changes it has made and not sent
    changes,          \* how many it has made
    text,             \* TextBuffer: the server's copy
    line_starts,      \* and its line table, in bytes
    before,           \* the copy before the last batch
    byte_edits,       \* the byte edits of the last batch, or NoEdits
    answer,           \* the last format answer: what it stands for, what it gave
    lone              \* history: the client's text had a \r alone

textVars == <<encoding, client_text, batch, changes, text, line_starts, before,
              byte_edits, answer, lone>>
-----------------------------------------------------------------------------
(* Bytes.                                                                   *)

Encoded(t) == FlattenSeq([i \in DOMAIN t |-> BytesOf[t[i]]])
Size(t) == Len(Encoded(t))

(* The byte offset after i characters, and the characters before a byte.    *)
OffsetAfter(t, i) == Size(SubSeq(t, 1, i))
Boundaries(t) == {OffsetAfter(t, i) : i \in 0 .. Len(t)}
CharsBefore(t, offset) == CHOOSE i \in 0 .. Len(t) : OffsetAfter(t, i) = offset

(* The text between two byte offsets.                                       *)
Slice(t, from, to) == SubSeq(t, CharsBefore(t, from) + 1, CharsBefore(t, to))
Splice(t, from, to, insert) == Slice(t, 0, from) \o insert \o Slice(t, to, Size(t))

EditFits(t, e) == e.start <= e.end /\ {e.start, e.end} \subseteq Boundaries(t)

(* try_apply_edits: left to right, each against what the ones before left.  *)
TryApplyEdits(old, es) ==
    LET Step(t, e) == IF t # NoEdits /\ EditFits(t, e)
                      THEN Splice(t, e.start, e.end, e.insert)
                      ELSE NoEdits
    IN  FoldLeft(Step, old, es)

(* The longest common prefix and suffix of two sequences.                   *)
CommonPrefix(a, b) ==
    LET n == IF Len(a) < Len(b) THEN Len(a) ELSE Len(b)
    IN  CHOOSE k \in 0 .. n : /\ SubSeq(a, 1, k) = SubSeq(b, 1, k)
                              /\ k = n \/ a[k + 1] # b[k + 1]
CommonSuffix(a, b) == CommonPrefix(Reverse(a), Reverse(b))

(* The greatest number in a set not above a bound.                          *)
AtMost(S, bound) == CHOOSE k \in S : k <= bound /\ \A j \in S : j <= bound => j <= k

(* diff_edit: strip the common bytes at both ends, back to boundaries.      *)
DiffEdit(old, new) ==
    LET ob == Encoded(old)
        nb == Encoded(new)
        prefix == AtMost(Boundaries(old), CommonPrefix(ob, nb))
        common == CommonSuffix(SubSeq(ob, prefix + 1, Len(ob)), SubSeq(nb, prefix + 1, Len(nb)))
        tails == {Len(ob) - b : b \in Boundaries(old)} \cap {Len(nb) - b : b \in Boundaries(new)}
        suffix == AtMost(tails, common)
    IN  [start |-> prefix, end |-> Len(ob) - suffix,
         insert |-> Slice(new, prefix, Len(nb) - suffix)]
-----------------------------------------------------------------------------
(* The line table.                                                          *)

(* LineStarts::new.                                                         *)
Scan(t) ==
    <<0>> \o SetToSortSeq({OffsetAfter(t, i) : i \in {j \in DOMAIN t : t[j] = LF}}, <)

(* As PatchStarts, with the start of the edited line dropped when the edit  *)
(* begins it (a mutant).                                                    *)
PatchStartsOffByOne(starts, start, end, insert) ==
    LET kept == SelectSeq(starts, LAMBDA at : at < start)
        moved == SelectSeq(starts, LAMBDA at : at > end)
        delta == Size(insert) - (end - start)
    IN  kept \o [i \in 1 .. Len(Scan(insert)) - 1 |-> start + Scan(insert)[i + 1]]
             \o [i \in DOMAIN moved |-> moved[i] + delta]

(* LineStarts::patch: starts up to the edit stay, those inside go, those    *)
(* after shift, and the inserted lines come in between.                     *)
PatchStarts(starts, start, end, insert) ==
    LET kept == SelectSeq(starts, LAMBDA at : at <= start)
        moved == SelectSeq(starts, LAMBDA at : at > end)
        delta == Size(insert) - (end - start)
    IN  kept \o [i \in 1 .. Len(Scan(insert)) - 1 |-> start + Scan(insert)[i + 1]]
             \o [i \in DOMAIN moved |-> moved[i] + delta]

Units(ch) == IF encoding = Utf8 THEN Len(BytesOf[ch]) ELSE UnitsOf[ch]

(* How many units of the encoding a text takes.                             *)
Width(t) == FoldLeft(LAMBDA n, ch : n + Units(ch), 0, t)

(* The characters of a line, without \n and the \r's before it.             *)
Trimmed(line) ==
    LET body == IF line # <<>> /\ Last(line) = LF THEN Front(line) ELSE line
        n == CHOOSE k \in 0 .. Len(body) :
               /\ k = 0 \/ body[k] # CR
               /\ \A j \in k + 1 .. Len(body) : body[j] = CR
    IN  SubSeq(body, 1, n)

(* LineIndex::position_to_byte, with its clamps.                            *)
PositionToByte(t, starts, pos) ==
    IF pos.line >= Len(starts)
    THEN Size(t)
    ELSE LET from == starts[pos.line + 1]
             to == IF pos.line + 1 < Len(starts) THEN starts[pos.line + 2] ELSE Size(t)
             line == Trimmed(Slice(t, from, to))
             reached == {i \in 0 .. Len(line) : Width(SubSeq(line, 1, i)) >= pos.character}
         IN  from + IF reached = {} THEN Size(line)
                    ELSE OffsetAfter(line, CHOOSE i \in reached : \A j \in reached : i <= j)

(* LineIndex::byte_to_position.                                             *)
ByteToPosition(t, starts, offset) ==
    LET clamped == IF offset < Size(t) THEN offset ELSE Size(t)
        line == CHOOSE i \in DOMAIN starts :
                  starts[i] <= clamped /\ (i = Len(starts) \/ clamped < starts[i + 1])
    IN  [line |-> line - 1, character |-> Width(Slice(t, starts[line], clamped))]
-----------------------------------------------------------------------------
(* didChange.                                                               *)

(* One change of a batch: a range is replaced and the table patched, or     *)
(* the whole buffer is replaced and scanned.                                *)
ApplyChange(state, change) ==
    IF change.whole
    THEN [state EXCEPT !.text = change.insert, !.starts = Scan(change.insert),
                       !.edits = NoEdits]
    ELSE LET start == PositionToByte(state.text, state.starts, change.start)
             end == PositionToByte(state.text, state.starts, change.end)
         IN  [text |-> Splice(state.text, start, end, change.insert),
              starts |-> PatchStarts(state.starts, start, end, change.insert),
              edits |-> IF state.edits = NoEdits
                        THEN NoEdits
                        ELSE Append(state.edits, [start |-> start, end |-> end,
                                                  insert |-> change.insert])]

(* apply_content_changes: from the last whole replacement on.               *)
ApplyContentChanges(t, starts, cs) ==
    LET wholes == {i \in DOMAIN cs : cs[i].whole}
        first == IF wholes = {} THEN 1 ELSE CHOOSE i \in wholes : \A j \in wholes : j <= i
    IN  FoldLeft(ApplyChange, [text |-> t, starts |-> starts, edits |-> <<>>],
                 SubSeq(cs, first, Len(cs)))
-----------------------------------------------------------------------------
(* The line diff.                                                           *)

(* The lines of a text, each with what ends it: \n, \r\n or \r (external:   *)
(* the diff library's tokenizer).                                           *)
EndsLine(t, i) == t[i] = LF \/ (t[i] = CR /\ (i = Len(t) \/ t[i + 1] # LF))
TextLines(t) ==
    LET ends == SetToSortSeq({i \in DOMAIN t : EndsLine(t, i)} \cup
                             (IF t = <<>> THEN {} ELSE {Len(t)}), <)
    IN  [k \in DOMAIN ends |->
           SubSeq(t, IF k = 1 THEN 1 ELSE ends[k - 1] + 1, ends[k])]

(* DiffBuilder::push: nothing for an empty run, and adjacent runs of a kind *)
(* are one.                                                                 *)
Push(ops, tag, old, new) ==
    IF old = 0 /\ new = 0
    THEN ops
    ELSE IF ops # <<>> /\ Last(ops).tag = tag
    THEN Append(Front(ops), [tag |-> tag, old |-> Last(ops).old + old,
                             new |-> Last(ops).new + new])
    ELSE Append(ops, [tag |-> tag, old |-> old, new |-> new])

(* What the diff library makes of a gap (external): the code uses only that *)
(* the runs cover both sides in order.  Styles: one replacement, a deletion *)
(* and an insertion, and these around the first line the sides share.       *)
GapOps(ops, old, new, style) ==
    LET Whole(o, n, so_far) ==
          IF style = "replace" /\ o > 0 /\ n > 0
          THEN Push(so_far, "Replace", o, n)
          ELSE Push(Push(so_far, "Delete", o, 0), "Insert", 0, n)
        shared == {i \in DOMAIN old : \E j \in DOMAIN new : old[i] = new[j]}
    IN  IF style # "match" \/ shared = {}
        THEN Whole(Len(old), Len(new), ops)
        ELSE LET i == CHOOSE k \in shared : \A l \in shared : k <= l
                 j == CHOOSE k \in DOMAIN new : new[k] = old[i]
             IN  Whole(Len(old) - i, Len(new) - j,
                       Push(Whole(i - 1, j - 1, ops), "Equal", 1, 1))

(* Two sequences of lines without the lines they start and end alike with.  *)
Middle(a, prefix, suffix) == SubSeq(a, prefix + 1, Len(a) - suffix)
SuffixAfter(a, b, prefix) ==
    CommonSuffix(SubSeq(a, prefix + 1, Len(a)), SubSeq(b, prefix + 1, Len(b)))

(* diff_bounded_gap: a gap too large for the library is one replacement.    *)
DiffBoundedGap(ops, old, new, style) ==
    LET prefix == CommonPrefix(old, new)
        suffix == SuffixAfter(old, new, prefix)
        a == Middle(old, prefix, suffix)
        b == Middle(new, prefix, suffix)
        start == Push(ops, "Equal", prefix, prefix)
        middle == IF Len(a) * Len(b) > MaxUnanchored
                  THEN Push(start, "Replace", Len(a), Len(b))
                  ELSE GapOps(start, a, b, style)
    IN  Push(middle, "Equal", suffix, suffix)

(* unique_common_anchors: the lines that occur once on each side, old order.*)
Occurs(lines, line) == {i \in DOMAIN lines : lines[i] = line}
Candidates(old, new) ==
    LET unique == SelectSeq([i \in DOMAIN old |-> i], LAMBDA i :
                    /\ Cardinality(Occurs(old, old[i])) = 1
                    /\ Cardinality(Occurs(new, old[i])) = 1)
    IN  [k \in DOMAIN unique |->
           <<unique[k], CHOOSE j \in DOMAIN new : new[j] = old[unique[k]]>>]

(* longest_increasing_anchors: tails[n] is the candidate that ends the best *)
(* increasing run of length n, previous[k] the one before candidate k.      *)
Runs(cs) ==
    LET Step(runs, k) ==
          LET tails == runs.tails
              n == Cardinality({t \in DOMAIN tails : cs[tails[t]][2] < cs[k][2]})
          IN  [tails |-> IF n = Len(tails) THEN Append(tails, k)
                         ELSE [tails EXCEPT ![n + 1] = k],
               previous |-> Append(runs.previous, IF n > 0 THEN tails[n] ELSE 0)]
    IN  FoldLeft(Step, [tails |-> <<>>, previous |-> <<>>], [k \in DOMAIN cs |-> k])

Anchors(old, new) ==
    LET cs == Candidates(old, new)
        runs == Runs(cs)
        Back[k \in 0 .. Len(cs)] ==
          IF k = 0 THEN <<>> ELSE Append(Back[runs.previous[k]], cs[k])
    IN  IF runs.tails = <<>> THEN <<>> ELSE Back[Last(runs.tails)]

(* diff_anchored: the gaps between the anchors are diffed on their own.     *)
LineDiff(old, new, style) ==
    LET prefix == CommonPrefix(old, new)
        suffix == SuffixAfter(old, new, prefix)
        a == Middle(old, prefix, suffix)
        b == Middle(new, prefix, suffix)
        Step(at, anchor) ==
          [ops |-> Push(DiffBoundedGap(at.ops, SubSeq(a, at.old, anchor[1] - 1),
                                       SubSeq(b, at.new, anchor[2] - 1), style),
                        "Equal", 1, 1),
           old |-> anchor[1] + 1, new |-> anchor[2] + 1]
        start == [ops |-> Push(<<>>, "Equal", prefix, prefix), old |-> 1, new |-> 1]
        end == FoldLeft(Step, start, Anchors(a, b))
    IN  Push(DiffBoundedGap(end.ops, SubSeq(a, end.old, Len(a)),
                            SubSeq(b, end.new, Len(b)), style),
             "Equal", suffix, suffix)
-----------------------------------------------------------------------------
(* Format edits.                                                            *)

(* The changed lines of a diff, touching changes joined: lines old..oldEnd  *)
(* become new..newEnd (counted from 0, ends exclusive).                     *)
Hunks(ops) ==
    LET Step(at, op) ==
          LET oldEnd == at.old + op.old
              newEnd == at.new + op.new
              joins == /\ at.hunks # <<>>
                       /\ Last(at.hunks).oldEnd = at.old /\ Last(at.hunks).newEnd = at.new
          IN  [hunks |->
                 IF op.tag = "Equal" THEN at.hunks
                 ELSE IF joins
                 THEN Append(Front(at.hunks), [Last(at.hunks) EXCEPT !.oldEnd = oldEnd,
                                                                    !.newEnd = newEnd])
                 ELSE Append(at.hunks, [old |-> at.old, oldEnd |-> oldEnd,
                                        new |-> at.new, newEnd |-> newEnd]),
               old |-> oldEnd, new |-> newEnd]
    IN  FoldLeft(Step, [hunks |-> <<>>, old |-> 0, new |-> 0], ops).hunks

(* line_offsets: the byte offset of each line start, and of the end.        *)
LineOffset(lines, n) == Size(FlattenSeq(SubSeq(lines, 1, n)))

(* edits_for_formatted over line_diff_edits, the document's own table built *)
(* for the occasion: a diff of several hunks that covers more than half the *)
(* text is one replacement of the whole.                                    *)
EditsForFormatted(t, formatted, style) ==
    LET old == TextLines(t)
        new == TextLines(formatted)
        hunks == Hunks(LineDiff(old, new, style))
        covered == FoldLeft(LAMBDA n, h : n + LineOffset(old, h.oldEnd) - LineOffset(old, h.old),
                            0, hunks)
        At(offset) == ByteToPosition(t, Scan(t), offset)
        Edit(h) == [start |-> At(LineOffset(old, h.old)), end |-> At(LineOffset(old, h.oldEnd)),
                    insert |-> FlattenSeq(SubSeq(new, h.new + 1, h.newEnd))]
    IN  IF t = formatted
        THEN <<>>
        ELSE IF Len(hunks) > 1 /\ 2 * covered > Size(t)
        THEN <<[start |-> [line |-> 0, character |-> 0], end |-> At(Size(t)),
                insert |-> formatted]>>
        ELSE [k \in DOMAIN hunks |-> Edit(hunks[k])]
-----------------------------------------------------------------------------
(* The client, after the protocol: a line ends with \n, \r\n or \r.         *)

(* The position before character i + 1, which is not inside a \r\n.         *)
ClientWidth(t) ==
    IF encoding = Utf8 THEN Size(t)
    ELSE Len(t) + FoldLeft(LAMBDA n, ch : n + UnitsOf[ch] - 1, 0, t)

Inside(t, i) == i \in 1 .. Len(t) - 1 /\ t[i] = CR /\ t[i + 1] = LF
PositionOf(t, i) ==
    LET ends == {j \in 1 .. i : EndsLine(t, j)}
        from == IF ends = {} THEN 0 ELSE CHOOSE j \in ends : \A k \in ends : k <= j
    IN  [line |-> Cardinality(ends), character |-> ClientWidth(SubSeq(t, from + 1, i))]
Places(t) == {i \in 0 .. Len(t) : ~Inside(t, i)}
PlaceOf(t, pos) == CHOOSE i \in Places(t) : PositionOf(t, i) = pos

LoneCR(t) == \E i \in DOMAIN t : t[i] = CR /\ EndsLine(t, i)

(* The edits of an answer are all in the client's text as it is.            *)
AppliedByClient(t, answers) ==
    LET Step(at, e) ==
          [out |-> at.out \o SubSeq(t, at.from + 1, PlaceOf(t, e.start)) \o e.insert,
           from |-> PlaceOf(t, e.end)]
        end == FoldLeft(Step, [out |-> <<>>, from |-> 0], answers)
    IN  end.out \o SubSeq(t, end.from + 1, Len(t))

NoAnswer == [wanted |-> <<>>, got |-> <<>>]

TextInit ==
    /\ encoding \in {Utf8, Utf16}
    /\ client_text \in FirstTexts
    /\ batch = <<>> /\ changes = 0
    /\ text = client_text /\ line_starts = Scan(client_text)
    /\ before = text /\ byte_edits = NoEdits
    /\ answer = NoAnswer
    /\ lone = LoneCR(client_text)

Type(new, change) ==
    /\ changes < MaxChanges
    /\ changes' = changes + 1
    /\ client_text' = new
    /\ batch' = Append(batch, change)
    /\ lone' = (lone \/ LoneCR(new))
    /\ UNCHANGED <<encoding, text, line_starts, before, byte_edits, answer>>

TypeOver(i, j, insert) ==
    /\ Len(client_text) <= MaxTyped
    /\ {i, j} \subseteq Places(client_text) /\ i <= j
    /\ Type(SubSeq(client_text, 1, i) \o insert
              \o SubSeq(client_text, j + 1, Len(client_text)),
            [whole |-> FALSE, start |-> PositionOf(client_text, i),
             end |-> PositionOf(client_text, j), insert |-> insert])

TypeAll(insert) ==
    Type(insert, [whole |-> TRUE, start |-> NoEdits, end |-> NoEdits, insert |-> insert])

DidChangeText ==
    LET new == ApplyContentChanges(text, line_starts, batch)
    IN  /\ batch # <<>>
        /\ batch' = <<>>
        /\ text' = new.text /\ line_starts' = new.starts
        /\ before' = text /\ byte_edits' = new.edits
        /\ UNCHANGED <<encoding, client_text, changes, answer, lone>>

FormatText(formatted, style) ==
    /\ batch = <<>> /\ changes < MaxChanges
    /\ ~lone
    /\ changes' = MaxChanges
    /\ answer' = [wanted |-> formatted,
                  got |-> AppliedByClient(client_text,
                                          EditsForFormatted(text, formatted, style))]
    /\ UNCHANGED <<encoding, client_text, batch, text, line_starts, before, byte_edits, lone>>

TextNext ==
    \/ \E i, j \in 0 .. Len(client_text), insert \in Typed : TypeOver(i, j, insert)
    \/ \E insert \in Typed : TypeAll(insert)
    \/ DidChangeText
    \/ \E formatted \in Formatted, style \in GapStyles : FormatText(formatted, style)

TextSpec == TextInit /\ [][TextNext]_textVars
-----------------------------------------------------------------------------
(* Properties.                                                              *)

(* The server's copy is the client's buffer once every change is handled,   *)
(* whatever the characters and the encoding, and several changes in one     *)
(* batch; its patched table is what a scan would give, and the byte edits   *)
(* handed to the reparse, or a diff of the two texts, describe the same     *)
(* transform.  A \r alone ends a line for the client and not for the        *)
(* server, and is left out.                                                 *)
BuffersAgree ==
    ~lone =>
      /\ batch = <<>> => text = client_text
      /\ line_starts = Scan(text)
      /\ byte_edits # NoEdits => TryApplyEdits(before, byte_edits) = text
      /\ TryApplyEdits(before, <<DiffEdit(before, text)>>) = text

(* Every byte offset a client can name survives the way to a position and   *)
(* back, and is the position the client gives it.                           *)
PositionsAgree ==
    ~lone => \A i \in Places(text) :
        LET offset == OffsetAfter(text, i)
            pos == ByteToPosition(text, line_starts, offset)
        IN  /\ pos = PositionOf(text, i)
            /\ PositionToByte(text, line_starts, pos) = offset

(* The edits that answer a format request turn the client's text into the   *)
(* formatted one, however the diff library renders the gaps.                *)
FormatEditsReproduce == answer.got = answer.wanted
=============================================================================
