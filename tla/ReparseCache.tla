---------------------------- MODULE ReparseCache ----------------------------
(***************************************************************************)
(* The incremental-reparse side-channel (incremental.rs): what a file's    *)
(* last parse and the edits since it leave outside salsa, so that the next *)
(* parse can splice instead of starting over.                              *)
(*                                                                         *)
(* Edits travel client -> buffer -> queued request -> staged chain; a      *)
(* parse on any snapshot peeks at the chain, reads the base, computes, and *)
(* stores a new base.  The analysis thread stages and evicts while the     *)
(* parse is between those steps; the cache is shared by every snapshot and *)
(* no write to the database protects it.                                   *)
(*                                                                         *)
(* A write to a tracked text waits until every parse has stored or         *)
(* unwound, so it is one step that ends them all.  When the slot lets a    *)
(* queued analysis start is AnalysisPipeline's subject: here it may start  *)
(* at any time, with or without cancelling the parses in flight.           *)
(***************************************************************************)
EXTENDS Integers, Sequences, FiniteSets, SequencesExt

CONSTANTS
    Files,         \* Julia files of the session
    Members,       \* those the database tracks from the start
    Texts,         \* buffer contents
    InitialText,   \* what the members hold at start
    Edits,         \* byte edits
    Apply,         \* the text an edit makes of a text, None if it does not fit
    BigEdits,      \* edits that alone exceed MAX_CHAIN_INSERT_BYTES
    Batches,       \* the content changes one didChange may carry
    MaxBases,      \* MAX_REPARSE_BASES
    MaxChain,      \* MAX_CHAIN_EDITS
    Openable,      \* bound: the documents the client opens
    Closable,      \* bound: the documents it may close
    MaxVersion,    \* bound: didOpen and didChange notifications per buffer
    MaxClock,      \* bound: accesses to the cache
    None           \* the absent value of every Option

ASSUME FilesAssumption == IsFiniteSet(Files) /\ Members \subseteq Files
ASSUME TextsAssumption == InitialText \in Texts /\ None \notin Texts
ASSUME EditsAssumption ==
    /\ Apply \in [Edits -> [Texts -> Texts \cup {None}]]
    /\ Batches \subseteq Seq(Edits)
    /\ None \notin Seq(Edits)
ASSUME LimitsAssumption ==
    /\ MaxBases \in Nat /\ MaxChain \in Nat
    /\ MaxVersion \in Nat \ {0} /\ MaxClock \in Nat

VARIABLES
    documents,  \* the main loop's open buffers
    closing,    \* closed documents whose sync is still in sync_rx
    queued,     \* AnalysisWorker::pending
    reverting,  \* the file revert_file_to_disk has evicted but not yet written
    tracked,    \* the text of each salsa input
    parsed,     \* the tree salsa memoizes for the tracked text
    cache,      \* ReparseCache::files
    clock,      \* ReparseCache::clock
    reading,    \* the execution of parsed_document on each file
    chain       \* history: what the staged chain is known to describe

mainVars == <<documents, closing>>
vars == <<mainVars, queued, reverting, tracked, parsed, cache, clock,
          reading, chain>>

-----------------------------------------------------------------------------
(* Data.  A tree is told apart by the text it is the tree of.              *)

Document == [version : 1..MaxVersion, text : Texts]
Request == [version : 1..MaxVersion, text : Texts,
            edits : Seq(Edits) \cup {None}]
PrevParse == [text : Texts, green : Texts]
FileReparseState ==
    [prev : PrevParse \cup {None}, pending : Seq(Edits), used : 0..MaxClock,
     hot : BOOLEAN]
Read == [phase : {"peeked", "based"}, staged : Seq(Edits),
         prev : PrevParse \cup {None},
         intact : BOOLEAN]  \* history: nothing doubtful was staged meanwhile

ASSUME NoneAssumption ==
    None \notin Files \cup Document \cup Request \cup PrevParse
              \cup FileReparseState \cup Read

(* A chain of edits, each applied to what the one before left; None when   *)
(* one of them does not fit.                                               *)
ApplyAll(edits, text) ==
    FoldLeft(LAMBDA t, e : IF t = None THEN None ELSE Apply[e][t],
             text, edits)

(* reparse_edits: a chain is trusted only if it leads from the base to the *)
(* text.                                                                   *)
Fitting(base, edits, text) == ApplyAll(edits, base.text) # None   \* a mutant
Exact(base, edits, text) ==
    /\ edits # <<>>
    /\ ApplyAll(edits, base.text) = text

(* What parsed_document may compute.  A tier may decline any splice; the   *)
(* edit recovered from the two whole texts fits by construction.           *)
Parses(base, edits, text) ==
    LET full == [green |-> text, spliced |-> FALSE]
        diffed == [green |-> text, spliced |-> TRUE]
        replayed == [green |-> ApplyAll(edits, base.green), spliced |-> TRUE]
    IN {full} \cup (IF base = None THEN {} ELSE {diffed})
              \cup (IF base = None \/ ~ Exact(base, edits, text) THEN {}
                    ELSE {replayed})

Init ==
    /\ documents = [f \in Files |-> None]
    /\ closing = {}
    /\ queued = [f \in Files |-> None]
    /\ reverting = None
    /\ tracked = [f \in Files |-> IF f \in Members THEN InitialText ELSE None]
    /\ parsed = [f \in Files |-> None]
    /\ cache = [f \in Files |-> None]
    /\ clock = 0
    /\ reading = [f \in Files |-> None]
    /\ chain = [f \in Files |-> "exact"]

-----------------------------------------------------------------------------
(* The main loop, up to the analysis thread's queue.                       *)

(* enqueue: coalescing hands the edits of the request it drops to the one  *)
(* that stays.                                                             *)
KeepFresh(old, req) ==                                            \* a mutant
    IF old = None \/ old.version < req.version THEN req ELSE old
Enqueue(old, req) ==
    IF old = None THEN req
    ELSE IF old.version < req.version
    THEN [req EXCEPT !.edits = IF None \in {old.edits, @} THEN None
                                                       ELSE old.edits \o @]
    ELSE IF old.text # req.text THEN [old EXCEPT !.edits = None]
    ELSE old

\* A request sent while the analysis thread reverts is received after.
\* Bound: the client stops when the accesses are used up.
SendAnalysis(f, doc, edits) ==
    /\ reverting = None
    /\ clock < MaxClock
    /\ queued' = [queued EXCEPT ![f] =
           Enqueue(@, [version |-> doc.version, text |-> doc.text,
                       edits |-> edits])]

\* The text the edits of the next request are understood to start from.
LastSent(f) == IF queued[f] = None THEN tracked[f] ELSE queued[f].text

Edited(f, doc, edits) ==
    /\ documents' = [documents EXCEPT ![f] = doc]
    /\ SendAnalysis(f, doc, edits)
    /\ chain' = IF edits # None /\ documents[f].text # LastSent(f)
                THEN [chain EXCEPT ![f] = "diverged"] ELSE chain
    /\ UNCHANGED <<closing, reverting, tracked, parsed, cache, clock, reading>>

(* textDocument/didOpen: clients number a document from 1.                 *)
DidOpen(f, t) ==
    /\ documents[f] = None
    /\ f \in Openable
    /\ Edited(f, [version |-> 1, text |-> t], None)

(* textDocument/didChange with ranged changes.                             *)
DidChange(f, batch) ==
    /\ documents[f] # None
    /\ documents[f].version < MaxVersion
    /\ \E t \in Texts :
        /\ ApplyAll(batch, documents[f].text) = t
        /\ Edited(f, [version |-> documents[f].version + 1, text |-> t], batch)

(* textDocument/didChange that replaces the whole buffer.                  *)
DidReplace(f, t) ==
    /\ documents[f] # None
    /\ documents[f].version < MaxVersion
    /\ Edited(f, [version |-> documents[f].version + 1, text |-> t], None)

(* A configuration change or a diagnostics refresh: the same version again.*)
Reanalyze(f) ==
    /\ documents[f] # None
    /\ SendAnalysis(f, documents[f], None)
    /\ UNCHANGED <<mainVars, reverting, tracked, parsed, cache, clock,
                   reading, chain>>

(* textDocument/didClose.  Bound: not again before its sync is handled.    *)
DidClose(f) ==
    /\ documents[f] # None
    /\ f \in Closable \ closing
    /\ documents' = [documents EXCEPT ![f] = None]
    /\ closing' = closing \cup {f}
    /\ UNCHANGED <<queued, reverting, tracked, parsed, cache, clock, reading,
                   chain>>

-----------------------------------------------------------------------------
(* The cache, each operation under its lock.                               *)

Present(c) == {f \in Files : c[f] # None}
Hot(c) == {f \in Present(c) : c[f].hot}

(* touch: the entry, created if absent, stamped as just used.              *)
Touch(f) ==
    IF cache[f] = None
    THEN [prev |-> None, pending |-> <<>>, used |-> clock + 1, hot |-> FALSE]
    ELSE [cache[f] EXCEPT !.used = clock + 1]

(* Above the nth smallest of the stamps of fs, which are all different:    *)
(* select_nth_unstable finds that stamp.                                   *)
Above(c, fs, n, stamp) == Cardinality({f \in fs : c[f].used < stamp}) >= n

Retain(c, kept) == [f \in Files |-> IF f \in kept THEN c[f] ELSE None]

(* evict_over_budget: cold entries first, hot ones only when they alone    *)
(* exceed the budget.                                                      *)
EvictOldest(c) ==                                                 \* a mutant
    LET over == Cardinality(Present(c)) - MaxBases
    IN IF over <= 0 THEN c
       ELSE Retain(c, {f \in Present(c) :
                        Above(c, Present(c), over, c[f].used)})
EvictCold(c) ==                                                   \* a mutant
    IF Cardinality(Present(c)) <= MaxBases THEN c ELSE Retain(c, Hot(c))
EvictOverBudget(c) ==
    LET over == Cardinality(Present(c)) - MaxBases
        cut == Cardinality(Hot(c)) - MaxBases
        cold == Present(c) \ Hot(c)
    IN IF over <= 0 THEN c
       ELSE IF cut <= 0
       THEN Retain(c, Hot(c) \cup
                        {f \in cold : Above(c, cold, over, c[f].used)})
       ELSE Retain(c, {f \in Hot(c) : Above(c, Hot(c), cut, c[f].used)})

OverBudget(edits) ==
    \/ Len(edits) > MaxChain
    \/ \E i \in DOMAIN edits : edits[i] \in BigEdits

(* reparse_stage_edits: an unknown transform clears the chain, and stays   *)
(* outside the budget.                                                     *)
AppendUnbounded(f, edits) ==                                      \* a mutant
    [Touch(f) EXCEPT !.hot = TRUE, !.pending = @ \o edits]
Extend(f, edits) ==
    [Touch(f) EXCEPT
        !.hot = TRUE,
        !.pending = IF OverBudget(@ \o edits) THEN <<>> ELSE @ \o edits]
StageEdits(f, edits) ==
    IF edits = None
    THEN [cache EXCEPT ![f] = [Touch(f) EXCEPT !.pending = <<>>]]
    ELSE EvictOverBudget([cache EXCEPT ![f] = Extend(f, edits)])

Staged(f) == IF cache[f] = None THEN <<>> ELSE cache[f].pending

(* reparse_store: only the prefix its caller saw is drained.               *)
KeepAll(edits, n) == edits                                        \* a mutant
Drain(edits, n) == SubSeq(edits, n + 1, Len(edits))
Rebase(f, result) ==
    [Touch(f) EXCEPT
        !.hot = @ \/ result.spliced,
        !.prev = [text |-> tracked[f], green |-> result.green],
        !.pending = Drain(@, Len(reading[f].staged))]
Store(f, result) == EvictOverBudget([cache EXCEPT ![f] = Rebase(f, result)])

-----------------------------------------------------------------------------
(* The analysis thread.                                                    *)

EndReads == reading' = [f \in Files |-> None]

(* history: what is staged does not carry on the chain from the base.      *)
Doubtful(f, edits) ==
    \/ edits = None
    \/ OverBudget(Staged(f) \o edits)
    \/ cache[f] = None
    \/ chain[f] = "diverged"

(* start: the write phase.  An upsert of the tracked text is no write;     *)
(* superseding cancels whatever is in flight all the same.                 *)
Start(f, supersedes) ==
    /\ queued[f] # None
    /\ reverting = None
    /\ clock < MaxClock
    /\ queued' = [queued EXCEPT ![f] = None]
    /\ tracked' = [tracked EXCEPT ![f] = queued[f].text]
    /\ cache' = StageEdits(f, queued[f].edits)
    /\ clock' = clock + 1
    /\ chain' = IF Doubtful(f, queued[f].edits)
                THEN [chain EXCEPT ![f] = "unknown"] ELSE chain
    /\ parsed' = IF tracked[f] = queued[f].text THEN parsed
                 ELSE [parsed EXCEPT ![f] = None]
    /\ IF supersedes \/ tracked[f] \notin {queued[f].text, None}
       THEN EndReads
       ELSE reading' = IF reading[f] # None /\ Doubtful(f, queued[f].edits)
                       THEN [reading EXCEPT ![f].intact = FALSE] ELSE reading
    /\ UNCHANGED <<mainVars, reverting>>

(* on_sync drops the queued analyses of a closed path, and                 *)
(* revert_file_to_disk evicts it before it reads the disk.                 *)
OnSync(f) ==
    /\ f \in closing
    /\ reverting = None
    /\ closing' = closing \ {f}
    /\ queued' = [queued EXCEPT ![f] = None]
    /\ IF tracked[f] = None THEN UNCHANGED <<cache, reverting>>
       ELSE /\ cache' = [cache EXCEPT ![f] = None]
            /\ reverting' = f
    /\ chain' = [chain EXCEPT ![f] = "unknown"]
    /\ UNCHANGED <<documents, tracked, parsed, clock, reading>>

(* The file's text, if it can be read and differs from the tracked one.    *)
RevertToDisk(f, t) ==
    /\ reverting = f
    /\ reverting' = None
    /\ tracked' = [tracked EXCEPT ![f] = t]
    /\ IF tracked[f] = t THEN UNCHANGED <<parsed, reading>>
       ELSE /\ parsed' = [parsed EXCEPT ![f] = None]
            /\ EndReads
    /\ chain' = [chain EXCEPT ![f] = IF @ = "exact" THEN "unknown" ELSE @]
    /\ UNCHANGED <<mainVars, queued, cache, clock>>

Unreadable(f) ==
    /\ reverting = f
    /\ reverting' = None
    /\ UNCHANGED <<mainVars, queued, tracked, parsed, cache, clock, reading,
                   chain>>

-----------------------------------------------------------------------------
(* parsed_document, on a snapshot.  Salsa runs it once per file and text.  *)

Peek(f) ==
    /\ tracked[f] # None
    /\ parsed[f] = None
    /\ reading[f] = None
    /\ reading' = [reading EXCEPT ![f] =
         [phase |-> "peeked", staged |-> Staged(f), prev |-> None,
          intact |-> TRUE]]
    /\ UNCHANGED <<mainVars, queued, reverting, tracked, parsed, cache, clock,
                   chain>>

(* reparse_prev, and the early return when the text has not moved.         *)
ReadBase(f) ==
    LET prev == IF cache[f] = None THEN None ELSE cache[f].prev
    IN /\ reading[f] # None
       /\ reading[f].phase = "peeked"
       /\ clock < MaxClock
       /\ IF cache[f] = None THEN UNCHANGED <<cache, clock>>
          ELSE /\ cache' = [cache EXCEPT ![f] = Touch(f)]
               /\ clock' = clock + 1
       /\ IF prev # None /\ prev.text = tracked[f]
          THEN /\ parsed' = [parsed EXCEPT ![f] = prev.green]
               /\ reading' = [reading EXCEPT ![f] = None]
          ELSE /\ reading' = [reading EXCEPT ![f].phase = "based",
                                             ![f].prev = prev]
               /\ UNCHANGED parsed
       /\ UNCHANGED <<mainVars, queued, reverting, tracked, chain>>

ReparseStore(f) ==
    /\ reading[f] # None
    /\ reading[f].phase = "based"
    /\ clock < MaxClock
    /\ \E result \in Parses(reading[f].prev, reading[f].staged, tracked[f]) :
        /\ cache' = Store(f, result)
        /\ parsed' = [parsed EXCEPT ![f] = result.green]
    /\ clock' = clock + 1
    /\ reading' = [reading EXCEPT ![f] = None]
    /\ chain' = [chain EXCEPT ![f] =
         IF @ # "diverged" /\ reading[f].intact THEN "exact" ELSE @]
    /\ UNCHANGED <<mainVars, queued, reverting, tracked>>

(* A cancellation or a panic anywhere before the store.                    *)
Unwind(f) ==
    /\ reading[f] # None
    /\ reading' = [reading EXCEPT ![f] = None]
    /\ UNCHANGED <<mainVars, queued, reverting, tracked, parsed, cache, clock,
                   chain>>

-----------------------------------------------------------------------------

MainLoop(f) ==
    \/ \E t \in Texts : DidOpen(f, t) \/ DidReplace(f, t)
    \/ \E batch \in Batches : DidChange(f, batch)
    \/ Reanalyze(f) \/ DidClose(f)
AnalysisThread(f) ==
    \/ \E supersedes \in BOOLEAN : Start(f, supersedes)
    \/ OnSync(f) \/ Unreadable(f)
    \/ \E t \in Texts : RevertToDisk(f, t)
Reader(f) == Peek(f) \/ ReadBase(f) \/ ReparseStore(f) \/ Unwind(f)

Next == \E f \in Files : MainLoop(f) \/ AnalysisThread(f) \/ Reader(f)

Spec == Init /\ [][Next]_vars

-----------------------------------------------------------------------------
(* Properties.                                                             *)

(* Every variable has its type; in particular a chain stays within its     *)
(* budget even when nothing parses (reparse_stage_edits).                  *)
TypeOK ==
    /\ documents \in [Files -> Document \cup {None}]
    /\ closing \subseteq Files
    /\ queued \in [Files -> Request \cup {None}]
    /\ reverting \in Files \cup {None}
    /\ tracked \in [Files -> Texts \cup {None}]
    /\ parsed \in [Files -> Texts \cup {None}]
    /\ cache \in [Files -> FileReparseState \cup {None}]
    /\ \A f \in Present(cache) : Len(cache[f].pending) <= MaxChain
    /\ clock \in 0..MaxClock
    /\ reading \in [Files -> Read \cup {None}]
    /\ chain \in [Files -> {"exact", "unknown", "diverged"}]

(* The cache changes how fast a parse is, never what it returns: a parse   *)
(* gives the tree of the tracked text, whatever was staged, evicted or     *)
(* abandoned meanwhile, and no base has a tree of another text than its    *)
(* own (parsed_document, PrevParse).                                       *)
ParsesAreExact ==
    \A f \in Files :
        /\ parsed[f] \in {tracked[f], None}
        /\ cache[f] # None /\ cache[f].prev # None =>
             cache[f].prev.green = cache[f].prev.text

(* Unless a transform was unknown, over budget or dropped by a sync since  *)
(* the base was stored, the staged chain leads from the base to the        *)
(* tracked text, so that the next parse can replay it: coalescing loses no *)
(* edit (enqueue), a cancelled parse leaves its edits to the next one, and *)
(* a store drains what its base is past (reparse_store).                   *)
ChainReachesText ==
    \A f \in Present(cache) :
        cache[f].prev # None /\ chain[f] = "exact" =>
            ApplyAll(cache[f].pending, cache[f].prev.text) = tracked[f]

(* At most MAX_REPARSE_BASES files keep a base; entries that hold nothing  *)
(* but a cleared chain are not counted against it.                         *)
BasesBounded ==
    Cardinality({f \in Present(cache) : cache[f].prev # None}) <= MaxBases

(* Eviction never takes a hot entry while a cold one stays, nor an entry   *)
(* used more recently than one of its class that stays: a sweep over the   *)
(* workspace costs no edited buffer its base (evict_over_budget).          *)
EvictsColdThenOldest ==
    [][reverting' = reverting =>
        \A f \in Present(cache) \ Present(cache'), g \in Present(cache') :
            \/ cache[f].hot = FALSE /\ cache'[g].hot
            \/ /\ cache[f].hot = cache'[g].hot
               /\ cache[f].used < cache'[g].used]_vars
=============================================================================
