-------------------------- MODULE ReparseCacheProofs --------------------------
(***************************************************************************)
(* What holds of ReparseCache for any files, texts, edits and limits: its  *)
(* types, that a parse is always the tree of the tracked text, the order   *)
(* in which entries are evicted and how many stay, and that a staged chain *)
(* leads from its base to the tracked text.                                *)
(***************************************************************************)
EXTENDS ReparseCache, FiniteSetTheorems, TLAPS

(* An entry whose base, if it has one, is a tree of its own text.          *)
EntryOK(e) ==
    /\ e \in FileReparseState
    /\ Len(e.pending) <= MaxChain
    /\ e.prev # None => e.prev.green = e.prev.text

CacheOK(c) ==
    /\ c \in [Files -> FileReparseState \cup {None}]
    /\ \A f \in Files : c[f] # None => EntryOK(c[f])

ReadOK(r, t) ==
    /\ r \in Read
    /\ t \in Texts
    /\ r.prev # None => r.prev.green = r.prev.text

(* TypeOK and ParsesAreExact are inductive only together: a tree has a     *)
(* type because it is the tracked text's.                                  *)
ExactInv ==
    /\ TypeOK
    /\ CacheOK(cache)
    /\ \A f \in Files :
        /\ parsed[f] \in {tracked[f], None}
        /\ reading[f] # None => ReadOK(reading[f], tracked[f])

-----------------------------------------------------------------------------
(* The operations of the cache.                                            *)

LEMMA TouchOK ==
    ASSUME TypeOK, CacheOK(cache), NEW f \in Files, clock < MaxClock
    PROVE  EntryOK(Touch(f))
<1> USE LimitsAssumption DEF TypeOK
<1>1. clock + 1 \in 0..MaxClock
  OBVIOUS
<1>2. CASE cache[f] = None
  <2> DEFINE e == [prev |-> None, pending |-> <<>>, used |-> clock + 1,
                   hot |-> FALSE]
  <2>1. <<>> \in Seq(Edits) /\ Len(<<>>) = 0
    OBVIOUS
  <2>2. e \in FileReparseState
    BY <1>1, <2>1 DEF FileReparseState
  <2>3. EntryOK(e)
    BY <2>1, <2>2 DEF EntryOK
  <2> QED
    BY <1>2, <2>3 DEF Touch
<1>3. CASE cache[f] # None
  <2> DEFINE e == [cache[f] EXCEPT !.used = clock + 1]
  <2>1. cache[f] \in FileReparseState /\ EntryOK(cache[f])
    BY <1>3 DEF CacheOK, EntryOK
  <2>2. /\ e \in FileReparseState
        /\ e.pending = cache[f].pending
        /\ e.prev = cache[f].prev
    BY <1>1, <2>1 DEF FileReparseState
  <2>3. EntryOK(e)
    BY <2>1, <2>2 DEF EntryOK
  <2> QED
    BY <1>3, <2>3 DEF Touch
<1> QED
  BY <1>2, <1>3

LEMMA RetainOK ==
    ASSUME NEW c, CacheOK(c), NEW kept
    PROVE  CacheOK(Retain(c, kept))
BY DEF CacheOK, Retain

LEMMA EvictOK ==
    ASSUME NEW c, CacheOK(c)
    PROVE  CacheOK(EvictOverBudget(c))
BY RetainOK DEF EvictOverBudget

LEMMA SetEntryOK ==
    ASSUME NEW f \in Files, NEW e, EntryOK(e), CacheOK(cache)
    PROVE  CacheOK([cache EXCEPT ![f] = e])
BY DEF CacheOK, EntryOK

LEMMA TouchStamps ==
    ASSUME CacheOK(cache), NEW f \in Files
    PROVE  /\ Touch(f).used = clock + 1
           /\ cache[f] # None => Touch(f).hot = cache[f].hot
           /\ Touch(f).prev = IF cache[f] = None THEN None ELSE cache[f].prev
<1>1. cache[f] # None => cache[f] \in FileReparseState
  BY DEF CacheOK
<1> QED
  BY <1>1 DEF Touch, FileReparseState

(* reparse_stage_edits with a known transform.                             *)
LEMMA ExtendOK ==
    ASSUME TypeOK, CacheOK(cache), NEW f \in Files, clock < MaxClock,
           NEW edits \in Seq(Edits)
    PROVE  /\ EntryOK(Extend(f, edits))
           /\ Extend(f, edits).used = clock + 1
           /\ Extend(f, edits).hot = TRUE
<1> DEFINE t == Touch(f)
           chained == t.pending \o edits
           p == IF OverBudget(chained) THEN <<>> ELSE chained
           e == [t EXCEPT !.hot = TRUE, !.pending = p]
<1>1. EntryOK(t) /\ t.used = clock + 1
  BY TouchOK, TouchStamps
<1>2. t \in FileReparseState /\ t.pending \in Seq(Edits)
  BY <1>1 DEF EntryOK, FileReparseState
<1> HIDE DEF t
<1>3. chained \in Seq(Edits) /\ Len(chained) \in Nat
  BY <1>2
<1>4. p \in Seq(Edits) /\ Len(p) <= MaxChain
  BY <1>3, LimitsAssumption DEF OverBudget
<1> HIDE DEF p
<1>5. /\ e \in FileReparseState
      /\ e.pending = p
      /\ e.prev = t.prev
      /\ e.used = t.used
      /\ e.hot = TRUE
  BY <1>2, <1>4 DEF FileReparseState
<1>6. EntryOK(e)
  BY <1>1, <1>4, <1>5 DEF EntryOK
<1>7. e = Extend(f, edits)
  BY DEF Extend, t, p
<1> QED
  BY <1>1, <1>5, <1>6, <1>7

LEMMA StageOK ==
    ASSUME TypeOK, CacheOK(cache), NEW f \in Files, clock < MaxClock,
           NEW edits \in Seq(Edits) \cup {None}
    PROVE  CacheOK(StageEdits(f, edits))
<1>1. CASE edits = None
  <2> DEFINE t == Touch(f)
             e == [t EXCEPT !.pending = <<>>]
  <2>1. EntryOK(t) /\ t \in FileReparseState
    BY TouchOK DEF EntryOK
  <2>2. <<>> \in Seq(Edits) /\ Len(<<>>) = 0 /\ 0 <= MaxChain
    BY LimitsAssumption
  <2> HIDE DEF t
  <2>3. e \in FileReparseState /\ e.pending = <<>> /\ e.prev = t.prev
    BY <2>1, <2>2 DEF FileReparseState
  <2>4. EntryOK(e)
    BY <2>1, <2>2, <2>3 DEF EntryOK
  <2> QED
    BY <1>1, <2>4, SetEntryOK DEF StageEdits, t
<1>2. CASE edits # None
  BY <1>2, ExtendOK, SetEntryOK, EvictOK DEF StageEdits
<1> QED
  BY <1>1, <1>2

LEMMA DrainOK ==
    ASSUME NEW edits \in Seq(Edits), Len(edits) <= MaxChain, NEW n \in Nat
    PROVE  Drain(edits, n) \in Seq(Edits) /\ Len(Drain(edits, n)) <= MaxChain
BY LimitsAssumption DEF Drain

(* reparse_store.                                                          *)
LEMMA RebaseOK ==
    ASSUME TypeOK, CacheOK(cache), NEW f \in Files, clock < MaxClock,
           reading[f] \in Read, tracked[f] \in Texts,
           NEW result, result.green = tracked[f], result.spliced \in BOOLEAN
    PROVE  /\ EntryOK(Rebase(f, result))
           /\ Rebase(f, result).used = clock + 1
           /\ cache[f] # None /\ cache[f].hot => Rebase(f, result).hot
<1> DEFINE t == Touch(f)
           b == [text |-> tracked[f], green |-> result.green]
           p == Drain(t.pending, Len(reading[f].staged))
           h == t.hot \/ result.spliced
           e == [t EXCEPT !.hot = h, !.prev = b, !.pending = p]
<1>1. /\ EntryOK(t)
      /\ t.used = clock + 1
      /\ cache[f] # None => t.hot = cache[f].hot
  BY TouchOK, TouchStamps
<1>2. t \in FileReparseState /\ t.pending \in Seq(Edits)
  BY <1>1 DEF EntryOK, FileReparseState
<1>3. Len(reading[f].staged) \in Nat
  BY DEF Read
<1>4. p \in Seq(Edits) /\ Len(p) <= MaxChain
  BY <1>1, <1>2, <1>3, DrainOK DEF EntryOK
<1>5. b \in PrevParse /\ b.green = b.text
  BY DEF PrevParse
<1>6. h \in BOOLEAN /\ (cache[f] # None /\ cache[f].hot => h)
  BY <1>1
<1>7. Rebase(f, result) = e
  BY DEF Rebase
<1> HIDE DEF t, b, p, h
<1>8. /\ e \in FileReparseState
      /\ e.pending = p
      /\ e.prev = b
      /\ e.used = t.used
      /\ e.hot = h
  BY <1>2, <1>4, <1>5, <1>6 DEF FileReparseState
<1>9. EntryOK(e)
  BY <1>4, <1>5, <1>8 DEF EntryOK
<1> QED
  BY <1>1, <1>6, <1>7, <1>8, <1>9

(* reparse_edits' check of the composed text is what makes a replayed tree *)
(* the one a full parse would give.                                        *)
LEMMA ParsesExact ==
    ASSUME NEW base, NEW edits, NEW text \in Texts,
           base # None => base.green = base.text,
           NEW result \in Parses(base, edits, text)
    PROVE  result.green = text /\ result.spliced \in BOOLEAN
<1>1. CASE result = [green |-> text, spliced |-> FALSE]
  BY <1>1
<1>2. CASE result = [green |-> text, spliced |-> TRUE]
  BY <1>2
<1>3. CASE /\ base # None
           /\ ApplyAll(edits, base.text) = text
           /\ result = [green |-> ApplyAll(edits, base.green),
                        spliced |-> TRUE]
  <2>1. ApplyAll(edits, base.green) = text
    BY <1>3
  <2> QED
    BY <1>3, <2>1
<1> QED
  BY <1>1, <1>2, <1>3 DEF Parses, Exact

-----------------------------------------------------------------------------
(* Every step preserves the invariant.                                     *)

LEMMA InitExact == Init => ExactInv
<1> SUFFICES ASSUME Init PROVE ExactInv
  OBVIOUS
<1> USE FilesAssumption, TextsAssumption, LimitsAssumption DEF Init
<1>1. TypeOK
  BY DEF TypeOK, Present
<1>2. CacheOK(cache)
  BY DEF CacheOK
<1> QED
  BY <1>1, <1>2 DEF ExactInv

(* The steps of the main loop touch nothing but buffers and the queue.     *)
LEMMA EnqueueOK ==
    ASSUME NEW old \in Request \cup {None}, NEW req \in Request
    PROVE  Enqueue(old, req) \in Request
<1>1. CASE \/ old = None
           \/ /\ old.version < req.version
              /\ None \in {old.edits, req.edits}
  BY <1>1 DEF Enqueue, Request
<1>2. CASE old # None /\ old.version < req.version
           /\ None \notin {old.edits, req.edits}
  <2>1. old.edits \in Seq(Edits) /\ req.edits \in Seq(Edits)
    BY <1>2 DEF Request
  <2>2. old.edits \o req.edits \in Seq(Edits)
    BY <2>1
  <2> DEFINE merged == [req EXCEPT !.edits = old.edits \o req.edits]
  <2>3. merged \in Request
    BY <2>2 DEF Request
  <2>4. Enqueue(old, req) = merged
    BY <1>2 DEF Enqueue
  <2> HIDE DEF merged
  <2> QED
    BY <2>3, <2>4
<1>3. CASE old # None /\ ~ (old.version < req.version)
  BY <1>3 DEF Enqueue, Request
<1> QED
  BY <1>1, <1>2, <1>3

LEMMA SendOK ==
    ASSUME TypeOK, NEW f \in Files, NEW doc \in Document,
           NEW edits \in Seq(Edits) \cup {None}, SendAnalysis(f, doc, edits)
    PROVE  queued' \in [Files -> Request \cup {None}]
<1> DEFINE req == [version |-> doc.version, text |-> doc.text, edits |-> edits]
<1>1. req \in Request
  BY DEF Document, Request
<1>2. queued[f] \in Request \cup {None}
  BY DEF TypeOK
<1>3. Enqueue(queued[f], req) \in Request
  BY <1>1, <1>2, EnqueueOK
<1> QED
  BY <1>3 DEF SendAnalysis, TypeOK

LEMMA EditedOK ==
    ASSUME ExactInv, NEW f \in Files, NEW doc \in Document,
           NEW edits \in Seq(Edits) \cup {None}, Edited(f, doc, edits)
    PROVE  ExactInv'
<1>1. queued' \in [Files -> Request \cup {None}]
  BY SendOK DEF Edited, ExactInv
<1>2. documents' \in [Files -> Document \cup {None}]
  BY DEF Edited, ExactInv, TypeOK
<1>3. chain' \in [Files -> {"exact", "unknown", "diverged"}]
  BY DEF Edited, ExactInv, TypeOK
<1> QED
  BY <1>1, <1>2, <1>3 DEF Edited, ExactInv, TypeOK, CacheOK, Present

LEMMA MainLoopOK ==
    ASSUME ExactInv, NEW f \in Files, MainLoop(f)
    PROVE  ExactInv'
<1> USE DEF ExactInv
<1>1. ASSUME NEW t \in Texts, DidOpen(f, t) PROVE ExactInv'
  <2>1. [version |-> 1, text |-> t] \in Document
    BY LimitsAssumption DEF Document
  <2> QED
    BY <1>1, <2>1, EditedOK DEF DidOpen
<1>2. ASSUME documents[f] # None, documents[f].version < MaxVersion,
             NEW t \in Texts
      PROVE  [version |-> documents[f].version + 1, text |-> t] \in Document
  BY <1>2, LimitsAssumption DEF TypeOK, Document
<1>3. ASSUME NEW t \in Texts, DidReplace(f, t) PROVE ExactInv'
  BY <1>2, <1>3, EditedOK DEF DidReplace
<1>4. ASSUME NEW batch \in Batches, DidChange(f, batch) PROVE ExactInv'
  <2>1. batch \in Seq(Edits)
    BY EditsAssumption
  <2> QED
    BY <1>2, <1>4, <2>1, EditedOK DEF DidChange
<1>5. CASE Reanalyze(f)
  <2>1. documents[f] \in Document
    BY <1>5 DEF Reanalyze, TypeOK
  <2>2. queued' \in [Files -> Request \cup {None}]
    BY <1>5, <2>1, SendOK DEF Reanalyze
  <2> QED
    BY <1>5, <2>2 DEF Reanalyze, mainVars, TypeOK, CacheOK, Present
<1>6. CASE DidClose(f)
  BY <1>6 DEF DidClose, TypeOK, CacheOK, Present
<1> QED
  BY <1>1, <1>3, <1>4, <1>5, <1>6 DEF MainLoop

LEMMA CacheTyped ==
    ASSUME NEW c, CacheOK(c)
    PROVE  /\ c \in [Files -> FileReparseState \cup {None}]
           /\ \A f \in Present(c) : Len(c[f].pending) <= MaxChain
BY DEF CacheOK, EntryOK, Present

Doubted(r) == [r EXCEPT !.intact = FALSE]

LEMMA StartOK ==
    ASSUME ExactInv, NEW f \in Files, NEW supersedes \in BOOLEAN,
           Start(f, supersedes)
    PROVE  ExactInv'
<1> USE DEF ExactInv
<1>1. queued[f] \in Request /\ queued[f].text \in Texts
  BY DEF Start, TypeOK, Request
<1>2. CacheOK(cache')
  <2>1. queued[f].edits \in Seq(Edits) \cup {None}
    BY <1>1 DEF Request
  <2> QED
    BY <2>1, StageOK DEF Start
<1>3. \A r \in Read : Doubted(r) \in Read
  BY DEF Read, Doubted
<1>4. \A r \in Read : \A t \in Texts :
        ReadOK(r, t) => ReadOK(Doubted(r), t)
  BY <1>3 DEF ReadOK, Read, Doubted
<1>5. \A g \in Files : reading'[g] # None =>
        /\ reading[g] # None
        /\ tracked'[g] = tracked[g]
        /\ reading'[g] \in {reading[g], Doubted(reading[g])}
  <2>1. CASE supersedes \/ tracked[f] \notin {queued[f].text, None}
    BY <2>1, <1>1 DEF Start, EndReads
  <2>2. CASE ~ (supersedes \/ tracked[f] \notin {queued[f].text, None})
    <3>1. tracked[f] # None => tracked' = tracked
      BY <2>2 DEF Start, TypeOK
    <3>2. reading[f] # None => tracked[f] # None
      BY TextsAssumption DEF ReadOK
    <3>3. reading' \in {reading, [reading EXCEPT ![f] = Doubted(reading[f])]}
      BY <2>2 DEF Start, Doubted
    <3>4. reading' # reading => reading[f] # None
      BY <2>2 DEF Start
    <3>5. reading \in [Files -> Read \cup {None}]
      BY DEF TypeOK
    <3>6. \A g \in Files \ {f} :
            reading'[g] = reading[g] /\ tracked'[g] = tracked[g]
      BY <3>3, <3>5 DEF Start, TypeOK
    <3>7. reading'[f] \in {reading[f], Doubted(reading[f])}
      BY <3>3, <3>5
    <3>8. reading'[f] # None => reading[f] # None /\ tracked'[f] = tracked[f]
      BY <3>1, <3>2, <3>3, <3>4, <3>5
    <3> QED
      BY <3>6, <3>7, <3>8
  <2> QED
    BY <2>1, <2>2
<1>6. \A g \in Files : reading'[g] # None => ReadOK(reading'[g], tracked'[g])
  BY <1>4, <1>5 DEF ReadOK
<1>7. \A g \in Files : parsed'[g] \in {tracked'[g], None}
  BY <1>1 DEF Start, TypeOK
<1>8. TypeOK'
  <2>1. reading' \in [Files -> Read \cup {None}]
    BY <1>3 DEF Start, EndReads, Doubted, TypeOK
  <2>2. /\ queued' \in [Files -> Request \cup {None}]
        /\ tracked' \in [Files -> Texts \cup {None}]
        /\ parsed' \in [Files -> Texts \cup {None}]
        /\ chain' \in [Files -> {"exact", "unknown", "diverged"}]
    BY <1>1 DEF Start, TypeOK
  <2>3. clock' \in 0..MaxClock
    BY LimitsAssumption DEF Start, TypeOK
  <2> QED
    BY <1>2, <2>1, <2>2, <2>3, CacheTyped DEF Start, mainVars, TypeOK, Present
<1> QED
  BY <1>2, <1>6, <1>7, <1>8 DEF CacheOK

LEMMA AnalysisThreadOK ==
    ASSUME ExactInv, NEW f \in Files, AnalysisThread(f)
    PROVE  ExactInv'
<1> USE DEF ExactInv
<1>1. CASE OnSync(f)
  <2>1. CacheOK(cache')
    BY <1>1 DEF OnSync, CacheOK
  <2>2. TypeOK'
    BY <1>1, <2>1, CacheTyped DEF OnSync, TypeOK
  <2> QED
    BY <1>1, <2>1, <2>2 DEF OnSync, CacheOK
<1>2. CASE Unreadable(f)
  BY <1>2 DEF Unreadable, mainVars, TypeOK, CacheOK, Present
<1>3. ASSUME NEW t \in Texts, RevertToDisk(f, t) PROVE ExactInv'
  <2>1. TypeOK'
    BY <1>3 DEF RevertToDisk, EndReads, mainVars, TypeOK, Present
  <2>2. \A g \in Files : parsed'[g] \in {tracked'[g], None}
    BY <1>3 DEF RevertToDisk, TypeOK
  <2>3. \A g \in Files :
          reading'[g] # None => ReadOK(reading'[g], tracked'[g])
    BY <1>3 DEF RevertToDisk, EndReads, TypeOK, ReadOK
  <2> QED
    BY <1>3, <2>1, <2>2, <2>3 DEF RevertToDisk, CacheOK
<1> QED
  BY <1>1, <1>2, <1>3, StartOK DEF AnalysisThread

LEMMA ReadBaseOK ==
    ASSUME ExactInv, NEW f \in Files, ReadBase(f)
    PROVE  ExactInv'
<1> USE DEF ExactInv
<1> DEFINE prev == IF cache[f] = None THEN None ELSE cache[f].prev
           based == [reading[f] EXCEPT !.phase = "based", !.prev = prev]
<1>1. /\ ReadOK(reading[f], tracked[f])
      /\ clock < MaxClock
      /\ UNCHANGED <<mainVars, queued, reverting, tracked, chain>>
  BY DEF ReadBase
<1>2. prev # None => prev \in PrevParse /\ prev.green = prev.text
  BY DEF TypeOK, CacheOK, EntryOK, FileReparseState
<1>3. CacheOK(cache') /\ clock' \in 0..MaxClock
  BY <1>1, TouchOK, SetEntryOK, LimitsAssumption DEF ReadBase, TypeOK
<1>4. ReadOK(based, tracked[f])
  <2>1. reading[f] \in Read /\ prev \in PrevParse \cup {None}
    BY <1>1, <1>2 DEF ReadOK
  <2> HIDE DEF prev
  <2>2. based \in Read /\ based.prev = prev
    BY <2>1 DEF Read
  <2> QED
    BY <1>1, <1>2, <2>2 DEF ReadOK
<1>5. \/ /\ prev # None
         /\ prev.text = tracked[f]
         /\ parsed' = [parsed EXCEPT ![f] = prev.green]
         /\ reading' = [reading EXCEPT ![f] = None]
      \/ /\ reading' = [reading EXCEPT ![f] = based]
         /\ parsed' = parsed
  BY DEF ReadBase, TypeOK
<1> HIDE DEF prev, based
<1>6. /\ parsed' \in [Files -> Texts \cup {None}]
      /\ reading' \in [Files -> Read \cup {None}]
      /\ \A g \in Files : parsed'[g] \in {tracked[g], None}
      /\ \A g \in Files : reading'[g] # None => ReadOK(reading'[g], tracked[g])
  BY <1>1, <1>2, <1>4, <1>5 DEF TypeOK, ReadOK
<1>7. TypeOK'
  BY <1>1, <1>3, <1>6, CacheTyped DEF mainVars, TypeOK
<1> QED
  BY <1>1, <1>3, <1>6, <1>7 DEF CacheOK

LEMMA ReparseStoreOK ==
    ASSUME ExactInv, NEW f \in Files, ReparseStore(f)
    PROVE  ExactInv'
<1> USE DEF ExactInv
<1>1. ReadOK(reading[f], tracked[f])
  BY DEF ReparseStore
<1>2. PICK result \in Parses(reading[f].prev, reading[f].staged, tracked[f]) :
        /\ cache' = Store(f, result)
        /\ parsed' = [parsed EXCEPT ![f] = result.green]
  BY DEF ReparseStore
<1>3. result.green = tracked[f] /\ result.spliced \in BOOLEAN
  BY <1>1, ParsesExact DEF ReadOK
<1>4. CacheOK(cache')
  BY <1>1, <1>2, <1>3, RebaseOK, SetEntryOK, EvictOK
     DEF ReparseStore, ReadOK, Store
<1>5. /\ parsed' \in [Files -> Texts \cup {None}]
      /\ \A g \in Files : parsed'[g] \in {tracked[g], None}
  BY <1>1, <1>2, <1>3 DEF TypeOK, ReadOK
<1>6. /\ reading' \in [Files -> Read \cup {None}]
      /\ \A g \in Files : reading'[g] # None => ReadOK(reading'[g], tracked[g])
      /\ clock' \in 0..MaxClock
      /\ chain' \in [Files -> {"exact", "unknown", "diverged"}]
  BY LimitsAssumption DEF ReparseStore, TypeOK
<1>7. UNCHANGED <<mainVars, queued, reverting, tracked>>
  BY DEF ReparseStore
<1>8. TypeOK'
  BY <1>4, <1>5, <1>6, <1>7, CacheTyped DEF mainVars, TypeOK
<1> QED
  BY <1>4, <1>5, <1>6, <1>7, <1>8 DEF CacheOK

LEMMA ReaderOK ==
    ASSUME ExactInv, NEW f \in Files, Reader(f)
    PROVE  ExactInv'
<1> USE DEF ExactInv
<1>1. CASE Peek(f)
  <2> DEFINE r == [phase |-> "peeked", staged |-> Staged(f), prev |-> None,
                   intact |-> TRUE]
  <2>1. Staged(f) \in Seq(Edits)
    BY DEF Staged, TypeOK, FileReparseState
  <2>2. tracked[f] \in Texts
    BY <1>1 DEF Peek, TypeOK
  <2>3. ReadOK(r, tracked[f])
    BY <2>1, <2>2 DEF ReadOK, Read
  <2> HIDE DEF r
  <2>4. reading' = [reading EXCEPT ![f] = r]
    BY <1>1 DEF Peek, r
  <2>5. /\ reading' \in [Files -> Read \cup {None}]
        /\ \A g \in Files :
             reading'[g] # None => ReadOK(reading'[g], tracked[g])
    BY <2>3, <2>4 DEF ReadOK, TypeOK
  <2> QED
    BY <1>1, <2>5 DEF Peek, mainVars, TypeOK, CacheOK, Present
<1>2. CASE Unwind(f)
  <2>1. /\ reading' \in [Files -> Read \cup {None}]
        /\ \A g \in Files :
             reading'[g] # None => ReadOK(reading'[g], tracked[g])
    BY <1>2 DEF Unwind, TypeOK
  <2> QED
    BY <1>2, <2>1 DEF Unwind, mainVars, TypeOK, CacheOK, Present
<1> QED
  BY <1>1, <1>2, ReadBaseOK, ReparseStoreOK DEF Reader

LEMMA NextExact == ExactInv /\ [Next]_vars => ExactInv'
<1> SUFFICES ASSUME ExactInv, [Next]_vars PROVE ExactInv'
  OBVIOUS
<1>1. CASE Next
  BY <1>1, MainLoopOK, AnalysisThreadOK, ReaderOK DEF Next
<1>2. CASE UNCHANGED vars
  BY <1>2 DEF vars, mainVars, ExactInv, TypeOK, CacheOK, Present
<1> QED
  BY <1>1, <1>2

(* The inductive invariant holds: types, the exactness of every base and   *)
(* memoized tree, and what a parse under way has read (parsed_document).   *)
THEOREM ExactInvariant == Spec => []ExactInv
<1> QED
  BY InitExact, NextExact, PTL DEF Spec

(* Every reachable state is well typed, and no chain exceeds its budget    *)
(* (reparse_stage_edits), whatever is typed, cancelled or evicted.         *)
THEOREM TypeCorrect == Spec => []TypeOK
<1>1. ExactInv => TypeOK
  BY DEF ExactInv
<1> QED
  BY <1>1, ExactInvariant, PTL

(* The cache never changes what a parse returns (parsed_document).         *)
THEOREM CacheIsTransparent == Spec => []ParsesAreExact
<1>1. ExactInv => ParsesAreExact
  BY DEF ExactInv, ParsesAreExact, CacheOK, EntryOK
<1> QED
  BY <1>1, ExactInvariant, PTL

-----------------------------------------------------------------------------
(* The order of eviction.                                                  *)

(* Stamps come from a monotone clock: a touched entry is the newest.       *)
Stamped == \A f \in Present(cache) : cache[f].used <= clock

(* An entry dropped for being among the n oldest is older than one kept.   *)
LEMMA AboveOrders ==
    ASSUME NEW c, CacheOK(c), NEW fs \in SUBSET Present(c), NEW n \in Int,
           NEW x \in fs, NEW y \in fs,
           ~ Above(c, fs, n, c[x].used), Above(c, fs, n, c[y].used)
    PROVE  c[x].used < c[y].used
<1> DEFINE Below(u) == {f \in fs : c[f].used < u}
<1>1. \A f \in fs : c[f].used \in Nat
  BY LimitsAssumption DEF CacheOK, EntryOK, FileReparseState, Present
<1>2. IsFiniteSet(fs)
  BY FilesAssumption, FS_Subset DEF Present
<1>3. SUFFICES ASSUME ~ (c[x].used < c[y].used) PROVE FALSE
  OBVIOUS
<1>4. Below(c[y].used) \subseteq Below(c[x].used)
  BY <1>1, <1>3
<1>5. IsFiniteSet(Below(c[x].used)) /\ IsFiniteSet(Below(c[y].used))
  BY <1>2, FS_Subset
<1>6. Cardinality(Below(c[y].used)) <= Cardinality(Below(c[x].used))
  BY <1>4, <1>5, FS_Subset
<1>7. /\ Cardinality(Below(c[x].used)) \in Nat
      /\ Cardinality(Below(c[y].used)) \in Nat
  BY <1>5, FS_CardinalityType
<1> QED
  BY <1>6, <1>7 DEF Above

Outlives(c, x, y) ==
    \/ c[x].hot = FALSE /\ c[y].hot
    \/ c[x].hot = c[y].hot /\ c[x].used < c[y].used

LEMMA EvictOrders ==
    ASSUME NEW c, CacheOK(c),
           NEW x \in Present(c) \ Present(EvictOverBudget(c)),
           NEW y \in Present(EvictOverBudget(c))
    PROVE  /\ y \in Present(c)
           /\ EvictOverBudget(c)[y] = c[y]
           /\ Outlives(c, x, y)
<1> DEFINE over == Cardinality(Present(c)) - MaxBases
           cut == Cardinality(Hot(c)) - MaxBases
           cold == Present(c) \ Hot(c)
           coldKept == {f \in cold : Above(c, cold, over, c[f].used)}
           hotKept == {f \in Hot(c) : Above(c, Hot(c), cut, c[f].used)}
<1>1. /\ IsFiniteSet(Present(c)) /\ IsFiniteSet(Hot(c))
      /\ Hot(c) \subseteq Present(c)
  BY FilesAssumption, FS_Subset DEF Present, Hot
<1>2. over \in Int /\ cut \in Int
  BY <1>1, FS_CardinalityType, LimitsAssumption
<1>3. \A f \in Present(c) : c[f].hot \in BOOLEAN
  BY DEF Present, CacheOK, EntryOK, FileReparseState
<1>4. \A kept \in SUBSET Present(c) :
        EvictOverBudget(c) = Retain(c, kept) =>
          y \in kept /\ x \notin kept /\ EvictOverBudget(c)[y] = c[y]
  BY DEF Retain, Present
<1>5. \/ EvictOverBudget(c) = c
      \/ EvictOverBudget(c) = Retain(c, Hot(c) \cup coldKept)
      \/ EvictOverBudget(c) = Retain(c, hotKept)
  BY DEF EvictOverBudget
<1> HIDE DEF over, cut
<1>6. CASE EvictOverBudget(c) = Retain(c, Hot(c) \cup coldKept)
  <2>1. Hot(c) \cup coldKept \in SUBSET Present(c)
    BY <1>1
  <2>2. /\ y \in Hot(c) \cup coldKept
        /\ x \notin Hot(c) \cup coldKept
        /\ EvictOverBudget(c)[y] = c[y]
    BY <1>4, <1>6, <2>1
  <2>3. c[x].hot = FALSE /\ x \in cold
    BY <1>3, <2>2 DEF Hot
  <2>4. CASE y \in Hot(c)
    BY <2>2, <2>3, <2>4 DEF Hot, Outlives
  <2>5. CASE y \in coldKept
    <3>1. c[x].used < c[y].used
      BY <1>2, <2>2, <2>3, <2>5, AboveOrders
    <3>2. c[y].hot = FALSE
      BY <1>3, <2>5 DEF Hot
    <3> QED
      BY <2>2, <2>3, <2>5, <3>1, <3>2 DEF Outlives
  <2> QED
    BY <2>2, <2>4, <2>5
<1>7. CASE EvictOverBudget(c) = Retain(c, hotKept)
  <2>1. hotKept \in SUBSET Present(c)
    BY <1>1
  <2>2. y \in hotKept /\ x \notin hotKept /\ EvictOverBudget(c)[y] = c[y]
    BY <1>4, <1>7, <2>1
  <2>3. y \in Hot(c) /\ y \in Present(c) /\ c[y].hot
    BY <2>2 DEF Hot
  <2>4. CASE x \in Hot(c)
    <3>1. c[x].used < c[y].used
      BY <1>1, <1>2, <2>2, <2>4, AboveOrders
    <3>2. c[x].hot = TRUE /\ c[y].hot = TRUE
      BY <1>3, <2>3, <2>4 DEF Hot
    <3> QED
      BY <2>2, <2>3, <3>1, <3>2 DEF Outlives
  <2>5. CASE x \notin Hot(c)
    <3>1. c[x].hot = FALSE
      BY <1>3, <2>5 DEF Hot
    <3> QED
      BY <2>2, <2>3, <3>1 DEF Outlives
  <2> QED
    BY <2>4, <2>5
<1> QED
  BY <1>5, <1>6, <1>7

(* A cache operation touches one entry, then evicts.                       *)
LEMMA TouchedEvicts ==
    ASSUME ExactInv, Stamped, NEW f \in Files, NEW e, EntryOK(e),
           e.used = clock + 1, cache[f] # None /\ cache[f].hot => e.hot,
           cache' = EvictOverBudget([cache EXCEPT ![f] = e])
    PROVE  \A x \in Present(cache) \ Present(cache'), y \in Present(cache') :
             \/ cache[x].hot = FALSE /\ cache'[y].hot
             \/ cache[x].hot = cache'[y].hot /\ cache[x].used < cache'[y].used
<1> DEFINE c == [cache EXCEPT ![f] = e]
<1>1. CacheOK(c) /\ cache \in [Files -> FileReparseState \cup {None}]
  BY SetEntryOK DEF ExactInv, TypeOK
<1>2. SUFFICES ASSUME NEW x \in Present(cache) \ Present(cache'),
                      NEW y \in Present(cache')
               PROVE  \/ cache[x].hot = FALSE /\ cache'[y].hot
                      \/ /\ cache[x].hot = cache'[y].hot
                         /\ cache[x].used < cache'[y].used
  OBVIOUS
<1>3. e # None
  BY NoneAssumption DEF EntryOK
<1>4. x \in Present(c)
  BY <1>1, <1>3 DEF Present
<1>5. y \in Present(c) /\ cache'[y] = c[y] /\ Outlives(c, x, y)
  BY <1>1, <1>4, EvictOrders
<1>6. CASE x # f
  <2>1. c[x] = cache[x]
    BY <1>1, <1>6
  <2> QED
    BY <1>5, <2>1 DEF Outlives
<1>7. CASE x = f
  <2>1. /\ c[x] = e
        /\ y # f
        /\ c[y] = cache[y]
        /\ y \in Present(cache)
    BY <1>1, <1>5, <1>7 DEF Present
  <2>2. cache[y].used <= clock /\ clock \in Nat /\ cache[y].used \in Nat
    <3>1. cache[y] \in FileReparseState
      BY <1>1, <2>1 DEF Present
    <3> QED
      BY <2>1, <3>1, LimitsAssumption DEF Stamped, ExactInv, TypeOK, FileReparseState
  <2>3. e.hot = FALSE /\ cache'[y].hot
    BY <1>5, <2>1, <2>2 DEF Outlives
  <2>4. cache[x].hot \in BOOLEAN /\ cache[x] # None
    BY <1>1 DEF Present, FileReparseState
  <2>5. cache[x].hot = FALSE
    BY <1>7, <2>3, <2>4
  <2> QED
    BY <2>3, <2>5
<1> QED
  BY <1>6, <1>7
LEMMA StampedInit == Init => Stamped
BY DEF Init, Stamped, Present

(* Every step leaves the cache alone, drops one entry for a sync, or       *)
(* touches one entry, stamping it with the clock it advances, and evicts.  *)
TouchesWith(f, e) ==
    /\ EntryOK(e)
    /\ e.used = clock + 1
    /\ cache[f] # None /\ cache[f].hot => e.hot
    /\ clock' = clock + 1
    /\ \/ /\ cache' = [cache EXCEPT ![f] = e]
          /\ e.prev = IF cache[f] = None THEN None ELSE cache[f].prev
       \/ cache' = EvictOverBudget([cache EXCEPT ![f] = e])
Drops(f) ==
    /\ cache' = [cache EXCEPT ![f] = None]
    /\ clock' = clock
    /\ reverting = None /\ reverting' = f
CacheStep ==
    \/ UNCHANGED <<cache, clock>>
    \/ \E f \in Files : Drops(f)
    \/ \E f \in Files : \E e : TouchesWith(f, e)

LEMMA EveryCacheStep == ExactInv /\ [Next]_vars => CacheStep
<1> SUFFICES ASSUME ExactInv, [Next]_vars PROVE CacheStep
  OBVIOUS
<1> USE DEF ExactInv
<1>1. ASSUME NEW f \in Files, MainLoop(f) PROVE CacheStep
  BY <1>1 DEF MainLoop, DidOpen, DidReplace, DidChange, Edited, Reanalyze,
              DidClose, CacheStep
<1>2. ASSUME NEW f \in Files, NEW supersedes \in BOOLEAN,
             Start(f, supersedes)
      PROVE  CacheStep
  <2>1. queued[f].edits \in Seq(Edits) \cup {None}
    BY <1>2 DEF Start, TypeOK, Request
  <2>2. clock < MaxClock /\ clock' = clock + 1
    BY <1>2 DEF Start
  <2>3. CASE queued[f].edits = None
    <3> DEFINE t == Touch(f)
               e == [t EXCEPT !.pending = <<>>]
    <3>1. /\ EntryOK(t) /\ t \in FileReparseState
          /\ t.used = clock + 1
          /\ cache[f] # None => t.hot = cache[f].hot
          /\ t.prev = IF cache[f] = None THEN None ELSE cache[f].prev
      BY <2>2, TouchOK, TouchStamps DEF EntryOK
    <3>2. <<>> \in Seq(Edits) /\ Len(<<>>) = 0 /\ 0 <= MaxChain
      BY LimitsAssumption
    <3>3. cache' = [cache EXCEPT ![f] = e]
      BY <1>2, <2>3 DEF Start, StageEdits
    <3> HIDE DEF t
    <3>4. /\ e \in FileReparseState
          /\ e.pending = <<>>
          /\ e.prev = t.prev
          /\ e.used = t.used
          /\ e.hot = t.hot
      BY <3>1, <3>2 DEF FileReparseState
    <3>5. EntryOK(e)
      BY <3>1, <3>2, <3>4 DEF EntryOK
    <3> HIDE DEF e
    <3>6. TouchesWith(f, e)
      BY <2>2, <3>1, <3>3, <3>4, <3>5 DEF TouchesWith
    <3> QED
      BY <3>6 DEF CacheStep
  <2>4. CASE queued[f].edits # None
    <3> DEFINE e == Extend(f, queued[f].edits)
    <3>1. EntryOK(e) /\ e.used = clock + 1 /\ e.hot = TRUE
      BY <2>1, <2>2, <2>4, ExtendOK
    <3>2. cache' = EvictOverBudget([cache EXCEPT ![f] = e])
      BY <1>2, <2>4 DEF Start, StageEdits
    <3> HIDE DEF e
    <3>3. TouchesWith(f, e)
      BY <2>2, <3>1, <3>2 DEF TouchesWith
    <3> QED
      BY <3>3 DEF CacheStep
  <2> QED
    BY <2>3, <2>4
<1>3. ASSUME NEW f \in Files, OnSync(f) PROVE CacheStep
  BY <1>3 DEF OnSync, Drops, CacheStep
<1>4. ASSUME NEW f \in Files, Unreadable(f) PROVE CacheStep
  BY <1>4 DEF Unreadable, CacheStep
<1>5. ASSUME NEW f \in Files, NEW t \in Texts, RevertToDisk(f, t)
      PROVE  CacheStep
  BY <1>5 DEF RevertToDisk, CacheStep
<1>6. ASSUME NEW f \in Files, Peek(f) \/ Unwind(f) PROVE CacheStep
  BY <1>6 DEF Peek, Unwind, CacheStep
<1>7. ASSUME NEW f \in Files, ReadBase(f) PROVE CacheStep
  <2>1. CASE cache[f] = None
    BY <1>7, <2>1 DEF ReadBase, CacheStep
  <2>2. CASE cache[f] # None
    <3>1. TouchesWith(f, Touch(f))
      BY <1>7, <2>2, TouchOK, TouchStamps DEF ReadBase, TouchesWith
    <3> QED
      BY <3>1 DEF CacheStep
  <2> QED
    BY <2>1, <2>2
<1>8. ASSUME NEW f \in Files, ReparseStore(f) PROVE CacheStep
  <2>1. ReadOK(reading[f], tracked[f])
    BY <1>8 DEF ReparseStore
  <2>2. PICK result \in
               Parses(reading[f].prev, reading[f].staged, tracked[f]) :
          cache' = Store(f, result)
    BY <1>8 DEF ReparseStore
  <2>3. result.green = tracked[f] /\ result.spliced \in BOOLEAN
    BY <2>1, ParsesExact DEF ReadOK
  <2>4. TouchesWith(f, Rebase(f, result))
    BY <1>8, <2>1, <2>2, <2>3, RebaseOK
       DEF ReparseStore, ReadOK, Store, TouchesWith
  <2> QED
    BY <2>4 DEF CacheStep
<1>9. CASE UNCHANGED vars
  BY <1>9 DEF vars, CacheStep
<1> QED
  BY <1>1, <1>2, <1>3, <1>4, <1>5, <1>6, <1>7, <1>8, <1>9
     DEF Next, AnalysisThread, Reader

LEMMA EvictKeeps ==
    ASSUME NEW c, CacheOK(c), NEW x \in Present(EvictOverBudget(c))
    PROVE  x \in Present(c) /\ EvictOverBudget(c)[x] = c[x]
BY DEF EvictOverBudget, Retain, Present

LEMMA StampedStep == ExactInv /\ Stamped /\ CacheStep => Stamped'
<1> SUFFICES ASSUME ExactInv, Stamped, CacheStep,
                    NEW x \in Present(cache')
             PROVE  cache'[x].used <= clock'
  BY DEF Stamped, Present
<1>1. clock \in Nat /\ cache \in [Files -> FileReparseState \cup {None}]
  BY LimitsAssumption DEF ExactInv, TypeOK
<1>2. \A y \in Present(cache) :
        cache[y].used \in Nat /\ cache[y].used <= clock
  BY <1>1, LimitsAssumption DEF Present, FileReparseState, Stamped
<1>3. CASE UNCHANGED <<cache, clock>>
  BY <1>2, <1>3 DEF Present
<1>4. ASSUME NEW f \in Files, Drops(f) PROVE cache'[x].used <= clock'
  BY <1>1, <1>2, <1>4 DEF Drops, Present
<1>5. ASSUME NEW f \in Files, NEW e, TouchesWith(f, e)
      PROVE  cache'[x].used <= clock'
  <2> DEFINE c == [cache EXCEPT ![f] = e]
  <2>1. x \in Present(c) /\ cache'[x] = c[x]
    <3>1. CacheOK(c)
      BY <1>5, SetEntryOK DEF TouchesWith, ExactInv
    <3> HIDE DEF c
    <3>2. cache' = c \/ cache' = EvictOverBudget(c)
      BY <1>5 DEF TouchesWith, c
    <3>3. CASE cache' = c
      BY <3>3 DEF Present
    <3>4. CASE cache' = EvictOverBudget(c)
      BY <3>1, <3>4, EvictKeeps
    <3> QED
      BY <3>2, <3>3, <3>4
  <2>2. CASE x = f
    BY <1>1, <1>5, <2>1, <2>2 DEF TouchesWith
  <2>3. CASE x # f
    <3>1. x \in Present(cache) /\ cache'[x] = cache[x]
      BY <1>1, <2>1, <2>3 DEF Present
    <3> QED
      BY <1>1, <1>2, <1>5, <3>1 DEF TouchesWith
  <2> QED
    BY <2>2, <2>3
<1> QED
  BY <1>3, <1>4, <1>5 DEF CacheStep

(* Whatever is typed and swept, eviction never takes a hot entry while a   *)
(* cold one stays, nor the newer of two of one class (evict_over_budget).  *)
THEOREM EvictionIsFair == Spec => EvictsColdThenOldest
<1> DEFINE Ordered == reverting' = reverting =>
             \A f \in Present(cache) \ Present(cache'), g \in Present(cache') :
               \/ cache[f].hot = FALSE /\ cache'[g].hot
               \/ /\ cache[f].hot = cache'[g].hot
                  /\ cache[f].used < cache'[g].used
<1>1. ExactInv /\ Stamped /\ CacheStep => Ordered
  <2> SUFFICES ASSUME ExactInv, Stamped, CacheStep, reverting' = reverting
               PROVE  Ordered
    OBVIOUS
  <2>1. CASE UNCHANGED <<cache, clock>>
    BY <2>1 DEF Present
  <2>2. ASSUME NEW f \in Files, Drops(f) PROVE Ordered
    BY <2>2, NoneAssumption DEF Drops
  <2>3. ASSUME NEW f \in Files, NEW e, TouchesWith(f, e) PROVE Ordered
    <3>1. CASE cache' = [cache EXCEPT ![f] = e]
      <4>1. Present(cache) \subseteq Present(cache')
        BY <2>3, <3>1, NoneAssumption
           DEF TouchesWith, EntryOK, Present, ExactInv, TypeOK
      <4> QED
        BY <4>1
    <3>2. CASE cache' = EvictOverBudget([cache EXCEPT ![f] = e])
      BY <2>3, <3>2, TouchedEvicts DEF TouchesWith
    <3> QED
      BY <2>3, <3>1, <3>2 DEF TouchesWith
  <2> QED
    BY <2>1, <2>2, <2>3 DEF CacheStep
<1>2. ExactInv /\ Stamped /\ [Next]_vars => Stamped' /\ [Ordered]_vars
  BY <1>1, EveryCacheStep, StampedStep
<1> QED
  BY <1>2, StampedInit, ExactInvariant, PTL DEF Spec, EvictsColdThenOldest

-----------------------------------------------------------------------------
(* The number of bases.                                                    *)

(* No two entries were used at the same time.                              *)
DistinctStamps(c) ==
    \A f, g \in Present(c) : c[f].used = c[g].used => f = g

(* Among entries with distinct stamps, all but n are above the nth oldest: *)
(* the rank of an entry, the number of older ones, tells it from the rest. *)
LEMMA OldestGo ==
    ASSUME NEW c, CacheOK(c), DistinctStamps(c), NEW fs \in SUBSET Present(c),
           NEW n \in Nat, n <= Cardinality(fs)
    PROVE  Cardinality({f \in fs : Above(c, fs, n, c[f].used)})
             <= Cardinality(fs) - n
<1> DEFINE kept == {f \in fs : Above(c, fs, n, c[f].used)}
           Below(f) == {g \in fs : c[g].used < c[f].used}
           ranks == n..(Cardinality(fs) - 1)
           rank == [f \in kept |-> Cardinality(Below(f))]
<1>1. \A f \in fs : c[f].used \in Nat
  BY LimitsAssumption DEF CacheOK, EntryOK, FileReparseState, Present
<1>2. IsFiniteSet(fs) /\ Cardinality(fs) \in Nat
  BY FilesAssumption, FS_Subset, FS_CardinalityType DEF Present
<1>3. \A f \in fs : IsFiniteSet(Below(f)) /\ Cardinality(Below(f)) \in Nat
  BY <1>2, FS_Subset, FS_CardinalityType
<1>4. ASSUME NEW f \in fs, NEW g \in fs, c[f].used < c[g].used
      PROVE  Cardinality(Below(f)) < Cardinality(Below(g))
  <2>1. Below(f) \subseteq Below(g) /\ f \in Below(g) /\ f \notin Below(f)
    BY <1>1, <1>4
  <2>2. Below(f) # Below(g)
    BY <2>1
  <2> HIDE DEF Below
  <2> QED
    BY <1>3, <2>1, <2>2, FS_Subset
<1>5. ASSUME NEW f \in fs PROVE Cardinality(Below(f)) <= Cardinality(fs) - 1
  <2>1. Below(f) \subseteq fs /\ f \notin Below(f)
    BY <1>1
  <2>2. Below(f) # fs
    BY <2>1
  <2> HIDE DEF Below
  <2> QED
    BY <1>2, <1>3, <2>1, <2>2, FS_Subset
<1>6. rank \in [kept -> ranks]
  <2> SUFFICES ASSUME NEW f \in kept PROVE Cardinality(Below(f)) \in ranks
    OBVIOUS
  <2>1. f \in fs /\ Cardinality(Below(f)) >= n
    BY DEF Above
  <2>2. Cardinality(Below(f)) \in Nat /\ Cardinality(Below(f)) <= Cardinality(fs) - 1
    BY <1>3, <1>5, <2>1
  <2> HIDE DEF Below
  <2> QED
    BY <1>2, <2>1, <2>2
<1>7. \A f, g \in kept : rank[f] = rank[g] => f = g
  <2> SUFFICES ASSUME NEW f \in kept, NEW g \in kept, f # g PROVE rank[f] # rank[g]
    OBVIOUS
  <2>1. c[f].used # c[g].used
    BY DEF DistinctStamps
  <2>2. c[f].used < c[g].used \/ c[g].used < c[f].used
    BY <1>1, <2>1
  <2>3. /\ Cardinality(Below(f)) \in Nat /\ Cardinality(Below(g)) \in Nat
        /\ \/ Cardinality(Below(f)) < Cardinality(Below(g))
           \/ Cardinality(Below(g)) < Cardinality(Below(f))
    BY <1>3, <1>4, <2>2
  <2>4. rank[f] = Cardinality(Below(f)) /\ rank[g] = Cardinality(Below(g))
    OBVIOUS
  <2> HIDE DEF Below, rank
  <2> QED
    BY <2>3, <2>4
<1>8. IsFiniteSet(ranks) /\ Cardinality(ranks) = Cardinality(fs) - n
  <2> DEFINE top == Cardinality(fs) - 1
  <2>1. n \in Int /\ top \in Int /\ top >= n - 1
    BY <1>2
  <2>2. (IF n > top THEN 0 ELSE top - n + 1) = Cardinality(fs) - n
    BY <1>2, <2>1
  <2>3. IsFiniteSet(n..top) /\ Cardinality(n..top) = IF n > top THEN 0 ELSE top - n + 1
    <3> HIDE DEF top
    <3> QED
      BY <2>1, FS_Interval
  <2> QED
    BY <2>2, <2>3
<1>9. IsFiniteSet(kept) /\ Cardinality(kept) \in Nat
  BY <1>2, FS_Subset, FS_CardinalityType
<1> HIDE DEF kept, ranks, rank
<1>10. ~ (Cardinality(ranks) < Cardinality(kept))
  BY <1>6, <1>7, <1>8, <1>9, FS_PigeonHole
<1> QED
  BY <1>2, <1>8, <1>9, <1>10 DEF kept

(* evict_over_budget leaves no more than MAX_REPARSE_BASES entries.        *)
LEMMA EvictBounds ==
    ASSUME NEW c, CacheOK(c), DistinctStamps(c)
    PROVE  /\ IsFiniteSet(Present(EvictOverBudget(c)))
           /\ Cardinality(Present(EvictOverBudget(c))) <= MaxBases
<1> DEFINE over == Cardinality(Present(c)) - MaxBases
           cut == Cardinality(Hot(c)) - MaxBases
           cold == Present(c) \ Hot(c)
           coldKept == {f \in cold : Above(c, cold, over, c[f].used)}
           hotKept == {f \in Hot(c) : Above(c, Hot(c), cut, c[f].used)}
<1>1. /\ IsFiniteSet(Present(c)) /\ IsFiniteSet(Hot(c)) /\ IsFiniteSet(cold)
      /\ Hot(c) \subseteq Present(c)
  BY FilesAssumption, FS_Subset DEF Present, Hot
<1>2. Cardinality(cold) = Cardinality(Present(c)) - Cardinality(Hot(c))
  <2>1. Present(c) \cap Hot(c) = Hot(c)
    BY <1>1
  <2> QED
    BY <1>1, <2>1, FS_Difference
<1>3. /\ Cardinality(Present(c)) \in Nat /\ Cardinality(Hot(c)) \in Nat
      /\ Cardinality(cold) \in Nat /\ MaxBases \in Nat
  BY <1>1, FS_CardinalityType, LimitsAssumption
<1>4. \A kept \in SUBSET Present(c) : Present(Retain(c, kept)) = kept
  BY DEF Retain, Present
<1>5. CASE over <= 0
  BY <1>1, <1>3, <1>5 DEF EvictOverBudget
<1>6. CASE over > 0 /\ cut <= 0
  <2>1. EvictOverBudget(c) = Retain(c, Hot(c) \cup coldKept)
    BY <1>3, <1>6 DEF EvictOverBudget
  <2>2. Hot(c) \cup coldKept \in SUBSET Present(c)
    BY <1>1
  <2>3. over \in Nat /\ over <= Cardinality(cold) /\ cold \in SUBSET Present(c)
    BY <1>2, <1>3, <1>6
  <2>4. Cardinality(coldKept) <= Cardinality(cold) - over
    <3> HIDE DEF over, cold
    <3> QED
      BY <2>3, OldestGo
  <2>5. /\ IsFiniteSet(coldKept) /\ Cardinality(coldKept) \in Nat
        /\ Hot(c) \cap coldKept = {}
    BY <1>1, FS_Subset, FS_CardinalityType
  <2> DEFINE hot == Hot(c)
  <2> HIDE DEF coldKept
  <2>6. /\ IsFiniteSet(Hot(c) \cup coldKept)
        /\ Cardinality(Hot(c) \cup coldKept)
             = Cardinality(Hot(c)) + Cardinality(coldKept)
    <3>1. IsFiniteSet(hot) /\ IsFiniteSet(coldKept) /\ Cardinality(hot \cap coldKept) = 0
      BY <1>1, <2>5, FS_EmptySet
    <3> HIDE DEF hot
    <3>2. /\ IsFiniteSet(hot \cup coldKept)
          /\ Cardinality(hot \cup coldKept) = Cardinality(hot) + Cardinality(coldKept) - 0
      BY <3>1, FS_Union
    <3>3. Cardinality(hot) + Cardinality(coldKept) - 0 = Cardinality(hot) + Cardinality(coldKept)
      BY <1>3, <2>5 DEF hot
    <3> QED
      BY <3>2, <3>3 DEF hot
  <2>7. Cardinality(Hot(c) \cup coldKept) <= MaxBases
    BY <1>2, <1>3, <2>4, <2>5, <2>6
  <2> QED
    BY <1>4, <2>1, <2>2, <2>6, <2>7
<1>7. CASE over > 0 /\ cut > 0
  <2>1. EvictOverBudget(c) = Retain(c, hotKept)
    BY <1>3, <1>7 DEF EvictOverBudget
  <2>2. hotKept \in SUBSET Present(c) /\ IsFiniteSet(hotKept)
    BY <1>1, FS_Subset
  <2>3. Cardinality(hotKept) <= Cardinality(Hot(c)) - cut
    <3>1. cut \in Nat /\ cut <= Cardinality(Hot(c))
      BY <1>3, <1>7
    <3> HIDE DEF cut
    <3> QED
      BY <1>1, <3>1, OldestGo
  <2>4. Cardinality(hotKept) <= MaxBases
    BY <1>3, <2>3
  <2> HIDE DEF hotKept
  <2> QED
    BY <1>4, <2>1, <2>2, <2>4
<1> QED
  BY <1>3, <1>5, <1>6, <1>7

BoundInv == Stamped /\ DistinctStamps(cache) /\ BasesBounded

LEMMA BoundInit == Init => BoundInv
<1> SUFFICES ASSUME Init PROVE BoundInv
  OBVIOUS
<1>1. Present(cache) = {}
  BY DEF Init, Present
<1>2. BasesBounded
  BY <1>1, FS_EmptySet, LimitsAssumption DEF BasesBounded
<1> QED
  BY <1>1, <1>2 DEF BoundInv, Stamped, DistinctStamps

LEMMA BoundStep == ExactInv /\ BoundInv /\ CacheStep => BoundInv'
<1> SUFFICES ASSUME ExactInv, BoundInv, CacheStep PROVE BoundInv'
  OBVIOUS
<1>1. Stamped'
  BY StampedStep DEF BoundInv
<1>2. clock \in Nat /\ cache \in [Files -> FileReparseState \cup {None}]
  BY LimitsAssumption DEF ExactInv, TypeOK
<1>3. \A g \in Present(cache) : cache[g].used \in Nat /\ cache[g].used <= clock
  BY <1>2, LimitsAssumption DEF Present, FileReparseState, BoundInv, Stamped
<1> DEFINE Based(c) == {g \in Present(c) : c[g].prev # None}
<1>4. \A c : IsFiniteSet(Based(c)) /\ IsFiniteSet(Present(c))
  BY FilesAssumption, FS_Subset DEF Present
<1>5. \A c : Based(c) \subseteq Based(cache) => Cardinality(Based(c)) <= MaxBases
  <2> TAKE c
  <2>1. Cardinality(Based(cache)) <= MaxBases
    BY DEF BoundInv, BasesBounded
  <2>2. Cardinality(Based(cache)) \in Nat /\ Cardinality(Based(c)) \in Nat
    BY <1>4, FS_CardinalityType
  <2>3. IsFiniteSet(Based(cache))
    BY <1>4
  <2> HIDE DEF Based
  <2> QED
    BY <2>1, <2>2, <2>3, FS_Subset, LimitsAssumption
<1>6. CASE UNCHANGED <<cache, clock>>
  BY <1>1, <1>6 DEF BoundInv, DistinctStamps, BasesBounded, Present
<1>7. ASSUME NEW f \in Files, Drops(f) PROVE BoundInv'
  <2>1. Present(cache') \subseteq Present(cache)
    BY <1>2, <1>7 DEF Drops, Present
  <2>2. \A g \in Present(cache') : cache'[g] = cache[g]
    BY <1>2, <1>7 DEF Drops, Present
  <2>3. DistinctStamps(cache')
    BY <2>1, <2>2 DEF BoundInv, DistinctStamps
  <2>4. Based(cache') \subseteq Based(cache)
    BY <2>1, <2>2
  <2> QED
    BY <1>1, <1>5, <2>3, <2>4 DEF BoundInv, BasesBounded
<1>8. ASSUME NEW f \in Files, NEW e, TouchesWith(f, e) PROVE BoundInv'
  <2> DEFINE c == [cache EXCEPT ![f] = e]
  <2>1. CacheOK(c)
    BY <1>8, SetEntryOK DEF TouchesWith, ExactInv
  <2>2. /\ c[f] = e
        /\ \A g \in Present(c) \ {f} : g \in Present(cache) /\ c[g] = cache[g]
    BY <1>2 DEF Present
  <2>3. e.used = clock + 1
    BY <1>8 DEF TouchesWith
  <2>4. DistinctStamps(c)
    <3> SUFFICES ASSUME NEW g \in Present(c), NEW h \in Present(c),
                        c[g].used = c[h].used
                 PROVE  g = h
      BY DEF DistinctStamps
    <3> HIDE DEF c
    <3>1. CASE g = f /\ h # f
      BY <1>2, <1>3, <2>2, <2>3, <3>1
    <3>2. CASE g # f /\ h = f
      BY <1>2, <1>3, <2>2, <2>3, <3>2
    <3>3. CASE g # f /\ h # f
      BY <2>2, <3>3 DEF BoundInv, DistinctStamps
    <3> QED
      BY <3>1, <3>2, <3>3
  <2>5. CASE cache' = c /\ e.prev = IF cache[f] = None THEN None ELSE cache[f].prev
    <3>1. Based(c) \subseteq Based(cache)
      <4> SUFFICES ASSUME NEW g \in Based(c) PROVE g \in Based(cache)
        OBVIOUS
      <4> HIDE DEF c
      <4>1. CASE g = f
        BY <2>2, <2>5, <4>1 DEF Present
      <4>2. CASE g # f
        BY <2>2, <4>2
      <4> QED
        BY <4>1, <4>2
    <3>2. Cardinality(Based(cache')) <= MaxBases
      BY <1>5, <2>5, <3>1
    <3> HIDE DEF c
    <3> QED
      BY <1>1, <2>4, <2>5, <3>2 DEF BoundInv, BasesBounded
  <2>6. CASE cache' = EvictOverBudget(c)
    <3> HIDE DEF c
    <3>1. \A g \in Present(cache') : g \in Present(c) /\ cache'[g] = c[g]
      BY <2>1, <2>6, EvictKeeps
    <3>2. DistinctStamps(cache')
      BY <2>4, <3>1 DEF DistinctStamps
    <3>3. Cardinality(Present(cache')) <= MaxBases
      BY <2>1, <2>4, <2>6, EvictBounds
    <3>4. Cardinality(Based(cache')) <= MaxBases
      <4>1. Based(cache') \subseteq Present(cache')
        OBVIOUS
      <4>2. /\ IsFiniteSet(Present(cache')) /\ Cardinality(Present(cache')) \in Nat
            /\ Cardinality(Based(cache')) \in Nat
        BY <1>4, FS_CardinalityType
      <4> HIDE DEF Based
      <4> QED
        BY <3>3, <4>1, <4>2, FS_Subset, LimitsAssumption
    <3> QED
      BY <1>1, <3>2, <3>4 DEF BoundInv, BasesBounded
  <2> QED
    BY <1>8, <2>5, <2>6 DEF TouchesWith
<1> QED
  BY <1>6, <1>7, <1>8 DEF CacheStep

(* Whatever is opened, swept and parsed at once, at most MAX_REPARSE_BASES *)
(* files keep a base (evict_over_budget): the stamps of the entries are    *)
(* all different, so counting from the oldest drops exactly the excess.    *)
THEOREM BasesStayBounded == Spec => []BasesBounded
<1>1. BoundInv => BasesBounded
  BY DEF BoundInv
<1>2. ExactInv /\ BoundInv /\ [Next]_vars => BoundInv'
  BY EveryCacheStep, BoundStep
<1> QED
  BY <1>1, <1>2, BoundInit, ExactInvariant, PTL DEF Spec

-----------------------------------------------------------------------------
(* What a chain of edits makes of a text (ApplyAll).                       *)

(* One edit of a chain.                                                    *)
Step(t, e) == IF t = None THEN None ELSE Apply[e][t]

Chained == INSTANCE FoldInduction WITH Op <- Step

LEMMA ApplyAllFolds ==
    ASSUME NEW edits, NEW text
    PROVE  ApplyAll(edits, text) = Chained!FoldLeft(Step, text, edits)
BY DEF ApplyAll, Step, FoldLeft, MapThenFoldSet, Max,
       Chained!FoldLeft, Chained!MapThenFoldSet, Chained!Max

LEMMA ApplyNothing ==
    ASSUME NEW text
    PROVE  ApplyAll(<<>>, text) = text
BY ApplyAllFolds, Chained!FoldNothing

(* Applying two chains in turn is applying the one they make together.     *)
LEMMA ApplyBoth ==
    ASSUME NEW a \in Seq(Edits), NEW b \in Seq(Edits), NEW text
    PROVE  ApplyAll(a \o b, text) = ApplyAll(b, ApplyAll(a, text))
BY ApplyAllFolds, Chained!FoldBoth

-----------------------------------------------------------------------------
(* The staged chain leads from the base to the tracked text.               *)

(* A queued transform leads from the tracked text to the queued one, unless *)
(* buffer and queue are known to have parted.                              *)
QueueReaches(f) ==
    /\ queued[f] # None /\ queued[f].edits # None /\ chain[f] # "diverged" =>
         ApplyAll(queued[f].edits, tracked[f]) = queued[f].text
    /\ reverting = f => queued[f] = None

(* What was staged since a parse peeked leads from the tracked text back to *)
(* it, unless something doubtful was staged; then the chain is not exact.   *)
ReadReaches(f) ==
    reading[f] # None =>
        IF reading[f].intact
        THEN cache[f] # None =>
               /\ Len(reading[f].staged) <= Len(cache[f].pending)
               /\ ApplyAll(Drain(cache[f].pending, Len(reading[f].staged)), tracked[f])
                    = tracked[f]
        ELSE chain[f] # "exact"

BaseReaches(f) ==
    cache[f] # None /\ cache[f].prev # None /\ chain[f] = "exact" =>
        ApplyAll(cache[f].pending, cache[f].prev.text) = tracked[f]

FileReaches(f) == QueueReaches(f) /\ ReadReaches(f) /\ BaseReaches(f)
ReachInv == \A f \in Files : FileReaches(f)

(* Another file loses its entry or its parse at most.                      *)
LEMMA OtherFile ==
    ASSUME NEW g \in Files, FileReaches(g),
           queued'[g] = queued[g], tracked'[g] = tracked[g], chain'[g] = chain[g],
           cache'[g] \in {cache[g], None}, reading'[g] \in {reading[g], None},
           reverting' # g
    PROVE  FileReaches(g)'
<1>1. QueueReaches(g)'
  BY DEF FileReaches, QueueReaches
<1>2. BaseReaches(g)'
  BY DEF FileReaches, BaseReaches
<1>3. ReadReaches(g)'
  BY DEF FileReaches, ReadReaches
<1> QED
  BY <1>1, <1>2, <1>3 DEF FileReaches

LEMMA DrainAppends ==
    ASSUME NEW a \in Seq(Edits), NEW b \in Seq(Edits), NEW n \in Nat, n <= Len(a)
    PROVE  Drain(a \o b, n) = Drain(a, n) \o b
<1> DEFINE l == SubSeq(a \o b, n + 1, Len(a \o b))
           r == SubSeq(a, n + 1, Len(a)) \o b
<1>1. l \in Seq(Edits) /\ r \in Seq(Edits)
  OBVIOUS
<1>2. Len(l) = Len(a) + Len(b) - n /\ Len(r) = Len(a) + Len(b) - n
  OBVIOUS
<1>3. ASSUME NEW i \in 1..(Len(a) + Len(b) - n) PROVE l[i] = r[i]
  <2>1. n + i \in 1..(Len(a) + Len(b)) /\ l[i] = (a \o b)[n + i]
    OBVIOUS
  <2>2. SubSeq(a, n + 1, Len(a)) \in Seq(Edits) /\ Len(SubSeq(a, n + 1, Len(a))) = Len(a) - n
    OBVIOUS
  <2>3. CASE i <= Len(a) - n
    <3>1. r[i] = SubSeq(a, n + 1, Len(a))[i]
      BY <2>2, <2>3
    <3>2. SubSeq(a, n + 1, Len(a))[i] = a[n + i]
      BY <2>3
    <3>3. (a \o b)[n + i] = a[n + i]
      BY <2>1, <2>3
    <3> QED
      BY <2>1, <3>1, <3>2, <3>3
  <2>4. CASE i > Len(a) - n
    <3>1. r[i] = b[i - (Len(a) - n)]
      BY <2>2, <2>4
    <3>2. (a \o b)[n + i] = b[(n + i) - Len(a)]
      BY <2>1, <2>4
    <3>3. i - (Len(a) - n) = (n + i) - Len(a)
      OBVIOUS
    <3> QED
      BY <2>1, <3>1, <3>2, <3>3
  <2> QED
    BY <2>3, <2>4
<1>4. l = r
  <2> HIDE DEF l, r
  <2> QED
    BY <1>1, <1>2, <1>3
<1> QED
  BY <1>4 DEF Drain

LEMMA DrainAll ==
    ASSUME NEW a \in Seq(Edits)
    PROVE  Drain(a, Len(a)) = <<>>
BY DEF Drain

LEMMA DrainNothing ==
    ASSUME NEW n \in Nat
    PROVE  Drain(<<>>, n) = <<>>
BY DEF Drain

LEMMA TouchContents ==
    ASSUME CacheOK(cache), NEW f \in Files
    PROVE  /\ cache[f] = None => Touch(f).pending = <<>> /\ Touch(f).prev = None
           /\ cache[f] # None => /\ Touch(f).pending = cache[f].pending
                                 /\ Touch(f).prev = cache[f].prev
<1>1. cache[f] # None => cache[f] \in FileReparseState
  BY DEF CacheOK
<1> QED
  BY <1>1 DEF Touch, FileReparseState

(* An entry set and then swept over is there or gone; so is every other.   *)
LEMMA SetAndEvicted ==
    ASSUME CacheOK(cache), NEW f \in Files, NEW e, NEW c,
           \/ c = [cache EXCEPT ![f] = e]
           \/ c = EvictOverBudget([cache EXCEPT ![f] = e])
    PROVE  /\ c[f] \in {e, None}
           /\ \A g \in Files : g # f => c[g] \in {cache[g], None}
<1> DEFINE d == [cache EXCEPT ![f] = e]
<1>1. d[f] = e /\ \A g \in Files : g # f => d[g] = cache[g]
  BY DEF CacheOK
<1> HIDE DEF d
<1>2. \A g \in Files : EvictOverBudget(d)[g] \in {d[g], None}
  BY DEF EvictOverBudget, Retain
<1> QED
  BY <1>1, <1>2 DEF d
-----------------------------------------------------------------------------
LEMMA ReachInit == Init => ReachInv
BY DEF Init, ReachInv, FileReaches, QueueReaches, ReadReaches, BaseReaches

(* enqueue composes the transforms it coalesces.                           *)
LEMMA SendReaches ==
    ASSUME ExactInv, NEW f \in Files, NEW doc \in Document,
           NEW edits \in Seq(Edits) \cup {None}, SendAnalysis(f, doc, edits),
           QueueReaches(f), tracked' = tracked, reverting' = reverting,
           chain'[f] # "diverged" => chain[f] # "diverged",
           chain'[f] # "diverged" /\ edits # None =>
               ApplyAll(edits, LastSent(f)) = doc.text
    PROVE  QueueReaches(f)'
<1> DEFINE old == queued[f]
           req == [version |-> doc.version, text |-> doc.text, edits |-> edits]
           new == Enqueue(old, req)
<1>1. queued'[f] = new /\ reverting' # f
  BY NoneAssumption DEF SendAnalysis, ExactInv, TypeOK
<1>2. old \in Request \cup {None} /\ req \in Request
  BY DEF ExactInv, TypeOK, Document, Request
<1>3. SUFFICES ASSUME new.edits # None, chain'[f] # "diverged"
               PROVE  ApplyAll(new.edits, tracked[f]) = new.text
  BY <1>1 DEF QueueReaches
<1>4. CASE old = None
  <2>1. new = req
    BY <1>4 DEF Enqueue
  <2>2. LastSent(f) = tracked[f]
    BY <1>4 DEF LastSent
  <2> QED
    BY <1>3, <2>1, <2>2
<1>5. CASE old # None /\ old.version < req.version /\ None \in {old.edits, req.edits}
  <2>1. new = [req EXCEPT !.edits = None]
    BY <1>5 DEF Enqueue
  <2> QED
    BY <1>3, <2>1
<1>6. CASE old # None /\ old.version < req.version /\ None \notin {old.edits, req.edits}
  <2>1. new = [req EXCEPT !.edits = old.edits \o edits]
    BY <1>6 DEF Enqueue
  <2>2. old.edits \in Seq(Edits) /\ edits \in Seq(Edits)
    BY <1>2, <1>6 DEF Request
  <2>3. ApplyAll(old.edits, tracked[f]) = old.text
    BY <1>3, <1>6 DEF QueueReaches
  <2>4. ApplyAll(edits, old.text) = doc.text
    BY <1>3, <1>6 DEF LastSent
  <2>5. ApplyAll(old.edits \o edits, tracked[f]) = doc.text
    BY <2>2, <2>3, <2>4, ApplyBoth
  <2>6. new.edits = old.edits \o edits /\ new.text = doc.text
    BY <2>1
  <2> QED
    BY <2>5, <2>6
<1>7. CASE old # None /\ ~ (old.version < req.version) /\ old.text # req.text
  <2>1. new = [old EXCEPT !.edits = None]
    BY <1>7 DEF Enqueue
  <2>2. new.edits = None
    BY <1>2, <1>7, <2>1 DEF Request
  <2> QED
    BY <1>3, <2>2
<1>8. CASE old # None /\ ~ (old.version < req.version) /\ old.text = req.text
  <2>1. new = old
    BY <1>8 DEF Enqueue
  <2> QED
    BY <1>3, <1>8, <2>1 DEF QueueReaches
<1> QED
  BY <1>4, <1>5, <1>6, <1>7, <1>8

(* A step of the main loop that sends a request for f.                     *)
LEMMA SentReaches ==
    ASSUME ExactInv, ReachInv, NEW f \in Files, NEW doc \in Document,
           NEW edits \in Seq(Edits) \cup {None}, SendAnalysis(f, doc, edits),
           UNCHANGED <<tracked, reverting, cache, reading>>,
           chain' \in {chain, [chain EXCEPT ![f] = "diverged"]},
           chain'[f] # "diverged" /\ edits # None =>
               ApplyAll(edits, LastSent(f)) = doc.text
    PROVE  ReachInv'
<1>1. chain \in [Files -> {"exact", "unknown", "diverged"}]
      /\ queued \in [Files -> Request \cup {None}]
  BY DEF ExactInv, TypeOK
<1>2. FileReaches(f)
  BY DEF ReachInv
<1>3. chain'[f] \in {chain[f], "diverged"} /\ \A g \in Files : g # f => chain'[g] = chain[g]
  BY <1>1
<1>4. QueueReaches(f)'
  BY <1>2, <1>3, SendReaches DEF FileReaches
<1>5. ReadReaches(f)' /\ BaseReaches(f)'
  BY <1>2, <1>3 DEF FileReaches, ReadReaches, BaseReaches
<1>6. ASSUME NEW g \in Files, g # f PROVE FileReaches(g)'
  <2>1. queued'[g] = queued[g]
    BY <1>1, <1>6 DEF SendAnalysis
  <2>2. reverting' # g
    BY NoneAssumption DEF SendAnalysis
  <2>3. FileReaches(g)
    BY DEF ReachInv
  <2> QED
    BY <1>3, <1>6, <2>1, <2>2, <2>3, OtherFile
<1> QED
  BY <1>4, <1>5, <1>6 DEF FileReaches, ReachInv

LEMMA MainLoopReaches ==
    ASSUME ExactInv, ReachInv, NEW f \in Files, MainLoop(f)
    PROVE  ReachInv'
<1>1. chain \in [Files -> {"exact", "unknown", "diverged"}]
  BY DEF ExactInv, TypeOK
<1>2. ASSUME NEW t \in Texts, documents[f] # None, documents[f].version < MaxVersion
      PROVE  [version |-> documents[f].version + 1, text |-> t] \in Document
  BY <1>2, LimitsAssumption DEF ExactInv, TypeOK, Document
<1>3. ASSUME NEW doc \in Document, Edited(f, doc, None) PROVE ReachInv'
  <2>1. chain' = chain
    BY <1>3 DEF Edited
  <2> QED
    BY <1>3, <2>1, SentReaches DEF Edited
<1>4. ASSUME NEW t \in Texts, DidOpen(f, t) PROVE ReachInv'
  <2>1. [version |-> 1, text |-> t] \in Document
    BY LimitsAssumption DEF Document
  <2> QED
    BY <1>3, <1>4, <2>1 DEF DidOpen
<1>5. ASSUME NEW t \in Texts, DidReplace(f, t) PROVE ReachInv'
  BY <1>2, <1>3, <1>5 DEF DidReplace
<1>6. ASSUME NEW batch \in Batches, DidChange(f, batch) PROVE ReachInv'
  <2>1. batch \in Seq(Edits) /\ batch # None
    BY EditsAssumption
  <2>2. PICK t \in Texts :
          /\ ApplyAll(batch, documents[f].text) = t
          /\ Edited(f, [version |-> documents[f].version + 1, text |-> t], batch)
    BY <1>6 DEF DidChange
  <2> DEFINE doc == [version |-> documents[f].version + 1, text |-> t]
  <2>3. doc \in Document /\ doc.text = t
    BY <1>2, <1>6 DEF DidChange
  <2>4. /\ SendAnalysis(f, doc, batch)
        /\ UNCHANGED <<tracked, reverting, cache, reading>>
        /\ chain' = IF documents[f].text # LastSent(f)
                    THEN [chain EXCEPT ![f] = "diverged"] ELSE chain
    BY <2>1, <2>2 DEF Edited
  <2>5. chain'[f] # "diverged" => ApplyAll(batch, LastSent(f)) = doc.text
    BY <1>1, <2>2, <2>3, <2>4
  <2> HIDE DEF doc
  <2> QED
    BY <2>1, <2>3, <2>4, <2>5, SentReaches
<1>7. CASE Reanalyze(f)
  <2>1. documents[f] \in Document
    BY <1>7 DEF Reanalyze, ExactInv, TypeOK
  <2> QED
    BY <1>7, <2>1, SentReaches DEF Reanalyze
<1>8. CASE DidClose(f)
  BY <1>8 DEF DidClose, ReachInv, FileReaches, QueueReaches, ReadReaches, BaseReaches
<1> QED
  BY <1>4, <1>5, <1>6, <1>7, <1>8 DEF MainLoop

(* start stages what was queued: a transform of the tracked text, or one   *)
(* after which the chain counts as unknown.                                *)
LEMMA StartReaches ==
    ASSUME ExactInv, ReachInv, NEW f \in Files, NEW supersedes \in BOOLEAN,
           Start(f, supersedes)
    PROVE  ReachInv'
<1> DEFINE q == queued[f]
           doubtful == Doubtful(f, q.edits)
<1>1. /\ queued \in [Files -> Request \cup {None}]
      /\ tracked \in [Files -> Texts \cup {None}]
      /\ reading \in [Files -> Read \cup {None}]
      /\ chain \in [Files -> {"exact", "unknown", "diverged"}]
      /\ CacheOK(cache)
  BY DEF ExactInv, TypeOK
<1>2. q \in Request /\ q.text \in Texts /\ q.edits \in Seq(Edits) \cup {None}
  BY <1>1 DEF Start, Request
<1>3. /\ queued'[f] = None /\ tracked'[f] = q.text /\ reverting' = None
      /\ reverting' = reverting
      /\ \A g \in Files : g # f => queued'[g] = queued[g] /\ tracked'[g] = tracked[g]
  BY <1>1 DEF Start
<1>4. /\ chain'[f] = IF doubtful THEN "unknown" ELSE chain[f]
      /\ \A g \in Files : g # f => chain'[g] = chain[g]
  BY <1>1 DEF Start
<1>5. /\ reading'[f] # None =>
           /\ reading[f] # None /\ tracked[f] = q.text
           /\ reading'[f] = IF doubtful THEN [reading[f] EXCEPT !.intact = FALSE]
                                        ELSE reading[f]
      /\ \A g \in Files : g # f => reading'[g] \in {reading[g], None}
  <2>1. CASE supersedes \/ tracked[f] \notin {q.text, None}
    BY <2>1 DEF Start, EndReads
  <2>2. CASE ~ (supersedes \/ tracked[f] \notin {q.text, None})
    <3>1. reading' = IF reading[f] # None /\ doubtful
                     THEN [reading EXCEPT ![f].intact = FALSE] ELSE reading
      BY <2>2 DEF Start
    <3>2. reading[f] # None => tracked[f] \in Texts
      BY DEF ExactInv, ReadOK
    <3>3. reading[f] # None => tracked[f] = q.text
      BY <2>2, <3>2, TextsAssumption
    <3> HIDE DEF doubtful, q
    <3> QED
      BY <1>1, <3>1, <3>3
  <2> QED
    BY <2>1, <2>2
<1>6. \E e : \/ cache' = [cache EXCEPT ![f] = e]
             \/ cache' = EvictOverBudget([cache EXCEPT ![f] = e])
  BY DEF Start, StageEdits
<1>7. \A g \in Files : g # f => cache'[g] \in {cache[g], None}
  BY <1>1, <1>6, SetAndEvicted
<1>8. ASSUME NEW g \in Files, g # f PROVE FileReaches(g)'
  <2>1. FileReaches(g)
    BY DEF ReachInv
  <2>2. reverting' # g
    BY <1>3, NoneAssumption
  <2> QED
    BY <1>3, <1>4, <1>5, <1>7, <1>8, <2>1, <2>2, OtherFile
<1>9. QueueReaches(f)'
  BY <1>3, NoneAssumption DEF QueueReaches
<1>10. CASE doubtful
  <2>1. BaseReaches(f)'
    BY <1>4, <1>10 DEF BaseReaches
  <2>2. reading'[f] # None => reading'[f].intact = FALSE
    BY <1>1, <1>5, <1>10 DEF Read
  <2>3. ReadReaches(f)'
    BY <1>4, <1>10, <2>2 DEF ReadReaches
  <2> QED
    BY <1>8, <1>9, <2>1, <2>3 DEF FileReaches, ReachInv
<1>11. CASE ~ doubtful
  <2> DEFINE old == cache[f].pending
             both == old \o q.edits
             e == Extend(f, q.edits)
  <2>1. /\ q.edits # None /\ cache[f] # None /\ chain[f] # "diverged"
        /\ ~ OverBudget(both)
    BY <1>11 DEF Doubtful, Staged
  <2>2. q.edits \in Seq(Edits) /\ cache[f] \in FileReparseState /\ old \in Seq(Edits)
    BY <1>1, <1>2, <2>1 DEF CacheOK, FileReparseState
  <2>3. e.pending = both /\ e.prev = cache[f].prev
    <3> DEFINE t == Touch(f)
    <3>1. t.pending = old /\ t.prev = cache[f].prev
      BY <1>1, <2>1, TouchContents
    <3>2. t = [cache[f] EXCEPT !.used = clock + 1]
      BY <2>1 DEF Touch
    <3>3. DOMAIN t = {"prev", "pending", "used", "hot"}
      BY <2>2, <3>2 DEF FileReparseState
    <3>4. e = [t EXCEPT !.hot = TRUE,
                        !.pending = IF OverBudget(t.pending \o q.edits) THEN <<>>
                                    ELSE t.pending \o q.edits]
      BY DEF Extend
    <3> HIDE DEF t, q
    <3>5. /\ e.pending = IF OverBudget(t.pending \o q.edits) THEN <<>>
                         ELSE t.pending \o q.edits
          /\ e.prev = t.prev
      BY <3>3, <3>4
    <3> HIDE DEF e
    <3> QED
      BY <2>1, <3>1, <3>5
  <2>4. cache' = EvictOverBudget([cache EXCEPT ![f] = e])
    BY <2>1 DEF Start, StageEdits
  <2>5. cache'[f] \in {e, None}
    <3> HIDE DEF e
    <3> QED
      BY <1>1, <2>4, SetAndEvicted
  <2>6. ApplyAll(q.edits, tracked[f]) = q.text
    BY <2>1 DEF ReachInv, FileReaches, QueueReaches, Start
  <2> HIDE DEF e, q
  <2>7. BaseReaches(f)'
    <3> SUFFICES ASSUME cache'[f] # None, cache'[f].prev # None, chain'[f] = "exact"
                 PROVE  ApplyAll(cache'[f].pending, cache'[f].prev.text) = tracked'[f]
      BY DEF BaseReaches
    <3> DEFINE base == cache[f].prev.text
    <3>1. chain[f] = "exact" /\ cache'[f] = e
      BY <1>4, <1>11, <2>5
    <3>2. ApplyAll(old, base) = tracked[f]
      BY <2>1, <2>3, <3>1 DEF ReachInv, FileReaches, BaseReaches
    <3>3. ApplyAll(both, base) = ApplyAll(q.edits, ApplyAll(old, base))
      <4> HIDE DEF base, old
      <4> QED
        BY <2>2, ApplyBoth
    <3> QED
      BY <1>3, <2>3, <2>6, <3>1, <3>2, <3>3
  <2>8. ReadReaches(f)'
    <3> SUFFICES ASSUME reading'[f] # None PROVE ReadReaches(f)'
      BY DEF ReadReaches
    <3>1. reading'[f] = reading[f] /\ tracked'[f] = tracked[f] /\ chain'[f] = chain[f]
      BY <1>3, <1>4, <1>5, <1>11
    <3>2. ReadReaches(f)
      BY DEF ReachInv, FileReaches
    <3>3. CASE ~ reading[f].intact
      BY <3>1, <3>2, <3>3 DEF ReadReaches
    <3>4. CASE reading[f].intact /\ cache'[f] # None
      <4> DEFINE n == Len(reading[f].staged)
      <4>1. n \in Nat
        BY <1>1, <3>1 DEF Read
      <4>2. n <= Len(old) /\ ApplyAll(Drain(old, n), tracked[f]) = tracked[f]
        BY <2>1, <3>1, <3>2, <3>4 DEF ReadReaches
      <4>3. cache'[f].pending = both /\ Len(both) = Len(old) + Len(q.edits)
        <5>1. cache'[f] = e
          BY <2>5, <3>4
        <5>2. cache'[f].pending = both
          BY <2>3, <5>1
        <5> HIDE DEF old
        <5>3. Len(both) = Len(old) + Len(q.edits)
          BY <2>2
        <5> QED
          BY <5>2, <5>3
      <4>4. Drain(old, n) \in Seq(Edits)
        BY <2>2, <4>1 DEF Drain
      <4> HIDE DEF n, old
      <4>5. Drain(both, n) = Drain(old, n) \o q.edits
        BY <2>2, <4>1, <4>2, DrainAppends
      <4>6. ApplyAll(Drain(both, n), tracked[f]) = tracked[f]
        BY <1>5, <2>2, <2>6, <4>2, <4>4, <4>5, ApplyBoth
      <4>7. n <= Len(both)
        BY <2>2, <4>1, <4>2, <4>3
      <4> QED
        BY <3>1, <3>4, <4>3, <4>6, <4>7 DEF ReadReaches, n
    <3>5. CASE reading[f].intact /\ cache'[f] = None
      BY <3>1, <3>5 DEF ReadReaches
    <3> QED
      BY <3>3, <3>4, <3>5
  <2> QED
    BY <1>8, <1>9, <2>7, <2>8 DEF FileReaches, ReachInv
<1> QED
  BY <1>10, <1>11

(* reparse_store drains what its base is past: what is left was staged     *)
(* since the parse peeked.                                                 *)
LEMMA StoreReaches ==
    ASSUME ExactInv, ReachInv, NEW f \in Files, ReparseStore(f)
    PROVE  ReachInv'
<1>1. /\ cache \in [Files -> FileReparseState \cup {None}]
      /\ chain \in [Files -> {"exact", "unknown", "diverged"}]
      /\ reading \in [Files -> Read \cup {None}]
      /\ CacheOK(cache)
  BY DEF ExactInv, TypeOK
<1>2. PICK result : cache' = Store(f, result)
  BY DEF ReparseStore
<1> DEFINE e == Rebase(f, result)
           n == Len(reading[f].staged)
<1>3. cache' = EvictOverBudget([cache EXCEPT ![f] = e])
  BY <1>2 DEF Store
<1>4. /\ cache'[f] \in {e, None}
      /\ \A g \in Files : g # f => cache'[g] \in {cache[g], None}
  <2> HIDE DEF e
  <2> QED
    BY <1>1, <1>3, SetAndEvicted
<1>5. /\ reading[f] # None /\ n \in Nat
      /\ reading'[f] = None
      /\ chain'[f] = IF chain[f] # "diverged" /\ reading[f].intact THEN "exact" ELSE chain[f]
      /\ \A g \in Files : g # f => chain'[g] = chain[g] /\ reading'[g] = reading[g]
      /\ UNCHANGED <<queued, reverting, tracked>>
  BY <1>1 DEF ReparseStore, Read
<1>6. ASSUME NEW g \in Files, g # f PROVE FileReaches(g)'
  <2>1. FileReaches(g)
    BY DEF ReachInv
  <2>2. CASE reverting' # g
    BY <1>4, <1>5, <1>6, <2>1, <2>2, OtherFile
  <2>3. CASE reverting' = g
    BY <1>4, <1>5, <1>6, <2>1 DEF FileReaches, QueueReaches, ReadReaches, BaseReaches
  <2> QED
    BY <2>2, <2>3
<1>7. FileReaches(f)
  BY DEF ReachInv
<1>8. QueueReaches(f)'
  BY <1>5, <1>7 DEF FileReaches, QueueReaches
<1>9. ReadReaches(f)'
  BY <1>5 DEF ReadReaches
<1>10. e.prev.text = tracked[f] /\ e.pending = Drain(Touch(f).pending, n)
  <2> DEFINE t == Touch(f)
             left == Drain(t.pending, n)
             base == [text |-> tracked[f], green |-> result.green]
  <2>1. DOMAIN t = {"prev", "pending", "used", "hot"}
    <3>1. cache[f] # None => cache[f] \in FileReparseState
      BY <1>1
    <3> QED
      BY <3>1 DEF Touch, FileReparseState
  <2>2. e = [t EXCEPT !.hot = t.hot \/ result.spliced, !.prev = base, !.pending = left]
    BY DEF Rebase
  <2> HIDE DEF t, left, e, base
  <2>3. e.prev = base /\ e.pending = left
    BY <2>1, <2>2
  <2> QED
    BY <2>3 DEF base, left, t
<1> HIDE DEF e
<1>11. BaseReaches(f)'
  <2> SUFFICES ASSUME cache'[f] # None, chain'[f] = "exact"
               PROVE  ApplyAll(cache'[f].pending, cache'[f].prev.text) = tracked[f]
    BY <1>5 DEF BaseReaches
  <2>1. reading[f].intact /\ ReadReaches(f)
    BY <1>5, <1>7 DEF FileReaches, ReadReaches
  <2>2. ApplyAll(Drain(Touch(f).pending, n), tracked[f]) = tracked[f]
    <3>1. CASE cache[f] = None
      <4>1. Touch(f).pending = <<>>
        BY <1>1, <3>1, TouchContents
      <4> QED
        BY <1>5, <4>1, DrainNothing, ApplyNothing
    <3>2. CASE cache[f] # None
      <4>1. Touch(f).pending = cache[f].pending
        BY <1>1, <3>2, TouchContents
      <4> QED
        BY <1>5, <2>1, <3>2, <4>1 DEF ReadReaches
    <3> QED
      BY <3>1, <3>2
  <2> QED
    BY <1>4, <1>10, <2>2
<1> QED
  BY <1>6, <1>8, <1>9, <1>11 DEF FileReaches, ReachInv

LEMMA ReaderReaches ==
    ASSUME ExactInv, ReachInv, NEW f \in Files, Reader(f)
    PROVE  ReachInv'
<1>1. /\ cache \in [Files -> FileReparseState \cup {None}]
      /\ reading \in [Files -> Read \cup {None}]
      /\ CacheOK(cache)
  BY DEF ExactInv, TypeOK
<1>2. ASSUME UNCHANGED <<queued, reverting, tracked, chain>>,
             \A g \in Files : g # f => cache'[g] = cache[g] /\ reading'[g] = reading[g],
             ReadReaches(f)', BaseReaches(f)'
      PROVE  ReachInv'
  <2>1. ASSUME NEW g \in Files, g # f PROVE FileReaches(g)'
    BY <1>2, <2>1 DEF ReachInv, FileReaches, QueueReaches, ReadReaches, BaseReaches
  <2>2. QueueReaches(f)'
    BY <1>2 DEF ReachInv, FileReaches, QueueReaches
  <2> QED
    BY <1>2, <2>1, <2>2 DEF ReachInv, FileReaches
<1>3. ReadReaches(f) /\ BaseReaches(f)
  BY DEF ReachInv, FileReaches
<1>4. CASE Peek(f)
  <2> DEFINE r == [phase |-> "peeked", staged |-> Staged(f), prev |-> None,
                   intact |-> TRUE]
  <2>1. reading'[f] = r /\ cache' = cache /\ tracked' = tracked
    BY <1>1, <1>4 DEF Peek
  <2>2. ReadReaches(f)'
    <3> SUFFICES ASSUME cache[f] # None
                 PROVE  /\ Len(Staged(f)) <= Len(cache[f].pending)
                        /\ ApplyAll(Drain(cache[f].pending, Len(Staged(f))), tracked[f])
                             = tracked[f]
      BY <2>1 DEF ReadReaches
    <3> DEFINE pending == cache[f].pending
    <3>1. Staged(f) = pending /\ pending \in Seq(Edits)
      BY <1>1 DEF Staged, FileReparseState
    <3> HIDE DEF pending
    <3>2. Len(pending) \in Nat /\ Drain(pending, Len(pending)) = <<>>
      BY <3>1, DrainAll
    <3>3. ApplyAll(Drain(pending, Len(pending)), tracked[f]) = tracked[f]
      BY <3>2, ApplyNothing
    <3> QED
      BY <3>1, <3>2, <3>3 DEF pending
  <2>3. BaseReaches(f)'
    BY <1>3, <1>4 DEF Peek, BaseReaches
  <2>4. \A g \in Files : g # f => reading'[g] = reading[g]
    BY <1>4 DEF Peek
  <2> QED
    BY <1>2, <1>4, <2>2, <2>3, <2>4 DEF Peek
<1>5. CASE Unwind(f)
  <2>1. ReadReaches(f)' /\ BaseReaches(f)'
    BY <1>1, <1>3, <1>5 DEF Unwind, ReadReaches, BaseReaches
  <2>2. \A g \in Files : g # f => reading'[g] = reading[g]
    BY <1>5 DEF Unwind
  <2> QED
    BY <1>2, <1>5, <2>1, <2>2 DEF Unwind
<1>6. CASE ReadBase(f)
  <2>1. /\ UNCHANGED <<queued, reverting, tracked, chain>>
        /\ reading[f] # None
        /\ \A g \in Files : g # f => cache'[g] = cache[g] /\ reading'[g] = reading[g]
    BY <1>1, <1>6 DEF ReadBase
  <2>2. \/ cache[f] = None /\ cache'[f] = None
        \/ cache[f] # None /\ cache'[f] = Touch(f)
    BY <1>1, <1>6 DEF ReadBase
  <2>3. \/ reading'[f] = None
        \/ /\ reading'[f] # None
           /\ reading'[f].staged = reading[f].staged
           /\ reading'[f].intact = reading[f].intact
    <3> DEFINE prev == IF cache[f] = None THEN None ELSE cache[f].prev
    <3>1. \/ reading' = [reading EXCEPT ![f] = None]
          \/ reading' = [reading EXCEPT ![f].phase = "based", ![f].prev = prev]
      BY <1>6 DEF ReadBase
    <3> HIDE DEF prev
    <3>2. reading[f] \in Read
      BY <1>1, <2>1
    <3>3. CASE reading' = [reading EXCEPT ![f] = None]
      BY <1>1, <3>3
    <3>4. CASE reading' = [reading EXCEPT ![f].phase = "based", ![f].prev = prev]
      <4>1. reading'[f] = [reading[f] EXCEPT !.phase = "based", !.prev = prev]
        BY <1>1, <3>4
      <4>2. /\ reading'[f].staged = reading[f].staged
            /\ reading'[f].intact = reading[f].intact
        BY <3>2, <4>1 DEF Read
      <4> QED
        BY <4>2
    <3> QED
      BY <3>1, <3>3, <3>4
  <2>4. cache'[f] # None =>
          /\ cache[f] # None
          /\ cache'[f].pending = cache[f].pending
          /\ cache'[f].prev = cache[f].prev
    BY <1>1, <2>2, TouchContents
  <2>5. ReadReaches(f)'
    BY <1>3, <2>1, <2>3, <2>4 DEF ReadReaches
  <2>6. BaseReaches(f)'
    BY <1>3, <2>1, <2>4 DEF BaseReaches
  <2> QED
    BY <1>2, <2>1, <2>5, <2>6
<1> QED
  BY <1>4, <1>5, <1>6, StoreReaches DEF Reader

(* A revert evicts the entry before it writes the text.                    *)
LEMMA ThreadReaches ==
    ASSUME ExactInv, ReachInv, NEW f \in Files, AnalysisThread(f)
    PROVE  ReachInv'
<1>1. /\ cache \in [Files -> FileReparseState \cup {None}]
      /\ reading \in [Files -> Read \cup {None}]
      /\ queued \in [Files -> Request \cup {None}]
      /\ tracked \in [Files -> Texts \cup {None}]
      /\ chain \in [Files -> {"exact", "unknown", "diverged"}]
  BY DEF ExactInv, TypeOK
<1>2. FileReaches(f)
  BY DEF ReachInv
<1>3. CASE OnSync(f)
  <2>1. /\ queued'[f] = None /\ chain'[f] = "unknown" /\ reading' = reading
        /\ tracked' = tracked /\ reverting' \in {f, None}
        /\ tracked[f] # None => cache'[f] = None
        /\ \A g \in Files : g # f => /\ queued'[g] = queued[g]
                                     /\ chain'[g] = chain[g]
                                     /\ cache'[g] = cache[g]
    BY <1>1, <1>3 DEF OnSync
  <2>2. ASSUME NEW g \in Files, g # f PROVE FileReaches(g)'
    <3>1. reverting' # g
      BY <2>1, <2>2, NoneAssumption
    <3>2. FileReaches(g)
      BY DEF ReachInv
    <3> QED
      BY <2>1, <2>2, <3>1, <3>2, OtherFile
  <2>3. reading[f] # None => tracked[f] # None
    BY TextsAssumption DEF ExactInv, ReadOK
  <2>4. FileReaches(f)'
    BY <2>1, <2>3 DEF FileReaches, QueueReaches, ReadReaches, BaseReaches
  <2> QED
    BY <2>2, <2>4 DEF ReachInv
<1>4. CASE Unreadable(f)
  BY <1>4, NoneAssumption
     DEF Unreadable, ReachInv, FileReaches, QueueReaches, ReadReaches, BaseReaches
<1>5. ASSUME NEW t \in Texts, RevertToDisk(f, t) PROVE ReachInv'
  <2>1. /\ reverting = f /\ reverting' = None /\ tracked'[f] = t
        /\ UNCHANGED <<queued, cache>>
        /\ chain'[f] # "exact"
        /\ \A g \in Files : g # f => tracked'[g] = tracked[g] /\ chain'[g] = chain[g]
    BY <1>1, <1>5 DEF RevertToDisk
  <2>2. /\ reading'[f] # None => reading'[f] = reading[f] /\ tracked[f] = t
        /\ \A g \in Files : reading'[g] \in {reading[g], None}
    BY <1>5 DEF RevertToDisk, EndReads
  <2>3. ASSUME NEW g \in Files, g # f PROVE FileReaches(g)'
    <3>1. reverting' # g
      BY <2>1, NoneAssumption
    <3>2. FileReaches(g)
      BY DEF ReachInv
    <3> QED
      BY <2>1, <2>2, <2>3, <3>1, <3>2, OtherFile
  <2>4. QueueReaches(f)'
    BY <1>2, <2>1, NoneAssumption DEF FileReaches, QueueReaches
  <2>5. ReadReaches(f)' /\ BaseReaches(f)'
    BY <1>2, <2>1, <2>2 DEF FileReaches, ReadReaches, BaseReaches
  <2> QED
    BY <2>3, <2>4, <2>5 DEF ReachInv, FileReaches
<1> QED
  BY <1>3, <1>4, <1>5, StartReaches DEF AnalysisThread

LEMMA ReachStep == ExactInv /\ ReachInv /\ [Next]_vars => ReachInv'
<1> SUFFICES ASSUME ExactInv, ReachInv, [Next]_vars PROVE ReachInv'
  OBVIOUS
<1>1. CASE UNCHANGED vars
  BY <1>1 DEF vars, ReachInv, FileReaches, QueueReaches, ReadReaches, BaseReaches
<1>2. CASE Next
  BY <1>2, MainLoopReaches, ThreadReaches, ReaderReaches DEF Next
<1> QED
  BY <1>1, <1>2

(* As long as every transform is known, the chain staged for a file leads  *)
(* from its base to the tracked text, whatever is coalesced, cancelled,    *)
(* drained or evicted (enqueue, reparse_stage_edits, reparse_store).       *)
THEOREM ChainsReach == Spec => []ChainReachesText
<1>1. ReachInv => ChainReachesText
  BY DEF ReachInv, FileReaches, BaseReaches, ChainReachesText, Present
<1> QED
  BY <1>1, ReachInit, ReachStep, ExactInvariant, PTL DEF Spec
=============================================================================
