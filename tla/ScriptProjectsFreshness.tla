----------------------- MODULE ScriptProjectsFreshness -----------------------
(* More proofs about ScriptProjects: at rest the installed programs are    *)
(* those of the open buffers and the disk, no open document shows findings *)
(* of programs that were pending, and each file shows the failed includes  *)
(* of its current text.  On top of the invariant of ScriptProjectsProofs   *)
(* stands a second one, which says who still has to hear of a text that is *)
(* not current yet, a third, which says what each open document was, is or *)
(* will be linted with, and a fourth, which follows the findings of a load *)
(* from the installation through the queue to the display.                 *)
EXTENDS ScriptProjectsProofs

-----------------------------------------------------------------------------
(* The invariant: registrations.                                           *)

(* The files whose sync is queued or being handled.                        *)
SyncTarget(a) == IF Syncing(a) THEN {a[2]} ELSE {}
Awaited(a, s) == ToSet(s) \cup SyncTarget(a)

Requested(q, f) == \E i \in DOMAIN q : q[i].uri = f
LastFor(q, f, req) ==
    \E i \in DOMAIN q : q[i] = req /\ \A k \in DOMAIN q : i < k => q[k].uri # f

(* Once its last request is received an open buffer is registered, unless  *)
(* a late sync unregisters it; a closed file is, until its sync is handled.*)
Registration(doc, entries) ==
    [version |-> doc.version, text |-> doc.text, entries |-> entries]
RegistersOpen(docs, crossing, q) ==
    \A f \in Files : documents[f] # None =>
        IF Requested(q, f)
        THEN LastFor(q, f, RequestFor(f, documents[f], entry_points))
        ELSE \/ docs[f] = None /\ f \in crossing
             \/ docs[f] = Registration(documents[f], entry_points)
ForgetsClosed(docs, q, syncs) ==
    \A f \in Files : documents[f] = None /\ f \notin syncs =>
        ~Requested(q, f) /\ docs[f] = None

(* Requests arrive in the order of their versions, and a version has one   *)
(* text.                                                                   *)
NotNewer(a, b) ==
    a.version < b.version \/ (a.version = b.version /\ a.text = b.text)
InOrder(docs, q) ==
    \A i \in DOMAIN q :
        /\ \A k \in DOMAIN q : i < k /\ q[i].uri = q[k].uri => NotNewer(q[i], q[k])
        /\ docs[q[i].uri] # None => NotNewer(docs[q[i].uri], q[i])
LastVersions ==
    \A f \in Files : documents[f] # None => documents[f].version = lastVersion[f]

(* An analysis is queued with the text and the entries of its registration.*)
QueuesRegistered(w) ==
    \A f \in Files : w.pending[f] # None =>
        w.scripts.documents[f] = Registration(w.pending[f], w.pending[f].entries)

-----------------------------------------------------------------------------
(* The invariant: loads.                                                   *)

(* At most one load in transit is of the newest generation, none once it   *)
(* is installed, and it was asked with the buffers registered now.         *)
IsNewest(w, job) == job.generation = w.scripts.generation
IsAwaited(w, job) == w.scripts.loading /\ job.documents = w.scripts.documents
NewestOnce(w, rd) ==
    /\ \A i \in DOMAIN w.load : IsNewest(w, w.load[i]) =>
         i = Len(w.load) /\ IsAwaited(w, w.load[i])
    /\ loader # None /\ IsNewest(w, loader.job) =>
         w.load = <<>> /\ IsAwaited(w, loader.job)
    /\ \A i \in DOMAIN rd : IsNewest(w, rd[i].job) =>
         /\ w.load = <<>> /\ loader = None /\ i = Len(rd)
         /\ IsAwaited(w, rd[i].job)
    /\ w.parked # None /\ IsNewest(w, w.parked.job) =>
         /\ w.load = <<>> /\ loader = None /\ rd = <<>>
         /\ IsAwaited(w, w.parked.job)

(* What was read of a file is its buffer's text, or what the disk holds    *)
(* unless somebody has yet to hear that this changed.                      *)
Fresh(w, syncs, f, v) ==
    IF w.scripts.documents[f] # None THEN v = w.scripts.documents[f].text
    ELSE \/ v = disk[f]
         \/ f \in changedOnDisk \cup syncs \cup w.missed
         \/ documents[f] # None
ReadsFresh(w, syncs, l) ==
    IsNewest(w, l.job) =>
        \A f \in Files : l.sources[f] # None => Fresh(w, syncs, f, l.sources[f])
LoadsFresh(w, rd, syncs) ==
    /\ loader # None => ReadsFresh(w, syncs, loader)
    /\ \A i \in DOMAIN rd : ReadsFresh(w, syncs, rd[i])
    /\ w.parked # None => ReadsFresh(w, syncs, w.parked)

(* A load reads what the texts it read include.                            *)
ReadsIncludes(l, todo) ==
    \A f \in Files : l.sources[f] \in Texts =>
        \A g \in IncludesOf[l.sources[f]] : l.sources[g] # None \/ g \in todo
LoadsRead ==
    /\ loader # None => ReadsIncludes(loader, loader.todo)
    /\ \A i \in DOMAIN ready : ReadsIncludes(ready[i], {})

(* What is installed, while no load is awaited.                            *)
InstallsFresh(w, syncs) ==
    ~w.scripts.loading /\ w.files # None =>
        /\ w.files.entries = w.scripts.entries
        /\ w.scripts.entries \subseteq w.scripts.sources
        /\ w.scripts.sources = w.files.readable \cup w.files.failed
        /\ w.files.readable \cap w.files.failed = {}
        /\ \A f \in w.files.readable :
             /\ w.tracked[f] \in Texts
             /\ IncludesOf[w.tracked[f]] \subseteq w.scripts.sources
             /\ Fresh(w, syncs, f, w.tracked[f])
        /\ \A f \in w.files.failed : Fresh(w, syncs, f, Unreadable)

(* q: the requests to receive; rd: the results in the ready channel;       *)
(* syncs: the files a sync is awaited for.                                 *)
Registers(w, q, syncs) ==
    /\ w.scripts.entries = EntriesOf(w.scripts.documents)
    /\ InOrder(w.scripts.documents, q)
    /\ RegistersOpen(w.scripts.documents, w.crossed, q)
    /\ ForgetsClosed(w.scripts.documents, q, syncs)
Current(w, rd, q, syncs) ==
    /\ Registers(w, q, syncs)
    /\ NewestOnce(w, rd)
    /\ LoadsFresh(w, rd, syncs)
    /\ InstallsFresh(w, syncs)

-----------------------------------------------------------------------------
(* Registering the next request, and unregistering a file.                 *)

LEMMA TailIndices ==
    ASSUME NEW T, NEW q \in Seq(T), q # <<>>
    PROVE  /\ Head(q) = q[1] /\ 1 \in DOMAIN q /\ Head(q) \in T
           /\ Tail(q) \in Seq(T) /\ Len(Tail(q)) = Len(q) - 1
           /\ \A i \in DOMAIN Tail(q) :
                /\ i + 1 \in DOMAIN q /\ 1 < i + 1
                /\ Tail(q)[i] = q[i + 1]
           /\ \A i \in DOMAIN q : i # 1 =>
                i - 1 \in DOMAIN Tail(q) /\ Tail(q)[i - 1] = q[i]
OBVIOUS

Registering(docs, req) ==
    IF IsKnown(docs[req.uri], req) THEN docs
    ELSE [docs EXCEPT ![req.uri] = Registration(req, req.entries)]
Uncrossing(docs, crossing, req) ==
    IF IsKnown(docs[req.uri], req) THEN crossing ELSE crossing \ {req.uri}

LEMMA RegisterNext ==
    ASSUME NEW docs \in Registrations, NEW crossing, NEW syncs,
           NEW q \in Seq(Request), q # <<>>,
           RegistrationsAgree(docs), InOrder(docs, q),
           RegistersOpen(docs, crossing, q), ForgetsClosed(docs, q, syncs),
           documents \in [Files -> Document \cup {None}], LastVersions,
           lastVersion \in [Files -> Nat]
    PROVE  LET req == Head(q)
               docs2 == Registering(docs, req)
           IN /\ docs2 \in Registrations
              /\ InOrder(docs2, Tail(q))
              /\ RegistersOpen(docs2, Uncrossing(docs, crossing, req), Tail(q))
              /\ ForgetsClosed(docs2, Tail(q), syncs)
<1> DEFINE req == Head(q)
           rest == Tail(q)
           docs2 == Registering(docs, req)
           crossing2 == Uncrossing(docs, crossing, req)
           known == IsKnown(docs[req.uri], req)
<1>1. /\ req = q[1] /\ 1 \in DOMAIN q /\ req \in Request
      /\ rest \in Seq(Request)
      /\ \A i \in DOMAIN rest :
           i + 1 \in DOMAIN q /\ 1 < i + 1 /\ rest[i] = q[i + 1]
      /\ \A i \in DOMAIN q : i # 1 => i - 1 \in DOMAIN rest /\ rest[i - 1] = q[i]
  BY TailIndices
<1> HIDE DEF req, rest
<1>2. req.uri \in Files /\ Registration(req, req.entries) \in Registered
      /\ req.version \in Nat
  BY <1>1 DEF Request, Registered, Registration
<1>3. docs2 \in Registrations
  BY <1>2 DEF Registering, Registrations
<1>4. \A f \in Files : docs2[f] = IF f = req.uri /\ ~known
                                  THEN Registration(req, req.entries)
                                  ELSE docs[f]
  BY <1>2 DEF Registering, Registrations
<1>5. \A f : f # req.uri => (f \in crossing2 <=> f \in crossing)
  BY DEF Uncrossing
<1> HIDE DEF docs2, crossing2
<1>6. \A i, k \in DOMAIN rest : i < k => i + 1 < k + 1
  BY <1>1
<1>7. InOrder(docs2, rest)
  <2> SUFFICES ASSUME NEW i \in DOMAIN rest
               PROVE  /\ \A k \in DOMAIN rest :
                           i < k /\ rest[i].uri = rest[k].uri =>
                             NotNewer(rest[i], rest[k])
                      /\ docs2[rest[i].uri] # None =>
                           NotNewer(docs2[rest[i].uri], rest[i])
    BY DEF InOrder
  <2>1. \A k \in DOMAIN rest : i < k /\ rest[i].uri = rest[k].uri =>
          NotNewer(rest[i], rest[k])
    BY <1>1, <1>6 DEF InOrder
  <2>2. rest[i].uri \in Files /\ rest[i] = q[i + 1] /\ i + 1 \in DOMAIN q
    <3>1. rest[i] \in Request
      BY <1>1
    <3> QED
      BY <1>1, <3>1 DEF Request
  <2>3. CASE rest[i].uri = req.uri /\ ~known
    <3>1. NotNewer(req, rest[i])
      BY <1>1, <2>2, <2>3 DEF InOrder
    <3> QED
      BY <1>4, <2>1, <2>2, <2>3, <3>1 DEF NotNewer, Registration
  <2>4. CASE ~(rest[i].uri = req.uri /\ ~known)
    <3>1. docs2[rest[i].uri] = docs[rest[i].uri]
      BY <1>4, <2>2, <2>4
    <3> QED
      BY <2>1, <2>2, <3>1 DEF InOrder
  <2> QED
    BY <2>3, <2>4
<1>8. \A f \in Files : Requested(rest, f) => Requested(q, f)
  BY <1>1 DEF Requested
<1>9. RegistersOpen(docs2, crossing2, rest)
  <2> SUFFICES ASSUME NEW f \in Files, documents[f] # None
               PROVE  IF Requested(rest, f)
                      THEN LastFor(rest, f, RequestFor(f, documents[f], entry_points))
                      ELSE \/ docs2[f] = None /\ f \in crossing2
                           \/ docs2[f] = Registration(documents[f], entry_points)
    BY DEF RegistersOpen
  <2> DEFINE now == RequestFor(f, documents[f], entry_points)
  <2>1. /\ documents[f] \in Document /\ documents[f].version = lastVersion[f]
        /\ lastVersion[f] \in Nat
    BY DEF LastVersions
  <2>2. /\ now.uri = f /\ now.version = documents[f].version
        /\ now.text = documents[f].text /\ now.entries = entry_points
    BY DEF RequestFor
  <2> HIDE DEF now
  <2>3. CASE Requested(rest, f)
    <3>1. PICK i \in DOMAIN q : /\ q[i] = now
                                /\ \A k \in DOMAIN q : i < k => q[k].uri # f
      BY <1>8, <2>3 DEF RegistersOpen, LastFor, now
    <3>2. PICK j \in DOMAIN rest : rest[j].uri = f
      BY <2>3 DEF Requested
    <3>3. i # 1
      BY <1>1, <3>1, <3>2
    <3>4. i - 1 \in DOMAIN rest /\ rest[i - 1] = now
      BY <1>1, <3>1, <3>3
    <3>5. \A k \in DOMAIN rest : i - 1 < k => i < k + 1
      BY <1>1, <3>1
    <3>6. \A k \in DOMAIN rest : i - 1 < k => rest[k].uri # f
      BY <1>1, <3>1, <3>5
    <3> QED
      BY <2>3, <3>4, <3>6 DEF LastFor, now
  <2>4. CASE ~Requested(rest, f) /\ Requested(q, f)
    <3>1. PICK i \in DOMAIN q : q[i] = now
      BY <2>4 DEF RegistersOpen, LastFor, now
    <3>2. i = 1
      BY <1>1, <2>2, <2>4, <3>1 DEF Requested
    <3>3. req = now /\ req.uri = f
      BY <1>1, <2>2, <3>1, <3>2
    <3>4. docs[f] # None => docs[f].version <= lastVersion[f]
      BY DEF RegistrationsAgree, Agrees
    <3>5. docs[f] # None => docs[f].version \in Nat
      BY DEF Registrations, Registered
    <3>6. docs2[f] = Registration(documents[f], entry_points)
      <4>1. CASE known
        BY <1>4, <2>1, <2>2, <3>3, <3>4, <3>5, <4>1 DEF IsKnown, Registration
      <4>2. CASE ~known
        BY <1>4, <2>2, <3>3, <4>2 DEF Registration
      <4> QED
        BY <4>1, <4>2
    <3> QED
      BY <2>4, <3>6
  <2>5. CASE ~Requested(rest, f) /\ ~Requested(q, f)
    <3>1. f # req.uri
      BY <1>1, <2>5 DEF Requested
    <3> QED
      BY <1>4, <1>5, <2>5, <3>1 DEF RegistersOpen
  <2> QED
    BY <1>8, <2>3, <2>4, <2>5
<1>10. ForgetsClosed(docs2, rest, syncs)
  <2> SUFFICES ASSUME NEW f \in Files, documents[f] = None, f \notin syncs
               PROVE  ~Requested(rest, f) /\ docs2[f] = None
    BY DEF ForgetsClosed
  <2>1. ~Requested(q, f) /\ docs[f] = None
    BY DEF ForgetsClosed
  <2>2. f # req.uri
    BY <1>1, <2>1 DEF Requested
  <2> QED
    BY <1>4, <1>8, <2>1, <2>2
<1> QED
  BY <1>3, <1>7, <1>9, <1>10 DEF req, rest, docs2, crossing2

LEMMA UnregisterFile ==
    ASSUME NEW docs \in Registrations, NEW crossing, NEW syncs,
           NEW f \in Files, RegistersOpen(docs, crossing, <<>>),
           ForgetsClosed(docs, <<>>, syncs \cup {f})
    PROVE  LET docs2 == [docs EXCEPT ![f] = None]
               crossing2 == IF docs[f] # None /\ documents[f] # None
                            THEN crossing \cup {f} ELSE crossing
           IN /\ docs2 \in Registrations
              /\ InOrder(docs2, <<>>)
              /\ RegistersOpen(docs2, crossing2, <<>>)
              /\ ForgetsClosed(docs2, <<>>, syncs)
<1> DEFINE docs2 == [docs EXCEPT ![f] = None]
           crossing2 == IF docs[f] # None /\ documents[f] # None
                        THEN crossing \cup {f} ELSE crossing
<1>1. docs2 \in Registrations /\ \A g \in Files : docs2[g] = IF g = f THEN None ELSE docs[g]
  BY DEF Registrations
<1>2. \A g : ~Requested(<<>>, g)
  BY DEF Requested
<1>3. RegistersOpen(docs2, crossing2, <<>>)
  <2> SUFFICES ASSUME NEW g \in Files, documents[g] # None
               PROVE  \/ docs2[g] = None /\ g \in crossing2
                      \/ docs2[g] = Registration(documents[g], entry_points)
    BY <1>2 DEF RegistersOpen
  <2>1. \/ docs[g] = None /\ g \in crossing
        \/ docs[g] = Registration(documents[g], entry_points)
    BY <1>2 DEF RegistersOpen
  <2>2. CASE g # f
    BY <1>1, <2>1, <2>2
  <2>3. CASE g = f /\ docs[g] = None
    BY <1>1, <1>2, <2>1, <2>3
  <2>4. CASE g = f /\ docs[g] # None
    BY <1>1, <2>4
  <2> QED
    BY <2>2, <2>3, <2>4
<1>4. ForgetsClosed(docs2, <<>>, syncs)
  BY <1>1, <1>2 DEF ForgetsClosed
<1>5. InOrder(docs2, <<>>)
  BY DEF InOrder
<1> QED
  BY <1>1, <1>3, <1>4, <1>5

-----------------------------------------------------------------------------
(* What the helpers leave alone.                                           *)

SameLoads(v, w) ==
    /\ v.scripts = w.scripts /\ v.load = w.load /\ v.parked = w.parked
    /\ v.files = w.files /\ v.missed = w.missed /\ v.crossed = w.crossed

LEMMA CancelLeaves ==
    ASSUME NEW w, WorkerOK(w)
    PROVE  /\ SameLoads(Cancel(w), w)
           /\ Cancel(w).pending = w.pending
           /\ Cancel(w).tracked = w.tracked
           /\ Cancel(w).inflight = w.inflight
           /\ Cancel(w).stage = w.stage
<1> DEFINE running == Running(w.jobs)
           done == {[j EXCEPT !.phase = "done"] : j \in running}
           reports == SetToSeq({ReportOf(j, None) : j \in running})
           out == IF w.stage = "linting" THEN w.out \o reports ELSE w.out
           gone == w.orphaned \cup {j.uri : j \in running}
           js == (w.jobs \ running) \cup done
<1>1. w \in WorkerRecord
  BY DEF WorkerOK
<1>2. Cancel(w) = [w EXCEPT !.jobs = js, !.orphaned = gone, !.out = out]
  BY DEF Cancel
<1> HIDE DEF js, gone, out
<1> QED
  BY <1>1, <1>2 DEF WorkerRecord, SameLoads

LEMMA SameLoadsItself == ASSUME NEW w PROVE SameLoads(w, w)
BY DEF SameLoads

LEMMA UpsertLeaves ==
    ASSUME NEW w, WorkerOK(w), NEW f \in Files, NEW t \in Texts
    PROVE  /\ SameLoads(Upsert(w, f, t), w)
           /\ Upsert(w, f, t).pending = w.pending
           /\ Upsert(w, f, t).inflight = w.inflight
           /\ Upsert(w, f, t).tracked = [w.tracked EXCEPT ![f] = t]
<1> DEFINE written == IF w.tracked[f] \in {t, None} THEN w ELSE Cancel(w)
<1>1. /\ WorkerOK(written) /\ SameLoads(written, w)
      /\ written.pending = w.pending /\ written.tracked = w.tracked
      /\ written.inflight = w.inflight
  BY CancelOK, CancelLeaves, SameLoadsItself
<1>2. Upsert(w, f, t) = [written EXCEPT !.tracked[f] = t]
  BY DEF Upsert
<1> HIDE DEF written
<1>3. written \in WorkerRecord
  BY <1>1 DEF WorkerOK
<1> DEFINE v == [written EXCEPT !.tracked[f] = t]
<1>4. /\ v.scripts = written.scripts /\ v.load = written.load
      /\ v.parked = written.parked /\ v.files = written.files
      /\ v.missed = written.missed /\ v.crossed = written.crossed
      /\ v.pending = written.pending /\ v.inflight = written.inflight
      /\ v.tracked = [written.tracked EXCEPT ![f] = t]
  BY <1>3 DEF WorkerRecord
<1> HIDE DEF v
<1> QED
  BY <1>1, <1>2, <1>4 DEF SameLoads, v

(* Writing the script files touches nothing else that is known of loads.   *)
WritesFiles(v, w) ==
    /\ v.scripts = w.scripts /\ v.load = w.load /\ v.parked = w.parked
    /\ v.missed = w.missed /\ v.crossed = w.crossed
    /\ v.pending = w.pending /\ v.tracked = w.tracked
    /\ v.inflight = w.inflight

LEMMA SetScriptFilesLeaves ==
    ASSUME NEW w, WorkerOK(w), NEW files \in ScriptFiles
    PROVE  WritesFiles(SetScriptFiles(w, files), w)
<1> DEFINE base == IF w.files \in {files, None} THEN w ELSE Cancel(w)
           v == [base EXCEPT !.files = files]
<1>1. /\ WorkerOK(base) /\ SameLoads(base, w) /\ base.pending = w.pending
      /\ base.tracked = w.tracked /\ base.inflight = w.inflight
  BY CancelOK, CancelLeaves, SameLoadsItself
<1>2. SetScriptFiles(w, files) = v
  BY DEF SetScriptFiles
<1> HIDE DEF base
<1>3. base \in WorkerRecord
  BY <1>1 DEF WorkerOK
<1>4. /\ v.scripts = base.scripts /\ v.load = base.load
      /\ v.parked = base.parked /\ v.missed = base.missed
      /\ v.crossed = base.crossed /\ v.pending = base.pending
      /\ v.tracked = base.tracked /\ v.inflight = base.inflight
  BY <1>3 DEF WorkerRecord
<1> HIDE DEF v
<1> QED
  BY <1>1, <1>2, <1>4 DEF SameLoads, WritesFiles

LEMMA SetPendingLeaves ==
    ASSUME NEW w, WorkerOK(w)
    PROVE  /\ WritesFiles(SetPending(w), w)
           /\ SetPending(w).files # None /\ SetPending(w).files.pending
<1> DEFINE files == IF w.files = None
                    THEN [readable |-> {}, failed |-> {}, entries |-> {},
                          pending |-> TRUE]
                    ELSE [w.files EXCEPT !.pending = TRUE]
<1>1. w.files \in ScriptFiles \cup {None}
  BY DEF WorkerOK, WorkerRecord
<1>2. files \in ScriptFiles /\ files.pending
  BY <1>1 DEF ScriptFiles
<1>3. SetPending(w) = SetScriptFiles(w, files)
  BY DEF SetPending
<1> HIDE DEF files
<1>4. files # None
  BY <1>2, NoneAssumption
<1> QED
  BY <1>2, <1>3, <1>4, SetScriptFilesOK, SetScriptFilesLeaves

LEMMA AskLoadLeaves ==
    ASSUME NEW w, WorkerOK(w)
    PROVE  /\ AskLoad(w).crossed = w.crossed /\ AskLoad(w).missed = {}
           /\ AskLoad(w).pending = w.pending /\ AskLoad(w).tracked = w.tracked
           /\ AskLoad(w).inflight = w.inflight /\ AskLoad(w).jobs = w.jobs
           /\ AskLoad(w).orphaned = w.orphaned
           /\ AskLoad(w).scripts.documents = w.scripts.documents
<1> DEFINE s == [w.scripts EXCEPT !.generation = @ + 1, !.loading = TRUE]
           l == Append(w.load, Job0(w))
           v == [w EXCEPT !.scripts = s, !.missed = {}, !.load = l]
<1>1. w \in WorkerRecord
  BY DEF WorkerOK
<1>2. AskLoad(w) = v
  BY DEF AskLoad, Job0
<1>3. s.documents = w.scripts.documents
  BY <1>1 DEF WorkerRecord, Scripts
<1> HIDE DEF s, l
<1>4. v.scripts = s
  BY <1>1 DEF WorkerRecord
<1> QED
  BY <1>1, <1>2, <1>3, <1>4 DEF WorkerRecord

LEMMA ReregisteredLeaves ==
    ASSUME NEW w, WorkerOK(w), NEW docs, NEW crossing
    PROVE  LET v == Reregistered(w, docs, crossing)
           IN /\ v.crossed = crossing /\ v.missed = w.missed
              /\ v.pending = w.pending /\ v.tracked = w.tracked
              /\ v.inflight = w.inflight /\ v.jobs = w.jobs
              /\ v.orphaned = w.orphaned
              /\ v.load = w.load /\ v.parked = w.parked /\ v.files = w.files
              /\ v.scripts.documents = docs
              /\ v.scripts.generation = w.scripts.generation
<1> DEFINE s == [w.scripts EXCEPT !.documents = docs, !.entries = EntriesOf(docs)]
           v == [w EXCEPT !.scripts = s, !.crossed = crossing]
<1>1. w \in WorkerRecord /\ w.scripts \in Scripts
  BY DEF WorkerOK, WorkerRecord
<1>2. s.documents = docs /\ s.generation = w.scripts.generation
  BY <1>1 DEF Scripts
<1>3. Reregistered(w, docs, crossing) = v
  BY DEF Reregistered
<1> HIDE DEF s
<1>4. /\ v.crossed = crossing /\ v.missed = w.missed
      /\ v.pending = w.pending /\ v.tracked = w.tracked
      /\ v.inflight = w.inflight /\ v.jobs = w.jobs
      /\ v.orphaned = w.orphaned
      /\ v.load = w.load /\ v.parked = w.parked /\ v.files = w.files
      /\ v.scripts = s
  BY <1>1 DEF WorkerRecord
<1> QED
  BY <1>2, <1>3, <1>4

-----------------------------------------------------------------------------
(* A load that is asked for is current, whatever is in transit.            *)

LEMMA AskLoadCurrent ==
    ASSUME NEW w, NEW rd, NEW q, NEW syncs, WorkerOK(w), InTransit(rd),
           Bounded(w, rd), Registers(w, q, syncs)
    PROVE  Current(AskLoad(w), rd, q, syncs)
<1> DEFINE v == AskLoad(w)
           g == w.scripts.generation
<1>1. /\ WorkerOK(v)
      /\ v.scripts = [w.scripts EXCEPT !.generation = @ + 1, !.loading = TRUE]
      /\ v.load = Append(w.load, Job0(w)) /\ Job0(w) \in Load
      /\ v.parked = w.parked /\ v.crossed = w.crossed
  BY AskLoadOK, AskLoadLeaves
<1>2. /\ w.scripts \in Scripts /\ w.load \in Seq(Load)
      /\ w.parked \in Loaded \cup {None}
  BY DEF WorkerOK, WorkerRecord
<1> HIDE DEF v
<1>3. /\ v.scripts.generation = g + 1 /\ v.scripts.loading = TRUE
      /\ v.scripts.documents = w.scripts.documents
      /\ v.scripts.entries = w.scripts.entries
      /\ g \in Nat
  BY <1>1, <1>2 DEF Scripts
<1>4. /\ Len(v.load) = Len(w.load) + 1 /\ v.load[Len(v.load)] = Job0(w)
      /\ \A i \in DOMAIN v.load :
           i = Len(v.load) \/ (i \in DOMAIN w.load /\ v.load[i] = w.load[i])
  BY <1>1, <1>2
<1>5. /\ \A i \in DOMAIN w.load : w.load[i].generation \in Nat
      /\ loader # None => loader.job.generation \in Nat
      /\ \A i \in DOMAIN rd : rd[i].job.generation \in Nat
      /\ w.parked # None => w.parked.job.generation \in Nat
  <2>1. \A job \in Load : job.generation \in Nat
    BY DEF Load
  <2>2. \A i \in DOMAIN w.load : w.load[i] \in Load
    BY <1>2
  <2>3. \A i \in DOMAIN rd : rd[i] \in Loaded
    BY DEF InTransit
  <2>4. \A l \in Loaded \cup Reading : l.job \in Load
    BY DEF Loaded, Reading
  <2> QED
    BY <1>2, <2>1, <2>2, <2>3, <2>4 DEF InTransit
<1>6. /\ \A i \in DOMAIN w.load : ~IsNewest(v, w.load[i])
      /\ loader # None => ~IsNewest(v, loader.job)
      /\ \A i \in DOMAIN rd : ~IsNewest(v, rd[i].job)
      /\ v.parked # None => ~IsNewest(v, v.parked.job)
  BY <1>1, <1>3, <1>5 DEF Bounded, IsNewest
<1>7. NewestOnce(v, rd)
  <2>1. IsAwaited(v, Job0(w))
    BY <1>3 DEF IsAwaited, Job0
  <2> QED
    BY <1>4, <1>6, <2>1 DEF NewestOnce
<1>8. LoadsFresh(v, rd, syncs)
  BY <1>6 DEF LoadsFresh, ReadsFresh
<1>9. InstallsFresh(v, syncs)
  BY <1>3 DEF InstallsFresh
<1>10. Registers(v, q, syncs)
  BY <1>1, <1>3 DEF Registers
<1> QED
  BY <1>7, <1>8, <1>9, <1>10 DEF Current, v

(* While none is awaited and nothing is a source, nothing can be stale.    *)
LEMMA NothingLoaded ==
    ASSUME NEW w, NEW v, NEW rd, NEW q, NEW syncs, Good(w, rd),
           NewestOnce(w, rd), InstallsFresh(w, syncs),
           ~w.scripts.loading, w.scripts.sources = {}, w.scripts.entries = {},
           v.scripts.generation = w.scripts.generation,
           v.scripts.loading = w.scripts.loading,
           v.scripts.sources = w.scripts.sources,
           v.scripts.entries = w.scripts.entries,
           v.load = w.load, v.parked = w.parked, v.files = w.files,
           Registers(v, q, syncs)
    PROVE  Current(v, rd, q, syncs)
<1>1. /\ \A i \in DOMAIN v.load : ~IsNewest(v, v.load[i])
      /\ loader # None => ~IsNewest(v, loader.job)
      /\ \A i \in DOMAIN rd : ~IsNewest(v, rd[i].job)
      /\ v.parked # None => ~IsNewest(v, v.parked.job)
  BY DEF NewestOnce, IsNewest, IsAwaited
<1>2. NewestOnce(v, rd) /\ LoadsFresh(v, rd, syncs)
  BY <1>1 DEF NewestOnce, LoadsFresh, ReadsFresh
<1>3. InstallsFresh(v, syncs)
  BY DEF InstallsFresh
<1> QED
  BY <1>2, <1>3 DEF Current

LEMMA PendingReloadCurrent ==
    ASSUME NEW v, NEW rd, NEW q, NEW syncs, WorkerOK(v), InTransit(rd),
           Bounded(v, rd), Registers(v, q, syncs),
           \/ v.scripts.entries # {} \/ v.scripts.sources # {}
           \/ v.scripts.loading
    PROVE  LET u == Reload(SetPending(v))
           IN /\ Current(u, rd, q, syncs) /\ u.pending = v.pending
              /\ u.scripts.documents = v.scripts.documents
<1> DEFINE u == SetPending(v)
<1>1. WorkerOK(u) /\ WritesFiles(u, v)
  BY SetPendingOK, SetPendingLeaves
<1> HIDE DEF u
<1>2. Bounded(u, rd) /\ Registers(u, q, syncs)
  BY <1>1 DEF WritesFiles, Bounded, Registers
<1>3. Reload(u) = AskLoad(u)
  BY <1>1, ReloadAsks DEF WritesFiles
<1>4. AskLoad(u).scripts.documents = u.scripts.documents
  BY <1>1, AskLoadLeaves
<1>5. AskLoad(u).pending = u.pending
  BY <1>1, AskLoadLeaves
<1> QED
  BY <1>1, <1>2, <1>3, <1>4, <1>5, AskLoadCurrent DEF WritesFiles, u

LEMMA UpdateCurrent ==
    ASSUME NEW w, NEW rd, NEW q \in Seq(Request), NEW syncs,
           Good(w, rd), Current(w, rd, q, syncs), q # <<>>,
           Agrees(Head(q).uri, Head(q).version, Head(q).text),
           documents \in [Files -> Document \cup {None}], LastVersions,
           lastVersion \in [Files -> Nat]
    PROVE  LET v == Update(w, Head(q))
           IN /\ Current(v, rd, Tail(q), syncs) /\ v.pending = w.pending
              /\ v.scripts.documents = Registering(w.scripts.documents, Head(q))
<1> DEFINE req == Head(q)
           rest == Tail(q)
           docs == w.scripts.documents
           docs2 == Registering(docs, req)
           crossing2 == Uncrossing(docs, w.crossed, req)
           v == Reregistered(w, docs2, crossing2)
           Goal(u) == /\ Current(u, rd, rest, syncs) /\ u.pending = w.pending
                      /\ u.scripts.documents = docs2
<1>1. /\ WorkerOK(w) /\ InTransit(rd) /\ LoadsOK(w, rd)
      /\ RegistrationsAgree(docs) /\ docs \in Registrations
      /\ w.crossed \in SUBSET Files /\ crossing2 \in SUBSET Files
      /\ w.scripts \in Scripts
  BY DEF Good, WorkerOK, WorkerRecord, Scripts, SpansOK, Uncrossing
<1>2. req \in Request /\ req.uri \in Files
  <2>1. req \in Request
    BY TailIndices
  <2> QED
    BY <2>1 DEF Request
<1>3. /\ docs2 \in Registrations /\ InOrder(docs2, rest)
      /\ RegistersOpen(docs2, crossing2, rest)
      /\ ForgetsClosed(docs2, rest, syncs)
  BY <1>1, RegisterNext DEF Current, Registers
<1> HIDE DEF crossing2
<1>4. CASE IsKnown(docs[req.uri], req)
  <2>1. docs2 = docs /\ crossing2 = w.crossed /\ Update(w, req) = w
    BY <1>4 DEF Registering, Uncrossing, crossing2, Update
  <2>2. Registers(w, rest, syncs)
    BY <1>3, <2>1 DEF Current, Registers
  <2>3. Goal(w)
    BY <2>1, <2>2 DEF Current
  <2> QED
    BY <2>1, <2>3
<1>5. CASE ~IsKnown(docs[req.uri], req)
  <2>1. /\ docs2 = [docs EXCEPT ![req.uri] =
                       [version |-> req.version, text |-> req.text,
                        entries |-> req.entries]]
        /\ crossing2 = w.crossed \ {req.uri}
    BY <1>5 DEF Registering, Uncrossing, Registration, crossing2
  <2>2. Update(w, req) = IF EntriesOf(docs2) = w.scripts.entries
                         THEN Reload(v) ELSE Reload(SetPending(v))
    BY <1>5, <2>1 DEF Update, Reregistered
  <2> HIDE DEF rest
  <2>3. RegistrationsAgree(docs2)
    <3> DEFINE new == [version |-> req.version, text |-> req.text,
                       entries |-> req.entries]
    <3>1. \A f \in Files : docs2[f] = IF f = req.uri THEN new ELSE docs[f]
      BY <1>1, <1>2, <2>1 DEF Registrations
    <3>2. Agrees(req.uri, new.version, new.text)
      OBVIOUS
    <3> HIDE DEF new, docs2, req
    <3> QED
      BY <1>1, <3>1, <3>2 DEF RegistrationsAgree
  <2> HIDE DEF docs2, req
  <2>4. /\ WorkerOK(v) /\ Bounded(v, rd)
        /\ v.scripts.sources = w.scripts.sources
        /\ v.scripts.loading = w.scripts.loading
        /\ v.scripts.entries = EntriesOf(docs2)
    BY <1>1, <1>3, <2>3, ReregisteredGood
  <2>5. /\ v.load = w.load /\ v.parked = w.parked /\ v.files = w.files
        /\ v.crossed = crossing2 /\ v.pending = w.pending
    BY <1>1, ReregisteredLeaves
  <2>6. v.scripts.documents = docs2 /\ v.scripts.generation = w.scripts.generation
    BY <1>1, ReregisteredLeaves
  <2> HIDE DEF v
  <2>7. Registers(v, rest, syncs)
    BY <1>3, <2>4, <2>5, <2>6 DEF Registers
  <2>8. CASE EntriesOf(docs2) # w.scripts.entries
    <3>1. \/ v.scripts.entries # {} \/ v.scripts.sources # {}
          \/ v.scripts.loading
      BY <1>1, <2>4, <2>8 DEF LoadsOK
    <3>2. Goal(Reload(SetPending(v)))
      BY <1>1, <2>4, <2>5, <2>6, <2>7, <3>1, PendingReloadCurrent
    <3> QED
      BY <2>2, <2>8, <3>2 DEF docs2, req, rest
  <2>9. CASE EntriesOf(docs2) = w.scripts.entries
    <3>1. CASE v.scripts.entries = {} /\ v.scripts.sources = {} /\ ~v.scripts.loading
      <4>1. Reload(v) = v
        BY <3>1 DEF Reload
      <4>2. Current(v, rd, rest, syncs)
        BY <2>4, <2>5, <2>6, <2>7, <2>9, <3>1, NothingLoaded DEF Current
      <4>3. Goal(v)
        BY <2>5, <2>6, <4>2
      <4> QED
        BY <2>2, <2>9, <4>1, <4>3 DEF docs2, req, rest
    <3>2. CASE ~(v.scripts.entries = {} /\ v.scripts.sources = {} /\ ~v.scripts.loading)
      <4>1. Reload(v) = AskLoad(v)
        BY <3>2 DEF Reload
      <4>2. Current(AskLoad(v), rd, rest, syncs)
        BY <1>1, <2>4, <2>7, AskLoadCurrent
      <4>3. AskLoad(v).scripts.documents = docs2 /\ AskLoad(v).pending = w.pending
        BY <2>4, <2>5, <2>6, AskLoadLeaves
      <4> QED
        BY <2>2, <2>9, <4>1, <4>2, <4>3 DEF docs2, req, rest
    <3> QED
      BY <3>1, <3>2
  <2> QED
    BY <2>8, <2>9
<1> QED
  BY <1>4, <1>5

(* The request received is queued as it is registered.                     *)
LEMMA EnqueueCurrent ==
    ASSUME NEW w, NEW rd, NEW q \in Seq(Request), NEW syncs,
           Good(w, rd), Current(w, rd, q, syncs), QueuesRegistered(w), q # <<>>,
           Agrees(Head(q).uri, Head(q).version, Head(q).text),
           documents \in [Files -> Document \cup {None}], LastVersions,
           lastVersion \in [Files -> Nat]
    PROVE  /\ Current(Enqueue(w, Head(q)), rd, Tail(q), syncs)
           /\ QueuesRegistered(Enqueue(w, Head(q)))
<1> DEFINE req == Head(q)
           v == Update(w, req)
           pnd == [v.pending EXCEPT ![req.uri] = Newest(@, req)]
           u == [v EXCEPT !.pending = pnd]
           docs == w.scripts.documents
<1>1. /\ Current(v, rd, Tail(q), syncs) /\ v.pending = w.pending
      /\ v.scripts.documents = Registering(docs, req)
  BY UpdateCurrent
<1>2. req \in Request /\ req.uri \in Files /\ req.version \in Nat
      /\ req = q[1] /\ 1 \in DOMAIN q
  <2>1. req \in Request /\ req = q[1] /\ 1 \in DOMAIN q
    BY TailIndices
  <2> QED
    BY <2>1 DEF Request
<1>3. Good(v, rd)
  BY <1>2, UpdateGood
<1>4. Enqueue(w, req) = [v EXCEPT !.pending[req.uri] = Newest(@, req)]
  BY DEF Enqueue
<1> HIDE DEF v, req
<1>5. /\ v \in WorkerRecord
      /\ v.pending \in [Files -> Request \cup {None}]
      /\ docs \in Registrations
  BY <1>3 DEF Good, WorkerOK, WorkerRecord, Scripts
<1>6. Enqueue(w, req) = u
  BY <1>4, <1>5 DEF WorkerRecord
<1> HIDE DEF pnd
<1>7. SameLoads(u, v) /\ u.pending = pnd /\ u.tracked = v.tracked
  BY <1>5 DEF WorkerRecord, SameLoads
<1> HIDE DEF u
<1>8. Current(u, rd, Tail(q), syncs)
  BY <1>1, <1>7 DEF SameLoads, Current, Registers, NewestOnce, LoadsFresh,
     ReadsFresh, InstallsFresh, Fresh, IsNewest, IsAwaited
<1>9. QueuesRegistered(u)
  <2> SUFFICES ASSUME NEW f \in Files, u.pending[f] # None
               PROVE  u.scripts.documents[f] =
                        Registration(u.pending[f], u.pending[f].entries)
    BY DEF QueuesRegistered
  <2>1. u.scripts.documents = Registering(docs, req)
    BY <1>1, <1>7 DEF SameLoads
  <2>2. CASE f # req.uri
    <3>1. u.pending[f] = w.pending[f]
      BY <1>1, <1>2, <1>5, <1>7, <2>2 DEF pnd
    <3>2. u.scripts.documents[f] = docs[f]
      BY <1>2, <1>5, <2>1, <2>2 DEF Registering, Registrations
    <3> QED
      BY <3>1, <3>2 DEF QueuesRegistered
  <2>3. CASE f = req.uri
    <3> DEFINE old == w.pending[f]
    <3>1. u.pending[f] = Newest(old, req)
      BY <1>1, <1>2, <1>5, <1>7, <2>3 DEF pnd
    <3>2. docs[f] # None => NotNewer(docs[f], req)
      BY <1>2, <2>3 DEF Current, Registers, InOrder
    <3>3. old # None => docs[f] = Registration(old, old.entries)
      BY DEF QueuesRegistered
    <3>4. Registering(docs, req)[f] =
            IF IsKnown(docs[f], req) THEN docs[f]
            ELSE Registration(req, req.entries)
      BY <1>2, <1>5, <2>3 DEF Registering, Registrations
    <3>5. docs[f] # None => docs[f].version \in Nat
      BY <1>5 DEF Registrations, Registered
    <3>6. Registering(docs, req)[f] = Registration(req, req.entries)
      BY <1>2, <3>2, <3>4, <3>5 DEF NotNewer, IsKnown, Registration
    <3>7. CASE old = None \/ old.version < req.version
      BY <2>1, <2>3, <3>1, <3>6, <3>7 DEF Newest
    <3>8. CASE ~(old = None \/ old.version < req.version)
      <4>1. old \in Request /\ docs[f] = Registration(old, old.entries)
        BY <1>1, <1>5, <3>3, <3>8
      <4>2. docs[f].version = old.version /\ docs[f].text = old.text
            /\ old.version \in Nat
        BY <4>1 DEF Registration, Request
      <4>3. docs[f] # None
        BY <1>5, <4>1, NoneAssumption DEF Registration, Request, Registered
      <4>4. old.version = req.version /\ old.text = req.text
        BY <1>2, <3>2, <3>8, <4>2, <4>3 DEF NotNewer
      <4>5. Newest(old, req) = [old EXCEPT !.entries = req.entries]
        BY <1>2, <3>8, <4>4 DEF Newest
      <4>6. Registration(Newest(old, req), Newest(old, req).entries) =
              Registration(req, req.entries)
        BY <4>1, <4>4, <4>5 DEF Registration, Request
      <4> QED
        BY <2>1, <2>3, <3>1, <3>6, <4>6
    <3> QED
      BY <3>7, <3>8
  <2> QED
    BY <2>2, <2>3
<1> QED
  BY <1>6, <1>8, <1>9 DEF req

-----------------------------------------------------------------------------
(* A sync: its file is unregistered, or noted, or nobody's business.       *)

LEMMA ClosedOrChangedCurrent ==
    ASSUME NEW w, NEW v, NEW rd, NEW syncs, NEW q, q = <<>>,
           NEW f \in Files, NEW late, late = syncs \cup {f},
           Good(v, rd), Current(w, rd, q, late), SameLoads(v, w),
           \A g \in Files : g # f => v.tracked[g] = w.tracked[g],
           WorkerOK(w)
    PROVE  LET u == ClosedOrChanged(v, f)
           IN /\ Current(u, rd, q, syncs) /\ u.pending = v.pending
              /\ \A g \in Files : g # f =>
                   u.scripts.documents[g] = w.scripts.documents[g]
<1> DEFINE docs == v.scripts.documents
           docs2 == [docs EXCEPT ![f] = None]
           closed == docs[f] # None
           crossing2 == IF closed /\ documents[f] # None
                        THEN v.crossed \cup {f} ELSE v.crossed
           r == Reregistered(v, docs2, crossing2)
           noted == IF v.scripts.loading THEN v.missed \cup {f} ELSE v.missed
           n == [v EXCEPT !.missed = noted]
           Goal(u) == /\ Current(u, rd, q, syncs) /\ u.pending = v.pending
                      /\ \A g \in Files : g # f =>
                           u.scripts.documents[g] = docs[g]
<1>1. /\ WorkerOK(v) /\ InTransit(rd) /\ LoadsOK(v, rd)
      /\ RegistrationsAgree(docs)
      /\ docs \in Registrations /\ v \in WorkerRecord /\ v.scripts \in Scripts
      /\ v.crossed \in SUBSET Files /\ crossing2 \in SUBSET Files
  BY DEF Good, WorkerOK, WorkerRecord, Scripts, SpansOK
<1>2. /\ v.scripts = w.scripts /\ v.load = w.load /\ v.parked = w.parked
      /\ v.files = w.files /\ v.missed = w.missed /\ v.crossed = w.crossed
  BY DEF SameLoads
<1>3. /\ RegistersOpen(docs, v.crossed, <<>>)
      /\ ForgetsClosed(docs, <<>>, syncs \cup {f})
      /\ v.scripts.entries = EntriesOf(docs)
      /\ NewestOnce(w, rd) /\ LoadsFresh(w, rd, syncs \cup {f})
      /\ InstallsFresh(w, syncs \cup {f})
  BY <1>2 DEF Current, Registers
<1>4. /\ docs2 \in Registrations /\ InOrder(docs2, <<>>)
      /\ RegistersOpen(docs2, crossing2, <<>>)
      /\ ForgetsClosed(docs2, <<>>, syncs)
  BY <1>1, <1>3, UnregisterFile
<1>5. ClosedOrChanged(v, f) =
        IF ~closed /\ f \notin v.scripts.sources THEN n
        ELSE IF \/ v.scripts.loading \/ v.scripts.sources # {}
                \/ EntriesOf(docs2) # {}
        THEN Reload(SetPending(r)) ELSE r
  BY DEF ClosedOrChanged, Reregistered
<1>6. RegistrationsAgree(docs2)
  BY <1>1 DEF RegistrationsAgree, Registrations
<1>7. /\ ~closed => docs2 = docs /\ crossing2 = v.crossed
      /\ \A g \in Files : g # f => docs2[g] = docs[g]
  BY <1>1 DEF Registrations
<1> HIDE DEF docs2, crossing2
<1>8. /\ WorkerOK(r) /\ Bounded(r, rd)
      /\ r.scripts.sources = v.scripts.sources
      /\ r.scripts.loading = v.scripts.loading
      /\ r.scripts.entries = EntriesOf(docs2)
  BY <1>1, <1>4, <1>6, ReregisteredGood
<1>9. /\ r.load = v.load /\ r.parked = v.parked /\ r.files = v.files
      /\ r.crossed = crossing2 /\ r.pending = v.pending
      /\ r.scripts.documents = docs2
      /\ r.scripts.generation = v.scripts.generation
  BY <1>1, ReregisteredLeaves
<1> HIDE DEF r
<1>10. Registers(r, <<>>, syncs)
  BY <1>4, <1>8, <1>9 DEF Registers
<1>11. CASE ~closed /\ f \notin v.scripts.sources
  <2>1. /\ n.scripts = v.scripts /\ n.load = v.load /\ n.parked = v.parked
        /\ n.files = v.files /\ n.crossed = v.crossed /\ n.pending = v.pending
        /\ n.tracked = v.tracked /\ n.missed = noted
    BY <1>1 DEF WorkerRecord
  <2> HIDE DEF n
  <2>2. Registers(n, <<>>, syncs)
    BY <1>3, <1>4, <1>7, <1>11, <2>1 DEF Registers
  <2>3. NewestOnce(n, rd)
    BY <1>2, <1>3, <2>1 DEF NewestOnce, IsNewest, IsAwaited
  <2>4. \A g \in Files : \A x : g # f \/ v.scripts.loading =>
          (Fresh(w, syncs \cup {f}, g, x) => Fresh(n, syncs, g, x))
    BY <1>2, <2>1 DEF Fresh
  <2>5. LoadsFresh(n, rd, syncs)
    <3>1. \A l : /\ ReadsFresh(w, syncs \cup {f}, l)
                 /\ IsNewest(w, l.job) => IsAwaited(w, l.job)
                 => ReadsFresh(n, syncs, l)
      BY <1>2, <2>1, <2>4 DEF ReadsFresh, IsNewest, IsAwaited
    <3> QED
      BY <1>2, <1>3, <2>1, <3>1 DEF LoadsFresh, NewestOnce
  <2>6. InstallsFresh(n, syncs)
    <3> SUFFICES ASSUME ~n.scripts.loading, n.files # None
                 PROVE  InstallsFresh(n, syncs)
      BY DEF InstallsFresh
    <3>1. /\ n.files.entries = n.scripts.entries
          /\ n.scripts.entries \subseteq n.scripts.sources
          /\ n.scripts.sources = n.files.readable \cup n.files.failed
          /\ n.files.readable \cap n.files.failed = {}
          /\ \A g \in n.files.readable :
               /\ w.tracked[g] \in Texts
               /\ IncludesOf[w.tracked[g]] \subseteq n.scripts.sources
               /\ Fresh(w, syncs \cup {f}, g, w.tracked[g])
          /\ \A g \in n.files.failed : Fresh(w, syncs \cup {f}, g, Unreadable)
      BY <1>2, <1>3, <2>1 DEF InstallsFresh
    <3>2. \A g \in n.files.readable \cup n.files.failed : g # f /\ g \in Files
      BY <1>1, <1>11, <2>1, <3>1 DEF Scripts
    <3>3. \A g \in n.files.readable : n.tracked[g] = w.tracked[g]
      BY <2>1, <3>2
    <3> QED
      BY <2>4, <3>1, <3>2, <3>3 DEF InstallsFresh
  <2>7. Goal(n)
    BY <1>7, <1>11, <2>1, <2>2, <2>3, <2>5, <2>6 DEF Current
  <2> QED
    BY <1>2, <1>5, <1>11, <2>7
<1>12. CASE /\ ~(~closed /\ f \notin v.scripts.sources)
            /\ \/ v.scripts.loading \/ v.scripts.sources # {}
               \/ EntriesOf(docs2) # {}
  <2>1. Goal(Reload(SetPending(r)))
    <3>1. LET y == Reload(SetPending(r))
          IN /\ Current(y, rd, <<>>, syncs) /\ y.pending = r.pending
             /\ y.scripts.documents = r.scripts.documents
      BY <1>1, <1>8, <1>9, <1>10, <1>12, PendingReloadCurrent
    <3> QED
      BY <1>7, <1>9, <3>1
  <2> QED
    BY <1>2, <1>5, <1>12, <2>1
<1>13. CASE /\ ~(~closed /\ f \notin v.scripts.sources)
            /\ ~(\/ v.scripts.loading \/ v.scripts.sources # {}
                 \/ EntriesOf(docs2) # {})
  <2>1. v.scripts.entries = {}
    BY <1>1, <1>13 DEF LoadsOK
  <2>2. NewestOnce(v, rd) /\ InstallsFresh(v, syncs)
    <3>1. NewestOnce(v, rd)
      BY <1>2, <1>3 DEF NewestOnce, IsNewest, IsAwaited
    <3>2. InstallsFresh(v, syncs)
      BY <1>2, <1>3, <1>13, <2>1 DEF InstallsFresh
    <3> QED
      BY <3>1, <3>2
  <2>3. Current(r, rd, <<>>, syncs)
    BY <1>8, <1>9, <1>10, <1>13, <2>1, <2>2, NothingLoaded
  <2>4. Goal(r)
    BY <1>7, <1>9, <2>3
  <2> QED
    BY <1>2, <1>5, <1>13, <2>4
<1> QED
  BY <1>11, <1>12, <1>13

LEMMA OnSyncCurrent ==
    ASSUME NEW w, NEW rd, NEW syncs, NEW q, q = <<>>,
           NEW f \in Files, NEW late, late = syncs \cup {f}, Good(w, rd),
           Current(w, rd, q, late), QueuesRegistered(w),
           disk \in [Files -> Texts \cup {Unreadable}]
    PROVE  /\ Current(OnSync(w, f), rd, q, syncs)
           /\ QueuesRegistered(OnSync(w, f))
<1> DEFINE pnd == [w.pending EXCEPT ![f] = None]
           gone == IF w.pending[f] # None THEN w.orphaned \cup {f} ELSE w.orphaned
           u == [w EXCEPT !.pending = pnd, !.orphaned = gone]
           v == Revert(u, f)
<1>1. /\ w \in WorkerRecord /\ IsFiniteSet(w.jobs) /\ WorkerOK(w)
      /\ w.pending \in [Files -> Request \cup {None}]
      /\ w.orphaned \in SUBSET Files
      /\ w.tracked \in [Files -> Texts \cup {None}]
  BY DEF Good, WorkerOK, WorkerRecord
<1>2. DropQueued(w, f) = u
  BY <1>1 DEF DropQueued, WorkerRecord
<1>3. pnd \in [Files -> Request \cup {None}] /\ gone \in SUBSET Files
  BY <1>1
<1>4. OnSync(w, f) = ClosedOrChanged(v, f)
  BY <1>2 DEF OnSync
<1>5. \A g \in Files : pnd[g] = IF g = f THEN None ELSE w.pending[g]
  BY <1>1
<1> HIDE DEF pnd, gone
<1>6. u \in WorkerRecord
  BY <1>1, <1>3 DEF WorkerRecord
<1>7. /\ SameLoads(u, w) /\ u.tracked = w.tracked /\ u.jobs = w.jobs
      /\ u.pending = pnd
      /\ u.package = w.package /\ u.published = w.published /\ u.out = w.out
  BY <1>1 DEF WorkerRecord, SameLoads
<1> HIDE DEF u
<1>8. WorkerOK(u) /\ Keeps(u, w) /\ Good(u, rd)
  <2>1. WorkerOK(u) /\ Keeps(u, w) /\ u.files = w.files
    BY <1>1, <1>6, <1>7 DEF WorkerOK, Keeps, SameLoads
  <2> QED
    BY <2>1, KeepsGood
<1>9. /\ Good(v, rd) /\ SameLoads(v, u) /\ v.pending = pnd
      /\ \A g \in Files : g # f => v.tracked[g] = u.tracked[g]
  <2>1. CASE u.tracked[f] = None \/ disk[f] = Unreadable
    BY <1>7, <1>8, <2>1, SameLoadsItself DEF Revert
  <2>2. CASE ~(u.tracked[f] = None \/ disk[f] = Unreadable)
    <3>1. v = Upsert(u, f, disk[f]) /\ disk[f] \in Texts
      BY <2>2 DEF Revert
    <3> HIDE DEF v
    <3>2. /\ WorkerOK(v) /\ Keeps(v, u) /\ v.files = u.files
          /\ SameLoads(v, u) /\ v.pending = u.pending
      BY <1>8, <3>1, UpsertOK, UpsertLeaves
    <3>3. v.tracked = [u.tracked EXCEPT ![f] = disk[f]]
      BY <1>8, <3>1, UpsertLeaves
    <3>4. Good(v, rd)
      BY <1>8, <3>2, KeepsGood
    <3>5. \A g \in Files : g # f => v.tracked[g] = u.tracked[g]
      BY <1>1, <1>7, <3>3
    <3> QED
      BY <1>7, <3>2, <3>4, <3>5
  <2> QED
    BY <2>1, <2>2
<1> HIDE DEF v
<1>10. SameLoads(v, w) /\ \A g \in Files : g # f => v.tracked[g] = w.tracked[g]
  BY <1>7, <1>9 DEF SameLoads
<1> DEFINE x == ClosedOrChanged(v, f)
<1>11. /\ Current(x, rd, q, syncs) /\ x.pending = pnd
       /\ \A g \in Files : g # f =>
            x.scripts.documents[g] = w.scripts.documents[g]
  <2>1. ASSUME NEW y, Good(y, rd), SameLoads(y, w),
               \A g \in Files : g # f => y.tracked[g] = w.tracked[g]
        PROVE  /\ Current(ClosedOrChanged(y, f), rd, q, syncs)
               /\ ClosedOrChanged(y, f).pending = y.pending
               /\ \A g \in Files : g # f =>
                    ClosedOrChanged(y, f).scripts.documents[g]
                      = w.scripts.documents[g]
    <3>1. WorkerOK(w)
      BY <1>1
    <3> QED
      BY <2>1, <3>1, ClosedOrChangedCurrent
  <2> QED
    BY <1>9, <1>10, <2>1
<1> HIDE DEF x
<1>12. QueuesRegistered(x)
  <2> QED
    BY <1>5, <1>11 DEF QueuesRegistered
<1> QED
  BY <1>4, <1>11, <1>12 DEF x

-----------------------------------------------------------------------------
(* Publishing and installing.                                              *)

LEMMA PublishLeaves ==
    ASSUME NEW w, WorkerOK(w)
    PROVE  LET v == PublishGraphDiagnostics(w)
           IN /\ SameLoads(v, w) /\ v.pending = w.pending
              /\ v.tracked = w.tracked /\ v.inflight = w.inflight
              /\ v.jobs = w.jobs /\ v.orphaned = w.orphaned
<1> DEFINE now == {f \in Files : GraphDiagnostics(w)[f] # {}}
           out == w.out \o PublishAll(w, now) \o <<[kind |-> "refresh"]>>
           v == [w EXCEPT !.published = now, !.out = out]
<1>1. w \in WorkerRecord
  BY DEF WorkerOK
<1>2. PublishGraphDiagnostics(w) = v
  BY DEF PublishGraphDiagnostics
<1> HIDE DEF now, out
<1>3. /\ SameLoads(v, w) /\ v.pending = w.pending
      /\ v.tracked = w.tracked /\ v.inflight = w.inflight
      /\ v.jobs = w.jobs /\ v.orphaned = w.orphaned
  BY <1>1 DEF WorkerRecord, SameLoads
<1> QED
  BY <1>2, <1>3

(* What an installation makes of what was read.                            *)
TextsOf(w, loaded) ==
    [f \in Files |-> IF w.scripts.documents[f] # None
                     THEN w.scripts.documents[f].text ELSE loaded.sources[f]]
SourcesOf(loaded) == {f \in Files : loaded.sources[f] # None}
ReadableOf(w, loaded) == {f \in SourcesOf(loaded) : TextsOf(w, loaded)[f] \in Texts}

LEMMA SetScriptSourcesLeaves ==
    ASSUME NEW w, WorkerOK(w), NEW loaded \in Loaded
    PROVE  LET v == SetScriptSources(w, loaded)
           IN /\ v.missed = w.missed /\ v.crossed = w.crossed
              /\ v.pending = w.pending /\ v.inflight = w.inflight
              /\ v.files = [readable |-> ReadableOf(w, loaded),
                            failed |-> SourcesOf(loaded) \ ReadableOf(w, loaded),
                            entries |-> loaded.job.entries, pending |-> FALSE]
              /\ \A f \in Files :
                   v.tracked[f] = IF f \in ReadableOf(w, loaded)
                                  THEN TextsOf(w, loaded)[f] ELSE w.tracked[f]
<1> DEFINE sources == SourcesOf(loaded)
           text == TextsOf(w, loaded)
           readable == ReadableOf(w, loaded)
           track == [f \in Files |->
                       IF f \in readable THEN text[f] ELSE w.tracked[f]]
           written == [w EXCEPT !.tracked = track]
           changes == \E f \in readable : w.tracked[f] \notin {text[f], None}
           base == IF changes THEN Cancel(written) ELSE written
           files == [readable |-> readable, failed |-> sources \ readable,
                     entries |-> loaded.job.entries, pending |-> FALSE]
<1>1. /\ w \in WorkerRecord /\ IsFiniteSet(w.jobs)
      /\ w.tracked \in [Files -> Texts \cup {None}]
  BY DEF WorkerOK, WorkerRecord
<1>2. loaded.job.entries \in SUBSET Files
  BY DEF Loaded, Load
<1>3. readable \in SUBSET Files /\ sources \in SUBSET Files
      /\ \A f \in readable : text[f] \in Texts
  BY DEF ReadableOf, SourcesOf
<1>4. SetScriptSources(w, loaded) = SetScriptFiles(base, files)
  BY DEF SetScriptSources, SourcesOf, TextsOf, ReadableOf
<1> HIDE DEF readable, sources, text
<1>5. files \in ScriptFiles
  BY <1>2, <1>3 DEF ScriptFiles
<1>6. /\ track \in [Files -> Texts \cup {None}]
      /\ \A f \in Files : track[f] = IF f \in readable THEN text[f]
                                     ELSE w.tracked[f]
  BY <1>1, <1>3
<1> HIDE DEF track, changes, files
<1>7. written \in WorkerRecord
  BY <1>1, <1>6 DEF WorkerRecord
<1>8. /\ written.missed = w.missed /\ written.crossed = w.crossed
      /\ written.pending = w.pending /\ written.inflight = w.inflight
      /\ written.tracked = track /\ written.jobs = w.jobs
  BY <1>1 DEF WorkerRecord
<1> HIDE DEF written
<1>9. /\ WorkerOK(base) /\ SameLoads(base, written)
      /\ base.pending = written.pending /\ base.tracked = written.tracked
      /\ base.inflight = written.inflight
  BY <1>1, <1>7, <1>8, CancelOK, CancelLeaves, SameLoadsItself DEF WorkerOK
<1> HIDE DEF base
<1> DEFINE v == SetScriptFiles(base, files)
<1>10. WritesFiles(v, base) /\ v.files = files
  BY <1>5, <1>9, SetScriptFilesOK, SetScriptFilesLeaves
<1> HIDE DEF v
<1>11. /\ v.missed = w.missed /\ v.crossed = w.crossed
       /\ v.pending = w.pending /\ v.inflight = w.inflight
       /\ v.tracked = track
  BY <1>8, <1>9, <1>10 DEF WritesFiles, SameLoads
<1> QED
  BY <1>4, <1>6, <1>10, <1>11 DEF v, readable, sources, text, files

NoneNewest(w, rd) ==
    /\ \A i \in DOMAIN w.load : ~IsNewest(w, w.load[i])
    /\ loader # None => ~IsNewest(w, loader.job)
    /\ \A i \in DOMAIN rd : ~IsNewest(w, rd[i].job)
    /\ w.parked # None => ~IsNewest(w, w.parked.job)

LEMMA InstallCurrent ==
    ASSUME NEW w, NEW rd, NEW q, NEW syncs, NEW loaded \in Loaded,
           WorkerOK(w), Current(w, rd, q, syncs),
           Numbered(w, loaded.job), ReadsEntries(loaded), ReadAgrees(loaded),
           ReadsIncludes(loaded, {}), ReadsFresh(w, syncs, loaded),
           IsNewest(w, loaded.job) =>
             IsAwaited(w, loaded.job) /\ NoneNewest(w, rd)
    PROVE  /\ Current(Install(w, loaded), rd, q, syncs)
           /\ Install(w, loaded).pending = w.pending
           /\ Install(w, loaded).inflight = w.inflight
           /\ Install(w, loaded).scripts.documents = w.scripts.documents
           /\ Install(w, loaded).parked = w.parked
<1>1. CASE loaded.job.generation # w.scripts.generation
  BY <1>1 DEF Install
<1>2. CASE loaded.job.generation = w.scripts.generation
  <2> DEFINE v == SetScriptSources(w, loaded)
             sources == SourcesOf(loaded)
             text == TextsOf(w, loaded)
             readable == ReadableOf(w, loaded)
             program == Program(loaded.job.entries, loaded.sources)
             found == FailedIncludes(loaded.sources)
             versions == VersionsOf(loaded.job.documents)
             s == [w.scripts EXCEPT !.loading = FALSE, !.sources = sources,
                                    !.program = program,
                                    !.diagnostics = found,
                                    !.versions = versions]
             u == [v EXCEPT !.scripts = s]
  <2>1. WorkerOK(v) /\ Keeps(v, w)
    BY SetScriptSourcesOK
  <2>2. /\ v.missed = w.missed /\ v.crossed = w.crossed
        /\ v.pending = w.pending /\ v.inflight = w.inflight
        /\ v.files = [readable |-> readable, failed |-> sources \ readable,
                      entries |-> loaded.job.entries, pending |-> FALSE]
        /\ \A f \in Files : v.tracked[f] = IF f \in readable THEN text[f]
                                           ELSE w.tracked[f]
    BY SetScriptSourcesLeaves
  <2>3. /\ loaded.sources \in Sources /\ loaded.job \in Load
        /\ loaded.job.entries \in SUBSET Files
        /\ loaded.job.documents \in Registrations
        /\ w.scripts \in Scripts
    BY DEF Loaded, Load, WorkerOK, WorkerRecord
  <2>4. found \in [Files -> SUBSET Finding] /\ program \in Programs
        /\ versions \in [Files -> Nat \cup {None}]
    BY <2>3, FailedIncludesType, ProgramType, VersionsOfType
  <2>5. sources \in SUBSET Files
        /\ \A f \in Files : f \in sources <=> loaded.sources[f] # None
    BY DEF SourcesOf
  <2>6. Install(w, loaded) \in {u, PublishGraphDiagnostics(u)}
    <3>1. v.scripts = w.scripts
      BY <2>1 DEF Keeps
    <3>2. Install(w, loaded) = Installed(w, loaded)
      BY <1>2 DEF Install
    <3>3. Installed(w, loaded) = IF Changed(w, loaded)
                                 THEN PublishGraphDiagnostics(u) ELSE u
      BY <3>1 DEF Installed, SourcesOf
    <3> QED
      BY <3>2, <3>3
  <2>7. IsAwaited(w, loaded.job) /\ NoneNewest(w, rd)
    BY <1>2 DEF IsNewest
  <2>8. \A f \in sources : text[f] = loaded.sources[f]
    BY <2>5, <2>7 DEF TextsOf, IsAwaited, ReadAgrees
  <2>9. \A f \in Files : f \in readable <=> f \in sources /\ text[f] \in Texts
    BY <2>5 DEF ReadableOf
  <2>10. readable \subseteq sources
    BY DEF ReadableOf
  <2> HIDE DEF v, sources, program, found, versions, readable, text
  <2>11. s \in Scripts
    BY <2>3, <2>4, <2>5 DEF Scripts
  <2>12. /\ s.generation = w.scripts.generation /\ ~s.loading
         /\ s.entries = w.scripts.entries
         /\ s.documents = w.scripts.documents
         /\ s.sources = sources
    BY <2>3 DEF Scripts
  <2> HIDE DEF s
  <2>13. u \in WorkerRecord
    BY <2>1, <2>11 DEF WorkerOK, WorkerRecord
  <2>14. /\ u.scripts = s /\ u.load = v.load /\ u.parked = v.parked
         /\ u.files = v.files /\ u.jobs = v.jobs /\ u.tracked = v.tracked
         /\ u.missed = v.missed /\ u.crossed = v.crossed
         /\ u.pending = v.pending /\ u.inflight = v.inflight
    BY <2>1 DEF WorkerOK, WorkerRecord
  <2> HIDE DEF u
  <2>15. WorkerOK(u)
    BY <2>1, <2>13, <2>14 DEF WorkerOK
  <2>16. u.load = w.load /\ u.parked = w.parked
    BY <2>1, <2>14 DEF Keeps
  <2>17. Registers(u, q, syncs)
    BY <2>2, <2>12, <2>14 DEF Current, Registers
  <2>18. NewestOnce(u, rd) /\ LoadsFresh(u, rd, syncs)
    <3>1. \A job : IsNewest(u, job) <=> IsNewest(w, job)
      BY <2>12, <2>14 DEF IsNewest
    <3> QED
      BY <2>7, <2>16, <3>1 DEF NoneNewest, NewestOnce, LoadsFresh, ReadsFresh
  <2>19. InstallsFresh(u, syncs)
    <3>1. /\ u.files.readable = readable /\ u.files.failed = sources \ readable
          /\ u.files.entries = loaded.job.entries
      BY <2>2, <2>14
    <3>2. u.files.entries = u.scripts.entries
      BY <1>2, <2>12, <2>14, <3>1 DEF Numbered
    <3>3. u.scripts.entries \subseteq u.scripts.sources
      BY <2>3, <2>5, <2>12, <2>14, <3>1, <3>2 DEF ReadsEntries
    <3>4. \A f \in sources : Fresh(u, syncs, f, loaded.sources[f])
      <4>1. \A f \in sources : Fresh(w, syncs, f, loaded.sources[f])
        BY <1>2, <2>5 DEF ReadsFresh, IsNewest
      <4> QED
        BY <2>2, <2>12, <2>14, <4>1 DEF Fresh
    <3>5. \A f \in readable :
            /\ u.tracked[f] \in Texts
            /\ IncludesOf[u.tracked[f]] \subseteq u.scripts.sources
            /\ Fresh(u, syncs, f, u.tracked[f])
      <4> SUFFICES ASSUME NEW f \in readable
                   PROVE  /\ u.tracked[f] \in Texts
                          /\ IncludesOf[u.tracked[f]] \subseteq u.scripts.sources
                          /\ Fresh(u, syncs, f, u.tracked[f])
        OBVIOUS
      <4>1. /\ u.tracked[f] = loaded.sources[f] /\ f \in sources /\ f \in Files
            /\ loaded.sources[f] \in Texts
        BY <2>2, <2>5, <2>8, <2>9, <2>10, <2>14
      <4>2. IncludesOf[loaded.sources[f]] \subseteq Files
        BY <4>1, TextsAssumption
      <4>3. IncludesOf[loaded.sources[f]] \subseteq sources
        BY <2>5, <4>1, <4>2 DEF ReadsIncludes
      <4> QED
        BY <2>12, <2>14, <3>4, <4>1, <4>3
    <3>6. \A f \in sources \ readable : Fresh(u, syncs, f, Unreadable)
      <4> SUFFICES ASSUME NEW f \in sources, f \notin readable
                   PROVE  Fresh(u, syncs, f, Unreadable)
        OBVIOUS
      <4>1. loaded.sources[f] \notin Texts /\ loaded.sources[f] # None /\ f \in Files
        BY <2>5, <2>8, <2>9
      <4>2. loaded.sources[f] = Unreadable
        BY <2>3, <4>1 DEF Sources
      <4> QED
        BY <3>4, <4>2
    <3> QED
      BY <2>10, <2>12, <2>14, <3>1, <3>2, <3>3, <3>5, <3>6 DEF InstallsFresh
  <2>20. Current(u, rd, q, syncs)
    BY <2>17, <2>18, <2>19 DEF Current
  <2> DEFINE x == PublishGraphDiagnostics(u)
  <2>21. /\ SameLoads(x, u) /\ x.pending = u.pending
         /\ x.tracked = u.tracked /\ x.inflight = u.inflight
    BY <2>15, PublishLeaves
  <2> HIDE DEF x
  <2>22. Current(x, rd, q, syncs)
    BY <2>20, <2>21 DEF SameLoads, Current, Registers, NewestOnce, LoadsFresh,
       ReadsFresh, InstallsFresh, Fresh, IsNewest, IsAwaited
  <2> QED
    BY <2>2, <2>6, <2>12, <2>14, <2>16, <2>20, <2>21, <2>22 DEF SameLoads, x
<1> QED
  BY <1>1, <1>2

-----------------------------------------------------------------------------
(* Dispatching.                                                            *)

ParkedComplete(w) == w.parked # None => ReadsIncludes(w.parked, {})

LEMMA UnparkCurrent ==
    ASSUME NEW w, NEW rd, NEW q, NEW syncs, Good(w, rd),
           Current(w, rd, q, syncs), ParkedComplete(w)
    PROVE  LET v == Unpark(w)
           IN /\ Current(v, rd, q, syncs) /\ ParkedComplete(v)
              /\ v.pending = w.pending /\ v.inflight = w.inflight
              /\ v.scripts.documents = w.scripts.documents
              /\ v.parked # None => w.inflight # None
<1>1. CASE w.inflight = None /\ w.parked # None
  <2> DEFINE l == w.parked
             v == [w EXCEPT !.parked = None]
             u == Install(v, l)
  <2>1. /\ w \in WorkerRecord /\ IsFiniteSet(w.jobs) /\ l \in Loaded
    BY <1>1 DEF Good, WorkerOK, WorkerRecord
  <2>2. v \in WorkerRecord
    BY <2>1 DEF WorkerRecord
  <2>3. /\ v.scripts = w.scripts /\ v.load = w.load /\ v.parked = None
        /\ v.files = w.files /\ v.out = w.out /\ v.jobs = w.jobs
        /\ v.missed = w.missed /\ v.crossed = w.crossed
        /\ v.pending = w.pending /\ v.inflight = w.inflight
        /\ v.tracked = w.tracked
    BY <2>1 DEF WorkerRecord
  <2>4. Unpark(w) = u
    BY <1>1 DEF Unpark
  <2> HIDE DEF v
  <2>5. Numbered(v, l.job) /\ ReadsEntries(l) /\ ReadAgrees(l)
    BY <1>1, <2>3 DEF Good, LoadsOK, SpansOK, Numbered
  <2>6. WorkerOK(v)
    BY <2>1, <2>2, <2>3 DEF WorkerOK
  <2>7. Registers(v, q, syncs)
    BY <2>3 DEF Current, Registers
  <2>8. NewestOnce(v, rd)
    BY <2>3 DEF Current, NewestOnce, IsNewest, IsAwaited
  <2>9. LoadsFresh(v, rd, syncs) /\ ReadsFresh(v, syncs, l)
    BY <1>1, <2>3 DEF Current, LoadsFresh, ReadsFresh, Fresh, IsNewest
  <2>10. InstallsFresh(v, syncs)
    BY <2>3 DEF Current, InstallsFresh, Fresh
  <2>11. Current(v, rd, q, syncs)
    BY <2>7, <2>8, <2>9, <2>10 DEF Current
  <2>12. IsNewest(v, l.job) => IsAwaited(v, l.job) /\ NoneNewest(v, rd)
    BY <1>1, <2>3 DEF Current, NewestOnce, NoneNewest, IsNewest, IsAwaited
  <2>13. ReadsIncludes(l, {})
    BY <1>1 DEF ParkedComplete
  <2> HIDE DEF l
  <2>14. /\ Current(u, rd, q, syncs)
         /\ u.pending = v.pending /\ u.inflight = v.inflight
         /\ u.scripts.documents = v.scripts.documents
         /\ u.parked = v.parked
    BY <2>1, <2>5, <2>6, <2>9, <2>11, <2>12, <2>13, InstallCurrent
  <2> HIDE DEF u
  <2> QED
    BY <2>3, <2>4, <2>14 DEF ParkedComplete
<1>2. CASE ~(w.inflight = None /\ w.parked # None)
  BY <1>2 DEF Unpark
<1> QED
  BY <1>1, <1>2

LEMMA StartCurrent ==
    ASSUME NEW w, NEW rd, NEW q, NEW syncs, Good(w, rd),
           Current(w, rd, q, syncs), QueuesRegistered(w),
           NEW f \in Files, w.pending[f] # None
    PROVE  LET u == Start(w, f)
           IN /\ Current(u, rd, q, syncs) /\ QueuesRegistered(u)
              /\ u.parked = w.parked
              /\ u.inflight = [uri |-> f, version |-> w.pending[f].version]
<1> DEFINE req == w.pending[f]
           v == Upsert(w, f, req.text)
           pnd == [v.pending EXCEPT ![f] = None]
           flight == [uri |-> f, version |-> req.version]
           job == [uri |-> f, version |-> req.version,
                   world |-> World(v, req.entries), phase |-> "running"]
           gone == v.orphaned \ {f}
           js == v.jobs \cup {job}
           u == [v EXCEPT !.pending = pnd, !.inflight = flight,
                          !.orphaned = gone, !.jobs = js]
<1>1. req \in Request /\ req.text \in Texts /\ WorkerOK(w)
  BY DEF Good, WorkerOK, WorkerRecord, Request
<1>2. /\ WorkerOK(v) /\ SameLoads(v, w) /\ v.pending = w.pending
      /\ v.tracked = [w.tracked EXCEPT ![f] = req.text]
  BY <1>1, UpsertOK, UpsertLeaves
<1>3. Start(w, f) = u
  <2>1. Start(w, f) = [v EXCEPT !.pending[f] = None, !.inflight = flight,
                                !.orphaned = @ \ {f}, !.jobs = @ \cup {job}]
    BY DEF Start
  <2> HIDE DEF req, v, flight, job
  <2> QED
    BY <1>2, <2>1 DEF WorkerOK, WorkerRecord
<1>4. w.scripts.documents[f] = Registration(req, req.entries)
  BY DEF QueuesRegistered
<1>5. w.scripts.documents[f] # None /\ w.scripts.documents[f].text = req.text
  <2>1. Registration(req, req.entries) \in Registered
    BY <1>1 DEF Request, Registered, Registration
  <2> QED
    BY <1>4, <2>1, NoneAssumption DEF Registration
<1> HIDE DEF req, v
<1>6. /\ v \in WorkerRecord /\ w \in WorkerRecord
      /\ v.pending \in [Files -> Request \cup {None}]
      /\ w.tracked \in [Files -> Texts \cup {None}]
  BY <1>1, <1>2 DEF WorkerOK, WorkerRecord
<1>7. \A g \in Files : pnd[g] = IF g = f THEN None ELSE w.pending[g]
  BY <1>2, <1>6
<1>8. \A g \in Files : v.tracked[g] = IF g = f THEN req.text ELSE w.tracked[g]
  BY <1>2, <1>6
<1> HIDE DEF job, flight, js, pnd, gone
<1>9. /\ SameLoads(u, v) /\ u.pending = pnd /\ u.inflight = flight
      /\ u.tracked = v.tracked
  BY <1>6 DEF WorkerRecord, SameLoads
<1> HIDE DEF u
<1>10. /\ u.scripts = w.scripts /\ u.load = w.load /\ u.parked = w.parked
       /\ u.files = w.files /\ u.missed = w.missed /\ u.crossed = w.crossed
  BY <1>2, <1>9 DEF SameLoads
<1>11. QueuesRegistered(u)
  BY <1>7, <1>9, <1>10 DEF QueuesRegistered
<1>12. Registers(u, q, syncs)
  BY <1>10 DEF Current, Registers
<1>13. NewestOnce(u, rd)
  BY <1>10 DEF Current, NewestOnce, IsNewest, IsAwaited
<1>14. \A g, x : Fresh(u, syncs, g, x) <=> Fresh(w, syncs, g, x)
  BY <1>10 DEF Fresh
<1>15. LoadsFresh(u, rd, syncs)
  BY <1>10, <1>14 DEF Current, LoadsFresh, ReadsFresh, IsNewest
<1>16. InstallsFresh(u, syncs)
  <2> SUFFICES ASSUME ~w.scripts.loading, w.files # None
               PROVE  InstallsFresh(u, syncs)
    BY <1>10 DEF InstallsFresh
  <2>1. InstallsFresh(w, syncs)
    BY DEF Current
  <2>2. \A g \in w.files.readable : g \in Files /\ u.tracked[g] = w.tracked[g]
    <3>1. w.files.readable \subseteq Files
      <4>1. w.files \in ScriptFiles
        BY <1>6 DEF WorkerRecord
      <4> QED
        BY <4>1 DEF ScriptFiles
    <3>2. f \in w.files.readable => w.tracked[f] = req.text
      BY <1>5, <2>1 DEF InstallsFresh, Fresh
    <3> QED
      BY <1>8, <1>9, <3>1, <3>2
  <2> QED
    BY <1>10, <1>14, <2>1, <2>2 DEF InstallsFresh
<1>17. Current(u, rd, q, syncs)
  BY <1>12, <1>13, <1>15, <1>16 DEF Current
<1> QED
  BY <1>3, <1>9, <1>10, <1>11, <1>17 DEF flight, req, u

LEMMA TryDispatchCurrent ==
    ASSUME NEW w, NEW rd, NEW q, NEW syncs, Good(w, rd),
           Current(w, rd, q, syncs), QueuesRegistered(w), ParkedComplete(w),
           NEW x \in TryDispatch(w)
    PROVE  /\ Current(x, rd, q, syncs) /\ QueuesRegistered(x)
           /\ ParkedComplete(x)
           /\ x.parked # None => x.inflight # None
<1> DEFINE v == Unpark(w)
           c == Cancel(v)
           free == [c EXCEPT !.inflight = None]
           base == IF v.inflight = None THEN v ELSE free
<1>1. /\ Current(v, rd, q, syncs) /\ ParkedComplete(v)
      /\ v.pending = w.pending /\ v.inflight = w.inflight
      /\ v.scripts.documents = w.scripts.documents
      /\ v.parked # None => w.inflight # None
  BY UnparkCurrent
<1>2. Good(v, rd) /\ QueuesRegistered(v)
  BY <1>1, UnparkGood DEF QueuesRegistered
<1>3. x \in Dispatch(v)
  BY DEF TryDispatch
<1> HIDE DEF v
<1>4. /\ WorkerOK(c) /\ Keeps(c, v) /\ SameLoads(c, v)
      /\ c.pending = v.pending /\ c.tracked = v.tracked
  BY <1>2, CancelOK, CancelKeeps, CancelLeaves DEF Good
<1>5. \/ x = v
      \/ \E f \in Files : v.pending[f] # None /\ x = Start(base, f)
  BY <1>3 DEF Dispatch, Decide
<1> HIDE DEF c
<1>6. /\ Good(free, rd) /\ Current(free, rd, q, syncs)
      /\ QueuesRegistered(free) /\ ParkedComplete(free)
      /\ free.pending = v.pending
  <2>1. c \in WorkerRecord /\ IsFiniteSet(c.jobs)
    BY <1>4 DEF WorkerOK
  <2>2. free \in WorkerRecord /\ free.jobs = c.jobs
    BY <2>1 DEF WorkerRecord
  <2>3. /\ SameLoads(free, c) /\ free.package = c.package
        /\ free.published = c.published /\ free.tracked = c.tracked
        /\ free.out = c.out /\ free.pending = c.pending
    BY <2>1 DEF WorkerRecord, SameLoads
  <2> HIDE DEF free
  <2>4. SameLoads(free, v)
    BY <1>4, <2>3 DEF SameLoads
  <2>5. WorkerOK(free) /\ Keeps(free, v) /\ free.files = v.files
    BY <1>4, <2>1, <2>2, <2>3, <2>4 DEF WorkerOK, Keeps, SameLoads
  <2>6. Good(free, rd)
    BY <1>2, <2>5, KeepsGood
  <2>7. Current(free, rd, q, syncs)
    <3>1. free.tracked = v.tracked
      BY <1>4, <2>3
    <3> QED
      BY <1>1, <2>4, <3>1 DEF SameLoads, Current, Registers, NewestOnce,
         LoadsFresh, ReadsFresh, InstallsFresh, Fresh, IsNewest, IsAwaited
  <2>8. free.pending = v.pending /\ QueuesRegistered(free) /\ ParkedComplete(free)
    BY <1>1, <1>2, <1>4, <2>3, <2>4
       DEF QueuesRegistered, ParkedComplete, SameLoads
  <2> QED
    BY <2>6, <2>7, <2>8
<1> HIDE DEF free
<1>7. /\ Good(base, rd) /\ Current(base, rd, q, syncs)
      /\ QueuesRegistered(base) /\ ParkedComplete(base)
      /\ base.pending = v.pending
  BY <1>1, <1>2, <1>6
<1> HIDE DEF base
<1>8. ASSUME NEW f \in Files, v.pending[f] # None
      PROVE  LET u == Start(base, f)
             IN /\ Current(u, rd, q, syncs) /\ QueuesRegistered(u)
                /\ ParkedComplete(u)
                /\ u.inflight # None
  <2>1. base.pending[f] # None /\ base.pending[f].version \in Nat
    <3>1. base.pending[f] \in Request
      BY <1>7, <1>8 DEF Good, WorkerOK, WorkerRecord
    <3> QED
      BY <1>7, <1>8, <3>1 DEF Request
  <2>2. [uri |-> f, version |-> base.pending[f].version] \in Flight
    BY <2>1 DEF Flight
  <2> DEFINE u == Start(base, f)
  <2>3. /\ Current(u, rd, q, syncs) /\ QueuesRegistered(u)
        /\ u.parked = base.parked
        /\ u.inflight = [uri |-> f, version |-> base.pending[f].version]
    BY <1>7, <2>1, StartCurrent
  <2> HIDE DEF u
  <2> QED
    BY <1>7, <2>2, <2>3, NoneAssumption DEF ParkedComplete, u
<1> QED
  BY <1>1, <1>2, <1>5, <1>8

-----------------------------------------------------------------------------
(* What the helpers do to the running analysis: it goes on, or it is       *)
(* unwound and its document is orphaned; whatever they report is of such   *)
(* documents.                                                              *)

Unwound(j) == [j EXCEPT !.phase = "done"]
Grows(o, o2, gone) ==
    /\ \A i \in DOMAIN o : i \in DOMAIN o2 /\ o2[i] = o[i]
    /\ \A i \in DOMAIN o2 : \A k \in DOMAIN o : i \notin DOMAIN o => k < i
    /\ \A i \in DOMAIN o2 : i \notin DOMAIN o /\ o2[i].kind = "diagnostics" =>
         o2[i].uri \in gone
Moves(v, w) ==
    /\ v.inflight = w.inflight
    /\ w.orphaned \subseteq v.orphaned
    /\ \/ v.jobs = w.jobs
       \/ /\ v.jobs = {Unwound(j) : j \in w.jobs}
          /\ \A j \in w.jobs : j.phase = "running" => j.uri \in v.orphaned
    /\ Grows(w.out, v.out, v.orphaned)

LEMMA GrowsTrans ==
    ASSUME NEW T, NEW o1 \in Seq(T), NEW o2 \in Seq(T), NEW o3 \in Seq(T),
           NEW A, NEW B, A \subseteq B, Grows(o1, o2, A), Grows(o2, o3, B)
    PROVE  Grows(o1, o3, B)
<1>1. \A i \in DOMAIN o1 : i \in DOMAIN o3 /\ o3[i] = o1[i]
  BY DEF Grows
<1>2. \A i \in DOMAIN o3 : i \notin DOMAIN o1 => \A k \in DOMAIN o1 : k < i
  BY DEF Grows
<1>3. \A i \in DOMAIN o3 : i \notin DOMAIN o1 /\ o3[i].kind = "diagnostics" =>
        o3[i].uri \in B
  BY DEF Grows
<1> QED
  BY <1>1, <1>2, <1>3 DEF Grows

LEMMA GrowsBy ==
    ASSUME NEW T, NEW o \in Seq(T), NEW more \in Seq(T), NEW gone,
           \A i \in DOMAIN more : more[i].kind = "diagnostics" =>
             more[i].uri \in gone
    PROVE  Grows(o, o \o more, gone)
<1> DEFINE o2 == o \o more
<1>1. /\ o2 \in Seq(T) /\ Len(o2) = Len(o) + Len(more)
      /\ Len(o) \in Nat /\ Len(more) \in Nat
      /\ DOMAIN o = 1..Len(o) /\ DOMAIN more = 1..Len(more)
      /\ DOMAIN o2 = 1..Len(o2)
  OBVIOUS
<1>2. /\ \A i \in DOMAIN o : o2[i] = o[i]
      /\ \A i \in DOMAIN o2 : i \notin DOMAIN o => o2[i] = more[i - Len(o)]
  OBVIOUS
<1> HIDE DEF o2
<1>3. \A i \in DOMAIN o2 : i \notin DOMAIN o =>
        i - Len(o) \in DOMAIN more /\ \A k \in DOMAIN o : k < i
  BY <1>1
<1> QED
  BY <1>1, <1>2, <1>3 DEF Grows, o2

LEMMA MovesItself ==
    ASSUME NEW w, WorkerOK(w), NEW v, v.inflight = w.inflight,
           v.orphaned = w.orphaned, v.jobs = w.jobs, v.out = w.out
    PROVE  Moves(v, w)
<1>1. w.out \in Seq(Outbound)
  BY DEF WorkerOK, WorkerRecord
<1> QED
  BY <1>1 DEF Moves, Grows

LEMMA UnwoundJob ==
    ASSUME NEW j \in Job
    PROVE  /\ Unwound(j) \in Job /\ Unwound(j).phase = "done"
           /\ Unwound(j).uri = j.uri /\ Unwound(j).version = j.version
           /\ Unwound(j).world = j.world
           /\ Unwound(Unwound(j)) = Unwound(j)
           /\ j.phase # "running" => Unwound(j) = j
BY DEF Job, Unwound

LEMMA MovesTrans ==
    ASSUME NEW w1, NEW w2, NEW w3, WorkerOK(w1), WorkerOK(w2), WorkerOK(w3),
           Moves(w2, w1), Moves(w3, w2)
    PROVE  Moves(w3, w1)
<1>1. /\ w1.jobs \subseteq Job /\ w2.jobs \subseteq Job
      /\ w1.out \in Seq(Outbound) /\ w2.out \in Seq(Outbound)
      /\ w3.out \in Seq(Outbound)
  BY DEF WorkerOK, WorkerRecord
<1>2. w1.orphaned \subseteq w3.orphaned /\ w2.orphaned \subseteq w3.orphaned
  BY DEF Moves
<1>3. Grows(w1.out, w3.out, w3.orphaned)
  BY <1>1, <1>2, GrowsTrans DEF Moves
<1>4. \/ w3.jobs = w1.jobs
      \/ /\ w3.jobs = {Unwound(j) : j \in w1.jobs}
         /\ \A j \in w1.jobs : j.phase = "running" => j.uri \in w3.orphaned
  <2>1. CASE w2.jobs = w1.jobs
    BY <2>1 DEF Moves
  <2>2. CASE /\ w2.jobs = {Unwound(j) : j \in w1.jobs}
             /\ \A j \in w1.jobs : j.phase = "running" => j.uri \in w2.orphaned
    <3>1. \A j \in w1.jobs : Unwound(Unwound(j)) = Unwound(j)
      BY <1>1, UnwoundJob
    <3>2. {Unwound(k) : k \in {Unwound(j) : j \in w1.jobs}}
            = {Unwound(j) : j \in w1.jobs}
      BY <3>1
    <3> QED
      BY <1>2, <2>2, <3>2 DEF Moves
  <2> QED
    BY <2>1, <2>2 DEF Moves
<1> QED
  BY <1>2, <1>3, <1>4 DEF Moves

LEMMA CancelMoves ==
    ASSUME NEW w, WorkerOK(w)
    PROVE  /\ Moves(Cancel(w), w)
           /\ Cancel(w).jobs = {Unwound(j) : j \in w.jobs}
           /\ \A j \in w.jobs : j.phase = "running" =>
                j.uri \in Cancel(w).orphaned
           /\ Cancel(w).orphaned
                = w.orphaned \cup {j.uri : j \in Running(w.jobs)}
<1> DEFINE running == Running(w.jobs)
           done == {[j EXCEPT !.phase = "done"] : j \in running}
           S == {ReportOf(j, None) : j \in running}
           reports == SetToSeq(S)
           out == IF w.stage = "linting" THEN w.out \o reports ELSE w.out
           gone == w.orphaned \cup {j.uri : j \in running}
           js == (w.jobs \ running) \cup done
           v == [w EXCEPT !.jobs = js, !.orphaned = gone, !.out = out]
<1>1. /\ w \in WorkerRecord /\ w.out \in Seq(Outbound) /\ w.jobs \subseteq Job
  BY DEF WorkerOK, WorkerRecord
<1>2. running \in SUBSET Job /\ IsFiniteSet(running)
  BY RunningFinite
<1>3. reports \in Seq(Outbound)
  BY <1>2, ColdReportsType
<1>4. \A i \in DOMAIN reports : reports[i].uri \in gone
  <2>1. IsFiniteSet(S)
    <3> DEFINE f == [j \in running |-> ReportOf(j, None)]
    <3>1. IsFiniteSet({f[j] : j \in running})
      BY <1>2, FiniteImage
    <3> QED
      BY <3>1
  <2>2. \A m \in S : m.uri \in gone
    BY DEF ReportOf
  <2> HIDE DEF S, gone
  <2>3. \A i \in DOMAIN reports : reports[i] \in S
    BY <2>1, SetToSeqLists
  <2> QED
    BY <2>2, <2>3
<1>5. Cancel(w) = v
  BY DEF Cancel
<1>6. js = {Unwound(j) : j \in w.jobs}
  <2>1. \A j \in w.jobs : j \notin running => Unwound(j) = j
    BY <1>1, UnwoundJob DEF Running
  <2>2. \A j \in running : j \in w.jobs
    BY DEF Running
  <2> HIDE DEF running
  <2> QED
    BY <2>1, <2>2 DEF Unwound
<1>7. \A j \in w.jobs : j.phase = "running" => j.uri \in gone
  BY DEF Running
<1>8. w.orphaned \subseteq gone
  OBVIOUS
<1> HIDE DEF js, gone, reports
<1>9. Grows(w.out, out, gone)
  <2>1. Grows(w.out, w.out \o reports, gone)
    BY <1>1, <1>3, <1>4, GrowsBy
  <2>2. Grows(w.out, w.out, gone)
    BY <1>1 DEF Grows
  <2> QED
    BY <2>1, <2>2
<1> HIDE DEF out
<1>10. /\ v.inflight = w.inflight /\ v.orphaned = gone /\ v.jobs = js
       /\ v.out = out
  BY <1>1 DEF WorkerRecord
<1> HIDE DEF v
<1> QED
  BY <1>5, <1>6, <1>7, <1>8, <1>9, <1>10 DEF Moves, gone

LEMMA UpsertMoves ==
    ASSUME NEW w, WorkerOK(w), NEW f \in Files, NEW t \in Texts
    PROVE  Moves(Upsert(w, f, t), w)
<1> DEFINE kept == w.tracked[f] \in {t, None}
           b == IF kept THEN w ELSE Cancel(w)
           v == [b EXCEPT !.tracked[f] = t]
<1>1. WorkerOK(b) /\ Moves(b, w)
  BY CancelOK, CancelMoves, MovesItself
<1>2. Upsert(w, f, t) = v
  BY DEF Upsert
<1> HIDE DEF b
<1>3. b \in WorkerRecord
  BY <1>1 DEF WorkerOK
<1>4. /\ v.inflight = b.inflight /\ v.orphaned = b.orphaned
      /\ v.jobs = b.jobs /\ v.out = b.out
  BY <1>3 DEF WorkerRecord
<1> HIDE DEF v
<1> QED
  BY <1>1, <1>2, <1>4 DEF Moves, v

LEMMA SetScriptFilesMoves ==
    ASSUME NEW w, WorkerOK(w), NEW files
    PROVE  Moves(SetScriptFiles(w, files), w)
<1> DEFINE b == IF w.files \in {files, None} THEN w ELSE Cancel(w)
           v == [b EXCEPT !.files = files]
<1>1. WorkerOK(b) /\ Moves(b, w)
  BY CancelOK, CancelMoves, MovesItself
<1>2. SetScriptFiles(w, files) = v
  BY DEF SetScriptFiles
<1> HIDE DEF b
<1>3. b \in WorkerRecord
  BY <1>1 DEF WorkerOK
<1>4. /\ v.inflight = b.inflight /\ v.orphaned = b.orphaned
      /\ v.jobs = b.jobs /\ v.out = b.out
  BY <1>3 DEF WorkerRecord
<1> HIDE DEF v
<1> QED
  BY <1>1, <1>2, <1>4 DEF Moves, v

LEMMA SetPendingMoves ==
    ASSUME NEW w, WorkerOK(w)
    PROVE  Moves(SetPending(w), w)
BY SetScriptFilesMoves DEF SetPending

LEMMA ReloadMoves ==
    ASSUME NEW w, WorkerOK(w)
    PROVE  WorkerOK(Reload(w)) /\ Moves(Reload(w), w)
<1>1. WorkerOK(AskLoad(w)) /\ Moves(AskLoad(w), w)
  BY AskLoadOK, AskLoadLeaves, MovesItself
<1>2. Moves(w, w)
  BY MovesItself
<1> QED
  BY <1>1, <1>2 DEF Reload

LEMMA PendingReloadMoves ==
    ASSUME NEW w, WorkerOK(w)
    PROVE  /\ WorkerOK(Reload(SetPending(w)))
           /\ Moves(Reload(SetPending(w)), w)
<1> DEFINE v == SetPending(w)
<1>1. WorkerOK(v) /\ Moves(v, w)
  BY SetPendingOK, SetPendingMoves
<1> HIDE DEF v
<1> QED
  BY <1>1, ReloadMoves, MovesTrans DEF v

LEMMA ReregisteredMoves ==
    ASSUME NEW w, WorkerOK(w), NEW docs \in Registrations,
           NEW crossing \in SUBSET Files
    PROVE  LET v == Reregistered(w, docs, crossing)
           IN WorkerOK(v) /\ Moves(v, w)
<1> DEFINE v == Reregistered(w, docs, crossing)
<1>1. WorkerOK(v) /\ v.out = w.out
  BY ReregisteredOK
<1>2. v.inflight = w.inflight /\ v.jobs = w.jobs /\ v.orphaned = w.orphaned
  BY ReregisteredLeaves
<1> HIDE DEF v
<1> QED
  BY <1>1, <1>2, MovesItself DEF v

LEMMA UpdateMoves ==
    ASSUME NEW w, WorkerOK(w), NEW req \in Request
    PROVE  WorkerOK(Update(w, req)) /\ Moves(Update(w, req), w)
<1> DEFINE doc == [version |-> req.version, text |-> req.text,
                   entries |-> req.entries]
           docs == [w.scripts.documents EXCEPT ![req.uri] = doc]
           crossing == w.crossed \ {req.uri}
           v == Reregistered(w, docs, crossing)
<1>1. w.scripts.documents \in Registrations /\ crossing \in SUBSET Files
  BY DEF WorkerOK, WorkerRecord, Scripts
<1>2. doc \in Registered /\ req.uri \in Files
  BY DEF Request, Registered
<1>3. docs \in Registrations
  BY <1>1, <1>2 DEF Registrations
<1>4. Update(w, req) \in {w, Reload(v), Reload(SetPending(v))}
  BY DEF Update, Reregistered
<1> HIDE DEF docs, crossing
<1>5. WorkerOK(v) /\ Moves(v, w)
  BY <1>1, <1>3, ReregisteredMoves
<1> HIDE DEF v
<1>6. /\ WorkerOK(Reload(v)) /\ Moves(Reload(v), w)
      /\ WorkerOK(Reload(SetPending(v))) /\ Moves(Reload(SetPending(v)), w)
  BY <1>5, ReloadMoves, PendingReloadMoves, MovesTrans
<1>7. Moves(w, w)
  BY MovesItself
<1> QED
  BY <1>4, <1>6, <1>7

LEMMA ClosedOrChangedMoves ==
    ASSUME NEW w, WorkerOK(w), NEW f \in Files
    PROVE  WorkerOK(ClosedOrChanged(w, f)) /\ Moves(ClosedOrChanged(w, f), w)
<1> DEFINE docs == [w.scripts.documents EXCEPT ![f] = None]
           crossing == IF w.scripts.documents[f] # None /\ documents[f] # None
                       THEN w.crossed \cup {f} ELSE w.crossed
           v == Reregistered(w, docs, crossing)
           noted == IF w.scripts.loading THEN w.missed \cup {f} ELSE w.missed
           u == [w EXCEPT !.missed = noted]
<1>1. /\ w.scripts.documents \in Registrations /\ w \in WorkerRecord
      /\ crossing \in SUBSET Files /\ noted \in SUBSET Files
  BY DEF WorkerOK, WorkerRecord, Scripts
<1>2. docs \in Registrations
  BY <1>1 DEF Registrations
<1>3. ClosedOrChanged(w, f) \in {u, Reload(SetPending(v)), v}
  BY DEF ClosedOrChanged, Reregistered
<1> HIDE DEF docs, crossing, noted
<1>4. WorkerOK(v) /\ Moves(v, w)
  BY <1>1, <1>2, ReregisteredMoves
<1> HIDE DEF v
<1>5. /\ WorkerOK(Reload(SetPending(v))) /\ Moves(Reload(SetPending(v)), w)
  BY <1>4, PendingReloadMoves, MovesTrans
<1>6. WorkerOK(u) /\ Moves(u, w)
  <2>1. u \in WorkerRecord
    BY <1>1 DEF WorkerRecord
  <2>2. /\ u.inflight = w.inflight /\ u.orphaned = w.orphaned
        /\ u.jobs = w.jobs /\ u.out = w.out
    BY <1>1 DEF WorkerRecord
  <2> HIDE DEF u
  <2> QED
    BY <2>1, <2>2, MovesItself DEF WorkerOK
<1> QED
  BY <1>3, <1>4, <1>5, <1>6

(* Programs that are pending stay so, until a refresh is sent; and what    *)
(* the database holds of the entry points.                                 *)
Announces(w) == w.files # None /\ w.files.pending
Refreshing(w) == \E i \in DOMAIN w.out : w.out[i].kind = "refresh"
StillPending(v, w) == Announces(w) => Announces(v) \/ Refreshing(v)
FilesKnown(w) ==
    /\ w.files = None => w.scripts.entries = {} /\ w.scripts.sources = {}
    /\ w.files # None /\ ~w.files.pending => w.files.entries = w.scripts.entries

LEMMA RefreshingKept ==
    ASSUME NEW w, NEW v, Moves(v, w), Refreshing(w)
    PROVE  Refreshing(v)
BY DEF Moves, Grows, Refreshing

LEMMA PendingReloadFiles ==
    ASSUME NEW w, WorkerOK(w)
    PROVE  LET v == Reload(SetPending(w))
           IN Announces(v) /\ FilesKnown(v) /\ v.parked = w.parked
              /\ v.pending = w.pending
<1> DEFINE p == SetPending(w)
           a == AskLoad(p)
<1>1. /\ WorkerOK(p) /\ WritesFiles(p, w)
      /\ p.files # None /\ p.files.pending
  BY SetPendingOK, SetPendingLeaves
<1> HIDE DEF p
<1>2. /\ a.files = p.files /\ a.parked = p.parked /\ a.pending = p.pending
  BY <1>1, AskLoadOK, AskLoadLeaves
<1>3. Reload(p) = p \/ Reload(p) = a
  BY DEF Reload
<1> HIDE DEF a
<1> QED
  BY <1>1, <1>2, <1>3 DEF WritesFiles, Announces, FilesKnown, p

LEMMA ReregisteredFields ==
    ASSUME NEW w, WorkerOK(w), NEW docs \in Registrations,
           NEW crossing \in SUBSET Files
    PROVE  LET v == Reregistered(w, docs, crossing)
           IN /\ WorkerOK(v) /\ v.files = w.files /\ v.parked = w.parked
              /\ v.pending = w.pending
              /\ v.scripts.entries = EntriesOf(docs)
              /\ v.scripts.sources = w.scripts.sources
<1> DEFINE v == Reregistered(w, docs, crossing)
<1>1. /\ WorkerOK(v)
      /\ v.scripts = [w.scripts EXCEPT !.documents = docs,
                                       !.entries = EntriesOf(docs)]
      /\ v.load = w.load /\ v.parked = w.parked /\ v.files = w.files
      /\ v.package = w.package /\ v.out = w.out
  BY ReregisteredOK
<1>2. v.pending = w.pending
  BY ReregisteredLeaves
<1>3. w.scripts \in Scripts
  BY DEF WorkerOK, WorkerRecord
<1> HIDE DEF v
<1>4. /\ v.scripts.entries = EntriesOf(docs)
      /\ v.scripts.sources = w.scripts.sources
  BY <1>1, <1>3 DEF Scripts
<1> QED
  BY <1>1, <1>2, <1>4 DEF v

LEMMA UpdateFiles ==
    ASSUME NEW w, NEW rd, Good(w, rd), FilesKnown(w), NEW req \in Request
    PROVE  LET v == Update(w, req)
           IN FilesKnown(v) /\ StillPending(v, w) /\ v.parked = w.parked
              /\ v.pending = w.pending
<1> DEFINE doc == [version |-> req.version, text |-> req.text,
                   entries |-> req.entries]
           docs == [w.scripts.documents EXCEPT ![req.uri] = doc]
           crossing == w.crossed \ {req.uri}
           v == Reregistered(w, docs, crossing)
           p == Reload(SetPending(v))
           a == AskLoad(v)
<1>1. /\ w.scripts.documents \in Registrations /\ crossing \in SUBSET Files
      /\ WorkerOK(w) /\ w.scripts \in Scripts
  BY DEF Good, WorkerOK, WorkerRecord, Scripts
<1>2. doc \in Registered /\ req.uri \in Files
  BY DEF Request, Registered
<1>3. docs \in Registrations
  BY <1>1, <1>2 DEF Registrations
<1>4. Update(w, req) = IF IsKnown(w.scripts.documents[req.uri], req) THEN w
                       ELSE IF EntriesOf(docs) = w.scripts.entries
                       THEN Reload(v) ELSE p
  BY DEF Update, Reregistered
<1> HIDE DEF docs, crossing
<1>5. /\ WorkerOK(v) /\ v.files = w.files /\ v.parked = w.parked
      /\ v.pending = w.pending
      /\ v.scripts.entries = EntriesOf(docs)
      /\ v.scripts.sources = w.scripts.sources
  BY <1>1, <1>3, ReregisteredFields
<1> HIDE DEF v
<1>6. Announces(p) /\ FilesKnown(p) /\ p.parked = v.parked /\ p.pending = v.pending
  BY <1>5, PendingReloadFiles
<1> HIDE DEF p
<1>7. /\ a.files = v.files /\ a.parked = v.parked /\ a.pending = v.pending
      /\ a.scripts.entries = v.scripts.entries
      /\ a.scripts.sources = v.scripts.sources
  <2>1. /\ a.files = v.files /\ a.parked = v.parked /\ a.pending = v.pending
        /\ a.scripts = [v.scripts EXCEPT !.generation = @ + 1, !.loading = TRUE]
    BY <1>5, AskLoadOK, AskLoadLeaves
  <2>2. v.scripts \in Scripts
    BY <1>5 DEF WorkerOK, WorkerRecord
  <2> HIDE DEF a
  <2> QED
    BY <2>1, <2>2 DEF Scripts
<1>8. Reload(v) = v \/ Reload(v) = a
  BY DEF Reload
<1> HIDE DEF a
<1>9. CASE IsKnown(w.scripts.documents[req.uri], req)
  BY <1>4, <1>9 DEF StillPending
<1>10. CASE /\ ~IsKnown(w.scripts.documents[req.uri], req)
            /\ EntriesOf(docs) = w.scripts.entries
  BY <1>4, <1>5, <1>7, <1>8, <1>10 DEF StillPending, Announces, FilesKnown
<1>11. CASE /\ ~IsKnown(w.scripts.documents[req.uri], req)
            /\ EntriesOf(docs) # w.scripts.entries
  BY <1>4, <1>5, <1>6, <1>11 DEF StillPending
<1> QED
  BY <1>9, <1>10, <1>11

LEMMA ClosedOrChangedFiles ==
    ASSUME NEW w, NEW rd, Good(w, rd), FilesKnown(w), NEW f \in Files
    PROVE  LET v == ClosedOrChanged(w, f)
           IN FilesKnown(v) /\ StillPending(v, w) /\ v.parked = w.parked
<1> DEFINE docs == [w.scripts.documents EXCEPT ![f] = None]
           closed == w.scripts.documents[f] # None
           crossing == IF closed /\ documents[f] # None
                       THEN w.crossed \cup {f} ELSE w.crossed
           v == Reregistered(w, docs, crossing)
           noted == IF w.scripts.loading THEN w.missed \cup {f} ELSE w.missed
           u == [w EXCEPT !.missed = noted]
           p == Reload(SetPending(v))
<1>1. /\ w.scripts.documents \in Registrations /\ w \in WorkerRecord
      /\ crossing \in SUBSET Files /\ noted \in SUBSET Files
      /\ WorkerOK(w) /\ w.scripts \in Scripts /\ LoadsOK(w, rd)
  BY DEF Good, WorkerOK, WorkerRecord, Scripts
<1>2. docs \in Registrations
  BY <1>1 DEF Registrations
<1>3. ClosedOrChanged(w, f) =
        IF ~closed /\ f \notin w.scripts.sources THEN u
        ELSE IF \/ w.scripts.loading \/ w.scripts.sources # {}
                \/ EntriesOf(docs) # {}
        THEN p ELSE v
  BY DEF ClosedOrChanged, Reregistered
<1> HIDE DEF docs, closed, crossing, noted
<1>4. /\ WorkerOK(v) /\ v.files = w.files /\ v.parked = w.parked
      /\ v.scripts.entries = EntriesOf(docs)
      /\ v.scripts.sources = w.scripts.sources
  BY <1>1, <1>2, ReregisteredFields
<1> HIDE DEF v
<1>5. Announces(p) /\ FilesKnown(p) /\ p.parked = v.parked
  BY <1>4, PendingReloadFiles
<1> HIDE DEF p
<1>6. u.files = w.files /\ u.parked = w.parked /\ u.scripts = w.scripts
  BY <1>1 DEF WorkerRecord
<1> HIDE DEF u
<1>7. CASE ~closed /\ f \notin w.scripts.sources
  BY <1>3, <1>6, <1>7 DEF StillPending, Announces, FilesKnown
<1>8. CASE /\ ~(~closed /\ f \notin w.scripts.sources)
           /\ \/ w.scripts.loading \/ w.scripts.sources # {}
              \/ EntriesOf(docs) # {}
  BY <1>3, <1>4, <1>5, <1>8 DEF StillPending
<1>9. CASE /\ ~(~closed /\ f \notin w.scripts.sources)
            /\ ~(\/ w.scripts.loading \/ w.scripts.sources # {}
                 \/ EntriesOf(docs) # {})
  <2>1. w.scripts.entries = {}
    BY <1>1, <1>9 DEF LoadsOK
  <2> QED
    BY <1>3, <1>4, <1>9, <2>1 DEF StillPending, Announces, FilesKnown
<1> QED
  BY <1>7, <1>8, <1>9

-----------------------------------------------------------------------------
(* Receiving a request, and handling a sync.                               *)

LEMMA EnqueueMoves ==
    ASSUME NEW w, NEW rd, Good(w, rd), FilesKnown(w), NEW req \in Request
    PROVE  LET v == Enqueue(w, req)
           IN /\ WorkerOK(v) /\ Moves(v, w) /\ FilesKnown(v)
              /\ StillPending(v, w) /\ v.parked = w.parked
              /\ \A f \in Files :
                   v.pending[f] = IF f = req.uri THEN Newest(w.pending[f], req)
                                  ELSE w.pending[f]
<1> DEFINE v == Update(w, req)
           pnd == [v.pending EXCEPT ![req.uri] = Newest(@, req)]
           u == [v EXCEPT !.pending = pnd]
<1>1. /\ WorkerOK(v) /\ Moves(v, w) /\ FilesKnown(v) /\ StillPending(v, w)
      /\ v.parked = w.parked /\ v.pending = w.pending
  BY UpdateMoves, UpdateFiles DEF Good
<1>2. Enqueue(w, req) = [v EXCEPT !.pending[req.uri] = Newest(@, req)]
  BY DEF Enqueue
<1> HIDE DEF v
<1>3. /\ v \in WorkerRecord /\ IsFiniteSet(v.jobs)
      /\ v.pending \in [Files -> Request \cup {None}] /\ req.uri \in Files
  BY <1>1 DEF WorkerOK, WorkerRecord, Request
<1>4. Enqueue(w, req) = u
  BY <1>2, <1>3 DEF WorkerRecord
<1>5. /\ pnd \in [Files -> Request \cup {None}]
      /\ \A f \in Files : pnd[f] = IF f = req.uri THEN Newest(w.pending[f], req)
                                   ELSE w.pending[f]
  BY <1>1, <1>3, NewestType
<1> HIDE DEF pnd
<1>6. u \in WorkerRecord
  BY <1>3, <1>5 DEF WorkerRecord
<1>7. /\ u.scripts = v.scripts /\ u.parked = v.parked /\ u.files = v.files
      /\ u.out = v.out /\ u.jobs = v.jobs /\ u.orphaned = v.orphaned
      /\ u.inflight = v.inflight /\ u.pending = pnd
  BY <1>3 DEF WorkerRecord
<1> HIDE DEF u
<1>8. WorkerOK(u) /\ Moves(u, v)
  BY <1>1, <1>3, <1>6, <1>7, MovesItself DEF WorkerOK
<1>9. Moves(u, w)
  BY <1>1, <1>8, MovesTrans DEF Good
<1>10. FilesKnown(u) /\ StillPending(u, w)
  BY <1>1, <1>7 DEF FilesKnown, StillPending, Announces, Refreshing
<1> QED
  BY <1>1, <1>4, <1>5, <1>7, <1>8, <1>9, <1>10

LEMMA OnSyncMoves ==
    ASSUME NEW w, NEW rd, Good(w, rd), FilesKnown(w), NEW f \in Files,
           disk \in [Files -> Texts \cup {Unreadable}]
    PROVE  LET v == OnSync(w, f)
           IN /\ Moves(v, w) /\ FilesKnown(v) /\ StillPending(v, w)
              /\ v.parked = w.parked
              /\ w.pending[f] # None => f \in v.orphaned
<1> DEFINE pnd == [w.pending EXCEPT ![f] = None]
           gone == IF w.pending[f] # None THEN w.orphaned \cup {f} ELSE w.orphaned
           u == [w EXCEPT !.pending = pnd, !.orphaned = gone]
           v == Revert(u, f)
           x == ClosedOrChanged(v, f)
<1>1. /\ w \in WorkerRecord /\ IsFiniteSet(w.jobs) /\ WorkerOK(w)
      /\ w.pending \in [Files -> Request \cup {None}]
      /\ w.orphaned \in SUBSET Files /\ w.out \in Seq(Outbound)
  BY DEF Good, WorkerOK, WorkerRecord
<1>2. DropQueued(w, f) = u
  BY <1>1 DEF DropQueued, WorkerRecord
<1>3. /\ pnd \in [Files -> Request \cup {None}] /\ gone \in SUBSET Files
      /\ w.orphaned \subseteq gone /\ (w.pending[f] # None => f \in gone)
  BY <1>1
<1>4. OnSync(w, f) = x
  BY <1>2 DEF OnSync
<1> HIDE DEF pnd, gone
<1>5. u \in WorkerRecord
  BY <1>1, <1>3 DEF WorkerRecord
<1>6. /\ SameLoads(u, w) /\ u.jobs = w.jobs /\ u.inflight = w.inflight
      /\ u.package = w.package /\ u.published = w.published /\ u.out = w.out
      /\ u.orphaned = gone
  BY <1>1 DEF WorkerRecord, SameLoads
<1> HIDE DEF u
<1>7. WorkerOK(u) /\ Moves(u, w) /\ Good(u, rd)
  <2>1. WorkerOK(u) /\ Keeps(u, w) /\ u.files = w.files
    BY <1>1, <1>5, <1>6 DEF WorkerOK, Keeps, SameLoads
  <2>2. Moves(u, w)
    BY <1>1, <1>3, <1>6 DEF Moves, Grows
  <2> QED
    BY <2>1, <2>2, KeepsGood
<1>8. /\ Good(v, rd) /\ SameLoads(v, u) /\ Moves(v, u)
  <2>1. CASE u.tracked[f] = None \/ disk[f] = Unreadable
    BY <1>7, <2>1, SameLoadsItself, MovesItself DEF Revert
  <2>2. CASE ~(u.tracked[f] = None \/ disk[f] = Unreadable)
    <3>1. v = Upsert(u, f, disk[f]) /\ disk[f] \in Texts
      BY <2>2 DEF Revert
    <3> HIDE DEF v
    <3>2. /\ WorkerOK(v) /\ Keeps(v, u) /\ v.files = u.files
          /\ SameLoads(v, u) /\ Moves(v, u)
      BY <1>7, <3>1, UpsertOK, UpsertLeaves, UpsertMoves
    <3> QED
      BY <1>7, <3>2, KeepsGood
  <2> QED
    BY <2>1, <2>2
<1> HIDE DEF v
<1>9. FilesKnown(v)
  BY <1>6, <1>8 DEF SameLoads, FilesKnown
<1>10. /\ WorkerOK(x) /\ Moves(x, v) /\ FilesKnown(x) /\ StillPending(x, v)
       /\ x.parked = v.parked
  BY <1>8, <1>9, ClosedOrChangedMoves, ClosedOrChangedFiles DEF Good
<1> HIDE DEF x
<1>11. Moves(v, w)
  BY <1>1, <1>7, <1>8, MovesTrans DEF Good
<1>12. Moves(x, w)
  BY <1>1, <1>8, <1>10, <1>11, MovesTrans DEF Good
<1>13. StillPending(x, w) /\ x.parked = w.parked
  BY <1>6, <1>8, <1>10 DEF SameLoads, StillPending, Announces
<1>14. gone \subseteq x.orphaned
  BY <1>6, <1>8, <1>10 DEF Moves
<1> QED
  BY <1>3, <1>4, <1>10, <1>12, <1>13, <1>14

-----------------------------------------------------------------------------
(* Publishing and installing: whoever was told "pending" is refreshed.     *)

LEMMA ProjectMessages ==
    ASSUME NEW w, WorkerOK(w), NEW now \in SUBSET Files
    PROVE  /\ PublishAll(w, now) \in Seq(Outbound)
           /\ \A i \in DOMAIN PublishAll(w, now) :
                PublishAll(w, now)[i].kind = "project"
<1> DEFINE Say(f) == ProjectDiagnostics(f, GraphDiagnostics(w)[f],
                                        DiagnosticSource(w, f))
           Clear(f) == ProjectDiagnostics(f, {}, Package)
           files == SetToSeq(now)
           gone == SetToSeq(w.published \ now)
           n == Cardinality(now)
           k == Cardinality(w.published \ now)
           new == [i \in DOMAIN files |-> Say(files[i])]
           old == [i \in DOMAIN gone |-> Clear(gone[i])]
<1>1. w.published \in SUBSET Files
  BY DEF WorkerOK, WorkerRecord
<1>2. /\ n \in Nat /\ files \in [1..n -> now] /\ DOMAIN files = 1..n
      /\ k \in Nat /\ gone \in [1..k -> w.published \ now] /\ DOMAIN gone = 1..k
  BY <1>1, FilesFinite, SetToSeqLists
<1>3. \A f \in Files : Say(f) \in Outbound /\ Say(f).kind = "project"
  <2> SUFFICES ASSUME NEW f \in Files
               PROVE  Say(f) \in Outbound /\ Say(f).kind = "project"
    OBVIOUS
  <2>1. /\ GraphDiagnostics(w)[f] \in SUBSET Finding
        /\ DiagnosticSource(w, f) \in Nat \cup {None, Package}
    BY GraphDiagnosticsType, DiagnosticSourceType
  <2> QED
    BY <2>1 DEF ProjectDiagnostics, Outbound
<1>4. \A f \in Files : Clear(f) \in Outbound /\ Clear(f).kind = "project"
  BY DEF ProjectDiagnostics, Outbound
<1>5. PublishAll(w, now) = new \o old
  BY DEF PublishAll, PublishNew
<1> HIDE DEF Say, Clear, files, gone, n, k
<1>6. \A i \in 1..n : files[i] \in Files
  BY <1>2
<1>7. \A i \in 1..k : gone[i] \in Files
  BY <1>1, <1>2
<1>8. /\ new \in Seq(Outbound) /\ \A i \in DOMAIN new : new[i].kind = "project"
  <2>1. new \in [1..n -> Outbound]
    BY <1>2, <1>3, <1>6
  <2>2. \A i \in DOMAIN new : new[i].kind = "project"
    BY <1>2, <1>3, <1>6
  <2> QED
    BY <1>2, <2>1, <2>2, SeqFromFunction
<1>9. /\ old \in Seq(Outbound) /\ \A i \in DOMAIN old : old[i].kind = "project"
  <2>1. old \in [1..k -> Outbound]
    BY <1>2, <1>4, <1>7
  <2>2. \A i \in DOMAIN old : old[i].kind = "project"
    BY <1>2, <1>4, <1>7
  <2> QED
    BY <1>2, <2>1, <2>2, SeqFromFunction
<1> HIDE DEF new, old
<1> QED
  BY <1>5, <1>8, <1>9

LEMMA PublishMoves ==
    ASSUME NEW w, WorkerOK(w)
    PROVE  LET v == PublishGraphDiagnostics(w)
           IN WorkerOK(v) /\ Moves(v, w) /\ Refreshing(v)
<1> DEFINE now == {f \in Files : GraphDiagnostics(w)[f] # {}}
           said == PublishAll(w, now)
           last == [kind |-> "refresh"]
           most == w.out \o said
           out == most \o <<last>>
           v == [w EXCEPT !.published = now, !.out = out]
<1>1. w \in WorkerRecord /\ IsFiniteSet(w.jobs) /\ w.out \in Seq(Outbound)
  BY DEF WorkerOK, WorkerRecord
<1>2. PublishGraphDiagnostics(w) = v
  BY DEF PublishGraphDiagnostics
<1>3. now \in SUBSET Files
  OBVIOUS
<1> HIDE DEF now
<1>4. said \in Seq(Outbound) /\ \A i \in DOMAIN said : said[i].kind = "project"
  BY <1>3, ProjectMessages
<1>5. last \in Outbound /\ last.kind = "refresh"
  BY DEF Outbound
<1> HIDE DEF said, last
<1>6. most \in Seq(Outbound) /\ Grows(w.out, most, w.orphaned)
  BY <1>1, <1>4, GrowsBy
<1> HIDE DEF most
<1>7. out \in Seq(Outbound) /\ Grows(most, out, w.orphaned)
  <2>1. /\ <<last>> \in Seq(Outbound)
        /\ \A i \in DOMAIN <<last>> : <<last>>[i].kind = "refresh"
    BY <1>5
  <2> DEFINE more == <<last>>
  <2> HIDE DEF more
  <2>2. Grows(most, most \o more, w.orphaned)
    BY <1>6, <2>1, GrowsBy DEF more
  <2>3. most \o more \in Seq(Outbound)
    BY <1>6, <2>1 DEF more
  <2> QED
    BY <2>2, <2>3 DEF more
<1>8. Grows(w.out, out, w.orphaned)
  BY <1>1, <1>6, <1>7, GrowsTrans
<1>9. \E i \in DOMAIN out : out[i].kind = "refresh"
  <2>1. Len(most) + 1 \in DOMAIN out /\ out[Len(most) + 1] = last
    BY <1>5, <1>6
  <2> QED
    BY <1>5, <2>1
<1> HIDE DEF out
<1>10. v \in WorkerRecord
  BY <1>1, <1>3, <1>7 DEF WorkerRecord
<1>11. /\ v.inflight = w.inflight /\ v.orphaned = w.orphaned
       /\ v.jobs = w.jobs /\ v.out = out
  BY <1>1 DEF WorkerRecord
<1> HIDE DEF v
<1> QED
  BY <1>1, <1>2, <1>8, <1>9, <1>10, <1>11 DEF WorkerOK, Moves, Refreshing

LEMMA SetScriptSourcesMoves ==
    ASSUME NEW w, WorkerOK(w), NEW loaded \in Loaded
    PROVE  Moves(SetScriptSources(w, loaded), w)
<1> DEFINE sources == SourcesOf(loaded)
           text == TextsOf(w, loaded)
           readable == ReadableOf(w, loaded)
           track == [f \in Files |->
                       IF f \in readable THEN text[f] ELSE w.tracked[f]]
           written == [w EXCEPT !.tracked = track]
           changes == \E f \in readable : w.tracked[f] \notin {text[f], None}
           base == IF changes THEN Cancel(written) ELSE written
           files == [readable |-> readable, failed |-> sources \ readable,
                     entries |-> loaded.job.entries, pending |-> FALSE]
<1>1. /\ w \in WorkerRecord /\ IsFiniteSet(w.jobs)
      /\ w.tracked \in [Files -> Texts \cup {None}]
      /\ loaded.job.entries \in SUBSET Files
  BY DEF WorkerOK, WorkerRecord, Loaded, Load
<1>2. readable \in SUBSET Files /\ sources \in SUBSET Files
      /\ \A f \in readable : text[f] \in Texts
  BY DEF ReadableOf, SourcesOf
<1>3. SetScriptSources(w, loaded) = SetScriptFiles(base, files)
  BY DEF SetScriptSources, SourcesOf, TextsOf, ReadableOf
<1> HIDE DEF readable, sources, text
<1>4. track \in [Files -> Texts \cup {None}] /\ files \in ScriptFiles
  BY <1>1, <1>2 DEF ScriptFiles
<1> HIDE DEF track, changes, files
<1>5. written \in WorkerRecord
  BY <1>1, <1>4 DEF WorkerRecord
<1>6. /\ written.inflight = w.inflight /\ written.jobs = w.jobs
      /\ written.orphaned = w.orphaned /\ written.out = w.out
  BY <1>1 DEF WorkerRecord
<1> HIDE DEF written
<1>7. WorkerOK(written) /\ Moves(written, w)
  BY <1>1, <1>5, <1>6, MovesItself DEF WorkerOK
<1>8. WorkerOK(base) /\ Moves(base, written)
  BY <1>7, CancelOK, CancelMoves, MovesItself
<1> HIDE DEF base
<1> DEFINE v == SetScriptFiles(base, files)
<1>9. WorkerOK(v) /\ Moves(v, base)
  BY <1>4, <1>8, SetScriptFilesOK, SetScriptFilesMoves
<1> HIDE DEF v
<1>10. Moves(base, w)
  BY <1>7, <1>8, MovesTrans
<1>11. Moves(v, w)
  BY <1>8, <1>9, <1>10, MovesTrans
<1> QED
  BY <1>3, <1>11 DEF v

LEMMA InstallMoves ==
    ASSUME NEW w, WorkerOK(w), FilesKnown(w), NEW loaded \in Loaded,
           Numbered(w, loaded.job)
    PROVE  LET v == Install(w, loaded)
           IN /\ WorkerOK(v) /\ Moves(v, w) /\ FilesKnown(v)
              /\ StillPending(v, w) /\ v.pending = w.pending
<1>1. CASE loaded.job.generation # w.scripts.generation
  <2>1. Install(w, loaded) = w
    BY <1>1 DEF Install
  <2> QED
    BY <2>1, MovesItself DEF StillPending
<1>2. CASE loaded.job.generation = w.scripts.generation
  <2> DEFINE v == SetScriptSources(w, loaded)
             sources == SourcesOf(loaded)
             program == Program(loaded.job.entries, loaded.sources)
             found == FailedIncludes(loaded.sources)
             versions == VersionsOf(loaded.job.documents)
             s == [w.scripts EXCEPT !.loading = FALSE, !.sources = sources,
                                    !.program = program,
                                    !.diagnostics = found,
                                    !.versions = versions]
             u == [v EXCEPT !.scripts = s]
             x == PublishGraphDiagnostics(u)
  <2>1. WorkerOK(v) /\ Keeps(v, w) /\ Moves(v, w)
        /\ v.files # None /\ ~v.files.pending
    BY SetScriptSourcesOK, SetScriptSourcesMoves
  <2>2. v.files.entries = loaded.job.entries /\ v.pending = w.pending
    <3> DEFINE text == TextsOf(w, loaded)
               readable == ReadableOf(w, loaded)
    <3>1. /\ v.missed = w.missed /\ v.crossed = w.crossed
          /\ v.pending = w.pending /\ v.inflight = w.inflight
          /\ v.files = [readable |-> readable, failed |-> sources \ readable,
                        entries |-> loaded.job.entries, pending |-> FALSE]
          /\ \A f \in Files : v.tracked[f] = IF f \in readable THEN text[f]
                                             ELSE w.tracked[f]
      BY SetScriptSourcesLeaves
    <3> HIDE DEF readable, sources, v
    <3> QED
      BY <3>1
  <2>3. /\ loaded.sources \in Sources /\ loaded.job \in Load
        /\ loaded.job.entries \in SUBSET Files
        /\ loaded.job.documents \in Registrations
        /\ w.scripts \in Scripts
    BY DEF Loaded, Load, WorkerOK, WorkerRecord
  <2>4. found \in [Files -> SUBSET Finding] /\ program \in Programs
        /\ versions \in [Files -> Nat \cup {None}]
    BY <2>3, FailedIncludesType, ProgramType, VersionsOfType
  <2>5. sources \in SUBSET Files
    BY DEF SourcesOf
  <2>6. Install(w, loaded) = IF Changed(w, loaded) THEN x ELSE u
    <3>1. v.scripts = w.scripts
      BY <2>1 DEF Keeps
    <3>2. Install(w, loaded) = Installed(w, loaded)
      BY <1>2 DEF Install
    <3> QED
      BY <3>1, <3>2 DEF Installed, SourcesOf
  <2>7. Announces(w) => Changed(w, loaded)
    BY DEF Announces, Changed
  <2> HIDE DEF v, sources, program, found, versions
  <2>8. s \in Scripts /\ s.entries = w.scripts.entries
    BY <2>3, <2>4, <2>5 DEF Scripts
  <2> HIDE DEF s
  <2>9. u \in WorkerRecord
    BY <2>1, <2>8 DEF WorkerOK, WorkerRecord
  <2>10. /\ u.scripts = s /\ u.files = v.files /\ u.jobs = v.jobs
         /\ u.inflight = v.inflight /\ u.orphaned = v.orphaned
         /\ u.out = v.out /\ u.pending = v.pending
    BY <2>1 DEF WorkerOK, WorkerRecord
  <2> HIDE DEF u
  <2>11. WorkerOK(u) /\ Moves(u, v)
    BY <2>1, <2>9, <2>10, MovesItself DEF WorkerOK
  <2>12. FilesKnown(u)
    <3>1. u.files.entries = w.scripts.entries
      BY <1>2, <2>2, <2>10 DEF Numbered
    <3> QED
      BY <2>1, <2>8, <2>10, <3>1 DEF FilesKnown
  <2>13. Moves(u, w)
    BY <2>1, <2>11, MovesTrans
  <2>14. /\ WorkerOK(x) /\ Moves(x, u) /\ Refreshing(x) /\ SameLoads(x, u)
         /\ x.pending = u.pending
    BY <2>11, PublishMoves, PublishLeaves
  <2> HIDE DEF x
  <2>15. Moves(x, w)
    BY <2>11, <2>13, <2>14, MovesTrans
  <2>16. FilesKnown(x)
    BY <2>12, <2>14 DEF SameLoads, FilesKnown
  <2> QED
    BY <2>2, <2>6, <2>7, <2>10, <2>11, <2>12, <2>13, <2>14, <2>15,
       <2>16 DEF StillPending
<1> QED
  BY <1>1, <1>2

LEMMA UnparkMoves ==
    ASSUME NEW w, NEW rd, Good(w, rd), FilesKnown(w)
    PROVE  LET v == Unpark(w)
           IN WorkerOK(v) /\ Moves(v, w) /\ FilesKnown(v) /\ StillPending(v, w)
<1>1. CASE w.inflight = None /\ w.parked # None
  <2> DEFINE l == w.parked
             v == [w EXCEPT !.parked = None]
             u == Install(v, l)
  <2>1. /\ w \in WorkerRecord /\ IsFiniteSet(w.jobs) /\ l \in Loaded
    BY <1>1 DEF Good, WorkerOK, WorkerRecord
  <2>2. v \in WorkerRecord
    BY <2>1 DEF WorkerRecord
  <2>3. /\ v.scripts = w.scripts /\ v.files = w.files /\ v.out = w.out
        /\ v.jobs = w.jobs /\ v.inflight = w.inflight
        /\ v.orphaned = w.orphaned
    BY <2>1 DEF WorkerRecord
  <2>4. Unpark(w) = u
    BY <1>1 DEF Unpark
  <2> HIDE DEF v
  <2>5. Numbered(v, l.job)
    BY <1>1, <2>3 DEF Good, LoadsOK, Numbered
  <2>6. WorkerOK(v) /\ FilesKnown(v) /\ Moves(v, w)
    BY <2>1, <2>2, <2>3, MovesItself DEF WorkerOK, FilesKnown, Good
  <2> HIDE DEF l
  <2>7. WorkerOK(u) /\ Moves(u, v) /\ FilesKnown(u) /\ StillPending(u, v)
    BY <2>1, <2>5, <2>6, InstallMoves
  <2> HIDE DEF u
  <2>8. Moves(u, w)
    BY <2>6, <2>7, MovesTrans DEF Good
  <2>9. StillPending(u, w)
    BY <2>3, <2>7 DEF StillPending, Announces
  <2> QED
    BY <2>4, <2>7, <2>8, <2>9
<1>2. CASE ~(w.inflight = None /\ w.parked # None)
  <2>1. Unpark(w) = w
    BY <1>2 DEF Unpark
  <2> QED
    BY <2>1, MovesItself DEF StillPending, Good
<1> QED
  BY <1>1, <1>2

-----------------------------------------------------------------------------
(* The arms, over the worker's record.  An occupied slot has its job.      *)

IsFlight(w, j) == w.inflight = [uri |-> j.uri, version |-> j.version]
Held(w) == w.inflight # None => panicked \/ \E j \in w.jobs : IsFlight(w, j)
Parks(w) == w.parked # None => w.inflight # None

Tracks(w, rd, q, syncs) ==
    /\ Current(w, rd, q, syncs) /\ QueuesRegistered(w)
    /\ ParkedComplete(w) /\ FilesKnown(w) /\ Held(w)

LEMMA HeldKept ==
    ASSUME NEW w, WorkerOK(w), NEW v, Moves(v, w), Held(w)
    PROVE  Held(v)
<1> SUFFICES ASSUME v.inflight # None, ~panicked
             PROVE  \E j \in v.jobs : IsFlight(v, j)
  BY DEF Held
<1>1. PICK j \in w.jobs : IsFlight(w, j)
  BY DEF Held, Moves
<1>2. /\ w.jobs \subseteq Job /\ v.inflight = w.inflight
      /\ v.jobs = w.jobs \/ v.jobs = {Unwound(k) : k \in w.jobs}
  BY DEF WorkerOK, WorkerRecord, Moves
<1>3. Unwound(j).uri = j.uri /\ Unwound(j).version = j.version
  BY <1>2, UnwoundJob
<1> QED
  BY <1>1, <1>2, <1>3 DEF IsFlight

(* What a dispatch starts with, and what it leaves.                        *)
LEMMA StartFields ==
    ASSUME NEW w, WorkerOK(w), NEW f \in Files, w.pending[f] # None
    PROVE  LET v == Upsert(w, f, w.pending[f].text)
               u == Start(w, f)
               job == [uri |-> f, version |-> w.pending[f].version,
                       world |-> World(v, w.pending[f].entries),
                       phase |-> "running"]
           IN /\ WorkerOK(v) /\ Moves(v, w) /\ SameLoads(v, w)
              /\ job \in Job
              /\ SameLoads(u, w)
              /\ u.inflight = [uri |-> f, version |-> w.pending[f].version]
              /\ u.inflight # None
              /\ u.jobs = v.jobs \cup {job}
              /\ u.orphaned = v.orphaned \ {f}
              /\ u.out = v.out
              /\ \A g \in Files : u.pending[g] = IF g = f THEN None
                                                 ELSE w.pending[g]
<1> DEFINE req == w.pending[f]
           v == Upsert(w, f, req.text)
           pnd == [v.pending EXCEPT ![f] = None]
           flight == [uri |-> f, version |-> req.version]
           job == [uri |-> f, version |-> req.version,
                   world |-> World(v, req.entries), phase |-> "running"]
           gone == v.orphaned \ {f}
           js == v.jobs \cup {job}
           u == [v EXCEPT !.pending = pnd, !.inflight = flight,
                          !.orphaned = gone, !.jobs = js]
<1>1. /\ req \in Request
  BY DEF WorkerOK, WorkerRecord
<1>2. req.text \in Texts /\ req.version \in Nat /\ req.entries \in SUBSET Files
  BY <1>1 DEF Request
<1>3. /\ WorkerOK(v) /\ SameLoads(v, w) /\ v.pending = w.pending
      /\ Moves(v, w)
  BY <1>2, UpsertOK, UpsertLeaves, UpsertMoves
<1>4. Start(w, f) = u
  <2>1. Start(w, f) = [v EXCEPT !.pending[f] = None, !.inflight = flight,
                                !.orphaned = @ \ {f}, !.jobs = @ \cup {job}]
    BY DEF Start
  <2> HIDE DEF req, v, flight, job
  <2> QED
    BY <1>3, <2>1 DEF WorkerOK, WorkerRecord
<1>5. flight \in Flight /\ flight # None
  <2>1. flight \in Flight
    BY <1>2 DEF Flight
  <2> QED
    BY <2>1, NoneAssumption
<1>6. job \in Job
  <2>1. World(v, req.entries) \in Worlds
    BY <1>2, <1>3, WorldType
  <2> QED
    BY <1>2, <2>1 DEF Job
<1> HIDE DEF req, v
<1>7. v \in WorkerRecord /\ v.pending \in [Files -> Request \cup {None}]
  BY <1>3 DEF WorkerOK, WorkerRecord
<1>8. \A g \in Files : pnd[g] = IF g = f THEN None ELSE w.pending[g]
  BY <1>3, <1>7
<1> HIDE DEF job, flight, js, pnd, gone
<1>9. /\ SameLoads(u, v) /\ u.pending = pnd /\ u.inflight = flight
      /\ u.jobs = js /\ u.orphaned = gone /\ u.out = v.out
  BY <1>7 DEF WorkerRecord, SameLoads
<1> HIDE DEF u
<1>10. SameLoads(u, w)
  BY <1>3, <1>9 DEF SameLoads
<1> QED
  BY <1>3, <1>4, <1>5, <1>6, <1>8, <1>9, <1>10
     DEF flight, req, v, u, js, gone, job

LEMMA TryDispatchTracks ==
    ASSUME NEW w, NEW rd, NEW q, NEW syncs, Good(w, rd),
           Tracks(w, rd, q, syncs), NEW x \in TryDispatch(w)
    PROVE  Tracks(x, rd, q, syncs) /\ Parks(x)
<1> DEFINE v == Unpark(w)
           c == Cancel(v)
           free == [c EXCEPT !.inflight = None]
           base == IF v.inflight = None THEN v ELSE free
<1>1. /\ Current(x, rd, q, syncs) /\ QueuesRegistered(x)
      /\ ParkedComplete(x) /\ Parks(x)
  BY TryDispatchCurrent DEF Tracks, Parks
<1>2. WorkerOK(v) /\ Moves(v, w) /\ FilesKnown(v) /\ Held(v)
  <2>1. WorkerOK(v) /\ Moves(v, w) /\ FilesKnown(v) /\ StillPending(v, w)
    BY UnparkMoves DEF Tracks
  <2> HIDE DEF v
  <2> QED
    BY <2>1, HeldKept DEF Tracks, Good
<1>3. x \in Dispatch(v)
  BY DEF TryDispatch
<1>4. v.pending = w.pending
  BY UnparkCurrent DEF Tracks
<1> HIDE DEF v
<1>5. /\ WorkerOK(c) /\ SameLoads(c, v) /\ c.pending = v.pending
  BY <1>2, CancelOK, CancelLeaves
<1>6. \/ x = v
      \/ \E f \in Files : v.pending[f] # None /\ x = Start(base, f)
  BY <1>3 DEF Dispatch, Decide
<1> HIDE DEF c
<1>7. /\ WorkerOK(free) /\ FilesKnown(free) /\ free.pending = v.pending
  <2>1. c \in WorkerRecord /\ IsFiniteSet(c.jobs)
    BY <1>5 DEF WorkerOK
  <2>2. /\ free \in WorkerRecord /\ free.jobs = c.jobs
    BY <2>1 DEF WorkerRecord
  <2>3. /\ free.files = c.files /\ free.scripts = c.scripts
        /\ free.pending = c.pending
    BY <2>1 DEF WorkerRecord
  <2> HIDE DEF free
  <2> QED
    BY <1>2, <1>5, <2>1, <2>2, <2>3 DEF SameLoads, FilesKnown, WorkerOK
<1> HIDE DEF free
<1>8. WorkerOK(base) /\ FilesKnown(base) /\ base.pending = v.pending
  BY <1>2, <1>7
<1> HIDE DEF base
<1>9. ASSUME NEW f \in Files, v.pending[f] # None
      PROVE  FilesKnown(Start(base, f)) /\ Held(Start(base, f))
  <2> DEFINE u == Start(base, f)
             job == [uri |-> f, version |-> base.pending[f].version,
                     world |-> World(Upsert(base, f, base.pending[f].text),
                                     base.pending[f].entries),
                     phase |-> "running"]
  <2>1. /\ SameLoads(u, base)
        /\ u.inflight = [uri |-> f, version |-> base.pending[f].version]
        /\ job \in u.jobs
    BY <1>8, <1>9, StartFields
  <2>2. job.uri = f /\ job.version = base.pending[f].version
    OBVIOUS
  <2> HIDE DEF u, job
  <2> QED
    BY <1>8, <2>1, <2>2 DEF SameLoads, FilesKnown, Held, IsFlight, u
<1> QED
  BY <1>1, <1>2, <1>6, <1>9 DEF Tracks

LEMMA EnqueueTracks ==
    ASSUME NEW w, NEW rd, NEW q \in Seq(Request), NEW syncs,
           Good(w, rd), Tracks(w, rd, q, syncs), q # <<>>,
           Agrees(Head(q).uri, Head(q).version, Head(q).text),
           documents \in [Files -> Document \cup {None}], LastVersions,
           lastVersion \in [Files -> Nat]
    PROVE  /\ Tracks(Enqueue(w, Head(q)), rd, Tail(q), syncs)
           /\ Parks(w) => Parks(Enqueue(w, Head(q)))
<1> DEFINE v == Enqueue(w, Head(q))
<1>1. Current(v, rd, Tail(q), syncs) /\ QueuesRegistered(v)
  BY EnqueueCurrent DEF Tracks
<1>2. Head(q) \in Request
  OBVIOUS
<1>3. /\ WorkerOK(v) /\ Moves(v, w) /\ FilesKnown(v)
      /\ StillPending(v, w) /\ v.parked = w.parked
      /\ \A f \in Files :
           v.pending[f] = IF f = Head(q).uri THEN Newest(w.pending[f], Head(q))
                          ELSE w.pending[f]
  BY <1>2, EnqueueMoves DEF Tracks
<1> HIDE DEF v
<1>4. Held(v)
  BY <1>3, HeldKept DEF Tracks, Good
<1>5. ParkedComplete(v)
  BY <1>3 DEF Tracks, ParkedComplete
<1>6. Parks(w) => Parks(v)
  BY <1>3 DEF Parks, Moves
<1> QED
  BY <1>1, <1>3, <1>4, <1>5, <1>6 DEF Tracks, v

LEMMA OnSyncTracks ==
    ASSUME NEW w, NEW rd, NEW syncs, NEW q, q = <<>>,
           NEW f \in Files, NEW late, late = syncs \cup {f}, Good(w, rd),
           Tracks(w, rd, q, late),
           disk \in [Files -> Texts \cup {Unreadable}]
    PROVE  Tracks(OnSync(w, f), rd, q, syncs)
<1> DEFINE v == OnSync(w, f)
<1>1. Current(v, rd, q, syncs) /\ QueuesRegistered(v)
  BY OnSyncCurrent DEF Tracks
<1>2. /\ Moves(v, w) /\ FilesKnown(v) /\ StillPending(v, w)
      /\ v.parked = w.parked
      /\ w.pending[f] # None => f \in v.orphaned
  BY OnSyncMoves DEF Tracks
<1> HIDE DEF v
<1>3. Held(v) /\ ParkedComplete(v)
  BY <1>2, HeldKept DEF Tracks, Good, ParkedComplete
<1> QED
  BY <1>1, <1>2, <1>3 DEF Tracks, v

LEMMA TailTracks ==
    ASSUME NEW w, NEW rd \in Seq(Loaded), NEW q, NEW syncs, rd # <<>>,
           Current(w, rd, q, syncs)
    PROVE  /\ Current(w, Tail(rd), q, syncs)
           /\ ReadsFresh(w, syncs, Head(rd))
           /\ IsNewest(w, Head(rd).job) =>
                IsAwaited(w, Head(rd).job) /\ NoneNewest(w, Tail(rd))
           /\ IsNewest(w, Head(rd).job) =>
                Tail(rd) = <<>> /\ w.load = <<>> /\ loader = None
<1> DEFINE l == Head(rd)
           t == Tail(rd)
<1>1. /\ l = rd[1] /\ 1 \in DOMAIN rd /\ t \in Seq(Loaded)
      /\ \A i \in DOMAIN t : i + 1 \in DOMAIN rd /\ t[i] = rd[i + 1]
  BY HeadAndTail
<1>2. Len(t) = Len(rd) - 1 /\ Len(t) \in Nat /\ Len(rd) \in Nat
      /\ DOMAIN t = 1..Len(t)
  BY HeadTailProperties, LenProperties
<1> HIDE DEF l, t
<1>3. NewestOnce(w, rd) /\ LoadsFresh(w, rd, syncs)
  BY DEF Current
<1>4. NewestOnce(w, t)
  <2>1. \A i \in DOMAIN t : IsNewest(w, t[i].job) =>
          /\ w.load = <<>> /\ loader = None /\ i = Len(t)
          /\ IsAwaited(w, t[i].job)
    BY <1>1, <1>2, <1>3 DEF NewestOnce
  <2>2. w.parked # None /\ IsNewest(w, w.parked.job) =>
          /\ w.load = <<>> /\ loader = None /\ t = <<>>
          /\ IsAwaited(w, w.parked.job)
    BY <1>3 DEF NewestOnce
  <2> QED
    BY <1>3, <2>1, <2>2 DEF NewestOnce
<1>5. LoadsFresh(w, t, syncs)
  BY <1>1, <1>3 DEF LoadsFresh
<1>6. ReadsFresh(w, syncs, l)
  BY <1>1, <1>3 DEF LoadsFresh
<1>7. IsNewest(w, l.job) =>
        /\ t = <<>> /\ w.load = <<>> /\ loader = None
        /\ IsAwaited(w, l.job)
  <2> SUFFICES ASSUME IsNewest(w, l.job)
               PROVE  /\ t = <<>> /\ w.load = <<>> /\ loader = None
                      /\ IsAwaited(w, l.job)
    OBVIOUS
  <2>1. w.load = <<>> /\ loader = None /\ 1 = Len(rd) /\ IsAwaited(w, l.job)
    BY <1>1, <1>3 DEF NewestOnce
  <2>2. Len(t) = 0
    <3>1. Len(rd) = 1
      BY <2>1
    <3>2. Len(t) = Len(rd) - 1
      BY <1>2
    <3> QED
      BY <3>1, <3>2
  <2>3. t = <<>>
    <3>1. t \in Seq(Loaded)
      BY <1>1
    <3> QED
      BY <2>2, <3>1, EmptySeq
  <2> QED
    BY <2>1, <2>3
<1>8. w.parked # None => ~IsNewest(w, w.parked.job)
  BY <1>3 DEF NewestOnce
<1>9. IsNewest(w, l.job) => NoneNewest(w, t)
  BY <1>7, <1>8 DEF NoneNewest
<1> QED
  BY <1>4, <1>5, <1>6, <1>7, <1>9 DEF Current, l, t

(* A result that arrives is installed, or parked behind an analysis.       *)
LEMMA LoadedTracks ==
    ASSUME NEW w, NEW rd \in Seq(Loaded), NEW q, NEW syncs, rd # <<>>,
           Good(w, rd), Tracks(w, rd, q, syncs), Parks(w),
           \A i \in DOMAIN rd : ReadAgrees(rd[i]) /\ ReadsIncludes(rd[i], {})
    PROVE  /\ Tracks(OnScriptsLoaded(w, Head(rd)), Tail(rd), q, syncs)
           /\ Parks(OnScriptsLoaded(w, Head(rd)))
<1> DEFINE l == Head(rd)
           t == Tail(rd)
<1>1. l = rd[1] /\ 1 \in DOMAIN rd /\ l \in Loaded
  BY HeadAndTail
<1>2. /\ Current(w, t, q, syncs) /\ ReadsFresh(w, syncs, l)
      /\ IsNewest(w, l.job) => IsAwaited(w, l.job) /\ NoneNewest(w, t)
      /\ IsNewest(w, l.job) => t = <<>> /\ w.load = <<>> /\ loader = None
  BY TailTracks DEF Tracks
<1> HIDE DEF l, t
<1>3. /\ ReadAgrees(l) /\ ReadsIncludes(l, {}) /\ ReadsEntries(l)
      /\ Numbered(w, l.job)
  BY <1>1 DEF Good, InTransit, LoadsOK
<1>4. CASE w.inflight = None
  <2> DEFINE v == Install(w, l)
  <2>1. /\ Current(v, t, q, syncs)
        /\ v.pending = w.pending /\ v.inflight = w.inflight
        /\ v.scripts.documents = w.scripts.documents
        /\ v.parked = w.parked
    BY <1>1, <1>2, <1>3, InstallCurrent DEF Good
  <2>2. FilesKnown(v) /\ Moves(v, w)
    BY <1>1, <1>3, InstallMoves DEF Good, Tracks
  <2> HIDE DEF v
  <2>3. w.parked = None
    BY <1>4 DEF Parks
  <2>4. QueuesRegistered(v) /\ ParkedComplete(v) /\ Parks(v)
    BY <2>1, <2>3 DEF Tracks, QueuesRegistered, ParkedComplete, Parks
  <2>5. Held(v)
    BY <2>2, HeldKept DEF Tracks, Good
  <2>6. OnScriptsLoaded(w, l) = v
    BY <1>4 DEF OnScriptsLoaded, v
  <2> QED
    BY <2>1, <2>2, <2>4, <2>5, <2>6 DEF Tracks, l, t
<1>5. CASE w.inflight # None
  <2> DEFINE v == [w EXCEPT !.parked = l]
  <2>1. w \in WorkerRecord
    BY DEF Good, WorkerOK
  <2>2. /\ v.scripts = w.scripts /\ v.load = w.load /\ v.parked = l
        /\ v.files = w.files /\ v.jobs = w.jobs
        /\ v.missed = w.missed /\ v.crossed = w.crossed
        /\ v.pending = w.pending /\ v.inflight = w.inflight
        /\ v.tracked = w.tracked
    BY <2>1 DEF WorkerRecord
  <2>3. OnScriptsLoaded(w, l) = v
    BY <1>5 DEF OnScriptsLoaded
  <2> HIDE DEF v
  <2>4. Registers(v, q, syncs)
    BY <1>2, <2>2 DEF Current, Registers
  <2>5. NewestOnce(v, t)
    BY <1>2, <2>2 DEF Current, NewestOnce, IsNewest, IsAwaited
  <2>6. LoadsFresh(v, t, syncs)
    <3>1. \A g, x : Fresh(v, syncs, g, x) <=> Fresh(w, syncs, g, x)
      BY <2>2 DEF Fresh
    <3>2. \A k : ReadsFresh(v, syncs, k) <=> ReadsFresh(w, syncs, k)
      BY <2>2, <3>1 DEF ReadsFresh, IsNewest
    <3> QED
      BY <1>2, <2>2, <3>2 DEF Current, LoadsFresh
  <2>7. InstallsFresh(v, syncs)
    BY <1>2, <2>2 DEF Current, InstallsFresh, Fresh
  <2>8. QueuesRegistered(v) /\ ParkedComplete(v) /\ FilesKnown(v) /\ Parks(v)
    BY <1>3, <1>5, <2>2
       DEF Tracks, QueuesRegistered, ParkedComplete, FilesKnown, Parks
  <2>9. Held(v)
    BY <2>2 DEF Tracks, Held, IsFlight
  <2> QED
    BY <2>3, <2>4, <2>5, <2>6, <2>7, <2>8, <2>9 DEF Current, Tracks, l, t
<1> QED
  BY <1>4, <1>5

(* A record that differs in none of what Tracks reads.                     *)
SameTracks(v, w) ==
    /\ SameLoads(v, w) /\ v.pending = w.pending /\ v.tracked = w.tracked

LEMMA TracksSame ==
    ASSUME NEW w, NEW v, NEW rd, NEW q, NEW syncs, Tracks(w, rd, q, syncs),
           SameTracks(v, w), Held(v)
    PROVE  Tracks(v, rd, q, syncs)
<1>1. /\ v.scripts = w.scripts /\ v.load = w.load /\ v.parked = w.parked
      /\ v.files = w.files /\ v.missed = w.missed /\ v.crossed = w.crossed
      /\ v.pending = w.pending /\ v.tracked = w.tracked
  BY DEF SameTracks, SameLoads
<1>2. Registers(v, q, syncs) /\ NewestOnce(v, rd)
  BY <1>1 DEF Tracks, Current, Registers, NewestOnce, IsNewest, IsAwaited
<1>3. \A g, x : Fresh(v, syncs, g, x) <=> Fresh(w, syncs, g, x)
  BY <1>1 DEF Fresh
<1>4. LoadsFresh(v, rd, syncs)
  BY <1>1, <1>3 DEF Tracks, Current, LoadsFresh, ReadsFresh, IsNewest
<1>5. InstallsFresh(v, syncs)
  BY <1>1, <1>3 DEF Tracks, Current, InstallsFresh
<1> QED
  BY <1>1, <1>2, <1>4, <1>5
     DEF Tracks, Current, QueuesRegistered, ParkedComplete, FilesKnown

(* The package's findings are published anew.                              *)
LEMMA LibraryTracks ==
    ASSUME NEW w, NEW rd, NEW q, NEW syncs, Good(w, rd),
           Tracks(w, rd, q, syncs), NEW found \in Harvests
    PROVE  LET v == PublishGraphDiagnostics([Cancel(w) EXCEPT !.package = found])
           IN Tracks(v, rd, q, syncs) /\ (Parks(w) => Parks(v))
<1> DEFINE c == Cancel(w)
           u == [c EXCEPT !.package = found]
           v == PublishGraphDiagnostics(u)
<1>1. WorkerOK(c) /\ SameTracks(c, w) /\ Moves(c, w) /\ c.inflight = w.inflight
  BY CancelOK, CancelLeaves, CancelMoves DEF SameTracks, Good
<1> HIDE DEF c
<1>2. c \in WorkerRecord /\ IsFiniteSet(c.jobs)
      /\ found \in [Files -> SUBSET PackageFinding]
  BY <1>1, HarvestsAssumption DEF WorkerOK
<1>3. u \in WorkerRecord
  BY <1>2 DEF WorkerRecord
<1>4. /\ SameTracks(u, c) /\ u.jobs = c.jobs /\ u.inflight = c.inflight
  BY <1>2 DEF WorkerRecord, SameTracks, SameLoads
<1> HIDE DEF u
<1>5. WorkerOK(u)
  BY <1>2, <1>3, <1>4 DEF WorkerOK
<1>6. SameTracks(v, u) /\ v.inflight = u.inflight /\ v.jobs = u.jobs
  BY <1>5, PublishLeaves DEF SameTracks
<1> HIDE DEF v
<1>7. SameTracks(v, w)
  BY <1>1, <1>4, <1>6 DEF SameTracks, SameLoads
<1>8. Held(v)
  <2>1. Held(c)
    BY <1>1, HeldKept DEF Tracks, Good
  <2> QED
    BY <1>4, <1>6, <2>1 DEF Held, IsFlight
<1>9. Parks(w) => Parks(v)
  BY <1>1, <1>4, <1>6, <1>7 DEF Parks, SameTracks, SameLoads
<1> QED
  BY <1>7, <1>8, <1>9, TracksSame DEF v, u, c

(* An analysis is done: its job goes, and the slot is free if it was its.  *)
Ended(w, job) ==
    LET b == [w EXCEPT !.jobs = @ \ {job}]
    IN IF b.inflight = [uri |-> job.uri, version |-> job.version]
       THEN [b EXCEPT !.inflight = None] ELSE b

LEMMA EndedTracks ==
    ASSUME NEW w, NEW rd, NEW q, NEW syncs, Good(w, rd),
           Tracks(w, rd, q, syncs), NEW job
    PROVE  Good(Ended(w, job), rd) /\ Tracks(Ended(w, job), rd, q, syncs)
<1> DEFINE js == w.jobs \ {job}
           b == [w EXCEPT !.jobs = js]
           free == [b EXCEPT !.inflight = None]
           mine == b.inflight = [uri |-> job.uri, version |-> job.version]
<1>1. w \in WorkerRecord /\ IsFiniteSet(w.jobs) /\ w.jobs \in SUBSET Job
  BY DEF Good, WorkerOK, WorkerRecord
<1>2. js \in SUBSET Job /\ IsFiniteSet(js)
  BY <1>1, FS_Subset
<1>3. Ended(w, job) = IF mine THEN free ELSE b
  BY DEF Ended
<1> HIDE DEF js
<1>4. b \in WorkerRecord
  BY <1>1, <1>2 DEF WorkerRecord
<1>5. /\ SameTracks(b, w) /\ b.package = w.package
      /\ b.published = w.published /\ b.out = w.out /\ b.jobs = js
      /\ b.inflight = w.inflight
  BY <1>1 DEF WorkerRecord, SameTracks, SameLoads
<1> HIDE DEF b
<1>6. free \in WorkerRecord
  BY <1>4 DEF WorkerRecord
<1>7. /\ SameTracks(free, b) /\ free.package = b.package
      /\ free.published = b.published /\ free.out = b.out /\ free.jobs = js
      /\ free.inflight = None
  BY <1>4, <1>5 DEF WorkerRecord, SameTracks, SameLoads
<1> HIDE DEF free
<1>8. ASSUME NEW v, v \in {b, free} PROVE Good(v, rd) /\ SameTracks(v, w)
  <2>1. WorkerOK(v) /\ SameTracks(v, w) /\ v.package = w.package
        /\ v.published = w.published /\ v.out = w.out
    BY <1>2, <1>4, <1>5, <1>6, <1>7, <1>8 DEF WorkerOK, SameTracks, SameLoads
  <2>2. Keeps(v, w) /\ v.files = w.files
    BY <2>1 DEF Keeps, SameTracks, SameLoads
  <2> QED
    BY <2>1, <2>2, KeepsGood
<1>9. Held(free)
  BY <1>7 DEF Held
<1>10. ~mine => Held(b)
  BY <1>5 DEF Tracks, Held, IsFlight, js
<1> QED
  BY <1>3, <1>8, <1>9, <1>10, TracksSame

-----------------------------------------------------------------------------
(* The invariant of the system, and the step of another thread.            *)

CurrentInv ==
    /\ Tracks(Worker("linting"), ready, analysis_rx, Awaited(arm, sync_rx))
    /\ Parks(Worker("linting"))
    /\ LoadsRead /\ LastVersions

LEMMA CurrentAfter ==
    ASSUME NEW w, w = Worker("linting")', NEW rd, rd = ready',
           NEW q, q = analysis_rx', NEW syncs, syncs = Awaited(arm, sync_rx)',
           Tracks(w, rd, q, syncs)', Parks(w), LoadsRead', LastVersions'
    PROVE  CurrentInv'
<1>1. Registers(Worker("linting"), analysis_rx, Awaited(arm, sync_rx))'
  BY DEF Tracks, Current, Registers, RegistersOpen, ForgetsClosed
<1>2. NewestOnce(Worker("linting"), ready)'
  BY DEF Tracks, Current, NewestOnce, IsNewest, IsAwaited
<1>3. LoadsFresh(Worker("linting"), ready, Awaited(arm, sync_rx))'
  BY DEF Tracks, Current, LoadsFresh, ReadsFresh, Fresh, IsNewest
<1>4. InstallsFresh(Worker("linting"), Awaited(arm, sync_rx))'
  BY DEF Tracks, Current, InstallsFresh, Fresh
<1>5. Held(Worker("linting"))'
  BY DEF Tracks, Held, IsFlight
<1>6. (/\ QueuesRegistered(Worker("linting")) /\ ParkedComplete(Worker("linting"))
       /\ FilesKnown(Worker("linting")) /\ Parks(Worker("linting")))'
  BY DEF Tracks, QueuesRegistered, ParkedComplete, FilesKnown, Parks
<1> QED
  BY <1>1, <1>2, <1>3, <1>4, <1>5, <1>6 DEF CurrentInv, Tracks, Current

LEMMA EnvironmentStep ==
    ASSUME NEW w, WorkerOK(w), NEW v, SameTracks(v, w), NEW rd, NEW q, NEW syncs,
           Tracks(w, rd, q, syncs), UNCHANGED loader, NEW r, NEW late,
           Registers(v, r, late)', Held(v)',
           \A f \in Files : \A x : Fresh(w, syncs, f, x) => Fresh(v, late, f, x)'
    PROVE  Tracks(v, rd, r, late)'
<1>1. /\ v.scripts = w.scripts /\ v.load = w.load /\ v.parked = w.parked
      /\ v.files = w.files /\ v.missed = w.missed /\ v.crossed = w.crossed
      /\ v.pending = w.pending /\ v.tracked = w.tracked
  BY DEF SameTracks, SameLoads
<1>2. NewestOnce(v, rd)'
  BY <1>1 DEF Tracks, Current, NewestOnce, IsNewest, IsAwaited
<1>3. \A l : ReadsFresh(w, syncs, l) => ReadsFresh(v, late, l)'
  BY <1>1 DEF ReadsFresh, IsNewest
<1>4. LoadsFresh(v, rd, late)'
  BY <1>1, <1>3 DEF Tracks, Current, LoadsFresh
<1>5. InstallsFresh(v, late)'
  <2> SUFFICES ASSUME ~w.scripts.loading, w.files # None
               PROVE  /\ \A f \in w.files.readable :
                           f \in Files /\ Fresh(v, late, f, w.tracked[f])'
                      /\ \A f \in w.files.failed :
                           f \in Files /\ Fresh(v, late, f, Unreadable)'
    BY <1>1 DEF Tracks, Current, InstallsFresh
  <2>1. w.files.readable \subseteq Files /\ w.files.failed \subseteq Files
    <3>1. w.files \in ScriptFiles
      BY DEF WorkerOK, WorkerRecord
    <3> QED
      BY <3>1 DEF ScriptFiles
  <2> QED
    BY <2>1 DEF Tracks, Current, InstallsFresh
<1> QED
  BY <1>1, <1>2, <1>4, <1>5
     DEF Tracks, Current, QueuesRegistered, ParkedComplete, FilesKnown

LEMMA Before ==
    ASSUME IndInv, CurrentInv, NEW w, w = Worker("linting"),
           NEW q, q = analysis_rx, NEW syncs, syncs = Awaited(arm, sync_rx)
    PROVE  /\ Good(w, ready) /\ WorkerOK(w) /\ Tracks(w, ready, q, syncs)
           /\ Parks(w)
BY DEF IndInv, LoadInv, CurrentInv, Good

(* A step of the client, the main loop or the read pool.                   *)
LEMMA OutsideStep ==
    ASSUME IndInv, CurrentInv,
           UNCHANGED <<workerVars, load_rx, loader, ready, crossed, missed>>,
           NEW w, w = Worker("linting"), NEW syncs, syncs = Awaited(arm, sync_rx),
           NEW q, q = analysis_rx',
           NEW late, late = Awaited(arm, sync_rx)', Registers(w, q, late)',
           \A f \in Files : \A x : Fresh(w, syncs, f, x) => Fresh(w, late, f, x)',
           Held(Worker("linting"))', LastVersions'
    PROVE  CurrentInv'
<1>1. PICK v : v = Worker("linting")'
  OBVIOUS
<1>2. PICK r : r = analysis_rx
  OBVIOUS
<1>3. PICK rd : rd = ready
  OBVIOUS
<1>4. WorkerOK(w) /\ Tracks(w, rd, r, syncs) /\ Parks(w)
  BY <1>2, <1>3, Before
<1>5. SameTracks(v, w) /\ v.inflight = w.inflight
  BY <1>1 DEF Worker, workerVars, SameTracks, SameLoads
<1>6. /\ v.scripts = w.scripts /\ v.missed = w.missed /\ v.crossed = w.crossed
      /\ v.parked = w.parked
  BY <1>5 DEF SameTracks, SameLoads
<1>7. Registers(v, q, late)'
  BY <1>6 DEF Registers
<1>8. \A f \in Files : \A x : Fresh(w, syncs, f, x) => Fresh(v, late, f, x)'
  BY <1>6 DEF Fresh
<1>9. Held(v)'
  BY <1>1 DEF Held, IsFlight
<1>10. Tracks(v, rd, q, late)'
  BY <1>4, <1>5, <1>7, <1>8, <1>9, EnvironmentStep
<1>11. Parks(v)
  BY <1>4, <1>5, <1>6 DEF Parks
<1>12. LoadsRead'
  BY DEF CurrentInv, LoadsRead
<1> QED
  BY <1>1, <1>3, <1>10, <1>11, <1>12, CurrentAfter

(* The analysis thread's slot is as it was.                                *)
LEMMA SlotKept ==
    ASSUME CurrentInv, UNCHANGED <<inflight, jobs, panicked>>
    PROVE  Held(Worker("linting"))'
BY DEF CurrentInv, Tracks, Held, IsFlight, Worker

LEMMA SameRegisters ==
    ASSUME NEW w, NEW q, NEW syncs, Registers(w, q, syncs),
           UNCHANGED <<documents, entry_points>>
    PROVE  Registers(w, q, syncs)'
BY DEF Registers, RegistersOpen, ForgetsClosed

(* The main loop shows a result; the read pool reports one.                *)
LEMMA QuietStep ==
    ASSUME IndInv, CurrentInv,
           UNCHANGED <<workerVars, load_rx, loader, ready, crossed, missed,
                       documents, entry_points, disk, changedOnDisk,
                       lastVersion, analysis_rx, sync_rx>>,
           Held(Worker("linting"))'
    PROVE  CurrentInv'
<1>1. PICK w : w = Worker("linting")
  OBVIOUS
<1>2. PICK syncs : syncs = Awaited(arm, sync_rx)
  OBVIOUS
<1>3. PICK q : q = analysis_rx
  OBVIOUS
<1>4. Tracks(w, ready, q, syncs)
  BY <1>1, <1>2, <1>3, Before
<1>5. Registers(w, q, syncs)'
  BY <1>4, SameRegisters DEF Tracks, Current
<1>6. syncs = Awaited(arm, sync_rx)' /\ q = analysis_rx'
  BY <1>2, <1>3 DEF workerVars
<1>7. \A f \in Files : \A x : Fresh(w, syncs, f, x) => Fresh(w, syncs, f, x)'
  BY DEF Fresh
<1>8. LastVersions'
  BY DEF CurrentInv, LastVersions
<1> QED
  BY <1>1, <1>2, <1>5, <1>6, <1>7, <1>8, OutsideStep

LEMMA OnResultCurrent ==
    ASSUME IndInv, CurrentInv, OnDiagnostics \/ OnProjectDiagnostics
    PROVE  CurrentInv'
<1>1. UNCHANGED <<fileVars, documents, lastVersion, analysis_rx, sync_rx,
                  load_rx, ready, loader, workerVars, jobs, historyVars>>
  BY DEF OnDiagnostics, OnProjectDiagnostics
<1>2. Held(Worker("linting"))'
  BY <1>1, SlotKept DEF workerVars, historyVars
<1> QED
  BY <1>1, <1>2, QuietStep DEF fileVars, historyVars

LEMMA JobFinishCurrent ==
    ASSUME IndInv, CurrentInv, NEW job \in jobs, JobFinish(job)
    PROVE  CurrentInv'
<1>1. /\ jobs' = (jobs \ {job}) \cup {[job EXCEPT !.phase = "done"]}
      /\ UNCHANGED <<fileVars, mainVars, analysis_rx, sync_rx, load_rx, ready,
                     loader, workerVars, budget, historyVars>>
  BY DEF JobFinish
<1>2. job \in Job
  BY DEF IndInv, TypeOK, WorkerTypes
<1>3. Held(Worker("linting"))'
  <2> SUFFICES ASSUME inflight # None, ~panicked
               PROVE  \E j \in jobs' : inflight = [uri |-> j.uri, version |-> j.version]
    BY <1>1 DEF Held, IsFlight, Worker, workerVars, historyVars
  <2>1. PICK j \in jobs : inflight = [uri |-> j.uri, version |-> j.version]
    BY DEF CurrentInv, Tracks, Held, IsFlight, Worker
  <2>2. CASE j # job
    BY <1>1, <2>1, <2>2
  <2>3. CASE j = job
    <3> DEFINE k == [job EXCEPT !.phase = "done"]
    <3>1. k.uri = job.uri /\ k.version = job.version
      BY <1>2 DEF Job
    <3> HIDE DEF k
    <3>2. k \in jobs'
      BY <1>1 DEF k
    <3> QED
      BY <2>1, <2>3, <3>1, <3>2
  <2> QED
    BY <2>2, <2>3
<1> QED
  BY <1>1, <1>3, QuietStep DEF fileVars, mainVars, historyVars

LEMMA JobPanicCurrent ==
    ASSUME IndInv, CurrentInv, NEW job \in jobs, JobPanic(job)
    PROVE  CurrentInv'
<1>1. /\ panicked' = TRUE
      /\ UNCHANGED <<fileVars, mainVars, analysis_rx, sync_rx, load_rx, ready,
                     out_rx, loader, workerVars, crossed, missed>>
  BY DEF JobPanic
<1>2. Held(Worker("linting"))'
  BY <1>1 DEF Held
<1> QED
  BY <1>1, <1>2, QuietStep DEF fileVars, mainVars

-----------------------------------------------------------------------------
(* Requests join the channel.                                              *)

LEMMA SetToSeqCovers ==
    ASSUME NEW S, IsFiniteSet(S)
    PROVE  /\ \A i, k \in DOMAIN SetToSeq(S) :
                SetToSeq(S)[i] = SetToSeq(S)[k] => i = k
           /\ \A x \in S : \E i \in DOMAIN SetToSeq(S) : SetToSeq(S)[i] = x
<1> DEFINE n == Cardinality(S)
           s == SetToSeq(S)
<1>1. n \in Nat /\ ExistsBijection(1..n, S)
  BY FS_CardinalityType
<1>2. \E f \in [1..n -> S] : IsInjective(f)
  BY <1>1 DEF ExistsBijection, Bijection, Injection, IsInjective
<1>3. s \in [1..n -> S] /\ IsInjective(s)
  BY <1>1, <1>2 DEF SetToSeq
<1>4. s \in Injection(1..n, S)
  BY <1>3 DEF Injection
<1>5. IsFiniteSet(1..n) /\ Cardinality(1..n) = n
  BY <1>1, FS_Interval
<1> HIDE DEF s
<1>6. s \in Surjection(1..n, S)
  BY <1>4, <1>5, FS_Injection
<1>7. \A x \in S : \E i \in 1..n : s[i] = x
  BY <1>6 DEF Surjection
<1> QED
  BY <1>3, <1>7 DEF IsInjective, s

(* q2 is q with more behind it.                                            *)
Joins(q, more, r) ==
    /\ DOMAIN q = 1..Len(q) /\ Len(q) \in Nat
    /\ DOMAIN more = 1..Len(more) /\ Len(more) \in Nat
    /\ DOMAIN r = 1..(Len(q) + Len(more))
    /\ \A i \in DOMAIN q : r[i] = q[i]
    /\ \A i \in DOMAIN more : r[Len(q) + i] = more[i]

LEMMA ConcatJoins ==
    ASSUME NEW T, NEW q \in Seq(T), NEW more \in Seq(T)
    PROVE  Joins(q, more, q \o more)
BY DEF Joins

LEMMA JoinedIndex ==
    ASSUME NEW q, NEW more, NEW r, Joins(q, more, r), NEW i \in DOMAIN r
    PROVE  \/ i \in DOMAIN q /\ r[i] = q[i]
           \/ /\ i \in Nat /\ i - Len(q) \in DOMAIN more
              /\ r[i] = more[i - Len(q)]
              /\ \A k \in DOMAIN q : k < i
<1>1. CASE i <= Len(q)
  BY <1>1 DEF Joins
<1>2. CASE i > Len(q)
  <2> DEFINE k == i - Len(q)
  <2>1. k \in DOMAIN more /\ i = Len(q) + k /\ i \in Nat
    BY <1>2 DEF Joins
  <2>2. \A j \in DOMAIN q : j < i
    BY <1>2 DEF Joins
  <2> HIDE DEF k
  <2>3. r[i] = more[k]
    BY <2>1 DEF Joins
  <2> QED
    BY <2>1, <2>2, <2>3 DEF k
<1> QED
  BY <1>1, <1>2 DEF Joins

LEMMA JoinedOrder ==
    ASSUME NEW q, NEW more, NEW r, Joins(q, more, r), NEW docs, InOrder(docs, q),
           \A k \in DOMAIN more :
             /\ \A i \in DOMAIN q :
                  q[i].uri = more[k].uri => NotNewer(q[i], more[k])
             /\ \A i \in DOMAIN more :
                  i < k /\ more[i].uri = more[k].uri => NotNewer(more[i], more[k])
             /\ docs[more[k].uri] # None => NotNewer(docs[more[k].uri], more[k])
    PROVE  InOrder(docs, r)
<1>1. ASSUME NEW i \in DOMAIN r, NEW k \in DOMAIN r, i < k, r[i].uri = r[k].uri
      PROVE  NotNewer(r[i], r[k])
  <2>1. CASE i \in DOMAIN q /\ k \in DOMAIN q
    BY <1>1, <2>1 DEF InOrder, Joins
  <2>2. CASE i \in DOMAIN q /\ k \notin DOMAIN q
    <3>1. k - Len(q) \in DOMAIN more /\ r[k] = more[k - Len(q)]
      BY <1>1, <2>2, JoinedIndex
    <3>2. r[i] = q[i]
      BY <2>2 DEF Joins
    <3> QED
      BY <1>1, <2>2, <3>1, <3>2
  <2>3. CASE i \notin DOMAIN q
    <3>1. /\ i - Len(q) \in DOMAIN more /\ r[i] = more[i - Len(q)]
          /\ i \in Nat /\ \A j \in DOMAIN q : j < i
      BY <1>1, <2>3, JoinedIndex
    <3>2. k \notin DOMAIN q /\ k \in Nat
      BY <1>1, <3>1 DEF Joins
    <3>3. k - Len(q) \in DOMAIN more /\ r[k] = more[k - Len(q)]
      BY <1>1, <3>2, JoinedIndex
    <3>4. i - Len(q) < k - Len(q)
      BY <1>1, <3>1, <3>2 DEF Joins
    <3> QED
      BY <1>1, <3>1, <3>3, <3>4
  <2> QED
    BY <2>1, <2>2, <2>3
<1>2. ASSUME NEW k \in DOMAIN r, docs[r[k].uri] # None
      PROVE  NotNewer(docs[r[k].uri], r[k])
  <2>1. CASE k \in DOMAIN q
    BY <1>2, <2>1 DEF InOrder, Joins
  <2>2. CASE k \notin DOMAIN q
    <3>1. k - Len(q) \in DOMAIN more /\ r[k] = more[k - Len(q)]
      BY <2>2, JoinedIndex
    <3> QED
      BY <1>2, <3>1
  <2> QED
    BY <2>1, <2>2
<1> QED
  BY <1>1, <1>2 DEF InOrder

LEMMA JoinedLast ==
    ASSUME NEW q, NEW more, NEW r, Joins(q, more, r), NEW f, NEW req,
           NEW i \in DOMAIN more, more[i] = req, req.uri = f,
           \A k \in DOMAIN more : i < k => more[k].uri # f
    PROVE  Requested(r, f) /\ LastFor(r, f, req)
<1> DEFINE j == Len(q) + i
<1>1. j \in DOMAIN r /\ r[j] = req
  BY DEF Joins
<1>2. ASSUME NEW k \in DOMAIN r, j < k PROVE r[k].uri # f
  <2>1. k \notin DOMAIN q
    BY <1>2 DEF Joins
  <2>2. k - Len(q) \in DOMAIN more /\ r[k] = more[k - Len(q)] /\ k \in Nat
    BY <2>1, JoinedIndex
  <2>3. i < k - Len(q)
    BY <1>2, <2>2 DEF Joins
  <2> QED
    BY <2>2, <2>3
<1> QED
  BY <1>1, <1>2 DEF Requested, LastFor

LEMMA JoinedOther ==
    ASSUME NEW q, NEW more, NEW r, Joins(q, more, r), NEW f,
           \A k \in DOMAIN more : more[k].uri # f
    PROVE  /\ Requested(r, f) <=> Requested(q, f)
           /\ \A req : LastFor(q, f, req) => LastFor(r, f, req)
<1>1. \A i \in DOMAIN q : i \in DOMAIN r /\ r[i] = q[i]
  BY DEF Joins
<1>2. \A i \in DOMAIN r : i \notin DOMAIN q => r[i].uri # f
  BY JoinedIndex
<1>3. Requested(r, f) <=> Requested(q, f)
  BY <1>1, <1>2 DEF Requested
<1>4. \A req : LastFor(q, f, req) => LastFor(r, f, req)
  BY <1>1, <1>2 DEF LastFor
<1> QED
  BY <1>3, <1>4

(* What is known of the newest text of each file.                          *)
LEMMA NoneIsNewer ==
    ASSUME IndInv, CurrentInv, NEW f \in Files
    PROVE  /\ \A i \in DOMAIN analysis_rx : analysis_rx[i].uri = f =>
                /\ analysis_rx[i].version \in Nat
                /\ Agrees(f, analysis_rx[i].version, analysis_rx[i].text)
           /\ scripts.documents[f] # None =>
                /\ scripts.documents[f].version \in Nat
                /\ Agrees(f, scripts.documents[f].version,
                          scripts.documents[f].text)
           /\ lastVersion[f] \in Nat
           /\ documents[f] # None => documents[f].version = lastVersion[f]
<1>1. /\ analysis_rx \in Seq(Request) /\ scripts.documents \in Registrations
      /\ lastVersion \in [Files -> Nat]
  BY DEF IndInv, TypeOK, ChannelTypes, WorkerTypes, MainTypes, Scripts
<1>2. \A i \in DOMAIN analysis_rx : analysis_rx[i] \in Request
  BY <1>1
<1>3. \A i \in DOMAIN analysis_rx :
        Agrees(analysis_rx[i].uri, analysis_rx[i].version, analysis_rx[i].text)
  BY DEF IndInv, TextsInv
<1>4. scripts.documents[f] # None =>
        /\ scripts.documents[f] \in Registered
        /\ Agrees(f, scripts.documents[f].version, scripts.documents[f].text)
  <2>1. RegistrationsAgree(Worker("linting").scripts.documents)
    BY DEF IndInv, LoadInv, Good, SpansOK
  <2>2. Worker("linting").scripts = scripts
    BY DEF Worker
  <2>3. RegistrationsAgree(scripts.documents)
    BY <2>1, <2>2
  <2> QED
    BY <1>1, <2>3 DEF RegistrationsAgree, Registrations
<1> QED
  BY <1>1, <1>2, <1>3, <1>4 DEF Request, Registered, CurrentInv, LastVersions

-----------------------------------------------------------------------------
(* The client, and the refresh requests of the main loop.                  *)

LEMMA AppendAwaited ==
    ASSUME NEW s \in Seq(Files), NEW f \in Files, NEW a
    PROVE  Awaited(a, Append(s, f)) = Awaited(a, s) \cup {f}
<1> DEFINE t == Append(s, f)
<1>1. /\ DOMAIN t = 1..(Len(s) + 1) /\ DOMAIN s = 1..Len(s) /\ Len(s) \in Nat
      /\ t[Len(s) + 1] = f /\ \A i \in DOMAIN s : t[i] = s[i]
  OBVIOUS
<1> HIDE DEF t
<1>2. \A i \in DOMAIN t : i \in DOMAIN s \/ i = Len(s) + 1
  BY <1>1
<1>3. ToSet(t) = ToSet(s) \cup {f}
  BY <1>1, <1>2 DEF ToSet
<1> QED
  BY <1>3 DEF Awaited, t

LEMMA SetDocumentCurrent ==
    ASSUME IndInv, CurrentInv, NEW f \in Files, NEW t \in Buffers[f],
           SetDocument(f, t)
    PROVE  CurrentInv'
<1> DEFINE doc == [version |-> lastVersion[f] + 1, text |-> t]
           req == RequestFor(f, doc, entry_points)
           more == <<req>>
<1>1. /\ lastVersion' = [lastVersion EXCEPT ![f] = @ + 1]
      /\ documents' = [documents EXCEPT ![f] = doc]
      /\ analysis_rx' = Append(analysis_rx, req)
      /\ UNCHANGED <<fileVars, graphVars, linted, sync_rx, load_rx, ready,
                     out_rx, loader, workerVars, jobs, historyVars>>
  BY DEF SetDocument
<1>2. /\ lastVersion \in [Files -> Nat] /\ analysis_rx \in Seq(Request)
      /\ documents \in [Files -> Document \cup {None}]
      /\ t \in Texts /\ entry_points \in SUBSET Files
  BY TextsAssumption, EntriesAssumption
     DEF IndInv, TypeOK, MainTypes, ChannelTypes
<1>3. doc \in Document /\ doc.version = lastVersion[f] + 1 /\ doc # None
  <2>1. doc \in Document
    BY <1>2 DEF Document
  <2> QED
    BY <2>1, NoneAssumption
<1>4. /\ req \in Request /\ req.uri = f /\ req.version = lastVersion[f] + 1
      /\ req = RequestFor(f, doc, entry_points)
  BY <1>2, <1>3, RequestForType DEF RequestFor
<1> HIDE DEF doc, req
<1>5. PICK w : w = Worker("linting")
  OBVIOUS
<1>6. PICK q : q = analysis_rx
  OBVIOUS
<1>7. PICK syncs : syncs = Awaited(arm, sync_rx)
  OBVIOUS
<1>8. Tracks(w, ready, q, syncs)
  BY <1>5, <1>6, <1>7, Before
<1>9. PICK r : r = Append(q, req)
  OBVIOUS
<1>10. Joins(q, more, r)
  <2>1. r = q \o more
    BY <1>2, <1>4, <1>6, <1>9
  <2>2. more \in Seq(Request) /\ q \in Seq(Request)
    BY <1>2, <1>4, <1>6
  <2> QED
    BY <2>1, <2>2, ConcatJoins
<1>11. DOMAIN more = {1} /\ more[1] = req
  OBVIOUS
<1> HIDE DEF more
<1>12. w.scripts = scripts
  BY <1>5 DEF Worker
<1>13. InOrder(w.scripts.documents, r)
  <2>1. lastVersion[f] \in Nat /\ req.version = lastVersion[f] + 1
    BY <1>2, <1>4
  <2>2. \A i \in DOMAIN q : q[i].uri = f => NotNewer(q[i], req)
    BY <1>6, <2>1, NoneIsNewer DEF Agrees, NotNewer
  <2>3. w.scripts.documents[f] # None => NotNewer(w.scripts.documents[f], req)
    BY <1>12, <2>1, NoneIsNewer DEF Agrees, NotNewer
  <2>4. InOrder(w.scripts.documents, q)
    BY <1>8 DEF Tracks, Current, Registers
  <2> QED
    BY <1>4, <1>10, <1>11, <2>2, <2>3, <2>4, JoinedOrder
<1>14. \A g \in Files : documents'[g] = IF g = f THEN doc ELSE documents[g]
  BY <1>1, <1>2
<1>15. \A g \in Files : g # f =>
         /\ Requested(r, g) <=> Requested(q, g)
         /\ \A x : LastFor(q, g, x) => LastFor(r, g, x)
  BY <1>4, <1>10, <1>11, JoinedOther
<1>16. entry_points' = entry_points
  BY <1>1 DEF fileVars
<1>17. RegistersOpen(w.scripts.documents, w.crossed, r)'
  <2>1. RegistersOpen(w.scripts.documents, w.crossed, q)
    BY <1>8 DEF Tracks, Current, Registers
  <2>2. Requested(r, f) /\ LastFor(r, f, req)
    BY <1>4, <1>10, <1>11, JoinedLast
  <2>3. RequestFor(f, documents'[f], entry_points') = req
    BY <1>4, <1>14, <1>16
  <2> QED
    BY <1>14, <1>15, <1>16, <2>1, <2>2, <2>3 DEF RegistersOpen
<1>18. ForgetsClosed(w.scripts.documents, r, syncs)'
  <2>1. ForgetsClosed(w.scripts.documents, q, syncs)
    BY <1>8 DEF Tracks, Current, Registers
  <2> QED
    BY <1>3, <1>14, <1>15, <2>1 DEF ForgetsClosed
<1>19. Registers(w, r, syncs)'
  BY <1>8, <1>13, <1>17, <1>18 DEF Tracks, Current, Registers, InOrder
<1>20. \A g \in Files : \A x : Fresh(w, syncs, g, x) => Fresh(w, syncs, g, x)'
  BY <1>1, <1>3, <1>14 DEF Fresh, fileVars
<1>21. LastVersions'
  BY <1>1, <1>2, <1>3, <1>14 DEF CurrentInv, LastVersions
<1>22. Held(Worker("linting"))'
  BY <1>1, SlotKept DEF workerVars, historyVars
<1>23. syncs = Awaited(arm, sync_rx)' /\ r = analysis_rx'
  BY <1>1, <1>6, <1>7, <1>9 DEF workerVars
<1> QED
  BY <1>1, <1>5, <1>7, <1>19, <1>20, <1>21, <1>22, <1>23, OutsideStep
     DEF historyVars

LEMMA DidCloseCurrent ==
    ASSUME IndInv, CurrentInv, NEW f \in Files, DidClose(f)
    PROVE  CurrentInv'
<1>1. /\ documents' = [documents EXCEPT ![f] = None]
      /\ sync_rx' = Append(sync_rx, f)
      /\ UNCHANGED <<fileVars, lastVersion, analysis_rx, load_rx, ready,
                     out_rx, loader, workerVars, jobs, historyVars>>
  BY DEF DidClose
<1>2. /\ documents \in [Files -> Document \cup {None}]
      /\ sync_rx \in Seq(Files)
  BY DEF IndInv, TypeOK, MainTypes, ChannelTypes
<1>3. \A g \in Files : documents'[g] = IF g = f THEN None ELSE documents[g]
  BY <1>1, <1>2
<1>4. PICK w : w = Worker("linting")
  OBVIOUS
<1>5. PICK q : q = analysis_rx
  OBVIOUS
<1>6. PICK syncs : syncs = Awaited(arm, sync_rx)
  OBVIOUS
<1>7. PICK late : late = syncs \cup {f}
  OBVIOUS
<1>8. Tracks(w, ready, q, syncs)
  BY <1>4, <1>5, <1>6, Before
<1>9. Registers(w, q, late)'
  BY <1>1, <1>3, <1>7, <1>8
     DEF Tracks, Current, Registers, RegistersOpen, ForgetsClosed, fileVars
<1>10. \A g \in Files : \A x : Fresh(w, syncs, g, x) => Fresh(w, late, g, x)'
  BY <1>1, <1>3, <1>7 DEF Fresh, fileVars
<1>11. LastVersions'
  BY <1>1, <1>3 DEF CurrentInv, LastVersions
<1>12. Held(Worker("linting"))'
  BY <1>1, SlotKept DEF workerVars, historyVars
<1>13. late = Awaited(arm, sync_rx)' /\ q = analysis_rx'
  BY <1>1, <1>2, <1>5, <1>6, <1>7, AppendAwaited DEF workerVars
<1> QED
  BY <1>1, <1>4, <1>6, <1>9, <1>10, <1>11, <1>12, <1>13, OutsideStep
     DEF historyVars

LEMMA RewriteCurrent ==
    ASSUME IndInv, CurrentInv, NEW f \in Files, NEW t \in Written, Rewrite(f, t)
    PROVE  CurrentInv'
<1>1. /\ disk' = [disk EXCEPT ![f] = t]
      /\ changedOnDisk' = changedOnDisk \cup {f}
      /\ UNCHANGED <<entry_points, mainVars, analysis_rx, sync_rx, load_rx,
                     ready, out_rx, loader, workerVars, jobs, historyVars>>
  BY DEF Rewrite
<1>2. disk \in [Files -> Texts \cup {Unreadable}]
  BY DEF IndInv, TypeOK, MainTypes
<1>3. PICK w : w = Worker("linting")
  OBVIOUS
<1>4. PICK q : q = analysis_rx
  OBVIOUS
<1>5. PICK syncs : syncs = Awaited(arm, sync_rx)
  OBVIOUS
<1>6. Tracks(w, ready, q, syncs)
  BY <1>3, <1>4, <1>5, Before
<1>7. UNCHANGED <<documents, entry_points, lastVersion>>
  BY <1>1 DEF mainVars
<1>8. Registers(w, q, syncs)'
  BY <1>6, <1>7, SameRegisters DEF Tracks, Current
<1>9. \A g \in Files : g # f => disk'[g] = disk[g]
  BY <1>1, <1>2
<1>10. \A g \in Files : \A x : Fresh(w, syncs, g, x) => Fresh(w, syncs, g, x)'
  BY <1>1, <1>7, <1>9 DEF Fresh
<1>11. LastVersions'
  BY <1>7 DEF CurrentInv, LastVersions
<1>12. Held(Worker("linting"))'
  BY <1>1, SlotKept DEF workerVars, historyVars
<1>13. syncs = Awaited(arm, sync_rx)' /\ q = analysis_rx'
  BY <1>1, <1>4, <1>5 DEF workerVars
<1> QED
  BY <1>1, <1>3, <1>5, <1>8, <1>10, <1>11, <1>12, <1>13, OutsideStep
     DEF historyVars

(* Each open buffer is requested once.                                     *)
LEMMA RefreshFacts ==
    ASSUME IndInv, NEW entries \in SUBSET Files
    PROVE  LET more == RefreshOpen(entries)
           IN /\ more \in Seq(Request)
              /\ \A k \in DOMAIN more :
                   /\ more[k].uri \in Files /\ documents[more[k].uri] # None
                   /\ more[k] = RequestFor(more[k].uri, documents[more[k].uri],
                                           entries)
              /\ \A i, k \in DOMAIN more : more[i].uri = more[k].uri => i = k
              /\ \A f \in OpenDocs : \E k \in DOMAIN more : more[k].uri = f
<1> DEFINE order == SetToSeq(OpenDocs)
           n == Cardinality(OpenDocs)
           more == [i \in DOMAIN order |->
                      RequestFor(order[i], documents[order[i]], entries)]
<1>1. OpenDocs \in SUBSET Files /\ \A f \in OpenDocs : documents[f] # None
  BY DEF OpenDocs
<1>2. n \in Nat /\ order \in [1..n -> OpenDocs] /\ DOMAIN order = 1..n
  BY <1>1, FilesFinite, SetToSeqLists
<1>3. /\ \A i, k \in DOMAIN order : order[i] = order[k] => i = k
      /\ \A f \in OpenDocs : \E i \in DOMAIN order : order[i] = f
  BY <1>1, FilesFinite, SetToSeqCovers
<1>4. RefreshOpen(entries) = more
  BY DEF RefreshOpen
<1>5. more \in Seq(Request)
  BY <1>4, RefreshOpenAgrees DEF IndInv
<1> HIDE DEF order
<1>6. DOMAIN more = DOMAIN order
      /\ \A i \in DOMAIN order :
           more[i] = RequestFor(order[i], documents[order[i]], entries)
  OBVIOUS
<1> HIDE DEF more
<1>7. \A i \in DOMAIN order : more[i].uri = order[i]
  BY <1>6 DEF RequestFor
<1>8. \A i \in DOMAIN order : order[i] \in OpenDocs
  BY <1>2
<1> QED
  BY <1>1, <1>3, <1>4, <1>5, <1>6, <1>7, <1>8

LEMMA RefreshRegisters ==
    ASSUME IndInv, CurrentInv, NEW entries \in SUBSET Files,
           NEW w, w = Worker("linting"), NEW q, q = analysis_rx,
           NEW syncs, syncs = Awaited(arm, sync_rx),
           NEW r, r = q \o RefreshOpen(entries),
           UNCHANGED documents, entry_points' = entries
    PROVE  Registers(w, r, syncs)'
<1> DEFINE more == RefreshOpen(entries)
<1>1. q \in Seq(Request) /\ more \in Seq(Request)
  BY RefreshFacts, ChannelFacts
<1>2. /\ \A k \in DOMAIN more :
           /\ more[k].uri \in Files /\ documents[more[k].uri] # None
           /\ more[k] = RequestFor(more[k].uri, documents[more[k].uri], entries)
      /\ \A i, k \in DOMAIN more : more[i].uri = more[k].uri => i = k
      /\ \A f \in OpenDocs : \E k \in DOMAIN more : more[k].uri = f
  BY RefreshFacts
<1>3. r = q \o more
  OBVIOUS
<1> HIDE DEF more
<1>4. Joins(q, more, r)
  BY <1>1, <1>3, ConcatJoins
<1>5. Tracks(w, ready, q, syncs)
  BY Before
<1>6. w.scripts = scripts
  BY DEF Worker
<1>7. \A k \in DOMAIN more :
        /\ more[k].version = documents[more[k].uri].version
        /\ more[k].text = documents[more[k].uri].text
  BY <1>2 DEF RequestFor
<1>8. InOrder(w.scripts.documents, r)
  <2>1. ASSUME NEW k \in DOMAIN more
        PROVE  /\ \A i \in DOMAIN q :
                    q[i].uri = more[k].uri => NotNewer(q[i], more[k])
               /\ \A i \in DOMAIN more :
                    i < k /\ more[i].uri = more[k].uri =>
                      NotNewer(more[i], more[k])
               /\ w.scripts.documents[more[k].uri] # None =>
                    NotNewer(w.scripts.documents[more[k].uri], more[k])
    <3>1. PICK f \in Files : f = more[k].uri
      BY <1>2, <2>1
    <3>2. /\ documents[f] # None /\ more[k].version = documents[f].version
          /\ more[k].text = documents[f].text
      BY <1>2, <1>7, <2>1, <3>1
    <3>3. /\ documents[f].version = lastVersion[f] /\ lastVersion[f] \in Nat
      BY <3>2, NoneIsNewer
    <3>4. \A v \in Nat : \A t : Agrees(f, v, t) =>
            \/ v < more[k].version
            \/ v = more[k].version /\ t = more[k].text
      BY <3>2, <3>3 DEF Agrees
    <3>5. \A i \in DOMAIN q : q[i].uri = f => NotNewer(q[i], more[k])
      BY <3>4, NoneIsNewer DEF NotNewer
    <3>6. w.scripts.documents[f] # None =>
            NotNewer(w.scripts.documents[f], more[k])
      BY <1>6, <3>4, NoneIsNewer DEF NotNewer
    <3>7. ASSUME NEW i \in DOMAIN more, i < k, more[i].uri = more[k].uri
          PROVE  FALSE
      <4>1. k \in Nat /\ i = k
        BY <1>1, <1>2, <2>1, <3>7
      <4> QED
        BY <3>7, <4>1
    <3> QED
      BY <3>1, <3>5, <3>6, <3>7
  <2>2. InOrder(w.scripts.documents, q)
    BY <1>5 DEF Tracks, Current, Registers
  <2> QED
    BY <1>4, <2>1, <2>2, JoinedOrder
<1>9. ASSUME NEW f \in Files, documents[f] # None
      PROVE  Requested(r, f) /\ LastFor(r, f, RequestFor(f, documents[f], entries))
  <2>1. PICK k \in DOMAIN more : more[k].uri = f
    BY <1>2, <1>9 DEF OpenDocs
  <2>2. more[k] = RequestFor(f, documents[f], entries)
    BY <1>2, <2>1
  <2>3. \A i \in DOMAIN more : k < i => more[i].uri # f
    <3> SUFFICES ASSUME NEW i \in DOMAIN more, k < i, more[i].uri = f
                 PROVE  FALSE
      OBVIOUS
    <3>1. i = k /\ k \in Nat
      BY <1>1, <1>2, <2>1
    <3> QED
      BY <3>1
  <2>4. PICK req : req = RequestFor(f, documents[f], entries)
    OBVIOUS
  <2>5. req.uri = f
    BY <2>4 DEF RequestFor
  <2> QED
    BY <1>4, <2>1, <2>2, <2>3, <2>4, <2>5, JoinedLast
<1>10. RegistersOpen(w.scripts.documents, w.crossed, r)'
  BY <1>9 DEF RegistersOpen
<1>11. ForgetsClosed(w.scripts.documents, r, syncs)'
  <2>1. ForgetsClosed(w.scripts.documents, q, syncs)
    BY <1>5 DEF Tracks, Current, Registers
  <2>2. ASSUME NEW f \in Files, documents[f] = None
        PROVE  Requested(r, f) <=> Requested(q, f)
    <3>1. \A k \in DOMAIN more : more[k].uri # f
      BY <1>2, <2>2
    <3> QED
      BY <1>4, <3>1, JoinedOther
  <2> QED
    BY <2>1, <2>2 DEF ForgetsClosed
<1> QED
  BY <1>5, <1>8, <1>10, <1>11 DEF Tracks, Current, Registers, InOrder

LEMMA RefreshCurrent ==
    ASSUME IndInv, CurrentInv, NEW entries \in SUBSET Files,
           analysis_rx' = analysis_rx \o RefreshOpen(entries),
           entry_points' = entries,
           UNCHANGED <<disk, changedOnDisk, documents, lastVersion, sync_rx,
                       load_rx, ready, loader, workerVars, jobs, historyVars>>
    PROVE  CurrentInv'
<1>1. PICK w : w = Worker("linting")
  OBVIOUS
<1>2. PICK q : q = analysis_rx
  OBVIOUS
<1>3. PICK syncs : syncs = Awaited(arm, sync_rx)
  OBVIOUS
<1>4. PICK r : r = q \o RefreshOpen(entries)
  OBVIOUS
<1>5. Registers(w, r, syncs)'
  BY <1>1, <1>2, <1>3, <1>4, RefreshRegisters
<1>6. \A g \in Files : \A x : Fresh(w, syncs, g, x) => Fresh(w, syncs, g, x)'
  BY DEF Fresh
<1>7. LastVersions'
  BY DEF CurrentInv, LastVersions
<1>8. Held(Worker("linting"))'
  BY SlotKept DEF workerVars, historyVars
<1>9. syncs = Awaited(arm, sync_rx)' /\ r = analysis_rx'
  BY <1>2, <1>3, <1>4 DEF workerVars
<1> QED
  BY <1>1, <1>3, <1>5, <1>6, <1>7, <1>8, <1>9, OutsideStep DEF historyVars

LEMMA DidChangeConfigurationCurrent ==
    ASSUME IndInv, CurrentInv, NEW entries \in EntryPoints,
           DidChangeConfiguration(entries)
    PROVE  CurrentInv'
BY EntriesAssumption, RefreshCurrent DEF DidChangeConfiguration, mainVars

LEMMA DidChangeWatchedFilesCurrent ==
    ASSUME IndInv, CurrentInv, NEW f \in Files, NEW reshapes \in BOOLEAN,
           DidChangeWatchedFiles(f, reshapes)
    PROVE  CurrentInv'
<1>1. /\ changedOnDisk' = changedOnDisk \ {f}
      /\ sync_rx' = IF documents[f] = None THEN Append(sync_rx, f) ELSE sync_rx
      /\ UNCHANGED <<disk, entry_points, mainVars, load_rx, ready,
                     out_rx, loader, workerVars, jobs, budget, historyVars>>
  BY DEF DidChangeWatchedFiles
<1>2. sync_rx \in Seq(Files) /\ entry_points \in SUBSET Files
  BY EntriesAssumption DEF IndInv, TypeOK, ChannelTypes, MainTypes
<1>3. PICK w : w = Worker("linting")
  OBVIOUS
<1>4. PICK q : q = analysis_rx
  OBVIOUS
<1>5. PICK syncs : syncs = Awaited(arm, sync_rx)
  OBVIOUS
<1>6. PICK late : late = IF documents[f] = None THEN syncs \cup {f} ELSE syncs
  OBVIOUS
<1>7. PICK r : r = analysis_rx'
  OBVIOUS
<1>8. UNCHANGED <<documents, entry_points, lastVersion>>
  BY <1>1 DEF mainVars
<1>9. Registers(w, r, syncs)'
  <2>1. CASE reshapes
    <3>1. r = q \o RefreshOpen(entry_points)
      BY <1>4, <1>7, <2>1 DEF DidChangeWatchedFiles
    <3> QED
      BY <1>2, <1>3, <1>4, <1>5, <1>8, <3>1, RefreshRegisters
  <2>2. CASE ~reshapes
    <3>1. r = q
      BY <1>4, <1>7, <2>2 DEF DidChangeWatchedFiles
    <3>2. Tracks(w, ready, q, syncs)
      BY <1>3, <1>4, <1>5, Before
    <3> QED
      BY <1>8, <3>1, <3>2, SameRegisters DEF Tracks, Current
  <2> QED
    BY <2>1, <2>2
<1>10. Registers(w, r, late)'
  BY <1>6, <1>8, <1>9 DEF Registers, RegistersOpen, ForgetsClosed
<1>11. \A g \in Files : \A x : Fresh(w, syncs, g, x) => Fresh(w, late, g, x)'
  BY <1>1, <1>6, <1>8 DEF Fresh
<1>12. LastVersions'
  BY <1>8 DEF CurrentInv, LastVersions
<1>13. Held(Worker("linting"))'
  BY <1>1, SlotKept DEF workerVars, historyVars
<1>14. late = Awaited(arm, sync_rx)'
  <2>1. arm' = arm
    BY <1>1 DEF workerVars
  <2> QED
    BY <1>1, <1>2, <1>5, <1>6, <2>1, AppendAwaited
<1> QED
  BY <1>1, <1>3, <1>5, <1>7, <1>10, <1>11, <1>12, <1>13, <1>14, OutsideStep
     DEF historyVars

LEMMA OnDiagnosticsRefreshCurrent ==
    ASSUME IndInv, CurrentInv, OnDiagnosticsRefresh
    PROVE  CurrentInv'
<1>1. entry_points \in SUBSET Files
  BY EntriesAssumption DEF IndInv, TypeOK, MainTypes
<1> QED
  BY <1>1, RefreshCurrent DEF OnDiagnosticsRefresh, mainVars, fileVars

-----------------------------------------------------------------------------
(* The loader.                                                             *)

LEMMA LoaderStep ==
    ASSUME IndInv, CurrentInv, NEW w, w = Worker("linting"),
           NEW syncs, syncs = Awaited(arm, sync_rx),
           UNCHANGED othersUnchanged, panicked' \/ panicked' = panicked,
           load_rx' \in {load_rx, <<>>},
           NEW rd \in Seq(Loaded), rd = ready',
           NEW l, l = loader',
           l # None => /\ ReadsFresh(w, syncs, l)
                       /\ ReadsIncludes(l, l.todo)
                       /\ IsNewest(w, l.job) =>
                            load_rx' = <<>> /\ IsAwaited(w, l.job),
           \A i \in DOMAIN rd :
             /\ ReadsFresh(w, syncs, rd[i]) /\ ReadsIncludes(rd[i], {})
             /\ IsNewest(w, rd[i].job) =>
                  /\ load_rx' = <<>> /\ l = None /\ i = Len(rd)
                  /\ IsAwaited(w, rd[i].job),
           w.parked # None /\ IsNewest(w, w.parked.job) =>
             load_rx' = <<>> /\ l = None /\ rd = <<>>
    PROVE  CurrentInv'
<1>1. PICK v : v = Worker("linting")'
  OBVIOUS
<1>2. PICK q : q = analysis_rx
  OBVIOUS
<1>3. Tracks(w, ready, q, syncs) /\ Parks(w)
  BY <1>2, Before
<1>4. /\ v.scripts = w.scripts /\ v.parked = w.parked /\ v.files = w.files
      /\ v.missed = w.missed /\ v.crossed = w.crossed /\ v.pending = w.pending
      /\ v.tracked = w.tracked /\ v.inflight = w.inflight /\ v.jobs = w.jobs
      /\ v.load = load_rx' /\ w.load = load_rx
  BY <1>1 DEF Worker, othersUnchanged, workerVars
<1>5. UNCHANGED <<documents, entry_points, disk, changedOnDisk, lastVersion>>
  BY DEF othersUnchanged, mainVars, fileVars
<1>6. Registers(v, q, syncs)'
  <2>1. Registers(w, q, syncs)'
    BY <1>3, <1>5, SameRegisters DEF Tracks, Current
  <2> QED
    BY <1>4, <2>1 DEF Registers
<1>7. NewestOnce(v, rd)'
  <2>1. NewestOnce(w, ready)
    BY <1>3 DEF Tracks, Current
  <2>2. \A job : /\ IsNewest(v, job) <=> IsNewest(w, job)
                 /\ IsAwaited(v, job) <=> IsAwaited(w, job)
    BY <1>4 DEF IsNewest, IsAwaited
  <2>3. \A i \in DOMAIN v.load : IsNewest(v, v.load[i]) =>
          i = Len(v.load) /\ IsAwaited(v, v.load[i])
    <3>1. CASE load_rx' = load_rx
      BY <1>4, <2>1, <2>2, <3>1 DEF NewestOnce
    <3>2. CASE load_rx' = <<>>
      BY <1>4, <3>2
    <3> QED
      BY <3>1, <3>2
  <2>4. w.parked # None /\ IsNewest(w, w.parked.job) => IsAwaited(w, w.parked.job)
    BY <2>1 DEF NewestOnce
  <2>5. loader' # None /\ IsNewest(v, loader'.job) =>
          v.load = <<>> /\ IsAwaited(v, loader'.job)
    BY <1>4, <2>2
  <2>6. \A i \in DOMAIN rd : IsNewest(v, rd[i].job) =>
          /\ v.load = <<>> /\ loader' = None /\ i = Len(rd)
          /\ IsAwaited(v, rd[i].job)
    BY <1>4, <2>2
  <2>7. v.parked # None /\ IsNewest(v, v.parked.job) =>
          /\ v.load = <<>> /\ loader' = None /\ rd = <<>>
          /\ IsAwaited(v, v.parked.job)
    BY <1>4, <2>2, <2>4
  <2> QED
    BY <2>3, <2>5, <2>6, <2>7 DEF NewestOnce
<1>8. \A g, x : Fresh(v, syncs, g, x)' <=> Fresh(w, syncs, g, x)
  BY <1>4, <1>5 DEF Fresh
<1>9. \A k : ReadsFresh(w, syncs, k) <=> ReadsFresh(v, syncs, k)'
  BY <1>4, <1>8 DEF ReadsFresh, IsNewest
<1>10. LoadsFresh(v, rd, syncs)'
  <2>1. w.parked # None => ReadsFresh(w, syncs, w.parked)
    BY <1>3 DEF Tracks, Current, LoadsFresh
  <2>2. l # None => ReadsFresh(v, syncs, l)'
    BY <1>9
  <2>3. (loader # None => ReadsFresh(v, syncs, loader))'
    BY <2>2 DEF ReadsFresh
  <2>4. \A i \in DOMAIN rd : ReadsFresh(v, syncs, rd[i])'
    BY <1>9
  <2>5. v.parked # None => ReadsFresh(v, syncs, v.parked)'
    BY <1>4, <1>9, <2>1
  <2> QED
    BY <2>3, <2>4, <2>5 DEF LoadsFresh
<1>11. InstallsFresh(v, syncs)'
  BY <1>3, <1>4, <1>8 DEF Tracks, Current, InstallsFresh
<1>12. Held(v)'
  BY <1>3, <1>4 DEF Tracks, Held, IsFlight
<1>13. Tracks(v, rd, q, syncs)' /\ Parks(v)
  BY <1>3, <1>4, <1>6, <1>7, <1>10, <1>11, <1>12
     DEF Tracks, Current, QueuesRegistered, ParkedComplete, FilesKnown, Parks
<1>14. LoadsRead'
  BY DEF LoadsRead
<1>15. LastVersions'
  BY <1>5 DEF CurrentInv, LastVersions
<1>16. syncs = Awaited(arm, sync_rx)' /\ q = analysis_rx'
  BY <1>2 DEF othersUnchanged, workerVars
<1> QED
  BY <1>1, <1>13, <1>14, <1>15, <1>16, CurrentAfter

LEMMA LoaderPanicsCurrent ==
    ASSUME IndInv, CurrentInv, LoaderPanics
    PROVE  CurrentInv'
<1>1. /\ panicked' = TRUE /\ loader' = None
      /\ UNCHANGED <<fileVars, mainVars, analysis_rx, sync_rx, load_rx, ready,
                     out_rx, workerVars, jobs, orphaned, crossed, missed>>
  BY DEF LoaderPanics
<1>2. PICK w : w = Worker("linting")
  OBVIOUS
<1>3. PICK syncs : syncs = Awaited(arm, sync_rx)
  OBVIOUS
<1>4. PICK rd : rd = ready
  OBVIOUS
<1>5. Current(w, rd, analysis_rx, syncs)
  BY <1>2, <1>3, <1>4, Before DEF Tracks
<1>6. w.load = load_rx
  BY <1>2 DEF Worker
<1>7. \A i \in DOMAIN rd :
        /\ ReadsFresh(w, syncs, rd[i]) /\ ReadsIncludes(rd[i], {})
        /\ IsNewest(w, rd[i].job) =>
             load_rx = <<>> /\ i = Len(rd) /\ IsAwaited(w, rd[i].job)
  BY <1>4, <1>5, <1>6
     DEF Current, NewestOnce, LoadsFresh, CurrentInv, LoadsRead
<1>8. w.parked # None /\ IsNewest(w, w.parked.job) => load_rx = <<>> /\ rd = <<>>
  BY <1>5, <1>6 DEF Current, NewestOnce
<1>9. rd \in Seq(Loaded) /\ rd = ready'
  BY <1>1, <1>4, ChannelFacts
<1>10. PICK l : l = loader' /\ l = None
  BY <1>1
<1>11. UNCHANGED othersUnchanged /\ load_rx' \in {load_rx, <<>>}
  BY <1>1 DEF othersUnchanged
<1> QED
  BY <1>1, <1>2, <1>3, <1>7, <1>8, <1>9, <1>10, <1>11, LoaderStep

LEMMA LoaderGoesOnCurrent ==
    ASSUME IndInv, CurrentInv, NEW w, w = Worker("linting"),
           NEW syncs, syncs = Awaited(arm, sync_rx),
           NEW job \in Load, NEW sources \in Sources, NEW todo \in SUBSET Files,
           LoaderGoesOn(job, sources, todo),
           UNCHANGED othersUnchanged, UNCHANGED panicked,
           load_rx' \in {load_rx, <<>>},
           \A i \in DOMAIN ready : ~IsNewest(w, ready[i].job),
           w.parked # None => ~IsNewest(w, w.parked.job),
           IsNewest(w, job) =>
             /\ load_rx' = <<>> /\ IsAwaited(w, job)
             /\ \A f \in Files : sources[f] # None =>
                  Fresh(w, syncs, f, sources[f]),
           \A f \in Files : sources[f] \in Texts =>
             \A g \in IncludesOf[sources[f]] : sources[g] # None \/ g \in todo
    PROVE  CurrentInv'
<1> DEFINE going == [job |-> job, sources |-> sources, todo |-> todo]
           done == [job |-> job, sources |-> sources]
<1>1. PICK rd : rd = ready
  OBVIOUS
<1>2. /\ rd \in Seq(Loaded)
      /\ \A i \in DOMAIN rd : ReadsFresh(w, syncs, rd[i]) /\ ReadsIncludes(rd[i], {})
  <2>1. Tracks(w, ready, analysis_rx, syncs)
    BY Before
  <2>2. LoadsFresh(w, ready, syncs)
    BY <2>1 DEF Tracks, Current
  <2> QED
    BY <1>1, <2>2, ChannelFacts DEF LoadsFresh, CurrentInv, LoadsRead
<1>3. /\ going \in Reading /\ going # None /\ going.job = job
      /\ ReadsFresh(w, syncs, going) /\ ReadsIncludes(going, going.todo)
  <2>1. going \in Reading
    BY DEF Reading
  <2>2. /\ going.job = job /\ going.sources = sources /\ going.todo = todo
    OBVIOUS
  <2> HIDE DEF going
  <2> QED
    BY <2>1, <2>2, NoneAssumption DEF ReadsFresh, ReadsIncludes
<1>4. /\ done \in Loaded /\ done.job = job /\ ReadsFresh(w, syncs, done)
      /\ todo = {} => ReadsIncludes(done, {})
  <2>1. done \in Loaded
    BY DEF Loaded
  <2>2. done.job = job /\ done.sources = sources
    OBVIOUS
  <2> HIDE DEF done
  <2> QED
    BY <2>1, <2>2 DEF ReadsFresh, ReadsIncludes
<1>5. CASE todo # {}
  <2>1. loader' = going /\ ready' = ready
    BY <1>5 DEF LoaderGoesOn
  <2> HIDE DEF going
  <2>2. rd = ready' /\ \A i \in DOMAIN rd : ~IsNewest(w, rd[i].job)
    BY <1>1, <2>1
  <2> QED
    BY <1>2, <1>3, <2>1, <2>2, LoaderStep
<1>6. CASE todo = {}
  <2>1. loader' = None /\ ready' = Append(ready, done)
    BY <1>6 DEF LoaderGoesOn
  <2> HIDE DEF done
  <2>2. PICK r : r = Append(rd, done)
    OBVIOUS
  <2>3. /\ r \in Seq(Loaded) /\ r = ready' /\ Len(r) = Len(rd) + 1
        /\ r[Len(r)] = done
        /\ \A i \in DOMAIN r : (i \in DOMAIN rd /\ r[i] = rd[i]) \/ i = Len(r)
    BY <1>1, <1>2, <1>4, <2>1, <2>2
  <2>4. \A i \in DOMAIN r : /\ ReadsFresh(w, syncs, r[i])
                            /\ ReadsIncludes(r[i], {})
                            /\ IsNewest(w, r[i].job) =>
                                 /\ load_rx' = <<>> /\ i = Len(r)
                                 /\ IsAwaited(w, r[i].job)
    <3> SUFFICES ASSUME NEW i \in DOMAIN r
                 PROVE  /\ ReadsFresh(w, syncs, r[i])
                        /\ ReadsIncludes(r[i], {})
                        /\ IsNewest(w, r[i].job) =>
                             /\ load_rx' = <<>> /\ i = Len(r)
                             /\ IsAwaited(w, r[i].job)
      OBVIOUS
    <3>1. CASE i \in DOMAIN rd /\ r[i] = rd[i]
      BY <1>1, <1>2, <3>1
    <3>2. CASE i = Len(r)
      BY <1>4, <1>6, <2>3, <3>2
    <3> QED
      BY <2>3, <3>1, <3>2
  <2>5. PICK l : l = loader' /\ l = None
    BY <2>1
  <2> QED
    BY <2>3, <2>4, <2>5, LoaderStep
<1> QED
  BY <1>5, <1>6

LEMMA LoaderTakesNewestCurrent ==
    ASSUME IndInv, CurrentInv, LoaderTakesNewest
    PROVE  CurrentInv'
<1> DEFINE job == load_rx[Len(load_rx)]
<1>1. /\ loader = None /\ load_rx # <<>> /\ load_rx' = <<>>
      /\ LoaderGoesOn(job, NoSources, job.entries)
      /\ UNCHANGED <<fileVars, mainVars, analysis_rx, sync_rx, out_rx,
                     workerVars, jobs, budget, historyVars>>
  BY DEF LoaderTakesNewest
<1>2. load_rx \in Seq(Load)
  BY DEF IndInv, TypeOK, WorkerTypes
<1>3. Len(load_rx) \in DOMAIN load_rx /\ job \in Load
  BY <1>1, <1>2
<1>4. PICK w : w = Worker("linting")
  OBVIOUS
<1>5. PICK syncs : syncs = Awaited(arm, sync_rx)
  OBVIOUS
<1>6. w.load = load_rx
  BY <1>4 DEF Worker
<1>7. NewestOnce(w, ready)
  <2>1. Tracks(w, ready, analysis_rx, syncs)
    BY <1>4, <1>5, Before
  <2> QED
    BY <2>1 DEF Tracks, Current
<1>8. /\ \A i \in DOMAIN ready : ~IsNewest(w, ready[i].job)
      /\ w.parked # None => ~IsNewest(w, w.parked.job)
      /\ IsNewest(w, job) => IsAwaited(w, job)
  BY <1>1, <1>3, <1>6, <1>7 DEF NewestOnce
<1>9. UNCHANGED othersUnchanged /\ UNCHANGED panicked
      /\ load_rx' \in {load_rx, <<>>}
  BY <1>1 DEF othersUnchanged, historyVars
<1>10. /\ NoSources \in Sources /\ job.entries \in SUBSET Files
       /\ \A f \in Files : NoSources[f] = None
  BY <1>3 DEF NoSources, Sources, Load
<1>11. \A f \in Files : NoSources[f] \notin Texts
  BY <1>10, NoneAssumption
<1> HIDE DEF job
<1> QED
  BY <1>1, <1>3, <1>4, <1>5, <1>8, <1>9, <1>10, <1>11, LoaderGoesOnCurrent

LEMMA LoaderReadsCurrent ==
    ASSUME IndInv, CurrentInv, NEW f \in Files, LoaderReads(f)
    PROVE  CurrentInv'
<1> DEFINE job == loader.job
           content == Content(job.documents, f)
           found == IF content \in Texts THEN IncludesOf[content] ELSE {}
           sources == [loader.sources EXCEPT ![f] = content]
           todo == {g \in loader.todo \cup found : sources[g] = None}
<1>1. /\ loader # None /\ f \in loader.todo /\ LoaderGoesOn(job, sources, todo)
      /\ UNCHANGED <<fileVars, mainVars, analysis_rx, sync_rx, load_rx, out_rx,
                     workerVars, jobs, budget, historyVars>>
  BY DEF LoaderReads
<1>2. /\ loader \in Reading /\ disk \in [Files -> Texts \cup {Unreadable}]
  BY <1>1 DEF IndInv, TypeOK, ChannelTypes, MainTypes
<1>3. /\ job \in Load /\ loader.sources \in Sources
      /\ loader.todo \in SUBSET Files
  BY <1>2 DEF Reading
<1>4. /\ content = IF job.documents[f] # None THEN job.documents[f].text ELSE disk[f]
      /\ content \in Texts \cup {Unreadable}
  BY <1>2, <1>3 DEF Content, Load, Registrations, Registered
<1>5. content # None
  BY <1>4, NoneAssumption
<1>6. found \in SUBSET Files /\ (content \in Texts => found = IncludesOf[content])
  BY TextsAssumption
<1> HIDE DEF content, found
<1>7. sources \in Sources /\ todo \in SUBSET Files
  BY <1>3, <1>4, <1>6 DEF Sources
<1>8. \A g \in Files : sources[g] = IF g = f THEN content ELSE loader.sources[g]
  BY <1>3 DEF Sources
<1>9. \A g \in Files : g \in todo <=>
        (g \in loader.todo \/ g \in found) /\ sources[g] = None
  OBVIOUS
<1> HIDE DEF sources, todo
<1>10. PICK w : w = Worker("linting")
  OBVIOUS
<1>11. PICK syncs : syncs = Awaited(arm, sync_rx)
  OBVIOUS
<1>12. w.load = load_rx
  BY <1>10 DEF Worker
<1>13. Current(w, ready, analysis_rx, syncs)
  BY <1>10, <1>11, Before DEF Tracks
<1>14. NewestOnce(w, ready) /\ ReadsFresh(w, syncs, loader)
  BY <1>1, <1>13 DEF Current, LoadsFresh
<1>15. /\ \A i \in DOMAIN ready : ~IsNewest(w, ready[i].job)
       /\ w.parked # None => ~IsNewest(w, w.parked.job)
       /\ IsNewest(w, job) => load_rx = <<>> /\ IsAwaited(w, job)
  BY <1>1, <1>12, <1>14 DEF NewestOnce
<1>16. IsNewest(w, job) =>
         \A g \in Files : sources[g] # None => Fresh(w, syncs, g, sources[g])
  <2> SUFFICES ASSUME IsNewest(w, job), NEW g \in Files, sources[g] # None
               PROVE  Fresh(w, syncs, g, sources[g])
    OBVIOUS
  <2>1. CASE g = f
    <3>1. job.documents = w.scripts.documents
      BY <1>15 DEF IsAwaited
    <3> QED
      BY <1>4, <1>8, <2>1, <3>1 DEF Fresh
  <2>2. CASE g # f
    BY <1>8, <1>14, <2>2 DEF ReadsFresh
  <2> QED
    BY <2>1, <2>2
<1>17. \A g \in Files : sources[g] \in Texts =>
         \A h \in IncludesOf[sources[g]] : sources[h] # None \/ h \in todo
  <2> SUFFICES ASSUME NEW g \in Files, sources[g] \in Texts,
                      NEW h \in IncludesOf[sources[g]], sources[h] = None
               PROVE  h \in todo
    OBVIOUS
  <2>1. h \in Files
    BY TextsAssumption
  <2>2. CASE g = f
    BY <1>6, <1>8, <1>9, <2>1, <2>2
  <2>3. CASE g # f
    <3>1. loader.sources[g] = sources[g]
      BY <1>8, <2>3
    <3>2. ReadsIncludes(loader, loader.todo)
      BY <1>1 DEF CurrentInv, LoadsRead
    <3>3. loader.sources[h] # None \/ h \in loader.todo
      BY <3>1, <3>2 DEF ReadsIncludes
    <3>4. h # f
      BY <1>5, <1>8
    <3> QED
      BY <1>8, <1>9, <2>1, <3>3, <3>4
  <2> QED
    BY <2>2, <2>3
<1>18. UNCHANGED othersUnchanged /\ UNCHANGED panicked
       /\ load_rx' \in {load_rx, <<>>} /\ load_rx' = load_rx
  BY <1>1 DEF othersUnchanged, historyVars
<1> HIDE DEF job
<1> QED
  BY <1>1, <1>3, <1>7, <1>10, <1>11, <1>15, <1>16, <1>17, <1>18,
     LoaderGoesOnCurrent

-----------------------------------------------------------------------------
(* The analysis thread.                                                    *)

LEMMA CommitTracks ==
    ASSUME IndInv, CurrentInv, NEW v, WorkerOK(v), NEW rd, NEW q, NEW syncs,
           Tracks(v, rd, q, syncs), Parks(v), Commit(v),
           UNCHANGED analysisThreadUnchanged, ready' = rd, analysis_rx' = q,
           syncs = Awaited(arm, sync_rx)', rd \in {ready, Tail(ready)}
    PROVE  CurrentInv'
<1>1. PICK u : u = Worker("linting")'
  OBVIOUS
<1>2. /\ SameTracks(u, v) /\ u.inflight = v.inflight /\ u.jobs = v.jobs
  BY <1>1 DEF Worker, Commit, SameTracks, SameLoads
<1>3. /\ UNCHANGED <<documents, entry_points, disk, changedOnDisk, loader,
                     lastVersion, panicked>>
  BY DEF analysisThreadUnchanged, fileVars, mainVars
<1>4. /\ u.scripts = v.scripts /\ u.missed = v.missed /\ u.crossed = v.crossed
      /\ u.parked = v.parked
  BY <1>2 DEF SameTracks, SameLoads
<1>5. Registers(u, q, syncs)'
  <2>1. Registers(v, q, syncs)'
    BY <1>3, SameRegisters DEF Tracks, Current
  <2> QED
    BY <1>4, <2>1 DEF Registers
<1>6. \A f \in Files : \A x : Fresh(v, syncs, f, x) => Fresh(u, syncs, f, x)'
  BY <1>3, <1>4 DEF Fresh
<1>7. Held(u)'
  BY <1>2, <1>3 DEF Tracks, Held, IsFlight
<1>8. Tracks(u, rd, q, syncs)'
  BY <1>2, <1>3, <1>5, <1>6, <1>7, EnvironmentStep
<1>9. Parks(u)
  BY <1>2, <1>4 DEF Parks
<1>10. LoadsRead'
  <2>1. \A i \in DOMAIN rd : ReadsIncludes(rd[i], {})
    <3>1. CASE rd = ready
      BY <3>1 DEF CurrentInv, LoadsRead
    <3>2. CASE rd = Tail(ready)
      <4>1. CASE ready = <<>>
        BY <3>2, <4>1
      <4>2. CASE ready # <<>>
        BY <3>2, <4>2, ChannelFacts, HeadAndTail DEF CurrentInv, LoadsRead
      <4> QED
        BY <4>1, <4>2
    <3> QED
      BY <3>1, <3>2
  <2>2. loader' # None => ReadsIncludes(loader', loader'.todo)
    BY <1>3 DEF CurrentInv, LoadsRead
  <2> QED
    BY <2>1, <2>2 DEF LoadsRead
<1>11. LastVersions'
  BY <1>3 DEF CurrentInv, LastVersions
<1> QED
  BY <1>1, <1>8, <1>9, <1>10, <1>11, CurrentAfter

LEMMA AnyStageTracks ==
    ASSUME IndInv, CurrentInv, NEW stage \in CaughtIn,
           NEW w, w = Worker(stage), NEW q, q = analysis_rx,
           NEW syncs, syncs = Awaited(arm, sync_rx)
    PROVE  Good(w, ready) /\ Tracks(w, ready, q, syncs) /\ Parks(w)
<1>1. Good(w, ready)
  BY ChannelFacts, AnyStage
<1>2. PICK u : u = Worker("linting")
  OBVIOUS
<1>3. Tracks(u, ready, q, syncs) /\ Parks(u)
  BY <1>2, Before
<1>4. SameTracks(w, u) /\ w.inflight = u.inflight /\ w.jobs = u.jobs
  BY <1>2 DEF Worker, SameTracks, SameLoads
<1>5. Held(w) /\ Parks(w)
  BY <1>3, <1>4 DEF Tracks, Held, IsFlight, Parks, SameTracks, SameLoads
<1> QED
  BY <1>1, <1>3, <1>4, <1>5, TracksSame

(* The sync an arm is handling is awaited until its channel is drained.    *)
LEMMA ArmAwaits ==
    ASSUME NEW s
    PROVE  /\ Awaited(<<>>, s) = ToSet(s) /\ Awaited(<<"analyze">>, s) = ToSet(s)
           /\ ~Syncing(<<>>) /\ ~Syncing(<<"analyze">>)
           /\ \A f : Syncing(<<"sync", f>>)
                     /\ Awaited(<<"sync", f>>, s) = ToSet(s) \cup {f}
BY DEF Awaited, SyncTarget, Syncing

LEMMA ArmGoesOnCurrent ==
    ASSUME IndInv, CurrentInv, NEW a, ArmOK(a), NEW w, Good(w, ready),
           NEW rest \in Seq(Request), NEW late, late = Awaited(a, sync_rx'),
           Tracks(w, ready, rest, late), Parks(w), ArmGoesOn(a, w, rest),
           UNCHANGED analysisThreadUnchanged, ready' = ready
    PROVE  CurrentInv'
<1>1. analysis_rx' = rest
  BY DEF ArmGoesOn
<1>2. CASE rest # <<>>
  <2>1. arm' = a /\ Commit(w)
    BY <1>2 DEF ArmGoesOn
  <2>2. late = Awaited(arm, sync_rx)'
    BY <2>1
  <2> QED
    BY <1>1, <2>1, <2>2, CommitTracks DEF Good
<1>3. CASE rest = <<>>
  <2> DEFINE u == IF Syncing(a) THEN OnSync(w, a[2]) ELSE w
  <2>1. arm' = <<>> /\ \E v \in TryDispatch(u) : Commit(v)
    BY <1>3 DEF ArmGoesOn
  <2>2. PICK syncs : syncs = Awaited(arm, sync_rx)'
    OBVIOUS
  <2>3. syncs = ToSet(sync_rx')
    BY <2>1, <2>2, ArmAwaits
  <2>4. Good(u, ready) /\ Tracks(u, ready, rest, syncs)
    <3>1. CASE Syncing(a)
      <4>1. PICK f \in Files : f = a[2]
        BY <3>1 DEF ArmOK
      <4>2. late = syncs \cup {f}
        BY <2>3, <3>1, <4>1 DEF Awaited, SyncTarget
      <4>3. disk \in [Files -> Texts \cup {Unreadable}]
        BY ChannelFacts
      <4>4. Good(OnSync(w, f), ready)
        BY <4>3, OnSyncGood
      <4>5. Tracks(OnSync(w, f), ready, rest, syncs)
        BY <1>3, <4>2, <4>3, OnSyncTracks
      <4> QED
        BY <3>1, <4>1, <4>4, <4>5
    <3>2. CASE ~Syncing(a)
      <4>1. late = syncs
        BY <2>3, <3>2 DEF Awaited, SyncTarget
      <4> QED
        BY <3>2, <4>1
    <3> QED
      BY <3>1, <3>2
  <2> HIDE DEF u
  <2>5. PICK v \in TryDispatch(u) : Commit(v)
    BY <2>1
  <2>6. Good(v, ready) /\ Tracks(v, ready, rest, syncs) /\ Parks(v)
    BY <2>4, <2>5, TryDispatchGood, TryDispatchTracks
  <2> QED
    BY <1>1, <2>2, <2>5, <2>6, CommitTracks DEF Good
<1> QED
  BY <1>2, <1>3

LEMMA ReceivesCurrent ==
    ASSUME IndInv, CurrentInv, NEW a, ArmOK(a), analysis_rx # <<>>,
           Awaited(a, sync_rx) = Awaited(arm, sync_rx),
           \E stage \in CaughtIn :
             ArmGoesOn(a, Enqueue(Worker(stage), Head(analysis_rx)),
                       Tail(analysis_rx)),
           UNCHANGED <<analysisThreadUnchanged, ready, sync_rx>>
    PROVE  CurrentInv'
<1>1. PICK stage \in CaughtIn :
        ArmGoesOn(a, Enqueue(Worker(stage), Head(analysis_rx)), Tail(analysis_rx))
  OBVIOUS
<1>2. PICK w : w = Worker(stage)
  OBVIOUS
<1>3. PICK q : q = analysis_rx
  OBVIOUS
<1>4. PICK late : late = Awaited(arm, sync_rx)
  OBVIOUS
<1>5. Good(w, ready) /\ Tracks(w, ready, q, late) /\ Parks(w)
  BY <1>2, <1>3, <1>4, AnyStageTracks
<1>6. q \in Seq(Request) /\ q # <<>> /\ RequestAgrees(q[1])
  <2>1. q \in Seq(Request) /\ q # <<>>
    BY <1>3, ChannelFacts
  <2>2. 1 \in DOMAIN q
    BY <2>1, HeadAndTail
  <2> QED
    BY <1>3, <2>1, <2>2, ChannelFacts
<1>7. Head(q) \in Request /\ Head(q) = q[1] /\ Tail(q) \in Seq(Request)
  BY <1>6, HeadAndTail
<1>8. Agrees(Head(q).uri, Head(q).version, Head(q).text)
  BY <1>6, <1>7 DEF RequestAgrees
<1>9. /\ documents \in [Files -> Document \cup {None}]
      /\ lastVersion \in [Files -> Nat] /\ LastVersions
  BY DEF IndInv, TypeOK, MainTypes, CurrentInv
<1>10. PICK v : v = Enqueue(w, Head(q))
  OBVIOUS
<1>11. Good(v, ready)
  BY <1>5, <1>7, <1>8, <1>10, EnqueueGood
<1>12. Tracks(v, ready, Tail(q), late) /\ Parks(v)
  BY <1>5, <1>6, <1>8, <1>9, <1>10, EnqueueTracks
<1>13. late = Awaited(a, sync_rx')
  BY <1>4
<1>14. ArmGoesOn(a, v, Tail(q))
  BY <1>1, <1>2, <1>3, <1>10
<1>15. ready' = ready /\ UNCHANGED analysisThreadUnchanged
  OBVIOUS
<1> QED
  BY <1>7, <1>11, <1>12, <1>13, <1>14, <1>15, ArmGoesOnCurrent

LEMMA AnalysisArmCurrent ==
    ASSUME IndInv, CurrentInv, AnalysisArm
    PROVE  CurrentInv'
<1>1. ArmOK(<<"analyze">>)
  BY DEF ArmOK, Syncing
<1>2. Awaited(<<"analyze">>, sync_rx) = Awaited(arm, sync_rx)
  BY ArmAwaits DEF AnalysisArm
<1> QED
  BY <1>1, <1>2, ReceivesCurrent DEF AnalysisArm

LEMMA ReceiveCurrent ==
    ASSUME IndInv, ArmInv, CurrentInv, Receive
    PROVE  CurrentInv'
BY ChannelFacts, ReceivesCurrent DEF Receive, ArmInv

LEMMA TailSet ==
    ASSUME NEW s \in Seq(Files), s # <<>>
    PROVE  Head(s) \in Files /\ ToSet(s) = ToSet(Tail(s)) \cup {Head(s)}
<1>1. PICK t : t = Tail(s)
  OBVIOUS
<1>2. PICK f : f = Head(s)
  OBVIOUS
<1>3. /\ f = s[1] /\ 1 \in DOMAIN s /\ f \in Files
      /\ \A i \in DOMAIN t : i + 1 \in DOMAIN s /\ t[i] = s[i + 1]
      /\ \A i \in DOMAIN s : i # 1 => i - 1 \in DOMAIN t /\ t[i - 1] = s[i]
  BY <1>1, <1>2, TailIndices
<1>4. ToSet(s) = ToSet(t) \cup {f}
  BY <1>3 DEF ToSet
<1> QED
  BY <1>1, <1>2, <1>3, <1>4

LEMMA SyncArmCurrent ==
    ASSUME IndInv, CurrentInv, SyncArm
    PROVE  CurrentInv'
<1>1. PICK stage \in CaughtIn :
        ArmGoesOn(<<"sync", Head(sync_rx)>>, Worker(stage), analysis_rx)
  BY DEF SyncArm
<1>2. /\ arm = <<>> /\ sync_rx # <<>> /\ sync_rx' = Tail(sync_rx)
      /\ UNCHANGED analysisThreadUnchanged /\ ready' = ready
  BY DEF SyncArm
<1>3. PICK f : f = Head(sync_rx)
  OBVIOUS
<1>4. f \in Files /\ ToSet(sync_rx) = ToSet(Tail(sync_rx)) \cup {f}
  BY <1>2, <1>3, ChannelFacts, TailSet
<1>5. ArmOK(<<"sync", f>>)
  BY <1>4 DEF ArmOK
<1>6. PICK w : w = Worker(stage)
  OBVIOUS
<1>7. PICK q : q = analysis_rx
  OBVIOUS
<1>8. PICK late : late = Awaited(arm, sync_rx)
  OBVIOUS
<1>9. Good(w, ready) /\ Tracks(w, ready, q, late) /\ Parks(w)
  BY <1>6, <1>7, <1>8, AnyStageTracks
<1>10. late = Awaited(<<"sync", f>>, sync_rx')
  BY <1>2, <1>4, <1>8, ArmAwaits
<1>11. q \in Seq(Request)
  BY <1>7, ChannelFacts
<1> QED
  BY <1>1, <1>2, <1>3, <1>5, <1>6, <1>7, <1>9, <1>10, <1>11, ArmGoesOnCurrent

LEMMA ReadyArmCurrent ==
    ASSUME IndInv, CurrentInv, ReadyArm
    PROVE  CurrentInv'
<1>1. PICK stage \in CaughtIn :
        Commit(OnScriptsLoaded(Worker(stage), Head(ready)))
  BY DEF ReadyArm
<1>2. /\ ready # <<>> /\ ready' = Tail(ready)
      /\ UNCHANGED analysisThreadUnchanged
      /\ UNCHANGED <<arm, analysis_rx, sync_rx>>
  BY DEF ReadyArm
<1>3. PICK w : w = Worker(stage)
  OBVIOUS
<1>4. PICK q : q = analysis_rx
  OBVIOUS
<1>5. PICK syncs : syncs = Awaited(arm, sync_rx)
  OBVIOUS
<1>6. PICK rd : rd = ready
  OBVIOUS
<1>7. Good(w, rd) /\ Tracks(w, rd, q, syncs) /\ Parks(w)
  BY <1>3, <1>4, <1>5, <1>6, AnyStageTracks
<1>8. rd \in Seq(Loaded) /\ \A i \in DOMAIN rd : ReadAgrees(rd[i])
  BY <1>6, ChannelFacts
<1>9. \A i \in DOMAIN rd : ReadsIncludes(rd[i], {})
  BY <1>6 DEF CurrentInv, LoadsRead
<1>10. PICK v : v = OnScriptsLoaded(w, Head(rd))
  OBVIOUS
<1>11. PICK t : t = Tail(rd)
  OBVIOUS
<1>12. Tracks(v, t, q, syncs) /\ Parks(v)
  BY <1>2, <1>6, <1>7, <1>8, <1>9, <1>10, <1>11, LoadedTracks
<1>13. WorkerOK(v)
  BY <1>2, <1>6, <1>7, <1>8, <1>10, ReadyArmGood DEF Good
<1>14. Commit(v) /\ ready' = t /\ t = Tail(ready)
  BY <1>1, <1>2, <1>3, <1>6, <1>10, <1>11
<1>15. analysis_rx' = q /\ syncs = Awaited(arm, sync_rx)'
  BY <1>2, <1>4, <1>5
<1> QED
  BY <1>2, <1>12, <1>13, <1>14, <1>15, CommitTracks

LEMMA LibraryArmCurrent ==
    ASSUME IndInv, CurrentInv, NEW found \in Harvests, LibraryArm(found)
    PROVE  CurrentInv'
<1>1. PICK stage \in CaughtIn :
        Commit(PublishGraphDiagnostics(
                   [Cancel(Worker(stage)) EXCEPT !.package = found]))
  BY DEF LibraryArm
<1>2. /\ UNCHANGED analysisThreadUnchanged /\ ready' = ready
      /\ UNCHANGED <<arm, analysis_rx, sync_rx>>
  BY DEF LibraryArm, analysisThreadUnchanged
<1>3. PICK w : w = Worker(stage)
  OBVIOUS
<1>4. PICK q : q = analysis_rx
  OBVIOUS
<1>5. PICK syncs : syncs = Awaited(arm, sync_rx)
  OBVIOUS
<1>6. Good(w, ready) /\ Tracks(w, ready, q, syncs) /\ Parks(w)
  BY <1>3, <1>4, <1>5, AnyStageTracks
<1>7. PICK v : v = PublishGraphDiagnostics([Cancel(w) EXCEPT !.package = found])
  OBVIOUS
<1>8. Tracks(v, ready, q, syncs) /\ Parks(v)
  BY <1>6, <1>7, LibraryTracks
<1>9. WorkerOK(v)
  <2> DEFINE c == Cancel(w)
             u == [c EXCEPT !.package = found]
  <2>1. Good(c, ready)
    BY <1>6, CancelOK, CancelKeeps, KeepsGood DEF Good
  <2>2. c \in WorkerRecord /\ IsFiniteSet(c.jobs)
        /\ found \in [Files -> SUBSET PackageFinding]
    BY <2>1, HarvestsAssumption DEF Good, WorkerOK
  <2> HIDE DEF c
  <2>3. u \in WorkerRecord
    BY <2>2 DEF WorkerRecord
  <2>4. /\ u.scripts = c.scripts /\ u.load = c.load /\ u.parked = c.parked
        /\ u.files = c.files /\ u.out = c.out /\ u.jobs = c.jobs
    BY <2>2 DEF WorkerRecord
  <2> HIDE DEF u
  <2>5. Good(u, ready)
    <3>1. WorkerOK(u) /\ LoadsOK(u, ready) /\ InTransit(ready)
      BY <2>1, <2>2, <2>3, <2>4 DEF WorkerOK, Good, LoadsOK, Numbered
    <3>2. OnItsWay(u, ready) /\ SpansOK(u)
      BY <2>1, <2>4 DEF Good, OnItsWay, IsCurrentIn, SpansOK
    <3> QED
      BY <3>1, <3>2 DEF Good
  <2>6. Good(PublishGraphDiagnostics(u), ready)
    BY <2>5, PublishGood
  <2> QED
    BY <1>7, <2>6 DEF u, c, Good
<1>10. Commit(v)
  BY <1>1, <1>3, <1>7
<1>11. analysis_rx' = q /\ syncs = Awaited(arm, sync_rx)'
  BY <1>2, <1>4, <1>5
<1> QED
  BY <1>2, <1>8, <1>9, <1>10, <1>11, CommitTracks

LEMMA DoneArmCurrent ==
    ASSUME IndInv, CurrentInv, NEW job \in jobs, DoneArm(job)
    PROVE  CurrentInv'
<1>1. PICK stage \in CaughtIn :
        \E v \in TryDispatch(Ended(Worker(stage), job)) : Commit(v)
  BY DEF DoneArm, Ended
<1>2. /\ UNCHANGED analysisThreadUnchanged /\ ready' = ready
      /\ UNCHANGED <<arm, analysis_rx, sync_rx>>
  BY DEF DoneArm
<1>3. PICK w : w = Worker(stage)
  OBVIOUS
<1>4. PICK q : q = analysis_rx
  OBVIOUS
<1>5. PICK syncs : syncs = Awaited(arm, sync_rx)
  OBVIOUS
<1>6. Good(w, ready) /\ Tracks(w, ready, q, syncs) /\ Parks(w)
  BY <1>3, <1>4, <1>5, AnyStageTracks
<1>7. PICK u : u = Ended(w, job)
  OBVIOUS
<1>8. Good(u, ready) /\ Tracks(u, ready, q, syncs)
  BY <1>6, <1>7, EndedTracks
<1>9. PICK v \in TryDispatch(u) : Commit(v)
  BY <1>1, <1>3, <1>7
<1>10. Good(v, ready) /\ Tracks(v, ready, q, syncs) /\ Parks(v)
  BY <1>8, <1>9, TryDispatchGood, TryDispatchTracks
<1>11. analysis_rx' = q /\ syncs = Awaited(arm, sync_rx)'
  BY <1>2, <1>4, <1>5
<1> QED
  BY <1>2, <1>9, <1>10, <1>11, CommitTracks DEF Good

-----------------------------------------------------------------------------
(* The invariant holds at start and every step keeps it.                   *)

LEMMA InitCurrent ==
    ASSUME Init
    PROVE  CurrentInv
<1>1. PICK w : w = Worker("linting")
  OBVIOUS
<1>2. PICK syncs : syncs = Awaited(arm, sync_rx)
  OBVIOUS
<1>3. /\ w.scripts.documents = [f \in Files |-> None] /\ w.scripts.entries = {}
      /\ w.scripts.sources = {} /\ w.load = <<>> /\ w.parked = None /\ w.files = None
      /\ w.pending = [f \in Files |-> None] /\ w.inflight = None
  BY <1>1 DEF Init, Worker
<1>4. /\ loader = None /\ ready = <<>> /\ analysis_rx = <<>>
      /\ documents = [f \in Files |-> None]
  BY DEF Init
<1>5. Registers(w, analysis_rx, syncs)
  <2>1. EntriesOf(w.scripts.documents) = {}
    BY <1>3 DEF EntriesOf
  <2>2. DOMAIN analysis_rx = {}
    BY <1>4
  <2> QED
    BY <1>3, <1>4, <2>1, <2>2
       DEF Registers, InOrder, RegistersOpen, ForgetsClosed, Requested
<1>6. /\ NewestOnce(w, ready) /\ LoadsFresh(w, ready, syncs)
      /\ InstallsFresh(w, syncs)
  <2>1. DOMAIN w.load = {} /\ DOMAIN ready = {}
    BY <1>3, <1>4
  <2> QED
    BY <1>3, <1>4, <2>1 DEF NewestOnce, LoadsFresh, InstallsFresh
<1>7. QueuesRegistered(w) /\ ParkedComplete(w) /\ FilesKnown(w) /\ Held(w) /\ Parks(w)
  BY <1>3 DEF QueuesRegistered, ParkedComplete, FilesKnown, Held, Parks
<1>8. LoadsRead /\ LastVersions
  BY <1>4 DEF LoadsRead, LastVersions
<1> QED
  BY <1>1, <1>2, <1>5, <1>6, <1>7, <1>8 DEF CurrentInv, Tracks, Current

LEMMA StutterCurrent ==
    ASSUME IndInv, CurrentInv, UNCHANGED vars
    PROVE  CurrentInv'
<1>1. Held(Worker("linting"))'
  BY SlotKept DEF vars, workerVars, historyVars
<1> QED
  BY <1>1, QuietStep DEF vars, fileVars, mainVars, historyVars

LEMMA NextCurrent ==
    ASSUME IndInv, ArmInv, CurrentInv, [Next]_vars
    PROVE  CurrentInv'
<1>1. ASSUME Client PROVE CurrentInv'
  BY <1>1, SetDocumentCurrent, DidCloseCurrent, RewriteCurrent,
     DidChangeWatchedFilesCurrent, DidChangeConfigurationCurrent DEF Client
<1>2. ASSUME MainLoop PROVE CurrentInv'
  BY <1>2, OnResultCurrent, OnDiagnosticsRefreshCurrent DEF MainLoop
<1>3. ASSUME Loader \/ LoaderPanics PROVE CurrentInv'
  BY <1>3, LoaderTakesNewestCurrent, LoaderReadsCurrent, LoaderPanicsCurrent
     DEF Loader
<1>4. ASSUME AnalysisThread PROVE CurrentInv'
  BY <1>4, AnalysisArmCurrent, SyncArmCurrent, ReceiveCurrent, ReadyArmCurrent,
     DoneArmCurrent, LibraryArmCurrent DEF AnalysisThread
<1>5. ASSUME NEW job \in jobs, JobFinish(job) \/ JobPanic(job) PROVE CurrentInv'
  BY <1>5, JobFinishCurrent, JobPanicCurrent
<1>6. ASSUME UNCHANGED vars PROVE CurrentInv'
  BY <1>6, StutterCurrent
<1> QED
  BY <1>1, <1>2, <1>3, <1>4, <1>5, <1>6 DEF Next

LEMMA CurrentInvariance == Spec => [](IndInv /\ ArmInv /\ CurrentInv)
<1>1. Init => CurrentInv
  BY InitCurrent
<1>2. IndInv /\ ArmInv /\ CurrentInv /\ [Next]_vars => CurrentInv'
  BY NextCurrent
<1> QED
  BY <1>1, <1>2, Invariance, PTL DEF Spec

-----------------------------------------------------------------------------
(* At rest.                                                                *)

(* The registrations are the open buffers, no load is awaited, and the     *)
(* files of the installed load are those of the buffers and the disk.      *)
LEMMA AtRest ==
    ASSUME IndInv, CurrentInv, Undisturbed
    PROVE  /\ \A f \in Files : scripts.documents[f] =
                IF documents[f] = None THEN None
                ELSE Registration(documents[f], entry_points)
           /\ scripts.entries = CurrentEntries
           /\ inflight = None /\ ~scripts.loading
           /\ \A f \in Files : \A t :
                Fresh(Worker("linting"), {}, f, t) => t = CurrentTexts[f]
<1>1. /\ arm = <<>> /\ sync_rx = <<>> /\ analysis_rx = <<>> /\ load_rx = <<>>
      /\ ready = <<>> /\ loader = None /\ jobs = {} /\ ~panicked
      /\ crossed = {} /\ missed = {} /\ changedOnDisk = {}
  BY DEF Undisturbed, Quiet
<1>2. PICK w : w = Worker("linting")
  OBVIOUS
<1>3. PICK q : q = analysis_rx
  OBVIOUS
<1>4. PICK syncs : syncs = Awaited(arm, sync_rx)
  OBVIOUS
<1>5. Tracks(w, ready, q, syncs) /\ Parks(w)
  BY <1>2, <1>3, <1>4, Before
<1>6. /\ w.scripts = scripts /\ w.inflight = inflight /\ w.jobs = jobs
      /\ w.parked = pending_script_load /\ w.missed = missed
      /\ w.crossed = crossed
  BY <1>2 DEF Worker
<1>7. syncs = {}
  BY <1>1, <1>4, ArmAwaits DEF ToSet
<1>8. inflight = None /\ pending_script_load = None
  BY <1>1, <1>5, <1>6 DEF Tracks, Held, Parks
<1>9. ~scripts.loading
  <2>1. LoadIsOnItsWay
    BY DEF IndInv, LoadInv, Good, OnItsWay, IsCurrentIn, LoadsOK, Worker,
           LoadIsOnItsWay, IsCurrent
  <2> QED
    BY <1>1, <1>8, <2>1 DEF LoadIsOnItsWay
<1>10. documents \in [Files -> Document \cup {None}]
       /\ entry_points \in SUBSET Files
  BY EntriesAssumption DEF IndInv, TypeOK, MainTypes
<1>11. ASSUME NEW f \in Files
       PROVE  scripts.documents[f] = IF documents[f] = None THEN None
                ELSE Registration(documents[f], entry_points)
  <2>1. ~Requested(q, f)
    BY <1>1, <1>3 DEF Requested
  <2> QED
    BY <1>1, <1>5, <1>6, <1>7, <2>1
       DEF Tracks, Current, Registers, RegistersOpen, ForgetsClosed
<1>12. ASSUME NEW f \in Files, documents[f] # None
       PROVE  LET reg == Registration(documents[f], entry_points)
              IN /\ reg # None /\ reg.entries = entry_points
                 /\ reg.text = documents[f].text
  <2>1. documents[f] \in Document
    BY <1>10, <1>12
  <2>2. Registration(documents[f], entry_points) \in Registered
    BY <1>10, <2>1 DEF Document, Registered, Registration
  <2> QED
    BY <2>2, NoneAssumption DEF Registration
<1>13. scripts.entries = CurrentEntries
  <2>1. scripts.entries = EntriesOf(scripts.documents)
    BY <1>5, <1>6 DEF Tracks, Current, Registers
  <2>2. {g \in Files : scripts.documents[g] # None} = OpenDocs
    BY <1>11, <1>12 DEF OpenDocs
  <2>3. \A f \in OpenDocs : scripts.documents[f].entries = entry_points
    BY <1>11, <1>12 DEF OpenDocs
  <2>4. EntriesOf(scripts.documents)
          = UNION {scripts.documents[f].entries : f \in OpenDocs}
    BY <2>2 DEF EntriesOf
  <2> QED
    BY <2>1, <2>3, <2>4 DEF CurrentEntries
<1>14. ASSUME NEW f \in Files, NEW t, Fresh(w, {}, f, t)
       PROVE  t = CurrentTexts[f]
  BY <1>1, <1>6, <1>11, <1>12, <1>14 DEF Fresh, CurrentTexts, CurrentText
<1> QED
  BY <1>2, <1>8, <1>9, <1>11, <1>13, <1>14

(* What the installed load read is the open buffers and the disk.          *)
LEMMA InstalledAtRest ==
    ASSUME IndInv, CurrentInv, Undisturbed, script_files # None
    PROVE  /\ ~script_files.pending /\ script_files.entries = CurrentEntries
           /\ scripts.sources = script_files.readable \cup script_files.failed
           /\ Closure(CurrentEntries, CurrentTexts) \subseteq scripts.sources
           /\ \A f \in script_files.readable :
                f \in Files /\ tracked[f] = CurrentTexts[f] /\ CurrentTexts[f] \in Texts
           /\ \A f \in script_files.failed :
                f \in Files /\ CurrentTexts[f] = Unreadable
<1>1. PICK w : w = Worker("linting")
  OBVIOUS
<1>2. /\ scripts.entries = CurrentEntries /\ ~scripts.loading
      /\ \A f \in Files : \A t : Fresh(w, {}, f, t) => t = CurrentTexts[f]
  BY <1>1, AtRest
<1>3. w.files = script_files /\ w.scripts = scripts /\ w.tracked = tracked
  BY <1>1 DEF Worker
<1>4. ~script_files.pending
  <2>1. LoadIsOnItsWay
    BY DEF IndInv, LoadInv, Good, OnItsWay, IsCurrentIn, LoadsOK, Worker,
           LoadIsOnItsWay, IsCurrent
  <2> QED
    BY <1>2, <2>1 DEF LoadIsOnItsWay
<1>5. InstallsFresh(w, {})
  <2>1. Awaited(arm, sync_rx) = {}
    BY ArmAwaits DEF Undisturbed, Quiet, ToSet
  <2>2. PICK q : q = analysis_rx
    OBVIOUS
  <2> QED
    BY <1>1, <2>1, <2>2, Before DEF Tracks, Current
<1> DEFINE S == scripts.sources
<1>6. /\ script_files.entries = CurrentEntries /\ CurrentEntries \subseteq S
      /\ S = script_files.readable \cup script_files.failed
      /\ \A f \in script_files.readable :
           /\ tracked[f] \in Texts /\ IncludesOf[tracked[f]] \subseteq S
           /\ Fresh(w, {}, f, tracked[f])
      /\ \A f \in script_files.failed : Fresh(w, {}, f, Unreadable)
  BY <1>2, <1>3, <1>5 DEF InstallsFresh
<1>7. S \in SUBSET Files
  BY DEF IndInv, TypeOK, WorkerTypes, Scripts
<1> HIDE DEF S
<1>8. /\ \A f \in script_files.readable :
           /\ f \in Files /\ tracked[f] = CurrentTexts[f] /\ CurrentTexts[f] \in Texts
           /\ IncludesOf[CurrentTexts[f]] \subseteq S
      /\ \A f \in script_files.failed : f \in Files /\ CurrentTexts[f] = Unreadable
  BY <1>2, <1>6, <1>7
<1>9. Closure(CurrentEntries, CurrentTexts) \subseteq S
  <2>1. \A g \in S : CurrentTexts[g] \in Texts =>
          IncludesOf[CurrentTexts[g]] \subseteq S
    BY <1>6, <1>8, TextsAssumption
  <2> QED
    BY <1>6, <1>7, <2>1 DEF Closure
<1> QED
  BY <1>4, <1>6, <1>8, <1>9 DEF S

-----------------------------------------------------------------------------
(* Results.                                                                *)

(* At rest the installed programs are current, whatever edits, closes,     *)
(* configuration changes, disk writes and loads crossed on the way: what   *)
(* the last load read is the open buffers and the disk, unless somebody    *)
(* has yet to hear of a change, and its files contain the entry points and *)
(* what they include.                                                      *)
THEOREM ProgramsCurrent == Spec => []ProgramsCurrentWhenQuiet
<1>1. IndInv /\ CurrentInv => ProgramsCurrentWhenQuiet
  <2> SUFFICES ASSUME IndInv, CurrentInv, Undisturbed, script_files # None
               PROVE  /\ ~script_files.pending
                      /\ script_files.entries = CurrentEntries
                      /\ \A f \in Closure(CurrentEntries, CurrentTexts) :
                           /\ f \in script_files.readable =>
                                tracked[f] = CurrentTexts[f]
                           /\ f \in script_files.readable <=>
                                CurrentTexts[f] \in Texts
    BY DEF ProgramsCurrentWhenQuiet
  <2> QED
    BY InstalledAtRest, TextsAssumption
<1> QED
  BY <1>1, CurrentInvariance, PTL

-----------------------------------------------------------------------------
(* What a document was linted with: the second invariant of the worker.    *)

(* n is a version of f that whatever is yet to be analyzed supersedes.     *)
Behind(w, q, f, n) ==
    /\ n < lastVersion[f]
    /\ w.pending[f] # None => n < w.pending[f].version
    /\ \A i \in DOMAIN q : q[i].uri = f => n < q[i].version

(* The slot is of one job.  Every other is over, and behind.               *)
Slots(w, q) ==
    /\ \A j \in w.jobs :
         \/ IsFlight(w, j)
         \/ j.phase = "done" /\ Behind(w, q, j.uri, j.version)
    /\ \A i, j \in w.jobs : IsFlight(w, i) /\ IsFlight(w, j) => i = j

(* Linted with the programs, unless a refresh is sent or still to come.    *)
Informed(w, world) ==
    world # None /\ (world.pending => Refreshing(w) \/ Announces(w))

IsReport(m, f, v) == m.kind = "diagnostics" /\ m.uri = f /\ m.version = v
Reported(o, f, v) == \E i \in DOMAIN o : IsReport(o[i], f, v)
LastReport(o, f, v, world) ==
    \E i \in DOMAIN o :
        /\ IsReport(o[i], f, v) /\ o[i].world = world
        /\ \A k \in DOMAIN o : i < k => ~IsReport(o[k], f, v)
Told(w, f) ==
    LET v == documents[f].version
    IN IF Reported(w.out, f, v)
       THEN \E world : LastReport(w.out, f, v, world) /\ Informed(w, world)
       ELSE Informed(w, linted[f])

(* An open document whose newest analysis was not thrown away is yet to be *)
(* analyzed, is being analyzed with what it should be, or was.             *)
RunningOn(w, f) == {j \in w.jobs : j.phase = "running" /\ j.uri = f}
AnalyzedSoon(w, q, f) == Requested(q, f) \/ w.pending[f] # None
Analyzed(w, f) ==
    \/ \E j \in RunningOn(w, f) :
         j.version = documents[f].version /\ Informed(w, j.world)
    \/ RunningOn(w, f) = {} /\ Told(w, f)
Latest(w, q) ==
    \A f \in Files : documents[f] # None /\ f \notin w.orphaned =>
        AnalyzedSoon(w, q, f) \/ Analyzed(w, f)

Tells(w, q) == Slots(w, q) /\ Latest(w, q)

(* What moves only cancels, and what is queued stays so.                   *)
LEMMA InformedKept ==
    ASSUME NEW w, NEW v, Moves(v, w), StillPending(v, w),
           NEW world, Informed(w, world)
    PROVE  Informed(v, world)
BY RefreshingKept DEF Informed, StillPending

LEMMA SlotsKept ==
    ASSUME NEW w, NEW v, NEW q, NEW r, WorkerOK(w), Moves(v, w), Slots(w, q),
           \A f \in Files : \A n \in Nat : Behind(w, q, f, n) => Behind(v, r, f, n)
    PROVE  Slots(v, r)
<1>1. w.jobs \subseteq Job /\ v.inflight = w.inflight
  BY DEF WorkerOK, WorkerRecord, Moves
<1>2. \A j \in Job : IsFlight(v, j) <=> IsFlight(w, j)
  BY <1>1 DEF IsFlight
<1>3. \A j \in Job : j.uri \in Files /\ j.version \in Nat
  BY DEF Job
<1>4. CASE v.jobs = w.jobs
  <2>1. \A j \in v.jobs :
          \/ IsFlight(v, j)
          \/ j.phase = "done" /\ Behind(v, r, j.uri, j.version)
    BY <1>1, <1>2, <1>3, <1>4 DEF Slots
  <2> QED
    BY <1>1, <1>2, <1>4, <2>1 DEF Slots
<1>5. CASE v.jobs = {Unwound(j) : j \in w.jobs}
  <2>1. \A j \in w.jobs : /\ Unwound(j).phase = "done"
                          /\ Unwound(j).uri = j.uri
                          /\ Unwound(j).version = j.version
                          /\ IsFlight(v, Unwound(j)) <=> IsFlight(w, j)
    BY <1>1, UnwoundJob DEF IsFlight
  <2>2. \A j \in w.jobs : IsFlight(v, Unwound(j))
           \/ Behind(v, r, Unwound(j).uri, Unwound(j).version)
    BY <1>1, <1>3, <2>1 DEF Slots
  <2>3. ASSUME NEW i \in v.jobs, NEW j \in v.jobs, IsFlight(v, i), IsFlight(v, j)
        PROVE  i = j
    <3>1. PICK a \in w.jobs, b \in w.jobs : i = Unwound(a) /\ j = Unwound(b)
      BY <1>5
    <3>2. a = b
      BY <2>1, <2>3, <3>1 DEF Slots
    <3> QED
      BY <3>1, <3>2
  <2>4. \A j \in v.jobs :
          \/ IsFlight(v, j)
          \/ j.phase = "done" /\ Behind(v, r, j.uri, j.version)
    BY <1>5, <2>1, <2>2
  <2> QED
    BY <2>3, <2>4 DEF Slots
<1> QED
  BY <1>4, <1>5 DEF Moves

(* Reports of other documents change nothing.                              *)
LEMMA ReportsKept ==
    ASSUME NEW o, NEW o2, NEW gone, Grows(o, o2, gone), NEW f, f \notin gone,
           NEW v
    PROVE  /\ Reported(o2, f, v) <=> Reported(o, f, v)
           /\ \A world : LastReport(o, f, v, world) => LastReport(o2, f, v, world)
<1>1. \A i \in DOMAIN o2 : IsReport(o2[i], f, v) =>
        i \in DOMAIN o /\ IsReport(o[i], f, v)
  BY DEF Grows, IsReport
<1>2. \A i \in DOMAIN o : i \in DOMAIN o2 /\ o2[i] = o[i]
  BY DEF Grows
<1>3. Reported(o2, f, v) <=> Reported(o, f, v)
  BY <1>1, <1>2 DEF Reported
<1>4. ASSUME NEW world, LastReport(o, f, v, world)
      PROVE  LastReport(o2, f, v, world)
  <2>1. PICK i \in DOMAIN o :
          /\ IsReport(o[i], f, v) /\ o[i].world = world
          /\ \A k \in DOMAIN o : i < k => ~IsReport(o[k], f, v)
    BY <1>4 DEF LastReport
  <2> QED
    BY <1>1, <1>2, <2>1 DEF LastReport
<1> QED
  BY <1>3, <1>4

LEMMA ToldKept ==
    ASSUME NEW w, NEW v, Moves(v, w), StillPending(v, w), NEW f \in Files,
           f \notin v.orphaned, Told(w, f)
    PROVE  Told(v, f)
<1> DEFINE n == documents[f].version
<1>1. Grows(w.out, v.out, v.orphaned)
  BY DEF Moves
<1>2. /\ Reported(v.out, f, n) <=> Reported(w.out, f, n)
      /\ \A world : LastReport(w.out, f, n, world) => LastReport(v.out, f, n, world)
  BY <1>1, ReportsKept
<1>3. \A world : Informed(w, world) => Informed(v, world)
  BY InformedKept
<1> QED
  BY <1>2, <1>3 DEF Told

LEMMA AnalyzedKept ==
    ASSUME NEW w, NEW v, WorkerOK(w), Moves(v, w), StillPending(v, w),
           NEW f \in Files, f \notin v.orphaned, Analyzed(w, f)
    PROVE  Analyzed(v, f)
<1>1. \A world : Informed(w, world) => Informed(v, world)
  BY InformedKept
<1>2. w.jobs \subseteq Job
  BY DEF WorkerOK, WorkerRecord
<1>3. CASE v.jobs = w.jobs
  <2>1. RunningOn(v, f) = RunningOn(w, f)
    BY <1>3 DEF RunningOn
  <2> QED
    BY <1>1, <2>1, ToldKept DEF Analyzed
<1>4. CASE /\ v.jobs = {Unwound(j) : j \in w.jobs}
           /\ \A j \in w.jobs : j.phase = "running" => j.uri \in v.orphaned
  <2>1. RunningOn(w, f) = {}
    BY <1>4 DEF RunningOn
  <2>2. \A j \in v.jobs : j.phase = "done"
    BY <1>2, <1>4, UnwoundJob
  <2>3. RunningOn(v, f) = {}
    BY <2>2 DEF RunningOn
  <2> QED
    BY <2>1, <2>3, ToldKept DEF Analyzed
<1> QED
  BY <1>3, <1>4 DEF Moves

LEMMA LatestKept ==
    ASSUME NEW w, NEW v, NEW q, NEW r, WorkerOK(w), Moves(v, w),
           StillPending(v, w), Latest(w, q),
           \A f \in Files : f \notin v.orphaned /\ AnalyzedSoon(w, q, f)
                              => AnalyzedSoon(v, r, f)
    PROVE  Latest(v, r)
<1>1. w.orphaned \subseteq v.orphaned
  BY DEF Moves
<1> QED
  BY <1>1, AnalyzedKept DEF Latest

LEMMA TellsKept ==
    ASSUME NEW w, NEW v, NEW q, WorkerOK(w), Moves(v, w), StillPending(v, w),
           Tells(w, q), v.pending = w.pending
    PROVE  Tells(v, q)
<1>1. \A f \in Files : \A n \in Nat : Behind(w, q, f, n) => Behind(v, q, f, n)
  BY DEF Behind
<1>2. Slots(v, q)
  BY <1>1, SlotsKept DEF Tells
<1>3. \A f \in Files : AnalyzedSoon(w, q, f) => AnalyzedSoon(v, q, f)
  BY DEF AnalyzedSoon
<1>4. Latest(v, q)
  BY <1>3, LatestKept DEF Tells
<1> QED
  BY <1>2, <1>4 DEF Tells

SameLatest(v, w) ==
    /\ v.jobs = w.jobs /\ v.out = w.out /\ v.orphaned = w.orphaned
    /\ v.files = w.files /\ v.pending = w.pending

LEMMA AnalyzedSame ==
    ASSUME NEW w, NEW v, v.jobs = w.jobs, v.out = w.out, v.files = w.files
    PROVE  \A f : Analyzed(w, f) => Analyzed(v, f)
<1>1. \A world : Informed(w, world) => Informed(v, world)
  BY DEF Informed, Refreshing, Announces
<1>2. \A f : RunningOn(v, f) = RunningOn(w, f)
  BY DEF RunningOn
<1>3. \A f : Told(w, f) => Told(v, f)
  BY <1>1 DEF Told
<1> QED
  BY <1>1, <1>2, <1>3 DEF Analyzed

LEMMA LatestSame ==
    ASSUME NEW w, NEW v, NEW q, SameLatest(v, w), Latest(w, q)
    PROVE  Latest(v, q)
BY AnalyzedSame DEF SameLatest, Latest, AnalyzedSoon

(* A queued analysis is of the version that is registered, which nothing   *)
(* in the channel precedes.                                                *)
LEMMA QueuedIsNext ==
    ASSUME NEW w, WorkerOK(w), QueuesRegistered(w),
           RegistrationsAgree(w.scripts.documents),
           NEW q \in Seq(Request), InOrder(w.scripts.documents, q),
           NEW f \in Files, w.pending[f] # None, lastVersion \in [Files -> Nat]
    PROVE  /\ w.scripts.documents[f] # None
           /\ w.scripts.documents[f].version = w.pending[f].version
           /\ w.scripts.documents[f].entries = w.pending[f].entries
           /\ \A n \in Nat : n < w.pending[f].version => Behind(w, q, f, n)
<1> DEFINE p == w.pending[f]
           doc == w.scripts.documents[f]
<1>1. p \in Request
  BY DEF WorkerOK, WorkerRecord
<1>2. doc = Registration(p, p.entries)
  BY DEF QueuesRegistered
<1>3. Registration(p, p.entries) \in Registered
  BY <1>1 DEF Registration, Request, Registered
<1>4. doc # None
  BY <1>2, <1>3, NoneAssumption
<1>5. doc.version = p.version /\ doc.entries = p.entries /\ p.version \in Nat
  BY <1>1, <1>2 DEF Registration, Request
<1>6. p.version <= lastVersion[f] /\ lastVersion[f] \in Nat
  BY <1>4, <1>5 DEF RegistrationsAgree, Agrees
<1>7. ASSUME NEW i \in DOMAIN q, q[i].uri = f
      PROVE  p.version <= q[i].version /\ q[i].version \in Nat
  <2>1. q[i] \in Request
    OBVIOUS
  <2>2. NotNewer(doc, q[i])
    BY <1>4, <1>7 DEF InOrder
  <2> QED
    BY <1>5, <2>1, <2>2 DEF NotNewer, Request
<1>8. ASSUME NEW n \in Nat, n < p.version PROVE Behind(w, q, f, n)
  <2>1. n < lastVersion[f]
    BY <1>5, <1>6, <1>8
  <2>2. \A i \in DOMAIN q : q[i].uri = f => n < q[i].version
    BY <1>5, <1>7, <1>8
  <2> QED
    BY <1>8, <2>1, <2>2 DEF Behind
<1> QED
  BY <1>4, <1>5, <1>8

LEMMA FlightOfJob ==
    ASSUME NEW w, NEW j \in Job
    PROVE  /\ w.inflight = None => ~IsFlight(w, j)
           /\ j.uri \in Files /\ j.version \in Nat
<1>1. [uri |-> j.uri, version |-> j.version] \in Flight
  BY DEF Job, Flight
<1> QED
  BY <1>1, NoneAssumption DEF IsFlight, Job

(* A newer analysis of the running one's document takes its slot.          *)
LEMMA SupersedeTells ==
    ASSUME NEW w, NEW q \in Seq(Request), WorkerOK(w), Tells(w, q),
           QueuesRegistered(w), RegistrationsAgree(w.scripts.documents),
           InOrder(w.scripts.documents, q), lastVersion \in [Files -> Nat],
           NEW f \in Decide(w), w.inflight # None
    PROVE  LET u == [Cancel(w) EXCEPT !.inflight = None]
           IN /\ WorkerOK(u) /\ Tells(u, q) /\ SameTracks(u, w)
              /\ u.inflight = None
<1> DEFINE c == Cancel(w)
           u == [c EXCEPT !.inflight = None]
<1>1. /\ f \in Files /\ w.pending[f] # None /\ w.inflight.uri = f
      /\ w.inflight.version < w.pending[f].version
  BY DEF Decide
<1>2. \A n \in Nat : n < w.pending[f].version => Behind(w, q, f, n)
  BY <1>1, QueuedIsNext
<1>3. w.jobs \subseteq Job
  BY DEF WorkerOK, WorkerRecord
<1>4. ASSUME NEW j \in w.jobs PROVE Behind(w, q, j.uri, j.version)
  <2>1. CASE IsFlight(w, j)
    <3>1. w.inflight.uri = j.uri /\ w.inflight.version = j.version
      BY <2>1 DEF IsFlight
    <3> QED
      BY <1>1, <1>2, <1>3, <3>1, FlightOfJob
  <2> QED
    BY <2>1 DEF Tells, Slots
<1>5. /\ WorkerOK(c) /\ Moves(c, w) /\ SameLoads(c, w) /\ c.pending = w.pending
      /\ c.tracked = w.tracked /\ c.jobs = {Unwound(j) : j \in w.jobs}
  BY CancelOK, CancelLeaves, CancelMoves
<1> HIDE DEF c
<1>6. StillPending(c, w)
  BY <1>5 DEF StillPending, Announces, SameLoads
<1>7. Tells(c, q)
  BY <1>5, <1>6, TellsKept
<1>8. c \in WorkerRecord /\ IsFiniteSet(c.jobs)
  BY <1>5 DEF WorkerOK
<1>9. u \in WorkerRecord
  BY <1>8 DEF WorkerRecord
<1>10. /\ SameLatest(u, c) /\ SameTracks(u, c) /\ u.inflight = None
  BY <1>8 DEF WorkerRecord, SameLatest, SameTracks, SameLoads
<1> HIDE DEF u
<1>11. Slots(u, q)
  <2>1. ASSUME NEW k \in u.jobs
        PROVE  ~IsFlight(u, k) /\ k.phase = "done" /\ Behind(u, q, k.uri, k.version)
    <3>1. PICK j \in w.jobs : k = Unwound(j)
      BY <1>5, <1>10, <2>1 DEF SameLatest
    <3>2. k \in Job /\ k.phase = "done" /\ k.uri = j.uri /\ k.version = j.version
      BY <1>3, <3>1, UnwoundJob
    <3>3. Behind(w, q, k.uri, k.version)
      BY <1>4, <3>2
    <3>4. u.pending = w.pending
      BY <1>5, <1>10 DEF SameLatest
    <3>5. Behind(u, q, k.uri, k.version)
      BY <3>3, <3>4 DEF Behind
    <3> QED
      BY <1>10, <3>2, <3>5, FlightOfJob
  <2> QED
    BY <2>1 DEF Slots
<1>12. Latest(u, q)
  BY <1>7, <1>10, LatestSame DEF Tells
<1>13. WorkerOK(u) /\ SameTracks(u, w)
  BY <1>5, <1>8, <1>9, <1>10 DEF WorkerOK, SameLatest, SameTracks, SameLoads
<1> QED
  BY <1>10, <1>11, <1>12, <1>13 DEF Tells, u, c

(* An analysis that starts knows every program that is configured, or that *)
(* some are pending.                                                       *)
LEMMA WorldInformed ==
    ASSUME NEW w, WorkerOK(w), FilesKnown(w), NEW entries \in SUBSET Files,
           entries \subseteq w.scripts.entries
    PROVE  Informed(w, World(w, entries))
<1>1. World(w, entries) # None
  BY WorldType, NoneAssumption
<1>2. World(w, entries).pending
        = IF entries = {} \/ w.files = None THEN entries # {}
          ELSE w.files.pending \/ ~(entries \subseteq w.files.entries)
  BY DEF World
<1>3. ASSUME World(w, entries).pending PROVE Announces(w)
  BY <1>2, <1>3 DEF FilesKnown, Announces
<1> QED
  BY <1>1, <1>3 DEF Informed

LEMMA StartTells ==
    ASSUME NEW w, NEW q \in Seq(Request), NEW syncs, WorkerOK(w), Tells(w, q),
           FilesKnown(w), QueuesRegistered(w), Registers(w, q, syncs),
           RegistrationsAgree(w.scripts.documents),
           documents \in [Files -> Document \cup {None}],
           entry_points \in SUBSET Files, lastVersion \in [Files -> Nat],
           NEW f \in Files, w.pending[f] # None, w.inflight = None
    PROVE  Tells(Start(w, f), q)
<1> DEFINE p == w.pending[f]
           v == Upsert(w, f, p.text)
           u == Start(w, f)
           world == World(v, p.entries)
           job == [uri |-> f, version |-> p.version, world |-> world,
                   phase |-> "running"]
<1>1. p \in Request
  BY DEF WorkerOK, WorkerRecord
<1>2. /\ WorkerOK(v) /\ Moves(v, w) /\ SameLoads(v, w) /\ job \in Job
      /\ SameLoads(u, w) /\ u.inflight = [uri |-> f, version |-> p.version]
      /\ u.jobs = v.jobs \cup {job} /\ u.orphaned = v.orphaned \ {f}
      /\ u.out = v.out
      /\ \A g \in Files : u.pending[g] = IF g = f THEN None ELSE w.pending[g]
  BY StartFields
<1>3. v.pending = w.pending
  BY <1>1, UpsertLeaves DEF Request
<1>4. /\ job.uri = f /\ job.version = p.version /\ job.world = world
      /\ job.phase = "running"
  OBVIOUS
<1>5. PICK wd : wd = world
  OBVIOUS
<1>6. Informed(v, wd)
  <2>1. w.scripts.entries = EntriesOf(w.scripts.documents)
    BY DEF Registers
  <2>2. w.scripts.documents[f] # None /\ w.scripts.documents[f].entries = p.entries
    BY QueuedIsNext DEF Registers
  <2>3. p.entries \subseteq w.scripts.entries /\ p.entries \in SUBSET Files
    BY <1>1, <2>1, <2>2 DEF EntriesOf, Request
  <2>4. v.scripts = w.scripts /\ v.files = w.files
    BY <1>2 DEF SameLoads
  <2>5. FilesKnown(v)
    BY <2>4 DEF FilesKnown
  <2> HIDE DEF v, p
  <2> QED
    BY <1>2, <1>5, <2>3, <2>4, <2>5, WorldInformed
<1>7. StillPending(v, w)
  BY <1>2 DEF StillPending, Announces, SameLoads
<1> HIDE DEF v, u, world, job, p
<1>8. Tells(v, q)
  BY <1>2, <1>3, <1>7, TellsKept
<1>9. u.files = v.files
  BY <1>2 DEF SameLoads
<1>10. v.inflight = None /\ v.jobs \subseteq Job
  BY <1>2 DEF Moves, WorkerOK, WorkerRecord
<1>11. ASSUME NEW j \in v.jobs
       PROVE  /\ ~IsFlight(u, j) /\ j.phase = "done"
              /\ Behind(u, q, j.uri, j.version)
  <2>1. j.phase = "done" /\ Behind(v, q, j.uri, j.version)
    BY <1>8, <1>10, FlightOfJob DEF Tells, Slots
  <2>2. j.uri \in Files /\ j.version \in Nat
    BY <1>10, FlightOfJob
  <2>3. Behind(u, q, j.uri, j.version)
    BY <1>2, <1>3, <2>1, <2>2 DEF Behind
  <2>4. j.uri = f => j.version < p.version
    BY <1>3, <2>1 DEF Behind, p
  <2>5. p.version \in Nat
    BY <1>1 DEF Request
  <2>6. ~(j.uri = f /\ j.version = p.version)
    BY <2>2, <2>4, <2>5
  <2>7. ~IsFlight(u, j)
    BY <1>2, <2>6 DEF IsFlight
  <2> QED
    BY <2>1, <2>3, <2>7
<1>12. IsFlight(u, job)
  BY <1>2, <1>4 DEF IsFlight
<1>13. Slots(u, q)
  BY <1>2, <1>11, <1>12 DEF Slots
<1>14. \A x : Informed(v, x) => Informed(u, x)
  BY <1>2, <1>9 DEF Informed, Refreshing, Announces
<1>15. ASSUME NEW g \in Files, g # f, Analyzed(v, g) PROVE Analyzed(u, g)
  <2>1. RunningOn(u, g) = RunningOn(v, g)
    BY <1>2, <1>4, <1>15 DEF RunningOn
  <2>2. Told(v, g) => Told(u, g)
    BY <1>2, <1>14 DEF Told
  <2> QED
    BY <1>14, <1>15, <2>1, <2>2 DEF Analyzed
<1>16. ASSUME documents[f] # None, ~Requested(q, f) PROVE Analyzed(u, f)
  <2>1. /\ w.scripts.documents[f] # None
        /\ w.scripts.documents[f].version = p.version
    BY QueuedIsNext DEF Registers, p
  <2>2. w.scripts.documents[f] = Registration(documents[f], entry_points)
    BY <1>16, <2>1 DEF Registers, RegistersOpen
  <2>3. job.version = documents[f].version
    BY <1>4, <2>1, <2>2 DEF Registration
  <2>4. job \in RunningOn(u, f)
    BY <1>2, <1>4 DEF RunningOn
  <2>5. Informed(u, job.world)
    BY <1>4, <1>5, <1>6, <1>14
  <2> QED
    BY <2>3, <2>4, <2>5 DEF Analyzed
<1>17. ASSUME NEW g \in Files, documents[g] # None, g \notin u.orphaned
       PROVE  AnalyzedSoon(u, q, g) \/ Analyzed(u, g)
  <2>1. CASE g = f
    BY <1>16, <1>17, <2>1 DEF AnalyzedSoon
  <2>2. CASE g # f
    <3>1. g \notin v.orphaned
      BY <1>2, <1>17, <2>2
    <3>2. AnalyzedSoon(v, q, g) => AnalyzedSoon(u, q, g)
      BY <1>2, <1>3, <2>2 DEF AnalyzedSoon
    <3> QED
      BY <1>8, <1>15, <1>17, <2>2, <3>1, <3>2 DEF Tells, Latest
  <2> QED
    BY <2>1, <2>2
<1> QED
  BY <1>13, <1>17 DEF Tells, Latest, u

-----------------------------------------------------------------------------
(* The arms.  What is queued when one ends waits for an analysis.          *)

Busy(w) == (\E f \in Files : w.pending[f] # None) => w.inflight # None

LEMMA TryDispatchTells ==
    ASSUME NEW w, NEW rd, NEW q \in Seq(Request), NEW syncs, Good(w, rd),
           Tracks(w, rd, q, syncs), Tells(w, q), MainTypes,
           NEW x \in TryDispatch(w)
    PROVE  Tells(x, q) /\ Busy(x)
<1> DEFINE v == Unpark(w)
           u == [Cancel(v) EXCEPT !.inflight = None]
           base == IF v.inflight = None THEN v ELSE u
<1>1. WorkerOK(v) /\ Moves(v, w) /\ FilesKnown(v) /\ StillPending(v, w)
  BY UnparkMoves DEF Tracks
<1>2. v.pending = w.pending /\ v.scripts.documents = w.scripts.documents
      /\ Current(v, rd, q, syncs)
  BY UnparkCurrent DEF Tracks
<1>3. RegistrationsAgree(v.scripts.documents)
  BY <1>2 DEF Good, SpansOK
<1>4. x \in Dispatch(v)
  BY DEF TryDispatch
<1> HIDE DEF v
<1>5. Tells(v, q)
  BY <1>1, <1>2, TellsKept DEF Good
<1>6. QueuesRegistered(v) /\ Registers(v, q, syncs)
  BY <1>2 DEF Tracks, QueuesRegistered, Current
<1>7. /\ documents \in [Files -> Document \cup {None}]
      /\ lastVersion \in [Files -> Nat] /\ entry_points \in SUBSET Files
  BY EntriesAssumption DEF MainTypes
<1>8. CASE Decide(v) = {}
  <2>1. x = v
    BY <1>4, <1>8 DEF Dispatch
  <2>2. Busy(v)
    BY <1>8 DEF Busy, Decide
  <2> QED
    BY <1>5, <2>1, <2>2
<1>9. CASE Decide(v) # {}
  <2>1. PICK f \in Decide(v) : x = Start(base, f)
    BY <1>4, <1>9 DEF Dispatch
  <2>2. f \in Files /\ v.pending[f] # None
    BY <2>1 DEF Decide
  <2>3. /\ WorkerOK(base) /\ Tells(base, q) /\ SameTracks(base, v)
        /\ base.inflight = None
    <3>1. CASE v.inflight = None
      BY <1>1, <1>5, <3>1 DEF SameTracks, SameLoads
    <3>2. CASE v.inflight # None
      <4>1. InOrder(v.scripts.documents, q)
        BY <1>6 DEF Registers
      <4>2. WorkerOK(u) /\ Tells(u, q) /\ SameTracks(u, v) /\ u.inflight = None
        BY <1>1, <1>3, <1>5, <1>6, <1>7, <2>1, <3>2, <4>1, SupersedeTells
      <4> QED
        BY <3>2, <4>2
    <3> QED
      BY <3>1, <3>2
  <2> HIDE DEF base
  <2>4. /\ base.scripts = v.scripts /\ base.files = v.files
        /\ base.crossed = v.crossed /\ base.pending = v.pending
    BY <2>3 DEF SameTracks, SameLoads
  <2>5. /\ FilesKnown(base) /\ QueuesRegistered(base) /\ Registers(base, q, syncs)
        /\ RegistrationsAgree(base.scripts.documents)
    BY <1>1, <1>3, <1>6, <2>4 DEF FilesKnown, QueuesRegistered, Registers
  <2>6. Tells(x, q)
    BY <1>7, <2>1, <2>2, <2>3, <2>4, <2>5, StartTells
  <2>7. x.inflight # None
    <3>1. WorkerOK(base) /\ f \in Files /\ base.pending[f] # None
      BY <2>2, <2>3, <2>4
    <3>2. Start(base, f).inflight # None
      BY <3>1, StartFields
    <3> QED
      BY <2>1, <3>2
  <2> QED
    BY <2>6, <2>7 DEF Busy
<1> QED
  BY <1>8, <1>9

LEMMA EnqueueTells ==
    ASSUME NEW w, NEW rd, NEW q \in Seq(Request), NEW syncs, q # <<>>,
           Good(w, rd), Tracks(w, rd, q, syncs), Tells(w, q), MainTypes
    PROVE  Tells(Enqueue(w, Head(q)), Tail(q))
<1> DEFINE req == Head(q)
           t == Tail(q)
           v == Enqueue(w, req)
<1>1. /\ req = q[1] /\ 1 \in DOMAIN q /\ req \in Request
      /\ \A i \in DOMAIN t : i + 1 \in DOMAIN q /\ t[i] = q[i + 1]
      /\ \A i \in DOMAIN q : i # 1 => i - 1 \in DOMAIN t /\ t[i - 1] = q[i]
  BY TailIndices
<1>2. req.uri \in Files /\ req.version \in Nat /\ req # None
  BY <1>1, NoneAssumption DEF Request
<1> HIDE DEF req, t
<1>3. /\ WorkerOK(v) /\ Moves(v, w) /\ StillPending(v, w)
      /\ \A f \in Files : v.pending[f] = IF f = req.uri
                                         THEN Newest(w.pending[f], req)
                                         ELSE w.pending[f]
  BY <1>1, EnqueueMoves DEF Tracks
<1>4. WorkerOK(w) /\ w.pending \in [Files -> Request \cup {None}]
  BY DEF Good, WorkerOK, WorkerRecord
<1>5. /\ Newest(w.pending[req.uri], req) # None
      /\ Newest(w.pending[req.uri], req).version \in {req.version} \cup
           {n \in Nat : w.pending[req.uri] # None
                        /\ n = w.pending[req.uri].version}
  <2>1. CASE w.pending[req.uri] = None
    BY <1>2, <2>1 DEF Newest
  <2>2. CASE w.pending[req.uri] # None
    <3>1. PICK old \in Request : old = w.pending[req.uri]
      BY <1>2, <1>4, <2>2
    <3>2. old # None /\ old.version \in Nat
      BY NoneAssumption DEF Request
    <3>3. Newest(old, req) \in Request
      BY <1>1, NewestType
    <3>4. Newest(old, req) # None
      BY <3>3, NoneAssumption
    <3>5. Newest(old, req).version \in {req.version, old.version}
      BY <3>2 DEF Newest, Request
    <3> QED
      BY <3>1, <3>2, <3>4, <3>5
  <2> QED
    BY <2>1, <2>2
<1> HIDE DEF v
<1>6. ASSUME NEW f \in Files, NEW n \in Nat, Behind(w, q, f, n)
      PROVE  Behind(v, t, f, n)
  <2>1. \A i \in DOMAIN t : t[i].uri = f => n < t[i].version
    BY <1>1, <1>6 DEF Behind
  <2>2. f = req.uri => n < req.version
    BY <1>1, <1>6 DEF Behind
  <2>3. v.pending[f] # None => n < v.pending[f].version
    BY <1>3, <1>5, <1>6, <2>2 DEF Behind
  <2> QED
    BY <1>6, <2>1, <2>3 DEF Behind
<1>7. Slots(v, t)
  BY <1>3, <1>4, <1>6, SlotsKept DEF Tells
<1>8. ASSUME NEW f \in Files, AnalyzedSoon(w, q, f) PROVE AnalyzedSoon(v, t, f)
  <2>1. CASE f = req.uri
    BY <1>3, <1>5, <2>1 DEF AnalyzedSoon
  <2>2. CASE f # req.uri
    <3>1. Requested(q, f) => Requested(t, f)
      BY <1>1, <2>2 DEF Requested
    <3> QED
      BY <1>3, <1>8, <2>2, <3>1 DEF AnalyzedSoon
  <2> QED
    BY <2>1, <2>2
<1>9. Latest(v, t)
  BY <1>3, <1>4, <1>8, LatestKept DEF Tells
<1> QED
  BY <1>7, <1>9 DEF Tells, v, t, req

LEMMA ClosedOrChangedPending ==
    ASSUME NEW w, WorkerOK(w), NEW f \in Files
    PROVE  ClosedOrChanged(w, f).pending = w.pending
<1> DEFINE docs == [w.scripts.documents EXCEPT ![f] = None]
           crossing == IF w.scripts.documents[f] # None /\ documents[f] # None
                       THEN w.crossed \cup {f} ELSE w.crossed
           v == Reregistered(w, docs, crossing)
           noted == IF w.scripts.loading THEN w.missed \cup {f} ELSE w.missed
           u == [w EXCEPT !.missed = noted]
<1>1. /\ w.scripts.documents \in Registrations /\ w \in WorkerRecord
      /\ crossing \in SUBSET Files
  BY DEF WorkerOK, WorkerRecord, Scripts
<1>2. docs \in Registrations
  BY <1>1 DEF Registrations
<1>3. ClosedOrChanged(w, f) \in {u, Reload(SetPending(v)), v}
  BY DEF ClosedOrChanged, Reregistered
<1> HIDE DEF docs, crossing, noted
<1>4. WorkerOK(v) /\ v.pending = w.pending
  BY <1>1, <1>2, ReregisteredFields
<1> HIDE DEF v
<1>5. Reload(SetPending(v)).pending = v.pending
  BY <1>4, PendingReloadFiles
<1>6. u.pending = w.pending
  BY <1>1 DEF WorkerRecord
<1> QED
  BY <1>3, <1>4, <1>5, <1>6

LEMMA OnSyncPending ==
    ASSUME NEW w, WorkerOK(w), NEW f \in Files,
           disk \in [Files -> Texts \cup {Unreadable}]
    PROVE  \A g \in Files : OnSync(w, f).pending[g]
                              = IF g = f THEN None ELSE w.pending[g]
<1> DEFINE pnd == [w.pending EXCEPT ![f] = None]
           gone == IF w.pending[f] # None THEN w.orphaned \cup {f} ELSE w.orphaned
           u == [w EXCEPT !.pending = pnd, !.orphaned = gone]
           v == Revert(u, f)
<1>1. /\ w \in WorkerRecord /\ IsFiniteSet(w.jobs)
      /\ w.pending \in [Files -> Request \cup {None}] /\ w.orphaned \in SUBSET Files
  BY DEF WorkerOK, WorkerRecord
<1>2. /\ pnd \in [Files -> Request \cup {None}] /\ gone \in SUBSET Files
      /\ \A g \in Files : pnd[g] = IF g = f THEN None ELSE w.pending[g]
  BY <1>1
<1>3. OnSync(w, f) = ClosedOrChanged(v, f)
  BY DEF OnSync, DropQueued
<1> HIDE DEF pnd, gone
<1>4. u \in WorkerRecord /\ u.pending = pnd /\ u.jobs = w.jobs
  BY <1>1, <1>2 DEF WorkerRecord
<1> HIDE DEF u
<1>5. WorkerOK(u)
  BY <1>1, <1>4 DEF WorkerOK
<1>6. WorkerOK(v) /\ v.pending = u.pending
  <2>1. disk[f] \in Texts \cup {Unreadable}
    OBVIOUS
  <2> QED
    BY <1>5, <2>1, UpsertOK DEF Revert
<1> HIDE DEF v
<1>7. ClosedOrChanged(v, f).pending = v.pending
  BY <1>6, ClosedOrChangedPending
<1> QED
  BY <1>2, <1>3, <1>4, <1>6, <1>7

LEMMA OnSyncTells ==
    ASSUME NEW w, NEW rd, NEW q, q = <<>>, NEW f \in Files, Good(w, rd),
           FilesKnown(w), Tells(w, q), disk \in [Files -> Texts \cup {Unreadable}]
    PROVE  Tells(OnSync(w, f), q)
<1> DEFINE v == OnSync(w, f)
<1>1. /\ Moves(v, w) /\ StillPending(v, w)
      /\ w.pending[f] # None => f \in v.orphaned
  BY OnSyncMoves
<1>2. \A g \in Files : v.pending[g] = IF g = f THEN None ELSE w.pending[g]
  BY OnSyncPending DEF Good
<1> HIDE DEF v
<1>3. \A g \in Files : \A n \in Nat : Behind(w, q, g, n) => Behind(v, q, g, n)
  BY <1>2 DEF Behind
<1>4. Slots(v, q)
  BY <1>1, <1>3, SlotsKept DEF Tells, Good
<1>5. \A g \in Files : g \notin v.orphaned /\ AnalyzedSoon(w, q, g)
                         => AnalyzedSoon(v, q, g)
  BY <1>1, <1>2 DEF AnalyzedSoon
<1>6. Latest(v, q)
  BY <1>1, <1>5, LatestKept DEF Tells, Good
<1> QED
  BY <1>4, <1>6 DEF Tells, v

(* A result that is parked changes nothing else; one that is installed     *)
(* refreshes whoever was told that programs are pending.                   *)
LEMMA LoadedTells ==
    ASSUME NEW w, NEW rd \in Seq(Loaded), NEW q, NEW syncs, rd # <<>>,
           Good(w, rd), Tracks(w, rd, q, syncs), Tells(w, q)
    PROVE  LET v == OnScriptsLoaded(w, Head(rd))
           IN Tells(v, q) /\ v.pending = w.pending /\ v.inflight = w.inflight
<1> DEFINE l == Head(rd)
           v == [w EXCEPT !.parked = l]
           u == Install(w, l)
<1>1. l \in Loaded /\ Numbered(w, l.job)
  <2>1. l = rd[1] /\ 1 \in DOMAIN rd /\ l \in Loaded
    BY HeadAndTail
  <2> QED
    BY <2>1 DEF Good, LoadsOK
<1>2. OnScriptsLoaded(w, l) = IF w.inflight = None THEN u ELSE v
  BY DEF OnScriptsLoaded
<1> HIDE DEF l
<1>3. w \in WorkerRecord /\ WorkerOK(w)
  BY DEF Good, WorkerOK
<1>4. Tells(u, q) /\ u.pending = w.pending /\ u.inflight = w.inflight
  <2>1. Moves(u, w) /\ StillPending(u, w) /\ u.pending = w.pending
    BY <1>1, <1>3, InstallMoves DEF Tracks
  <2> HIDE DEF u
  <2>2. u.inflight = w.inflight
    BY <2>1 DEF Moves
  <2> QED
    BY <1>3, <2>1, <2>2, TellsKept
<1>5. Tells(v, q) /\ v.pending = w.pending /\ v.inflight = w.inflight
  <2>1. /\ v.pending = w.pending /\ v.inflight = w.inflight /\ v.jobs = w.jobs
        /\ v.orphaned = w.orphaned /\ v.out = w.out /\ v.files = w.files
    BY <1>3 DEF WorkerRecord
  <2> HIDE DEF v
  <2>2. Moves(v, w) /\ StillPending(v, w)
    BY <1>3, <2>1, MovesItself DEF StillPending, Announces
  <2> QED
    BY <1>3, <2>1, <2>2, TellsKept
<1> HIDE DEF u, v
<1> QED
  BY <1>2, <1>4, <1>5 DEF l

LEMMA LibraryTells ==
    ASSUME NEW w, NEW q, WorkerOK(w), Tells(w, q), NEW found \in Harvests
    PROVE  LET v == PublishGraphDiagnostics([Cancel(w) EXCEPT !.package = found])
           IN Tells(v, q) /\ v.pending = w.pending /\ v.inflight = w.inflight
<1> DEFINE c == Cancel(w)
           u == [c EXCEPT !.package = found]
           v == PublishGraphDiagnostics(u)
<1>1. /\ WorkerOK(c) /\ Moves(c, w) /\ c.inflight = w.inflight
      /\ c.pending = w.pending
  BY CancelOK, CancelLeaves, CancelMoves
<1> HIDE DEF c
<1>2. c \in WorkerRecord /\ IsFiniteSet(c.jobs)
      /\ found \in [Files -> SUBSET PackageFinding]
  BY <1>1, HarvestsAssumption DEF WorkerOK
<1>3. u \in WorkerRecord
  BY <1>2 DEF WorkerRecord
<1>4. /\ u.pending = c.pending /\ u.inflight = c.inflight /\ u.jobs = c.jobs
      /\ u.orphaned = c.orphaned /\ u.out = c.out
  BY <1>2 DEF WorkerRecord
<1> HIDE DEF u
<1>5. WorkerOK(u) /\ Moves(u, c)
  BY <1>1, <1>2, <1>3, <1>4, MovesItself DEF WorkerOK
<1>6. /\ WorkerOK(v) /\ Moves(v, u) /\ Refreshing(v)
      /\ v.pending = u.pending /\ v.inflight = u.inflight
  BY <1>5, PublishMoves, PublishLeaves
<1> HIDE DEF v
<1>7. Moves(u, w)
  BY <1>1, <1>5, MovesTrans
<1>8. Moves(v, w) /\ StillPending(v, w)
  BY <1>5, <1>6, <1>7, MovesTrans DEF StillPending
<1>9. v.pending = w.pending /\ v.inflight = w.inflight
  BY <1>1, <1>4, <1>6
<1>10. Tells(v, q)
  BY <1>8, <1>9, TellsKept
<1> QED
  BY <1>9, <1>10 DEF v, u, c

(* What remains when the running analysis is done is over, and behind.     *)
LEMMA EndedTells ==
    ASSUME NEW w, NEW q, WorkerOK(w), Tells(w, q), NEW job \in w.jobs,
           job.phase = "done"
    PROVE  Tells(Ended(w, job), q)
<1> DEFINE js == w.jobs \ {job}
           b == [w EXCEPT !.jobs = js]
           free == [b EXCEPT !.inflight = None]
           mine == b.inflight = [uri |-> job.uri, version |-> job.version]
<1>1. w \in WorkerRecord /\ w.jobs \in SUBSET Job
  BY DEF WorkerOK, WorkerRecord
<1>2. js \in SUBSET Job
  BY <1>1
<1>3. Ended(w, job) = IF mine THEN free ELSE b
  BY DEF Ended
<1>4. \A j \in js : j \in w.jobs /\ j # job
  OBVIOUS
<1>5. \A f : RunningOn(w, f) = {j \in js : j.phase = "running" /\ j.uri = f}
  BY <1>1 DEF RunningOn
<1> HIDE DEF js
<1>6. b \in WorkerRecord
  BY <1>1, <1>2 DEF WorkerRecord
<1>7. /\ b.jobs = js /\ b.inflight = w.inflight /\ b.pending = w.pending
      /\ b.out = w.out /\ b.files = w.files /\ b.orphaned = w.orphaned
  BY <1>1 DEF WorkerRecord
<1> HIDE DEF b
<1>8. /\ free.jobs = js /\ free.inflight = None /\ free.pending = w.pending
      /\ free.out = w.out /\ free.files = w.files /\ free.orphaned = w.orphaned
  BY <1>6, <1>7 DEF WorkerRecord
<1> HIDE DEF free
<1>9. ASSUME NEW v, v.jobs = js, v.pending = w.pending, v.out = w.out,
             v.files = w.files, v.orphaned = w.orphaned
      PROVE  /\ Latest(v, q)
             /\ \A j \in js : Behind(w, q, j.uri, j.version) =>
                  Behind(v, q, j.uri, j.version)
  <2>1. \A x : Informed(w, x) => Informed(v, x)
    BY <1>9 DEF Informed, Refreshing, Announces
  <2>2. \A f : RunningOn(v, f) = RunningOn(w, f)
    BY <1>5, <1>9 DEF RunningOn
  <2>3. \A f : Told(w, f) => Told(v, f)
    BY <1>9, <2>1 DEF Told
  <2>4. \A f : Analyzed(w, f) => Analyzed(v, f)
    BY <2>1, <2>2, <2>3 DEF Analyzed
  <2>5. Latest(v, q)
    BY <1>9, <2>4 DEF Tells, Latest, AnalyzedSoon
  <2> QED
    BY <1>9, <2>5 DEF Behind
<1>10. CASE mine
  <2>1. IsFlight(w, job)
    BY <1>7, <1>10 DEF IsFlight
  <2>2. \A j \in js : ~IsFlight(w, j)
    BY <1>4, <2>1 DEF Tells, Slots
  <2>3. \A j \in js : j.phase = "done" /\ Behind(free, q, j.uri, j.version)
    BY <1>4, <1>8, <1>9, <2>2 DEF Tells, Slots
  <2>4. \A j \in js : ~IsFlight(free, j)
    BY <1>2, <1>8, FlightOfJob
  <2>5. Slots(free, q)
    BY <1>8, <2>3, <2>4 DEF Slots
  <2>6. Latest(free, q)
    BY <1>8, <1>9
  <2> QED
    BY <1>3, <1>10, <2>5, <2>6 DEF Tells
<1>11. CASE ~mine
  <2>1. \A j \in js : IsFlight(b, j) <=> IsFlight(w, j)
    BY <1>7 DEF IsFlight
  <2>2. \A j \in js : Behind(w, q, j.uri, j.version) => Behind(b, q, j.uri, j.version)
    BY <1>7, <1>9
  <2>3. Slots(b, q)
    BY <1>4, <1>7, <2>1, <2>2 DEF Tells, Slots
  <2>4. Latest(b, q)
    BY <1>7, <1>9
  <2> QED
    BY <1>3, <1>11, <2>3, <2>4 DEF Tells
<1> QED
  BY <1>10, <1>11

-----------------------------------------------------------------------------
(* The third invariant of the system, and the step of another thread.      *)

ToldInv ==
    /\ Tells(Worker("linting"), analysis_rx)
    /\ arm = <<>> => Busy(Worker("linting"))

SameTells(v, w) == SameLatest(v, w) /\ v.inflight = w.inflight

LEMMA TellsAfter ==
    ASSUME NEW w, w = Worker("linting")', NEW q, q = analysis_rx',
           Tells(w, q)', arm' = <<>> => Busy(w)
    PROVE  ToldInv'
<1>1. Slots(Worker("linting"), analysis_rx)'
  BY DEF Tells, Slots, IsFlight, Behind
<1>2. \A f : (Analyzed(w, f) => Analyzed(Worker("linting"), f))'
  <2>1. \A x : (Informed(w, x) => Informed(Worker("linting"), x))'
    BY DEF Informed, Refreshing, Announces
  <2>2. \A f : (Told(w, f) => Told(Worker("linting"), f))'
    BY <2>1 DEF Told
  <2>3. \A f : (RunningOn(w, f) = RunningOn(Worker("linting"), f))'
    BY DEF RunningOn
  <2> QED
    BY <2>1, <2>2, <2>3 DEF Analyzed
<1>3. Latest(Worker("linting"), analysis_rx)'
  BY <1>2 DEF Tells, Latest, AnalyzedSoon, Requested
<1>4. (arm = <<>> => Busy(Worker("linting")))'
  BY DEF Busy
<1> QED
  BY <1>1, <1>3, <1>4 DEF ToldInv, Tells

(* The same worker, in a state with the same buffers.                      *)
LEMMA TellsStep ==
    ASSUME NEW w, NEW v, NEW q, Tells(w, q), SameTells(v, w),
           UNCHANGED <<documents, lastVersion, linted>>
    PROVE  Tells(v, q)'
<1>1. Slots(v, q)'
  BY DEF SameTells, SameLatest, Tells, Slots, IsFlight, Behind
<1>2. Latest(v, q)
  BY LatestSame DEF SameTells, Tells
<1>3. \A f : Analyzed(v, f) => Analyzed(v, f)'
  BY DEF Analyzed, Told
<1>4. Latest(v, q)'
  BY <1>2, <1>3 DEF Latest
<1> QED
  BY <1>1, <1>4 DEF Tells

LEMMA CommitTells ==
    ASSUME NEW v, NEW q, Tells(v, q), Commit(v), analysis_rx' = q,
           UNCHANGED analysisThreadUnchanged, arm' = <<>> => Busy(v)
    PROVE  ToldInv'
<1>1. PICK u : u = Worker("linting")'
  OBVIOUS
<1>2. SameTells(u, v)
  BY <1>1 DEF Worker, Commit, SameTells, SameLatest
<1>3. UNCHANGED <<documents, lastVersion, linted>>
  BY DEF analysisThreadUnchanged, mainVars
<1>4. Tells(u, q)'
  BY <1>2, <1>3, TellsStep
<1>5. arm' = <<>> => Busy(u)
  BY <1>2 DEF Busy, SameTells, SameLatest
<1> QED
  BY <1>1, <1>4, <1>5, TellsAfter

tellVars == <<arm, pending, inflight, script_files, jobs, out_rx, orphaned>>

LEMMA QuietTells ==
    ASSUME ToldInv,
           UNCHANGED <<tellVars, documents, lastVersion, linted, analysis_rx>>
    PROVE  ToldInv'
<1>1. PICK w : w = Worker("linting")
  OBVIOUS
<1>2. PICK v : v = Worker("linting")'
  OBVIOUS
<1>3. PICK q : q = analysis_rx
  OBVIOUS
<1>4. SameTells(v, w)
  BY <1>1, <1>2 DEF Worker, tellVars, SameTells, SameLatest
<1>5. Tells(w, q)
  BY <1>1, <1>3 DEF ToldInv
<1>6. Tells(v, q)'
  BY <1>4, <1>5, TellsStep
<1>7. arm' = <<>> => Busy(v)
  BY <1>1, <1>4 DEF ToldInv, Busy, tellVars, SameTells, SameLatest
<1> QED
  BY <1>2, <1>3, <1>6, <1>7, TellsAfter

(* Requests no older than the client's last versions join the channel; a   *)
(* document that is not asked for is as it was.                            *)
LEMMA OutsideTells ==
    ASSUME IndInv, ToldInv, UNCHANGED <<arm, pending, inflight, jobs, orphaned>>,
           NEW w, w = Worker("linting"), NEW v, v = Worker("linting")',
           NEW more \in Seq(Request), analysis_rx' = analysis_rx \o more,
           lastVersion' \in [Files -> Nat],
           \A f \in Files : lastVersion[f] <= lastVersion'[f],
           \A k \in DOMAIN more : lastVersion[more[k].uri] <= more[k].version,
           \A f \in Files : documents'[f] # None =>
             \/ Requested(more, f)
             \/ /\ documents'[f] = documents[f]
                /\ Analyzed(w, f) => Analyzed(v, f)'
    PROVE  ToldInv'
<1>1. PICK q \in Seq(Request) : q = analysis_rx
  BY ChannelFacts
<1>2. PICK r : r = analysis_rx'
  OBVIOUS
<1>3. Joins(q, more, r)
  BY <1>1, <1>2, ConcatJoins
<1>4. /\ v.pending = w.pending /\ v.jobs = w.jobs /\ v.inflight = w.inflight
      /\ v.orphaned = w.orphaned
  BY DEF Worker
<1>5. w.jobs \subseteq Job /\ Tells(w, q) /\ lastVersion \in [Files -> Nat]
  BY <1>1 DEF IndInv, TypeOK, MainTypes, WorkerTypes, Worker, ToldInv
<1>6. ASSUME NEW f \in Files, NEW n \in Nat, Behind(w, q, f, n)
      PROVE  Behind(v, r, f, n)'
  <2>1. n < lastVersion'[f]
    BY <1>5, <1>6 DEF Behind
  <2>2. ASSUME NEW i \in DOMAIN r, r[i].uri = f PROVE n < r[i].version
    <3>1. CASE i \in DOMAIN q /\ r[i] = q[i]
      BY <1>6, <2>2, <3>1 DEF Behind
    <3>2. CASE i - Len(q) \in DOMAIN more /\ r[i] = more[i - Len(q)]
      <4>1. PICK k \in DOMAIN more : r[i] = more[k]
        BY <3>2
      <4>2. more[k] \in Request
        OBVIOUS
      <4>3. lastVersion[f] <= r[i].version /\ r[i].version \in Nat
        BY <2>2, <4>1, <4>2 DEF Request
      <4> QED
        BY <1>5, <1>6, <4>3 DEF Behind
    <3> QED
      BY <1>3, <3>1, <3>2, JoinedIndex
  <2> QED
    BY <1>4, <1>6, <2>1, <2>2 DEF Behind
<1>7. Slots(v, r)'
  <2>1. \A j \in w.jobs : j.uri \in Files /\ j.version \in Nat
    BY <1>5, FlightOfJob
  <2> QED
    BY <1>4, <1>5, <1>6, <2>1 DEF Tells, Slots, IsFlight
<1>8. ASSUME NEW f \in Files
      PROVE  Requested(q, f) \/ Requested(more, f) => Requested(r, f)
  <2>1. \A i \in DOMAIN q : i \in DOMAIN r /\ r[i] = q[i]
    BY <1>3 DEF Joins
  <2>2. \A i \in DOMAIN more : Len(q) + i \in DOMAIN r /\ r[Len(q) + i] = more[i]
    BY <1>3 DEF Joins
  <2> QED
    BY <2>1, <2>2 DEF Requested
<1>9. Latest(v, r)'
  <2> SUFFICES ASSUME NEW f \in Files, documents'[f] # None, f \notin v.orphaned
               PROVE  AnalyzedSoon(v, r, f) \/ Analyzed(v, f)'
    BY DEF Latest, AnalyzedSoon
  <2>1. CASE Requested(more, f)
    BY <1>8, <2>1 DEF AnalyzedSoon
  <2>2. CASE /\ documents'[f] = documents[f]
             /\ Analyzed(w, f) => Analyzed(v, f)'
    <3>1. AnalyzedSoon(w, q, f) \/ Analyzed(w, f)
      BY <1>4, <1>5, <2>2 DEF Tells, Latest
    <3> QED
      BY <1>4, <1>8, <2>2, <3>1 DEF AnalyzedSoon
  <2> QED
    BY <2>1, <2>2
<1>10. Tells(v, r)'
  BY <1>7, <1>9 DEF Tells
<1>11. arm' = <<>> => Busy(v)
  BY <1>4 DEF ToldInv, Busy
<1> QED
  BY <1>2, <1>10, <1>11, TellsAfter

LEMMA OtherAnalyzed ==
    ASSUME NEW w, NEW v, v.jobs = w.jobs, v.out = w.out, v.files = w.files,
           NEW f \in Files, documents'[f] = documents[f], linted'[f] = linted[f]
    PROVE  Analyzed(w, f) => Analyzed(v, f)'
<1>1. Analyzed(w, f) => Analyzed(v, f)
  BY AnalyzedSame
<1>2. Told(v, f) => Told(v, f)'
  BY DEF Told
<1> QED
  BY <1>1, <1>2 DEF Analyzed

LEMMA SetDocumentTells ==
    ASSUME IndInv, ToldInv, NEW f \in Files, NEW t \in Buffers[f],
           SetDocument(f, t)
    PROVE  ToldInv'
<1> DEFINE doc == [version |-> lastVersion[f] + 1, text |-> t]
           req == RequestFor(f, doc, entry_points)
<1>1. /\ documents' = [documents EXCEPT ![f] = doc]
      /\ lastVersion' = [lastVersion EXCEPT ![f] = @ + 1]
      /\ analysis_rx' = Append(analysis_rx, req)
      /\ UNCHANGED <<fileVars, graphVars, linted, sync_rx, load_rx, ready,
                     out_rx, loader, workerVars, jobs, historyVars>>
  BY DEF SetDocument
<1>2. /\ lastVersion \in [Files -> Nat] /\ documents \in [Files -> Document \cup {None}]
      /\ t \in Texts /\ entry_points \in SUBSET Files
      /\ analysis_rx \in Seq(Request)
  BY TextsAssumption, EntriesAssumption DEF IndInv, TypeOK, MainTypes, ChannelTypes
<1>3. req \in Request /\ req.uri = f /\ req.version = lastVersion[f] + 1
  BY <1>2 DEF RequestFor, Request
<1> HIDE DEF req
<1>4. PICK more \in Seq(Request) : more = <<req>>
  <2>1. <<req>> \in Seq(Request)
    BY <1>3
  <2> QED
    BY <2>1
<1>5. analysis_rx' = analysis_rx \o more
  BY <1>1, <1>2, <1>3, <1>4
<1>6. \A g \in Files : lastVersion[g] <= lastVersion'[g]
  BY <1>1, <1>2
<1>7. lastVersion' \in [Files -> Nat]
  BY <1>1, <1>2
<1>8. DOMAIN more = {1} /\ more[1] = req
  BY <1>4
<1>9. \A k \in DOMAIN more : lastVersion[more[k].uri] <= more[k].version
  BY <1>2, <1>3, <1>8
<1>10. Requested(more, f)
  BY <1>3, <1>8 DEF Requested
<1>11. PICK w : w = Worker("linting")
  OBVIOUS
<1>12. PICK v : v = Worker("linting")'
  OBVIOUS
<1>13. v.jobs = w.jobs /\ v.out = w.out /\ v.files = w.files
  BY <1>1, <1>11, <1>12 DEF Worker, workerVars
<1>14. \A g \in Files : g # f => /\ documents'[g] = documents[g]
                                 /\ Analyzed(w, g) => Analyzed(v, g)'
  BY <1>1, <1>2, <1>13, OtherAnalyzed
<1> QED
  BY <1>1, <1>5, <1>6, <1>7, <1>9, <1>10, <1>11, <1>12, <1>14, OutsideTells
     DEF workerVars, historyVars

LEMMA NothingAsked ==
    /\ <<>> \in Seq(Request)
    /\ \A q \in Seq(Request) : q \o <<>> = q
    /\ DOMAIN <<>> = {}
OBVIOUS

(* A step that asks nothing and lets no buffer change.                     *)
LEMMA AnsweredTells ==
    ASSUME IndInv, ToldInv,
           UNCHANGED <<arm, pending, inflight, jobs, orphaned, analysis_rx,
                       lastVersion>>,
           NEW w, w = Worker("linting"), NEW v, v = Worker("linting")',
           \A f \in Files : documents'[f] # None =>
             /\ documents'[f] = documents[f]
             /\ Analyzed(w, f) => Analyzed(v, f)'
    PROVE  ToldInv'
<1>1. PICK more \in Seq(Request) : more = <<>>
  BY NothingAsked
<1>2. analysis_rx' = analysis_rx \o more
  BY <1>1, NothingAsked, ChannelFacts
<1>3. \A k \in DOMAIN more : lastVersion[more[k].uri] <= more[k].version
  BY <1>1, NothingAsked
<1>4. /\ lastVersion' \in [Files -> Nat]
      /\ \A f \in Files : lastVersion[f] <= lastVersion'[f]
  BY DEF IndInv, TypeOK, MainTypes
<1> QED
  BY <1>2, <1>3, <1>4, OutsideTells

LEMMA DidCloseTells ==
    ASSUME IndInv, ToldInv, NEW f \in Files, DidClose(f)
    PROVE  ToldInv'
<1>1. /\ documents' = [documents EXCEPT ![f] = None]
      /\ linted' = [linted EXCEPT ![f] = None]
      /\ UNCHANGED <<fileVars, lastVersion, graph_diags, graph_versions,
                     analysis_rx, load_rx, ready, out_rx, loader, workerVars,
                     jobs, historyVars>>
  BY DEF DidClose
<1>2. /\ documents \in [Files -> Document \cup {None}]
      /\ linted \in [Files -> Worlds \cup {None}]
  BY DEF IndInv, TypeOK, MainTypes
<1>3. PICK w : w = Worker("linting")
  OBVIOUS
<1>4. PICK v : v = Worker("linting")'
  OBVIOUS
<1>5. v.jobs = w.jobs /\ v.out = w.out /\ v.files = w.files
  BY <1>1, <1>3, <1>4 DEF Worker, workerVars
<1>6. \A g \in Files : documents'[g] # None =>
        documents'[g] = documents[g] /\ linted'[g] = linted[g]
  BY <1>1, <1>2
<1>7. \A g \in Files : documents'[g] # None =>
        /\ documents'[g] = documents[g]
        /\ Analyzed(w, g) => Analyzed(v, g)'
  BY <1>5, <1>6, OtherAnalyzed
<1> QED
  BY <1>1, <1>3, <1>4, <1>7, AnsweredTells DEF workerVars, historyVars

LEMMA RefreshTells ==
    ASSUME IndInv, LastVersions, ToldInv, NEW entries \in SUBSET Files,
           analysis_rx' = analysis_rx \o RefreshOpen(entries),
           UNCHANGED <<documents, lastVersion, arm, pending, inflight, jobs,
                       orphaned>>
    PROVE  ToldInv'
<1>1. PICK more : more = RefreshOpen(entries)
  OBVIOUS
<1>2. /\ more \in Seq(Request)
      /\ \A k \in DOMAIN more :
           /\ more[k].uri \in Files /\ documents[more[k].uri] # None
           /\ more[k] = RequestFor(more[k].uri, documents[more[k].uri], entries)
      /\ \A f \in OpenDocs : \E k \in DOMAIN more : more[k].uri = f
  BY <1>1, RefreshFacts
<1>3. lastVersion' \in [Files -> Nat] /\ LastVersions
      /\ \A f \in Files : lastVersion[f] <= lastVersion'[f]
  BY DEF IndInv, TypeOK, MainTypes
<1>4. \A k \in DOMAIN more : lastVersion[more[k].uri] <= more[k].version
  BY <1>2, <1>3 DEF LastVersions, RequestFor
<1>5. \A f \in Files : documents'[f] # None => Requested(more, f)
  BY <1>2 DEF OpenDocs, Requested
<1>6. PICK w : w = Worker("linting")
  OBVIOUS
<1>7. PICK v : v = Worker("linting")'
  OBVIOUS
<1>8. analysis_rx' = analysis_rx \o more
  BY <1>1
<1>9. \A f \in Files : documents'[f] # None =>
        \/ Requested(more, f)
        \/ /\ documents'[f] = documents[f]
           /\ Analyzed(w, f) => Analyzed(v, f)'
  BY <1>5
<1>10. UNCHANGED <<arm, pending, inflight, jobs, orphaned>>
  OBVIOUS
<1> QED
  BY <1>2, <1>3, <1>4, <1>6, <1>7, <1>8, <1>9, <1>10, OutsideTells

(* The first message is received; a report of the document's version that  *)
(* it brings is what the document shows from then on.                      *)
LEMMA ConsumedTells ==
    ASSUME NEW w, NEW v, NEW f \in Files, NEW o, o = w.out,
           w.out \in Seq(Outbound), o # <<>>, v.out = Tail(o),
           v.jobs = w.jobs, v.files = w.files, o[1].kind # "refresh",
           documents'[f] = documents[f],
           linted'[f] = IF IsReport(o[1], f, documents[f].version)
                        THEN o[1].world ELSE linted[f]
    PROVE  Analyzed(w, f) => Analyzed(v, f)'
<1> DEFINE n == documents[f].version
<1>1. PICK t : t = Tail(o)
  OBVIOUS
<1>2. /\ 1 \in DOMAIN o
      /\ \A i \in DOMAIN t : /\ i + 1 \in DOMAIN o /\ 1 < i + 1
                             /\ t[i] = o[i + 1]
      /\ \A i \in DOMAIN o : i # 1 => i - 1 \in DOMAIN t /\ t[i - 1] = o[i]
  BY <1>1, TailIndices
<1>3. o \in Seq(Outbound) /\ t \in Seq(Outbound)
  BY <1>1, TailIndices
<1>4. (\A i \in DOMAIN o : i \in Nat) /\ (\A i \in DOMAIN t : i \in Nat)
  BY <1>3
<1>5. \A x : Informed(w, x) => Informed(v, x)
  <2>1. v.out = t /\ w.out = o
    BY <1>1
  <2>2. ASSUME NEW i \in DOMAIN o, o[i].kind = "refresh" PROVE Refreshing(v)
    <3>1. i # 1
      BY <2>2
    <3>2. i - 1 \in DOMAIN t /\ t[i - 1].kind = "refresh"
      BY <1>2, <2>2, <3>1
    <3> QED
      BY <2>1, <3>2 DEF Refreshing
  <2> QED
    BY <2>1, <2>2 DEF Informed, Announces, Refreshing
<1>6. CASE Reported(t, f, n)
  <2>1. Reported(o, f, n)
    BY <1>2, <1>6 DEF Reported
  <2>2. ASSUME NEW x, LastReport(o, f, n, x) PROVE LastReport(t, f, n, x)
    <3>1. PICK i \in DOMAIN o :
            /\ IsReport(o[i], f, n) /\ o[i].world = x
            /\ \A k \in DOMAIN o : i < k => ~IsReport(o[k], f, n)
      BY <2>2 DEF LastReport
    <3>2. PICK k \in DOMAIN t : IsReport(t[k], f, n)
      BY <1>6 DEF Reported
    <3>3. k + 1 \in DOMAIN o /\ 1 < k + 1 /\ IsReport(o[k + 1], f, n)
      BY <1>2, <3>2
    <3>4. i # 1
      BY <3>1, <3>3
    <3>5. i - 1 \in DOMAIN t /\ t[i - 1] = o[i]
      BY <1>2, <3>4
    <3>6. ASSUME NEW m \in DOMAIN t, i - 1 < m PROVE ~IsReport(t[m], f, n)
      <4>1. m + 1 \in DOMAIN o /\ t[m] = o[m + 1]
        BY <1>2
      <4>2. i < m + 1
        BY <1>4, <3>6
      <4> QED
        BY <3>1, <4>1, <4>2
    <3> QED
      BY <3>1, <3>5, <3>6 DEF LastReport
  <2>3. Told(w, f) => Told(v, f)'
    BY <1>1, <1>5, <1>6, <2>1, <2>2 DEF Told
  <2> QED
    BY <1>5, <2>3 DEF Analyzed, RunningOn
<1>7. CASE ~Reported(t, f, n) /\ IsReport(o[1], f, n)
  <2>1. Reported(o, f, n)
    BY <1>2, <1>7 DEF Reported
  <2>2. ASSUME NEW x, LastReport(o, f, n, x) PROVE x = o[1].world
    <3>1. PICK i \in DOMAIN o : IsReport(o[i], f, n) /\ o[i].world = x
      BY <2>2 DEF LastReport
    <3>2. i = 1
      BY <1>2, <1>7, <3>1 DEF Reported
    <3> QED
      BY <3>1, <3>2
  <2>3. Told(w, f) => Informed(w, o[1].world)
    BY <2>1, <2>2 DEF Told
  <2>4. Told(w, f) => Told(v, f)'
    BY <1>1, <1>5, <1>7, <2>3 DEF Told
  <2> QED
    BY <1>5, <2>4 DEF Analyzed, RunningOn
<1>8. CASE ~Reported(t, f, n) /\ ~IsReport(o[1], f, n)
  <2>1. ~Reported(o, f, n)
    BY <1>2, <1>8 DEF Reported
  <2>2. Told(w, f) => Told(v, f)'
    BY <1>1, <1>5, <1>8, <2>1 DEF Told
  <2> QED
    BY <1>5, <2>2 DEF Analyzed, RunningOn
<1> QED
  BY <1>6, <1>7, <1>8

LEMMA OnResultTells ==
    ASSUME IndInv, ToldInv, OnDiagnostics \/ OnProjectDiagnostics
    PROVE  ToldInv'
<1>1. /\ out_rx # <<>> /\ out_rx' = Tail(out_rx)
      /\ Head(out_rx).kind # "refresh"
      /\ UNCHANGED <<documents, lastVersion, analysis_rx, workerVars, jobs,
                     orphaned>>
  BY DEF OnDiagnostics, OnProjectDiagnostics, graphVars, historyVars
<1>2. /\ out_rx \in Seq(Outbound) /\ linted \in [Files -> Worlds \cup {None}]
  BY DEF IndInv, TypeOK, MainTypes, WorkerTypes
<1>3. PICK o \in Seq(Outbound) : o = out_rx
  BY <1>2
<1>4. Head(o) = o[1] /\ o # <<>> /\ o[1] \in Outbound
  BY <1>1, <1>3, TailIndices
<1>5. ASSUME NEW f \in Files, documents[f] # None
      PROVE  linted'[f] = IF IsReport(o[1], f, documents[f].version)
                          THEN o[1].world ELSE linted[f]
  <2>1. CASE OnProjectDiagnostics
    <3>1. o[1].kind = "project" /\ linted' = linted
      BY <1>3, <1>4, <2>1 DEF OnProjectDiagnostics
    <3> QED
      BY <3>1 DEF IsReport
  <2>2. CASE OnDiagnostics
    <3>1. /\ o[1].kind = "diagnostics"
          /\ IF /\ documents[o[1].uri] # None
                /\ documents[o[1].uri].version = o[1].version
             THEN linted' = [linted EXCEPT ![o[1].uri] = o[1].world]
             ELSE linted' = linted
      BY <1>3, <1>4, <2>2 DEF OnDiagnostics
    <3> QED
      BY <1>2, <1>5, <3>1 DEF IsReport
  <2> QED
    BY <2>1, <2>2
<1>6. PICK w : w = Worker("linting")
  OBVIOUS
<1>7. PICK v : v = Worker("linting")'
  OBVIOUS
<1>8. /\ w.out = o /\ v.out = Tail(o) /\ v.jobs = w.jobs /\ v.files = w.files
  BY <1>1, <1>3, <1>6, <1>7 DEF Worker, workerVars
<1>9. o[1].kind # "refresh"
  BY <1>1, <1>3, <1>4
<1>10. ASSUME NEW f \in Files, documents'[f] # None
       PROVE  /\ documents'[f] = documents[f]
              /\ Analyzed(w, f) => Analyzed(v, f)'
  <2>1. documents'[f] = documents[f] /\ documents[f] # None
    BY <1>1, <1>10
  <2> QED
    BY <1>3, <1>4, <1>5, <1>8, <1>9, <2>1, ConsumedTells
<1> QED
  BY <1>1, <1>6, <1>7, <1>10, AnsweredTells DEF workerVars

(* The running analysis reports and is done.                               *)
LEMMA JobFinishTells ==
    ASSUME IndInv, ToldInv, NEW job \in jobs, JobFinish(job)
    PROVE  ToldInv'
<1> DEFINE k == Unwound(job)
           report == ReportOf(job, job.world)
<1>1. /\ job.phase = "running" /\ jobs' = (jobs \ {job}) \cup {k}
      /\ out_rx' = Append(out_rx, report)
      /\ UNCHANGED <<fileVars, mainVars, analysis_rx, sync_rx, load_rx, ready,
                     loader, workerVars, budget, historyVars>>
  BY DEF JobFinish, Running, Unwound
<1>2. job \in Job /\ jobs \subseteq Job /\ out_rx \in Seq(Outbound)
  BY DEF IndInv, TypeOK, WorkerTypes
<1>3. /\ k \in Job /\ k.phase = "done" /\ k.uri = job.uri
      /\ k.version = job.version
  BY <1>2, UnwoundJob
<1>4. /\ report.kind = "diagnostics" /\ report.uri = job.uri
      /\ report.version = job.version /\ report.world = job.world
      /\ report \in Outbound
  BY <1>2 DEF ReportOf, Job, Outbound
<1> HIDE DEF k, report
<1>5. PICK w : w = Worker("linting")
  OBVIOUS
<1>6. PICK v : v = Worker("linting")'
  OBVIOUS
<1>7. PICK q : q = analysis_rx
  OBVIOUS
<1>8. /\ w.jobs = jobs /\ w.out = out_rx /\ v.out = out_rx'
      /\ v.jobs = (w.jobs \ {job}) \cup {k} /\ v.inflight = w.inflight
      /\ v.pending = w.pending /\ v.orphaned = w.orphaned /\ v.files = w.files
  BY <1>1, <1>5, <1>6 DEF Worker, workerVars, historyVars
<1>9. Tells(w, q)
  BY <1>5, <1>7 DEF ToldInv
<1>10. IsFlight(w, job)
  BY <1>1, <1>8, <1>9 DEF Tells, Slots
<1>11. ASSUME NEW j \in w.jobs, j # job
       PROVE  /\ ~IsFlight(w, j) /\ j.phase = "done"
              /\ Behind(w, q, j.uri, j.version)
  <2>1. ~IsFlight(w, j)
    BY <1>8, <1>9, <1>10, <1>11 DEF Tells, Slots
  <2> QED
    BY <1>9, <1>11, <2>1 DEF Tells, Slots
<1>12. Slots(v, q)
  <2>1. IsFlight(v, k)
    BY <1>3, <1>8, <1>10 DEF IsFlight
  <2>2. ASSUME NEW j \in w.jobs, j # job
        PROVE  /\ ~IsFlight(v, j) /\ j.phase = "done"
               /\ Behind(v, q, j.uri, j.version)
    BY <1>8, <1>11, <2>2 DEF IsFlight, Behind
  <2> QED
    BY <1>8, <2>1, <2>2 DEF Slots
<1>13. \A f : RunningOn(v, f) = {}
  BY <1>3, <1>8, <1>11 DEF RunningOn
<1>14. PICK more \in Seq(Outbound) : more = <<report>>
  <2>1. <<report>> \in Seq(Outbound)
    BY <1>4
  <2> QED
    BY <2>1
<1>15. v.out = w.out \o more /\ w.out \in Seq(Outbound)
  BY <1>1, <1>2, <1>4, <1>8, <1>14
<1>16. DOMAIN more = {1} /\ more[1] = report
  BY <1>14
<1>17. PICK gone : gone = {job.uri}
  OBVIOUS
<1>18. Grows(w.out, v.out, gone)
  BY <1>4, <1>15, <1>16, <1>17, GrowsBy
<1>19. \A x : Informed(w, x) => Informed(v, x)
  <2>1. Refreshing(w) => Refreshing(v)
    BY <1>18 DEF Grows, Refreshing
  <2> QED
    BY <1>8, <2>1 DEF Informed, Announces
<1>20. ASSUME NEW f \in Files, Analyzed(w, f) PROVE Told(v, f)
  <2> DEFINE n == documents[f].version
  <2>1. CASE f = job.uri
    <3>1. job \in RunningOn(w, f)
      BY <1>1, <1>8, <2>1 DEF RunningOn
    <3>2. job.version = n /\ Informed(w, job.world)
      BY <1>11, <1>20, <3>1 DEF Analyzed, RunningOn
    <3>3. PICK i : i = Len(w.out) + 1
      OBVIOUS
    <3>4. /\ i \in DOMAIN v.out /\ v.out[i] = report
          /\ \A m \in DOMAIN v.out : ~(i < m)
      <4>1. PICK o \in Seq(Outbound) : o = w.out
        BY <1>15
      <4>2. PICK o2 : o2 = Append(o, report)
        OBVIOUS
      <4>3. v.out = o2
        BY <1>1, <1>8, <4>1, <4>2
      <4>4. /\ DOMAIN o2 = 1..(Len(o) + 1) /\ Len(o) \in Nat
            /\ o2[Len(o) + 1] = report
        BY <1>4, <4>2
      <4>5. i \in DOMAIN o2 /\ \A m \in DOMAIN o2 : ~(i < m)
        BY <3>3, <4>1, <4>4
      <4> QED
        BY <3>3, <4>1, <4>3, <4>4, <4>5
    <3>5. IsReport(v.out[i], f, n) /\ v.out[i].world = job.world
      BY <1>4, <2>1, <3>2, <3>4 DEF IsReport
    <3>6. Reported(v.out, f, n) /\ LastReport(v.out, f, n, job.world)
      BY <3>4, <3>5 DEF Reported, LastReport
    <3> QED
      BY <1>19, <3>2, <3>6 DEF Told
  <2>2. CASE f # job.uri
    <3>1. RunningOn(w, f) = {}
      BY <1>11, <2>2 DEF RunningOn
    <3>2. Told(w, f)
      BY <1>20, <3>1 DEF Analyzed
    <3>3. f \notin gone
      BY <1>17, <2>2
    <3>4. /\ Reported(v.out, f, n) <=> Reported(w.out, f, n)
          /\ \A x : LastReport(w.out, f, n, x) => LastReport(v.out, f, n, x)
      BY <1>18, <3>3, ReportsKept
    <3> QED
      BY <1>19, <3>2, <3>4 DEF Told
  <2> QED
    BY <2>1, <2>2
<1>21. Latest(v, q)
  BY <1>8, <1>9, <1>13, <1>20 DEF Tells, Latest, AnalyzedSoon, Analyzed
<1>22. UNCHANGED <<documents, lastVersion, linted, arm>> /\ analysis_rx' = q
  BY <1>1, <1>7 DEF mainVars, workerVars
<1>23. SameTells(v, v)
  BY DEF SameTells, SameLatest
<1>24. Tells(v, q)'
  BY <1>12, <1>21, <1>22, <1>23, TellsStep DEF Tells
<1>25. arm' = <<>> => Busy(v)
  BY <1>5, <1>8, <1>22 DEF ToldInv, Busy
<1> QED
  BY <1>6, <1>22, <1>24, <1>25, TellsAfter

LEMMA JobPanicTells ==
    ASSUME IndInv, ToldInv, NEW job \in jobs, JobPanic(job)
    PROVE  ToldInv'
<1>1. /\ jobs' = jobs \ {job} /\ orphaned' = orphaned \cup {job.uri}
      /\ UNCHANGED <<fileVars, mainVars, analysis_rx, sync_rx, load_rx, ready,
                     out_rx, loader, workerVars, crossed, missed>>
  BY DEF JobPanic
<1>2. PICK w : w = Worker("linting")
  OBVIOUS
<1>3. PICK v : v = Worker("linting")'
  OBVIOUS
<1>4. PICK q : q = analysis_rx
  OBVIOUS
<1>5. /\ v.jobs = w.jobs \ {job} /\ v.orphaned = w.orphaned \cup {job.uri}
      /\ v.out = w.out /\ v.inflight = w.inflight /\ v.pending = w.pending
      /\ v.files = w.files
  BY <1>1, <1>2, <1>3 DEF Worker, workerVars
<1>6. Tells(w, q)
  BY <1>2, <1>4 DEF ToldInv
<1>7. Slots(v, q)
  BY <1>5, <1>6 DEF Tells, Slots, IsFlight, Behind
<1>8. ASSUME NEW f \in Files, f # job.uri, Analyzed(w, f) PROVE Analyzed(v, f)
  <2>1. RunningOn(v, f) = RunningOn(w, f)
    BY <1>5, <1>8 DEF RunningOn
  <2>2. \A x : Informed(w, x) => Informed(v, x)
    BY <1>5 DEF Informed, Refreshing, Announces
  <2>3. Told(w, f) => Told(v, f)
    BY <1>5, <2>2 DEF Told
  <2> QED
    BY <1>8, <2>1, <2>2, <2>3 DEF Analyzed
<1>9. Latest(v, q)
  BY <1>5, <1>6, <1>8 DEF Tells, Latest, AnalyzedSoon
<1>10. UNCHANGED <<documents, lastVersion, linted, arm>> /\ analysis_rx' = q
  BY <1>1, <1>4 DEF mainVars, workerVars
<1>11. SameTells(v, v)
  BY DEF SameTells, SameLatest
<1>12. Tells(v, q)'
  BY <1>7, <1>9, <1>10, <1>11, TellsStep DEF Tells
<1>13. arm' = <<>> => Busy(v)
  BY <1>2, <1>5, <1>10 DEF ToldInv, Busy
<1> QED
  BY <1>3, <1>10, <1>12, <1>13, TellsAfter

-----------------------------------------------------------------------------
(* The analysis thread's steps.                                            *)

LEMMA AnyStageTells ==
    ASSUME ToldInv, NEW stage, NEW w, w = Worker(stage), NEW q, q = analysis_rx
    PROVE  /\ Tells(w, q)
           /\ arm = <<>> => Busy(w)
<1>1. PICK u : u = Worker("linting")
  OBVIOUS
<1>2. Tells(u, q) /\ (arm = <<>> => Busy(u))
  BY <1>1 DEF ToldInv
<1>3. SameTells(w, u)
  BY <1>1 DEF Worker, SameTells, SameLatest
<1>4. Slots(w, q)
  BY <1>2, <1>3 DEF SameTells, SameLatest, Tells, Slots, IsFlight, Behind
<1>5. Latest(w, q)
  BY <1>2, <1>3, LatestSame DEF SameTells, Tells
<1> QED
  BY <1>2, <1>3, <1>4, <1>5 DEF Tells, Busy, SameTells, SameLatest

LEMMA ArmGoesOnTells ==
    ASSUME IndInv, NEW a, ArmOK(a), NEW w, Good(w, ready),
           NEW rest \in Seq(Request), NEW late, late = Awaited(a, sync_rx'),
           Tracks(w, ready, rest, late), Tells(w, rest),
           ArmGoesOn(a, w, rest), a # <<>>,
           UNCHANGED analysisThreadUnchanged, ready' = ready
    PROVE  ToldInv'
<1>1. analysis_rx' = rest
  BY DEF ArmGoesOn
<1>2. MainTypes
  BY DEF IndInv, TypeOK
<1>3. CASE rest # <<>>
  <2>1. arm' = a /\ Commit(w)
    BY <1>3 DEF ArmGoesOn
  <2> QED
    BY <1>1, <2>1, CommitTells
<1>4. CASE rest = <<>>
  <2> DEFINE u == IF Syncing(a) THEN OnSync(w, a[2]) ELSE w
  <2>1. arm' = <<>> /\ \E v \in TryDispatch(u) : Commit(v)
    BY <1>4 DEF ArmGoesOn
  <2>2. PICK syncs : syncs = ToSet(sync_rx')
    OBVIOUS
  <2>3. Good(u, ready) /\ Tracks(u, ready, rest, syncs) /\ Tells(u, rest)
    <3>1. CASE Syncing(a)
      <4>1. PICK f \in Files : f = a[2]
        BY <3>1 DEF ArmOK
      <4>2. late = syncs \cup {f}
        BY <2>2, <3>1, <4>1 DEF Awaited, SyncTarget
      <4>3. disk \in [Files -> Texts \cup {Unreadable}]
        BY ChannelFacts
      <4>4. Good(OnSync(w, f), ready)
        BY <4>3, OnSyncGood
      <4>5. Tracks(OnSync(w, f), ready, rest, syncs)
        BY <1>4, <4>2, <4>3, OnSyncTracks
      <4>6. Tells(OnSync(w, f), rest)
        BY <1>4, <4>3, OnSyncTells DEF Tracks
      <4> QED
        BY <3>1, <4>1, <4>4, <4>5, <4>6
    <3>2. CASE ~Syncing(a)
      <4>1. late = syncs
        BY <2>2, <3>2 DEF Awaited, SyncTarget
      <4> QED
        BY <3>2, <4>1
    <3> QED
      BY <3>1, <3>2
  <2> HIDE DEF u
  <2>4. PICK v \in TryDispatch(u) : Commit(v)
    BY <2>1
  <2>5. Tells(v, rest) /\ Busy(v)
    BY <1>2, <2>3, <2>4, TryDispatchTells
  <2> QED
    BY <1>1, <2>4, <2>5, CommitTells
<1> QED
  BY <1>3, <1>4

LEMMA ReceivesTells ==
    ASSUME IndInv, CurrentInv, ToldInv, NEW a, ArmOK(a), a # <<>>,
           analysis_rx # <<>>, Awaited(a, sync_rx) = Awaited(arm, sync_rx),
           \E stage \in CaughtIn :
             ArmGoesOn(a, Enqueue(Worker(stage), Head(analysis_rx)),
                       Tail(analysis_rx)),
           UNCHANGED <<analysisThreadUnchanged, ready, sync_rx>>
    PROVE  ToldInv'
<1>1. PICK stage \in CaughtIn :
        ArmGoesOn(a, Enqueue(Worker(stage), Head(analysis_rx)), Tail(analysis_rx))
  OBVIOUS
<1>2. PICK w : w = Worker(stage)
  OBVIOUS
<1>3. PICK q : q = analysis_rx
  OBVIOUS
<1>4. PICK late : late = Awaited(arm, sync_rx)
  OBVIOUS
<1>5. Good(w, ready) /\ Tracks(w, ready, q, late) /\ Tells(w, q)
  BY <1>2, <1>3, <1>4, AnyStageTracks, AnyStageTells
<1>6. q \in Seq(Request) /\ q # <<>> /\ RequestAgrees(q[1])
  <2>1. q \in Seq(Request) /\ q # <<>>
    BY <1>3, ChannelFacts
  <2>2. 1 \in DOMAIN q
    BY <2>1, HeadAndTail
  <2> QED
    BY <1>3, <2>1, <2>2, ChannelFacts
<1>7. Head(q) \in Request /\ Head(q) = q[1] /\ Tail(q) \in Seq(Request)
  BY <1>6, HeadAndTail
<1>8. Agrees(Head(q).uri, Head(q).version, Head(q).text)
  BY <1>6, <1>7 DEF RequestAgrees
<1>9. /\ documents \in [Files -> Document \cup {None}]
      /\ lastVersion \in [Files -> Nat] /\ LastVersions /\ MainTypes
  BY DEF IndInv, TypeOK, MainTypes, CurrentInv
<1>10. PICK v : v = Enqueue(w, Head(q))
  OBVIOUS
<1>11. Good(v, ready)
  BY <1>5, <1>7, <1>8, <1>10, EnqueueGood
<1>12. Tracks(v, ready, Tail(q), late)
  BY <1>5, <1>6, <1>8, <1>9, <1>10, EnqueueTracks
<1>13. Tells(v, Tail(q))
  BY <1>5, <1>6, <1>9, <1>10, EnqueueTells
<1>14. late = Awaited(a, sync_rx')
  BY <1>4
<1>15. ArmGoesOn(a, v, Tail(q))
  BY <1>1, <1>2, <1>3, <1>10
<1>16. ready' = ready /\ UNCHANGED analysisThreadUnchanged
  OBVIOUS
<1> QED
  BY <1>7, <1>11, <1>12, <1>13, <1>14, <1>15, <1>16, ArmGoesOnTells

LEMMA AnalysisArmTells ==
    ASSUME IndInv, CurrentInv, ToldInv, AnalysisArm
    PROVE  ToldInv'
<1>1. ArmOK(<<"analyze">>) /\ <<"analyze">> # <<>>
  BY DEF ArmOK, Syncing
<1>2. Awaited(<<"analyze">>, sync_rx) = Awaited(arm, sync_rx)
  BY ArmAwaits DEF AnalysisArm
<1> QED
  BY <1>1, <1>2, ReceivesTells DEF AnalysisArm

LEMMA ReceiveTells ==
    ASSUME IndInv, ArmInv, CurrentInv, ToldInv, Receive
    PROVE  ToldInv'
BY ChannelFacts, ReceivesTells DEF Receive, ArmInv

LEMMA SyncArmTells ==
    ASSUME IndInv, CurrentInv, ToldInv, SyncArm
    PROVE  ToldInv'
<1>1. PICK stage \in CaughtIn :
        ArmGoesOn(<<"sync", Head(sync_rx)>>, Worker(stage), analysis_rx)
  BY DEF SyncArm
<1>2. /\ arm = <<>> /\ sync_rx # <<>> /\ sync_rx' = Tail(sync_rx)
      /\ UNCHANGED analysisThreadUnchanged /\ ready' = ready
  BY DEF SyncArm
<1>3. PICK f : f = Head(sync_rx)
  OBVIOUS
<1>4. f \in Files /\ ToSet(sync_rx) = ToSet(Tail(sync_rx)) \cup {f}
  BY <1>2, <1>3, ChannelFacts, TailSet
<1>5. ArmOK(<<"sync", f>>) /\ <<"sync", f>> # <<>>
  BY <1>4 DEF ArmOK
<1>6. PICK w : w = Worker(stage)
  OBVIOUS
<1>7. PICK q : q = analysis_rx
  OBVIOUS
<1>8. PICK late : late = Awaited(arm, sync_rx)
  OBVIOUS
<1>9. Good(w, ready) /\ Tracks(w, ready, q, late) /\ Tells(w, q)
  BY <1>6, <1>7, <1>8, AnyStageTracks, AnyStageTells
<1>10. late = Awaited(<<"sync", f>>, sync_rx')
  BY <1>2, <1>4, <1>8, ArmAwaits
<1>11. q \in Seq(Request)
  BY <1>7, ChannelFacts
<1> QED
  BY <1>1, <1>2, <1>3, <1>5, <1>6, <1>7, <1>9, <1>10, <1>11, ArmGoesOnTells

LEMMA ReadyArmTells ==
    ASSUME IndInv, CurrentInv, ToldInv, ReadyArm
    PROVE  ToldInv'
<1>1. PICK stage \in CaughtIn :
        Commit(OnScriptsLoaded(Worker(stage), Head(ready)))
  BY DEF ReadyArm
<1>2. /\ ready # <<>> /\ arm = <<>> /\ UNCHANGED analysisThreadUnchanged
      /\ UNCHANGED <<arm, analysis_rx, sync_rx>>
  BY DEF ReadyArm
<1>3. PICK w : w = Worker(stage)
  OBVIOUS
<1>4. PICK q : q = analysis_rx
  OBVIOUS
<1>5. PICK syncs : syncs = Awaited(arm, sync_rx)
  OBVIOUS
<1>6. PICK rd \in Seq(Loaded) : rd = ready
  BY ChannelFacts
<1>7. Good(w, rd) /\ Tracks(w, rd, q, syncs) /\ Tells(w, q) /\ Busy(w)
  BY <1>2, <1>3, <1>4, <1>5, <1>6, AnyStageTracks, AnyStageTells
<1>8. PICK v : v = OnScriptsLoaded(w, Head(rd))
  OBVIOUS
<1>9. Tells(v, q) /\ v.pending = w.pending /\ v.inflight = w.inflight
  BY <1>2, <1>6, <1>7, <1>8, LoadedTells
<1>10. Busy(v)
  BY <1>7, <1>9 DEF Busy
<1>11. Commit(v) /\ analysis_rx' = q
  BY <1>1, <1>2, <1>3, <1>4, <1>6, <1>8
<1> QED
  BY <1>2, <1>9, <1>10, <1>11, CommitTells

LEMMA LibraryArmTells ==
    ASSUME IndInv, CurrentInv, ToldInv, NEW found \in Harvests, LibraryArm(found)
    PROVE  ToldInv'
<1>1. PICK stage \in CaughtIn :
        Commit(PublishGraphDiagnostics(
                   [Cancel(Worker(stage)) EXCEPT !.package = found]))
  BY DEF LibraryArm
<1>2. /\ arm = <<>> /\ UNCHANGED analysisThreadUnchanged
      /\ UNCHANGED <<arm, analysis_rx, sync_rx>>
  BY DEF LibraryArm, analysisThreadUnchanged
<1>3. PICK w : w = Worker(stage)
  OBVIOUS
<1>4. PICK q : q = analysis_rx
  OBVIOUS
<1>5. PICK syncs : syncs = Awaited(arm, sync_rx)
  OBVIOUS
<1>6. Good(w, ready) /\ Tells(w, q) /\ Busy(w)
  BY <1>2, <1>3, <1>4, <1>5, AnyStageTracks, AnyStageTells
<1>7. PICK v : v = PublishGraphDiagnostics([Cancel(w) EXCEPT !.package = found])
  OBVIOUS
<1>8. Tells(v, q) /\ v.pending = w.pending /\ v.inflight = w.inflight
  BY <1>6, <1>7, LibraryTells DEF Good
<1>9. Busy(v)
  BY <1>6, <1>8 DEF Busy
<1>10. Commit(v) /\ analysis_rx' = q
  BY <1>1, <1>2, <1>3, <1>4, <1>7
<1> QED
  BY <1>2, <1>8, <1>9, <1>10, CommitTells

LEMMA DoneArmTells ==
    ASSUME IndInv, CurrentInv, ToldInv, NEW job \in jobs, DoneArm(job)
    PROVE  ToldInv'
<1>1. PICK stage \in CaughtIn :
        \E v \in TryDispatch(Ended(Worker(stage), job)) : Commit(v)
  BY DEF DoneArm, Ended
<1>2. /\ job.phase = "done" /\ UNCHANGED analysisThreadUnchanged
      /\ UNCHANGED <<arm, analysis_rx, sync_rx>>
  BY DEF DoneArm
<1>3. PICK w : w = Worker(stage)
  OBVIOUS
<1>4. PICK q \in Seq(Request) : q = analysis_rx
  BY ChannelFacts
<1>5. PICK syncs : syncs = Awaited(arm, sync_rx)
  OBVIOUS
<1>6. Good(w, ready) /\ Tracks(w, ready, q, syncs) /\ Tells(w, q)
  BY <1>3, <1>4, <1>5, AnyStageTracks, AnyStageTells
<1>7. job \in w.jobs
  BY <1>3 DEF Worker
<1>8. PICK u : u = Ended(w, job)
  OBVIOUS
<1>9. Good(u, ready) /\ Tracks(u, ready, q, syncs) /\ Tells(u, q)
  BY <1>2, <1>6, <1>7, <1>8, EndedTracks, EndedTells DEF Good
<1>10. PICK v \in TryDispatch(u) : Commit(v)
  BY <1>1, <1>3, <1>8
<1>11. MainTypes
  BY DEF IndInv, TypeOK
<1>12. Tells(v, q) /\ Busy(v)
  BY <1>9, <1>10, <1>11, TryDispatchTells
<1>13. analysis_rx' = q
  BY <1>2, <1>4
<1> QED
  BY <1>2, <1>10, <1>12, <1>13, CommitTells

LEMMA InitTells ==
    ASSUME Init
    PROVE  ToldInv
<1>1. PICK w : w = Worker("linting")
  OBVIOUS
<1>2. /\ w.jobs = {} /\ w.pending = [f \in Files |-> None]
      /\ documents = [f \in Files |-> None]
  BY <1>1 DEF Init, Worker
<1>3. Slots(w, analysis_rx)
  BY <1>2 DEF Slots
<1>4. Latest(w, analysis_rx)
  BY <1>2 DEF Latest
<1>5. Busy(w)
  BY <1>2 DEF Busy
<1> QED
  BY <1>1, <1>3, <1>4, <1>5 DEF ToldInv, Tells

(* Steps that neither the worker's analyses nor the buffers take part in.  *)
LEMMA OtherTells ==
    ASSUME ToldInv,
           \/ \E f \in Files :
                \/ \E t \in Written : Rewrite(f, t)
                \/ DidChangeWatchedFiles(f, FALSE) \/ LoaderReads(f)
           \/ LoaderTakesNewest \/ LoaderPanics \/ UNCHANGED vars
    PROVE  ToldInv'
<1>1. UNCHANGED <<tellVars, documents, lastVersion, linted, analysis_rx>>
  BY DEF Rewrite, DidChangeWatchedFiles, LoaderReads, LoaderTakesNewest,
         LoaderPanics, vars, tellVars, mainVars, workerVars, historyVars
<1> QED
  BY <1>1, QuietTells

LEMMA NextTells ==
    ASSUME IndInv, ArmInv, CurrentInv, ToldInv, [Next]_vars
    PROVE  ToldInv'
<1>1. LastVersions /\ EntryPoints \subseteq SUBSET Files
      /\ entry_points \in SUBSET Files
  BY EntriesAssumption DEF CurrentInv, IndInv, TypeOK, MainTypes
<1>2. ASSUME NEW entries \in EntryPoints, DidChangeConfiguration(entries)
      PROVE  ToldInv'
  <2>1. /\ analysis_rx' = analysis_rx \o RefreshOpen(entries)
        /\ UNCHANGED <<documents, lastVersion, arm, pending, inflight, jobs,
                       orphaned>>
    BY <1>2 DEF DidChangeConfiguration, mainVars, workerVars, historyVars
  <2> QED
    BY <1>1, <2>1, RefreshTells
<1>3. ASSUME Client PROVE ToldInv'
  <2>1. ASSUME NEW f \in Files, DidChangeWatchedFiles(f, TRUE) PROVE ToldInv'
    <3>1. /\ analysis_rx' = analysis_rx \o RefreshOpen(entry_points)
          /\ UNCHANGED <<documents, lastVersion, arm, pending, inflight, jobs,
                         orphaned>>
      BY <2>1 DEF DidChangeWatchedFiles, mainVars, workerVars, historyVars
    <3> QED
      BY <1>1, <3>1, RefreshTells
  <2>2. ASSUME NEW f \in Files, NEW reshapes \in BOOLEAN,
               DidChangeWatchedFiles(f, reshapes)
        PROVE  ToldInv'
    <3>1. reshapes = TRUE \/ reshapes = FALSE
      OBVIOUS
    <3> QED
      BY <2>1, <2>2, <3>1, OtherTells
  <2> QED
    BY <1>2, <1>3, <2>2, SetDocumentTells, DidCloseTells, OtherTells DEF Client
<1>4. ASSUME OnDiagnosticsRefresh PROVE ToldInv'
  <2>1. /\ analysis_rx' = analysis_rx \o RefreshOpen(entry_points)
        /\ UNCHANGED <<documents, lastVersion, arm, pending, inflight, jobs,
                       orphaned>>
    BY <1>4 DEF OnDiagnosticsRefresh, mainVars, workerVars, historyVars
  <2> QED
    BY <1>1, <2>1, RefreshTells
<1>5. ASSUME MainLoop PROVE ToldInv'
  BY <1>4, <1>5, OnResultTells DEF MainLoop
<1>6. ASSUME Loader \/ LoaderPanics \/ UNCHANGED vars PROVE ToldInv'
  BY <1>6, OtherTells DEF Loader
<1>7. ASSUME AnalysisThread PROVE ToldInv'
  BY <1>7, AnalysisArmTells, SyncArmTells, ReceiveTells, ReadyArmTells,
     DoneArmTells, LibraryArmTells DEF AnalysisThread
<1>8. ASSUME NEW job \in jobs, JobFinish(job) \/ JobPanic(job) PROVE ToldInv'
  BY <1>8, JobFinishTells, JobPanicTells
<1> QED
  BY <1>3, <1>5, <1>6, <1>7, <1>8 DEF Next

LEMMA ToldInvariance == Spec => [](IndInv /\ CurrentInv /\ ToldInv)
<1>1. Init => ToldInv
  BY InitTells
<1>2. IndInv /\ ArmInv /\ CurrentInv /\ ToldInv /\ [Next]_vars => ToldInv'
  BY NextTells
<1> QED
  BY <1>1, <1>2, CurrentInvariance, PTL DEF Spec

(* At rest no document shows findings linted while its programs were       *)
(* pending, unless its newest analysis was thrown away: the queue of the   *)
(* analysis thread is empty, the slot was of the last analysis, what it    *)
(* reported of the document's version is what the main loop holds, and a   *)
(* world that said "pending" would still have a refresh to come.           *)
THEOREM NothingPending == Spec => []NothingLintedWhilePending
<1>1. ASSUME IndInv, CurrentInv, ToldInv, Undisturbed,
             NEW f \in OpenDocs \ orphaned
      PROVE  linted[f] # None /\ ~linted[f].pending
  <2>1. /\ arm = <<>> /\ analysis_rx = <<>> /\ jobs = {} /\ out_rx = <<>>
    BY <1>1 DEF Undisturbed, Quiet
  <2>2. inflight = None /\ ~scripts.loading
    BY <1>1, AtRest
  <2>3. PICK w : w = Worker("linting")
    OBVIOUS
  <2>4. /\ w.jobs = jobs /\ w.out = out_rx /\ w.inflight = inflight
        /\ w.pending = pending /\ w.orphaned = orphaned
        /\ w.files = script_files
    BY <2>3 DEF Worker
  <2>5. PICK q : q = analysis_rx
    OBVIOUS
  <2>6. Latest(w, q) /\ Busy(w)
    BY <1>1, <2>1, <2>3, <2>5 DEF ToldInv, Tells
  <2>7. f \in Files /\ documents[f] # None /\ f \notin w.orphaned
    BY <1>1, <2>4 DEF OpenDocs
  <2>8. ~AnalyzedSoon(w, q, f)
    BY <2>1, <2>2, <2>4, <2>5, <2>6, <2>7 DEF AnalyzedSoon, Requested, Busy
  <2>9. Told(w, f)
    BY <2>1, <2>4, <2>6, <2>7, <2>8 DEF Latest, Analyzed, RunningOn
  <2>10. ~Reported(w.out, f, documents[f].version) /\ ~Refreshing(w)
    BY <2>1, <2>4 DEF Reported, Refreshing
  <2>11. ~Announces(w)
    <3>1. LoadIsOnItsWay
      BY <1>1 DEF IndInv, LoadInv, Good, OnItsWay, IsCurrentIn, LoadsOK, Worker,
                  LoadIsOnItsWay, IsCurrent
    <3> QED
      BY <2>2, <2>4, <3>1 DEF LoadIsOnItsWay, Announces
  <2> QED
    BY <2>9, <2>10, <2>11 DEF Told, Informed
<1>2. IndInv /\ CurrentInv /\ ToldInv => NothingLintedWhilePending
  BY <1>1 DEF NothingLintedWhilePending
<1> QED
  BY <1>2, ToldInvariance, PTL

-----------------------------------------------------------------------------
(* The fourth invariant: the findings of the installed load.               *)

(* What the last of the queued messages about a file tells.                *)
OfScripts(x) == {p \in x : p.text # None}
IsAbout(m, f) == m.kind = "project" /\ m.uri = f
Telling(o, f) == \E i \in DOMAIN o : IsAbout(o[i], f)
LastTells(o, f, x, v) ==
    \E i \in DOMAIN o :
        /\ IsAbout(o[i], f) /\ OfScripts(o[i].findings) = x
        /\ o[i].version = v
        /\ \A k \in DOMAIN o : i < k => ~IsAbout(o[k], f)

(* The findings are displayed, or will be once the queued messages are     *)
(* handled, unless they describe another buffer than the open one, or a    *)
(* reload has been or will be asked for.  A file without any displays      *)
(* none; of a file in a cycle nothing is said, see Cyclic.                 *)
BufferVersion(f) == IF documents[f] = None THEN None ELSE documents[f].version
InCycle(w, f) == \E p \in w.package[f] : p.code = "cycle"
Displays(f, x) ==
    OfScripts(graph_diags[f]) = x /\ OfScripts(shown[f].findings) = x
Outdated(w, syncs, f) ==
    \/ w.scripts.versions[f] # BufferVersion(f)
    \/ f \in syncs
    \/ Announces(w)
ShowsFound(w, syncs, f) ==
    IF Telling(w.out, f)
    THEN LastTells(w.out, f, w.scripts.diagnostics[f], w.scripts.versions[f])
    ELSE \/ Outdated(w, syncs, f)
         \/ /\ Displays(f, w.scripts.diagnostics[f])
            /\ graph_versions[f] = w.scripts.versions[f]
ShowsNothing(w, f) ==
    IF Telling(w.out, f) THEN LastTells(w.out, f, {}, Package)
    ELSE Displays(f, {})
Shows(w, syncs) ==
    \A f \in Files :
        /\ \A p \in w.scripts.diagnostics[f] : p.text # None
        /\ InCycle(w, f) => f \in w.published
        /\ w.scripts.diagnostics[f] # {} =>
             f \in w.published /\ ShowsFound(w, syncs, f)
        /\ w.scripts.diagnostics[f] = {} /\ ~InCycle(w, f) => ShowsNothing(w, f)

(* The findings are the failed includes of the installed files, of their   *)
(* registered buffers' versions, and no file was read but those reached.   *)
Found(w) ==
    ~w.scripts.loading /\ w.files # None =>
        /\ \A f \in Files :
             /\ w.scripts.diagnostics[f] =
                  IF f \in w.files.readable
                  THEN {Missing(g, w.tracked[f]) :
                          g \in IncludesOf[w.tracked[f]] \cap w.files.failed}
                  ELSE {}
             /\ w.scripts.diagnostics[f] # {} =>
                  w.scripts.versions[f] = VersionsOf(w.scripts.documents)[f]
        /\ \A S \in SUBSET Files :
             /\ w.scripts.entries \subseteq S
             /\ \A g \in S \cap w.files.readable : IncludesOf[w.tracked[g]] \subseteq S
             => w.scripts.sources \subseteq S

(* A load reads nothing that its entries do not reach.                     *)
Closes(S, l) ==
    /\ l.job.entries \subseteq S
    /\ \A g \in S : l.sources[g] \in Texts => IncludesOf[l.sources[g]] \subseteq S
Reaches(l, todo) ==
    \A S \in SUBSET Files : Closes(S, l) =>
        \A f \in Files : l.sources[f] # None \/ f \in todo => f \in S
LoadsReach ==
    /\ loader # None =>
         /\ Reaches(loader, loader.todo)
         /\ \A f \in loader.todo : loader.sources[f] = None
    /\ \A i \in DOMAIN ready : Reaches(ready[i], {})
ParkedReaches(w) == w.parked # None => Reaches(w.parked, {})

Reports(w, syncs) == Shows(w, syncs) /\ Found(w) /\ ParkedReaches(w)

-----------------------------------------------------------------------------
(* News: messages about findings join the queue.                           *)

SameNews(o, o2) ==
    \A f \in Files :
        /\ Telling(o2, f) <=> Telling(o, f)
        /\ \A x, v : LastTells(o, f, x, v) => LastTells(o2, f, x, v)

LEMMA NewsJoin ==
    ASSUME NEW o \in Seq(Outbound), NEW more \in Seq(Outbound), NEW f
    PROVE  /\ Telling(o \o more, f) <=> Telling(o, f) \/ Telling(more, f)
           /\ \A x, v : LastTells(more, f, x, v) => LastTells(o \o more, f, x, v)
           /\ ~Telling(more, f) =>
                \A x, v : LastTells(o, f, x, v) => LastTells(o \o more, f, x, v)
<1>1. PICK r : r = o \o more
  OBVIOUS
<1>2. Joins(o, more, r)
  BY <1>1, ConcatJoins
<1>3. /\ \A i \in DOMAIN o : i \in DOMAIN r /\ r[i] = o[i]
      /\ \A i \in DOMAIN more : Len(o) + i \in DOMAIN r /\ r[Len(o) + i] = more[i]
  BY <1>2 DEF Joins
<1>4. \A i \in DOMAIN r :
        \/ i \in DOMAIN o /\ r[i] = o[i]
        \/ /\ i - Len(o) \in DOMAIN more /\ r[i] = more[i - Len(o)]
           /\ \A k \in DOMAIN o : k < i
  BY <1>2, JoinedIndex
<1>5. Telling(r, f) <=> Telling(o, f) \/ Telling(more, f)
  BY <1>3, <1>4 DEF Telling
<1>6. ASSUME NEW x, NEW v, LastTells(more, f, x, v) PROVE LastTells(r, f, x, v)
  <2>1. PICK i \in DOMAIN more :
          /\ IsAbout(more[i], f) /\ OfScripts(more[i].findings) = x
          /\ more[i].version = v
          /\ \A k \in DOMAIN more : i < k => ~IsAbout(more[k], f)
    BY <1>6 DEF LastTells
  <2>2. ASSUME NEW k \in DOMAIN r, Len(o) + i < k PROVE ~IsAbout(r[k], f)
    <3>1. k \notin DOMAIN o
      BY <1>2, <2>2 DEF Joins
    <3>2. k - Len(o) \in DOMAIN more /\ r[k] = more[k - Len(o)]
      BY <1>4, <3>1
    <3>3. i < k - Len(o)
      BY <1>2, <2>2 DEF Joins
    <3> QED
      BY <2>1, <3>2, <3>3
  <2> QED
    BY <1>3, <2>1, <2>2 DEF LastTells
<1>7. ASSUME ~Telling(more, f), NEW x, NEW v, LastTells(o, f, x, v)
      PROVE  LastTells(r, f, x, v)
  <2>1. PICK i \in DOMAIN o :
          /\ IsAbout(o[i], f) /\ OfScripts(o[i].findings) = x
          /\ o[i].version = v
          /\ \A k \in DOMAIN o : i < k => ~IsAbout(o[k], f)
    BY <1>7 DEF LastTells
  <2>2. \A k \in DOMAIN r : i < k => ~IsAbout(r[k], f)
    BY <1>4, <1>7, <2>1 DEF Telling
  <2> QED
    BY <1>3, <2>1, <2>2 DEF LastTells
<1> QED
  BY <1>1, <1>5, <1>6, <1>7

LEMMA NoNews ==
    ASSUME NEW o \in Seq(Outbound), NEW more \in Seq(Outbound),
           \A i \in DOMAIN more : more[i].kind # "project"
    PROVE  SameNews(o, o \o more)
<1>1. PICK r : r = o \o more
  OBVIOUS
<1>2. \A f : ~Telling(more, f)
  BY DEF Telling, IsAbout
<1>3. \A f \in Files :
        /\ Telling(r, f) <=> Telling(o, f)
        /\ \A x, v : LastTells(o, f, x, v) => LastTells(r, f, x, v)
  BY <1>1, <1>2, NewsJoin
<1> QED
  BY <1>1, <1>3 DEF SameNews

LEMMA NewsItself == ASSUME NEW o PROVE SameNews(o, o)
BY DEF SameNews

LEMMA NewsTrans ==
    ASSUME NEW o1, NEW o2, NEW o3, SameNews(o1, o2), SameNews(o2, o3)
    PROVE  SameNews(o1, o3)
BY DEF SameNews

-----------------------------------------------------------------------------
(* Steps that tell no findings and forget none.                            *)

Silent(v, w) ==
    /\ v.scripts.diagnostics = w.scripts.diagnostics
    /\ v.scripts.versions = w.scripts.versions
    /\ v.package = w.package /\ v.published = w.published
    /\ Announces(w) => Announces(v)
    /\ SameNews(w.out, v.out)

LEMMA SilentTrans ==
    ASSUME NEW u, NEW v, NEW w, Silent(v, w), Silent(u, v)
    PROVE  Silent(u, w)
BY NewsTrans DEF Silent

LEMMA SilentItself ==
    ASSUME NEW v, NEW w, v.scripts = w.scripts, v.package = w.package,
           v.published = w.published, v.files = w.files, v.out = w.out
    PROVE  Silent(v, w)
BY NewsItself DEF Silent, Announces

LEMMA ShowsKept ==
    ASSUME NEW w, NEW v, NEW syncs, Shows(w, syncs), Silent(v, w)
    PROVE  Shows(v, syncs)
<1> SUFFICES ASSUME NEW f \in Files
             PROVE  /\ \A p \in v.scripts.diagnostics[f] : p.text # None
                    /\ InCycle(v, f) => f \in v.published
                    /\ v.scripts.diagnostics[f] # {} =>
                         f \in v.published /\ ShowsFound(v, syncs, f)
                    /\ v.scripts.diagnostics[f] = {} /\ ~InCycle(v, f) =>
                         ShowsNothing(v, f)
  BY DEF Shows
<1>1. InCycle(v, f) <=> InCycle(w, f)
  BY DEF Silent, InCycle
<1>2. Telling(v.out, f) <=> Telling(w.out, f)
  BY DEF Silent, SameNews
<1>3. \A x, n : LastTells(w.out, f, x, n) => LastTells(v.out, f, x, n)
  BY DEF Silent, SameNews
<1>4. Outdated(w, syncs, f) => Outdated(v, syncs, f)
  BY DEF Silent, Outdated
<1>5. ShowsFound(w, syncs, f) => ShowsFound(v, syncs, f)
  BY <1>2, <1>3, <1>4 DEF Silent, ShowsFound
<1>6. ShowsNothing(w, f) => ShowsNothing(v, f)
  BY <1>2, <1>3 DEF ShowsNothing
<1> QED
  BY <1>1, <1>5, <1>6 DEF Silent, Shows

LEMMA CancelSilent ==
    ASSUME NEW w, WorkerOK(w)
    PROVE  Silent(Cancel(w), w)
<1> DEFINE running == Running(w.jobs)
           done == {[j EXCEPT !.phase = "done"] : j \in running}
           reports == SetToSeq({ReportOf(j, None) : j \in running})
           out == IF w.stage = "linting" THEN w.out \o reports ELSE w.out
           gone == w.orphaned \cup {j.uri : j \in running}
           js == (w.jobs \ running) \cup done
<1>1. w \in WorkerRecord /\ w.out \in Seq(Outbound)
  BY DEF WorkerOK, WorkerRecord
<1>2. /\ reports \in Seq(Outbound)
      /\ \A i \in DOMAIN reports : reports[i].kind = "diagnostics"
  BY RunningFinite, ColdReportsType
<1> HIDE DEF reports
<1>3. SameNews(w.out, out)
  BY <1>1, <1>2, NoNews, NewsItself
<1>4. Cancel(w) = [w EXCEPT !.jobs = js, !.orphaned = gone, !.out = out]
  BY DEF Cancel, reports
<1> HIDE DEF js, gone, out
<1>5. Cancel(w).out = out
  BY <1>1, <1>4 DEF WorkerRecord
<1>6. Keeps(Cancel(w), w) /\ Cancel(w).files = w.files
  BY CancelKeeps
<1> QED
  BY <1>3, <1>5, <1>6 DEF Silent, Keeps, Announces

LEMMA UpsertSilent ==
    ASSUME NEW w, WorkerOK(w), NEW f \in Files, NEW t \in Texts
    PROVE  Silent(Upsert(w, f, t), w)
<1> DEFINE written == IF w.tracked[f] \in {t, None} THEN w ELSE Cancel(w)
           v == [written EXCEPT !.tracked[f] = t]
<1>1. WorkerOK(written) /\ Silent(written, w)
  BY CancelOK, CancelSilent, SilentItself
<1>2. Upsert(w, f, t) = v
  BY DEF Upsert
<1> HIDE DEF written
<1>3. Silent(v, written)
  <2>1. /\ v.scripts = written.scripts /\ v.package = written.package
        /\ v.published = written.published /\ v.files = written.files
        /\ v.out = written.out
    BY <1>1 DEF WorkerOK, WorkerRecord
  <2> HIDE DEF v
  <2> QED
    BY <2>1, SilentItself
<1> HIDE DEF v
<1> QED
  BY <1>1, <1>2, <1>3, SilentTrans

LEMMA SetScriptFilesNews ==
    ASSUME NEW w, WorkerOK(w), NEW files \in ScriptFiles
    PROVE  SameNews(w.out, SetScriptFiles(w, files).out)
<1> DEFINE base == IF w.files \in {files, None} THEN w ELSE Cancel(w)
           v == [base EXCEPT !.files = files]
<1>1. WorkerOK(base) /\ Silent(base, w)
  BY CancelOK, CancelSilent, SilentItself
<1>2. SetScriptFiles(w, files) = v
  BY DEF SetScriptFiles
<1> HIDE DEF base
<1>3. v.out = base.out
  BY <1>1 DEF WorkerOK, WorkerRecord
<1> HIDE DEF v
<1> QED
  BY <1>1, <1>2, <1>3 DEF Silent

(* Writing the script files, unless it ends a pending load.                *)
LEMMA SetScriptFilesSilent ==
    ASSUME NEW w, WorkerOK(w), NEW files \in ScriptFiles,
           Announces(w) => files.pending
    PROVE  Silent(SetScriptFiles(w, files), w)
<1> DEFINE v == SetScriptFiles(w, files)
<1>1. Keeps(v, w) /\ v.files = files /\ SameNews(w.out, v.out)
  BY SetScriptFilesOK, SetScriptFilesNews
<1> HIDE DEF v
<1>2. files # None
  BY NoneAssumption
<1> QED
  BY <1>1, <1>2 DEF Silent, Keeps, Announces, v

LEMMA SetPendingSilent ==
    ASSUME NEW w, WorkerOK(w)
    PROVE  Silent(SetPending(w), w)
<1> DEFINE files == IF w.files = None
                    THEN [readable |-> {}, failed |-> {}, entries |-> {},
                          pending |-> TRUE]
                    ELSE [w.files EXCEPT !.pending = TRUE]
<1>1. w.files \in ScriptFiles \cup {None}
  BY DEF WorkerOK, WorkerRecord
<1>2. files \in ScriptFiles /\ files.pending
  BY <1>1 DEF ScriptFiles
<1>3. SetPending(w) = SetScriptFiles(w, files)
  BY DEF SetPending
<1> HIDE DEF files
<1> QED
  BY <1>2, <1>3, SetScriptFilesSilent

LEMMA AskLoadSilent ==
    ASSUME NEW w, WorkerOK(w)
    PROVE  Silent(AskLoad(w), w) /\ AskLoad(w).scripts.loading
<1> DEFINE v == AskLoad(w)
<1>1. /\ v.scripts = [w.scripts EXCEPT !.generation = @ + 1, !.loading = TRUE]
      /\ v.package = w.package /\ v.published = w.published
      /\ v.files = w.files /\ v.out = w.out
  BY AskLoadOK
<1>2. w.scripts \in Scripts
  BY DEF WorkerOK, WorkerRecord
<1> HIDE DEF v
<1>3. /\ v.scripts.diagnostics = w.scripts.diagnostics
      /\ v.scripts.versions = w.scripts.versions /\ v.scripts.loading
  BY <1>1, <1>2 DEF Scripts
<1>4. SameNews(w.out, v.out)
  BY <1>1, NewsItself
<1> QED
  BY <1>1, <1>3, <1>4 DEF Silent, Announces, v

LEMMA ReregisteredSilent ==
    ASSUME NEW w, WorkerOK(w), NEW docs \in Registrations,
           NEW crossing \in SUBSET Files
    PROVE  LET v == Reregistered(w, docs, crossing)
           IN /\ WorkerOK(v) /\ Silent(v, w)
              /\ v.scripts.entries = EntriesOf(docs)
              /\ v.scripts.sources = w.scripts.sources
              /\ v.scripts.loading = w.scripts.loading
              /\ v.scripts.documents = docs
              /\ v.files = w.files /\ v.parked = w.parked
              /\ v.tracked = w.tracked
<1> DEFINE s == [w.scripts EXCEPT !.documents = docs, !.entries = EntriesOf(docs)]
           v == [w EXCEPT !.scripts = s, !.crossed = crossing]
<1>1. w \in WorkerRecord /\ w.scripts \in Scripts
  BY DEF WorkerOK, WorkerRecord
<1>2. Reregistered(w, docs, crossing) = v
  BY DEF Reregistered
<1>3. /\ s.entries = EntriesOf(docs) /\ s.sources = w.scripts.sources
      /\ s.loading = w.scripts.loading /\ s.documents = docs
      /\ s.diagnostics = w.scripts.diagnostics
      /\ s.versions = w.scripts.versions
  BY <1>1 DEF Scripts
<1>4. WorkerOK(Reregistered(w, docs, crossing))
  BY ReregisteredOK
<1> HIDE DEF s
<1>5. /\ v.scripts = s /\ v.package = w.package /\ v.published = w.published
      /\ v.files = w.files /\ v.out = w.out /\ v.parked = w.parked
      /\ v.tracked = w.tracked
  BY <1>1 DEF WorkerRecord
<1> HIDE DEF v
<1>6. SameNews(w.out, v.out)
  BY <1>5, NewsItself
<1> QED
  BY <1>2, <1>3, <1>4, <1>5, <1>6 DEF Silent, Announces

(* A reload asked for with the script files marked pending.                *)
LEMMA PendingReloadSilent ==
    ASSUME NEW w, WorkerOK(w),
           \/ w.scripts.entries # {} \/ w.scripts.sources # {}
           \/ w.scripts.loading
    PROVE  LET v == Reload(SetPending(w))
           IN Silent(v, w) /\ v.scripts.loading /\ Announces(v)
<1> DEFINE u == SetPending(w)
           v == AskLoad(u)
<1>1. /\ WorkerOK(u) /\ WritesFiles(u, w) /\ Silent(u, w) /\ Announces(u)
  BY SetPendingOK, SetPendingLeaves, SetPendingSilent DEF Announces
<1> HIDE DEF u
<1>2. Reload(u) = v
  BY <1>1, ReloadAsks DEF WritesFiles
<1>3. Silent(v, u) /\ v.scripts.loading /\ v.files = u.files
  BY <1>1, AskLoadOK, AskLoadSilent
<1> HIDE DEF v
<1>4. Silent(v, w)
  BY <1>1, <1>3, SilentTrans
<1> QED
  BY <1>1, <1>2, <1>3, <1>4 DEF Announces, u

LEMMA FoundKept ==
    ASSUME NEW w, NEW v, Found(w), v.scripts = w.scripts, v.files = w.files,
           ~w.scripts.loading /\ w.files # None =>
             \A f \in w.files.readable : v.tracked[f] = w.tracked[f]
    PROVE  Found(v)
<1> SUFFICES ASSUME ~v.scripts.loading, v.files # None
             PROVE  Found(v)
  BY DEF Found
<1>1. \A f \in w.files.readable : v.tracked[f] = w.tracked[f]
  OBVIOUS
<1>2. ASSUME NEW f \in Files
      PROVE  v.scripts.diagnostics[f] =
               IF f \in v.files.readable
               THEN {Missing(g, v.tracked[f]) :
                       g \in IncludesOf[v.tracked[f]] \cap v.files.failed}
               ELSE {}
  <2>1. w.scripts.diagnostics[f] =
          IF f \in w.files.readable
          THEN {Missing(g, w.tracked[f]) :
                  g \in IncludesOf[w.tracked[f]] \cap w.files.failed}
          ELSE {}
    BY DEF Found
  <2>2. CASE f \in w.files.readable
    <3>1. v.tracked[f] = w.tracked[f]
      BY <1>1, <2>2
    <3> QED
      BY <2>1, <2>2, <3>1
  <2> QED
    BY <2>1, <2>2
<1>3. ASSUME NEW f \in Files, v.scripts.diagnostics[f] # {}
      PROVE  v.scripts.versions[f] = VersionsOf(v.scripts.documents)[f]
  BY <1>3 DEF Found
<1>4. ASSUME NEW S \in SUBSET Files, v.scripts.entries \subseteq S,
             \A g \in S \cap v.files.readable : IncludesOf[v.tracked[g]] \subseteq S
      PROVE  v.scripts.sources \subseteq S
  <2>1. \A g \in S \cap w.files.readable : IncludesOf[w.tracked[g]] \subseteq S
    BY <1>1, <1>4
  <2> QED
    BY <1>4, <2>1 DEF Found
<1> QED
  BY <1>2, <1>3, <1>4 DEF Found

(* While nothing is a source, there is nothing to find.                    *)
ReadsSources(w) ==
    ~w.scripts.loading /\ w.files # None => w.files.readable \subseteq w.scripts.sources

LEMMA NothingToFind ==
    ASSUME NEW w, NEW v, Found(w), ReadsSources(w),
           ~w.scripts.loading, w.scripts.sources = {},
           v.scripts.sources = {}, v.files = w.files,
           v.scripts.diagnostics = w.scripts.diagnostics
    PROVE  Found(v)
<1> SUFFICES ASSUME v.files # None PROVE Found(v)
  BY DEF Found
<1>1. w.files.readable = {}
  BY DEF ReadsSources
<1>2. \A f \in Files : w.scripts.diagnostics[f] = {}
  BY <1>1 DEF Found
<1> QED
  BY <1>1, <1>2 DEF Found

LEMMA UpdateSilent ==
    ASSUME NEW w, NEW rd, Good(w, rd), ReadsSources(w),
           Found(w), NEW req \in Request
    PROVE  Silent(Update(w, req), w) /\ Found(Update(w, req))
<1> DEFINE doc == [version |-> req.version, text |-> req.text,
                   entries |-> req.entries]
           docs == [w.scripts.documents EXCEPT ![req.uri] = doc]
           crossing == w.crossed \ {req.uri}
           v == Reregistered(w, docs, crossing)
           p == Reload(SetPending(v))
           a == AskLoad(v)
           u == Update(w, req)
<1>1. /\ w.scripts.documents \in Registrations /\ crossing \in SUBSET Files
      /\ WorkerOK(w) /\ w.scripts \in Scripts /\ LoadsOK(w, rd)
  BY DEF Good, WorkerOK, WorkerRecord, Scripts
<1>2. doc \in Registered /\ req.uri \in Files
  BY DEF Request, Registered
<1>3. docs \in Registrations
  BY <1>1, <1>2 DEF Registrations
<1>4. u = IF IsKnown(w.scripts.documents[req.uri], req) THEN w
          ELSE IF EntriesOf(docs) = w.scripts.entries THEN Reload(v) ELSE p
  BY DEF Update, Reregistered
<1> HIDE DEF docs, crossing, u
<1>5. /\ WorkerOK(v) /\ Silent(v, w) /\ v.files = w.files
      /\ v.scripts.entries = EntriesOf(docs)
      /\ v.scripts.sources = w.scripts.sources
      /\ v.scripts.loading = w.scripts.loading
  BY <1>1, <1>3, ReregisteredSilent
<1> HIDE DEF v
<1>6. CASE IsKnown(w.scripts.documents[req.uri], req)
  BY <1>4, <1>6, SilentItself DEF u
<1>7. CASE /\ ~IsKnown(w.scripts.documents[req.uri], req)
           /\ EntriesOf(docs) # w.scripts.entries
  <2>1. \/ v.scripts.entries # {} \/ v.scripts.sources # {}
        \/ v.scripts.loading
    BY <1>1, <1>5, <1>7 DEF LoadsOK
  <2>2. Silent(p, v) /\ p.scripts.loading
    BY <1>5, <2>1, PendingReloadSilent
  <2> HIDE DEF p
  <2>3. Silent(p, w)
    BY <1>5, <2>2, SilentTrans
  <2> QED
    BY <1>4, <1>7, <2>2, <2>3 DEF Found, u
<1>8. CASE /\ ~IsKnown(w.scripts.documents[req.uri], req)
           /\ EntriesOf(docs) = w.scripts.entries
  <2>1. CASE /\ v.scripts.entries = {} /\ v.scripts.sources = {}
             /\ ~v.scripts.loading
    <3>1. u = v
      BY <1>4, <1>8, <2>1 DEF Reload
    <3>2. Found(v)
      BY <1>5, <2>1, NothingToFind DEF Silent
    <3> QED
      BY <1>5, <3>1, <3>2 DEF u
  <2>2. CASE ~(/\ v.scripts.entries = {} /\ v.scripts.sources = {}
               /\ ~v.scripts.loading)
    <3>1. u = a
      BY <1>4, <1>8, <2>2 DEF Reload
    <3>2. Silent(a, v) /\ a.scripts.loading
      BY <1>5, AskLoadSilent
    <3> HIDE DEF a
    <3>3. Silent(a, w)
      BY <1>5, <3>2, SilentTrans
    <3> QED
      BY <3>1, <3>2, <3>3 DEF Found, u
  <2> QED
    BY <2>1, <2>2
<1> QED
  BY <1>6, <1>7, <1>8

LEMMA ClosedOrChangedSilent ==
    ASSUME NEW w, NEW rd, Good(w, rd), ReadsSources(w),
           NEW f \in Files
    PROVE  LET v == ClosedOrChanged(w, f)
           IN /\ Silent(v, w)
              /\ Found(w) => Found(v)
              /\ f \in w.scripts.sources => v.scripts.loading /\ Announces(v)
<1> DEFINE docs == [w.scripts.documents EXCEPT ![f] = None]
           closed == w.scripts.documents[f] # None
           crossing == IF closed /\ documents[f] # None
                       THEN w.crossed \cup {f} ELSE w.crossed
           v == Reregistered(w, docs, crossing)
           noted == IF w.scripts.loading THEN w.missed \cup {f} ELSE w.missed
           u == [w EXCEPT !.missed = noted]
           p == Reload(SetPending(v))
           x == ClosedOrChanged(w, f)
<1>1. /\ w.scripts.documents \in Registrations /\ w \in WorkerRecord
      /\ crossing \in SUBSET Files
      /\ WorkerOK(w) /\ w.scripts \in Scripts
  BY DEF Good, WorkerOK, WorkerRecord, Scripts
<1>2. docs \in Registrations
  BY <1>1 DEF Registrations
<1>3. x = IF ~closed /\ f \notin w.scripts.sources THEN u
          ELSE IF \/ w.scripts.loading \/ w.scripts.sources # {}
                  \/ EntriesOf(docs) # {}
          THEN p ELSE v
  BY DEF ClosedOrChanged, Reregistered
<1> HIDE DEF docs, closed, crossing, noted, x
<1>4. /\ WorkerOK(v) /\ Silent(v, w) /\ v.files = w.files
      /\ v.scripts.entries = EntriesOf(docs)
      /\ v.scripts.sources = w.scripts.sources
      /\ v.scripts.loading = w.scripts.loading
  BY <1>1, <1>2, ReregisteredSilent
<1> HIDE DEF v
<1>5. CASE ~closed /\ f \notin w.scripts.sources
  <2>1. /\ u.scripts = w.scripts /\ u.package = w.package
        /\ u.published = w.published /\ u.files = w.files /\ u.out = w.out
        /\ u.tracked = w.tracked
    BY <1>1 DEF WorkerRecord
  <2> HIDE DEF u
  <2>2. Silent(u, w) /\ (Found(w) => Found(u))
    BY <2>1, SilentItself, FoundKept
  <2> QED
    BY <1>3, <1>5, <2>2 DEF x
<1>6. CASE /\ ~(~closed /\ f \notin w.scripts.sources)
           /\ \/ w.scripts.loading \/ w.scripts.sources # {}
              \/ EntriesOf(docs) # {}
  <2>1. Silent(p, v) /\ p.scripts.loading /\ Announces(p)
    BY <1>4, <1>6, PendingReloadSilent
  <2> HIDE DEF p
  <2>2. Silent(p, w)
    BY <1>4, <2>1, SilentTrans
  <2> QED
    BY <1>3, <1>6, <2>1, <2>2 DEF Found, x
<1>7. CASE /\ ~(~closed /\ f \notin w.scripts.sources)
           /\ ~(\/ w.scripts.loading \/ w.scripts.sources # {}
                \/ EntriesOf(docs) # {})
  <2>1. Found(w) => Found(v)
    BY <1>4, <1>7, NothingToFind DEF Silent
  <2> QED
    BY <1>3, <1>4, <1>7, <2>1 DEF x
<1> QED
  BY <1>5, <1>6, <1>7

LEMMA EnqueueReports ==
    ASSUME NEW w, NEW rd, NEW syncs, Good(w, rd), FilesKnown(w),
           InstallsFresh(w, syncs), Reports(w, syncs), NEW req \in Request
    PROVE  Reports(Enqueue(w, req), syncs)
<1> DEFINE v == Update(w, req)
           pnd == [v.pending EXCEPT ![req.uri] = Newest(@, req)]
           u == [v EXCEPT !.pending = pnd]
<1>1. Silent(v, w) /\ Found(v)
  BY UpdateSilent DEF Reports, InstallsFresh, ReadsSources
<1>2. WorkerOK(v) /\ v.parked = w.parked
  BY UpdateMoves, UpdateFiles DEF Good
<1>3. Enqueue(w, req) = [v EXCEPT !.pending[req.uri] = Newest(@, req)]
  BY DEF Enqueue
<1> HIDE DEF v
<1>4. v \in WorkerRecord
  BY <1>2 DEF WorkerOK
<1>5. Enqueue(w, req) = u
  BY <1>3, <1>4 DEF WorkerRecord
<1> HIDE DEF pnd
<1>6. /\ u.scripts = v.scripts /\ u.parked = v.parked /\ u.files = v.files
      /\ u.out = v.out /\ u.package = v.package /\ u.published = v.published
      /\ u.tracked = v.tracked
  BY <1>4 DEF WorkerRecord
<1> HIDE DEF u
<1>7. Found(u)
  BY <1>1, <1>6, FoundKept
<1>8. Silent(u, v)
  BY <1>6, SilentItself
<1>9. Shows(u, syncs)
  BY <1>1, <1>8, SilentTrans, ShowsKept DEF Reports
<1> QED
  BY <1>2, <1>5, <1>6, <1>7, <1>9 DEF Reports, ParkedReaches

(* A sync of a file with findings asks for a reload.                       *)
LEMMA OnSyncReports ==
    ASSUME NEW w, NEW rd, NEW syncs, NEW f \in Files, Good(w, rd), FilesKnown(w),
           InstallsFresh(w, syncs \cup {f}), Reports(w, syncs \cup {f}),
           disk \in [Files -> Texts \cup {Unreadable}]
    PROVE  Reports(OnSync(w, f), syncs)
<1> DEFINE pnd == [w.pending EXCEPT ![f] = None]
           gone == IF w.pending[f] # None THEN w.orphaned \cup {f} ELSE w.orphaned
           u == [w EXCEPT !.pending = pnd, !.orphaned = gone]
           v == Revert(u, f)
           x == ClosedOrChanged(v, f)
<1>1. /\ w \in WorkerRecord /\ IsFiniteSet(w.jobs) /\ WorkerOK(w)
      /\ w.pending \in [Files -> Request \cup {None}]
      /\ w.orphaned \in SUBSET Files
  BY DEF Good, WorkerOK, WorkerRecord
<1>2. DropQueued(w, f) = u
  BY <1>1 DEF DropQueued, WorkerRecord
<1>3. pnd \in [Files -> Request \cup {None}] /\ gone \in SUBSET Files
  BY <1>1
<1>4. OnSync(w, f) = x
  BY <1>2 DEF OnSync
<1> HIDE DEF pnd, gone
<1>5. u \in WorkerRecord
  BY <1>1, <1>3 DEF WorkerRecord
<1>6. /\ SameLoads(u, w) /\ u.jobs = w.jobs /\ u.tracked = w.tracked
      /\ u.package = w.package /\ u.published = w.published /\ u.out = w.out
  BY <1>1 DEF WorkerRecord, SameLoads
<1> HIDE DEF u
<1>7. WorkerOK(u) /\ Good(u, rd) /\ Silent(u, w)
  <2>1. WorkerOK(u) /\ Keeps(u, w) /\ u.files = w.files
    BY <1>1, <1>5, <1>6 DEF WorkerOK, Keeps, SameLoads
  <2>2. Good(u, rd)
    BY <2>1, KeepsGood
  <2> QED
    BY <1>6, <2>1, <2>2, SilentItself DEF SameLoads
<1>8. /\ Good(v, rd) /\ SameLoads(v, u) /\ Silent(v, u)
      /\ \A g \in Files : g # f => v.tracked[g] = u.tracked[g]
  <2>1. CASE u.tracked[f] = None \/ disk[f] = Unreadable
    BY <1>7, <2>1, SameLoadsItself, SilentItself DEF Revert
  <2>2. CASE ~(u.tracked[f] = None \/ disk[f] = Unreadable)
    <3>1. v = Upsert(u, f, disk[f]) /\ disk[f] \in Texts
      BY <2>2 DEF Revert
    <3> HIDE DEF v
    <3>2. /\ WorkerOK(v) /\ Keeps(v, u) /\ v.files = u.files
          /\ SameLoads(v, u) /\ Silent(v, u)
          /\ v.tracked = [u.tracked EXCEPT ![f] = disk[f]]
      BY <1>7, <3>1, UpsertOK, UpsertLeaves, UpsertSilent
    <3> QED
      BY <1>5, <1>7, <3>2, KeepsGood DEF WorkerRecord
  <2> QED
    BY <2>1, <2>2
<1> HIDE DEF v
<1>9. v.scripts = w.scripts /\ v.files = w.files /\ ReadsSources(v)
  BY <1>6, <1>8 DEF SameLoads, ReadsSources, InstallsFresh
<1>10. /\ Silent(x, v) /\ (Found(v) => Found(x))
       /\ f \in v.scripts.sources => x.scripts.loading /\ Announces(x)
  BY <1>8, <1>9, ClosedOrChangedSilent
<1> HIDE DEF x
<1>11. Silent(x, w)
  BY <1>7, <1>8, <1>10, SilentTrans
<1>12. Found(x)
  <2>1. CASE f \in w.scripts.sources
    BY <1>9, <1>10, <2>1 DEF Found
  <2>2. CASE f \notin w.scripts.sources
    <3>1. ASSUME ~w.scripts.loading, w.files # None, NEW g \in w.files.readable
          PROVE  v.tracked[g] = w.tracked[g]
      <4>1. g # f
        BY <2>2, <3>1 DEF InstallsFresh
      <4>2. g \in Files
        BY <1>1, <3>1 DEF WorkerRecord, ScriptFiles
      <4> QED
        BY <1>6, <1>8, <4>1, <4>2
    <3>2. Found(v)
      BY <1>9, <3>1, FoundKept DEF Reports
    <3> QED
      BY <1>10, <3>2
  <2> QED
    BY <2>1, <2>2
<1>13. Shows(x, syncs \cup {f})
  BY <1>11, ShowsKept DEF Reports
<1>14. x.scripts.diagnostics[f] # {} => Announces(x)
  <2>1. w.scripts.diagnostics[f] # {} => f \in w.scripts.sources
    BY DEF Good, SpansOK
  <2> QED
    BY <1>9, <1>10, <1>11, <2>1 DEF Silent
<1>15. Shows(x, syncs)
  <2>1. ASSUME NEW g \in Files, x.scripts.diagnostics[g] # {},
               ShowsFound(x, syncs \cup {f}, g)
        PROVE  ShowsFound(x, syncs, g)
    BY <1>14, <2>1 DEF ShowsFound, Outdated
  <2> QED
    BY <1>13, <2>1 DEF Shows
<1>16. x.parked = w.parked
  BY <1>4, OnSyncMoves
<1> QED
  BY <1>4, <1>12, <1>15, <1>16 DEF Reports, ParkedReaches

-----------------------------------------------------------------------------
(* Publishing: each file's findings are told anew, or cleared.             *)

LEMMA ListedOnce ==
    ASSUME NEW S \in SUBSET Files, NEW msgs, DOMAIN msgs = DOMAIN SetToSeq(S),
           \A i \in DOMAIN msgs :
             msgs[i].kind = "project" /\ msgs[i].uri = SetToSeq(S)[i]
    PROVE  /\ \A f \in S :
                \E i \in DOMAIN msgs :
                  /\ SetToSeq(S)[i] = f /\ IsAbout(msgs[i], f)
                  /\ \A k \in DOMAIN msgs : i < k => ~IsAbout(msgs[k], f)
           /\ \A f : f \notin S => ~Telling(msgs, f)
<1> DEFINE s == SetToSeq(S)
           n == Cardinality(S)
<1>1. /\ n \in Nat /\ s \in [1..n -> S] /\ DOMAIN s = 1..n
      /\ \A i, k \in DOMAIN s : s[i] = s[k] => i = k
      /\ \A f \in S : \E i \in DOMAIN s : s[i] = f
  BY FilesFinite, SetToSeqLists, SetToSeqCovers
<1> HIDE DEF s, n
<1>2. DOMAIN msgs = DOMAIN s
      /\ \A i \in DOMAIN msgs : msgs[i].kind = "project" /\ msgs[i].uri = s[i]
  BY DEF s
<1>3. ASSUME NEW f \in S
      PROVE  \E i \in DOMAIN msgs :
               /\ s[i] = f /\ IsAbout(msgs[i], f)
               /\ \A k \in DOMAIN msgs : i < k => ~IsAbout(msgs[k], f)
  <2>1. PICK i \in DOMAIN s : s[i] = f
    BY <1>1
  <2>2. \A k \in DOMAIN msgs : i < k => ~IsAbout(msgs[k], f)
    BY <1>1, <1>2, <2>1 DEF IsAbout
  <2> QED
    BY <1>2, <2>1, <2>2 DEF IsAbout
<1>4. ASSUME NEW f, f \notin S PROVE ~Telling(msgs, f)
  BY <1>1, <1>2, <1>4 DEF Telling, IsAbout
<1> QED
  BY <1>3, <1>4 DEF s

LEMMA PublishAllTells ==
    ASSUME NEW w, WorkerOK(w), NEW now \in SUBSET Files, NEW f \in Files
    PROVE  LET said == PublishAll(w, now)
           IN /\ said \in Seq(Outbound)
              /\ f \in now =>
                   LastTells(said, f, OfScripts(GraphDiagnostics(w)[f]),
                             DiagnosticSource(w, f))
              /\ f \in w.published \ now => LastTells(said, f, {}, Package)
              /\ f \notin now \cup w.published => ~Telling(said, f)
<1> DEFINE Say(g) == ProjectDiagnostics(g, GraphDiagnostics(w)[g],
                                        DiagnosticSource(w, g))
           Clear(g) == ProjectDiagnostics(g, {}, Package)
           files == SetToSeq(now)
           cleared == w.published \ now
           gone == SetToSeq(cleared)
           n == Cardinality(now)
           k == Cardinality(cleared)
           new == [i \in DOMAIN files |-> Say(files[i])]
           old == [i \in DOMAIN gone |-> Clear(gone[i])]
<1>1. cleared \in SUBSET Files
  BY DEF WorkerOK, WorkerRecord
<1>2. /\ n \in Nat /\ files \in [1..n -> now] /\ DOMAIN files = 1..n
      /\ k \in Nat /\ gone \in [1..k -> cleared] /\ DOMAIN gone = 1..k
  BY <1>1, FilesFinite, SetToSeqLists
<1>3. ASSUME NEW g \in Files
      PROVE  /\ Say(g) \in Outbound /\ Say(g).kind = "project" /\ Say(g).uri = g
             /\ Say(g).findings = GraphDiagnostics(w)[g]
             /\ Say(g).version = DiagnosticSource(w, g)
             /\ Clear(g) \in Outbound /\ Clear(g).kind = "project"
             /\ Clear(g).uri = g /\ Clear(g).findings = {}
             /\ Clear(g).version = Package
  <2>1. /\ GraphDiagnostics(w)[g] \in SUBSET Finding
        /\ DiagnosticSource(w, g) \in Nat \cup {None, Package}
    BY GraphDiagnosticsType, DiagnosticSourceType
  <2> QED
    BY <2>1 DEF ProjectDiagnostics, Outbound
<1>4. PublishAll(w, now) = new \o old
  BY DEF PublishAll, PublishNew
<1>5. /\ DOMAIN new = DOMAIN files /\ \A i \in DOMAIN new : new[i] = Say(files[i])
      /\ DOMAIN old = DOMAIN gone /\ \A i \in DOMAIN old : old[i] = Clear(gone[i])
  OBVIOUS
<1> HIDE DEF Say, Clear, files, gone, n, k, cleared
<1>6. \A i \in 1..n : files[i] \in Files
  BY <1>2
<1>7. \A i \in 1..k : gone[i] \in Files
  BY <1>1, <1>2
<1>8. new \in Seq(Outbound)
  <2>1. new \in [1..n -> Outbound]
    BY <1>2, <1>3, <1>6
  <2> HIDE DEF new
  <2> QED
    BY <1>2, <2>1, SeqFromFunction
<1>9. old \in Seq(Outbound)
  <2>1. old \in [1..k -> Outbound]
    BY <1>2, <1>3, <1>7
  <2> HIDE DEF old
  <2> QED
    BY <1>2, <2>1, SeqFromFunction
<1> HIDE DEF new, old
<1>10. /\ \A g \in now :
            \E i \in DOMAIN new :
              /\ files[i] = g /\ IsAbout(new[i], g)
              /\ \A j \in DOMAIN new : i < j => ~IsAbout(new[j], g)
       /\ \A g : g \notin now => ~Telling(new, g)
  <2>1. \A i \in DOMAIN new : new[i].kind = "project" /\ new[i].uri = files[i]
    BY <1>2, <1>3, <1>5, <1>6
  <2> QED
    BY <1>5, <2>1, ListedOnce DEF files
<1>11. /\ \A g \in cleared :
            \E i \in DOMAIN old :
              /\ gone[i] = g /\ IsAbout(old[i], g)
              /\ \A j \in DOMAIN old : i < j => ~IsAbout(old[j], g)
       /\ \A g : g \notin cleared => ~Telling(old, g)
  <2>1. \A i \in DOMAIN old : old[i].kind = "project" /\ old[i].uri = gone[i]
    BY <1>2, <1>3, <1>5, <1>7
  <2> QED
    BY <1>1, <1>5, <2>1, ListedOnce DEF gone
<1>12. f \in now =>
         LastTells(new, f, OfScripts(GraphDiagnostics(w)[f]), DiagnosticSource(w, f))
  BY <1>3, <1>5, <1>10 DEF LastTells
<1>13. f \in cleared => LastTells(old, f, {}, Package)
  <2> SUFFICES ASSUME f \in cleared PROVE LastTells(old, f, {}, Package)
    OBVIOUS
  <2>1. PICK i \in DOMAIN old :
          /\ gone[i] = f /\ IsAbout(old[i], f)
          /\ \A j \in DOMAIN old : i < j => ~IsAbout(old[j], f)
    BY <1>11
  <2>2. old[i].findings = {} /\ old[i].version = Package
    BY <1>3, <1>5, <2>1
  <2>3. OfScripts({}) = {}
    BY DEF OfScripts
  <2> QED
    BY <2>1, <2>2, <2>3 DEF LastTells
<1>14. f \in now => ~Telling(old, f)
  BY <1>11 DEF cleared
<1>15. f \notin now \cup w.published => ~Telling(old, f) /\ ~Telling(new, f)
  BY <1>10, <1>11 DEF cleared
<1>16. PICK said : said = new \o old
  OBVIOUS
<1>17. /\ Telling(said, f) <=> Telling(new, f) \/ Telling(old, f)
       /\ \A x, v : LastTells(old, f, x, v) => LastTells(said, f, x, v)
       /\ ~Telling(old, f) =>
            \A x, v : LastTells(new, f, x, v) => LastTells(said, f, x, v)
  BY <1>8, <1>9, <1>16, NewsJoin
<1>18. f \in w.published \ now <=> f \in cleared
  BY DEF cleared
<1>19. said \in Seq(Outbound)
  BY <1>8, <1>9, <1>16
<1> QED
  BY <1>4, <1>12, <1>13, <1>14, <1>15, <1>16, <1>17, <1>18, <1>19

(* Whatever was installed, and whatever the package's findings are now.    *)
LEMMA PublishShows ==
    ASSUME NEW w, NEW u, NEW syncs, WorkerOK(u), Shows(w, syncs),
           u.published = w.published, SameNews(w.out, u.out),
           \A f \in Files :
             /\ \A p \in u.scripts.diagnostics[f] : p.text # None
             /\ u.scripts.diagnostics[f] # {} => f \in u.scripts.sources
    PROVE  Shows(PublishGraphDiagnostics(u), syncs)
<1> DEFINE now == {f \in Files : GraphDiagnostics(u)[f] # {}}
           said == PublishAll(u, now)
           last == <<[kind |-> "refresh"]>>
           most == u.out \o said
           out == most \o last
           x == [u EXCEPT !.published = now, !.out = out]
<1>1. PublishGraphDiagnostics(u) = x
  BY DEF PublishGraphDiagnostics
<1>2. u \in WorkerRecord /\ u.out \in Seq(Outbound)
  BY DEF WorkerOK, WorkerRecord
<1>3. now \in SUBSET Files
  OBVIOUS
<1>4. \A f \in Files :
        /\ f \in now =>
             LastTells(said, f, OfScripts(GraphDiagnostics(u)[f]),
                       DiagnosticSource(u, f))
        /\ f \in u.published \ now => LastTells(said, f, {}, Package)
        /\ f \notin now \cup u.published => ~Telling(said, f)
  <2> HIDE DEF now
  <2> QED
    BY <1>3, PublishAllTells
<1>5. said \in Seq(Outbound)
  <2> HIDE DEF now
  <2> QED
    BY <1>3, ProjectMessages
<1>6. last \in Seq(Outbound) /\ \A i \in DOMAIN last : last[i].kind # "project"
  BY DEF Outbound
<1>7. \A f : f \in now <=> f \in Files /\ GraphDiagnostics(u)[f] # {}
  OBVIOUS
<1> HIDE DEF now, said, last
<1>8. most \in Seq(Outbound)
  BY <1>2, <1>5
<1>9. SameNews(most, out)
  <2> HIDE DEF most
  <2> QED
    BY <1>6, <1>8, NoNews
<1>10. \A f \in Files :
         /\ Telling(most, f) <=> Telling(u.out, f) \/ Telling(said, f)
         /\ \A y, v : LastTells(said, f, y, v) => LastTells(most, f, y, v)
         /\ ~Telling(said, f) =>
              \A y, v : LastTells(u.out, f, y, v) => LastTells(most, f, y, v)
  BY <1>2, <1>5, NewsJoin
<1> HIDE DEF most, out
<1>11. /\ x.published = now /\ x.out = out /\ x.scripts = u.scripts
       /\ x.package = u.package /\ x.files = u.files
  BY <1>2 DEF WorkerRecord
<1> HIDE DEF x
<1> SUFFICES ASSUME NEW f \in Files
             PROVE  /\ \A p \in x.scripts.diagnostics[f] : p.text # None
                    /\ InCycle(x, f) => f \in x.published
                    /\ x.scripts.diagnostics[f] # {} =>
                         f \in x.published /\ ShowsFound(x, syncs, f)
                    /\ x.scripts.diagnostics[f] = {} /\ ~InCycle(x, f) =>
                         ShowsNothing(x, f)
  BY <1>1 DEF Shows, x
<1>12. /\ u.scripts.diagnostics[f] \in SUBSET Finding
       /\ u.package[f] \in SUBSET PackageFinding
       /\ \A p \in u.package[f] : p.text = None
  BY <1>2 DEF WorkerRecord, Scripts, PackageFinding
<1>13. GraphDiagnostics(u)[f] =
         {p \in u.package[f] : f \in u.scripts.sources => p.code = "cycle"}
           \cup u.scripts.diagnostics[f]
  BY DEF GraphDiagnostics
<1>14. OfScripts(GraphDiagnostics(u)[f]) = u.scripts.diagnostics[f]
  BY <1>12, <1>13 DEF OfScripts
<1>15. ASSUME f \in now \/ f \in u.published
       PROVE  Telling(x.out, f)
  <2>1. \E y, v : LastTells(said, f, y, v)
    BY <1>4, <1>15
  <2>2. Telling(said, f)
    BY <2>1 DEF LastTells, Telling
  <2> QED
    BY <1>9, <1>10, <1>11, <2>2 DEF SameNews
<1>16. \A y, v : LastTells(said, f, y, v) => LastTells(x.out, f, y, v)
  BY <1>9, <1>10, <1>11 DEF SameNews
<1>17. /\ \A p \in x.scripts.diagnostics[f] : p.text # None
       /\ InCycle(x, f) => f \in x.published
  BY <1>7, <1>11, <1>13 DEF InCycle
<1>18. ASSUME x.scripts.diagnostics[f] # {}
       PROVE  f \in x.published /\ ShowsFound(x, syncs, f)
  <2>1. f \in now
    BY <1>7, <1>11, <1>13, <1>18
  <2>2. DiagnosticSource(u, f) = x.scripts.versions[f]
    BY <1>11, <1>18 DEF DiagnosticSource
  <2>3. LastTells(x.out, f, x.scripts.diagnostics[f], x.scripts.versions[f])
    BY <1>4, <1>11, <1>14, <1>16, <2>1, <2>2
  <2> QED
    BY <1>11, <1>15, <2>1, <2>3 DEF ShowsFound
<1>19. ASSUME x.scripts.diagnostics[f] = {}, ~InCycle(x, f)
       PROVE  ShowsNothing(x, f)
  <2>1. CASE f \in now
    <3>1. f \notin u.scripts.sources
      BY <1>7, <1>11, <1>13, <1>19, <2>1 DEF InCycle
    <3>2. LastTells(x.out, f, {}, Package)
      BY <1>4, <1>11, <1>14, <1>16, <1>19, <2>1, <3>1 DEF DiagnosticSource
    <3> QED
      BY <1>15, <2>1, <3>2 DEF ShowsNothing
  <2>2. CASE f \in u.published \ now
    BY <1>4, <1>15, <1>16, <2>2 DEF ShowsNothing
  <2>3. CASE f \notin now \cup u.published
    <3>1. ~Telling(said, f)
      BY <1>4, <2>3
    <3>2. ShowsNothing(w, f)
      BY <2>3 DEF Shows
    <3>3. Telling(x.out, f) <=> Telling(w.out, f)
      BY <1>9, <1>10, <1>11, <3>1 DEF SameNews
    <3>4. \A y, v : LastTells(w.out, f, y, v) => LastTells(x.out, f, y, v)
      BY <1>9, <1>10, <1>11, <3>1 DEF SameNews
    <3> QED
      BY <3>2, <3>3, <3>4 DEF ShowsNothing
  <2> QED
    BY <2>1, <2>2, <2>3
<1> QED
  BY <1>17, <1>18, <1>19

-----------------------------------------------------------------------------
(* Installing a load.                                                      *)

LEMMA SetScriptSourcesNews ==
    ASSUME NEW w, WorkerOK(w), NEW loaded \in Loaded
    PROVE  SameNews(w.out, SetScriptSources(w, loaded).out)
<1> DEFINE sources == SourcesOf(loaded)
           text == TextsOf(w, loaded)
           readable == ReadableOf(w, loaded)
           track == [f \in Files |->
                       IF f \in readable THEN text[f] ELSE w.tracked[f]]
           written == [w EXCEPT !.tracked = track]
           changes == \E f \in readable : w.tracked[f] \notin {text[f], None}
           base == IF changes THEN Cancel(written) ELSE written
           files == [readable |-> readable, failed |-> sources \ readable,
                     entries |-> loaded.job.entries, pending |-> FALSE]
<1>1. /\ w \in WorkerRecord /\ IsFiniteSet(w.jobs)
      /\ w.tracked \in [Files -> Texts \cup {None}]
      /\ loaded.job.entries \in SUBSET Files
  BY DEF WorkerOK, WorkerRecord, Loaded, Load
<1>2. readable \in SUBSET Files /\ sources \in SUBSET Files
      /\ \A f \in readable : text[f] \in Texts
  BY DEF ReadableOf, SourcesOf
<1>3. SetScriptSources(w, loaded) = SetScriptFiles(base, files)
  BY DEF SetScriptSources, SourcesOf, TextsOf, ReadableOf
<1> HIDE DEF readable, sources, text
<1>4. track \in [Files -> Texts \cup {None}] /\ files \in ScriptFiles
  BY <1>1, <1>2 DEF ScriptFiles
<1> HIDE DEF track, changes, files
<1>5. written \in WorkerRecord
  BY <1>1, <1>4 DEF WorkerRecord
<1>6. written.jobs = w.jobs /\ written.out = w.out
  BY <1>1 DEF WorkerRecord
<1> HIDE DEF written
<1>7. WorkerOK(written)
  BY <1>1, <1>5, <1>6 DEF WorkerOK
<1>8. WorkerOK(base) /\ SameNews(written.out, base.out)
  BY <1>7, CancelOK, CancelSilent, NewsItself DEF Silent
<1> HIDE DEF base
<1>9. SameNews(base.out, SetScriptFiles(base, files).out)
  BY <1>4, <1>8, SetScriptFilesNews
<1> QED
  BY <1>3, <1>6, <1>8, <1>9, NewsTrans

(* What was found is new, or told already.                                 *)
LEMMA UnchangedShows ==
    ASSUME NEW w, NEW u, NEW syncs, Shows(w, syncs), ~Announces(w),
           u.package = w.package, u.published = w.published,
           SameNews(w.out, u.out),
           u.scripts.diagnostics = w.scripts.diagnostics,
           \A f \in Files : w.scripts.diagnostics[f] # {} =>
             u.scripts.versions[f] = w.scripts.versions[f]
    PROVE  Shows(u, syncs)
<1> SUFFICES ASSUME NEW f \in Files
             PROVE  /\ \A p \in u.scripts.diagnostics[f] : p.text # None
                    /\ InCycle(u, f) => f \in u.published
                    /\ u.scripts.diagnostics[f] # {} =>
                         f \in u.published /\ ShowsFound(u, syncs, f)
                    /\ u.scripts.diagnostics[f] = {} /\ ~InCycle(u, f) =>
                         ShowsNothing(u, f)
  BY DEF Shows
<1>1. InCycle(u, f) <=> InCycle(w, f)
  BY DEF InCycle
<1>2. /\ Telling(u.out, f) <=> Telling(w.out, f)
      /\ \A y, n : LastTells(w.out, f, y, n) => LastTells(u.out, f, y, n)
  BY DEF SameNews
<1>3. ASSUME w.scripts.diagnostics[f] # {}, ShowsFound(w, syncs, f)
      PROVE  ShowsFound(u, syncs, f)
  <2>1. u.scripts.versions[f] = w.scripts.versions[f]
    BY <1>3
  <2>2. Outdated(w, syncs, f) => Outdated(u, syncs, f)
    BY <2>1 DEF Outdated
  <2> QED
    BY <1>2, <1>3, <2>1, <2>2 DEF ShowsFound
<1>4. ShowsNothing(w, f) => ShowsNothing(u, f)
  BY <1>2 DEF ShowsNothing
<1> QED
  BY <1>1, <1>3, <1>4 DEF Shows

LEMMA InstallFound ==
    ASSUME NEW w, WorkerOK(w), NEW loaded \in Loaded, NEW u,
           ReadAgrees(loaded), Reaches(loaded, {}),
           loaded.job.entries = w.scripts.entries,
           loaded.job.documents = w.scripts.documents,
           u.scripts.entries = w.scripts.entries,
           u.scripts.documents = w.scripts.documents,
           u.scripts.sources = SourcesOf(loaded),
           u.scripts.diagnostics = FailedIncludes(loaded.sources),
           u.scripts.versions = VersionsOf(loaded.job.documents),
           u.files = [readable |-> ReadableOf(w, loaded),
                      failed |-> SourcesOf(loaded) \ ReadableOf(w, loaded),
                      entries |-> loaded.job.entries, pending |-> FALSE],
           \A f \in Files :
             u.tracked[f] = IF f \in ReadableOf(w, loaded)
                            THEN TextsOf(w, loaded)[f] ELSE w.tracked[f]
    PROVE  Found(u)
<1> DEFINE read == loaded.sources
           readable == ReadableOf(w, loaded)
           failed == SourcesOf(loaded) \ readable
<1>1. read \in Sources /\ w.scripts.documents \in Registrations
  BY DEF Loaded, WorkerOK, WorkerRecord, Scripts
<1>2. ASSUME NEW f \in Files, read[f] # None
      PROVE  TextsOf(w, loaded)[f] = read[f]
  BY <1>2 DEF TextsOf, ReadAgrees
<1>3. \A f \in Files : read[f] \in Texts \cup {Unreadable, None}
  BY <1>1 DEF Sources
<1>4. \A f \in Files : f \in readable <=> read[f] \in Texts
  BY <1>2, NoneAssumption DEF ReadableOf, SourcesOf
<1>5. \A f \in Files : f \in failed <=> read[f] = Unreadable
  BY <1>3, <1>4, NoneAssumption, TextsAssumption DEF SourcesOf
<1>6. \A f \in Files : f \in readable => u.tracked[f] = read[f]
  BY <1>2, <1>4, NoneAssumption
<1>7. u.files.readable = readable /\ u.files.failed = failed
  OBVIOUS
<1>8. readable \subseteq Files
  BY DEF ReadableOf, SourcesOf
<1> HIDE DEF readable, failed
<1>9. ASSUME NEW f \in Files
      PROVE  u.scripts.diagnostics[f] =
               IF f \in u.files.readable
               THEN {Missing(g, u.tracked[f]) :
                       g \in IncludesOf[u.tracked[f]] \cap u.files.failed}
               ELSE {}
  <2>1. CASE read[f] \in Texts
    <3>1. IncludesOf[read[f]] \subseteq Files
      BY <2>1, TextsAssumption
    <3>2. IncludesOf[read[f]] \cap failed
            = {h \in IncludesOf[read[f]] : read[h] = Unreadable}
      BY <1>5, <3>1
    <3>3. u.scripts.diagnostics[f] =
            {Missing(g, read[f]) :
               g \in {h \in IncludesOf[read[f]] : read[h] = Unreadable}}
      BY <2>1 DEF FailedIncludes
    <3> QED
      BY <1>4, <1>6, <1>7, <2>1, <3>2, <3>3
  <2>2. CASE read[f] \notin Texts
    BY <1>4, <1>7, <2>2 DEF FailedIncludes
  <2> QED
    BY <2>1, <2>2
<1>10. u.scripts.versions = VersionsOf(u.scripts.documents)
  OBVIOUS
<1>11. ASSUME NEW S \in SUBSET Files, u.scripts.entries \subseteq S,
              \A g \in S \cap u.files.readable :
                IncludesOf[u.tracked[g]] \subseteq S
       PROVE  u.scripts.sources \subseteq S
  <2>1. Closes(S, loaded)
    BY <1>4, <1>6, <1>7, <1>11 DEF Closes
  <2> QED
    BY <2>1 DEF Reaches, SourcesOf
<1> QED
  BY <1>9, <1>10, <1>11 DEF Found

LEMMA InstallReports ==
    ASSUME NEW w, NEW syncs, WorkerOK(w), Reports(w, syncs), NEW loaded \in Loaded,
           Numbered(w, loaded.job), ReadAgrees(loaded), Reaches(loaded, {}),
           IsNewest(w, loaded.job) => IsAwaited(w, loaded.job)
    PROVE  Reports(Install(w, loaded), syncs)
<1>1. CASE loaded.job.generation # w.scripts.generation
  <2>1. Install(w, loaded) = w
    BY <1>1 DEF Install
  <2> QED
    BY <2>1
<1>2. CASE loaded.job.generation = w.scripts.generation
  <2> DEFINE v == SetScriptSources(w, loaded)
             sources == SourcesOf(loaded)
             program == Program(loaded.job.entries, loaded.sources)
             found == FailedIncludes(loaded.sources)
             versions == VersionsOf(loaded.job.documents)
             s == [w.scripts EXCEPT !.loading = FALSE, !.sources = sources,
                                    !.program = program,
                                    !.diagnostics = found,
                                    !.versions = versions]
             u == [v EXCEPT !.scripts = s]
             x == PublishGraphDiagnostics(u)
  <2>1. /\ WorkerOK(v) /\ Keeps(v, w) /\ SameNews(w.out, v.out)
    BY SetScriptSourcesOK, SetScriptSourcesNews
  <2>2. /\ v.files = [readable |-> ReadableOf(w, loaded),
                      failed |-> SourcesOf(loaded) \ ReadableOf(w, loaded),
                      entries |-> loaded.job.entries, pending |-> FALSE]
        /\ \A f \in Files :
             v.tracked[f] = IF f \in ReadableOf(w, loaded)
                            THEN TextsOf(w, loaded)[f] ELSE w.tracked[f]
    BY SetScriptSourcesLeaves
  <2>3. /\ loaded.sources \in Sources /\ loaded.job \in Load
        /\ loaded.job.documents \in Registrations
        /\ w.scripts \in Scripts
    BY DEF Loaded, Load, WorkerOK, WorkerRecord
  <2>4. /\ found \in [Files -> SUBSET Finding] /\ program \in Programs
        /\ versions \in [Files -> Nat \cup {None}]
        /\ \A f \in Files : \A p \in found[f] :
             loaded.sources[f] \in Texts /\ p.text = loaded.sources[f]
    BY <2>3, FailedIncludesType, ProgramType, VersionsOfType
  <2>5. sources \in SUBSET Files
    BY DEF SourcesOf
  <2>6. Install(w, loaded) = IF Changed(w, loaded) THEN x ELSE u
    <3>1. v.scripts = w.scripts
      BY <2>1 DEF Keeps
    <3>2. Install(w, loaded) = Installed(w, loaded)
      BY <1>2 DEF Install
    <3> QED
      BY <3>1, <3>2 DEF Installed, SourcesOf
  <2>7. ~Changed(w, loaded) =>
          /\ ~Announces(w) /\ w.scripts.diagnostics = found
          /\ \A f \in Files : found[f] # {} =>
               w.scripts.versions[f] = versions[f]
    BY DEF Announces, Changed
  <2>8. \A f \in Files :
          /\ \A p \in found[f] : p.text # None
          /\ found[f] # {} => f \in sources
    BY <2>4, NoneAssumption DEF SourcesOf
  <2> HIDE DEF v, program, found, versions, sources
  <2>9. /\ s \in Scripts /\ s.entries = w.scripts.entries
        /\ s.documents = w.scripts.documents /\ s.sources = sources
        /\ s.diagnostics = found /\ s.versions = versions
    BY <2>3, <2>4, <2>5 DEF Scripts
  <2> HIDE DEF s
  <2>10. u \in WorkerRecord
    BY <2>1, <2>9 DEF WorkerOK, WorkerRecord
  <2>11. /\ u.scripts = s /\ u.files = v.files /\ u.out = v.out
         /\ u.package = v.package /\ u.published = v.published
         /\ u.parked = v.parked /\ u.tracked = v.tracked /\ u.jobs = v.jobs
    BY <2>1 DEF WorkerOK, WorkerRecord
  <2> HIDE DEF u
  <2>12. /\ WorkerOK(u) /\ u.package = w.package /\ u.published = w.published
         /\ u.parked = w.parked /\ SameNews(w.out, u.out)
    BY <2>1, <2>10, <2>11 DEF WorkerOK, Keeps
  <2>13. Found(u)
    <3>1. /\ loaded.job.entries = w.scripts.entries
          /\ loaded.job.documents = w.scripts.documents
      BY <1>2 DEF Numbered, IsNewest, IsAwaited
    <3>2. /\ u.scripts.entries = w.scripts.entries
          /\ u.scripts.documents = w.scripts.documents
          /\ u.scripts.sources = SourcesOf(loaded)
          /\ u.scripts.diagnostics = FailedIncludes(loaded.sources)
          /\ u.scripts.versions = VersionsOf(loaded.job.documents)
      BY <2>9, <2>11 DEF sources, found, versions
    <3>3. /\ u.files = [readable |-> ReadableOf(w, loaded),
                        failed |-> SourcesOf(loaded) \ ReadableOf(w, loaded),
                        entries |-> loaded.job.entries, pending |-> FALSE]
          /\ \A f \in Files :
               u.tracked[f] = IF f \in ReadableOf(w, loaded)
                              THEN TextsOf(w, loaded)[f] ELSE w.tracked[f]
      BY <2>2, <2>11
    <3> QED
      BY <3>1, <3>2, <3>3, InstallFound
  <2>14. CASE Changed(w, loaded)
    <3>1. Shows(x, syncs)
      BY <2>8, <2>9, <2>11, <2>12, PublishShows DEF Reports
    <3>2. SameLoads(x, u) /\ x.tracked = u.tracked
      BY <2>12, PublishLeaves
    <3> HIDE DEF x
    <3>3. Found(x)
      BY <2>13, <3>2, FoundKept DEF SameLoads
    <3> QED
      BY <2>6, <2>12, <2>14, <3>1, <3>2, <3>3
         DEF SameLoads, Reports, ParkedReaches
  <2>15. CASE ~Changed(w, loaded)
    <3>1. Shows(u, syncs)
      BY <2>7, <2>9, <2>11, <2>12, <2>15, UnchangedShows DEF Reports
    <3> QED
      BY <2>6, <2>12, <2>13, <2>15, <3>1 DEF Reports, ParkedReaches
  <2> QED
    BY <2>14, <2>15
<1> QED
  BY <1>1, <1>2

LEMMA UnparkReports ==
    ASSUME NEW w, NEW rd, NEW syncs, Good(w, rd), NewestOnce(w, rd),
           Reports(w, syncs)
    PROVE  Reports(Unpark(w), syncs)
<1>1. CASE w.inflight = None /\ w.parked # None
  <2> DEFINE l == w.parked
             v == [w EXCEPT !.parked = None]
  <2>1. /\ w \in WorkerRecord /\ IsFiniteSet(w.jobs) /\ l \in Loaded
    BY <1>1 DEF Good, WorkerOK, WorkerRecord
  <2>2. v \in WorkerRecord
    BY <2>1 DEF WorkerRecord
  <2>3. /\ v.scripts = w.scripts /\ v.files = w.files /\ v.out = w.out
        /\ v.jobs = w.jobs /\ v.package = w.package
        /\ v.published = w.published /\ v.tracked = w.tracked
        /\ v.parked = None
    BY <2>1 DEF WorkerRecord
  <2>4. Unpark(w) = Install(v, l)
    BY <1>1 DEF Unpark
  <2> HIDE DEF v
  <2>5. Numbered(v, l.job) /\ ReadAgrees(l) /\ Reaches(l, {})
    BY <1>1, <2>3 DEF Good, LoadsOK, Numbered, SpansOK, Reports, ParkedReaches
  <2>6. IsNewest(v, l.job) => IsAwaited(v, l.job)
    BY <1>1, <2>3 DEF NewestOnce, IsNewest, IsAwaited
  <2>7. WorkerOK(v)
    BY <2>1, <2>2, <2>3 DEF WorkerOK
  <2>8. Reports(v, syncs)
    <3>1. Silent(v, w)
      BY <2>3, SilentItself
    <3>2. Shows(v, syncs)
      BY <3>1, ShowsKept DEF Reports
    <3>3. Found(v)
      BY <2>3, FoundKept DEF Reports
    <3> QED
      BY <2>3, <3>2, <3>3 DEF Reports, ParkedReaches
  <2> HIDE DEF l
  <2>9. Reports(Install(v, l), syncs)
    BY <2>1, <2>5, <2>6, <2>7, <2>8, InstallReports
  <2> QED
    BY <2>4, <2>9
<1>2. CASE ~(w.inflight = None /\ w.parked # None)
  BY <1>2 DEF Unpark
<1> QED
  BY <1>1, <1>2


-----------------------------------------------------------------------------
(* A dispatch, an analysis that ends, a harvest, and a load that arrives.  *)

(* A record that differs in none of what Reports reads, but for what it    *)
(* tracks of files no load read.                                           *)
LEMMA StillReports ==
    ASSUME NEW w, NEW v, NEW syncs, Reports(w, syncs), Silent(v, w),
           v.scripts = w.scripts, v.files = w.files, v.parked = w.parked,
           ~w.scripts.loading /\ w.files # None =>
             \A f \in w.files.readable : v.tracked[f] = w.tracked[f]
    PROVE  Reports(v, syncs)
<1>1. Shows(v, syncs)
  BY ShowsKept DEF Reports
<1>2. Found(v)
  BY FoundKept DEF Reports
<1> QED
  BY <1>1, <1>2 DEF Reports, ParkedReaches

LEMMA StartReports ==
    ASSUME NEW w, WorkerOK(w), NEW syncs, QueuesRegistered(w),
           InstallsFresh(w, syncs), Reports(w, syncs),
           NEW f \in Files, w.pending[f] # None
    PROVE  Reports(Start(w, f), syncs)
<1> DEFINE req == w.pending[f]
           v == Upsert(w, f, req.text)
           pnd == [v.pending EXCEPT ![f] = None]
           flight == [uri |-> f, version |-> req.version]
           job == [uri |-> f, version |-> req.version,
                   world |-> World(v, req.entries), phase |-> "running"]
           gone == v.orphaned \ {f}
           js == v.jobs \cup {job}
           u == [v EXCEPT !.pending = pnd, !.inflight = flight,
                          !.orphaned = gone, !.jobs = js]
<1>1. req \in Request /\ req.text \in Texts
  BY DEF WorkerOK, WorkerRecord, Request
<1>2. /\ WorkerOK(v) /\ SameLoads(v, w) /\ Silent(v, w)
      /\ v.tracked = [w.tracked EXCEPT ![f] = req.text]
  BY <1>1, UpsertOK, UpsertLeaves, UpsertSilent
<1>3. Start(w, f) = u
  <2>1. Start(w, f) = [v EXCEPT !.pending[f] = None, !.inflight = flight,
                                !.orphaned = @ \ {f}, !.jobs = @ \cup {job}]
    BY DEF Start
  <2> HIDE DEF req, v, flight, job
  <2> QED
    BY <1>2, <2>1 DEF WorkerOK, WorkerRecord
<1>4. w.scripts.documents[f] # None /\ w.scripts.documents[f].text = req.text
  <2>1. w.scripts.documents[f] = Registration(req, req.entries)
    BY DEF QueuesRegistered
  <2>2. Registration(req, req.entries) \in Registered
    BY <1>1 DEF Request, Registered, Registration
  <2> QED
    BY <2>1, <2>2, NoneAssumption DEF Registration
<1> HIDE DEF req, v
<1>5. /\ v \in WorkerRecord /\ w \in WorkerRecord
      /\ w.tracked \in [Files -> Texts \cup {None}]
  BY <1>2 DEF WorkerOK, WorkerRecord
<1>6. \A g \in Files : v.tracked[g] = IF g = f THEN req.text ELSE w.tracked[g]
  BY <1>2, <1>5
<1> HIDE DEF job, flight, js, pnd, gone
<1>7. /\ u.scripts = v.scripts /\ u.files = v.files /\ u.parked = v.parked
      /\ u.out = v.out /\ u.package = v.package /\ u.published = v.published
      /\ u.tracked = v.tracked
  BY <1>5 DEF WorkerRecord
<1> HIDE DEF u
<1>8. Silent(u, w)
  BY <1>2, <1>7, SilentItself, SilentTrans
<1>9. ASSUME ~w.scripts.loading, w.files # None, NEW g \in w.files.readable
      PROVE  u.tracked[g] = w.tracked[g]
  <2>1. g \in Files
    <3>1. w.files \in ScriptFiles
      BY <1>5, <1>9 DEF WorkerRecord
    <3> QED
      BY <1>9, <3>1 DEF ScriptFiles
  <2>2. Fresh(w, syncs, g, w.tracked[g])
    BY <1>9 DEF InstallsFresh
  <2> QED
    BY <1>4, <1>6, <1>7, <2>1, <2>2 DEF Fresh
<1> QED
  BY <1>2, <1>3, <1>7, <1>8, <1>9, StillReports DEF SameLoads, u

LEMMA TryDispatchReports ==
    ASSUME NEW w, NEW rd, NEW q, NEW syncs, Good(w, rd),
           Tracks(w, rd, q, syncs), Reports(w, syncs), NEW x \in TryDispatch(w)
    PROVE  Reports(x, syncs)
<1> DEFINE v == Unpark(w)
           c == Cancel(v)
           free == [c EXCEPT !.inflight = None]
           base == IF v.inflight = None THEN v ELSE free
<1>1. /\ Current(v, rd, q, syncs) /\ v.pending = w.pending
      /\ v.scripts.documents = w.scripts.documents
  BY UnparkCurrent DEF Tracks
<1>2. WorkerOK(v) /\ QueuesRegistered(v)
  BY <1>1, UnparkGood DEF QueuesRegistered, Tracks, Good
<1>3. Reports(v, syncs)
  BY UnparkReports DEF Tracks, Current
<1>4. x \in Dispatch(v)
  BY DEF TryDispatch
<1> HIDE DEF v
<1>5. /\ WorkerOK(c) /\ SameLoads(c, v) /\ Silent(c, v)
      /\ c.pending = v.pending /\ c.tracked = v.tracked
  BY <1>2, CancelOK, CancelLeaves, CancelSilent
<1>6. \/ x = v
      \/ \E f \in Files : v.pending[f] # None /\ x = Start(base, f)
  BY <1>4 DEF Dispatch, Decide
<1> HIDE DEF c
<1>7. /\ WorkerOK(free) /\ QueuesRegistered(free) /\ InstallsFresh(free, syncs)
      /\ Reports(free, syncs) /\ free.pending = v.pending
  <2>1. c \in WorkerRecord /\ IsFiniteSet(c.jobs)
    BY <1>5 DEF WorkerOK
  <2>2. free \in WorkerRecord /\ free.jobs = c.jobs
    BY <2>1 DEF WorkerRecord
  <2>3. /\ SameLoads(free, c) /\ free.package = c.package
        /\ free.published = c.published /\ free.tracked = c.tracked
        /\ free.out = c.out /\ free.pending = c.pending
    BY <2>1 DEF WorkerRecord, SameLoads
  <2> HIDE DEF free
  <2>4. WorkerOK(free)
    BY <2>1, <2>2 DEF WorkerOK
  <2>5. SameLoads(free, v) /\ free.tracked = v.tracked /\ free.pending = v.pending
    BY <1>5, <2>3 DEF SameLoads
  <2>6. Silent(free, v)
    BY <1>5, <2>3, SilentItself, SilentTrans DEF SameLoads
  <2>7. Reports(free, syncs)
    BY <1>3, <2>5, <2>6, StillReports DEF SameLoads
  <2>8. InstallsFresh(free, syncs)
    BY <1>1, <2>5 DEF SameLoads, Current, InstallsFresh, Fresh
  <2>9. QueuesRegistered(free)
    BY <1>2, <2>5 DEF SameLoads, QueuesRegistered
  <2> QED
    BY <2>4, <2>5, <2>7, <2>8, <2>9
<1> HIDE DEF free
<1>8. /\ WorkerOK(base) /\ QueuesRegistered(base) /\ InstallsFresh(base, syncs)
      /\ Reports(base, syncs) /\ base.pending = v.pending
  BY <1>1, <1>2, <1>3, <1>7 DEF Current
<1> HIDE DEF base
<1>9. ASSUME NEW f \in Files, v.pending[f] # None
      PROVE  Reports(Start(base, f), syncs)
  BY <1>8, <1>9, StartReports
<1> QED
  BY <1>3, <1>6, <1>9

LEMMA EndedReports ==
    ASSUME NEW w, NEW syncs, WorkerOK(w), Reports(w, syncs), NEW job
    PROVE  Reports(Ended(w, job), syncs)
<1> DEFINE js == w.jobs \ {job}
           b == [w EXCEPT !.jobs = js]
           free == [b EXCEPT !.inflight = None]
<1>1. w \in WorkerRecord /\ w.jobs \in SUBSET Job
  BY DEF WorkerOK, WorkerRecord
<1>2. js \in SUBSET Job
  BY <1>1
<1>3. Ended(w, job) \in {b, free}
  BY DEF Ended
<1> HIDE DEF js
<1>4. b \in WorkerRecord
  BY <1>1, <1>2 DEF WorkerRecord
<1>5. /\ b.scripts = w.scripts /\ b.files = w.files /\ b.parked = w.parked
      /\ b.out = w.out /\ b.package = w.package /\ b.published = w.published
      /\ b.tracked = w.tracked
  BY <1>1 DEF WorkerRecord
<1> HIDE DEF b
<1>6. /\ free.scripts = w.scripts /\ free.files = w.files
      /\ free.parked = w.parked /\ free.out = w.out
      /\ free.package = w.package /\ free.published = w.published
      /\ free.tracked = w.tracked
  BY <1>4, <1>5 DEF WorkerRecord
<1> HIDE DEF free
<1>7. Reports(b, syncs) /\ Reports(free, syncs)
  BY <1>5, <1>6, SilentItself, StillReports
<1> QED
  BY <1>3, <1>7

LEMMA LibraryReports ==
    ASSUME NEW w, NEW rd, NEW syncs, Good(w, rd), Reports(w, syncs),
           NEW found \in Harvests
    PROVE  Reports(PublishGraphDiagnostics([Cancel(w) EXCEPT !.package = found]),
                   syncs)
<1> DEFINE c == Cancel(w)
           u == [c EXCEPT !.package = found]
           v == PublishGraphDiagnostics(u)
<1>1. /\ WorkerOK(c) /\ SameLoads(c, w) /\ Silent(c, w)
      /\ c.tracked = w.tracked
  BY CancelOK, CancelLeaves, CancelSilent DEF Good
<1> HIDE DEF c
<1>2. c \in WorkerRecord /\ IsFiniteSet(c.jobs)
      /\ found \in [Files -> SUBSET PackageFinding]
  BY <1>1, HarvestsAssumption DEF WorkerOK
<1>3. u \in WorkerRecord
  BY <1>2 DEF WorkerRecord
<1>4. /\ SameLoads(u, c) /\ u.tracked = c.tracked /\ u.jobs = c.jobs
      /\ u.published = c.published /\ u.out = c.out
  BY <1>2 DEF WorkerRecord, SameLoads
<1> HIDE DEF u
<1>5. WorkerOK(u)
  BY <1>2, <1>3, <1>4 DEF WorkerOK
<1>6. /\ u.scripts = w.scripts /\ u.files = w.files /\ u.parked = w.parked
      /\ u.tracked = w.tracked /\ u.published = w.published
      /\ SameNews(w.out, u.out)
  BY <1>1, <1>4 DEF SameLoads, Silent
<1>7. \A f \in Files :
        /\ \A p \in u.scripts.diagnostics[f] : p.text # None
        /\ u.scripts.diagnostics[f] # {} => f \in u.scripts.sources
  BY <1>6 DEF Good, SpansOK, Reports, Shows
<1>8. Shows(v, syncs)
  BY <1>5, <1>6, <1>7, PublishShows DEF Reports
<1>9. SameLoads(v, u) /\ v.tracked = u.tracked
  BY <1>5, PublishLeaves
<1> HIDE DEF v
<1>10. v.scripts = w.scripts /\ v.files = w.files /\ v.parked = w.parked
       /\ v.tracked = w.tracked
  BY <1>6, <1>9 DEF SameLoads
<1>11. Found(v)
  BY <1>10, FoundKept DEF Reports
<1> QED
  BY <1>8, <1>10, <1>11 DEF Reports, ParkedReaches, v, u, c

LEMMA LoadedReports ==
    ASSUME NEW w, NEW rd \in Seq(Loaded), NEW q, NEW syncs, rd # <<>>,
           Good(w, rd), Tracks(w, rd, q, syncs), Reports(w, syncs),
           \A i \in DOMAIN rd : ReadAgrees(rd[i]) /\ Reaches(rd[i], {})
    PROVE  Reports(OnScriptsLoaded(w, Head(rd)), syncs)
<1> DEFINE l == Head(rd)
<1>1. l = rd[1] /\ 1 \in DOMAIN rd /\ l \in Loaded
  BY HeadAndTail
<1>2. IsNewest(w, l.job) => IsAwaited(w, l.job)
  BY TailTracks DEF Tracks
<1> HIDE DEF l
<1>3. ReadAgrees(l) /\ Reaches(l, {}) /\ Numbered(w, l.job) /\ WorkerOK(w)
  BY <1>1 DEF Good, LoadsOK
<1>4. CASE w.inflight = None
  <2>1. Reports(Install(w, l), syncs)
    BY <1>1, <1>2, <1>3, InstallReports
  <2> QED
    BY <1>4, <2>1 DEF OnScriptsLoaded, l
<1>5. CASE w.inflight # None
  <2> DEFINE v == [w EXCEPT !.parked = l]
  <2>1. w \in WorkerRecord
    BY DEF Good, WorkerOK
  <2>2. /\ v.scripts = w.scripts /\ v.parked = l /\ v.files = w.files
        /\ v.out = w.out /\ v.package = w.package
        /\ v.published = w.published /\ v.tracked = w.tracked
    BY <2>1 DEF WorkerRecord
  <2>3. OnScriptsLoaded(w, l) = v
    BY <1>5 DEF OnScriptsLoaded
  <2> HIDE DEF v
  <2>4. Shows(v, syncs)
    BY <2>2, SilentItself, ShowsKept DEF Reports
  <2>5. Found(v)
    BY <2>2, FoundKept DEF Reports
  <2> QED
    BY <1>3, <2>2, <2>3, <2>4, <2>5 DEF Reports, ParkedReaches, l
<1> QED
  BY <1>4, <1>5

-----------------------------------------------------------------------------
(* The fourth invariant of the system, and the step of another thread.     *)

(* Found speaks of the record alone.                                       *)
LEMMA FoundStays ==
    ASSUME NEW w, Found(w)
    PROVE  Found(w)'
BY DEF Found, Missing, VersionsOf

ReportInv == Reports(Worker("linting"), Awaited(arm, sync_rx)) /\ LoadsReach

SameReports(v, w) ==
    /\ v.scripts = w.scripts /\ v.files = w.files /\ v.parked = w.parked
    /\ v.package = w.package /\ v.published = w.published
    /\ v.tracked = w.tracked /\ v.out = w.out

LEMMA ReportsAfter ==
    ASSUME NEW w, w = Worker("linting")', NEW syncs,
           syncs = Awaited(arm, sync_rx)', Reports(w, syncs)', LoadsReach'
    PROVE  ReportInv'
<1>1. Shows(Worker("linting"), Awaited(arm, sync_rx))'
  BY DEF Reports, Shows, ShowsFound, ShowsNothing, Outdated, InCycle, Announces
<1>2. Found(Worker("linting"))'
  BY DEF Reports, Found, Missing, VersionsOf
<1>3. ParkedReaches(Worker("linting"))'
  BY DEF Reports, ParkedReaches
<1> QED
  BY <1>1, <1>2, <1>3 DEF ReportInv, Reports

(* The same worker, in a state with the same buffers and the same display. *)
LEMMA ReportsStep ==
    ASSUME NEW w, NEW v, NEW syncs, NEW late, Reports(w, syncs),
           SameReports(v, w), syncs \subseteq late,
           UNCHANGED <<documents, graphVars>>
    PROVE  Reports(v, late)'
<1>1. Shows(v, late)'
  <2> SUFFICES ASSUME NEW f \in Files
               PROVE  (/\ \A p \in v.scripts.diagnostics[f] : p.text # None
                       /\ InCycle(v, f) => f \in v.published
                       /\ v.scripts.diagnostics[f] # {} =>
                            f \in v.published /\ ShowsFound(v, late, f)
                       /\ v.scripts.diagnostics[f] = {} /\ ~InCycle(v, f) =>
                            ShowsNothing(v, f))'
    BY DEF Shows
  <2>1. InCycle(v, f)' <=> InCycle(w, f)
    BY DEF InCycle, SameReports
  <2>2. Displays(f, w.scripts.diagnostics[f]) => Displays(f, w.scripts.diagnostics[f])'
    BY DEF Displays, graphVars
  <2>3. Displays(f, {}) => Displays(f, {})'
    BY DEF Displays, graphVars
  <2>4. Outdated(w, syncs, f) => Outdated(v, late, f)'
    BY DEF Outdated, Announces, BufferVersion, SameReports
  <2>5. ShowsFound(w, syncs, f) => ShowsFound(v, late, f)'
    BY <2>2, <2>4 DEF ShowsFound, SameReports, graphVars
  <2>6. ShowsNothing(w, f) => ShowsNothing(v, f)'
    BY <2>3 DEF ShowsNothing, SameReports
  <2> QED
    BY <2>1, <2>5, <2>6 DEF Reports, Shows, SameReports
<1>2. Found(v)'
  <2>1. Found(v)
    BY FoundKept DEF Reports, SameReports
  <2> QED
    BY <2>1, FoundStays
<1>3. ParkedReaches(v)'
  BY DEF Reports, ParkedReaches, SameReports
<1> QED
  BY <1>1, <1>2, <1>3 DEF Reports

LEMMA CommitReports ==
    ASSUME NEW v, NEW syncs, Reports(v, syncs), Commit(v),
           syncs \subseteq Awaited(arm, sync_rx)',
           UNCHANGED <<documents, graphVars>>, LoadsReach'
    PROVE  ReportInv'
<1>1. PICK u : u = Worker("linting")'
  OBVIOUS
<1>2. PICK late : late = Awaited(arm, sync_rx)'
  OBVIOUS
<1>3. SameReports(u, v)
  BY <1>1 DEF Worker, Commit, SameReports
<1>4. Reports(u, late)'
  BY <1>2, <1>3, ReportsStep
<1> QED
  BY <1>1, <1>2, <1>4, ReportsAfter

(* A step of the client, the main loop or the read pool.                   *)
LEMMA OutsideReports ==
    ASSUME ReportInv, UNCHANGED <<workerVars, loader, ready>>,
           NEW w, w = Worker("linting"), NEW v, v = Worker("linting")',
           NEW syncs, syncs = Awaited(arm, sync_rx),
           NEW late, late = Awaited(arm, sync_rx)',
           \A f \in Files :
             /\ w.scripts.diagnostics[f] # {} /\ ShowsFound(w, syncs, f) =>
                  ShowsFound(v, late, f)'
             /\ ShowsNothing(w, f) => ShowsNothing(v, f)'
    PROVE  ReportInv'
<1>1. /\ v.scripts = w.scripts /\ v.files = w.files /\ v.parked = w.parked
      /\ v.package = w.package /\ v.published = w.published
      /\ v.tracked = w.tracked
  BY DEF Worker, workerVars
<1>2. Reports(w, syncs)
  BY DEF ReportInv
<1>3. \A f : InCycle(v, f)' <=> InCycle(w, f)
  BY <1>1 DEF InCycle
<1>4. Shows(v, late)'
  BY <1>1, <1>2, <1>3 DEF Reports, Shows
<1>5. Found(v)'
  <2>1. Found(v)
    BY <1>1, <1>2, FoundKept DEF Reports
  <2> QED
    BY <2>1, FoundStays
<1>6. ParkedReaches(v)'
  BY <1>1, <1>2 DEF Reports, ParkedReaches
<1>7. Reports(v, late)'
  BY <1>4, <1>5, <1>6 DEF Reports
<1>8. LoadsReach'
  BY DEF ReportInv, LoadsReach
<1> QED
  BY <1>7, <1>8, ReportsAfter

(* Nothing is displayed, opened or closed; the queue tells the same.       *)
LEMMA QuietReports ==
    ASSUME ReportInv,
           UNCHANGED <<workerVars, loader, ready, documents, graphVars>>,
           SameNews(out_rx, out_rx'),
           Awaited(arm, sync_rx) \subseteq Awaited(arm, sync_rx)'
    PROVE  ReportInv'
<1>1. PICK w : w = Worker("linting")
  OBVIOUS
<1>2. PICK v : v = Worker("linting")'
  OBVIOUS
<1>3. PICK syncs : syncs = Awaited(arm, sync_rx)
  OBVIOUS
<1>4. PICK late : late = Awaited(arm, sync_rx)'
  OBVIOUS
<1>5. /\ v.scripts = w.scripts /\ v.files = w.files /\ v.package = w.package
      /\ v.published = w.published /\ w.out = out_rx /\ v.out = out_rx'
  BY <1>1, <1>2 DEF Worker, workerVars
<1>6. ASSUME NEW f \in Files
      PROVE  /\ ShowsFound(w, syncs, f) => ShowsFound(v, late, f)'
             /\ ShowsNothing(w, f) => ShowsNothing(v, f)'
  <2>1. /\ Telling(v.out, f) <=> Telling(w.out, f)
        /\ \A x, n : LastTells(w.out, f, x, n) => LastTells(v.out, f, x, n)
    BY <1>5 DEF SameNews
  <2>2. \A x : Displays(f, x) => Displays(f, x)'
    BY DEF Displays, graphVars
  <2>3. Outdated(w, syncs, f) => Outdated(v, late, f)'
    BY <1>3, <1>4, <1>5 DEF Outdated, Announces, BufferVersion
  <2>4. ShowsFound(w, syncs, f) => ShowsFound(v, late, f)'
    BY <1>5, <2>1, <2>2, <2>3 DEF ShowsFound, graphVars
  <2>5. ShowsNothing(w, f) => ShowsNothing(v, f)'
    BY <2>1, <2>2 DEF ShowsNothing
  <2> QED
    BY <2>4, <2>5
<1> QED
  BY <1>1, <1>2, <1>3, <1>4, <1>6, OutsideReports

-----------------------------------------------------------------------------
(* The client, the main loop and the read pool.                            *)

(* The first message is received: it was the last about its file, or what  *)
(* the last one tells is still to come.                                    *)
LEMMA TailNews ==
    ASSUME NEW o \in Seq(Outbound), o # <<>>, NEW f
    PROVE  /\ Telling(Tail(o), f) => Telling(o, f)
           /\ Telling(o, f) /\ ~IsAbout(Head(o), f) => Telling(Tail(o), f)
           /\ \A x, v : LastTells(o, f, x, v) =>
                IF Telling(Tail(o), f) THEN LastTells(Tail(o), f, x, v)
                ELSE /\ IsAbout(Head(o), f)
                     /\ OfScripts(Head(o).findings) = x /\ Head(o).version = v
<1> DEFINE r == Tail(o)
           m == Head(o)
<1>1. /\ m = o[1] /\ 1 \in DOMAIN o
      /\ \A i \in DOMAIN r :
           i + 1 \in DOMAIN o /\ 1 < i + 1 /\ r[i] = o[i + 1]
      /\ \A i \in DOMAIN o : i # 1 => i - 1 \in DOMAIN r /\ r[i - 1] = o[i]
      /\ DOMAIN r \subseteq Nat /\ DOMAIN o \subseteq Nat
  <2>1. r \in Seq(Outbound)
    BY TailIndices
  <2>2. DOMAIN r \subseteq Nat /\ DOMAIN o \subseteq Nat
    <3> HIDE DEF r
    <3> QED
      BY <2>1
  <2> QED
    BY <2>2, TailIndices
<1> HIDE DEF r, m
<1>2. Telling(r, f) => Telling(o, f)
  BY <1>1 DEF Telling
<1>3. Telling(o, f) /\ ~IsAbout(m, f) => Telling(r, f)
  BY <1>1 DEF Telling
<1>4. ASSUME NEW x, NEW v, LastTells(o, f, x, v)
      PROVE  IF Telling(r, f) THEN LastTells(r, f, x, v)
             ELSE IsAbout(m, f) /\ OfScripts(m.findings) = x /\ m.version = v
  <2>1. PICK i \in DOMAIN o :
          /\ IsAbout(o[i], f) /\ OfScripts(o[i].findings) = x
          /\ o[i].version = v
          /\ \A k \in DOMAIN o : i < k => ~IsAbout(o[k], f)
    BY <1>4 DEF LastTells
  <2>2. CASE i = 1
    <3>1. ~Telling(r, f)
      <4> SUFFICES ASSUME NEW j \in DOMAIN r PROVE ~IsAbout(r[j], f)
        BY DEF Telling
      <4>1. j + 1 \in DOMAIN o /\ 1 < j + 1 /\ r[j] = o[j + 1]
        BY <1>1
      <4> QED
        BY <2>1, <2>2, <4>1
    <3> QED
      BY <1>1, <2>1, <2>2, <3>1
  <2>3. CASE i # 1
    <3>1. i - 1 \in DOMAIN r /\ r[i - 1] = o[i]
      BY <1>1, <2>3
    <3>2. ASSUME NEW k \in DOMAIN r, i - 1 < k PROVE ~IsAbout(r[k], f)
      <4>1. k + 1 \in DOMAIN o /\ r[k] = o[k + 1]
        BY <1>1
      <4>2. i < k + 1
        BY <1>1, <3>2
      <4> QED
        BY <2>1, <4>1, <4>2
    <3>3. LastTells(r, f, x, v)
      BY <2>1, <3>1, <3>2 DEF LastTells
    <3>4. Telling(r, f)
      BY <2>1, <3>1 DEF Telling
    <3> QED
      BY <3>3, <3>4
  <2> QED
    BY <2>2, <2>3
<1> QED
  BY <1>2, <1>3, <1>4 DEF r, m

(* A message of another kind is received.                                  *)
LEMMA OtherNews ==
    ASSUME NEW o \in Seq(Outbound), o # <<>>, Head(o).kind # "project"
    PROVE  SameNews(o, Tail(o))
<1>1. ASSUME NEW f \in Files
      PROVE  /\ Telling(Tail(o), f) <=> Telling(o, f)
             /\ \A x, v : LastTells(o, f, x, v) => LastTells(Tail(o), f, x, v)
  <2>1. ~IsAbout(Head(o), f)
    BY DEF IsAbout
  <2> QED
    BY <2>1, TailNews
<1> QED
  BY <1>1 DEF SameNews

(* An edit makes the findings of every older version outdated.             *)
LEMMA SetDocumentReports ==
    ASSUME IndInv, ReportInv, NEW f \in Files, NEW t \in Buffers[f],
           SetDocument(f, t)
    PROVE  ReportInv'
<1> DEFINE doc == [version |-> lastVersion[f] + 1, text |-> t]
<1>1. /\ documents' = [documents EXCEPT ![f] = doc]
      /\ UNCHANGED <<graphVars, sync_rx, ready, out_rx, loader, workerVars>>
  BY DEF SetDocument
<1>2. /\ lastVersion \in [Files -> Nat] /\ documents \in [Files -> Document \cup {None}]
      /\ t \in Texts
  BY TextsAssumption DEF IndInv, TypeOK, MainTypes
<1>3. doc \in Document /\ doc # None /\ doc.version = lastVersion[f] + 1
  <2>1. doc \in Document
    BY <1>2 DEF Document
  <2> QED
    BY <2>1, NoneAssumption
<1> HIDE DEF doc
<1>4. \A g \in Files : documents'[g] = IF g = f THEN doc ELSE documents[g]
  BY <1>1, <1>2
<1>5. PICK w : w = Worker("linting")
  OBVIOUS
<1>6. PICK v : v = Worker("linting")'
  OBVIOUS
<1>7. PICK syncs : syncs = Awaited(arm, sync_rx)
  OBVIOUS
<1>8. syncs = Awaited(arm, sync_rx)'
  BY <1>1, <1>7 DEF workerVars, Awaited, SyncTarget, Syncing
<1>9. /\ v.scripts = w.scripts /\ v.files = w.files /\ v.out = w.out
      /\ w.scripts \in Scripts
  BY <1>1, <1>5, <1>6 DEF Worker, workerVars, IndInv, TypeOK, WorkerTypes
<1>10. Shows(w, syncs) /\ SpansOK(w)
  BY <1>5, <1>7 DEF ReportInv, Reports, IndInv, LoadInv, Good
<1>11. ASSUME NEW g \in Files
       PROVE  /\ w.scripts.diagnostics[g] # {} /\ ShowsFound(w, syncs, g) =>
                   ShowsFound(v, syncs, g)'
              /\ ShowsNothing(w, g) => ShowsNothing(v, g)'
  <2>1. \A x : Displays(g, x) => Displays(g, x)'
    BY <1>1 DEF Displays, graphVars
  <2>2. ShowsNothing(w, g) => ShowsNothing(v, g)'
    BY <1>9, <2>1 DEF ShowsNothing
  <2>3. ASSUME w.scripts.diagnostics[g] # {}, g = f
        PROVE  w.scripts.versions[g] # BufferVersion(g)'
    <3>1. PICK p \in w.scripts.diagnostics[g] : p.text # None
      BY <1>10, <2>3 DEF Shows
    <3>2. w.scripts.versions[g] \in Nat => w.scripts.versions[g] <= lastVersion[g]
      BY <1>10, <3>1, NoneAssumption DEF SpansOK, FindingsAgree, Agrees
    <3>3. BufferVersion(g)' = lastVersion[g] + 1
      BY <1>3, <1>4, <2>3 DEF BufferVersion
    <3>4. w.scripts.versions[g] \in Nat \cup {None}
      BY <1>9 DEF Scripts
    <3>5. lastVersion[g] \in Nat
      BY <1>2
    <3> QED
      BY <3>2, <3>3, <3>4, <3>5, NoneAssumption
  <2>4. w.scripts.diagnostics[g] # {} /\ Outdated(w, syncs, g) =>
          Outdated(v, syncs, g)'
    <3>1. g # f => BufferVersion(g)' = BufferVersion(g)
      BY <1>4 DEF BufferVersion
    <3> QED
      BY <1>9, <2>3, <3>1 DEF Outdated, Announces
  <2>5. w.scripts.diagnostics[g] # {} /\ ShowsFound(w, syncs, g) =>
          ShowsFound(v, syncs, g)'
    BY <1>1, <1>9, <2>1, <2>4 DEF ShowsFound, graphVars
  <2> QED
    BY <2>2, <2>5
<1>12. UNCHANGED <<workerVars, loader, ready>>
  BY <1>1
<1> QED
  BY <1>5, <1>6, <1>7, <1>8, <1>11, <1>12, OutsideReports

(* A closed file still displays what it displayed, or nothing.             *)
LEMMA ShownOfMerged ==
    ASSUME NEW f, NEW doc, NEW findings, NEW version
    PROVE  /\ Merged(f, doc, findings, version).findings \subseteq findings
           /\ version = Package
              \/ version = (IF doc = None THEN None ELSE doc.version) =>
                Merged(f, doc, findings, version).findings = findings
BY DEF Merged

LEMMA DidCloseReports ==
    ASSUME IndInv, ReportInv, NEW f \in Files, DidClose(f)
    PROVE  ReportInv'
<1> DEFINE what == Merged(f, None, graph_diags[f], graph_versions[f])
<1>1. /\ documents' = [documents EXCEPT ![f] = None]
      /\ sync_rx' = Append(sync_rx, f)
      /\ shown' = [shown EXCEPT ![f] = what]
      /\ UNCHANGED <<graph_diags, graph_versions, ready, out_rx, loader,
                     workerVars>>
  BY DEF DidClose
<1>2. /\ documents \in [Files -> Document \cup {None}]
      /\ shown \in [Files -> Shown] /\ sync_rx \in Seq(Files)
  BY DEF IndInv, TypeOK, MainTypes, ChannelTypes
<1>3. what.findings \subseteq graph_diags[f]
  BY ShownOfMerged
<1> HIDE DEF what
<1>4. \A g \in Files :
        /\ documents'[g] = IF g = f THEN None ELSE documents[g]
        /\ shown'[g] = IF g = f THEN what ELSE shown[g]
  BY <1>1, <1>2
<1>5. PICK w : w = Worker("linting")
  OBVIOUS
<1>6. PICK v : v = Worker("linting")'
  OBVIOUS
<1>7. PICK syncs : syncs = Awaited(arm, sync_rx)
  OBVIOUS
<1>8. PICK late : late = Awaited(arm, sync_rx)'
  OBVIOUS
<1>9. syncs \subseteq late /\ f \in late
  <2>1. arm' = arm
    BY <1>1 DEF workerVars
  <2> QED
    BY <1>1, <1>2, <1>7, <1>8, <2>1, AppendAwaited
<1>10. /\ v.scripts = w.scripts /\ v.files = w.files /\ v.out = w.out
  BY <1>1, <1>5, <1>6 DEF Worker, workerVars
<1>11. ASSUME NEW g \in Files
       PROVE  /\ ShowsFound(w, syncs, g) => ShowsFound(v, late, g)'
              /\ ShowsNothing(w, g) => ShowsNothing(v, g)'
  <2>1. CASE g # f
    <3>1. \A x : Displays(g, x) => Displays(g, x)'
      BY <1>1, <1>4, <2>1 DEF Displays
    <3>2. Outdated(w, syncs, g) => Outdated(v, late, g)'
      BY <1>4, <1>9, <1>10, <2>1 DEF Outdated, Announces, BufferVersion
    <3> QED
      BY <1>1, <1>10, <3>1, <3>2 DEF ShowsFound, ShowsNothing
  <2>2. CASE g = f
    <3>1. Outdated(v, late, g)'
      BY <1>9, <2>2 DEF Outdated
    <3>2. ShowsFound(w, syncs, g) => ShowsFound(v, late, g)'
      BY <1>10, <3>1 DEF ShowsFound
    <3>3. Displays(g, {}) => Displays(g, {})'
      BY <1>1, <1>3, <1>4, <2>2 DEF Displays, OfScripts
    <3> QED
      BY <1>10, <3>2, <3>3 DEF ShowsNothing
  <2> QED
    BY <2>1, <2>2
<1>12. UNCHANGED <<workerVars, loader, ready>>
  BY <1>1
<1> QED
  BY <1>5, <1>6, <1>7, <1>8, <1>11, <1>12, OutsideReports

LEMMA DidChangeWatchedFilesReports ==
    ASSUME IndInv, ReportInv, NEW f \in Files, NEW reshapes \in BOOLEAN,
           DidChangeWatchedFiles(f, reshapes)
    PROVE  ReportInv'
<1>1. /\ sync_rx' = IF documents[f] = None THEN Append(sync_rx, f) ELSE sync_rx
      /\ UNCHANGED <<documents, graphVars, ready, out_rx, loader, workerVars>>
  BY DEF DidChangeWatchedFiles, mainVars
<1>2. sync_rx \in Seq(Files)
  BY DEF IndInv, TypeOK, ChannelTypes
<1>3. Awaited(arm, sync_rx) \subseteq Awaited(arm, sync_rx)'
  <2>1. arm' = arm
    BY <1>1 DEF workerVars
  <2> QED
    BY <1>1, <1>2, <2>1, AppendAwaited
<1>4. SameNews(out_rx, out_rx')
  BY <1>1, NewsItself
<1> QED
  BY <1>1, <1>3, <1>4, QuietReports

(* Nothing that matters to findings changes.                               *)
LEMMA UntoldReports ==
    ASSUME ReportInv,
           UNCHANGED <<workerVars, loader, ready, documents, graphVars,
                       out_rx, sync_rx>>
    PROVE  ReportInv'
<1>1. SameNews(out_rx, out_rx')
  BY NewsItself
<1>2. Awaited(arm, sync_rx) \subseteq Awaited(arm, sync_rx)'
  BY DEF workerVars, Awaited, SyncTarget, Syncing
<1> QED
  BY <1>1, <1>2, QuietReports

LEMMA OnDiagnosticsReports ==
    ASSUME IndInv, ReportInv, OnDiagnostics
    PROVE  ReportInv'
<1>1. PICK o \in Seq(Outbound) : o = out_rx
  BY DEF IndInv, TypeOK, WorkerTypes
<1>2. PICK m : m = Head(o)
  OBVIOUS
<1>3. PICK f : f = m.uri
  OBVIOUS
<1> DEFINE what == Merged(f, documents[f], graph_diags[f], graph_versions[f])
<1>4. /\ o # <<>> /\ m.kind = "diagnostics" /\ out_rx' = Tail(o)
      /\ shown' \in {[shown EXCEPT ![f] = what], shown}
      /\ UNCHANGED <<documents, graph_diags, graph_versions, ready, loader,
                     workerVars, sync_rx>>
  BY <1>1, <1>2, <1>3 DEF OnDiagnostics
<1>5. /\ what.findings \subseteq graph_diags[f]
      /\ \/ graph_versions[f] = Package
         \/ graph_versions[f] = BufferVersion(f)
         => what.findings = graph_diags[f]
  BY ShownOfMerged DEF BufferVersion
<1> HIDE DEF what
<1>6. shown \in [Files -> Shown]
  BY DEF IndInv, TypeOK, MainTypes
<1>7. \A g \in Files : shown'[g] = shown[g] \/ (g = f /\ shown'[g] = what)
  BY <1>4, <1>6
<1>8. SameNews(o, out_rx')
  BY <1>1, <1>2, <1>4, OtherNews
<1>9. PICK w : w = Worker("linting")
  OBVIOUS
<1>10. PICK v : v = Worker("linting")'
  OBVIOUS
<1>11. PICK syncs : syncs = Awaited(arm, sync_rx)
  OBVIOUS
<1>12. syncs = Awaited(arm, sync_rx)'
  BY <1>4, <1>11 DEF workerVars, Awaited, SyncTarget, Syncing
<1>13. /\ v.scripts = w.scripts /\ v.files = w.files /\ w.out = o
       /\ v.out = out_rx' /\ w.scripts \in Scripts
  BY <1>1, <1>4, <1>9, <1>10 DEF Worker, workerVars, IndInv, TypeOK, WorkerTypes
<1>14. Shows(w, syncs) /\ SpansOK(w)
  BY <1>9, <1>11 DEF ReportInv, Reports, IndInv, LoadInv, Good
<1>15. ASSUME NEW g \in Files
       PROVE  /\ w.scripts.diagnostics[g] # {} /\ ShowsFound(w, syncs, g) =>
                   ShowsFound(v, syncs, g)'
              /\ ShowsNothing(w, g) => ShowsNothing(v, g)'
  <2>1. /\ Telling(v.out, g) <=> Telling(w.out, g)
        /\ \A x, n : LastTells(w.out, g, x, n) => LastTells(v.out, g, x, n)
    BY <1>8, <1>13 DEF SameNews
  <2>2. Displays(g, {}) => Displays(g, {})'
    BY <1>4, <1>5, <1>7 DEF Displays, OfScripts
  <2>3. ShowsNothing(w, g) => ShowsNothing(v, g)'
    BY <2>1, <2>2 DEF ShowsNothing
  <2>4. Outdated(w, syncs, g) => Outdated(v, syncs, g)'
    BY <1>4, <1>13 DEF Outdated, Announces, BufferVersion
  <2>5. ASSUME Displays(g, w.scripts.diagnostics[g]),
               graph_versions[g] = w.scripts.versions[g],
               ~Outdated(w, syncs, g)
        PROVE  Displays(g, w.scripts.diagnostics[g])'
    <3>1. graph_versions[g] = BufferVersion(g)
      BY <2>5 DEF Outdated
    <3>2. CASE shown'[g] = shown[g]
      BY <1>4, <2>5, <3>2 DEF Displays
    <3>3. CASE g = f /\ shown'[g] = what
      BY <1>4, <1>5, <2>5, <3>1, <3>3 DEF Displays
    <3> QED
      BY <1>7, <3>2, <3>3
  <2>6. ShowsFound(w, syncs, g) => ShowsFound(v, syncs, g)'
    BY <1>4, <1>13, <2>1, <2>4, <2>5 DEF ShowsFound
  <2> QED
    BY <2>3, <2>6
<1>16. UNCHANGED <<workerVars, loader, ready>>
  BY <1>4
<1> QED
  BY <1>9, <1>10, <1>11, <1>12, <1>15, <1>16, OutsideReports

(* The message a file's findings were waiting for.                         *)
LEMMA OnProjectDiagnosticsReports ==
    ASSUME IndInv, ReportInv, OnProjectDiagnostics
    PROVE  ReportInv'
<1>1. PICK o \in Seq(Outbound) : o = out_rx
  BY DEF IndInv, TypeOK, WorkerTypes
<1>2. PICK m : m = Head(o)
  OBVIOUS
<1>3. PICK f : f = m.uri
  OBVIOUS
<1> DEFINE what == Merged(f, documents[f], m.findings, m.version)
<1>4. /\ o # <<>> /\ m.kind = "project" /\ out_rx' = Tail(o)
      /\ IF AcceptGraph(f, m.version)
         THEN /\ graph_diags' = [graph_diags EXCEPT ![f] = m.findings]
              /\ graph_versions' = [graph_versions EXCEPT ![f] = m.version]
              /\ shown' = [shown EXCEPT ![f] = what]
         ELSE UNCHANGED graphVars
      /\ UNCHANGED <<documents, ready, loader, workerVars, sync_rx>>
  BY <1>1, <1>2, <1>3 DEF OnProjectDiagnostics
<1>5. AcceptGraph(f, m.version) => what.findings = m.findings
  BY ShownOfMerged DEF AcceptGraph
<1> HIDE DEF what
<1>6. /\ shown \in [Files -> Shown] /\ graph_diags \in [Files -> SUBSET Finding]
      /\ graph_versions \in [Files -> Nat \cup {None, Package}]
  BY DEF IndInv, TypeOK, MainTypes
<1>7. \A g \in Files : g # f =>
        /\ graph_diags'[g] = graph_diags[g] /\ shown'[g] = shown[g]
        /\ graph_versions'[g] = graph_versions[g]
  BY <1>4, <1>6 DEF graphVars
<1>8. AcceptGraph(f, m.version) /\ f \in Files =>
        /\ graph_diags'[f] = m.findings /\ shown'[f].findings = m.findings
        /\ graph_versions'[f] = m.version
  BY <1>4, <1>5, <1>6
<1>9. PICK w : w = Worker("linting")
  OBVIOUS
<1>10. PICK v : v = Worker("linting")'
  OBVIOUS
<1>11. PICK syncs : syncs = Awaited(arm, sync_rx)
  OBVIOUS
<1>12. syncs = Awaited(arm, sync_rx)'
  BY <1>4, <1>11 DEF workerVars, Awaited, SyncTarget, Syncing
<1>13. /\ v.scripts = w.scripts /\ v.files = w.files /\ w.out = o
       /\ v.out = Tail(o)
  BY <1>1, <1>4, <1>9, <1>10 DEF Worker, workerVars
<1>14. \A g \in Files : IsAbout(m, g) <=> g = f
  BY <1>3, <1>4 DEF IsAbout
<1>15. \A g \in Files :
         /\ Telling(v.out, g) => Telling(w.out, g)
         /\ Telling(w.out, g) /\ g # f => Telling(v.out, g)
         /\ \A x, n : LastTells(w.out, g, x, n) =>
              IF Telling(v.out, g) THEN LastTells(v.out, g, x, n)
              ELSE g = f /\ OfScripts(m.findings) = x /\ m.version = n
  BY <1>2, <1>4, <1>13, <1>14, TailNews
<1>16. f \in Files => Telling(w.out, f)
  <2>1. o[1] = m /\ 1 \in DOMAIN o
    BY <1>2, <1>4, TailIndices
  <2> QED
    BY <1>13, <1>14, <2>1 DEF Telling
<1>17. ASSUME NEW g \in Files
       PROVE  /\ ShowsFound(w, syncs, g) => ShowsFound(v, syncs, g)'
              /\ ShowsNothing(w, g) => ShowsNothing(v, g)'
  <2>1. Outdated(w, syncs, g) => Outdated(v, syncs, g)'
    BY <1>4, <1>13 DEF Outdated, Announces, BufferVersion
  <2>2. CASE g # f
    <3>1. \A x : Displays(g, x) => Displays(g, x)'
      BY <1>7, <2>2 DEF Displays
    <3>2. ShowsFound(w, syncs, g) => ShowsFound(v, syncs, g)'
      BY <1>7, <1>13, <1>15, <2>1, <2>2, <3>1 DEF ShowsFound
    <3>3. ShowsNothing(w, g) => ShowsNothing(v, g)'
      BY <1>15, <2>2, <3>1 DEF ShowsNothing
    <3> QED
      BY <3>2, <3>3
  <2>3. CASE g = f
    <3>1. AcceptGraph(g, m.version) =>
            /\ \A x : OfScripts(m.findings) = x => Displays(g, x)'
            /\ graph_versions'[g] = m.version
      BY <1>8, <2>3 DEF Displays
    <3>2. ~AcceptGraph(g, m.version) =>
            m.version # Package /\ m.version # BufferVersion(g)'
      BY <1>4 DEF AcceptGraph, BufferVersion
    <3>3. ASSUME ShowsFound(w, syncs, g), ~Telling(v.out, g)
          PROVE  ShowsFound(v, syncs, g)'
      <4>1. /\ OfScripts(m.findings) = w.scripts.diagnostics[g]
            /\ m.version = w.scripts.versions[g]
        BY <1>15, <1>16, <2>3, <3>3 DEF ShowsFound
      <4>2. CASE AcceptGraph(g, m.version)
        BY <1>13, <3>1, <3>3, <4>1, <4>2 DEF ShowsFound
      <4>3. CASE ~AcceptGraph(g, m.version)
        <5>1. Outdated(v, syncs, g)'
          BY <1>13, <3>2, <4>1, <4>3 DEF Outdated
        <5> QED
          BY <3>3, <5>1 DEF ShowsFound
      <4> QED
        BY <4>2, <4>3
    <3>4. ASSUME ShowsFound(w, syncs, g), Telling(v.out, g)
          PROVE  ShowsFound(v, syncs, g)'
      BY <1>13, <1>15, <3>4 DEF ShowsFound
    <3>5. ASSUME ShowsNothing(w, g)
          PROVE  ShowsNothing(v, g)'
      <4>1. LastTells(w.out, g, {}, Package)
        BY <1>16, <2>3, <3>5 DEF ShowsNothing
      <4>2. ~Telling(v.out, g) => OfScripts(m.findings) = {} /\ m.version = Package
        BY <1>15, <4>1
      <4>3. ~Telling(v.out, g) => Displays(g, {})'
        BY <3>1, <3>2, <4>2
      <4> QED
        BY <1>15, <4>1, <4>3 DEF ShowsNothing
    <3> QED
      BY <3>3, <3>4, <3>5
  <2> QED
    BY <2>2, <2>3
<1>18. UNCHANGED <<workerVars, loader, ready>>
  BY <1>4
<1> QED
  BY <1>9, <1>10, <1>11, <1>12, <1>17, <1>18, OutsideReports

LEMMA OnDiagnosticsRefreshReports ==
    ASSUME IndInv, ReportInv, OnDiagnosticsRefresh
    PROVE  ReportInv'
<1>1. PICK o \in Seq(Outbound) : o = out_rx
  BY DEF IndInv, TypeOK, WorkerTypes
<1>2. /\ o # <<>> /\ Head(o).kind = "refresh" /\ out_rx' = Tail(o)
      /\ UNCHANGED <<documents, graphVars, ready, loader, workerVars, sync_rx>>
  BY <1>1 DEF OnDiagnosticsRefresh, mainVars
<1>3. SameNews(out_rx, out_rx')
  BY <1>1, <1>2, OtherNews
<1>4. Awaited(arm, sync_rx) \subseteq Awaited(arm, sync_rx)'
  BY <1>2 DEF workerVars, Awaited, SyncTarget, Syncing
<1> QED
  BY <1>2, <1>3, <1>4, QuietReports

LEMMA JobFinishReports ==
    ASSUME IndInv, ReportInv, NEW job \in jobs, JobFinish(job)
    PROVE  ReportInv'
<1>1. PICK o \in Seq(Outbound) : o = out_rx
  BY DEF IndInv, TypeOK, WorkerTypes
<1>2. /\ job \in Job /\ out_rx' = Append(o, ReportOf(job, job.world))
      /\ UNCHANGED <<documents, graphVars, ready, loader, workerVars, sync_rx>>
  BY <1>1 DEF JobFinish, mainVars, IndInv, TypeOK, WorkerTypes
<1>3. PICK m \in Outbound : m = ReportOf(job, job.world) /\ m.kind # "project"
  <2>1. job.uri \in Files /\ job.version \in Nat /\ job.world \in Worlds
    BY <1>2 DEF Job
  <2>2. ReportOf(job, job.world) \in Outbound
    BY <2>1 DEF ReportOf, Outbound
  <2>3. ReportOf(job, job.world).kind # "project"
    BY DEF ReportOf
  <2> QED
    BY <2>2, <2>3
<1>4. PICK more \in Seq(Outbound) : more = <<m>>
  <2>1. <<m>> \in Seq(Outbound)
    BY <1>3
  <2> QED
    BY <2>1
<1>5. out_rx' = o \o more /\ \A i \in DOMAIN more : more[i].kind # "project"
  BY <1>2, <1>3, <1>4
<1>6. SameNews(out_rx, out_rx')
  BY <1>1, <1>5, NoNews
<1>7. Awaited(arm, sync_rx) \subseteq Awaited(arm, sync_rx)'
  BY <1>2 DEF workerVars, Awaited, SyncTarget, Syncing
<1> QED
  BY <1>2, <1>6, <1>7, QuietReports

-----------------------------------------------------------------------------
(* The loader thread.                                                      *)

LEMMA LoaderStepReports ==
    ASSUME ReportInv, UNCHANGED othersUnchanged, LoadsReach'
    PROVE  ReportInv'
<1>1. PICK w : w = Worker("linting")
  OBVIOUS
<1>2. PICK v : v = Worker("linting")'
  OBVIOUS
<1>3. PICK syncs : syncs = Awaited(arm, sync_rx)
  OBVIOUS
<1>4. SameReports(v, w)
  BY <1>1, <1>2 DEF Worker, othersUnchanged, workerVars, SameReports
<1>5. syncs = Awaited(arm, sync_rx)'
  BY <1>3 DEF othersUnchanged, workerVars, Awaited, SyncTarget, Syncing
<1>6. UNCHANGED <<documents, graphVars>>
  BY DEF othersUnchanged, mainVars
<1>7. Reports(w, syncs)
  BY <1>1, <1>3 DEF ReportInv
<1>8. Reports(v, syncs)'
  BY <1>4, <1>6, <1>7, ReportsStep
<1> QED
  BY <1>2, <1>5, <1>8, ReportsAfter

LEMMA LoaderGoesOnReaches ==
    ASSUME LoadsReach, ready \in Seq(Loaded), NEW job \in Load,
           NEW sources \in Sources, NEW todo \in SUBSET Files,
           LoaderGoesOn(job, sources, todo),
           \A S \in SUBSET Files :
             /\ job.entries \subseteq S
             /\ \A g \in S : sources[g] \in Texts => IncludesOf[sources[g]] \subseteq S
             => \A f \in Files : sources[f] # None \/ f \in todo => f \in S,
           \A f \in todo : sources[f] = None
    PROVE  LoadsReach'
<1> DEFINE going == [job |-> job, sources |-> sources, todo |-> todo]
           done == [job |-> job, sources |-> sources]
<1>1. PICK rd \in Seq(Loaded) : rd = ready
  OBVIOUS
<1>2. \A i \in DOMAIN rd : Reaches(rd[i], {})
  BY <1>1 DEF LoadsReach
<1>3. Reaches(going, going.todo) /\ \A f \in going.todo : going.sources[f] = None
  <2>1. going.job = job /\ going.sources = sources /\ going.todo = todo
    OBVIOUS
  <2> HIDE DEF going
  <2> QED
    BY <2>1 DEF Reaches, Closes
<1>4. done \in Loaded /\ (todo = {} => Reaches(done, {}))
  <2>1. done \in Loaded
    BY DEF Loaded
  <2>2. done.job = job /\ done.sources = sources
    OBVIOUS
  <2> HIDE DEF done
  <2> QED
    BY <2>1, <2>2 DEF Reaches, Closes
<1>5. CASE todo # {}
  <2>1. loader' = going /\ ready' = rd
    BY <1>1, <1>5 DEF LoaderGoesOn
  <2> HIDE DEF going
  <2> QED
    BY <1>2, <1>3, <2>1 DEF LoadsReach, Reaches, Closes
<1>6. CASE todo = {}
  <2>1. loader' = None /\ ready' = Append(rd, done)
    BY <1>1, <1>6 DEF LoaderGoesOn
  <2> HIDE DEF done
  <2>2. PICK r : r = Append(rd, done)
    OBVIOUS
  <2>3. /\ r[Len(r)] = done
        /\ \A i \in DOMAIN r : (i \in DOMAIN rd /\ r[i] = rd[i]) \/ i = Len(r)
    BY <1>4, <2>2
  <2>4. \A i \in DOMAIN r : Reaches(r[i], {})
    BY <1>2, <1>4, <1>6, <2>3
  <2> QED
    BY <2>1, <2>2, <2>4 DEF LoadsReach, Reaches, Closes
<1> QED
  BY <1>5, <1>6

LEMMA LoaderReports ==
    ASSUME IndInv, ReportInv, Loader \/ LoaderPanics
    PROVE  ReportInv'
<1>1. LoadsReach /\ ready \in Seq(Loaded)
  BY ChannelFacts DEF ReportInv
<1>2. CASE LoaderTakesNewest
  <2> DEFINE job == load_rx[Len(load_rx)]
  <2>1. /\ load_rx # <<>> /\ LoaderGoesOn(job, NoSources, job.entries)
        /\ UNCHANGED <<fileVars, mainVars, analysis_rx, sync_rx, out_rx,
                       workerVars, jobs, budget, historyVars>>
    BY <1>2 DEF LoaderTakesNewest
  <2>2. load_rx \in Seq(Load)
    BY DEF IndInv, TypeOK, WorkerTypes
  <2>3. job \in Load
    BY <2>1, <2>2
  <2>4. /\ NoSources \in Sources /\ job.entries \in SUBSET Files
        /\ \A f \in Files : NoSources[f] = None
    BY <2>3 DEF NoSources, Sources, Load
  <2> HIDE DEF job
  <2>5. LoadsReach'
    BY <1>1, <2>1, <2>3, <2>4, LoaderGoesOnReaches
  <2>6. UNCHANGED othersUnchanged
    BY <2>1 DEF othersUnchanged, historyVars
  <2> QED
    BY <2>5, <2>6, LoaderStepReports
<1>3. ASSUME NEW f \in Files, LoaderReads(f)
      PROVE  ReportInv'
  <2> DEFINE job == loader.job
             content == Content(job.documents, f)
             found == IF content \in Texts THEN IncludesOf[content] ELSE {}
             old == loader.sources
             sources == [old EXCEPT ![f] = content]
             todo == {g \in loader.todo \cup found : sources[g] = None}
  <2>1. /\ loader # None /\ f \in loader.todo /\ LoaderGoesOn(job, sources, todo)
        /\ UNCHANGED <<fileVars, mainVars, analysis_rx, sync_rx, load_rx, out_rx,
                       workerVars, jobs, budget, historyVars>>
    BY <1>3 DEF LoaderReads
  <2>2. /\ loader \in Reading /\ disk \in [Files -> Texts \cup {Unreadable}]
    BY <2>1 DEF IndInv, TypeOK, ChannelTypes, MainTypes
  <2>3. job \in Load /\ old \in Sources /\ loader.todo \in SUBSET Files
    BY <2>2 DEF Reading
  <2>4. content \in Texts \cup {Unreadable}
    BY <2>2, <2>3 DEF Content, Load, Registrations, Registered
  <2>5. found \in SUBSET Files /\ (content \in Texts => found = IncludesOf[content])
        /\ (content \notin Texts => found = {})
    BY TextsAssumption
  <2> HIDE DEF content, found
  <2>6. sources \in Sources /\ todo \in SUBSET Files
    BY <2>3, <2>4, <2>5 DEF Sources
  <2>7. \A g \in Files : sources[g] = IF g = f THEN content ELSE old[g]
    BY <2>3 DEF Sources
  <2>8. \A g \in Files : g \in todo <=>
          (g \in loader.todo \/ g \in found) /\ sources[g] = None
    BY <2>3, <2>5
  <2>9. old[f] \notin Texts
    BY <1>1, <2>1, NoneAssumption DEF LoadsReach
  <2> HIDE DEF sources, todo
  <2>10. ASSUME NEW S \in SUBSET Files, job.entries \subseteq S,
                \A g \in S : sources[g] \in Texts =>
                  IncludesOf[sources[g]] \subseteq S,
                NEW h \in Files, sources[h] # None \/ h \in todo
         PROVE  h \in S
    <3>1. \A g \in S : old[g] \in Texts => IncludesOf[old[g]] \subseteq S
      BY <2>7, <2>9, <2>10
    <3>2. Closes(S, loader)
      BY <2>10, <3>1 DEF Closes
    <3>3. \A g \in Files : old[g] # None \/ g \in loader.todo => g \in S
      BY <1>1, <2>1, <3>2 DEF LoadsReach, Reaches
    <3>4. f \in S
      BY <2>1, <3>3
    <3>5. found \subseteq S
      BY <2>5, <2>7, <2>10, <3>4
    <3> QED
      BY <2>7, <2>8, <2>10, <3>3, <3>4, <3>5
  <2>11. \A g \in todo : sources[g] = None
    BY <2>6, <2>8
  <2> HIDE DEF job, old
  <2>12. LoadsReach'
    BY <1>1, <2>1, <2>3, <2>6, <2>10, <2>11, LoaderGoesOnReaches
  <2>13. UNCHANGED othersUnchanged
    BY <2>1 DEF othersUnchanged, historyVars
  <2> QED
    BY <2>12, <2>13, LoaderStepReports
<1>4. CASE LoaderPanics
  <2>1. /\ loader' = None /\ ready' = ready /\ UNCHANGED othersUnchanged
    BY <1>4 DEF LoaderPanics, othersUnchanged
  <2>2. LoadsReach'
    BY <1>1, <2>1 DEF LoadsReach, Reaches, Closes
  <2> QED
    BY <2>1, <2>2, LoaderStepReports
<1> QED
  BY <1>2, <1>3, <1>4 DEF Loader

-----------------------------------------------------------------------------
(* The analysis thread's steps.                                            *)

LEMMA AnyStageReports ==
    ASSUME ReportInv, NEW stage, NEW w, w = Worker(stage),
           NEW syncs, syncs = Awaited(arm, sync_rx)
    PROVE  Reports(w, syncs)
<1>1. PICK u : u = Worker("linting")
  OBVIOUS
<1>2. Reports(u, syncs)
  BY <1>1 DEF ReportInv
<1>3. /\ w.scripts = u.scripts /\ w.package = u.package
      /\ w.published = u.published /\ w.files = u.files /\ w.out = u.out
      /\ w.parked = u.parked /\ w.tracked = u.tracked
  BY <1>1 DEF Worker
<1>4. Silent(w, u)
  BY <1>3, SilentItself
<1> QED
  BY <1>2, <1>3, <1>4, StillReports

LEMMA LoadsStillReach ==
    ASSUME LoadsReach, ready \in Seq(Loaded), loader' = loader,
           \/ ready' = ready
           \/ ready # <<>> /\ ready' = Tail(ready)
    PROVE  LoadsReach'
<1>1. PICK rd \in Seq(Loaded) : rd = ready
  OBVIOUS
<1>2. \A i \in DOMAIN rd : Reaches(rd[i], {})
  BY <1>1 DEF LoadsReach
<1>3. PICK r : r = ready'
  OBVIOUS
<1>4. \A i \in DOMAIN r : Reaches(r[i], {})
  <2>1. CASE ready' = ready
    BY <1>1, <1>2, <1>3, <2>1
  <2>2. CASE rd # <<>> /\ ready' = Tail(rd)
    <3>1. \A i \in DOMAIN r : i + 1 \in DOMAIN rd /\ r[i] = rd[i + 1]
      BY <1>3, <2>2, HeadAndTail
    <3> QED
      BY <1>2, <3>1
  <2> QED
    BY <1>1, <2>1, <2>2
<1> QED
  BY <1>3, <1>4 DEF LoadsReach, Reaches, Closes

LEMMA ArmGoesOnReports ==
    ASSUME IndInv, ReportInv, NEW a, ArmOK(a), NEW w, Good(w, ready),
           NEW rest \in Seq(Request), NEW late, late = Awaited(a, sync_rx'),
           Tracks(w, ready, rest, late), Reports(w, late),
           ArmGoesOn(a, w, rest),
           UNCHANGED analysisThreadUnchanged, ready' = ready
    PROVE  ReportInv'
<1>1. UNCHANGED <<documents, graphVars, loader>>
  BY DEF analysisThreadUnchanged, mainVars
<1>2. LoadsReach'
  BY <1>1, ChannelFacts, LoadsStillReach DEF ReportInv
<1>3. CASE rest # <<>>
  <2>1. arm' = a /\ Commit(w)
    BY <1>3 DEF ArmGoesOn
  <2>2. late \subseteq Awaited(arm, sync_rx)'
    BY <2>1 DEF Awaited, SyncTarget, Syncing
  <2> QED
    BY <1>1, <1>2, <2>1, <2>2, CommitReports
<1>4. CASE rest = <<>>
  <2> DEFINE u == IF Syncing(a) THEN OnSync(w, a[2]) ELSE w
  <2>1. arm' = <<>> /\ \E v \in TryDispatch(u) : Commit(v)
    BY <1>4 DEF ArmGoesOn
  <2>2. PICK syncs : syncs = ToSet(sync_rx')
    OBVIOUS
  <2>3. Good(u, ready) /\ Tracks(u, ready, rest, syncs) /\ Reports(u, syncs)
    <3>1. CASE Syncing(a)
      <4>1. PICK f \in Files : f = a[2]
        BY <3>1 DEF ArmOK
      <4>2. late = syncs \cup {f}
        BY <2>2, <3>1, <4>1 DEF Awaited, SyncTarget
      <4>3. disk \in [Files -> Texts \cup {Unreadable}]
        BY ChannelFacts
      <4>4. Good(OnSync(w, f), ready)
        BY <4>3, OnSyncGood
      <4>5. Tracks(OnSync(w, f), ready, rest, syncs)
        BY <1>4, <4>2, <4>3, OnSyncTracks
      <4>6. FilesKnown(w) /\ InstallsFresh(w, late)
        BY DEF Tracks, Current
      <4>7. Reports(OnSync(w, f), syncs)
        BY <4>2, <4>3, <4>6, OnSyncReports
      <4> QED
        BY <3>1, <4>1, <4>4, <4>5, <4>7
    <3>2. CASE ~Syncing(a)
      <4>1. late = syncs
        BY <2>2, <3>2 DEF Awaited, SyncTarget
      <4> QED
        BY <3>2, <4>1
    <3> QED
      BY <3>1, <3>2
  <2> HIDE DEF u
  <2>4. PICK v \in TryDispatch(u) : Commit(v)
    BY <2>1
  <2>5. Reports(v, syncs)
    BY <2>3, <2>4, TryDispatchReports
  <2>6. syncs \subseteq Awaited(arm, sync_rx)'
    BY <2>1, <2>2, ArmAwaits DEF Awaited, SyncTarget, Syncing
  <2> QED
    BY <1>1, <1>2, <2>4, <2>5, <2>6, CommitReports
<1> QED
  BY <1>3, <1>4

LEMMA ReceivesReports ==
    ASSUME IndInv, CurrentInv, ReportInv, NEW a, ArmOK(a),
           analysis_rx # <<>>, Awaited(a, sync_rx) = Awaited(arm, sync_rx),
           \E stage \in CaughtIn :
             ArmGoesOn(a, Enqueue(Worker(stage), Head(analysis_rx)),
                       Tail(analysis_rx)),
           UNCHANGED <<analysisThreadUnchanged, ready, sync_rx>>
    PROVE  ReportInv'
<1>1. PICK stage \in CaughtIn :
        ArmGoesOn(a, Enqueue(Worker(stage), Head(analysis_rx)), Tail(analysis_rx))
  OBVIOUS
<1>2. PICK w : w = Worker(stage)
  OBVIOUS
<1>3. PICK q : q = analysis_rx
  OBVIOUS
<1>4. PICK late : late = Awaited(arm, sync_rx)
  OBVIOUS
<1>5. Good(w, ready) /\ Tracks(w, ready, q, late) /\ Reports(w, late)
  BY <1>2, <1>3, <1>4, AnyStageTracks, AnyStageReports
<1>6. q \in Seq(Request) /\ q # <<>> /\ RequestAgrees(q[1])
  <2>1. q \in Seq(Request) /\ q # <<>>
    BY <1>3, ChannelFacts
  <2>2. 1 \in DOMAIN q
    BY <2>1, HeadAndTail
  <2> QED
    BY <1>3, <2>1, <2>2, ChannelFacts
<1>7. Head(q) \in Request /\ Head(q) = q[1] /\ Tail(q) \in Seq(Request)
  BY <1>6, HeadAndTail
<1>8. Agrees(Head(q).uri, Head(q).version, Head(q).text)
  BY <1>6, <1>7 DEF RequestAgrees
<1>9. /\ documents \in [Files -> Document \cup {None}]
      /\ lastVersion \in [Files -> Nat] /\ LastVersions
  BY DEF IndInv, TypeOK, MainTypes, CurrentInv
<1>10. PICK v : v = Enqueue(w, Head(q))
  OBVIOUS
<1>11. Good(v, ready)
  BY <1>5, <1>7, <1>8, <1>10, EnqueueGood
<1>12. Tracks(v, ready, Tail(q), late)
  BY <1>5, <1>6, <1>8, <1>9, <1>10, EnqueueTracks
<1>13. Reports(v, late)
  <2>1. FilesKnown(w) /\ InstallsFresh(w, late)
    BY <1>5 DEF Tracks, Current
  <2> QED
    BY <1>5, <1>7, <1>10, <2>1, EnqueueReports
<1>14. late = Awaited(a, sync_rx')
  BY <1>4
<1>15. ArmGoesOn(a, v, Tail(q))
  BY <1>1, <1>2, <1>3, <1>10
<1>16. ready' = ready /\ UNCHANGED analysisThreadUnchanged
  OBVIOUS
<1> QED
  BY <1>7, <1>11, <1>12, <1>13, <1>14, <1>15, <1>16, ArmGoesOnReports

LEMMA AnalysisArmReports ==
    ASSUME IndInv, CurrentInv, ReportInv, AnalysisArm
    PROVE  ReportInv'
<1>1. ArmOK(<<"analyze">>)
  BY DEF ArmOK, Syncing
<1>2. Awaited(<<"analyze">>, sync_rx) = Awaited(arm, sync_rx)
  BY ArmAwaits DEF AnalysisArm
<1> QED
  BY <1>1, <1>2, ReceivesReports DEF AnalysisArm

LEMMA ReceiveReports ==
    ASSUME IndInv, ArmInv, CurrentInv, ReportInv, Receive
    PROVE  ReportInv'
BY ChannelFacts, ReceivesReports DEF Receive, ArmInv

LEMMA SyncArmReports ==
    ASSUME IndInv, CurrentInv, ReportInv, SyncArm
    PROVE  ReportInv'
<1>1. PICK stage \in CaughtIn :
        ArmGoesOn(<<"sync", Head(sync_rx)>>, Worker(stage), analysis_rx)
  BY DEF SyncArm
<1>2. /\ arm = <<>> /\ sync_rx # <<>> /\ sync_rx' = Tail(sync_rx)
      /\ UNCHANGED analysisThreadUnchanged /\ ready' = ready
  BY DEF SyncArm
<1>3. PICK f : f = Head(sync_rx)
  OBVIOUS
<1>4. f \in Files /\ ToSet(sync_rx) = ToSet(Tail(sync_rx)) \cup {f}
  BY <1>2, <1>3, ChannelFacts, TailSet
<1>5. ArmOK(<<"sync", f>>)
  BY <1>4 DEF ArmOK
<1>6. PICK w : w = Worker(stage)
  OBVIOUS
<1>7. PICK q : q = analysis_rx
  OBVIOUS
<1>8. PICK late : late = Awaited(arm, sync_rx)
  OBVIOUS
<1>9. Good(w, ready) /\ Tracks(w, ready, q, late) /\ Reports(w, late)
  BY <1>6, <1>7, <1>8, AnyStageTracks, AnyStageReports
<1>10. late = Awaited(<<"sync", f>>, sync_rx')
  BY <1>2, <1>4, <1>8, ArmAwaits
<1>11. q \in Seq(Request)
  BY <1>7, ChannelFacts
<1> QED
  BY <1>1, <1>2, <1>3, <1>5, <1>6, <1>7, <1>9, <1>10, <1>11, ArmGoesOnReports

LEMMA ReadyArmReports ==
    ASSUME IndInv, CurrentInv, ReportInv, ReadyArm
    PROVE  ReportInv'
<1>1. PICK stage \in CaughtIn :
        Commit(OnScriptsLoaded(Worker(stage), Head(ready)))
  BY DEF ReadyArm
<1>2. /\ ready # <<>> /\ ready' = Tail(ready)
      /\ UNCHANGED <<arm, sync_rx, documents, graphVars, loader>>
  BY DEF ReadyArm, analysisThreadUnchanged, mainVars
<1>3. PICK w : w = Worker(stage)
  OBVIOUS
<1>4. PICK q : q = analysis_rx
  OBVIOUS
<1>5. PICK syncs : syncs = Awaited(arm, sync_rx)
  OBVIOUS
<1>6. PICK rd \in Seq(Loaded) : rd = ready
  BY ChannelFacts
<1>7. Good(w, rd) /\ Tracks(w, rd, q, syncs) /\ Reports(w, syncs)
  BY <1>3, <1>4, <1>5, <1>6, AnyStageTracks, AnyStageReports
<1>8. \A i \in DOMAIN rd : ReadAgrees(rd[i]) /\ Reaches(rd[i], {})
  BY <1>6, ChannelFacts DEF ReportInv, LoadsReach
<1>9. PICK v : v = OnScriptsLoaded(w, Head(rd))
  OBVIOUS
<1>10. Reports(v, syncs)
  BY <1>2, <1>6, <1>7, <1>8, <1>9, LoadedReports
<1>11. Commit(v)
  BY <1>1, <1>3, <1>6, <1>9
<1>12. LoadsReach'
  BY <1>2, ChannelFacts, LoadsStillReach DEF ReportInv
<1>13. syncs \subseteq Awaited(arm, sync_rx)'
  BY <1>2, <1>5 DEF Awaited, SyncTarget, Syncing
<1> QED
  BY <1>2, <1>10, <1>11, <1>12, <1>13, CommitReports

LEMMA LibraryArmReports ==
    ASSUME IndInv, CurrentInv, ReportInv, NEW found \in Harvests, LibraryArm(found)
    PROVE  ReportInv'
<1>1. PICK stage \in CaughtIn :
        Commit(PublishGraphDiagnostics(
                   [Cancel(Worker(stage)) EXCEPT !.package = found]))
  BY DEF LibraryArm
<1>2. UNCHANGED <<arm, sync_rx, documents, graphVars, loader, ready>>
  BY DEF LibraryArm, mainVars
<1>3. PICK w : w = Worker(stage)
  OBVIOUS
<1>4. PICK syncs : syncs = Awaited(arm, sync_rx)
  OBVIOUS
<1>5. PICK q : q = analysis_rx
  OBVIOUS
<1>6. Good(w, ready) /\ Reports(w, syncs)
  BY <1>3, <1>4, <1>5, AnyStageTracks, AnyStageReports
<1>7. PICK v : v = PublishGraphDiagnostics([Cancel(w) EXCEPT !.package = found])
  OBVIOUS
<1>8. Reports(v, syncs)
  BY <1>6, <1>7, LibraryReports
<1>9. Commit(v)
  BY <1>1, <1>3, <1>7
<1>10. LoadsReach'
  BY <1>2, ChannelFacts, LoadsStillReach DEF ReportInv
<1>11. syncs \subseteq Awaited(arm, sync_rx)'
  BY <1>2, <1>4 DEF Awaited, SyncTarget, Syncing
<1> QED
  BY <1>2, <1>8, <1>9, <1>10, <1>11, CommitReports

LEMMA DoneArmReports ==
    ASSUME IndInv, CurrentInv, ReportInv, NEW job \in jobs, DoneArm(job)
    PROVE  ReportInv'
<1>1. PICK stage \in CaughtIn :
        \E v \in TryDispatch(Ended(Worker(stage), job)) : Commit(v)
  BY DEF DoneArm, Ended
<1>2. UNCHANGED <<arm, sync_rx, documents, graphVars, loader, ready>>
  BY DEF DoneArm, analysisThreadUnchanged, mainVars
<1>3. PICK w : w = Worker(stage)
  OBVIOUS
<1>4. PICK q : q = analysis_rx
  OBVIOUS
<1>5. PICK syncs : syncs = Awaited(arm, sync_rx)
  OBVIOUS
<1>6. Good(w, ready) /\ Tracks(w, ready, q, syncs) /\ Reports(w, syncs)
  BY <1>3, <1>4, <1>5, AnyStageTracks, AnyStageReports
<1>7. PICK u : u = Ended(w, job)
  OBVIOUS
<1>8. Good(u, ready) /\ Tracks(u, ready, q, syncs) /\ Reports(u, syncs)
  BY <1>6, <1>7, EndedTracks, EndedReports DEF Good
<1>9. PICK v \in TryDispatch(u) : Commit(v)
  BY <1>1, <1>3, <1>7
<1>10. Reports(v, syncs)
  BY <1>8, <1>9, TryDispatchReports
<1>11. LoadsReach'
  BY <1>2, ChannelFacts, LoadsStillReach DEF ReportInv
<1>12. syncs \subseteq Awaited(arm, sync_rx)'
  BY <1>2, <1>5 DEF Awaited, SyncTarget, Syncing
<1> QED
  BY <1>2, <1>9, <1>10, <1>11, <1>12, CommitReports

LEMMA InitReports ==
    ASSUME Init
    PROVE  ReportInv
<1>1. PICK w : w = Worker("linting")
  OBVIOUS
<1>2. PICK syncs : syncs = Awaited(arm, sync_rx)
  OBVIOUS
<1>3. /\ w.scripts.diagnostics = NothingFound /\ w.package = NothingFound
      /\ w.out = <<>> /\ w.files = None /\ w.parked = None
  BY <1>1 DEF Init, Worker
<1>4. /\ graph_diags = NothingFound
      /\ shown = [f \in Files |-> [text |-> None, findings |-> {}]]
      /\ loader = None /\ ready = <<>>
  BY DEF Init
<1>5. ASSUME NEW f \in Files
      PROVE  /\ w.scripts.diagnostics[f] = {} /\ ~InCycle(w, f)
             /\ ShowsNothing(w, f)
  <2>1. w.scripts.diagnostics[f] = {} /\ w.package[f] = {} /\ graph_diags[f] = {}
    BY <1>3, <1>4 DEF NothingFound
  <2>2. ~Telling(w.out, f)
    <3>1. DOMAIN w.out = {}
      BY <1>3
    <3> QED
      BY <3>1 DEF Telling
  <2>3. shown[f].findings = {}
    BY <1>4
  <2>4. Displays(f, {})
    BY <2>1, <2>3 DEF Displays, OfScripts
  <2> QED
    BY <2>1, <2>2, <2>4 DEF InCycle, ShowsNothing
<1>6. Shows(w, syncs)
  BY <1>5 DEF Shows
<1>7. Found(w) /\ ParkedReaches(w)
  BY <1>3 DEF Found, ParkedReaches
<1>8. LoadsReach
  <2>1. DOMAIN ready = {}
    BY <1>4
  <2> QED
    BY <1>4, <2>1 DEF LoadsReach
<1> QED
  BY <1>1, <1>2, <1>6, <1>7, <1>8 DEF ReportInv, Reports

(* Steps that no finding takes part in.                                    *)
LEMMA OtherReports ==
    ASSUME ReportInv,
           \/ \E f \in Files : \E t \in Written : Rewrite(f, t)
           \/ \E entries \in EntryPoints : DidChangeConfiguration(entries)
           \/ \E job \in jobs : JobPanic(job)
           \/ UNCHANGED vars
    PROVE  ReportInv'
<1>1. UNCHANGED <<workerVars, loader, ready, documents, graphVars, out_rx, sync_rx>>
  BY DEF Rewrite, DidChangeConfiguration, JobPanic, vars, mainVars
<1> QED
  BY <1>1, UntoldReports

LEMMA NextReports ==
    ASSUME IndInv, ArmInv, CurrentInv, ReportInv, [Next]_vars
    PROVE  ReportInv'
<1>1. ASSUME Client PROVE ReportInv'
  BY <1>1, SetDocumentReports, DidCloseReports, DidChangeWatchedFilesReports,
     OtherReports DEF Client
<1>2. ASSUME MainLoop PROVE ReportInv'
  BY <1>2, OnDiagnosticsReports, OnProjectDiagnosticsReports,
     OnDiagnosticsRefreshReports DEF MainLoop
<1>3. ASSUME AnalysisThread PROVE ReportInv'
  BY <1>3, AnalysisArmReports, SyncArmReports, ReceiveReports, ReadyArmReports,
     DoneArmReports, LibraryArmReports DEF AnalysisThread
<1>4. ASSUME NEW job \in jobs, JobFinish(job) \/ JobPanic(job) PROVE ReportInv'
  BY <1>4, JobFinishReports, OtherReports
<1>5. ASSUME UNCHANGED vars PROVE ReportInv'
  BY <1>5, OtherReports
<1> QED
  BY <1>1, <1>2, <1>3, <1>4, <1>5, LoaderReports DEF Next

LEMMA ReportInvariance == Spec => [](IndInv /\ CurrentInv /\ ReportInv)
<1>1. Init => ReportInv
  BY InitReports
<1>2. IndInv /\ ArmInv /\ CurrentInv /\ ReportInv /\ [Next]_vars => ReportInv'
  BY NextReports
<1> QED
  BY <1>1, <1>2, CurrentInvariance, PTL DEF Spec

-----------------------------------------------------------------------------
(* The findings at rest.                                                   *)

LEMMA ClosureCloses ==
    ASSUME NEW entries, NEW text
    PROVE  /\ entries \subseteq Files => entries \subseteq Closure(entries, text)
           /\ Closure(entries, text) \subseteq Files
           /\ \A g \in Closure(entries, text) : text[g] \in Texts =>
                IncludesOf[text[g]] \subseteq Closure(entries, text)
<1>1. ASSUME NEW g \in Closure(entries, text), text[g] \in Texts
      PROVE  IncludesOf[text[g]] \subseteq Closure(entries, text)
  <2>1. IncludesOf[text[g]] \subseteq Files
    BY <1>1, TextsAssumption
  <2>2. ASSUME NEW S \in SUBSET Files, entries \subseteq S,
               \A h \in S : text[h] \in Texts => IncludesOf[text[h]] \subseteq S
        PROVE  IncludesOf[text[g]] \subseteq S
    BY <1>1, <2>2 DEF Closure
  <2> QED
    BY <2>1, <2>2 DEF Closure
<1> QED
  BY <1>1 DEF Closure

(* The files of the installed load are those reached, and its findings     *)
(* their failed includes.                                                  *)
LEMMA FoundAtRest ==
    ASSUME IndInv, CurrentInv, ReportInv, Undisturbed,
           NEW reached, reached = Closure(CurrentEntries, CurrentTexts),
           NEW sources, sources = [f \in Files |->
             IF f \in reached THEN CurrentTexts[f] ELSE None]
    PROVE  \A f \in Files : scripts.diagnostics[f] = FailedIncludes(sources)[f]
<1>1. PICK w : w = Worker("linting")
  OBVIOUS
<1>2. w.files = script_files /\ w.scripts = scripts /\ w.tracked = tracked
  BY <1>1 DEF Worker
<1>3. /\ scripts.entries = CurrentEntries /\ ~scripts.loading
  BY AtRest
<1>4. PICK q : q = analysis_rx
  OBVIOUS
<1>5. PICK syncs : syncs = Awaited(arm, sync_rx)
  OBVIOUS
<1>6. Good(w, ready) /\ FilesKnown(w) /\ Found(w)
  BY <1>1, <1>4, <1>5, Before DEF Tracks, ReportInv, Reports
<1>7. scripts.sources \in SUBSET Files /\ CurrentEntries \in SUBSET Files
  BY <1>3 DEF IndInv, TypeOK, WorkerTypes, Scripts
<1>8. CASE script_files = None
  <2>1. scripts.sources = {} /\ CurrentEntries = {}
    BY <1>2, <1>3, <1>6, <1>8 DEF FilesKnown
  <2>2. reached = {}
    BY <2>1 DEF Closure
  <2>3. \A f \in Files : sources[f] \notin Texts
    BY <2>2, NoneAssumption
  <2>4. \A f \in Files : scripts.diagnostics[f] = {}
    BY <1>2, <1>6, <2>1 DEF Good, SpansOK
  <2> QED
    BY <2>3, <2>4 DEF FailedIncludes
<1>9. CASE script_files # None
  <2>1. PICK readable, failed :
          readable = script_files.readable /\ failed = script_files.failed
    OBVIOUS
  <2>2. /\ scripts.sources = readable \cup failed /\ reached \subseteq scripts.sources
        /\ \A f \in readable :
             f \in Files /\ tracked[f] = CurrentTexts[f] /\ CurrentTexts[f] \in Texts
        /\ \A f \in failed : f \in Files /\ CurrentTexts[f] = Unreadable
    BY <1>9, <2>1, InstalledAtRest
  <2>3. /\ \A f \in Files : scripts.diagnostics[f] =
             IF f \in readable
             THEN {Missing(g, tracked[f]) : g \in IncludesOf[tracked[f]] \cap failed}
             ELSE {}
        /\ \A S \in SUBSET Files :
             /\ CurrentEntries \subseteq S
             /\ \A g \in S \cap readable : IncludesOf[tracked[g]] \subseteq S
             => scripts.sources \subseteq S
    BY <1>2, <1>3, <1>6, <1>9, <2>1 DEF Found
  <2>4. reached = scripts.sources
    <3>1. /\ reached \in SUBSET Files /\ CurrentEntries \subseteq reached
          /\ \A g \in reached \cap readable : IncludesOf[tracked[g]] \subseteq reached
      BY <1>7, <2>2, ClosureCloses
    <3> QED
      BY <2>2, <2>3, <3>1
  <2>5. \A f \in Files : /\ f \in readable => sources[f] = tracked[f]
                                              /\ sources[f] \in Texts
                         /\ f \notin readable => sources[f] \notin Texts
                         /\ f \in failed <=> sources[f] = Unreadable
    BY <2>2, <2>4, NoneAssumption, TextsAssumption
  <2>6. ASSUME NEW f \in Files
        PROVE  scripts.diagnostics[f] = FailedIncludes(sources)[f]
    <3>1. CASE f \notin readable
      BY <2>3, <2>5, <3>1 DEF FailedIncludes
    <3>2. CASE f \in readable
      <4>1. sources[f] = tracked[f] /\ sources[f] \in Texts
        BY <2>5, <3>2
      <4>2. IncludesOf[tracked[f]] \subseteq Files
        BY <4>1, TextsAssumption
      <4>3. IncludesOf[tracked[f]] \cap failed
              = {h \in IncludesOf[tracked[f]] : sources[h] = Unreadable}
        BY <2>5, <4>2
      <4>4. PICK t, S : t = tracked[f] /\ S = IncludesOf[t] \cap failed
        OBVIOUS
      <4>5. S = {h \in IncludesOf[t] : sources[h] = Unreadable}
        BY <4>3, <4>4
      <4>6. scripts.diagnostics[f] = {Missing(g, t) : g \in S}
        BY <2>3, <3>2, <4>4
      <4>7. FailedIncludes(sources)[f] = {Missing(g, t) :
              g \in {h \in IncludesOf[t] : sources[h] = Unreadable}}
        <5>1. sources[f] = t /\ t \in Texts
          BY <4>1, <4>4
        <5> QED
          BY <5>1 DEF FailedIncludes
      <4> QED
        BY <4>5, <4>6, <4>7
    <3> QED
      BY <3>1, <3>2
  <2> QED
    BY <2>6
<1> QED
  BY <1>8, <1>9

(* At rest a file shows the failed includes of its current text and no     *)
(* others, whatever loads, harvests, edits and closes crossed on the way:  *)
(* the installed load found them, the last message about the file said     *)
(* them of the version that is open, and what the main loop kept of it is  *)
(* displayed.  A file in a cycle is left out once nothing fails in it.     *)
THEOREM ScriptFindingsCurrent == Spec => []FindingsCurrentWhenQuiet
<1>1. ASSUME IndInv, CurrentInv, ReportInv, Undisturbed
      PROVE  LET reached == Closure(CurrentEntries, CurrentTexts)
                 sources == [f \in Files |->
                               IF f \in reached THEN CurrentTexts[f] ELSE None]
                 failed == FailedIncludes(sources)
             IN \A f \in Files : f \notin Cyclic \/ failed[f] # {} =>
                  {p \in shown[f].findings : p.text # None} = failed[f]
  <2>1. PICK reached : reached = Closure(CurrentEntries, CurrentTexts)
    OBVIOUS
  <2>2. PICK sources : sources = [f \in Files |->
                         IF f \in reached THEN CurrentTexts[f] ELSE None]
    OBVIOUS
  <2>3. \A f \in Files : scripts.diagnostics[f] = FailedIncludes(sources)[f]
    BY <1>1, <2>1, <2>2, FoundAtRest
  <2>4. PICK w : w = Worker("linting")
    OBVIOUS
  <2>5. PICK syncs : syncs = Awaited(arm, sync_rx)
    OBVIOUS
  <2>6. /\ w.files = script_files /\ w.scripts = scripts /\ w.out = out_rx
        /\ w.package = package_graph_diags
    BY <2>4 DEF Worker
  <2>7. Shows(w, syncs) /\ Found(w)
    BY <1>1, <2>4, <2>5 DEF ReportInv, Reports
  <2>8. syncs = {} /\ DOMAIN w.out = {}
    BY <1>1, <2>5, <2>6, ArmAwaits DEF Undisturbed, Quiet, ToSet
  <2>9. ~Announces(w)
    BY <1>1, <2>6, InstalledAtRest DEF Announces
  <2>10. ASSUME NEW f \in Files, f \notin Cyclic \/ scripts.diagnostics[f] # {}
         PROVE  Displays(f, scripts.diagnostics[f])
    <3>1. ~Telling(w.out, f)
      BY <2>8 DEF Telling
    <3>2. CASE scripts.diagnostics[f] = {}
      <4>1. ~InCycle(w, f)
        BY <2>6, <2>10, <3>2 DEF InCycle, Cyclic
      <4> QED
        BY <2>6, <2>7, <3>1, <3>2, <4>1 DEF Shows, ShowsNothing
    <3>3. CASE scripts.diagnostics[f] # {}
      <4>1. ShowsFound(w, syncs, f)
        BY <2>6, <2>7, <3>3 DEF Shows
      <4>2. script_files # None
        <5>1. PICK q : q = analysis_rx
          OBVIOUS
        <5>2. FilesKnown(w) /\ Good(w, ready)
          BY <1>1, <2>4, <2>5, <5>1, Before DEF Tracks
        <5> QED
          BY <2>6, <3>3, <5>2 DEF FilesKnown, Good, SpansOK
      <4>3. w.scripts.versions[f] = VersionsOf(w.scripts.documents)[f]
        BY <1>1, <2>6, <2>7, <3>3, <4>2, AtRest DEF Found
      <4>4. VersionsOf(w.scripts.documents)[f] = BufferVersion(f)
        <5>1. w.scripts.documents[f] = IF documents[f] = None THEN None
                ELSE Registration(documents[f], entry_points)
          BY <1>1, <2>6, AtRest
        <5>2. documents[f] # None => Registration(documents[f], entry_points) # None
                /\ Registration(documents[f], entry_points).version
                     = documents[f].version
          <6>1. /\ documents \in [Files -> Document \cup {None}]
                /\ entry_points \in SUBSET Files
            BY <1>1, EntriesAssumption DEF IndInv, TypeOK, MainTypes
          <6>2. ASSUME documents[f] # None
                PROVE  Registration(documents[f], entry_points) \in Registered
            <7>1. documents[f] \in Document
              BY <6>1, <6>2
            <7> QED
              BY <6>1, <7>1 DEF Document, Registered, Registration
          <6> QED
            BY <6>2, NoneAssumption DEF Registration
        <5> QED
          BY <5>1, <5>2 DEF VersionsOf, BufferVersion
      <4>5. ~Outdated(w, syncs, f)
        BY <2>8, <2>9, <4>3, <4>4 DEF Outdated
      <4> QED
        BY <2>6, <3>1, <4>1, <4>5 DEF ShowsFound
    <3> QED
      BY <3>2, <3>3
  <2>11. \A f \in Files : f \notin Cyclic \/ FailedIncludes(sources)[f] # {} =>
           {p \in shown[f].findings : p.text # None} = FailedIncludes(sources)[f]
    BY <2>3, <2>10 DEF Displays, OfScripts
  <2> QED
    BY <2>1, <2>2, <2>11
<1>2. IndInv /\ CurrentInv /\ ReportInv => FindingsCurrentWhenQuiet
  BY <1>1 DEF FindingsCurrentWhenQuiet
<1> QED
  BY <1>2, ReportInvariance, PTL

=============================================================================
