-------------------------- MODULE AnalysisPipeline --------------------------
(***************************************************************************)
(* The push-diagnostics pipeline of the language server: the main loop     *)
(* (lsp/state.rs), the analysis thread that owns the salsa database        *)
(* (lsp/analysis_thread.rs, incremental.rs) and the read-pool jobs that    *)
(* compute diagnostics on database snapshots (lsp/task_pool.rs).           *)
(*                                                                         *)
(* A keystroke travels client -> main loop -> analysis_rx -> pending ->    *)
(* the single in-flight slot -> a pool job on a snapshot -> out_rx -> main *)
(* loop -> client.  Every arrow is a FIFO channel between two threads, the *)
(* analysis thread picks any ready channel, and every write to the         *)
(* database cancels the jobs that hold a snapshot.                         *)
(*                                                                         *)
(* A blocking salsa write is one step here: it waits for every snapshot to *)
(* be dropped, a job that completes while it waits might as well complete  *)
(* before it, and a job that unwinds does nothing another thread sees      *)
(* before its report or its `done` signal arrives.                         *)
(***************************************************************************)
EXTENDS Naturals, Sequences, FiniteSets, SequencesExt

CONSTANTS
    Docs,             \* Julia documents, each one file
    Texts,            \* buffer and file contents (all of them parse cleanly)
    InitialText,      \* what every file holds at start
    Members,          \* files of a harvested workspace package
    ProjectionOf,     \* a text's range-free definitions and uses
    JobIds,           \* bound: analyses started whose `done` is not yet read
    MaxEdits,         \* bound: didOpen and didChange notifications
    MaxRules,         \* bound: configuration changes
    MaxLibrary,       \* bound: index updates from the harvester
    MaxPanics,        \* bound: panics in analysis jobs
    Closable,         \* documents the client may close
    Rewritable,       \* files other programs rewrite, once each
    VersionsRestart,  \* TRUE: a reopened document starts again at version 1
    None              \* the absent value of every Option and missing map entry

ASSUME FiniteAssumption == IsFiniteSet(Docs) /\ IsFiniteSet(JobIds)
ASSUME TextsAssumption == InitialText \in Texts
ASSUME MembersAssumption == Members \subseteq Docs
ASSUME ProjectionAssumption == DOMAIN ProjectionOf = Texts
ASSUME BoundsAssumption ==
    /\ MaxEdits \in Nat
    /\ MaxRules \in Nat
    /\ MaxLibrary \in Nat
    /\ MaxPanics \in Nat
    /\ VersionsRestart \in BOOLEAN

VARIABLES
    \* the client and the file system
    edits,              \* didOpen and didChange notifications sent so far
    lastVersion,        \* the last version the client gave each document
    disk,               \* the text of each file
    changedOnDisk,      \* files whose watched-file event is yet to arrive
    \* the main loop (GlobalState)
    documents,          \* the open buffers
    parse_diags,        \* what each document last published
    rules,              \* generation of the resolved lint configuration
    \* the channels
    analysis_rx, sync_rx, out_rx,
    \* the analysis thread (AnalysisWorker) and its database
    pending, inflight, active,
    import_projections, \* the projection last analyzed for each member
    tracked,            \* the text the database tracks for each file
    library,            \* generation of the library index in the database
    \* the read pool
    jobs,
    panics,             \* analysis jobs that panicked
    \* history
    orphaned            \* documents whose newest analysis was thrown away

clientVars == <<edits, lastVersion, disk, changedOnDisk>>
mainVars == <<documents, parse_diags, rules>>
workerVars == <<pending, inflight, active, import_projections, tracked,
                library>>
vars == <<clientVars, mainVars, analysis_rx, sync_rx, out_rx, workerVars,
          jobs, panics, orphaned>>

-----------------------------------------------------------------------------
(* Data. *)

Projections == {ProjectionOf[t] : t \in Texts}
Versions == 1..MaxEdits
Document == [version : Versions, text : Texts]
Request == [uri : Docs, version : Versions, text : Texts, rules : 0..MaxRules]
Flight == [uri : Docs, version : Versions]

(* What a lint run reads beside the buffer: the library index and, for a   *)
(* package file, the projections of the package's other files.             *)
Siblings(d) == IF d \in Members THEN Members \ {d} ELSE {}
World(d, trk, lib) ==
    [library |-> lib,
     imports |-> [e \in Siblings(d) |-> ProjectionOf[trk[e]]]]
Worlds == [library : 0..MaxLibrary,
           imports : UNION {[S -> Projections] : S \in SUBSET Docs}]

\* A world of None is a cold lint's: see ColdReports.
Diags == [text : Texts, rules : 0..MaxRules, world : Worlds \cup {None}]
Report == [kind : {"diagnostics"}, uri : Docs, version : Versions,
           diags : Diags]
Refresh == [kind |-> "refresh"]
Stages == {"projecting", "parsing", "linting"}
Job == [phase : {"running"}, uri : Docs, version : Versions, text : Texts,
        rules : 0..MaxRules, world : Worlds,
        projection : Projections \cup {None}]
AnalyzeDone == [phase : {"done"}, uri : Docs, version : Versions,
                projection : Projections \cup {None}]

ASSUME NoneAssumption ==
    None \notin Docs \cup Texts \cup Projections \cup Document \cup Request
              \cup Flight \cup Job \cup AnalyzeDone \cup Worlds \cup Diags

OpenDocs == {d \in Docs : documents[d] # None}
RequestFor(d, doc, r) ==
    [uri |-> d, version |-> doc.version, text |-> doc.text, rules |-> r]
ReportOf(job, world) ==
    [kind |-> "diagnostics", uri |-> job.uri, version |-> job.version,
     diags |-> [text |-> job.text, rules |-> job.rules, world |-> world]]
Live(job) == job # None /\ job.phase = "running"

Init ==
    /\ edits = 0
    /\ lastVersion = [d \in Docs |-> 0]
    /\ disk = [d \in Docs |-> InitialText]
    /\ changedOnDisk = {}
    /\ documents = [d \in Docs |-> None]
    /\ parse_diags = [d \in Docs |-> None]
    /\ rules = 0
    /\ analysis_rx = <<>> /\ sync_rx = <<>> /\ out_rx = <<>>
    /\ pending = [d \in Docs |-> None]
    /\ inflight = None
    /\ active = None
    /\ import_projections = [d \in Docs |-> None]
    /\ tracked = [d \in Docs |-> IF d \in Members THEN InitialText
                                                  ELSE None]
    /\ library = 0
    /\ jobs = [j \in JobIds |-> None]
    /\ panics = 0
    /\ orphaned = {}

-----------------------------------------------------------------------------
(* The main loop: client notifications.                                    *)

(* Every open document is sent for analysis, in any order.                 *)
SendAll(docs, r) ==
    \E order \in Bijection(1..Cardinality(docs), docs) :
        analysis_rx' = analysis_rx \o
            [i \in DOMAIN order |->
                RequestFor(order[i], documents[order[i]], r)]

SetDocument(d, doc) ==
    /\ edits < MaxEdits
    /\ edits' = edits + 1
    /\ lastVersion' = [lastVersion EXCEPT ![d] = doc.version]
    /\ documents' = [documents EXCEPT ![d] = doc]
    /\ analysis_rx' = Append(analysis_rx, RequestFor(d, doc, rules))
    /\ UNCHANGED <<disk, changedOnDisk, parse_diags, rules, sync_rx, out_rx,
                   workerVars, jobs, panics, orphaned>>

(* textDocument/didOpen.  The buffer need not hold the file's text: an     *)
(* editor restores unsaved buffers.                                        *)
FirstVersion(d) == IF VersionsRestart THEN 1 ELSE lastVersion[d] + 1
DidOpen(d, t) ==
    /\ documents[d] = None
    /\ SetDocument(d, [version |-> FirstVersion(d), text |-> t])

(* textDocument/didChange.                                                 *)
DidChange(d, t) ==
    /\ documents[d] # None
    /\ SetDocument(d, [version |-> documents[d].version + 1, text |-> t])

(* textDocument/didClose.                                                  *)
DidClose(d) ==
    /\ documents[d] # None
    /\ d \in Closable
    /\ documents' = [documents EXCEPT ![d] = None]
    /\ parse_diags' = [parse_diags EXCEPT ![d] = None]
    /\ sync_rx' = Append(sync_rx, d)
    /\ UNCHANGED <<clientVars, rules, analysis_rx, out_rx, workerVars, jobs,
                   panics, orphaned>>

(* Another program, or a save, rewrites a file.                            *)
Rewrite(d, t) ==
    /\ d \in Rewritable
    /\ disk[d] = InitialText /\ t # InitialText
    /\ disk' = [disk EXCEPT ![d] = t]
    /\ changedOnDisk' = changedOnDisk \cup {d}
    /\ UNCHANGED <<edits, lastVersion, mainVars, analysis_rx, sync_rx, out_rx,
                   workerVars, jobs, panics, orphaned>>

(* workspace/didChangeWatchedFiles: only a file with no buffer is synced.  *)
DidChangeWatchedFiles(d) ==
    /\ d \in changedOnDisk
    /\ changedOnDisk' = changedOnDisk \ {d}
    /\ sync_rx' = IF documents[d] = None THEN Append(sync_rx, d)
                                           ELSE sync_rx
    /\ UNCHANGED <<edits, lastVersion, disk, mainVars, analysis_rx, out_rx,
                   workerVars, jobs, panics, orphaned>>

(* workspace/didChangeConfiguration, or an edited fatou.toml.              *)
DidChangeConfiguration ==
    /\ rules < MaxRules
    /\ rules' = rules + 1
    /\ SendAll(OpenDocs, rules + 1)
    /\ UNCHANGED <<clientVars, documents, parse_diags, sync_rx, out_rx,
                   workerVars, jobs, panics, orphaned>>

(* The main loop: results.                                                 *)

(* Results of a superseded version or a closed document are dropped.       *)
AcceptAnyVersion(report) == documents[report.uri] # None          \* a mutant
Accept(report) ==
    /\ documents[report.uri] # None
    /\ documents[report.uri].version = report.version

OnDiagnostics ==
    /\ out_rx # <<>>
    /\ Head(out_rx).kind = "diagnostics"
    /\ out_rx' = Tail(out_rx)
    /\ LET report == Head(out_rx)
       IN parse_diags' = IF Accept(report)
                         THEN [parse_diags EXCEPT ![report.uri] = report.diags]
                         ELSE parse_diags
    /\ UNCHANGED <<clientVars, documents, rules, analysis_rx, sync_rx,
                   workerVars, jobs, panics, orphaned>>

OnDiagnosticsRefresh ==
    /\ out_rx # <<>>
    /\ Head(out_rx).kind = "refresh"
    /\ out_rx' = Tail(out_rx)
    /\ SendAll(OpenDocs, rules)
    /\ UNCHANGED <<clientVars, mainVars, sync_rx, workerVars, jobs, panics,
                   orphaned>>

-----------------------------------------------------------------------------
(* The analysis thread.  An arm of its select! loop is a chain of helpers  *)
(* over a record of what the arm has changed so far.                       *)

Worker(stage) ==
    [pending |-> pending, inflight |-> inflight, active |-> active,
     projections |-> import_projections, tracked |-> tracked,
     library |-> library, jobs |-> jobs, out |-> out_rx,
     orphaned |-> orphaned, stage |-> stage]

Commit(w) ==
    /\ pending' = w.pending
    /\ inflight' = w.inflight
    /\ active' = w.active
    /\ import_projections' = w.projections
    /\ tracked' = w.tracked
    /\ library' = w.library
    /\ jobs' = w.jobs
    /\ out_rx' = w.out
    /\ orphaned' = w.orphaned

SendRefresh(w) == [w EXCEPT !.out = Append(@, Refresh)]

(* Salsa cancels every snapshot holder and waits for it.  A job caught     *)
(* while it lints falls back to a cold lint of its own text and reports    *)
(* that; one caught while it parses has a projection to hand over and      *)
(* reports nothing; one caught earlier has neither.                        *)
ColdReports(js) ==
    LET live == {j \in JobIds : Live(js[j])}
        order == CHOOSE f \in Bijection(1..Cardinality(live), live) : TRUE
    IN [i \in 1..Cardinality(live) |-> ReportOf(js[order[i]], None)]

DoneOf(job, projection) ==
    [phase |-> "done", uri |-> job.uri, version |-> job.version,
     projection |-> projection]
Unwound(job, stage) ==
    DoneOf(job, IF stage = "projecting" THEN None ELSE job.projection)

Cancel(w) ==
    [w EXCEPT
        !.out = IF w.stage = "linting" THEN @ \o ColdReports(w.jobs) ELSE @,
        !.jobs = [j \in JobIds |-> IF Live(w.jobs[j])
                                   THEN Unwound(w.jobs[j], w.stage)
                                   ELSE w.jobs[j]]]

(* Where the running job is when an arm writes: any stage of its code.     *)
CaughtIn == IF \E j \in JobIds : Live(jobs[j]) THEN Stages ELSE {"linting"}

(* upsert_file: only a text that differs from the tracked one is a write,  *)
(* and creating the input is not.                                          *)
Upsert(w, d, t) ==
    LET written == IF w.tracked[d] \in {t, None} THEN w ELSE Cancel(w)
    IN [written EXCEPT !.tracked[d] = t]

(* revert_file_to_disk.  The documents whose running analysis the write    *)
(* cancels are orphaned: nothing queues them again.                        *)
Revert(w, d) ==
    IF w.tracked[d] \in {disk[d], None}
    THEN w
    ELSE [Upsert(w, d, disk[d]) EXCEPT
            !.orphaned = @ \cup
                {w.jobs[j].uri : j \in {i \in JobIds : Live(w.jobs[i])}}]

Waiting(w) == {d \in Docs : w.pending[d] # None}

(* decide: the documents whose analysis may start now.  A busy slot is     *)
(* taken over only by a strictly newer version of the document in it.      *)
DecideActiveOnly(w) ==                                            \* a mutant
    IF w.inflight = None THEN {w.active} \cap Waiting(w)
    ELSE {d \in Waiting(w) : d = w.inflight.uri}
Decide(w) ==
    IF w.inflight = None
    THEN IF w.active \in Waiting(w) THEN {w.active} ELSE Waiting(w)
    ELSE {d \in Waiting(w) : /\ d = w.inflight.uri
                             /\ w.pending[d].version > w.inflight.version}

(* start: the write phase, the snapshot and the spawned read phase.        *)
Start(w, d) ==
    LET req == w.pending[d]
        v == Upsert(w, d, req.text)
        id == CHOOSE j \in JobIds : v.jobs[j] = None
    IN [v EXCEPT
          !.pending[d] = None,
          !.inflight = [uri |-> d, version |-> req.version],
          !.orphaned = @ \ {d},
          !.jobs[id] = [uri |-> d, version |-> req.version,
                        text |-> req.text, rules |-> req.rules,
                        world |-> World(d, v.tracked, v.library),
                        phase |-> "running",
                        projection |-> IF d \in Members
                                       THEN ProjectionOf[req.text] ELSE None]]

(* try_dispatch: every outcome of the choices it leaves to a hash map.     *)
TryDispatch(w) ==
    IF Decide(w) = {}
    THEN {w}
    ELSE LET ready == IF w.inflight = None THEN w
                      ELSE [Cancel(w) EXCEPT !.inflight = None]
         IN {Start(ready, d) : d \in Decide(w)}

(* enqueue: the highest version per document; of equals the first, with    *)
(* the rules of the last.                                                  *)
Merged(old, req) ==
    IF old = None THEN req
    ELSE IF old.version < req.version THEN req
    ELSE IF old.version = req.version THEN [old EXCEPT !.rules = req.rules]
    ELSE old
EnqueueNewer(w, req) ==                                           \* a mutant
    IF w.pending[req.uri] = None \/ w.pending[req.uri].version < req.version
    THEN [w EXCEPT !.pending[req.uri] = req, !.active = req.uri]
    ELSE [w EXCEPT !.active = req.uri]
Enqueue(w, req) ==
    [w EXCEPT !.pending[req.uri] = Merged(@, req), !.active = req.uri]

(* enqueue, repeated until analysis_rx is empty, in one step.              *)
LatestOfAny(p, q, d) ==                                           \* a mutant
    {i \in DOMAIN q : \A k \in DOMAIN q : q[k].version <= q[i].version}
Latest(p, q, d) ==
    {i \in DOMAIN q :
        /\ q[i].uri = d
        /\ p # None => p.version <= q[i].version
        /\ \A k \in DOMAIN q : q[k].uri = d => q[k].version <= q[i].version}

Coalesce(p, q, d) ==
    IF Latest(p, q, d) = {} THEN p
    ELSE LET first == q[Min(Latest(p, q, d))]
             last == q[Max(Latest(p, q, d))]
             kept == IF p # None /\ p.version = first.version THEN p
                                                             ELSE first
         IN [kept EXCEPT !.rules = last.rules]

Drain(w, q) ==
    IF q = <<>> THEN w
    ELSE [w EXCEPT
            !.pending = [d \in Docs |-> Coalesce(w.pending[d], q, d)],
            !.active = q[Len(q)].uri]

(* Bound: an arm that may start an analysis waits for a free job id.       *)
JobIdFree == \E j \in JobIds : jobs[j] = None

AnalysisArm ==
    /\ analysis_rx # <<>>
    /\ JobIdFree
    /\ analysis_rx' = <<>>
    /\ \E stage \in CaughtIn :
         \E w \in TryDispatch(Drain(Worker(stage), analysis_rx)) : Commit(w)
    /\ UNCHANGED <<clientVars, mainVars, sync_rx, panics>>

(* on_sync: queued analyses of the path are dropped with its buffer.       *)
DropNothing(w, d) == w                                            \* a mutant
DropQueued(w, d) ==
    IF w.pending[d] = None THEN w
    ELSE [w EXCEPT
            !.pending[d] = None,
            !.active = IF @ = d THEN None ELSE @,
            !.orphaned = @ \cup {d}]

ForgetProjection(w, d) ==
    IF w.projections[d] = None THEN w
    ELSE SendRefresh([w EXCEPT !.projections[d] = None])

OnSync(w, d) == ForgetProjection(Revert(DropQueued(w, d), d), d)

SyncArm ==
    /\ sync_rx # <<>>
    /\ JobIdFree
    /\ sync_rx' = Tail(sync_rx)
    /\ analysis_rx' = <<>>
    /\ \E stage \in CaughtIn :
         \E w \in TryDispatch(OnSync(Drain(Worker(stage), analysis_rx),
                                    Head(sync_rx))) : Commit(w)
    /\ UNCHANGED <<clientVars, mainVars, panics>>

(* A library message: every input it sets is written, whatever its value.  *)
LibraryArm ==
    /\ library < MaxLibrary
    /\ \E stage \in CaughtIn :
         Commit(SendRefresh([Cancel(Worker(stage)) EXCEPT !.library = @ + 1]))
    /\ UNCHANGED <<clientVars, mainVars, analysis_rx, sync_rx, panics>>

(* on_done: a late `done` of a superseded analysis frees nothing.          *)
RecordQuietly(w, job) ==                                          \* a mutant
    IF job.projection = None THEN w
    ELSE [w EXCEPT !.projections[job.uri] = job.projection]
RecordProjection(w, job) ==
    IF job.projection \in {None, w.projections[job.uri]} THEN w
    ELSE SendRefresh([w EXCEPT !.projections[job.uri] = job.projection])

OnAnyDone(w, job) ==                                              \* a mutant
    RecordProjection([w EXCEPT !.inflight = None], job)
\* a mutant: the slot is released with the projection, so a cancelled job keeps it
OnFinishedDone(w, job) ==
    IF job.projection = None \/ w.inflight # [uri |-> job.uri, version |-> job.version]
    THEN w ELSE RecordProjection([w EXCEPT !.inflight = None], job)
OnDone(w, job) ==
    IF w.inflight # [uri |-> job.uri, version |-> job.version] THEN w
    ELSE RecordProjection([w EXCEPT !.inflight = None], job)

DoneArm(j) ==
    /\ jobs[j] # None
    /\ jobs[j].phase = "done"
    /\ \E stage \in CaughtIn :
         \E w \in TryDispatch(OnDone([Worker(stage) EXCEPT !.jobs[j] = None],
                                    jobs[j])) : Commit(w)
    /\ UNCHANGED <<clientVars, mainVars, analysis_rx, sync_rx, panics>>

-----------------------------------------------------------------------------
(* The read pool.  A `done` job has dropped its snapshot; its signal may   *)
(* still be on its way, and signals of two workers may cross.              *)

(* The report is sent, then the snapshot dropped, then `done` sent.        *)
JobFinish(j) ==
    /\ Live(jobs[j])
    /\ jobs' = [jobs EXCEPT ![j] = DoneOf(@, @.projection)]
    /\ out_rx' = Append(out_rx, ReportOf(jobs[j], jobs[j].world))
    /\ UNCHANGED <<clientVars, mainVars, analysis_rx, sync_rx, workerVars,
                   panics, orphaned>>

(* The pool catches the panic; neither a report nor a `done` is sent.      *)
JobPanic(j) ==
    /\ panics < MaxPanics
    /\ Live(jobs[j])
    /\ panics' = panics + 1
    /\ jobs' = [jobs EXCEPT ![j] = None]
    /\ orphaned' = orphaned \cup {jobs[j].uri}
    /\ UNCHANGED <<clientVars, mainVars, analysis_rx, sync_rx, out_rx,
                   workerVars>>

-----------------------------------------------------------------------------

Client ==
    \/ \E d \in Docs :
        \/ \E t \in Texts : DidOpen(d, t) \/ DidChange(d, t) \/ Rewrite(d, t)
        \/ DidClose(d)
        \/ DidChangeWatchedFiles(d)
    \/ DidChangeConfiguration

MainLoop == OnDiagnostics \/ OnDiagnosticsRefresh

AnalysisThread ==
    \/ AnalysisArm \/ SyncArm \/ LibraryArm
    \/ \E j \in JobIds : DoneArm(j)

Pool == \E j \in JobIds : JobFinish(j)

Next ==
    \/ Client \/ MainLoop \/ AnalysisThread \/ Pool
    \/ \E j \in JobIds : JobPanic(j)

Spec == Init /\ [][Next]_vars

(* select! picks among ready channels at random, so no ready one waits     *)
(* forever; the main loop drains its results; the pool runs its jobs.      *)
(* Nothing obliges the client, the harvester or a panic.                   *)
Fairness ==
    /\ WF_vars(MainLoop)
    /\ WF_vars(AnalysisArm)
    /\ WF_vars(SyncArm)
    /\ \A j \in JobIds : WF_vars(DoneArm(j)) /\ WF_vars(JobFinish(j))

FairSpec == Spec /\ Fairness

-----------------------------------------------------------------------------
(* Properties.                                                             *)

(* Every variable has its type; in particular a slot of the pending queue, *)
(* which `enqueue` keys by URI, holds a request for that very document.    *)
TypeOK ==
    /\ edits \in 0..MaxEdits
    /\ lastVersion \in [Docs -> 0..MaxEdits]
    /\ disk \in [Docs -> Texts]
    /\ changedOnDisk \subseteq Docs
    /\ documents \in [Docs -> Document \cup {None}]
    /\ parse_diags \in [Docs -> Diags \cup {None}]
    /\ rules \in 0..MaxRules
    /\ analysis_rx \in Seq(Request)
    /\ sync_rx \in Seq(Docs)
    /\ out_rx \in Seq(Report \cup {Refresh})
    /\ pending \in [Docs -> Request \cup {None}]
    /\ \A d \in Docs : pending[d] # None => pending[d].uri = d
    /\ inflight \in Flight \cup {None}
    /\ active \in Docs \cup {None}
    /\ import_projections \in [Docs -> Projections \cup {None}]
    /\ tracked \in [Docs -> Texts \cup {None}]
    /\ library \in 0..MaxLibrary
    /\ jobs \in [JobIds -> Job \cup AnalyzeDone \cup {None}]
    /\ panics \in 0..MaxPanics
    /\ orphaned \subseteq Docs

(* At most one analysis runs at a time, and it is the one in the in-flight *)
(* slot (AnalysisWorker::inflight): salsa's cancellation is global, so a   *)
(* second one could not be cancelled selectively.                          *)
SingleFlight ==
    \A j \in JobIds : Live(jobs[j]) =>
        /\ inflight = [uri |-> jobs[j].uri, version |-> jobs[j].version]
        /\ \A k \in JobIds : Live(jobs[k]) => k = j

(* No wake-up is lost: a request waits in the queue only while an analysis *)
(* is in flight whose `done` will dispatch it, and never one that should   *)
(* have superseded that analysis.  Every arm that queues a request, or     *)
(* frees the slot, dispatches before it returns.                           *)
NoLostWakeup ==
    \A d \in Docs : pending[d] # None =>
        /\ inflight # None
        /\ inflight.uri = d => pending[d].version <= inflight.version

(* Without panics the in-flight slot names an analysis that runs or whose  *)
(* `done` is on its way, so the slot is always freed.                      *)
InflightIsRunning ==
    inflight # None =>
        \E j \in JobIds : /\ jobs[j] # None
                          /\ jobs[j].uri = inflight.uri
                          /\ jobs[j].version = inflight.version
SlotNeverLeaks == panics = 0 => InflightIsRunning

(* Nothing is left to do: every channel is empty and no job is out.        *)
Quiet ==
    /\ analysis_rx = <<>> /\ sync_rx = <<>> /\ out_rx = <<>>
    /\ \A j \in JobIds : jobs[j] = None

(* What a document's diagnostics should be about.                          *)
Current(d) == [text |-> documents[d].text, rules |-> rules,
               world |-> World(d, tracked, library)]

(* When the server comes to rest, every open document shows the findings   *)
(* of its own text under the current rules and library, linted with its    *)
(* package context, unless its last analysis was cancelled by another      *)
(* file's revert, dropped by a crossing close, or lost to a panic.         *)
FreshWhenQuiet ==
    Quiet /\ panics = 0 =>
        \A d \in OpenDocs \ orphaned :
            /\ parse_diags[d] # None
            /\ parse_diags[d].text = documents[d].text
            /\ parse_diags[d].rules = rules
            /\ parse_diags[d].world # None
            /\ parse_diags[d].world.library = library

(* A document the client never closes is not left without diagnostics by  *)
(* what happens to other files: its analysis is cancelled only for a newer *)
(* edit of its own (decide).                                               *)
BystandersStayFresh ==
    Quiet /\ panics = 0 =>
        \A d \in OpenDocs \ Closable :
            /\ parse_diags[d] # None
            /\ parse_diags[d].text = documents[d].text

(* When the server comes to rest, the database holds the disk text of a    *)
(* closed file: no discarded buffer survives there (on_sync), however the  *)
(* close crossed the analyses queued before it.                            *)
ClosedTracksDisk ==
    Quiet => \A d \in Docs \ changedOnDisk :
        documents[d] = None => tracked[d] \in {disk[d], None}

(* When the server comes to rest, an open buffer is what the database      *)
(* holds: it stays authoritative until it closes (on_watched_files).       *)
OpenBufferTracked ==
    Quiet => \A d \in OpenDocs : tracked[d] = documents[d].text

(* Receiving a batch from analysis_rx and enqueueing its requests one at a *)
(* time, each seeing what the one before left, gives what Drain computes.  *)
DrainEnqueuesInOrder ==
    Drain(Worker("linting"), analysis_rx) =
        FoldLeft(Enqueue, Worker("linting"), analysis_rx)

(* Whatever is cancelled, superseded, delayed or reordered, the client is  *)
(* only ever shown diagnostics of its current buffer (on_outbound's        *)
(* version gate), and none of a closed one.                                *)
Service == INSTANCE DiagnosticsService WITH
    buffer <- [d \in Docs |-> IF documents[d] = None THEN None
                                                    ELSE documents[d].text],
    shown <- [d \in Docs |-> IF parse_diags[d] = None THEN None
                                                     ELSE parse_diags[d].text]
ImplementsService == Service!Spec

(* While no document closes and nothing panics, a buffer left alone gets   *)
(* its diagnostics, however often its analysis is cancelled.               *)
ImplementsFairService == Service!FairSpec

(* While no document closes and nothing panics, every open document ends   *)
(* up showing diagnostics that agree with its text, the rules, the library *)
(* and the other buffers of its package, whose imports it may satisfy.     *)
EventuallyFresh == <>[](\A d \in OpenDocs : parse_diags[d] = Current(d))
=============================================================================
