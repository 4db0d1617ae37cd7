------------------------- MODULE ScriptProjectsProofs -------------------------
(* Proofs about ScriptProjects: its types; that the last load asked for is *)
(* never lost; and that a script finding is displayed only beside the text *)
(* its span indexes.                                                       *)
EXTENDS ScriptProjects, FiniteSetTheorems, SequenceTheorems, TLAPS

-----------------------------------------------------------------------------
(* Types.                                                                  *)

Shown == [text : Texts \cup {None}, findings : SUBSET Finding]

MainTypes ==
    /\ disk \in [Files -> Texts \cup {Unreadable}]
    /\ changedOnDisk \subseteq Files
    /\ entry_points \in EntryPoints
    /\ documents \in [Files -> Document \cup {None}]
    /\ lastVersion \in [Files -> Nat]
    /\ graph_diags \in [Files -> SUBSET Finding]
    /\ graph_versions \in [Files -> Nat \cup {None, Package}]
    /\ shown \in [Files -> Shown]
    /\ linted \in [Files -> Worlds \cup {None}]
ChannelTypes ==
    /\ budget \in Budget
    /\ analysis_rx \in Seq(Request)
    /\ sync_rx \in Seq(Files)
    /\ ready \in Seq(Loaded)
    /\ loader \in Reading \cup {None}
    /\ Syncing(arm) => arm[2] \in Files
    /\ panicked \in BOOLEAN
WorkerTypes ==
    /\ pending \in [Files -> Request \cup {None}]
    /\ inflight \in Flight \cup {None}
    /\ scripts \in Scripts
    /\ pending_script_load \in Loaded \cup {None}
    /\ package_graph_diags \in [Files -> SUBSET PackageFinding]
    /\ published_graph_files \in SUBSET Files
    /\ tracked \in [Files -> Texts \cup {None}]
    /\ script_files \in ScriptFiles \cup {None}
    /\ jobs \in SUBSET Job
    /\ IsFiniteSet(jobs)
    /\ load_rx \in Seq(Load)
    /\ out_rx \in Seq(Outbound)
    /\ orphaned \in SUBSET Files
    /\ crossed \in SUBSET Files
    /\ missed \in SUBSET Files
TypeOK == MainTypes /\ ChannelTypes /\ WorkerTypes

(* The record the helpers of the analysis thread work on.                  *)
WorkerRecord ==
    [pending : [Files -> Request \cup {None}], inflight : Flight \cup {None},
     scripts : Scripts, parked : Loaded \cup {None},
     package : [Files -> SUBSET PackageFinding], published : SUBSET Files,
     tracked : [Files -> Texts \cup {None}], files : ScriptFiles \cup {None},
     jobs : SUBSET Job, load : Seq(Load), out : Seq(Outbound),
     orphaned : SUBSET Files, crossed : SUBSET Files, missed : SUBSET Files,
     stage : {"parsing", "linting"}]
WorkerOK(w) == w \in WorkerRecord /\ IsFiniteSet(w.jobs)

LEMMA WorkerTyped ==
    ASSUME TypeOK, NEW stage \in {"parsing", "linting"}
    PROVE  WorkerOK(Worker(stage))
BY DEF TypeOK, WorkerTypes, WorkerOK, WorkerRecord, Worker

LEMMA CommitTyped ==
    ASSUME NEW w, WorkerOK(w), Commit(w)
    PROVE  WorkerTypes'
BY DEF Commit, WorkerOK, WorkerRecord, WorkerTypes

LEMMA StageTyped == CaughtIn \subseteq {"parsing", "linting"}
BY DEF CaughtIn

-----------------------------------------------------------------------------
(* Facts about the helper operators.                                       *)

LEMMA SetToSeqLists ==
    ASSUME NEW S, IsFiniteSet(S)
    PROVE  /\ Cardinality(S) \in Nat
           /\ SetToSeq(S) \in [1..Cardinality(S) -> S]
           /\ DOMAIN SetToSeq(S) = 1..Cardinality(S)
<1>1. Cardinality(S) \in Nat /\ ExistsBijection(1..Cardinality(S), S)
  BY FS_CardinalityType
<1>2. \E f \in [1..Cardinality(S) -> S] : IsInjective(f)
  BY <1>1 DEF ExistsBijection, Bijection, Injection, IsInjective
<1> QED
  BY <1>1, <1>2 DEF SetToSeq

LEMMA SeqFromFunction ==
    ASSUME NEW S, NEW n \in Nat, NEW f \in [1..n -> S]
    PROVE  f \in Seq(S) /\ Len(f) = n
OBVIOUS

LEMMA FiniteImage ==
    ASSUME NEW S, IsFiniteSet(S), NEW f, DOMAIN f = S
    PROVE  IsFiniteSet({f[x] : x \in S})
<1> DEFINE T == {f[x] : x \in S}
           g == [x \in S |-> f[x]]
<1>1. g \in Surjection(S, T)
  BY DEF Surjection
<1> QED
  BY <1>1, FS_Surjection

LEMMA FilesFinite == ASSUME NEW S \in SUBSET Files PROVE IsFiniteSet(S)
BY FilesAssumption, FS_Subset

LEMMA EntriesAreFiles ==
    ASSUME NEW docs \in Registrations
    PROVE  EntriesOf(docs) \in SUBSET Files
BY NoneAssumption DEF EntriesOf, Registrations, Registered

LEMMA ProgramType ==
    ASSUME NEW entries, NEW sources \in Sources
    PROVE  Program(entries, sources) \in Programs
BY DEF Program, Programs, Sources

LEMMA FailedIncludesType ==
    ASSUME NEW sources \in Sources
    PROVE  /\ FailedIncludes(sources) \in [Files -> SUBSET Finding]
           /\ \A f \in Files : \A p \in FailedIncludes(sources)[f] :
                sources[f] \in Texts /\ p.text = sources[f]
BY TextsAssumption DEF FailedIncludes, Sources, Missing, Finding

LEMMA VersionsOfType ==
    ASSUME NEW docs \in Registrations
    PROVE  VersionsOf(docs) \in [Files -> Nat \cup {None}]
BY DEF VersionsOf, Registrations, Registered

LEMMA NewestType ==
    ASSUME NEW old \in Request \cup {None}, NEW req \in Request
    PROVE  Newest(old, req) \in Request
BY DEF Newest, Request

LEMMA WorldType ==
    ASSUME NEW w, WorkerOK(w), NEW entries \in SUBSET Files
    PROVE  World(w, entries) \in Worlds
<1> DEFINE sources == [f \in Files |->
                            IF f \in w.files.readable THEN w.tracked[f]
                            ELSE IF f \in w.files.failed THEN Unreadable
                            ELSE None]
<1>1. w.tracked \in [Files -> Texts \cup {None}] /\ NoSources \in Sources
  BY DEF WorkerOK, WorkerRecord, NoSources, Sources
<1>2. sources \in Sources
  BY <1>1 DEF Sources
<1>3. Program({}, NoSources) \in Programs /\ Program(entries, sources) \in Programs
  BY <1>1, <1>2, ProgramType
<1>4. World(w, entries) =
        IF entries = {} \/ w.files = None
        THEN [pending |-> entries # {}, program |-> Program({}, NoSources)]
        ELSE [pending |-> w.files.pending \/ ~(entries \subseteq w.files.entries),
              program |-> Program(entries, sources)]
  BY DEF World
<1> HIDE DEF sources
<1> QED
  BY <1>3, <1>4 DEF Worlds

-----------------------------------------------------------------------------
(* Each helper returns a record of the right type.                         *)

LEMMA RunningFinite ==
    ASSUME NEW w, WorkerOK(w)
    PROVE  Running(w.jobs) \in SUBSET Job /\ IsFiniteSet(Running(w.jobs))
BY FS_Subset DEF Running, WorkerOK, WorkerRecord

LEMMA ColdReportsType ==
    ASSUME NEW running \in SUBSET Job, IsFiniteSet(running)
    PROVE  LET reports == SetToSeq({ReportOf(j, None) : j \in running})
           IN /\ reports \in Seq(Outbound)
              /\ \A i \in DOMAIN reports : reports[i].kind = "diagnostics"
<1> DEFINE S == {ReportOf(j, None) : j \in running}
           n == Cardinality(S)
<1>1. IsFiniteSet(S)
  <2> DEFINE f == [j \in running |-> ReportOf(j, None)]
  <2>1. IsFiniteSet({f[j] : j \in running})
    BY FiniteImage
  <2> QED
    BY <2>1
<1>2. S \subseteq Outbound /\ \A m \in S : m.kind = "diagnostics"
  BY DEF ReportOf, Job, Outbound
<1>3. n \in Nat /\ SetToSeq(S) \in [1..n -> S]
  BY <1>1, SetToSeqLists
<1> HIDE DEF S, n
<1>4. SetToSeq(S) \in [1..n -> Outbound]
  BY <1>2, <1>3
<1>5. SetToSeq(S) \in Seq(Outbound)
  BY <1>3, <1>4, SeqFromFunction
<1>6. \A i \in DOMAIN SetToSeq(S) : SetToSeq(S)[i].kind = "diagnostics"
  BY <1>2, <1>3
<1> QED
  BY <1>5, <1>6 DEF S

LEMMA UnwoundJobs ==
    ASSUME NEW running \in SUBSET Job, IsFiniteSet(running)
    PROVE  LET done == {[j EXCEPT !.phase = "done"] : j \in running}
           IN done \in SUBSET Job /\ IsFiniteSet(done)
<1> DEFINE f == [j \in running |-> [j EXCEPT !.phase = "done"]]
<1>1. DOMAIN f = running /\ \A j \in running : f[j] = [j EXCEPT !.phase = "done"]
  OBVIOUS
<1>2. \A j \in running : f[j] \in Job
  BY DEF Job
<1> HIDE DEF f
<1>3. IsFiniteSet({f[j] : j \in running})
  BY <1>1, FiniteImage
<1>4. {f[j] : j \in running} = {[j EXCEPT !.phase = "done"] : j \in running}
  BY <1>1
<1> QED
  BY <1>2, <1>3, <1>4

LEMMA CancelOK ==
    ASSUME NEW w, WorkerOK(w)
    PROVE  WorkerOK(Cancel(w))
<1> DEFINE running == Running(w.jobs)
           done == {[j EXCEPT !.phase = "done"] : j \in running}
           reports == SetToSeq({ReportOf(j, None) : j \in running})
           out == IF w.stage = "linting" THEN w.out \o reports ELSE w.out
           gone == w.orphaned \cup {j.uri : j \in running}
           js == (w.jobs \ running) \cup done
<1>1. /\ w \in WorkerRecord /\ w.jobs \in SUBSET Job /\ IsFiniteSet(w.jobs)
      /\ w.out \in Seq(Outbound) /\ w.orphaned \in SUBSET Files
  BY DEF WorkerOK, WorkerRecord
<1>2. running \in SUBSET Job /\ IsFiniteSet(running)
  BY RunningFinite
<1>3. reports \in Seq(Outbound)
  BY <1>2, ColdReportsType
<1>4. out \in Seq(Outbound)
  BY <1>1, <1>3
<1>5. done \in SUBSET Job /\ IsFiniteSet(done)
  BY <1>2, UnwoundJobs
<1>6. js \in SUBSET Job /\ IsFiniteSet(js)
  <2>1. IsFiniteSet(w.jobs \ running)
    BY <1>1, FS_Subset
  <2> QED
    BY <1>1, <1>5, <2>1, FS_Union
<1>7. gone \in SUBSET Files
  BY <1>1, <1>2 DEF Job
<1>8. Cancel(w) = [w EXCEPT !.jobs = js, !.orphaned = gone, !.out = out]
  BY DEF Cancel
<1> HIDE DEF js, gone, out
<1> DEFINE v == [w EXCEPT !.jobs = js, !.orphaned = gone, !.out = out]
<1>9. v \in WorkerRecord
  BY <1>1, <1>4, <1>6, <1>7 DEF WorkerRecord
<1>10. v.jobs = js
  BY <1>1 DEF WorkerRecord
<1> HIDE DEF v
<1> QED
  BY <1>6, <1>8, <1>9, <1>10 DEF WorkerOK, v

(* Nothing that is known of the loads changes, and no findings are sent.   *)
Keeps(v, w) ==
    /\ v.scripts = w.scripts /\ v.load = w.load /\ v.parked = w.parked
    /\ v.package = w.package /\ v.published = w.published
    /\ \A i \in DOMAIN v.out : v.out[i].kind = "project" =>
         \E k \in DOMAIN w.out : w.out[k] = v.out[i]

LEMMA CancelKeeps ==
    ASSUME NEW w, WorkerOK(w)
    PROVE  /\ Keeps(Cancel(w), w)
           /\ Cancel(w).files = w.files
           /\ Cancel(w).pending = w.pending
           /\ Cancel(w).inflight = w.inflight
<1> DEFINE running == Running(w.jobs)
           done == {[j EXCEPT !.phase = "done"] : j \in running}
           reports == SetToSeq({ReportOf(j, None) : j \in running})
           out == IF w.stage = "linting" THEN w.out \o reports ELSE w.out
           gone == w.orphaned \cup {j.uri : j \in running}
           js == (w.jobs \ running) \cup done
<1>1. w \in WorkerRecord /\ w.out \in Seq(Outbound)
  BY DEF WorkerOK, WorkerRecord
<1>2. /\ reports \in Seq(Outbound)
      /\ \A i \in DOMAIN reports : reports[i].kind = "diagnostics"
  BY RunningFinite, ColdReportsType
<1> HIDE DEF reports
<1>3. \A i \in DOMAIN out : out[i].kind = "project" =>
        \E k \in DOMAIN w.out : w.out[k] = out[i]
  BY <1>1, <1>2
<1>4. Cancel(w) = [w EXCEPT !.jobs = js, !.orphaned = gone, !.out = out]
  BY DEF Cancel, reports
<1> HIDE DEF js, gone, out
<1> QED
  BY <1>1, <1>3, <1>4 DEF WorkerRecord, Keeps

LEMMA KeepsItself == ASSUME NEW w PROVE Keeps(w, w)
BY DEF Keeps

LEMMA UpsertOK ==
    ASSUME NEW w, WorkerOK(w), NEW f \in Files, NEW t \in Texts
    PROVE  /\ WorkerOK(Upsert(w, f, t))
           /\ Keeps(Upsert(w, f, t), w)
           /\ Upsert(w, f, t).files = w.files
           /\ Upsert(w, f, t).pending = w.pending
           /\ Upsert(w, f, t).inflight = w.inflight
<1> DEFINE written == IF w.tracked[f] \in {t, None} THEN w ELSE Cancel(w)
<1>1. /\ WorkerOK(written) /\ Keeps(written, w) /\ written.files = w.files
      /\ written.pending = w.pending /\ written.inflight = w.inflight
  BY CancelOK, CancelKeeps, KeepsItself
<1>2. Upsert(w, f, t) = [written EXCEPT !.tracked[f] = t]
  BY DEF Upsert
<1> HIDE DEF written
<1> DEFINE v == [written EXCEPT !.tracked[f] = t]
<1>3. written \in WorkerRecord /\ IsFiniteSet(written.jobs)
  BY <1>1 DEF WorkerOK
<1>4. v \in WorkerRecord /\ v.jobs = written.jobs
  BY <1>3 DEF WorkerRecord
<1>5. /\ v.scripts = written.scripts /\ v.load = written.load
      /\ v.parked = written.parked /\ v.package = written.package
      /\ v.published = written.published /\ v.out = written.out
      /\ v.files = written.files /\ v.pending = written.pending
      /\ v.inflight = written.inflight
  BY <1>3 DEF WorkerRecord
<1> HIDE DEF v
<1> QED
  BY <1>1, <1>2, <1>3, <1>4, <1>5 DEF WorkerOK, Keeps, v

LEMMA SetScriptFilesOK ==
    ASSUME NEW w, WorkerOK(w), NEW files \in ScriptFiles
    PROVE  /\ WorkerOK(SetScriptFiles(w, files))
           /\ Keeps(SetScriptFiles(w, files), w)
           /\ SetScriptFiles(w, files).files = files
<1> DEFINE base == IF w.files \in {files, None} THEN w ELSE Cancel(w)
           v == [base EXCEPT !.files = files]
<1>1. WorkerOK(base) /\ Keeps(base, w)
  BY CancelOK, CancelKeeps, KeepsItself
<1>2. SetScriptFiles(w, files) = v
  BY DEF SetScriptFiles
<1> HIDE DEF base
<1>3. base \in WorkerRecord /\ IsFiniteSet(base.jobs)
  BY <1>1 DEF WorkerOK
<1>4. v \in WorkerRecord /\ v.jobs = base.jobs /\ v.files = files
  BY <1>3 DEF WorkerRecord
<1>5. /\ v.scripts = base.scripts /\ v.load = base.load
      /\ v.parked = base.parked /\ v.package = base.package
      /\ v.published = base.published /\ v.out = base.out
  BY <1>3 DEF WorkerRecord
<1> HIDE DEF v
<1> QED
  BY <1>1, <1>2, <1>3, <1>4, <1>5 DEF WorkerOK, Keeps

LEMMA SetPendingOK ==
    ASSUME NEW w, WorkerOK(w)
    PROVE  WorkerOK(SetPending(w)) /\ Keeps(SetPending(w), w)
<1> DEFINE files == IF w.files = None
                    THEN [readable |-> {}, failed |-> {}, entries |-> {},
                          pending |-> TRUE]
                    ELSE [w.files EXCEPT !.pending = TRUE]
<1>1. w.files \in ScriptFiles \cup {None}
  BY DEF WorkerOK, WorkerRecord
<1>2. files \in ScriptFiles
  BY <1>1 DEF ScriptFiles
<1>3. SetPending(w) = SetScriptFiles(w, files)
  BY DEF SetPending
<1> HIDE DEF files
<1> QED
  BY <1>2, <1>3, SetScriptFilesOK

(* The record an asked load leaves.                                        *)
Job0(w) == [generation |-> w.scripts.generation + 1,
            entries |-> w.scripts.entries, documents |-> w.scripts.documents]

LEMMA AskLoadOK ==
    ASSUME NEW w, WorkerOK(w)
    PROVE  /\ WorkerOK(AskLoad(w))
           /\ AskLoad(w).scripts = [w.scripts EXCEPT !.generation = @ + 1,
                                                     !.loading = TRUE]
           /\ AskLoad(w).load = Append(w.load, Job0(w))
           /\ Job0(w) \in Load
           /\ AskLoad(w).parked = w.parked /\ AskLoad(w).files = w.files
           /\ AskLoad(w).package = w.package /\ AskLoad(w).out = w.out
           /\ AskLoad(w).published = w.published
<1> DEFINE s == [w.scripts EXCEPT !.generation = @ + 1, !.loading = TRUE]
           l == Append(w.load, Job0(w))
           v == [w EXCEPT !.scripts = s, !.missed = {}, !.load = l]
<1>1. /\ w \in WorkerRecord /\ IsFiniteSet(w.jobs)
      /\ w.scripts \in Scripts /\ w.load \in Seq(Load)
  BY DEF WorkerOK, WorkerRecord
<1>2. s \in Scripts
  <2>1. w.scripts.generation + 1 \in Nat
    BY <1>1 DEF Scripts
  <2> QED
    BY <1>1, <2>1 DEF Scripts
<1>3. Job0(w) \in Load
  BY <1>1 DEF Scripts, Load, Job0
<1>4. l \in Seq(Load)
  BY <1>1, <1>3
<1>5. AskLoad(w) = v
  BY DEF AskLoad, Job0
<1> HIDE DEF s, l
<1>6. v \in WorkerRecord
  BY <1>1, <1>2, <1>4 DEF WorkerRecord
<1>7. /\ v.scripts = s /\ v.load = l /\ v.parked = w.parked
      /\ v.files = w.files /\ v.package = w.package /\ v.out = w.out
      /\ v.published = w.published /\ v.jobs = w.jobs
  BY <1>1 DEF WorkerRecord
<1> HIDE DEF v
<1> QED
  BY <1>1, <1>3, <1>5, <1>6, <1>7 DEF WorkerOK, s, l

-----------------------------------------------------------------------------
(* The loads in transit.  A load of the newest generation asks for the     *)
(* registered entry points; a finished one has read its own.               *)

Numbered(w, job) ==
    /\ job.generation <= w.scripts.generation
    /\ job.generation = w.scripts.generation => job.entries = w.scripts.entries
ReadsEntries(l) == \A f \in l.job.entries : l.sources[f] # None

(* rd: the results in the ready channel.                                   *)
InTransit(rd) ==
    /\ rd \in Seq(Loaded) /\ loader \in Reading \cup {None}
    /\ \A i \in DOMAIN rd : ReadsEntries(rd[i])
Bounded(w, rd) ==
    /\ \A i \in DOMAIN w.load : w.load[i].generation <= w.scripts.generation
    /\ loader # None => loader.job.generation <= w.scripts.generation
    /\ \A i \in DOMAIN rd : rd[i].job.generation <= w.scripts.generation
    /\ w.parked # None => /\ w.parked.job.generation <= w.scripts.generation
                          /\ ReadsEntries(w.parked)
LoadsOK(w, rd) ==
    /\ ~w.scripts.loading /\ w.scripts.sources = {} => w.scripts.entries = {}
    /\ w.files # None /\ w.files.pending => w.scripts.loading
    /\ \A i \in DOMAIN w.load : Numbered(w, w.load[i])
    /\ loader # None => Numbered(w, loader.job)
    /\ \A i \in DOMAIN rd : Numbered(w, rd[i].job)
    /\ w.parked # None => Numbered(w, w.parked.job) /\ ReadsEntries(w.parked)

IsCurrentIn(w, job) ==
    /\ job.generation = w.scripts.generation
    /\ job.entries = w.scripts.entries
    /\ job.documents = w.scripts.documents
OnItsWay(w, rd) ==
    w.scripts.loading /\ ~panicked =>
        \/ w.load # <<>> /\ IsCurrentIn(w, w.load[Len(w.load)])
        \/ w.load = <<>> /\ loader # None /\ IsCurrentIn(w, loader.job)
        \/ /\ w.load = <<>> /\ loader = None /\ rd # <<>>
           /\ IsCurrentIn(w, rd[Len(rd)].job)
        \/ /\ w.load = <<>> /\ loader = None /\ rd = <<>>
           /\ w.parked # None
           /\ IsCurrentIn(w, w.parked.job)

(* A version names one text: at version v the text of f is t, or was and   *)
(* never is again.                                                         *)
Agrees(f, v, t) ==
    /\ v <= lastVersion[f]
    /\ documents[f] # None /\ documents[f].version = v => documents[f].text = t
RegistrationsAgree(docs) ==
    \A f \in Files : docs[f] # None => Agrees(f, docs[f].version, docs[f].text)
ReadAgrees(l) ==
    /\ RegistrationsAgree(l.job.documents)
    /\ \A f \in Files : l.job.documents[f] # None /\ l.sources[f] # None =>
         l.sources[f] = l.job.documents[f].text
FindingsAgree(f, findings, version) ==
    \A p \in findings : p.text # None =>
        version # Package /\ (version # None => Agrees(f, version, p.text))
Honest(m) == m.kind = "project" => FindingsAgree(m.uri, m.findings, m.version)
SpansOK(w) ==
    /\ RegistrationsAgree(w.scripts.documents)
    /\ \A i \in DOMAIN w.load : RegistrationsAgree(w.load[i].documents)
    /\ w.parked # None => ReadAgrees(w.parked)
    /\ \A f \in Files :
         /\ FindingsAgree(f, w.scripts.diagnostics[f], w.scripts.versions[f])
         /\ w.scripts.diagnostics[f] # {} => f \in w.scripts.sources
    /\ \A i \in DOMAIN w.out : Honest(w.out[i])

Good(w, rd) ==
    /\ WorkerOK(w) /\ InTransit(rd)
    /\ LoadsOK(w, rd) /\ OnItsWay(w, rd) /\ SpansOK(w)

LEMMA KeepsGood ==
    ASSUME NEW w, NEW v, NEW rd, Good(w, rd), WorkerOK(v), Keeps(v, w),
           v.files = w.files
    PROVE  Good(v, rd)
<1>1. LoadsOK(v, rd)
  BY DEF Good, Keeps, LoadsOK, Numbered
<1>2. OnItsWay(v, rd)
  BY DEF Good, Keeps, OnItsWay, IsCurrentIn
<1>3. SpansOK(v)
  <2>1. v.scripts = w.scripts /\ v.load = w.load /\ v.parked = w.parked
    BY DEF Keeps
  <2>2. \A i \in DOMAIN v.out : Honest(v.out[i])
    BY DEF Good, Keeps, SpansOK, Honest
  <2> QED
    BY <2>1, <2>2 DEF Good, SpansOK
<1> QED
  BY <1>1, <1>2, <1>3 DEF Good

LEMMA NumberedIsBounded ==
    ASSUME NEW w, NEW rd, LoadsOK(w, rd)
    PROVE  Bounded(w, rd)
BY DEF LoadsOK, Bounded, Numbered

(* A load just asked for is the newest, whatever is in transit.            *)
LEMMA AskLoadGood ==
    ASSUME NEW w, NEW rd, WorkerOK(w), InTransit(rd), Bounded(w, rd), SpansOK(w)
    PROVE  Good(AskLoad(w), rd)
<1> DEFINE v == AskLoad(w)
           g == w.scripts.generation
<1>1. /\ WorkerOK(v)
      /\ v.scripts = [w.scripts EXCEPT !.generation = @ + 1, !.loading = TRUE]
      /\ v.load = Append(w.load, Job0(w)) /\ Job0(w) \in Load
      /\ v.parked = w.parked /\ v.files = w.files
      /\ v.package = w.package /\ v.out = w.out
  BY AskLoadOK
<1>2. /\ w.scripts \in Scripts /\ w.load \in Seq(Load)
      /\ w.parked \in Loaded \cup {None}
  BY DEF WorkerOK, WorkerRecord
<1> HIDE DEF v
<1>3. /\ v.scripts.generation = g + 1 /\ v.scripts.loading = TRUE
      /\ v.scripts.documents = w.scripts.documents
      /\ v.scripts.entries = w.scripts.entries
      /\ v.scripts.sources = w.scripts.sources
      /\ v.scripts.diagnostics = w.scripts.diagnostics
      /\ v.scripts.versions = w.scripts.versions
      /\ g \in Nat
  BY <1>1, <1>2 DEF Scripts
<1>4. /\ v.load # <<>> /\ v.load[Len(v.load)] = Job0(w)
      /\ \A i \in DOMAIN v.load :
           v.load[i] = Job0(w) \/ (i \in DOMAIN w.load /\ v.load[i] = w.load[i])
  BY <1>1, <1>2
<1>5. /\ \A i \in DOMAIN w.load : w.load[i].generation \in Nat
      /\ loader # None => loader.job.generation \in Nat
      /\ \A i \in DOMAIN rd : rd[i].job.generation \in Nat
      /\ w.parked # None => w.parked.job.generation \in Nat
  <2>1. \A job \in Load : job.generation \in Nat
    BY DEF Load
  <2>2. \A i \in DOMAIN w.load : w.load[i] \in Load
    BY <1>2
  <2>3. \A i \in DOMAIN rd : rd[i] \in Loaded
    BY DEF InTransit
  <2>4. \A l \in Loaded \cup Reading : l.job \in Load
    BY DEF Loaded, Reading
  <2> QED
    BY <1>2, <2>1, <2>2, <2>3, <2>4 DEF InTransit
<1>6. LoadsOK(v, rd)
  <2>1. \A i \in DOMAIN v.load : Numbered(v, v.load[i])
    BY <1>3, <1>4, <1>5 DEF Numbered, Job0, Bounded
  <2>2. loader # None => Numbered(v, loader.job)
    BY <1>3, <1>5 DEF Numbered, Bounded
  <2>3. \A i \in DOMAIN rd : Numbered(v, rd[i].job)
    BY <1>3, <1>5 DEF Numbered, Bounded
  <2>4. v.parked # None => Numbered(v, v.parked.job) /\ ReadsEntries(v.parked)
    BY <1>1, <1>3, <1>5 DEF Numbered, Bounded
  <2> QED
    BY <1>3, <2>1, <2>2, <2>3, <2>4 DEF LoadsOK
<1>7. OnItsWay(v, rd)
  BY <1>3, <1>4 DEF OnItsWay, IsCurrentIn, Job0
<1>8. SpansOK(v)
  <2>1. \A i \in DOMAIN v.load : RegistrationsAgree(v.load[i].documents)
    BY <1>4 DEF SpansOK, Job0
  <2>2. v.parked # None => ReadAgrees(v.parked)
    BY <1>1 DEF SpansOK
  <2>3. \A i \in DOMAIN v.out : Honest(v.out[i])
    BY <1>1 DEF SpansOK
  <2>4. /\ RegistrationsAgree(v.scripts.documents)
        /\ \A f \in Files :
             /\ FindingsAgree(f, v.scripts.diagnostics[f], v.scripts.versions[f])
             /\ v.scripts.diagnostics[f] # {} => f \in v.scripts.sources
    BY <1>3 DEF SpansOK
  <2> QED
    BY <2>1, <2>2, <2>3, <2>4 DEF SpansOK
<1> QED
  BY <1>1, <1>6, <1>7, <1>8 DEF Good, v

LEMMA ReloadAsks ==
    ASSUME NEW w, \/ w.scripts.entries # {} \/ w.scripts.sources # {}
                  \/ w.scripts.loading
    PROVE  Reload(w) = AskLoad(w)
BY DEF Reload

(* Buffers registered or unregistered, before any reload.                  *)
Reregistered(w, docs, crossing) ==
    [w EXCEPT !.scripts = [@ EXCEPT !.documents = docs,
                                    !.entries = EntriesOf(docs)],
              !.crossed = crossing]

LEMMA ReregisteredOK ==
    ASSUME NEW w, WorkerOK(w), NEW docs \in Registrations,
           NEW crossing \in SUBSET Files
    PROVE  LET v == Reregistered(w, docs, crossing)
           IN /\ WorkerOK(v)
              /\ v.scripts = [w.scripts EXCEPT !.documents = docs,
                                               !.entries = EntriesOf(docs)]
              /\ v.load = w.load /\ v.parked = w.parked /\ v.files = w.files
              /\ v.package = w.package /\ v.out = w.out
<1> DEFINE s == [w.scripts EXCEPT !.documents = docs, !.entries = EntriesOf(docs)]
           v == [w EXCEPT !.scripts = s, !.crossed = crossing]
<1>1. w \in WorkerRecord /\ IsFiniteSet(w.jobs) /\ w.scripts \in Scripts
  BY DEF WorkerOK, WorkerRecord
<1>2. s \in Scripts
  BY <1>1, EntriesAreFiles DEF Scripts
<1>3. Reregistered(w, docs, crossing) = v
  BY DEF Reregistered
<1> HIDE DEF s
<1>4. v \in WorkerRecord
  BY <1>1, <1>2 DEF WorkerRecord
<1>5. /\ v.scripts = s /\ v.load = w.load /\ v.parked = w.parked
      /\ v.files = w.files /\ v.package = w.package /\ v.out = w.out
      /\ v.jobs = w.jobs
  BY <1>1 DEF WorkerRecord
<1> HIDE DEF v
<1> QED
  BY <1>1, <1>3, <1>4, <1>5 DEF WorkerOK, s

LEMMA ReregisteredGood ==
    ASSUME NEW w, NEW rd, Good(w, rd), NEW docs \in Registrations,
           NEW crossing \in SUBSET Files, RegistrationsAgree(docs)
    PROVE  LET v == Reregistered(w, docs, crossing)
           IN /\ WorkerOK(v) /\ Bounded(v, rd) /\ SpansOK(v)
              /\ v.scripts.sources = w.scripts.sources
              /\ v.scripts.loading = w.scripts.loading
              /\ v.scripts.entries = EntriesOf(docs)
              /\ ~w.scripts.loading /\ EntriesOf(docs) = w.scripts.entries =>
                   Good(v, rd)
<1> DEFINE v == Reregistered(w, docs, crossing)
<1>1. /\ WorkerOK(v)
      /\ v.scripts = [w.scripts EXCEPT !.documents = docs,
                                       !.entries = EntriesOf(docs)]
      /\ v.load = w.load /\ v.parked = w.parked /\ v.files = w.files
      /\ v.package = w.package /\ v.out = w.out
  BY ReregisteredOK DEF Good
<1>2. w.scripts \in Scripts
  BY DEF Good, WorkerOK, WorkerRecord
<1> HIDE DEF v
<1>3. /\ v.scripts.generation = w.scripts.generation
      /\ v.scripts.loading = w.scripts.loading
      /\ v.scripts.documents = docs
      /\ v.scripts.entries = EntriesOf(docs)
      /\ v.scripts.sources = w.scripts.sources
      /\ v.scripts.diagnostics = w.scripts.diagnostics
      /\ v.scripts.versions = w.scripts.versions
  BY <1>1, <1>2 DEF Scripts
<1>4. Bounded(v, rd)
  BY <1>1, <1>3, NumberedIsBounded DEF Good, Bounded
<1>5. SpansOK(v)
  <2>1. /\ \A i \in DOMAIN v.load : RegistrationsAgree(v.load[i].documents)
        /\ v.parked # None => ReadAgrees(v.parked)
        /\ \A i \in DOMAIN v.out : Honest(v.out[i])
    BY <1>1 DEF Good, SpansOK
  <2>2. \A f \in Files :
          /\ FindingsAgree(f, v.scripts.diagnostics[f], v.scripts.versions[f])
          /\ v.scripts.diagnostics[f] # {} => f \in v.scripts.sources
    BY <1>3 DEF Good, SpansOK
  <2> QED
    BY <1>3, <2>1, <2>2 DEF SpansOK
<1>6. ASSUME ~w.scripts.loading, EntriesOf(docs) = w.scripts.entries
      PROVE  Good(v, rd)
  <2>1. LoadsOK(v, rd)
    BY <1>1, <1>3, <1>6 DEF Good, LoadsOK, Numbered
  <2>2. OnItsWay(v, rd)
    BY <1>3, <1>6 DEF OnItsWay
  <2> QED
    BY <1>1, <1>5, <2>1, <2>2 DEF Good
<1> QED
  BY <1>1, <1>3, <1>4, <1>5, <1>6 DEF v

LEMMA PendingReloadGood ==
    ASSUME NEW v, NEW rd, WorkerOK(v), InTransit(rd), Bounded(v, rd),
           SpansOK(v),
           \/ v.scripts.entries # {} \/ v.scripts.sources # {}
           \/ v.scripts.loading
    PROVE  Good(Reload(SetPending(v)), rd)
<1> DEFINE u == SetPending(v)
<1>1. WorkerOK(u) /\ Keeps(u, v)
  BY SetPendingOK
<1> HIDE DEF u
<1>2. Bounded(u, rd)
  BY <1>1 DEF Keeps, Bounded
<1>3. SpansOK(u)
  <2>1. u.scripts = v.scripts /\ u.load = v.load /\ u.parked = v.parked
    BY <1>1 DEF Keeps
  <2>2. \A i \in DOMAIN u.out : Honest(u.out[i])
    BY <1>1 DEF Keeps, SpansOK, Honest
  <2> QED
    BY <2>1, <2>2 DEF SpansOK
<1>4. Reload(u) = AskLoad(u)
  BY <1>1, ReloadAsks DEF Keeps
<1> QED
  BY <1>1, <1>2, <1>3, <1>4, AskLoadGood DEF u

LEMMA UpdateGood ==
    ASSUME NEW w, NEW rd, Good(w, rd), NEW req \in Request,
           Agrees(req.uri, req.version, req.text)
    PROVE  Good(Update(w, req), rd)
<1> DEFINE doc == [version |-> req.version, text |-> req.text,
                   entries |-> req.entries]
           docs == [w.scripts.documents EXCEPT ![req.uri] = doc]
           crossing == w.crossed \ {req.uri}
           v == Reregistered(w, docs, crossing)
<1>1. /\ WorkerOK(w) /\ InTransit(rd) /\ LoadsOK(w, rd)
      /\ RegistrationsAgree(w.scripts.documents)
      /\ w.scripts.documents \in Registrations /\ crossing \in SUBSET Files
  BY DEF Good, WorkerOK, WorkerRecord, Scripts, SpansOK
<1>2. doc \in Registered /\ req.uri \in Files
  BY DEF Request, Registered
<1>3. docs \in Registrations
  BY <1>1, <1>2 DEF Registrations
<1>4. RegistrationsAgree(docs)
  BY <1>1, <1>2 DEF RegistrationsAgree, Registrations
<1>5. Update(w, req) = IF IsKnown(w.scripts.documents[req.uri], req) THEN w
                       ELSE IF EntriesOf(docs) = w.scripts.entries
                       THEN Reload(v) ELSE Reload(SetPending(v))
  BY DEF Update, Reregistered
<1> HIDE DEF docs, crossing
<1>6. /\ WorkerOK(v) /\ Bounded(v, rd) /\ SpansOK(v)
      /\ v.scripts.sources = w.scripts.sources
      /\ v.scripts.loading = w.scripts.loading
      /\ v.scripts.entries = EntriesOf(docs)
      /\ ~w.scripts.loading /\ EntriesOf(docs) = w.scripts.entries => Good(v, rd)
  BY <1>1, <1>3, <1>4, ReregisteredGood
<1> HIDE DEF v
<1>7. CASE EntriesOf(docs) = w.scripts.entries
  <2>1. Reload(v) = AskLoad(v) \/ (Reload(v) = v /\ ~v.scripts.loading)
    BY DEF Reload
  <2>2. Good(Reload(v), rd)
    BY <1>1, <1>6, <1>7, <2>1, AskLoadGood
  <2> QED
    BY <1>5, <1>7, <2>2
<1>8. CASE EntriesOf(docs) # w.scripts.entries
  <2>1. \/ v.scripts.entries # {} \/ v.scripts.sources # {}
        \/ v.scripts.loading
    BY <1>1, <1>6, <1>8 DEF LoadsOK
  <2> QED
    BY <1>1, <1>5, <1>6, <1>8, <2>1, PendingReloadGood
<1> QED
  BY <1>7, <1>8

LEMMA ClosedOrChangedGood ==
    ASSUME NEW w, NEW rd, Good(w, rd), NEW f \in Files
    PROVE  Good(ClosedOrChanged(w, f), rd)
<1> DEFINE docs == [w.scripts.documents EXCEPT ![f] = None]
           closed == w.scripts.documents[f] # None
           crossing == IF closed /\ documents[f] # None
                       THEN w.crossed \cup {f} ELSE w.crossed
           v == Reregistered(w, docs, crossing)
           noted == IF w.scripts.loading THEN w.missed \cup {f} ELSE w.missed
           u == [w EXCEPT !.missed = noted]
<1>1. /\ WorkerOK(w) /\ InTransit(rd) /\ LoadsOK(w, rd)
      /\ RegistrationsAgree(w.scripts.documents)
      /\ w.scripts.documents \in Registrations /\ w.scripts.entries \in SUBSET Files
      /\ w \in WorkerRecord /\ IsFiniteSet(w.jobs)
      /\ w.crossed \in SUBSET Files /\ w.missed \in SUBSET Files
  BY DEF Good, WorkerOK, WorkerRecord, Scripts, SpansOK
<1>2. docs \in Registrations /\ crossing \in SUBSET Files /\ noted \in SUBSET Files
  BY <1>1 DEF Registrations
<1>3. RegistrationsAgree(docs)
  BY <1>1 DEF RegistrationsAgree, Registrations
<1>4. ClosedOrChanged(w, f) =
        IF ~closed /\ f \notin w.scripts.sources THEN u
        ELSE IF \/ w.scripts.loading \/ w.scripts.sources # {}
                \/ EntriesOf(docs) # {}
        THEN Reload(SetPending(v)) ELSE v
  BY DEF ClosedOrChanged, Reregistered
<1> HIDE DEF docs, closed, crossing, noted
<1>5. /\ WorkerOK(v) /\ Bounded(v, rd) /\ SpansOK(v)
      /\ v.scripts.sources = w.scripts.sources
      /\ v.scripts.loading = w.scripts.loading
      /\ v.scripts.entries = EntriesOf(docs)
      /\ ~w.scripts.loading /\ EntriesOf(docs) = w.scripts.entries => Good(v, rd)
  BY <1>2, <1>3, ReregisteredGood
<1>6. Good(u, rd)
  <2>1. u \in WorkerRecord /\ u.jobs = w.jobs
    BY <1>1, <1>2 DEF WorkerRecord
  <2>2. /\ u.scripts = w.scripts /\ u.load = w.load /\ u.parked = w.parked
        /\ u.package = w.package /\ u.published = w.published
        /\ u.files = w.files /\ u.out = w.out
    BY <1>1 DEF WorkerRecord
  <2> HIDE DEF u
  <2>3. WorkerOK(u) /\ Keeps(u, w)
    BY <1>1, <2>1, <2>2 DEF WorkerOK, Keeps
  <2> QED
    BY <2>2, <2>3, KeepsGood
<1> HIDE DEF u, v
<1>7. CASE \/ w.scripts.loading \/ w.scripts.sources # {}
           \/ EntriesOf(docs) # {}
  <2>1. Good(Reload(SetPending(v)), rd)
    BY <1>1, <1>5, <1>7, PendingReloadGood
  <2> QED
    BY <1>4, <1>6, <1>7, <2>1
<1>8. CASE ~(\/ w.scripts.loading \/ w.scripts.sources # {}
             \/ EntriesOf(docs) # {})
  <2>1. w.scripts.entries = {}
    BY <1>1, <1>8 DEF LoadsOK
  <2>2. Good(v, rd)
    BY <1>5, <1>8, <2>1
  <2> QED
    BY <1>4, <1>6, <1>8, <2>2
<1> QED
  BY <1>7, <1>8

-----------------------------------------------------------------------------
(* Publishing and installing.                                              *)

LEMMA GraphDiagnosticsType ==
    ASSUME NEW w, WorkerOK(w)
    PROVE  /\ GraphDiagnostics(w) \in [Files -> SUBSET Finding]
           /\ \A f \in Files : \A p \in GraphDiagnostics(w)[f] :
                p.text # None => p \in w.scripts.diagnostics[f]
<1>1. /\ w.package \in [Files -> SUBSET PackageFinding]
      /\ w.scripts.diagnostics \in [Files -> SUBSET Finding]
  BY DEF WorkerOK, WorkerRecord, Scripts
<1>2. PackageFinding \subseteq Finding /\ \A p \in PackageFinding : p.text = None
  BY DEF PackageFinding, Finding
<1> QED
  BY <1>1, <1>2 DEF GraphDiagnostics

LEMMA DiagnosticSourceType ==
    ASSUME NEW w, WorkerOK(w), NEW f \in Files
    PROVE  /\ DiagnosticSource(w, f) \in Nat \cup {None, Package}
           /\ f \in w.scripts.sources =>
                /\ DiagnosticSource(w, f) = w.scripts.versions[f]
                /\ DiagnosticSource(w, f) # Package
BY NoneAssumption DEF DiagnosticSource, WorkerOK, WorkerRecord, Scripts

LEMMA MessageHonest ==
    ASSUME NEW w, WorkerOK(w), SpansOK(w), NEW f \in Files
    PROVE  LET m == ProjectDiagnostics(f, GraphDiagnostics(w)[f],
                                       DiagnosticSource(w, f))
           IN m \in Outbound /\ Honest(m)
<1> DEFINE findings == GraphDiagnostics(w)[f]
           version == DiagnosticSource(w, f)
           m == ProjectDiagnostics(f, findings, version)
<1>1. /\ findings \in SUBSET Finding /\ version \in Nat \cup {None, Package}
      /\ \A p \in findings : p.text # None => p \in w.scripts.diagnostics[f]
      /\ f \in w.scripts.sources =>
           version = w.scripts.versions[f] /\ version # Package
  BY GraphDiagnosticsType, DiagnosticSourceType
<1> HIDE DEF findings, version
<1>2. m.uri = f /\ m.findings = findings /\ m.version = version
  BY DEF ProjectDiagnostics
<1>3. m \in Outbound
  BY <1>1 DEF ProjectDiagnostics, Outbound
<1>4. FindingsAgree(f, findings, version)
  <2> SUFFICES ASSUME NEW p \in findings, p.text # None
               PROVE  version # Package
                      /\ (version # None => Agrees(f, version, p.text))
    BY DEF FindingsAgree
  <2>1. p \in w.scripts.diagnostics[f] /\ f \in w.scripts.sources
    BY <1>1 DEF SpansOK
  <2> QED
    BY <1>1, <2>1 DEF SpansOK, FindingsAgree
<1> QED
  BY <1>2, <1>3, <1>4 DEF Honest, findings, version

LEMMA PublishAllHonest ==
    ASSUME NEW w, WorkerOK(w), SpansOK(w), NEW now \in SUBSET Files
    PROVE  /\ PublishAll(w, now) \in Seq(Outbound)
           /\ \A i \in DOMAIN PublishAll(w, now) : Honest(PublishAll(w, now)[i])
<1> DEFINE Say(f) == ProjectDiagnostics(f, GraphDiagnostics(w)[f],
                                        DiagnosticSource(w, f))
           Clear(f) == ProjectDiagnostics(f, {}, Package)
           files == SetToSeq(now)
           gone == SetToSeq(w.published \ now)
           n == Cardinality(now)
           k == Cardinality(w.published \ now)
           new == [i \in DOMAIN files |-> Say(files[i])]
           old == [i \in DOMAIN gone |-> Clear(gone[i])]
<1>1. w.published \in SUBSET Files
  BY DEF WorkerOK, WorkerRecord
<1>2. /\ n \in Nat /\ files \in [1..n -> now] /\ DOMAIN files = 1..n
      /\ k \in Nat /\ gone \in [1..k -> w.published \ now] /\ DOMAIN gone = 1..k
  BY <1>1, FilesFinite, SetToSeqLists
<1>3. \A f \in Files : Say(f) \in Outbound /\ Honest(Say(f))
  BY MessageHonest
<1>4. \A f \in Files : Clear(f) \in Outbound /\ Honest(Clear(f))
  BY DEF ProjectDiagnostics, Outbound, Honest, FindingsAgree
<1>5. PublishAll(w, now) = new \o old
  BY DEF PublishAll, PublishNew
<1> HIDE DEF Say, Clear, files, gone, n, k
<1>6. \A i \in 1..n : files[i] \in Files
  BY <1>2
<1>7. \A i \in 1..k : gone[i] \in Files
  BY <1>1, <1>2
<1>8. /\ new \in Seq(Outbound) /\ \A i \in DOMAIN new : Honest(new[i])
  <2>1. new \in [1..n -> Outbound]
    BY <1>2, <1>3, <1>6
  <2>2. \A i \in DOMAIN new : Honest(new[i])
    BY <1>2, <1>3, <1>6
  <2> QED
    BY <1>2, <2>1, <2>2, SeqFromFunction
<1>9. /\ old \in Seq(Outbound) /\ \A i \in DOMAIN old : Honest(old[i])
  <2>1. old \in [1..k -> Outbound]
    BY <1>2, <1>4, <1>7
  <2>2. \A i \in DOMAIN old : Honest(old[i])
    BY <1>2, <1>4, <1>7
  <2> QED
    BY <1>2, <2>1, <2>2, SeqFromFunction
<1> HIDE DEF new, old
<1> QED
  BY <1>5, <1>8, <1>9

LEMMA PublishGood ==
    ASSUME NEW w, NEW rd, Good(w, rd)
    PROVE  Good(PublishGraphDiagnostics(w), rd)
<1> DEFINE now == {f \in Files : GraphDiagnostics(w)[f] # {}}
           said == PublishAll(w, now)
           out == w.out \o said \o <<[kind |-> "refresh"]>>
           v == [w EXCEPT !.published = now, !.out = out]
<1>1. /\ WorkerOK(w) /\ SpansOK(w) /\ w \in WorkerRecord
      /\ IsFiniteSet(w.jobs) /\ w.out \in Seq(Outbound)
      /\ \A i \in DOMAIN w.out : Honest(w.out[i])
  BY DEF Good, WorkerOK, WorkerRecord, SpansOK
<1>2. said \in Seq(Outbound) /\ \A i \in DOMAIN said : Honest(said[i])
  <2>1. now \in SUBSET Files
    OBVIOUS
  <2> HIDE DEF now
  <2> QED
    BY <1>1, <2>1, PublishAllHonest
<1>3. PublishGraphDiagnostics(w) = v
  BY DEF PublishGraphDiagnostics
<1>4. now \in SUBSET Files
  OBVIOUS
<1> HIDE DEF now, said
<1>5. [kind |-> "refresh"] \in Outbound /\ Honest([kind |-> "refresh"])
  BY DEF Outbound, Honest
<1>6. out \in Seq(Outbound) /\ \A i \in DOMAIN out : Honest(out[i])
  <2> DEFINE last == [kind |-> "refresh"]
  <2>1. last \in Outbound /\ Honest(last)
    BY <1>5
  <2> HIDE DEF last
  <2>2. w.out \o said \in Seq(Outbound)
    BY <1>1, <1>2
  <2>3. \A i \in DOMAIN (w.out \o said) : Honest((w.out \o said)[i])
    BY <1>1, <1>2
  <2> DEFINE most == w.out \o said
  <2> HIDE DEF most
  <2>4. most \o <<last>> \in Seq(Outbound)
    BY <2>1, <2>2 DEF most
  <2>5. \A i \in DOMAIN (most \o <<last>>) : Honest((most \o <<last>>)[i])
    BY <2>1, <2>2, <2>3 DEF most
  <2> QED
    BY <2>4, <2>5 DEF most, last
<1> HIDE DEF out
<1>7. v \in WorkerRecord
  BY <1>1, <1>4, <1>6 DEF WorkerRecord
<1>8. /\ v.scripts = w.scripts /\ v.load = w.load /\ v.parked = w.parked
      /\ v.files = w.files /\ v.out = out /\ v.jobs = w.jobs
  BY <1>1 DEF WorkerRecord
<1> HIDE DEF v
<1>9. WorkerOK(v) /\ LoadsOK(v, rd) /\ OnItsWay(v, rd)
  <2>1. WorkerOK(v)
    BY <1>1, <1>7, <1>8 DEF WorkerOK
  <2>2. LoadsOK(v, rd)
    BY <1>8 DEF Good, LoadsOK, Numbered
  <2>3. OnItsWay(v, rd)
    BY <1>8 DEF Good, OnItsWay, IsCurrentIn
  <2> QED
    BY <2>1, <2>2, <2>3
<1>10. SpansOK(v)
  BY <1>1, <1>6, <1>8 DEF SpansOK
<1> QED
  BY <1>3, <1>9, <1>10 DEF Good

LEMMA SetScriptSourcesOK ==
    ASSUME NEW w, WorkerOK(w), NEW loaded \in Loaded
    PROVE  LET v == SetScriptSources(w, loaded)
           IN /\ WorkerOK(v) /\ Keeps(v, w)
              /\ v.files # None /\ ~v.files.pending
<1> DEFINE sources == {f \in Files : loaded.sources[f] # None}
           text == [f \in Files |->
                      IF w.scripts.documents[f] # None
                      THEN w.scripts.documents[f].text ELSE loaded.sources[f]]
           readable == {f \in sources : text[f] \in Texts}
           track == [f \in Files |->
                       IF f \in readable THEN text[f] ELSE w.tracked[f]]
           written == [w EXCEPT !.tracked = track]
           changes == \E f \in readable : w.tracked[f] \notin {text[f], None}
           base == IF changes THEN Cancel(written) ELSE written
           files == [readable |-> readable, failed |-> sources \ readable,
                     entries |-> loaded.job.entries, pending |-> FALSE]
<1>1. /\ w \in WorkerRecord /\ IsFiniteSet(w.jobs)
      /\ w.tracked \in [Files -> Texts \cup {None}]
  BY DEF WorkerOK, WorkerRecord
<1>2. loaded.job.entries \in SUBSET Files
  BY DEF Loaded, Load
<1>3. files \in ScriptFiles /\ files # None /\ ~files.pending
  <2>1. readable \in SUBSET Files /\ sources \ readable \in SUBSET Files
    OBVIOUS
  <2> HIDE DEF readable, sources
  <2>2. files \in ScriptFiles
    BY <1>2, <2>1 DEF ScriptFiles
  <2> QED
    BY <2>2, NoneAssumption
<1>4. track \in [Files -> Texts \cup {None}]
  BY <1>1
<1>5. SetScriptSources(w, loaded) = SetScriptFiles(base, files)
  BY DEF SetScriptSources
<1> HIDE DEF track, changes, files
<1>6. written \in WorkerRecord
  BY <1>1, <1>4 DEF WorkerRecord
<1>7. /\ written.scripts = w.scripts /\ written.load = w.load
      /\ written.parked = w.parked /\ written.package = w.package
      /\ written.published = w.published /\ written.out = w.out
      /\ written.jobs = w.jobs
  BY <1>1 DEF WorkerRecord
<1> HIDE DEF written
<1>8. WorkerOK(base) /\ Keeps(base, written)
  BY <1>1, <1>6, <1>7, CancelOK, CancelKeeps, KeepsItself DEF WorkerOK
<1> HIDE DEF base
<1> DEFINE v == SetScriptFiles(base, files)
<1>9. WorkerOK(v) /\ Keeps(v, base) /\ v.files = files
  BY <1>3, <1>8, SetScriptFilesOK
<1> HIDE DEF v
<1>10. Keeps(v, w)
  BY <1>7, <1>8, <1>9 DEF Keeps
<1> QED
  BY <1>3, <1>5, <1>9, <1>10 DEF v

LEMMA InstallGood ==
    ASSUME NEW w, NEW rd, NEW loaded \in Loaded,
           WorkerOK(w), InTransit(rd), LoadsOK(w, rd), SpansOK(w),
           Numbered(w, loaded.job), ReadsEntries(loaded), ReadAgrees(loaded),
           OnItsWay(w, rd) \/ IsCurrentIn(w, loaded.job)
    PROVE  Good(Install(w, loaded), rd)
<1>1. CASE loaded.job.generation # w.scripts.generation
  <2>1. OnItsWay(w, rd)
    BY <1>1 DEF IsCurrentIn
  <2> QED
    BY <1>1, <2>1 DEF Install, Good
<1>2. CASE loaded.job.generation = w.scripts.generation
  <2> DEFINE v == SetScriptSources(w, loaded)
             sources == {f \in Files : loaded.sources[f] # None}
             program == Program(loaded.job.entries, loaded.sources)
             found == FailedIncludes(loaded.sources)
             versions == VersionsOf(loaded.job.documents)
             s == [w.scripts EXCEPT !.loading = FALSE, !.sources = sources,
                                    !.program = program,
                                    !.diagnostics = found,
                                    !.versions = versions]
             u == [v EXCEPT !.scripts = s]
  <2>1. WorkerOK(v) /\ Keeps(v, w) /\ v.files # None /\ ~v.files.pending
    BY SetScriptSourcesOK
  <2>2. /\ loaded.sources \in Sources
        /\ loaded.job.entries \in SUBSET Files
        /\ loaded.job.documents \in Registrations
    BY DEF Loaded, Load
  <2>3. /\ found \in [Files -> SUBSET Finding]
        /\ \A f \in Files : \A p \in found[f] :
             loaded.sources[f] \in Texts /\ p.text = loaded.sources[f]
    BY <2>2, FailedIncludesType
  <2>4. program \in Programs
    BY <2>2, ProgramType
  <2>5. /\ versions \in [Files -> Nat \cup {None}]
        /\ \A f \in Files : versions[f] # None =>
             /\ versions[f] # Package
             /\ loaded.job.documents[f] # None
             /\ versions[f] = loaded.job.documents[f].version
    <3>1. versions \in [Files -> Nat \cup {None}]
      BY <2>2, VersionsOfType
    <3>2. \A f \in Files : versions[f] # Package
      BY <3>1, NoneAssumption
    <3> QED
      BY <3>1, <3>2 DEF VersionsOf
  <2>6. /\ sources \in SUBSET Files
        /\ \A f \in Files : f \in sources <=> loaded.sources[f] # None
    OBVIOUS
  <2>7. w.scripts \in Scripts
    BY DEF WorkerOK, WorkerRecord
  <2>8. Install(w, loaded) \in {u, PublishGraphDiagnostics(u)}
    <3>1. v.scripts = w.scripts
      BY <2>1 DEF Keeps
    <3>2. Install(w, loaded) = Installed(w, loaded)
      BY <1>2 DEF Install
    <3>3. Installed(w, loaded) = IF Changed(w, loaded)
                                 THEN PublishGraphDiagnostics(u) ELSE u
      BY <3>1 DEF Installed
    <3> QED
      BY <3>2, <3>3
  <2> HIDE DEF v, sources, program, found, versions
  <2>9. s \in Scripts
    BY <2>3, <2>4, <2>5, <2>6, <2>7 DEF Scripts
  <2>10. /\ s.generation = w.scripts.generation /\ ~s.loading
         /\ s.entries = w.scripts.entries
         /\ s.documents = w.scripts.documents
         /\ s.sources = sources /\ s.diagnostics = found
         /\ s.versions = versions
    BY <2>7 DEF Scripts
  <2> HIDE DEF s
  <2>11. u \in WorkerRecord
    BY <2>1, <2>9 DEF WorkerOK, WorkerRecord
  <2>12. /\ u.scripts = s /\ u.load = v.load /\ u.parked = v.parked
         /\ u.files = v.files /\ u.out = v.out /\ u.jobs = v.jobs
    BY <2>1 DEF WorkerOK, WorkerRecord
  <2> HIDE DEF u
  <2>13. WorkerOK(u)
    BY <2>1, <2>11, <2>12 DEF WorkerOK
  <2>14. LoadsOK(u, rd)
    <3>1. v.load = w.load /\ v.parked = w.parked
      BY <2>1 DEF Keeps
    <3>2. sources = {} => w.scripts.entries = {}
      BY <1>2, <2>2, <2>6 DEF Numbered, ReadsEntries
    <3> QED
      BY <2>1, <2>10, <2>12, <3>1, <3>2 DEF LoadsOK, Numbered
  <2>15. OnItsWay(u, rd)
    BY <2>10, <2>12 DEF OnItsWay
  <2>16. SpansOK(u)
    <3>1. v.load = w.load /\ v.parked = w.parked
      BY <2>1 DEF Keeps
    <3>2. \A i \in DOMAIN u.out : Honest(u.out[i])
      BY <2>1, <2>12 DEF Keeps, SpansOK, Honest
    <3>3. \A f \in Files : found[f] # {} => f \in sources
      BY <2>3, <2>6, NoneAssumption
    <3>4. \A f \in Files : FindingsAgree(f, found[f], versions[f])
      <4> SUFFICES ASSUME NEW f \in Files, NEW p \in found[f],
                          versions[f] # None
                   PROVE  versions[f] # Package /\ Agrees(f, versions[f], p.text)
        BY <2>3, <2>5, NoneAssumption DEF FindingsAgree
      <4>1. loaded.sources[f] \in Texts /\ p.text = loaded.sources[f]
        BY <2>3
      <4>2. /\ versions[f] # Package /\ loaded.job.documents[f] # None
            /\ versions[f] = loaded.job.documents[f].version
        BY <2>5
      <4>3. p.text = loaded.job.documents[f].text
        BY <4>1, <4>2, NoneAssumption DEF ReadAgrees
      <4> QED
        BY <4>2, <4>3 DEF ReadAgrees, RegistrationsAgree
    <3> QED
      BY <2>10, <2>12, <3>1, <3>2, <3>3, <3>4 DEF SpansOK
  <2>17. Good(u, rd)
    BY <2>13, <2>14, <2>15, <2>16 DEF Good
  <2> QED
    BY <2>8, <2>17, PublishGood
<1> QED
  BY <1>1, <1>2

-----------------------------------------------------------------------------
(* Dispatching.                                                            *)

LEMMA UnparkGood ==
    ASSUME NEW w, NEW rd, Good(w, rd)
    PROVE  Good(Unpark(w), rd)
<1>1. CASE w.inflight = None /\ w.parked # None
  <2> DEFINE l == w.parked
             v == [w EXCEPT !.parked = None]
  <2>1. /\ w \in WorkerRecord /\ IsFiniteSet(w.jobs) /\ l \in Loaded
    BY <1>1 DEF Good, WorkerOK, WorkerRecord
  <2>2. v \in WorkerRecord
    BY <2>1 DEF WorkerRecord
  <2>3. /\ v.scripts = w.scripts /\ v.load = w.load /\ v.parked = None
        /\ v.files = w.files /\ v.out = w.out /\ v.jobs = w.jobs
    BY <2>1 DEF WorkerRecord
  <2>4. Unpark(w) = Install(v, l)
    BY <1>1 DEF Unpark
  <2> HIDE DEF v
  <2>5. /\ Numbered(v, l.job) /\ ReadsEntries(l) /\ ReadAgrees(l)
    BY <1>1, <2>3 DEF Good, LoadsOK, SpansOK, Numbered
  <2>6. LoadsOK(v, rd)
    BY <2>3 DEF Good, LoadsOK, Numbered
  <2>7. SpansOK(v)
    BY <2>3 DEF Good, SpansOK
  <2>8. OnItsWay(v, rd) \/ IsCurrentIn(v, l.job)
    BY <2>3 DEF Good, OnItsWay, IsCurrentIn
  <2>9. WorkerOK(v) /\ InTransit(rd)
    BY <2>1, <2>2, <2>3 DEF Good, WorkerOK
  <2> HIDE DEF l
  <2> QED
    BY <2>1, <2>4, <2>5, <2>6, <2>7, <2>8, <2>9, InstallGood
<1>2. CASE ~(w.inflight = None /\ w.parked # None)
  BY <1>2 DEF Unpark
<1> QED
  BY <1>1, <1>2

LEMMA StartGood ==
    ASSUME NEW w, NEW rd, Good(w, rd), NEW f \in Files, w.pending[f] # None
    PROVE  Good(Start(w, f), rd)
<1> DEFINE req == w.pending[f]
           v == Upsert(w, f, req.text)
           pnd == [v.pending EXCEPT ![f] = None]
           flight == [uri |-> f, version |-> req.version]
           job == [uri |-> f, version |-> req.version,
                   world |-> World(v, req.entries), phase |-> "running"]
           gone == v.orphaned \ {f}
           js == v.jobs \cup {job}
           u == [v EXCEPT !.pending = pnd, !.inflight = flight,
                          !.orphaned = gone, !.jobs = js]
<1>1. req \in Request /\ req.text \in Texts
  BY DEF Good, WorkerOK, WorkerRecord, Request
<1>2. WorkerOK(v) /\ Keeps(v, w) /\ v.files = w.files
  BY <1>1, UpsertOK DEF Good
<1>3. req.entries \in SUBSET Files /\ req.version \in Nat
  BY <1>1 DEF Request
<1>4. Start(w, f) = u
  <2>1. Start(w, f) = [v EXCEPT !.pending[f] = None, !.inflight = flight,
                                !.orphaned = @ \ {f}, !.jobs = @ \cup {job}]
    BY DEF Start
  <2> HIDE DEF req, v, flight, job
  <2> QED
    BY <1>2, <2>1 DEF WorkerOK, WorkerRecord
<1> HIDE DEF req, v
<1>5. job \in Job
  <2>1. World(v, req.entries) \in Worlds
    BY <1>2, <1>3, WorldType
  <2> QED
    BY <1>3, <2>1 DEF Job
<1>6. flight \in Flight
  BY <1>3 DEF Flight
<1>7. /\ v \in WorkerRecord /\ IsFiniteSet(v.jobs) /\ v.jobs \in SUBSET Job
      /\ v.pending \in [Files -> Request \cup {None}]
      /\ v.orphaned \in SUBSET Files
  BY <1>2 DEF WorkerOK, WorkerRecord
<1> HIDE DEF job, flight
<1>8. js \in SUBSET Job /\ IsFiniteSet(js)
  BY <1>5, <1>7, FS_AddElement
<1>9. pnd \in [Files -> Request \cup {None}] /\ gone \in SUBSET Files
  BY <1>7
<1> HIDE DEF js, pnd, gone
<1>10. u \in WorkerRecord
  BY <1>6, <1>7, <1>8, <1>9 DEF WorkerRecord
<1>11. /\ u.scripts = v.scripts /\ u.load = v.load /\ u.parked = v.parked
       /\ u.package = v.package /\ u.published = v.published
       /\ u.files = v.files /\ u.out = v.out /\ u.jobs = js
  BY <1>7 DEF WorkerRecord
<1> HIDE DEF u
<1>12. WorkerOK(u) /\ Keeps(u, w) /\ u.files = w.files
  BY <1>2, <1>8, <1>10, <1>11 DEF WorkerOK, Keeps
<1> QED
  BY <1>4, <1>12, KeepsGood

LEMMA TryDispatchGood ==
    ASSUME NEW w, NEW rd, Good(w, rd), NEW x \in TryDispatch(w)
    PROVE  Good(x, rd)
<1> DEFINE v == Unpark(w)
           c == Cancel(v)
           free == [c EXCEPT !.inflight = None]
           base == IF v.inflight = None THEN v ELSE free
<1>1. Good(v, rd)
  BY UnparkGood
<1>2. x \in Dispatch(v)
  BY DEF TryDispatch
<1> HIDE DEF v
<1>3. /\ WorkerOK(c) /\ Keeps(c, v) /\ c.files = v.files /\ c.pending = v.pending
  BY <1>1, CancelOK, CancelKeeps DEF Good
<1>4. \/ x = v
      \/ \E f \in Files : v.pending[f] # None /\ x = Start(base, f)
  BY <1>2 DEF Dispatch, Decide
<1> HIDE DEF c
<1>5. Good(free, rd) /\ free.pending = v.pending
  <2>1. c \in WorkerRecord /\ IsFiniteSet(c.jobs)
    BY <1>3 DEF WorkerOK
  <2>2. free \in WorkerRecord /\ free.jobs = c.jobs
    BY <2>1 DEF WorkerRecord
  <2>3. /\ free.scripts = c.scripts /\ free.load = c.load
        /\ free.parked = c.parked /\ free.package = c.package
        /\ free.published = c.published /\ free.files = c.files
        /\ free.out = c.out /\ free.pending = c.pending
    BY <2>1 DEF WorkerRecord
  <2> HIDE DEF free
  <2>4. WorkerOK(free) /\ Keeps(free, v) /\ free.files = v.files
    BY <1>3, <2>1, <2>2, <2>3 DEF WorkerOK, Keeps
  <2> QED
    BY <1>1, <1>3, <2>3, <2>4, KeepsGood
<1> HIDE DEF free
<1>6. Good(base, rd) /\ base.pending = v.pending
  BY <1>1, <1>5
<1> HIDE DEF base
<1>7. ASSUME NEW f \in Files, v.pending[f] # None
      PROVE  Good(Start(base, f), rd)
  BY <1>6, <1>7, StartGood
<1> QED
  BY <1>1, <1>4, <1>7

LEMMA EnqueueGood ==
    ASSUME NEW w, NEW rd, Good(w, rd), NEW req \in Request,
           Agrees(req.uri, req.version, req.text)
    PROVE  Good(Enqueue(w, req), rd)
<1> DEFINE v == Update(w, req)
           pnd == [v.pending EXCEPT ![req.uri] = Newest(@, req)]
           u == [v EXCEPT !.pending = pnd]
<1>1. Good(v, rd)
  BY UpdateGood
<1>2. Enqueue(w, req) = [v EXCEPT !.pending[req.uri] = Newest(@, req)]
  BY DEF Enqueue
<1> HIDE DEF v
<1>3. /\ v \in WorkerRecord /\ IsFiniteSet(v.jobs)
      /\ v.pending \in [Files -> Request \cup {None}] /\ req.uri \in Files
  BY <1>1 DEF Good, WorkerOK, WorkerRecord, Request
<1>4. Enqueue(w, req) = u
  BY <1>2, <1>3 DEF WorkerRecord
<1>5. pnd \in [Files -> Request \cup {None}]
  BY <1>3, NewestType
<1> HIDE DEF pnd
<1>6. u \in WorkerRecord
  BY <1>3, <1>5 DEF WorkerRecord
<1>7. /\ u.scripts = v.scripts /\ u.load = v.load /\ u.parked = v.parked
      /\ u.package = v.package /\ u.published = v.published
      /\ u.files = v.files /\ u.out = v.out /\ u.jobs = v.jobs
  BY <1>3 DEF WorkerRecord
<1> HIDE DEF u
<1>8. WorkerOK(u) /\ Keeps(u, v)
  BY <1>3, <1>6, <1>7 DEF WorkerOK, Keeps
<1> QED
  BY <1>1, <1>4, <1>7, <1>8, KeepsGood

LEMMA OnSyncGood ==
    ASSUME NEW w, NEW rd, Good(w, rd), NEW f \in Files,
           disk \in [Files -> Texts \cup {Unreadable}]
    PROVE  Good(OnSync(w, f), rd)
<1> DEFINE pnd == [w.pending EXCEPT ![f] = None]
           gone == IF w.pending[f] # None THEN w.orphaned \cup {f} ELSE w.orphaned
           u == [w EXCEPT !.pending = pnd, !.orphaned = gone]
           v == Revert(u, f)
<1>1. /\ w \in WorkerRecord /\ IsFiniteSet(w.jobs)
      /\ w.pending \in [Files -> Request \cup {None}]
      /\ w.orphaned \in SUBSET Files
  BY DEF Good, WorkerOK, WorkerRecord
<1>2. DropQueued(w, f) = u
  BY <1>1 DEF DropQueued, WorkerRecord
<1>3. pnd \in [Files -> Request \cup {None}] /\ gone \in SUBSET Files
  BY <1>1
<1>4. OnSync(w, f) = ClosedOrChanged(v, f)
  BY <1>2 DEF OnSync
<1> HIDE DEF pnd, gone
<1>5. u \in WorkerRecord
  BY <1>1, <1>3 DEF WorkerRecord
<1>6. /\ u.scripts = w.scripts /\ u.load = w.load /\ u.parked = w.parked
      /\ u.package = w.package /\ u.published = w.published
      /\ u.files = w.files /\ u.out = w.out /\ u.jobs = w.jobs
  BY <1>1 DEF WorkerRecord
<1> HIDE DEF u
<1>7. WorkerOK(u) /\ Keeps(u, w)
  BY <1>1, <1>5, <1>6 DEF WorkerOK, Keeps
<1>8. Good(u, rd)
  BY <1>6, <1>7, KeepsGood
<1>9. Good(v, rd)
  <2>1. CASE u.tracked[f] = None \/ disk[f] = Unreadable
    BY <1>8, <2>1 DEF Revert
  <2>2. CASE ~(u.tracked[f] = None \/ disk[f] = Unreadable)
    <3>1. v = Upsert(u, f, disk[f]) /\ disk[f] \in Texts
      BY <2>2 DEF Revert
    <3> HIDE DEF v
    <3>2. WorkerOK(v) /\ Keeps(v, u) /\ v.files = u.files
      BY <1>7, <3>1, UpsertOK
    <3> QED
      BY <1>8, <3>2, KeepsGood
  <2> QED
    BY <2>1, <2>2
<1> QED
  BY <1>4, <1>9, ClosedOrChangedGood

-----------------------------------------------------------------------------
(* The inductive invariant: types; what the analysis thread knows of the   *)
(* loads; what the loader has read; and that whatever travels with a       *)
(* version agrees with the buffer of that version.                         *)

LoadInv == Good(Worker("linting"), ready)
LoaderInv ==
    loader # None =>
        \A f \in loader.job.entries :
            f \in loader.todo \/ loader.sources[f] # None
TextsInv ==
    /\ \A f \in Files : documents[f] # None => documents[f].version <= lastVersion[f]
    /\ \A i \in DOMAIN analysis_rx :
         Agrees(analysis_rx[i].uri, analysis_rx[i].version, analysis_rx[i].text)
    /\ loader # None => ReadAgrees(loader)
    /\ \A i \in DOMAIN ready : ReadAgrees(ready[i])
    /\ \A f \in Files : FindingsAgree(f, graph_diags[f], graph_versions[f])
    /\ SpansFitBuffer
IndInv == TypeOK /\ LoadInv /\ LoaderInv /\ TextsInv

LEMMA AnyStage ==
    ASSUME IndInv, NEW stage \in {"parsing", "linting"}
    PROVE  Good(Worker(stage), ready)
<1> DEFINE w == Worker("linting")
           v == Worker(stage)
<1>1. /\ v.scripts = w.scripts /\ v.load = w.load /\ v.parked = w.parked
      /\ v.package = w.package /\ v.published = w.published
      /\ v.files = w.files /\ v.out = w.out
  BY DEF Worker
<1>2. WorkerOK(v) /\ Good(w, ready)
  BY WorkerTyped DEF IndInv, LoadInv
<1> HIDE DEF v, w
<1>3. Keeps(v, w)
  BY <1>1 DEF Keeps
<1> QED
  BY <1>1, <1>2, <1>3, KeepsGood DEF v

(* An arm of the analysis thread commits a good record.                    *)
LEMMA CommitGood ==
    ASSUME NEW w, NEW rd, Good(w, rd), Commit(w), ready' = rd,
           UNCHANGED <<loader, panicked, documents, lastVersion>>
    PROVE  LoadInv' /\ WorkerTypes'
<1>1. WorkerTypes' /\ WorkerOK(Worker("linting"))'
  <2>1. WorkerTypes'
    BY CommitTyped DEF Good
  <2> QED
    BY <2>1 DEF WorkerTypes, WorkerOK, WorkerRecord, Worker
<1>2. /\ scripts' = w.scripts /\ load_rx' = w.load
      /\ pending_script_load' = w.parked /\ script_files' = w.files
      /\ out_rx' = w.out
  BY DEF Commit
<1>3. InTransit(ready)'
  BY DEF Good, InTransit, ReadsEntries
<1>4. LoadsOK(Worker("linting"), ready)'
  BY <1>2 DEF Good, LoadsOK, Numbered, ReadsEntries, Worker
<1>5. OnItsWay(Worker("linting"), ready)'
  BY <1>2 DEF Good, OnItsWay, IsCurrentIn, Worker
<1>6. SpansOK(Worker("linting"))'
  <2>1. \A f, v, t : Agrees(f, v, t)' <=> Agrees(f, v, t)
    BY DEF Agrees
  <2>2. \A docs : RegistrationsAgree(docs)' <=> RegistrationsAgree(docs)
    BY <2>1 DEF RegistrationsAgree
  <2>3. \A l : ReadAgrees(l)' <=> ReadAgrees(l)
    BY <2>2 DEF ReadAgrees
  <2>4. \A f, ps, v : FindingsAgree(f, ps, v)' <=> FindingsAgree(f, ps, v)
    BY <2>1 DEF FindingsAgree
  <2>5. \A m : Honest(m)' <=> Honest(m)
    BY <2>4 DEF Honest
  <2>6. SpansOK(w)'
    BY <2>2, <2>3, <2>4, <2>5 DEF Good, SpansOK
  <2>7. SpansOK(w)' => SpansOK(Worker("linting"))'
    BY <1>2 DEF SpansOK, Worker
  <2> QED
    BY <2>6, <2>7
<1> QED
  BY <1>1, <1>3, <1>4, <1>5, <1>6 DEF LoadInv, Good

(* A step of another thread: what agreed with a version still does.        *)
AgreesStep ==
    \A f \in Files : \A v \in Nat : \A t : Agrees(f, v, t) => Agrees(f, v, t)'
loadVars == <<scripts, load_rx, pending_script_load, script_files, loader>>

LEMMA RegistrationsKept ==
    ASSUME AgreesStep, NEW docs \in Registrations, RegistrationsAgree(docs)
    PROVE  RegistrationsAgree(docs)'
BY DEF AgreesStep, RegistrationsAgree, Registrations, Registered

LEMMA ReadKept ==
    ASSUME AgreesStep, NEW l, l.job \in Load, ReadAgrees(l)
    PROVE  ReadAgrees(l)'
BY RegistrationsKept DEF ReadAgrees, Load

LEMMA FindingsKept ==
    ASSUME AgreesStep, NEW f \in Files, NEW ps,
           NEW v \in Nat \cup {None, Package}, FindingsAgree(f, ps, v)
    PROVE  FindingsAgree(f, ps, v)'
BY DEF AgreesStep, FindingsAgree

LEMMA HonestKept ==
    ASSUME AgreesStep, NEW m \in Outbound, Honest(m)
    PROVE  Honest(m)'
BY FindingsKept DEF Honest, Outbound

LEMMA SpansKept ==
    ASSUME AgreesStep, NEW w, WorkerOK(w), SpansOK(w)
    PROVE  SpansOK(w)'
<1>1. /\ w.scripts.documents \in Registrations
      /\ w.scripts.versions \in [Files -> Nat \cup {None}]
      /\ w.load \in Seq(Load) /\ w.parked \in Loaded \cup {None}
      /\ w.out \in Seq(Outbound)
  BY DEF WorkerOK, WorkerRecord, Scripts
<1>2. RegistrationsAgree(w.scripts.documents)'
  BY <1>1, RegistrationsKept DEF SpansOK
<1>3. \A i \in DOMAIN w.load : RegistrationsAgree(w.load[i].documents)'
  <2>1. \A i \in DOMAIN w.load : w.load[i] \in Load
    BY <1>1
  <2>2. \A job \in Load : job.documents \in Registrations
    BY DEF Load
  <2> QED
    BY <2>1, <2>2, RegistrationsKept DEF SpansOK
<1>4. w.parked # None => ReadAgrees(w.parked)'
  BY <1>1, ReadKept DEF SpansOK, Loaded
<1>5. \A f \in Files :
        FindingsAgree(f, w.scripts.diagnostics[f], w.scripts.versions[f])'
  BY <1>1, FindingsKept DEF SpansOK
<1>6. \A i \in DOMAIN w.out : Honest(w.out[i])'
  <2>1. \A i \in DOMAIN w.out : w.out[i] \in Outbound
    BY <1>1
  <2> QED
    BY <2>1, HonestKept DEF SpansOK
<1> QED
  BY <1>2, <1>3, <1>4, <1>5, <1>6 DEF SpansOK

LEMMA LoadInvKept ==
    ASSUME LoadInv, AgreesStep, WorkerTypes',
           UNCHANGED <<loadVars, ready>>, panicked' \/ panicked' = panicked,
           \A i \in DOMAIN out_rx' : out_rx'[i].kind = "project" =>
             \E k \in DOMAIN out_rx : out_rx[k] = out_rx'[i]
    PROVE  LoadInv'
<1> SUFFICES ASSUME NEW w, w = Worker("linting") PROVE LoadInv'
  OBVIOUS
<1>1. /\ scripts = w.scripts /\ load_rx = w.load
      /\ pending_script_load = w.parked /\ script_files = w.files
      /\ out_rx = w.out
  BY DEF Worker
<1>2. Good(w, ready)
  BY DEF LoadInv
<1>3. WorkerOK(Worker("linting"))'
  BY DEF WorkerTypes, WorkerOK, WorkerRecord, Worker
<1>4. InTransit(ready)'
  BY <1>2 DEF Good, InTransit, ReadsEntries, loadVars
<1>5. LoadsOK(Worker("linting"), ready)'
  BY <1>1, <1>2 DEF Good, LoadsOK, Numbered, ReadsEntries, Worker, loadVars
<1>6. OnItsWay(Worker("linting"), ready)'
  BY <1>1, <1>2 DEF Good, OnItsWay, IsCurrentIn, Worker, loadVars
<1>7. SpansOK(w)'
  BY <1>2, SpansKept DEF Good
<1>8. PICK q : q = out_rx'
  OBVIOUS
<1>9. \A i \in DOMAIN q : Honest(q[i])'
  <2> SUFFICES ASSUME NEW i \in DOMAIN q PROVE Honest(q[i])'
    OBVIOUS
  <2>1. CASE q[i].kind # "project"
    BY <2>1 DEF Honest
  <2>2. CASE q[i].kind = "project"
    <3>1. PICK k \in DOMAIN out_rx : out_rx[k] = q[i]
      BY <1>8, <2>2
    <3>2. k \in DOMAIN w.out /\ w.out[k] = q[i]
      BY <1>1, <3>1
    <3> QED
      BY <1>7, <3>2 DEF SpansOK
  <2> QED
    BY <2>1, <2>2
<1>10. SpansOK(Worker("linting"))'
  <2>1. /\ RegistrationsAgree(scripts.documents)'
        /\ \A f \in Files :
             /\ FindingsAgree(f, scripts.diagnostics[f], scripts.versions[f])'
             /\ (scripts.diagnostics[f] # {} => f \in scripts.sources)'
    BY <1>1, <1>7 DEF SpansOK, loadVars
  <2>2. /\ \A i \in DOMAIN load_rx' : RegistrationsAgree(load_rx[i].documents)'
        /\ (pending_script_load # None => ReadAgrees(pending_script_load))'
    BY <1>1, <1>7 DEF SpansOK, loadVars
  <2>3. \A i \in DOMAIN out_rx' : Honest(out_rx[i])'
    BY <1>8, <1>9
  <2> QED
    BY <2>1, <2>2, <2>3 DEF SpansOK, Worker
<1> QED
  BY <1>3, <1>4, <1>5, <1>6, <1>10 DEF LoadInv, Good

-----------------------------------------------------------------------------
(* The main loop.                                                          *)

LEMMA AgreesUnchanged ==
    ASSUME UNCHANGED <<documents, lastVersion>>
    PROVE  AgreesStep
BY DEF AgreesStep, Agrees

RequestAgrees(req) == Agrees(req.uri, req.version, req.text)

(* What a step of the main loop does to the texts: versions only grow, new *)
(* requests carry current texts, what is shown fits.                       *)
LEMMA TextsKept ==
    ASSUME TypeOK, TextsInv, AgreesStep,
           UNCHANGED <<graph_diags, graph_versions, loader, ready>>,
           (\A f \in Files :
              documents[f] # None => documents[f].version <= lastVersion[f])',
           NEW q, q = analysis_rx', \A i \in DOMAIN q : RequestAgrees(q[i])',
           SpansFitBuffer'
    PROVE  TextsInv'
<1>1. (loader # None => ReadAgrees(loader))'
  BY ReadKept DEF TextsInv, TypeOK, ChannelTypes, Reading
<1>2. (\A i \in DOMAIN ready : ReadAgrees(ready[i]))'
  <2>1. \A i \in DOMAIN ready : ready[i].job \in Load
    <3>1. ready \in Seq(Loaded)
      BY DEF TypeOK, ChannelTypes
    <3>2. \A l \in Loaded : l.job \in Load
      BY DEF Loaded
    <3> QED
      BY <3>1, <3>2
  <2>2. \A l : l.job \in Load /\ ReadAgrees(l) => ReadAgrees(l)'
    BY ReadKept
  <2>3. \A i \in DOMAIN ready : ReadAgrees(ready[i])
    BY DEF TextsInv
  <2> QED
    BY <2>1, <2>2, <2>3
<1>3. (\A f \in Files : FindingsAgree(f, graph_diags[f], graph_versions[f]))'
  BY FindingsKept DEF TextsInv, TypeOK, MainTypes
<1>4. (\A i \in DOMAIN analysis_rx :
         Agrees(analysis_rx[i].uri, analysis_rx[i].version, analysis_rx[i].text))'
  BY DEF RequestAgrees
<1> QED
  BY <1>1, <1>2, <1>3, <1>4 DEF TextsInv

LEMMA RequestsKept ==
    ASSUME TypeOK, TextsInv, AgreesStep
    PROVE  \A i \in DOMAIN analysis_rx : RequestAgrees(analysis_rx[i]) /\
             \A q : q = analysis_rx[i] => RequestAgrees(q)'
<1> SUFFICES ASSUME NEW i \in DOMAIN analysis_rx, NEW q, q = analysis_rx[i]
             PROVE  RequestAgrees(q) /\ RequestAgrees(q)'
  OBVIOUS
<1>1. q \in Request
  BY DEF TypeOK, ChannelTypes
<1>2. RequestAgrees(q)
  BY DEF TextsInv, RequestAgrees
<1> QED
  BY <1>1, <1>2 DEF RequestAgrees, AgreesStep, Request

LEMMA RequestForType ==
    ASSUME NEW f \in Files, NEW doc \in Document, NEW entries \in SUBSET Files
    PROVE  RequestFor(f, doc, entries) \in Request
BY DEF RequestFor, Document, Request

LEMMA RefreshOpenAgrees ==
    ASSUME TypeOK, TextsInv, NEW entries \in SUBSET Files
    PROVE  /\ RefreshOpen(entries) \in Seq(Request)
           /\ \A i \in DOMAIN RefreshOpen(entries) :
                RequestAgrees(RefreshOpen(entries)[i])
<1> DEFINE order == SetToSeq(OpenDocs)
           n == Cardinality(OpenDocs)
           r == [i \in DOMAIN order |->
                   RequestFor(order[i], documents[order[i]], entries)]
<1>1. OpenDocs \in SUBSET Files
  BY DEF OpenDocs
<1>2. n \in Nat /\ order \in [1..n -> OpenDocs] /\ DOMAIN order = 1..n
  BY <1>1, FilesFinite, SetToSeqLists
<1>3. RefreshOpen(entries) = r
  BY DEF RefreshOpen
<1> HIDE DEF order, n
<1>4. \A i \in 1..n : order[i] \in Files /\ documents[order[i]] \in Document
  BY <1>2 DEF OpenDocs, TypeOK, MainTypes
<1>5. r \in [1..n -> Request]
  BY <1>2, <1>4, RequestForType
<1>6. \A i \in 1..n : RequestAgrees(r[i])
  <2> SUFFICES ASSUME NEW i \in 1..n PROVE RequestAgrees(r[i])
    OBVIOUS
  <2>1. r[i] = RequestFor(order[i], documents[order[i]], entries)
    BY <1>2
  <2>2. /\ order[i] \in Files /\ documents[order[i]] # None
        /\ documents[order[i]].version <= lastVersion[order[i]]
    BY <1>2 DEF OpenDocs, TextsInv
  <2> HIDE DEF r
  <2> QED
    BY <2>1, <2>2 DEF RequestAgrees, Agrees, RequestFor
<1>7. r \in Seq(Request) /\ DOMAIN r = 1..n
  BY <1>2, <1>5, SeqFromFunction
<1> HIDE DEF r
<1> QED
  BY <1>3, <1>6, <1>7

LEMMA SpendTyped ==
    ASSUME TypeOK, NEW what \in {"edits", "closes", "configs", "rewrites",
                                 "harvests", "panics"}, Spend(what)
    PROVE  budget' \in Budget
<1>1. budget \in Budget /\ budget[what] > 0
      /\ budget' = [budget EXCEPT ![what] = @ - 1]
  BY DEF TypeOK, ChannelTypes, Spend
<1>2. CASE what = "edits"
  BY <1>1, <1>2 DEF Budget
<1>3. CASE what = "closes"
  BY <1>1, <1>3 DEF Budget
<1>4. CASE what = "configs"
  BY <1>1, <1>4 DEF Budget
<1>5. CASE what = "rewrites"
  BY <1>1, <1>5 DEF Budget
<1>6. CASE what = "harvests"
  BY <1>1, <1>6 DEF Budget
<1>7. CASE what = "panics"
  BY <1>1, <1>7 DEF Budget
<1> QED
  BY <1>2, <1>3, <1>4, <1>5, <1>6, <1>7

LEMMA SetDocumentInd ==
    ASSUME IndInv, NEW f \in Files, NEW t \in Buffers[f], SetDocument(f, t)
    PROVE  IndInv'
<1> DEFINE doc == [version |-> lastVersion[f] + 1, text |-> t]
           req == RequestFor(f, doc, entry_points)
<1>1. /\ lastVersion' = [lastVersion EXCEPT ![f] = @ + 1]
      /\ documents' = [documents EXCEPT ![f] = doc]
      /\ analysis_rx' = Append(analysis_rx, req)
      /\ UNCHANGED <<fileVars, graphVars, linted, sync_rx, load_rx, ready,
                     out_rx, loader, workerVars, jobs, historyVars>>
  BY DEF SetDocument
<1>2. lastVersion \in [Files -> Nat] /\ documents \in [Files -> Document \cup {None}]
      /\ t \in Texts /\ entry_points \in SUBSET Files
      /\ analysis_rx \in Seq(Request)
  BY TextsAssumption, EntriesAssumption
     DEF IndInv, TypeOK, MainTypes, ChannelTypes
<1>3. doc \in Document /\ lastVersion[f] + 1 \in Nat
  BY <1>2 DEF Document
<1>4. req \in Request
  BY <1>2, <1>3, RequestForType
<1>5. AgreesStep
  <2> SUFFICES ASSUME NEW g \in Files, NEW v \in Nat, NEW u, Agrees(g, v, u)
               PROVE  Agrees(g, v, u)'
    BY DEF AgreesStep
  <2>1. CASE g = f
    BY <1>1, <1>2, <2>1 DEF Agrees
  <2>2. CASE g # f
    BY <1>1, <1>2, <2>2 DEF Agrees
  <2> QED
    BY <2>1, <2>2
<1>6. TypeOK'
  <2>1. /\ lastVersion' \in [Files -> Nat]
        /\ documents' \in [Files -> Document \cup {None}]
    BY <1>1, <1>2, <1>3
  <2>2. budget' \in Budget
    BY SpendTyped DEF IndInv, SetDocument
  <2>3. MainTypes'
    BY <1>1, <2>1 DEF IndInv, TypeOK, MainTypes, fileVars, graphVars
  <2> HIDE DEF req
  <2>4. ChannelTypes'
    BY <1>1, <1>2, <1>4, <2>2
       DEF IndInv, TypeOK, ChannelTypes, workerVars, historyVars
  <2>5. WorkerTypes'
    BY <1>1 DEF IndInv, TypeOK, WorkerTypes, workerVars, historyVars
  <2> QED
    BY <2>3, <2>4, <2>5 DEF TypeOK
<1>7. LoadInv'
  BY <1>1, <1>5, <1>6, LoadInvKept
     DEF IndInv, TypeOK, workerVars, historyVars, loadVars
<1>8. LoaderInv'
  BY <1>1 DEF IndInv, LoaderInv
<1>9. (\A g \in Files :
         documents[g] # None => documents[g].version <= lastVersion[g])'
  <2> SUFFICES ASSUME NEW g \in Files, documents'[g] # None
               PROVE  documents'[g].version <= lastVersion'[g]
    OBVIOUS
  <2>1. CASE g = f
    BY <1>1, <1>2, <1>3, <2>1
  <2>2. CASE g # f
    BY <1>1, <1>2, <2>2 DEF IndInv, TextsInv
  <2> QED
    BY <2>1, <2>2
<1>10. PICK q : q = analysis_rx'
  OBVIOUS
<1>11. \A i \in DOMAIN q : RequestAgrees(q[i])'
  <2> SUFFICES ASSUME NEW i \in DOMAIN q PROVE RequestAgrees(q[i])'
    OBVIOUS
  <2> HIDE DEF req
  <2>1. \/ i \in DOMAIN analysis_rx /\ q[i] = analysis_rx[i]
        \/ q[i] = req
    BY <1>1, <1>2, <1>4, <1>10
  <2>2. CASE i \in DOMAIN analysis_rx /\ q[i] = analysis_rx[i]
    BY <1>5, <2>2, RequestsKept DEF IndInv
  <2>3. CASE q[i] = req
    <3>1. /\ q[i].uri = f /\ q[i].text = t
          /\ q[i].version = lastVersion[f] + 1
      BY <2>3 DEF req, RequestFor
    <3> QED
      BY <1>1, <1>2, <1>3, <3>1 DEF RequestAgrees, Agrees
  <2> QED
    BY <2>1, <2>2, <2>3
<1>12. SpansFitBuffer'
  BY <1>1 DEF IndInv, TextsInv, SpansFitBuffer, graphVars
<1>13. TextsInv'
  BY <1>1, <1>5, <1>9, <1>10, <1>11, <1>12, TextsKept DEF IndInv, graphVars
<1> QED
  BY <1>6, <1>7, <1>8, <1>13 DEF IndInv

(* No message to the main loop but some of those already sent.             *)
SaysNothingNew ==
    \A i \in DOMAIN out_rx' : out_rx'[i].kind = "project" =>
      \E k \in DOMAIN out_rx : out_rx[k] = out_rx'[i]

LEMMA OutTail ==
    ASSUME TypeOK, out_rx # <<>>, out_rx' = Tail(out_rx)
    PROVE  /\ SaysNothingNew /\ out_rx' \in Seq(Outbound)
           /\ Head(out_rx) \in Outbound /\ 1 \in DOMAIN out_rx
           /\ Head(out_rx) = out_rx[1]
<1>1. out_rx \in Seq(Outbound)
  BY DEF TypeOK, WorkerTypes
<1>2. \A i \in DOMAIN out_rx' : i + 1 \in DOMAIN out_rx /\ out_rx[i + 1] = out_rx'[i]
  BY <1>1
<1> QED
  BY <1>1, <1>2 DEF SaysNothingNew

(* A step that leaves the buffers and the accepted findings alone.         *)
LEMMA BuffersKept ==
    ASSUME IndInv, TypeOK', SaysNothingNew, SpansFitBuffer',
           UNCHANGED <<documents, lastVersion, graph_diags, graph_versions,
                       loadVars, ready>>,
           panicked' \/ panicked' = panicked,
           NEW q, q = analysis_rx', \A i \in DOMAIN q : RequestAgrees(q[i])
    PROVE  IndInv'
<1>1. AgreesStep
  BY AgreesUnchanged
<1>2. LoadInv'
  BY <1>1, LoadInvKept DEF IndInv, TypeOK, SaysNothingNew
<1>3. LoaderInv'
  BY DEF IndInv, LoaderInv, loadVars
<1>4. (\A f \in Files :
         documents[f] # None => documents[f].version <= lastVersion[f])'
  BY DEF IndInv, TextsInv
<1>5. \A i \in DOMAIN q : RequestAgrees(q[i])'
  BY DEF RequestAgrees, Agrees
<1>6. TextsInv'
  BY <1>1, <1>4, <1>5, TextsKept DEF IndInv, loadVars
<1> QED
  BY <1>2, <1>3, <1>6 DEF IndInv

LEMMA SameRequests ==
    ASSUME IndInv, UNCHANGED analysis_rx
    PROVE  \A i \in DOMAIN analysis_rx' : RequestAgrees(analysis_rx'[i])
BY DEF IndInv, TextsInv, RequestAgrees

LEMMA DidCloseInd ==
    ASSUME IndInv, NEW f \in Files, DidClose(f)
    PROVE  IndInv'
<1>1. /\ documents' = [documents EXCEPT ![f] = None]
      /\ sync_rx' = Append(sync_rx, f)
      /\ linted' = [linted EXCEPT ![f] = None]
      /\ shown' = [shown EXCEPT ![f] =
                      Merged(f, None, graph_diags[f], graph_versions[f])]
      /\ UNCHANGED <<fileVars, lastVersion, graph_diags, graph_versions,
                     analysis_rx, load_rx, ready, out_rx, loader, workerVars,
                     jobs, historyVars>>
  BY DEF DidClose
<1>2. /\ documents \in [Files -> Document \cup {None}]
      /\ shown \in [Files -> Shown] /\ linted \in [Files -> Worlds \cup {None}]
      /\ graph_diags \in [Files -> SUBSET Finding] /\ sync_rx \in Seq(Files)
  BY DEF IndInv, TypeOK, MainTypes, ChannelTypes
<1> DEFINE m == Merged(f, None, graph_diags[f], graph_versions[f])
<1>3. m \in Shown /\ m.text = None
  BY <1>2 DEF Merged, Shown
<1> HIDE DEF m
<1>4. AgreesStep
  <2> SUFFICES ASSUME NEW g \in Files, NEW v \in Nat, NEW u, Agrees(g, v, u)
               PROVE  Agrees(g, v, u)'
    BY DEF AgreesStep
  <2>1. CASE g = f
    BY <1>1, <1>2, <2>1 DEF Agrees
  <2>2. CASE g # f
    BY <1>1, <1>2, <2>2 DEF Agrees
  <2> QED
    BY <2>1, <2>2
<1>5. TypeOK'
  <2>1. /\ documents' \in [Files -> Document \cup {None}]
        /\ shown' \in [Files -> Shown]
        /\ linted' \in [Files -> Worlds \cup {None}]
    BY <1>1, <1>2, <1>3 DEF m
  <2>2. budget' \in Budget /\ sync_rx' \in Seq(Files)
    BY <1>1, <1>2, SpendTyped DEF IndInv, DidClose
  <2>3. MainTypes'
    BY <1>1, <2>1 DEF IndInv, TypeOK, MainTypes, fileVars
  <2>4. ChannelTypes'
    BY <1>1, <2>2 DEF IndInv, TypeOK, ChannelTypes, workerVars, historyVars
  <2>5. WorkerTypes'
    BY <1>1 DEF IndInv, TypeOK, WorkerTypes, workerVars, historyVars
  <2> QED
    BY <2>3, <2>4, <2>5 DEF TypeOK
<1>6. LoadInv'
  BY <1>1, <1>4, <1>5, LoadInvKept
     DEF IndInv, TypeOK, workerVars, historyVars, loadVars
<1>7. LoaderInv'
  BY <1>1 DEF IndInv, LoaderInv
<1>8. (\A g \in Files :
         documents[g] # None => documents[g].version <= lastVersion[g])'
  <2> SUFFICES ASSUME NEW g \in Files, documents'[g] # None
               PROVE  documents'[g].version <= lastVersion'[g]
    OBVIOUS
  <2>1. g # f /\ documents'[g] = documents[g]
    BY <1>1, <1>2
  <2> QED
    BY <1>1, <2>1 DEF IndInv, TextsInv
<1>9. PICK q : q = analysis_rx'
  OBVIOUS
<1>10. \A i \in DOMAIN q : RequestAgrees(q[i])'
  BY <1>1, <1>4, <1>9, RequestsKept DEF IndInv
<1>11. SpansFitBuffer'
  <2> SUFFICES ASSUME NEW g \in Files, NEW p \in shown'[g].findings,
                      p.text # None, shown'[g].text # None
               PROVE  p.text = shown'[g].text
    BY DEF SpansFitBuffer
  <2>1. g # f /\ shown'[g] = shown[g]
    BY <1>1, <1>2, <1>3 DEF m
  <2> QED
    BY <2>1 DEF IndInv, TextsInv, SpansFitBuffer
<1>12. TextsInv'
  BY <1>1, <1>4, <1>8, <1>9, <1>10, <1>11, TextsKept DEF IndInv
<1> QED
  BY <1>5, <1>6, <1>7, <1>12 DEF IndInv

LEMMA RewriteInd ==
    ASSUME IndInv, NEW f \in Files, NEW t \in Written, Rewrite(f, t)
    PROVE  IndInv'
<1>1. /\ disk' = [disk EXCEPT ![f] = t]
      /\ changedOnDisk' = changedOnDisk \cup {f}
      /\ UNCHANGED <<entry_points, mainVars, analysis_rx, sync_rx, load_rx,
                     ready, out_rx, loader, workerVars, jobs, historyVars>>
  BY DEF Rewrite
<1>2. TypeOK'
  <2>1. t \in Texts \cup {Unreadable}
    BY TextsAssumption
  <2>2. disk' \in [Files -> Texts \cup {Unreadable}] /\ changedOnDisk' \subseteq Files
    BY <1>1, <2>1 DEF IndInv, TypeOK, MainTypes
  <2>3. budget' \in Budget
    BY SpendTyped DEF IndInv, Rewrite
  <2>4. MainTypes'
    BY <1>1, <2>2 DEF IndInv, TypeOK, MainTypes, mainVars, graphVars
  <2>5. ChannelTypes'
    BY <1>1, <2>3 DEF IndInv, TypeOK, ChannelTypes, workerVars, historyVars
  <2>6. WorkerTypes'
    BY <1>1 DEF IndInv, TypeOK, WorkerTypes, workerVars, historyVars
  <2> QED
    BY <2>4, <2>5, <2>6 DEF TypeOK
<1>3. SpansFitBuffer' /\ SaysNothingNew
  BY <1>1 DEF IndInv, TextsInv, SpansFitBuffer, SaysNothingNew, mainVars, graphVars
<1>4. \A i \in DOMAIN analysis_rx' : RequestAgrees(analysis_rx'[i])
  BY <1>1, SameRequests
<1> QED
  BY <1>1, <1>2, <1>3, <1>4, BuffersKept
     DEF mainVars, graphVars, workerVars, historyVars, loadVars

(* The requests of all open buffers join the channel.                      *)
LEMMA RefreshAgrees ==
    ASSUME IndInv, NEW entries \in SUBSET Files,
           analysis_rx' = analysis_rx \o RefreshOpen(entries)
    PROVE  /\ analysis_rx' \in Seq(Request)
           /\ \A i \in DOMAIN analysis_rx' : RequestAgrees(analysis_rx'[i])
<1> DEFINE r == RefreshOpen(entries)
<1>1. r \in Seq(Request) /\ \A i \in DOMAIN r : RequestAgrees(r[i])
  BY RefreshOpenAgrees DEF IndInv
<1>2. /\ analysis_rx \in Seq(Request)
      /\ \A i \in DOMAIN analysis_rx : RequestAgrees(analysis_rx[i])
  BY DEF IndInv, TypeOK, ChannelTypes, TextsInv, RequestAgrees
<1> HIDE DEF r
<1> QED
  BY <1>1, <1>2 DEF r

LEMMA DidChangeWatchedFilesInd ==
    ASSUME IndInv, NEW f \in Files, NEW reshapes \in BOOLEAN,
           DidChangeWatchedFiles(f, reshapes)
    PROVE  IndInv'
<1>1. /\ changedOnDisk' = changedOnDisk \ {f}
      /\ sync_rx' = IF documents[f] = None THEN Append(sync_rx, f) ELSE sync_rx
      /\ UNCHANGED <<disk, entry_points, mainVars, load_rx, ready,
                     out_rx, loader, workerVars, jobs, budget, historyVars>>
  BY DEF DidChangeWatchedFiles
<1>2. /\ analysis_rx' \in Seq(Request)
      /\ \A i \in DOMAIN analysis_rx' : RequestAgrees(analysis_rx'[i])
  <2>1. CASE reshapes
    <3>1. analysis_rx' = analysis_rx \o RefreshOpen(entry_points)
      BY <2>1 DEF DidChangeWatchedFiles
    <3> QED
      BY <3>1, EntriesAssumption, RefreshAgrees DEF IndInv, TypeOK, MainTypes
  <2>2. CASE ~reshapes
    <3>1. analysis_rx' = analysis_rx
      BY <2>2 DEF DidChangeWatchedFiles
    <3> QED
      BY <1>1, <3>1, SameRequests DEF IndInv, TypeOK, ChannelTypes
  <2> QED
    BY <2>1, <2>2
<1>3. TypeOK'
  <2>1. changedOnDisk' \subseteq Files /\ sync_rx' \in Seq(Files)
    BY <1>1 DEF IndInv, TypeOK, MainTypes, ChannelTypes
  <2>2. MainTypes'
    BY <1>1, <2>1 DEF IndInv, TypeOK, MainTypes, mainVars, graphVars
  <2>3. ChannelTypes'
    BY <1>1, <1>2, <2>1 DEF IndInv, TypeOK, ChannelTypes, workerVars, historyVars
  <2>4. WorkerTypes'
    BY <1>1 DEF IndInv, TypeOK, WorkerTypes, workerVars, historyVars
  <2> QED
    BY <2>2, <2>3, <2>4 DEF TypeOK
<1>4. SpansFitBuffer' /\ SaysNothingNew
  BY <1>1 DEF IndInv, TextsInv, SpansFitBuffer, SaysNothingNew, mainVars, graphVars
<1> QED
  BY <1>1, <1>2, <1>3, <1>4, BuffersKept
     DEF mainVars, graphVars, workerVars, historyVars, loadVars

LEMMA DidChangeConfigurationInd ==
    ASSUME IndInv, NEW entries \in EntryPoints, DidChangeConfiguration(entries)
    PROVE  IndInv'
<1>1. /\ entry_points' = entries
      /\ analysis_rx' = analysis_rx \o RefreshOpen(entries)
      /\ UNCHANGED <<disk, changedOnDisk, mainVars, sync_rx, load_rx, ready,
                     out_rx, loader, workerVars, jobs, historyVars>>
  BY DEF DidChangeConfiguration
<1>2. /\ analysis_rx' \in Seq(Request)
      /\ \A i \in DOMAIN analysis_rx' : RequestAgrees(analysis_rx'[i])
  BY <1>1, EntriesAssumption, RefreshAgrees
<1>3. TypeOK'
  <2>1. budget' \in Budget
    BY SpendTyped DEF IndInv, DidChangeConfiguration
  <2>2. MainTypes'
    BY <1>1 DEF IndInv, TypeOK, MainTypes, mainVars, graphVars
  <2>3. ChannelTypes'
    BY <1>1, <1>2, <2>1 DEF IndInv, TypeOK, ChannelTypes, workerVars, historyVars
  <2>4. WorkerTypes'
    BY <1>1 DEF IndInv, TypeOK, WorkerTypes, workerVars, historyVars
  <2> QED
    BY <2>2, <2>3, <2>4 DEF TypeOK
<1>4. SpansFitBuffer' /\ SaysNothingNew
  BY <1>1 DEF IndInv, TextsInv, SpansFitBuffer, SaysNothingNew, mainVars, graphVars
<1> QED
  BY <1>1, <1>2, <1>3, <1>4, BuffersKept
     DEF mainVars, graphVars, workerVars, historyVars, loadVars

LEMMA OnDiagnosticsRefreshInd ==
    ASSUME IndInv, OnDiagnosticsRefresh
    PROVE  IndInv'
<1>1. /\ out_rx # <<>> /\ out_rx' = Tail(out_rx)
      /\ analysis_rx' = analysis_rx \o RefreshOpen(entry_points)
      /\ UNCHANGED <<fileVars, mainVars, sync_rx, load_rx, ready, loader,
                     workerVars, jobs, budget, historyVars>>
  BY DEF OnDiagnosticsRefresh
<1>2. /\ analysis_rx' \in Seq(Request)
      /\ \A i \in DOMAIN analysis_rx' : RequestAgrees(analysis_rx'[i])
  BY <1>1, EntriesAssumption, RefreshAgrees DEF IndInv, TypeOK, MainTypes
<1>3. SaysNothingNew /\ out_rx' \in Seq(Outbound)
  BY <1>1, OutTail DEF IndInv
<1>4. TypeOK'
  <2>1. MainTypes'
    BY <1>1 DEF IndInv, TypeOK, MainTypes, fileVars, mainVars, graphVars
  <2>2. ChannelTypes'
    BY <1>1, <1>2 DEF IndInv, TypeOK, ChannelTypes, workerVars, historyVars
  <2>3. WorkerTypes'
    BY <1>1, <1>3 DEF IndInv, TypeOK, WorkerTypes, workerVars, historyVars
  <2> QED
    BY <2>1, <2>2, <2>3 DEF TypeOK
<1>5. SpansFitBuffer'
  BY <1>1 DEF IndInv, TextsInv, SpansFitBuffer, mainVars, graphVars
<1> QED
  BY <1>1, <1>2, <1>3, <1>4, <1>5, BuffersKept
     DEF mainVars, graphVars, workerVars, historyVars, loadVars

LEMMA MergedFits ==
    ASSUME IndInv, NEW f \in Files, NEW findings \in SUBSET Finding,
           NEW version \in Nat \cup {None, Package},
           FindingsAgree(f, findings, version)
    PROVE  LET m == Merged(f, documents[f], findings, version)
           IN /\ m \in Shown
              /\ \A p \in m.findings :
                   p.text # None /\ m.text # None => p.text = m.text
<1> DEFINE m == Merged(f, documents[f], findings, version)
<1>1. documents[f] \in Document \cup {None}
  BY DEF IndInv, TypeOK, MainTypes
<1>2. CASE documents[f] = None
  BY <1>2 DEF Merged, Shown
<1>3. CASE documents[f] # None
  <2>1. /\ documents[f].version \in Nat /\ documents[f].text \in Texts
        /\ documents[f].version # None
    BY <1>1, <1>3, NoneAssumption DEF Document
  <2>2. /\ m.text = documents[f].text
        /\ m.findings = IF version = Package \/ version = documents[f].version
                        THEN findings ELSE {}
    BY <1>3 DEF Merged
  <2>3. m \in Shown
    BY <1>3, <2>1 DEF Merged, Shown
  <2>4. ASSUME NEW p \in m.findings, p.text # None
        PROVE  p.text = m.text
    <3>1. /\ p \in findings
          /\ version = Package \/ version = documents[f].version
      BY <2>2
    <3>2. version # Package /\ (version # None => Agrees(f, version, p.text))
      BY <2>4, <3>1 DEF FindingsAgree
    <3> QED
      BY <1>3, <2>1, <2>2, <3>1, <3>2 DEF Agrees
  <2> QED
    BY <2>3, <2>4
<1> QED
  BY <1>2, <1>3

LEMMA ShownFits ==
    ASSUME IndInv, NEW f \in Files, NEW m \in Shown,
           shown' = [shown EXCEPT ![f] = m],
           \A p \in m.findings :
             p.text # None /\ m.text # None => p.text = m.text
    PROVE  SpansFitBuffer' /\ shown' \in [Files -> Shown]
<1>1. shown \in [Files -> Shown] /\ SpansFitBuffer
  BY DEF IndInv, TypeOK, MainTypes, TextsInv
<1>2. shown' \in [Files -> Shown]
  BY <1>1
<1>3. SpansFitBuffer'
  <2> SUFFICES ASSUME NEW g \in Files, NEW p \in shown'[g].findings,
                      p.text # None, shown'[g].text # None
               PROVE  p.text = shown'[g].text
    BY DEF SpansFitBuffer
  <2>1. CASE g = f
    BY <1>1, <2>1
  <2>2. CASE g # f
    BY <1>1, <2>2 DEF SpansFitBuffer
  <2> QED
    BY <2>1, <2>2
<1> QED
  BY <1>2, <1>3

LEMMA OnDiagnosticsInd ==
    ASSUME IndInv, OnDiagnostics
    PROVE  IndInv'
<1> DEFINE h == Head(out_rx)
           f == h.uri
           m == Merged(f, documents[f], graph_diags[f], graph_versions[f])
<1>1. /\ out_rx # <<>> /\ h.kind = "diagnostics" /\ out_rx' = Tail(out_rx)
      /\ \/ /\ linted' = [linted EXCEPT ![f] = h.world]
            /\ shown' = [shown EXCEPT ![f] = m]
         \/ UNCHANGED <<linted, shown>>
      /\ UNCHANGED <<fileVars, documents, lastVersion, graph_diags,
                     graph_versions, analysis_rx, sync_rx, load_rx, ready,
                     loader, workerVars, jobs, budget, historyVars>>
  BY DEF OnDiagnostics
<1>2. SaysNothingNew /\ out_rx' \in Seq(Outbound) /\ h \in Outbound
  BY <1>1, OutTail DEF IndInv
<1> HIDE DEF h
<1>3. f \in Files /\ h.world \in Worlds \cup {None}
  BY <1>1, <1>2 DEF Outbound
<1>4. SpansFitBuffer' /\ shown' \in [Files -> Shown]
  <2>1. CASE UNCHANGED shown
    BY <2>1 DEF IndInv, TypeOK, MainTypes, TextsInv, SpansFitBuffer
  <2>2. CASE shown' = [shown EXCEPT ![f] = m]
    <3>1. /\ graph_diags[f] \in SUBSET Finding
          /\ graph_versions[f] \in Nat \cup {None, Package}
          /\ FindingsAgree(f, graph_diags[f], graph_versions[f])
      BY <1>3 DEF IndInv, TypeOK, MainTypes, TextsInv
    <3>2. /\ m \in Shown
          /\ \A p \in m.findings :
               p.text # None /\ m.text # None => p.text = m.text
      BY <1>3, <3>1, MergedFits
    <3> HIDE DEF m, f
    <3> QED
      BY <1>3, <2>2, <3>2, ShownFits
  <2> QED
    BY <1>1, <2>1, <2>2
<1>5. linted' \in [Files -> Worlds \cup {None}]
  <2>1. linted \in [Files -> Worlds \cup {None}]
    BY DEF IndInv, TypeOK, MainTypes
  <2> QED
    BY <1>1, <1>3, <2>1
<1> HIDE DEF m, f
<1>6. TypeOK'
  <2>1. MainTypes'
    BY <1>1, <1>4, <1>5 DEF IndInv, TypeOK, MainTypes, fileVars
  <2>2. ChannelTypes'
    BY <1>1 DEF IndInv, TypeOK, ChannelTypes, workerVars, historyVars
  <2>3. WorkerTypes'
    BY <1>1, <1>2 DEF IndInv, TypeOK, WorkerTypes, workerVars, historyVars
  <2> QED
    BY <2>1, <2>2, <2>3 DEF TypeOK
<1>7. \A i \in DOMAIN analysis_rx' : RequestAgrees(analysis_rx'[i])
  BY <1>1, SameRequests
<1> QED
  BY <1>1, <1>2, <1>4, <1>6, <1>7, BuffersKept
     DEF workerVars, historyVars, loadVars

LEMMA OnProjectDiagnosticsInd ==
    ASSUME IndInv, OnProjectDiagnostics
    PROVE  IndInv'
<1> DEFINE h == Head(out_rx)
           f == h.uri
           m == Merged(f, documents[f], h.findings, h.version)
<1>1. /\ out_rx # <<>> /\ h.kind = "project" /\ out_rx' = Tail(out_rx)
      /\ \/ /\ graph_diags' = [graph_diags EXCEPT ![f] = h.findings]
            /\ graph_versions' = [graph_versions EXCEPT ![f] = h.version]
            /\ shown' = [shown EXCEPT ![f] = m]
         \/ UNCHANGED graphVars
      /\ UNCHANGED <<fileVars, documents, lastVersion, linted, analysis_rx,
                     sync_rx, load_rx, ready, loader, workerVars, jobs,
                     budget, historyVars>>
  BY DEF OnProjectDiagnostics
<1>2. /\ SaysNothingNew /\ out_rx' \in Seq(Outbound) /\ h \in Outbound
      /\ 1 \in DOMAIN out_rx /\ h = out_rx[1]
  BY <1>1, OutTail DEF IndInv
<1>3. Honest(h)
  BY <1>2 DEF IndInv, LoadInv, Good, SpansOK, Worker
<1> HIDE DEF h
<1>4. /\ f \in Files /\ h.findings \in SUBSET Finding
      /\ h.version \in Nat \cup {None, Package}
  BY <1>1, <1>2 DEF Outbound
<1>5. FindingsAgree(f, h.findings, h.version)
  BY <1>1, <1>3 DEF Honest
<1>6. /\ graph_diags \in [Files -> SUBSET Finding]
      /\ graph_versions \in [Files -> Nat \cup {None, Package}]
      /\ shown \in [Files -> Shown]
  BY DEF IndInv, TypeOK, MainTypes
<1>7. SpansFitBuffer' /\ shown' \in [Files -> Shown]
  <2>1. CASE UNCHANGED graphVars
    BY <2>1 DEF IndInv, TypeOK, MainTypes, TextsInv, SpansFitBuffer, graphVars
  <2>2. CASE shown' = [shown EXCEPT ![f] = m]
    <3>1. /\ m \in Shown
          /\ \A p \in m.findings :
               p.text # None /\ m.text # None => p.text = m.text
      BY <1>4, <1>5, MergedFits
    <3> HIDE DEF m, f
    <3> QED
      BY <1>4, <2>2, <3>1, ShownFits
  <2> QED
    BY <1>1, <2>1, <2>2
<1> HIDE DEF m, f
<1>8. /\ graph_diags' \in [Files -> SUBSET Finding]
      /\ graph_versions' \in [Files -> Nat \cup {None, Package}]
  BY <1>1, <1>4, <1>6 DEF graphVars
<1>9. TypeOK'
  <2>1. MainTypes'
    BY <1>1, <1>7, <1>8 DEF IndInv, TypeOK, MainTypes, fileVars
  <2>2. ChannelTypes'
    BY <1>1 DEF IndInv, TypeOK, ChannelTypes, workerVars, historyVars
  <2>3. WorkerTypes'
    BY <1>1, <1>2 DEF IndInv, TypeOK, WorkerTypes, workerVars, historyVars
  <2> QED
    BY <2>1, <2>2, <2>3 DEF TypeOK
<1>10. AgreesStep
  BY <1>1, AgreesUnchanged
<1>11. LoadInv'
  BY <1>1, <1>2, <1>9, <1>10, LoadInvKept
     DEF IndInv, TypeOK, workerVars, historyVars, loadVars, SaysNothingNew
<1>12. LoaderInv'
  BY <1>1 DEF IndInv, LoaderInv
<1>13. \A g \in Files : FindingsAgree(g, graph_diags[g], graph_versions[g])'
  <2> SUFFICES ASSUME NEW g \in Files, NEW d, NEW v,
                      d = graph_diags'[g], v = graph_versions'[g]
               PROVE  FindingsAgree(g, d, v)'
    BY DEF FindingsAgree, Agrees
  <2>1. FindingsAgree(g, d, v)
    <3>1. CASE UNCHANGED graphVars \/ g # f
      BY <1>1, <1>6, <3>1 DEF IndInv, TextsInv, graphVars
    <3>2. CASE ~UNCHANGED graphVars /\ g = f
      BY <1>1, <1>5, <1>6, <3>2
    <3> QED
      BY <3>1, <3>2
  <2> QED
    BY <1>1, <2>1 DEF FindingsAgree, Agrees
<1>14. TextsInv'
  <2>1. (\A g \in Files :
           documents[g] # None => documents[g].version <= lastVersion[g])'
    BY <1>1 DEF IndInv, TextsInv
  <2>2. (\A i \in DOMAIN analysis_rx :
           Agrees(analysis_rx[i].uri, analysis_rx[i].version,
                  analysis_rx[i].text))'
    BY <1>1 DEF IndInv, TextsInv, Agrees
  <2>3. (loader # None => ReadAgrees(loader))'
    BY <1>1 DEF IndInv, TextsInv, ReadAgrees, RegistrationsAgree, Agrees
  <2>4. (\A i \in DOMAIN ready : ReadAgrees(ready[i]))'
    BY <1>1 DEF IndInv, TextsInv, ReadAgrees, RegistrationsAgree, Agrees
  <2> QED
    BY <1>7, <1>13, <2>1, <2>2, <2>3, <2>4 DEF TextsInv
<1> QED
  BY <1>9, <1>11, <1>12, <1>14 DEF IndInv

-----------------------------------------------------------------------------
(* The loader thread.                                                      *)

LEMMA AgreesSame ==
    ASSUME UNCHANGED <<documents, lastVersion>>
    PROVE  /\ \A docs : RegistrationsAgree(docs)' <=> RegistrationsAgree(docs)
           /\ \A l : ReadAgrees(l)' <=> ReadAgrees(l)
           /\ \A f, ps, v : FindingsAgree(f, ps, v)' <=> FindingsAgree(f, ps, v)
           /\ \A m : Honest(m)' <=> Honest(m)
<1>1. \A f, v, t : Agrees(f, v, t)' <=> Agrees(f, v, t)
  BY DEF Agrees
<1>2. \A docs : RegistrationsAgree(docs)' <=> RegistrationsAgree(docs)
  BY <1>1 DEF RegistrationsAgree
<1>3. \A l : ReadAgrees(l)' <=> ReadAgrees(l)
  BY <1>2 DEF ReadAgrees
<1>4. \A f, ps, v : FindingsAgree(f, ps, v)' <=> FindingsAgree(f, ps, v)
  BY <1>1 DEF FindingsAgree
<1>5. \A m : Honest(m)' <=> Honest(m)
  BY <1>4 DEF Honest
<1> QED
  BY <1>2, <1>3, <1>4, <1>5

(* The buffers, what was sent about them, and what is shown stay as they   *)
(* are; loads may leave the channel, and read ones may be added.           *)
othersUnchanged ==
    <<fileVars, mainVars, analysis_rx, sync_rx, out_rx, workerVars, jobs,
      orphaned, crossed, missed>>

LEMMA OthersTyped ==
    ASSUME TypeOK, UNCHANGED othersUnchanged, load_rx' \in Seq(Load)
    PROVE  MainTypes' /\ WorkerTypes'
<1>1. MainTypes'
  BY DEF TypeOK, MainTypes, othersUnchanged, fileVars, mainVars, graphVars
<1>2. WorkerTypes'
  BY DEF TypeOK, WorkerTypes, othersUnchanged, workerVars
<1> QED
  BY <1>1, <1>2

LEMMA LoaderMoves ==
    ASSUME IndInv, UNCHANGED othersUnchanged, load_rx' \in {load_rx, <<>>},
           NEW l, l = loader', l \in Reading \cup {None},
           l # None => ReadAgrees(l) /\ Numbered(Worker("linting"), l.job),
           NEW rd, rd = ready', rd \in Seq(Loaded),
           \A i \in DOMAIN rd :
             /\ ReadsEntries(rd[i]) /\ ReadAgrees(rd[i])
             /\ Numbered(Worker("linting"), rd[i].job),
           budget' \in Budget, panicked' \in BOOLEAN, LoaderInv',
           OnItsWay(Worker("linting"), ready)'
    PROVE  IndInv'
<1> SUFFICES ASSUME NEW w, w = Worker("linting") PROVE IndInv'
  OBVIOUS
<1>1. /\ scripts = w.scripts /\ load_rx = w.load
      /\ pending_script_load = w.parked /\ script_files = w.files
      /\ out_rx = w.out
  BY DEF Worker
<1>2. Good(w, ready)
  BY DEF IndInv, LoadInv
<1>3. UNCHANGED <<scripts, pending_script_load, script_files, out_rx,
                  documents, lastVersion>>
  BY DEF othersUnchanged, workerVars, mainVars
<1>4. TypeOK'
  <2>1. ChannelTypes'
    BY DEF IndInv, TypeOK, ChannelTypes, othersUnchanged, workerVars
  <2>2. load_rx' \in Seq(Load)
    <3>1. load_rx \in Seq(Load)
      BY DEF IndInv, TypeOK, WorkerTypes
    <3>2. <<>> \in Seq(Load)
      OBVIOUS
    <3> QED
      BY <3>1, <3>2
  <2>3. MainTypes' /\ WorkerTypes'
    BY <2>2, OthersTyped DEF IndInv
  <2> QED
    BY <2>1, <2>3 DEF TypeOK
<1>5. LoadInv'
  <2>1. WorkerOK(Worker("linting"))'
    BY <1>4 DEF TypeOK, WorkerTypes, WorkerOK, WorkerRecord, Worker
  <2>2. InTransit(ready)'
    BY DEF InTransit, ReadsEntries
  <2>3. LoadsOK(Worker("linting"), ready)'
    <3>1. /\ (~scripts.loading /\ scripts.sources = {} => scripts.entries = {})'
          /\ (script_files # None /\ script_files.pending => scripts.loading)'
      BY <1>1, <1>2, <1>3 DEF Good, LoadsOK
    <3>2. \A i \in DOMAIN load_rx' : Numbered(w, load_rx'[i])
      BY <1>1, <1>2 DEF Good, LoadsOK
    <3>3. (pending_script_load # None =>
             /\ Numbered(Worker("linting"), pending_script_load.job)
             /\ ReadsEntries(pending_script_load))'
      BY <1>1, <1>2, <1>3 DEF Good, LoadsOK, Numbered, ReadsEntries, Worker
    <3>4. (loader # None => Numbered(Worker("linting"), loader.job))'
      BY <1>3 DEF Numbered, Worker
    <3>5. (\A i \in DOMAIN ready : Numbered(Worker("linting"), ready[i].job))'
      BY <1>3 DEF Numbered, Worker
    <3>6. (\A i \in DOMAIN load_rx : Numbered(Worker("linting"), load_rx[i]))'
      BY <1>1, <1>3, <3>2 DEF Numbered, Worker
    <3> QED
      BY <3>1, <3>3, <3>4, <3>5, <3>6 DEF LoadsOK, Worker
  <2>4. SpansOK(Worker("linting"))'
    <3>1. SpansOK(w)'
      BY <1>2, <1>3, AgreesSame DEF Good, SpansOK
    <3>2. /\ RegistrationsAgree(scripts.documents)'
          /\ \A f \in Files :
               /\ FindingsAgree(f, scripts.diagnostics[f], scripts.versions[f])'
               /\ (scripts.diagnostics[f] # {} => f \in scripts.sources)'
      BY <1>1, <1>3, <3>1 DEF SpansOK
    <3>3. /\ \A i \in DOMAIN load_rx' : RegistrationsAgree(load_rx[i].documents)'
          /\ (pending_script_load # None => ReadAgrees(pending_script_load))'
      BY <1>1, <1>3, <3>1 DEF SpansOK
    <3>4. \A i \in DOMAIN out_rx' : Honest(out_rx[i])'
      BY <1>1, <1>3, <3>1 DEF SpansOK
    <3> QED
      BY <3>2, <3>3, <3>4 DEF SpansOK, Worker
  <2> QED
    BY <2>1, <2>2, <2>3, <2>4 DEF LoadInv, Good
<1>6. TextsInv'
  <2>1. (\A g \in Files :
           documents[g] # None => documents[g].version <= lastVersion[g])'
    BY <1>3 DEF IndInv, TextsInv
  <2>2. (\A i \in DOMAIN analysis_rx :
           Agrees(analysis_rx[i].uri, analysis_rx[i].version,
                  analysis_rx[i].text))'
    BY <1>3 DEF IndInv, TextsInv, Agrees, othersUnchanged
  <2>3. (loader # None => ReadAgrees(loader))'
    BY <1>3, AgreesSame DEF ReadAgrees
  <2>4. (\A i \in DOMAIN ready : ReadAgrees(ready[i]))'
    <3>1. \A i \in DOMAIN rd : ReadAgrees(rd[i])'
      BY <1>3, AgreesSame
    <3> QED
      BY <3>1
  <2>5. (\A f \in Files : FindingsAgree(f, graph_diags[f], graph_versions[f]))'
    BY <1>3 DEF IndInv, TextsInv, FindingsAgree, Agrees, othersUnchanged,
                mainVars, graphVars
  <2>6. SpansFitBuffer'
    BY DEF IndInv, TextsInv, SpansFitBuffer, othersUnchanged, mainVars, graphVars
  <2> QED
    BY <2>1, <2>2, <2>3, <2>4, <2>5, <2>6 DEF TextsInv
<1> QED
  BY <1>4, <1>5, <1>6 DEF IndInv

LEMMA LoaderPanicsInd ==
    ASSUME IndInv, LoaderPanics
    PROVE  IndInv'
<1>1. /\ panicked' = TRUE /\ loader' = None
      /\ UNCHANGED <<fileVars, mainVars, analysis_rx, sync_rx, load_rx, ready,
                     out_rx, workerVars, jobs, orphaned, crossed, missed>>
      /\ budget' \in Budget
  BY SpendTyped DEF IndInv, LoaderPanics
<1>2. UNCHANGED othersUnchanged /\ load_rx' \in {load_rx, <<>>}
  BY <1>1 DEF othersUnchanged
<1>3. /\ ready' = ready /\ ready \in Seq(Loaded)
      /\ \A i \in DOMAIN ready :
           /\ ReadsEntries(ready[i]) /\ ReadAgrees(ready[i])
           /\ Numbered(Worker("linting"), ready[i].job)
  BY <1>1 DEF IndInv, LoadInv, Good, InTransit, LoadsOK, TextsInv
<1>4. LoaderInv' /\ OnItsWay(Worker("linting"), ready)'
  BY <1>1 DEF LoaderInv, OnItsWay
<1> QED
  BY <1>1, <1>2, <1>3, <1>4, LoaderMoves

LEMMA LoaderGoesOnInd ==
    ASSUME IndInv, NEW job \in Load, NEW sources \in Sources,
           NEW todo \in SUBSET Files, LoaderGoesOn(job, sources, todo),
           \A f \in job.entries : f \in todo \/ sources[f] # None,
           \A f \in Files :
             job.documents[f] # None /\ sources[f] # None =>
               sources[f] = job.documents[f].text,
           RegistrationsAgree(job.documents),
           Numbered(Worker("linting"), job),
           UNCHANGED othersUnchanged, UNCHANGED <<budget, panicked>>,
           load_rx' \in {load_rx, <<>>},
           scripts.loading /\ ~panicked =>
             \/ load_rx' # <<>> /\ IsCurrent(load_rx'[Len(load_rx')])
             \/ load_rx' = <<>> /\ IsCurrent(job)
    PROVE  IndInv'
<1> DEFINE w == Worker("linting")
           going == [job |-> job, sources |-> sources, todo |-> todo]
           done == [job |-> job, sources |-> sources]
<1>1. /\ budget' \in Budget /\ panicked' \in BOOLEAN
      /\ scripts' = scripts
  BY DEF IndInv, TypeOK, ChannelTypes, othersUnchanged, workerVars
<1>2. /\ ready \in Seq(Loaded)
      /\ \A i \in DOMAIN ready :
           /\ ReadsEntries(ready[i]) /\ ReadAgrees(ready[i])
           /\ Numbered(w, ready[i].job)
  BY DEF IndInv, LoadInv, Good, InTransit, LoadsOK, TextsInv
<1> HIDE DEF w
<1>3. CASE todo # {}
  <2>1. loader' = going /\ ready' = ready
    BY <1>3 DEF LoaderGoesOn
  <2>2. going \in Reading /\ ReadAgrees(going) /\ Numbered(w, going.job)
    BY DEF Reading, ReadAgrees, w
  <2>3. LoaderInv'
    BY <2>1 DEF LoaderInv
  <2>4. OnItsWay(Worker("linting"), ready)'
    <3>1. going # None /\ going.job = job
      BY <2>2, NoneAssumption
    <3> HIDE DEF going
    <3> QED
      BY <1>1, <2>1, <3>1 DEF OnItsWay, IsCurrentIn, IsCurrent, Worker
  <2> HIDE DEF going
  <2> QED
    BY <1>1, <1>2, <2>1, <2>2, <2>3, <2>4, LoaderMoves DEF w
<1>4. CASE todo = {}
  <2>1. loader' = None /\ ready' = Append(ready, done)
    BY <1>4 DEF LoaderGoesOn
  <2>2. done \in Loaded /\ done.job = job
    BY DEF Loaded
  <2>3. ReadsEntries(done) /\ ReadAgrees(done) /\ Numbered(w, done.job)
    BY <1>4 DEF ReadsEntries, ReadAgrees, w
  <2> HIDE DEF done
  <2>4. PICK rd : rd = ready'
    OBVIOUS
  <2>5. /\ rd \in Seq(Loaded) /\ rd # <<>> /\ rd[Len(rd)] = done
        /\ \A i \in DOMAIN rd :
             (i \in DOMAIN ready /\ rd[i] = ready[i]) \/ rd[i] = done
    BY <1>2, <2>1, <2>2, <2>4
  <2>6. \A i \in DOMAIN rd : /\ ReadsEntries(rd[i]) /\ ReadAgrees(rd[i])
                             /\ Numbered(w, rd[i].job)
    BY <1>2, <2>3, <2>5
  <2>7. LoaderInv'
    BY <2>1 DEF LoaderInv
  <2>8. OnItsWay(Worker("linting"), ready)'
    BY <1>1, <2>1, <2>2, <2>4, <2>5 DEF OnItsWay, IsCurrentIn, IsCurrent, Worker
  <2> QED
    BY <1>1, <2>1, <2>4, <2>5, <2>6, <2>7, <2>8, LoaderMoves DEF w
<1> QED
  BY <1>3, <1>4

LEMMA LoaderTakesNewestInd ==
    ASSUME IndInv, LoaderTakesNewest
    PROVE  IndInv'
<1> DEFINE job == load_rx[Len(load_rx)]
<1>1. /\ loader = None /\ load_rx # <<>> /\ load_rx' = <<>>
      /\ LoaderGoesOn(job, NoSources, job.entries)
      /\ UNCHANGED <<fileVars, mainVars, analysis_rx, sync_rx, out_rx,
                     workerVars, jobs, budget, historyVars>>
  BY DEF LoaderTakesNewest
<1>2. load_rx \in Seq(Load)
  BY DEF IndInv, TypeOK, WorkerTypes
<1>3. Len(load_rx) \in DOMAIN load_rx /\ job \in Load
  BY <1>1, <1>2
<1>4. RegistrationsAgree(job.documents) /\ Numbered(Worker("linting"), job)
  <2>1. SpansOK(Worker("linting")) /\ LoadsOK(Worker("linting"), ready)
    BY DEF IndInv, LoadInv, Good
  <2>2. Worker("linting").load = load_rx
    BY DEF Worker
  <2>3. \A i \in DOMAIN load_rx : /\ RegistrationsAgree(load_rx[i].documents)
                                  /\ Numbered(Worker("linting"), load_rx[i])
    BY <2>1, <2>2 DEF SpansOK, LoadsOK
  <2> QED
    BY <1>3, <2>3
<1>5. scripts.loading /\ ~panicked => IsCurrent(job)
  BY <1>1 DEF IndInv, LoadInv, Good, OnItsWay, IsCurrentIn, IsCurrent, Worker
<1>6. UNCHANGED othersUnchanged /\ UNCHANGED <<budget, panicked>>
  BY <1>1 DEF othersUnchanged, historyVars
<1>7. /\ NoSources \in Sources /\ job.entries \in SUBSET Files
      /\ \A f \in Files : NoSources[f] = None
  BY <1>3 DEF NoSources, Sources, Load
<1> HIDE DEF job
<1> QED
  BY <1>1, <1>3, <1>4, <1>5, <1>6, <1>7, LoaderGoesOnInd

LEMMA LoaderReadsInd ==
    ASSUME IndInv, NEW f \in Files, LoaderReads(f)
    PROVE  IndInv'
<1> DEFINE job == loader.job
           content == Content(job.documents, f)
           found == IF content \in Texts THEN IncludesOf[content] ELSE {}
           sources == [loader.sources EXCEPT ![f] = content]
           todo == {g \in loader.todo \cup found : sources[g] = None}
<1>1. /\ loader # None /\ LoaderGoesOn(job, sources, todo)
      /\ UNCHANGED <<fileVars, mainVars, analysis_rx, sync_rx, load_rx, out_rx,
                     workerVars, jobs, budget, historyVars>>
  BY DEF LoaderReads
<1>2. /\ loader \in Reading /\ disk \in [Files -> Texts \cup {Unreadable}]
  BY <1>1 DEF IndInv, TypeOK, ChannelTypes, MainTypes
<1>3. /\ job \in Load /\ loader.sources \in Sources
      /\ loader.todo \in SUBSET Files
  BY <1>2 DEF Reading
<1>4. /\ content \in Texts \cup {Unreadable}
      /\ job.documents[f] # None => content = job.documents[f].text
  BY <1>2, <1>3 DEF Content, Load, Registrations, Registered
<1>5. content # None
  BY <1>4, NoneAssumption
<1>6. sources \in Sources /\ todo \in SUBSET Files
  <2>1. found \in SUBSET Files
    BY TextsAssumption
  <2> HIDE DEF found, content
  <2> QED
    BY <1>3, <1>4, <2>1 DEF Sources
<1>7. ReadAgrees(loader) /\ Numbered(Worker("linting"), job)
  BY <1>1 DEF IndInv, TextsInv, LoadInv, Good, LoadsOK
<1> HIDE DEF content, found
<1>8. \A g \in Files : sources[g] = IF g = f THEN content ELSE loader.sources[g]
  BY <1>3 DEF Sources
<1>9. \A g \in job.entries : g \in todo \/ sources[g] # None
  <2> SUFFICES ASSUME NEW g \in job.entries, sources[g] = None
               PROVE  g \in todo
    OBVIOUS
  <2>1. g \in Files
    BY <1>3 DEF Load
  <2>2. loader.sources[g] = None
    BY <1>5, <1>8, <2>1
  <2>3. g \in loader.todo
    BY <1>1, <2>2 DEF IndInv, LoaderInv
  <2> QED
    BY <2>3
<1>10. \A g \in Files : job.documents[g] # None /\ sources[g] # None =>
         sources[g] = job.documents[g].text
  BY <1>4, <1>7, <1>8 DEF ReadAgrees
<1>11. RegistrationsAgree(job.documents)
  BY <1>7 DEF ReadAgrees
<1>12. scripts.loading /\ ~panicked =>
         \/ load_rx # <<>> /\ IsCurrent(load_rx[Len(load_rx)])
         \/ load_rx = <<>> /\ IsCurrent(job)
  BY <1>1 DEF IndInv, LoadInv, Good, OnItsWay, IsCurrentIn, IsCurrent, Worker
<1>13. UNCHANGED othersUnchanged /\ UNCHANGED <<budget, panicked, load_rx>>
  BY <1>1 DEF othersUnchanged, historyVars
<1> HIDE DEF job, sources, todo
<1> QED
  BY <1>1, <1>3, <1>6, <1>7, <1>9, <1>10, <1>11, <1>12, <1>13, LoaderGoesOnInd

-----------------------------------------------------------------------------
(* The analysis thread.                                                    *)

ArmOK(a) == Syncing(a) => a[2] \in Files

LEMMA WorkerStep ==
    ASSUME IndInv, NEW w, NEW rd, Good(w, rd), Commit(w), ready' = rd,
           \A i \in DOMAIN rd : ReadAgrees(rd[i]),
           UNCHANGED analysisThreadUnchanged,
           NEW q, q = analysis_rx', q \in Seq(Request),
           \A i \in DOMAIN q : RequestAgrees(q[i]),
           sync_rx' \in Seq(Files), budget' \in Budget, ArmOK(arm)'
    PROVE  IndInv'
<1>1. UNCHANGED <<fileVars, mainVars, loader, panicked, documents,
                  lastVersion>>
  BY DEF analysisThreadUnchanged, mainVars
<1>2. LoadInv' /\ WorkerTypes'
  BY <1>1, CommitGood
<1>3. TypeOK'
  <2>1. MainTypes'
    BY <1>1 DEF IndInv, TypeOK, MainTypes, fileVars, mainVars, graphVars
  <2>2. rd \in Seq(Loaded)
    BY DEF Good, InTransit
  <2>3. loader' \in Reading \cup {None} /\ panicked' \in BOOLEAN
    BY <1>1 DEF IndInv, TypeOK, ChannelTypes
  <2>4. ChannelTypes'
    BY <2>2, <2>3 DEF ChannelTypes, ArmOK
  <2> QED
    BY <1>2, <2>1, <2>4 DEF TypeOK
<1>4. LoaderInv'
  BY <1>1 DEF IndInv, LoaderInv
<1>5. TextsInv'
  <2>1. (\A g \in Files :
           documents[g] # None => documents[g].version <= lastVersion[g])'
    BY <1>1 DEF IndInv, TextsInv
  <2>2. (\A i \in DOMAIN analysis_rx :
           Agrees(analysis_rx[i].uri, analysis_rx[i].version,
                  analysis_rx[i].text))'
    BY <1>1 DEF RequestAgrees, Agrees
  <2>3. (loader # None => ReadAgrees(loader))'
    BY <1>1, AgreesSame DEF IndInv, TextsInv, ReadAgrees
  <2>4. (\A i \in DOMAIN ready : ReadAgrees(ready[i]))'
    BY <1>1, AgreesSame
  <2>5. (\A f \in Files : FindingsAgree(f, graph_diags[f], graph_versions[f]))'
    BY <1>1 DEF IndInv, TextsInv, FindingsAgree, Agrees, mainVars, graphVars
  <2>6. SpansFitBuffer'
    BY <1>1 DEF IndInv, TextsInv, SpansFitBuffer, mainVars, graphVars
  <2> QED
    BY <2>1, <2>2, <2>3, <2>4, <2>5, <2>6 DEF TextsInv
<1> QED
  BY <1>2, <1>3, <1>4, <1>5 DEF IndInv

(* What an arm finds in the channels.                                      *)
LEMMA ChannelFacts ==
    ASSUME IndInv
    PROVE  /\ ArmOK(arm) /\ budget \in Budget /\ sync_rx \in Seq(Files)
           /\ disk \in [Files -> Texts \cup {Unreadable}]
           /\ analysis_rx \in Seq(Request) /\ ready \in Seq(Loaded)
           /\ \A i \in DOMAIN analysis_rx : RequestAgrees(analysis_rx[i])
           /\ \A i \in DOMAIN ready : ReadAgrees(ready[i])
           /\ CaughtIn \subseteq {"parsing", "linting"}
BY StageTyped
   DEF IndInv, TypeOK, ChannelTypes, MainTypes, TextsInv, RequestAgrees, ArmOK

LEMMA ArmGoesOnInd ==
    ASSUME IndInv, NEW a, ArmOK(a), NEW w, Good(w, ready),
           NEW rest \in Seq(Request), \A i \in DOMAIN rest : RequestAgrees(rest[i]),
           ArmGoesOn(a, w, rest), UNCHANGED analysisThreadUnchanged,
           UNCHANGED <<budget, ready>>, sync_rx' \in Seq(Files)
    PROVE  IndInv'
<1>1. analysis_rx' = rest /\ budget' \in Budget
      /\ \A i \in DOMAIN ready : ReadAgrees(ready[i])
  BY ChannelFacts DEF ArmGoesOn
<1>2. CASE rest # <<>>
  <2>1. arm' = a /\ Commit(w)
    BY <1>2 DEF ArmGoesOn
  <2>2. ArmOK(arm)'
    BY <2>1 DEF ArmOK, Syncing
  <2> QED
    BY <1>1, <2>1, <2>2, WorkerStep
<1>3. CASE rest = <<>>
  <2> DEFINE u == IF Syncing(a) THEN OnSync(w, a[2]) ELSE w
  <2>1. arm' = <<>> /\ \E v \in TryDispatch(u) : Commit(v)
    BY <1>3 DEF ArmGoesOn
  <2>2. ArmOK(arm)'
    BY <2>1 DEF ArmOK, Syncing
  <2>3. Good(u, ready)
    <3>1. CASE Syncing(a)
      BY <3>1, ChannelFacts, OnSyncGood DEF ArmOK
    <3>2. CASE ~Syncing(a)
      BY <3>2
    <3> QED
      BY <3>1, <3>2
  <2> HIDE DEF u
  <2>4. PICK v \in TryDispatch(u) : Commit(v)
    BY <2>1
  <2>5. Good(v, ready)
    BY <2>3, TryDispatchGood
  <2> QED
    BY <1>1, <2>2, <2>4, <2>5, WorkerStep
<1> QED
  BY <1>2, <1>3

(* A request is received.                                                  *)
LEMMA ReceivesInd ==
    ASSUME IndInv, NEW a, ArmOK(a), analysis_rx # <<>>,
           \E stage \in CaughtIn :
             ArmGoesOn(a, Enqueue(Worker(stage), Head(analysis_rx)),
                       Tail(analysis_rx)),
           UNCHANGED <<analysisThreadUnchanged, budget, ready, sync_rx>>
    PROVE  IndInv'
<1> DEFINE req == Head(analysis_rx)
           rest == Tail(analysis_rx)
<1>1. PICK stage \in CaughtIn : ArmGoesOn(a, Enqueue(Worker(stage), req), rest)
  OBVIOUS
<1>2. /\ req \in Request /\ req = analysis_rx[1] /\ 1 \in DOMAIN analysis_rx
      /\ rest \in Seq(Request)
      /\ \A i \in DOMAIN rest :
           i + 1 \in DOMAIN analysis_rx /\ rest[i] = analysis_rx[i + 1]
  BY ChannelFacts
<1>3. Agrees(req.uri, req.version, req.text)
  BY <1>2, ChannelFacts DEF RequestAgrees
<1>4. \A i \in DOMAIN rest : RequestAgrees(rest[i])
  BY <1>2, ChannelFacts
<1>5. Good(Worker(stage), ready)
  BY ChannelFacts, AnyStage
<1> HIDE DEF req, rest
<1>6. Good(Enqueue(Worker(stage), req), ready)
  BY <1>2, <1>3, <1>5, EnqueueGood
<1>7. UNCHANGED analysisThreadUnchanged /\ UNCHANGED <<budget, ready>>
      /\ sync_rx' \in Seq(Files)
  BY ChannelFacts
<1> QED
  BY <1>1, <1>2, <1>4, <1>6, <1>7, ArmGoesOnInd

LEMMA AnalysisArmInd ==
    ASSUME IndInv, AnalysisArm
    PROVE  IndInv'
<1>1. ArmOK(<<"analyze">>)
  BY DEF ArmOK, Syncing
<1> QED
  BY <1>1, ReceivesInd DEF AnalysisArm

(* Between two steps of an arm there is a request to receive.              *)
LEMMA ReceiveInd ==
    ASSUME IndInv, analysis_rx # <<>>, Receive
    PROVE  IndInv'
BY ChannelFacts, ReceivesInd DEF Receive

LEMMA SyncArmInd ==
    ASSUME IndInv, SyncArm
    PROVE  IndInv'
<1> DEFINE f == Head(sync_rx)
<1>1. PICK stage \in CaughtIn :
        ArmGoesOn(<<"sync", f>>, Worker(stage), analysis_rx)
  BY DEF SyncArm
<1>2. sync_rx # <<>> /\ sync_rx' = Tail(sync_rx)
      /\ UNCHANGED <<analysisThreadUnchanged, budget, ready>>
  BY DEF SyncArm
<1>3. f \in Files /\ sync_rx' \in Seq(Files)
  BY <1>2, ChannelFacts
<1> HIDE DEF f
<1>4. ArmOK(<<"sync", f>>)
  BY <1>3 DEF ArmOK
<1>5. Good(Worker(stage), ready)
  BY ChannelFacts, AnyStage
<1> QED
  BY <1>1, <1>2, <1>3, <1>4, <1>5, ChannelFacts, ArmGoesOnInd

LEMMA HeadAndTail ==
    ASSUME NEW S, NEW s \in Seq(S), s # <<>>
    PROVE  /\ Head(s) \in S /\ Head(s) = s[1] /\ 1 \in DOMAIN s
           /\ Tail(s) \in Seq(S)
           /\ \A i \in DOMAIN Tail(s) :
                i + 1 \in DOMAIN s /\ Tail(s)[i] = s[i + 1]
           /\ s[Len(s)] = IF Tail(s) = <<>> THEN Head(s) ELSE Tail(s)[Len(Tail(s))]
<1> DEFINE t == Tail(s)
<1>1. Head(s) = s[1] /\ 1 \in DOMAIN s /\ Head(s) \in S
  OBVIOUS
<1>2. /\ t \in Seq(S) /\ Len(t) = Len(s) - 1 /\ Len(s) \in Nat
      /\ Len(t) \in Nat /\ DOMAIN t = 1..Len(t)
  BY HeadTailProperties, LenProperties
<1>3. \A i \in DOMAIN t : i + 1 \in DOMAIN s /\ t[i] = s[i + 1]
  OBVIOUS
<1> HIDE DEF t
<1>4. CASE t = <<>>
  <2>1. Len(t) = 0
    BY <1>4, EmptySeq
  <2>2. Len(s) = 1
    BY <1>2, <2>1
  <2> QED
    BY <1>1, <1>2, <1>3, <1>4, <2>2 DEF t
<1>5. CASE t # <<>>
  <2>1. Len(t) # 0
    BY <1>2, <1>5, EmptySeq
  <2>2. Len(t) \in DOMAIN t /\ Len(t) + 1 = Len(s)
    BY <1>2, <2>1
  <2>3. s[Len(s)] = t[Len(t)]
    BY <1>3, <2>2
  <2> QED
    BY <1>1, <1>2, <1>3, <1>5, <2>3 DEF t
<1> QED
  BY <1>4, <1>5

(* A parked result takes the place of the one received.                    *)
LEMMA ReadyArmGood ==
    ASSUME NEW w, Good(w, ready), ready # <<>>,
           \A i \in DOMAIN ready : ReadAgrees(ready[i])
    PROVE  /\ Good(OnScriptsLoaded(w, Head(ready)), Tail(ready))
           /\ \A i \in DOMAIN Tail(ready) : ReadAgrees(Tail(ready)[i])
<1> DEFINE l == Head(ready)
           rd == Tail(ready)
           v == [w EXCEPT !.parked = l]
<1>1. /\ ready \in Seq(Loaded) /\ WorkerOK(w) /\ SpansOK(w)
      /\ LoadsOK(w, ready) /\ OnItsWay(w, ready)
  BY DEF Good, InTransit
<1>2. /\ l \in Loaded /\ l = ready[1] /\ 1 \in DOMAIN ready /\ rd \in Seq(Loaded)
      /\ \A i \in DOMAIN rd : i + 1 \in DOMAIN ready /\ rd[i] = ready[i + 1]
      /\ ready[Len(ready)] = IF rd = <<>> THEN l ELSE rd[Len(rd)]
  BY <1>1, HeadAndTail
<1> HIDE DEF l, rd
<1>3. ReadsEntries(l) /\ Numbered(w, l.job) /\ ReadAgrees(l)
  BY <1>1, <1>2 DEF Good, InTransit, LoadsOK
<1>4. \A i \in DOMAIN rd : ReadAgrees(rd[i])
  BY <1>2
<1>5. InTransit(rd) /\ LoadsOK(w, rd)
  <2>1. InTransit(rd)
    BY <1>2 DEF Good, InTransit
  <2>2. LoadsOK(w, rd)
    BY <1>1, <1>2 DEF LoadsOK
  <2> QED
    BY <2>1, <2>2
<1>6. w.scripts.loading /\ ~panicked =>
        \/ w.load # <<>> /\ IsCurrentIn(w, w.load[Len(w.load)])
        \/ w.load = <<>> /\ loader # None /\ IsCurrentIn(w, loader.job)
        \/ /\ w.load = <<>> /\ loader = None /\ rd # <<>>
           /\ IsCurrentIn(w, rd[Len(rd)].job)
        \/ /\ w.load = <<>> /\ loader = None /\ rd = <<>>
           /\ IsCurrentIn(w, l.job)
  BY <1>1, <1>2 DEF OnItsWay
<1>7. CASE w.inflight = None
  <2>1. OnItsWay(w, rd) \/ IsCurrentIn(w, l.job)
    BY <1>6 DEF OnItsWay
  <2>2. Good(Install(w, l), rd)
    BY <1>1, <1>2, <1>3, <1>5, <2>1, InstallGood
  <2>3. OnScriptsLoaded(w, l) = Install(w, l)
    BY <1>7 DEF OnScriptsLoaded
  <2> QED
    BY <1>4, <2>2, <2>3 DEF l, rd
<1>8. CASE w.inflight # None
  <2>1. w \in WorkerRecord /\ IsFiniteSet(w.jobs)
    BY <1>1 DEF WorkerOK
  <2>2. v \in WorkerRecord
    BY <1>2, <2>1 DEF WorkerRecord
  <2>3. /\ v.scripts = w.scripts /\ v.load = w.load /\ v.parked = l
        /\ v.files = w.files /\ v.out = w.out /\ v.jobs = w.jobs
    BY <2>1 DEF WorkerRecord
  <2> HIDE DEF v
  <2>4. WorkerOK(v) /\ l # None
    BY <1>2, <2>1, <2>2, <2>3, NoneAssumption DEF WorkerOK
  <2>5. LoadsOK(v, rd)
    BY <1>3, <1>5, <2>3 DEF LoadsOK, Numbered
  <2>6. OnItsWay(v, rd)
    BY <1>6, <2>3, <2>4 DEF OnItsWay, IsCurrentIn
  <2>7. SpansOK(v)
    BY <1>1, <1>3, <2>3 DEF SpansOK
  <2>8. Good(v, rd)
    BY <1>5, <2>4, <2>5, <2>6, <2>7 DEF Good
  <2>9. OnScriptsLoaded(w, l) = v
    BY <1>8 DEF OnScriptsLoaded, v
  <2> QED
    BY <1>4, <2>8, <2>9 DEF l, rd
<1> QED
  BY <1>7, <1>8

LEMMA SameChannels ==
    ASSUME IndInv, UNCHANGED <<analysis_rx, sync_rx, arm>>,
           UNCHANGED analysisThreadUnchanged
    PROVE  /\ sync_rx' \in Seq(Files) /\ ArmOK(arm)'
           /\ analysis_rx' \in Seq(Request)
           /\ \A i \in DOMAIN analysis_rx' : RequestAgrees(analysis_rx'[i])
<1>1. ArmOK(arm)'
  BY ChannelFacts DEF ArmOK, Syncing
<1> QED
  BY <1>1, ChannelFacts, SameRequests

LEMMA ReadyArmInd ==
    ASSUME IndInv, ReadyArm
    PROVE  IndInv'
<1>1. PICK stage \in CaughtIn :
        Commit(OnScriptsLoaded(Worker(stage), Head(ready)))
  BY DEF ReadyArm
<1>2. /\ ready # <<>> /\ ready' = Tail(ready)
      /\ UNCHANGED analysisThreadUnchanged
      /\ UNCHANGED <<budget, arm, analysis_rx, sync_rx>>
  BY DEF ReadyArm
<1>3. Good(Worker(stage), ready)
  BY ChannelFacts, AnyStage
<1> DEFINE v == OnScriptsLoaded(Worker(stage), Head(ready))
           rd == Tail(ready)
<1>4. Good(v, rd) /\ \A i \in DOMAIN rd : ReadAgrees(rd[i])
  BY <1>2, <1>3, ChannelFacts, ReadyArmGood
<1> HIDE DEF v
<1>5. Commit(v) /\ budget' \in Budget /\ ready' = rd
  BY <1>1, <1>2, ChannelFacts DEF v
<1> HIDE DEF rd
<1>6. /\ sync_rx' \in Seq(Files) /\ ArmOK(arm)'
      /\ analysis_rx' \in Seq(Request)
      /\ \A i \in DOMAIN analysis_rx' : RequestAgrees(analysis_rx'[i])
  BY <1>2, SameChannels
<1> QED
  BY <1>2, <1>4, <1>5, <1>6, WorkerStep

LEMMA LibraryArmInd ==
    ASSUME IndInv, NEW found \in Harvests, LibraryArm(found)
    PROVE  IndInv'
<1>1. PICK stage \in CaughtIn :
        Commit(PublishGraphDiagnostics(
                   [Cancel(Worker(stage)) EXCEPT !.package = found]))
  BY DEF LibraryArm
<1>2. /\ UNCHANGED analysisThreadUnchanged /\ ready' = ready
      /\ UNCHANGED <<arm, analysis_rx, sync_rx>> /\ budget' \in Budget
  BY SpendTyped DEF LibraryArm, IndInv, analysisThreadUnchanged
<1> DEFINE w == Worker(stage)
           c == Cancel(w)
           u == [c EXCEPT !.package = found]
           v == PublishGraphDiagnostics(u)
<1>3. Good(w, ready)
  BY ChannelFacts, AnyStage
<1> HIDE DEF w
<1>4. WorkerOK(c) /\ Good(c, ready)
  BY <1>3, CancelOK, CancelKeeps, KeepsGood DEF Good
<1> HIDE DEF c
<1>5. c \in WorkerRecord /\ IsFiniteSet(c.jobs)
      /\ found \in [Files -> SUBSET PackageFinding]
  BY <1>4, HarvestsAssumption DEF WorkerOK
<1>6. u \in WorkerRecord
  BY <1>5 DEF WorkerRecord
<1>7. /\ u.scripts = c.scripts /\ u.load = c.load /\ u.parked = c.parked
      /\ u.files = c.files /\ u.out = c.out /\ u.jobs = c.jobs
  BY <1>5 DEF WorkerRecord
<1> HIDE DEF u
<1>8. Good(u, ready)
  <2>1. WorkerOK(u)
    BY <1>5, <1>6, <1>7 DEF WorkerOK
  <2>2. LoadsOK(u, ready) /\ InTransit(ready)
    BY <1>4, <1>7 DEF Good, LoadsOK, Numbered
  <2>3. OnItsWay(u, ready)
    BY <1>4, <1>7 DEF Good, OnItsWay, IsCurrentIn
  <2>4. SpansOK(u)
    BY <1>4, <1>7 DEF Good, SpansOK
  <2> QED
    BY <2>1, <2>2, <2>3, <2>4 DEF Good
<1>9. Good(v, ready)
  BY <1>8, PublishGood
<1> HIDE DEF v
<1>10. Commit(v)
  BY <1>1 DEF v, u, c, w
<1>11. /\ sync_rx' \in Seq(Files) /\ ArmOK(arm)'
       /\ analysis_rx' \in Seq(Request)
       /\ \A i \in DOMAIN analysis_rx' : RequestAgrees(analysis_rx'[i])
  BY <1>2, SameChannels
<1> QED
  BY <1>2, <1>9, <1>10, <1>11, ChannelFacts, WorkerStep

LEMMA DoneArmInd ==
    ASSUME IndInv, NEW job \in jobs, DoneArm(job)
    PROVE  IndInv'
<1> DEFINE Base(stage) == [Worker(stage) EXCEPT !.jobs = @ \ {job}]
           Freed(w) == IF w.inflight = [uri |-> job.uri, version |-> job.version]
                       THEN [w EXCEPT !.inflight = None] ELSE w
<1>1. PICK stage \in CaughtIn :
        \E v \in TryDispatch(Freed(Base(stage))) : Commit(v)
  BY DEF DoneArm
<1>2. /\ UNCHANGED analysisThreadUnchanged
      /\ UNCHANGED <<budget, ready, arm, analysis_rx, sync_rx>>
  BY DEF DoneArm
<1> DEFINE w == Worker(stage)
           b == Base(stage)
           u == Freed(b)
<1>3. Good(w, ready)
  BY ChannelFacts, AnyStage
<1>4. b = [w EXCEPT !.jobs = w.jobs \ {job}]
  BY DEF Worker
<1> HIDE DEF w, b, Base
<1>5. Good(b, ready)
  <2> DEFINE js == w.jobs \ {job}
  <2>1. w \in WorkerRecord /\ IsFiniteSet(w.jobs) /\ w.jobs \in SUBSET Job
    BY <1>3 DEF Good, WorkerOK, WorkerRecord
  <2>2. js \in SUBSET Job /\ IsFiniteSet(js)
    BY <2>1, FS_Subset
  <2> HIDE DEF js
  <2>3. b \in WorkerRecord /\ b.jobs = js
    BY <1>4, <2>1, <2>2 DEF WorkerRecord, js
  <2>4. /\ b.scripts = w.scripts /\ b.load = w.load /\ b.parked = w.parked
        /\ b.package = w.package /\ b.published = w.published
        /\ b.files = w.files /\ b.out = w.out
    BY <1>4, <2>1 DEF WorkerRecord
  <2>5. WorkerOK(b) /\ Keeps(b, w)
    BY <2>2, <2>3, <2>4 DEF WorkerOK, Keeps
  <2> QED
    BY <1>3, <2>4, <2>5, KeepsGood
<1>6. Good(u, ready)
  <2> DEFINE free == [b EXCEPT !.inflight = None]
  <2>1. b \in WorkerRecord /\ IsFiniteSet(b.jobs)
    BY <1>5 DEF Good, WorkerOK
  <2>2. free \in WorkerRecord
    BY <2>1 DEF WorkerRecord
  <2>3. /\ free.scripts = b.scripts /\ free.load = b.load
        /\ free.parked = b.parked /\ free.package = b.package
        /\ free.published = b.published /\ free.files = b.files
        /\ free.out = b.out /\ free.jobs = b.jobs
    BY <2>1 DEF WorkerRecord
  <2>4. u = free \/ u = b
    OBVIOUS
  <2> HIDE DEF free, u
  <2>5. WorkerOK(free) /\ Keeps(free, b)
    BY <2>1, <2>2, <2>3 DEF WorkerOK, Keeps
  <2>6. Good(free, ready)
    BY <1>5, <2>3, <2>5, KeepsGood
  <2> QED
    BY <1>5, <2>4, <2>6
<1>7. \E v \in TryDispatch(u) : Commit(v)
  BY <1>1 DEF b
<1> HIDE DEF u, Freed
<1>8. PICK v \in TryDispatch(u) : Commit(v)
  BY <1>7
<1>9. Good(v, ready)
  BY <1>6, <1>8, TryDispatchGood
<1>10. /\ sync_rx' \in Seq(Files) /\ ArmOK(arm)'
       /\ analysis_rx' \in Seq(Request)
       /\ \A i \in DOMAIN analysis_rx' : RequestAgrees(analysis_rx'[i])
  BY <1>2, SameChannels
<1>11. /\ budget' \in Budget /\ ready' = ready
       /\ \A i \in DOMAIN ready : ReadAgrees(ready[i])
  BY <1>2, ChannelFacts
<1> QED
  BY <1>2, <1>8, <1>9, <1>10, <1>11, WorkerStep

-----------------------------------------------------------------------------
(* The read pool.                                                          *)

LEMMA JobFinishInd ==
    ASSUME IndInv, NEW job \in jobs, JobFinish(job)
    PROVE  IndInv'
<1> DEFINE done == [job EXCEPT !.phase = "done"]
           report == ReportOf(job, job.world)
<1>1. /\ jobs' = (jobs \ {job}) \cup {done}
      /\ out_rx' = Append(out_rx, report)
      /\ UNCHANGED <<fileVars, mainVars, analysis_rx, sync_rx, load_rx, ready,
                     loader, workerVars, budget, historyVars>>
  BY DEF JobFinish
<1>2. /\ jobs \in SUBSET Job /\ IsFiniteSet(jobs) /\ job \in Job
      /\ out_rx \in Seq(Outbound)
  BY DEF IndInv, TypeOK, WorkerTypes
<1>3. done \in Job
  BY <1>2 DEF Job
<1>4. report \in Outbound /\ report.kind = "diagnostics"
  BY <1>2 DEF ReportOf, Job, Outbound
<1> HIDE DEF done, report
<1>5. jobs' \in SUBSET Job /\ IsFiniteSet(jobs')
  <2>1. IsFiniteSet(jobs \ {job})
    BY <1>2, FS_Subset
  <2> QED
    BY <1>1, <1>2, <1>3, <2>1, FS_AddElement
<1>6. out_rx' \in Seq(Outbound) /\ SaysNothingNew
  <2>1. out_rx' \in Seq(Outbound)
    BY <1>1, <1>2, <1>4
  <2>2. \A i \in DOMAIN out_rx' :
          (i \in DOMAIN out_rx /\ out_rx'[i] = out_rx[i]) \/ out_rx'[i] = report
    BY <1>1, <1>2, <1>4
  <2> QED
    BY <1>4, <2>1, <2>2 DEF SaysNothingNew
<1>7. TypeOK'
  <2>1. MainTypes'
    BY <1>1 DEF IndInv, TypeOK, MainTypes, fileVars, mainVars, graphVars
  <2>2. ChannelTypes'
    BY <1>1 DEF IndInv, TypeOK, ChannelTypes, workerVars, historyVars
  <2>3. WorkerTypes'
    BY <1>1, <1>5, <1>6 DEF IndInv, TypeOK, WorkerTypes, workerVars, historyVars
  <2> QED
    BY <2>1, <2>2, <2>3 DEF TypeOK
<1>8. SpansFitBuffer'
  BY <1>1 DEF IndInv, TextsInv, SpansFitBuffer, mainVars, graphVars
<1>9. \A i \in DOMAIN analysis_rx' : RequestAgrees(analysis_rx'[i])
  BY <1>1, SameRequests
<1> QED
  BY <1>1, <1>6, <1>7, <1>8, <1>9, BuffersKept
     DEF mainVars, graphVars, workerVars, historyVars, loadVars

LEMMA JobPanicInd ==
    ASSUME IndInv, NEW job \in jobs, JobPanic(job)
    PROVE  IndInv'
<1>1. /\ panicked' = TRUE /\ jobs' = jobs \ {job}
      /\ orphaned' = orphaned \cup {job.uri}
      /\ UNCHANGED <<fileVars, mainVars, analysis_rx, sync_rx, load_rx, ready,
                     out_rx, loader, workerVars, crossed, missed>>
  BY DEF JobPanic
<1>2. budget' \in Budget
  BY SpendTyped DEF IndInv, JobPanic
<1>3. /\ jobs' \in SUBSET Job /\ IsFiniteSet(jobs')
      /\ orphaned' \in SUBSET Files
  <2>1. /\ jobs \in SUBSET Job /\ IsFiniteSet(jobs)
        /\ orphaned \in SUBSET Files
    BY DEF IndInv, TypeOK, WorkerTypes
  <2>2. job.uri \in Files
    BY <2>1 DEF Job
  <2> QED
    BY <1>1, <2>1, <2>2, FS_Subset
<1>4. TypeOK'
  <2>1. MainTypes'
    BY <1>1 DEF IndInv, TypeOK, MainTypes, fileVars, mainVars, graphVars
  <2>2. ChannelTypes'
    BY <1>1, <1>2 DEF IndInv, TypeOK, ChannelTypes, workerVars
  <2>3. WorkerTypes'
    BY <1>1, <1>3 DEF IndInv, TypeOK, WorkerTypes, workerVars
  <2> QED
    BY <2>1, <2>2, <2>3 DEF TypeOK
<1>5. SpansFitBuffer' /\ SaysNothingNew
  BY <1>1 DEF IndInv, TextsInv, SpansFitBuffer, SaysNothingNew, mainVars, graphVars
<1>6. \A i \in DOMAIN analysis_rx' : RequestAgrees(analysis_rx'[i])
  BY <1>1, SameRequests
<1> QED
  BY <1>1, <1>4, <1>5, <1>6, BuffersKept
     DEF mainVars, graphVars, workerVars, loadVars

-----------------------------------------------------------------------------
(* An arm that has not finished has a request to receive: only the         *)
(* analysis thread takes requests from their channel.                      *)

ArmInv == arm # <<>> => analysis_rx # <<>>

LEMMA RequestsGrow ==
    ASSUME IndInv, ArmInv, arm' = arm, NEW more \in Seq(Request),
           analysis_rx' = analysis_rx \o more
    PROVE  ArmInv'
BY ChannelFacts DEF ArmInv

LEMMA RefreshGrows ==
    ASSUME IndInv, ArmInv, arm' = arm, NEW entries \in SUBSET Files,
           analysis_rx' = analysis_rx \o RefreshOpen(entries)
    PROVE  ArmInv'
BY RequestsGrow, RefreshOpenAgrees DEF IndInv

LEMMA ArmInvKept ==
    ASSUME IndInv, ArmInv, [Next]_vars
    PROVE  ArmInv'
<1>1. ASSUME NEW f \in Files, NEW t \in Buffers[f], SetDocument(f, t)
      PROVE  ArmInv'
  <2>1. /\ arm' = arm /\ analysis_rx \in Seq(Request)
        /\ \E req : analysis_rx' = Append(analysis_rx, req)
    BY <1>1, ChannelFacts DEF SetDocument, workerVars
  <2> QED
    BY <2>1 DEF ArmInv
<1>2. ASSUME NEW f \in Files, DidClose(f) PROVE ArmInv'
  BY <1>2 DEF DidClose, workerVars, ArmInv
<1>3. ASSUME NEW f \in Files, NEW t \in Written, Rewrite(f, t) PROVE ArmInv'
  BY <1>3 DEF Rewrite, workerVars, ArmInv
<1>4. ASSUME NEW f \in Files, NEW reshapes \in BOOLEAN,
             DidChangeWatchedFiles(f, reshapes)
      PROVE  ArmInv'
  <2>1. arm' = arm /\ entry_points \in SUBSET Files
    BY <1>4, EntriesAssumption
       DEF DidChangeWatchedFiles, workerVars, IndInv, TypeOK, MainTypes
  <2>2. CASE reshapes
    <3>1. analysis_rx' = analysis_rx \o RefreshOpen(entry_points)
      BY <1>4, <2>2 DEF DidChangeWatchedFiles
    <3> QED
      BY <2>1, <3>1, RefreshGrows
  <2>3. CASE ~reshapes
    <3>1. analysis_rx' = analysis_rx
      BY <1>4, <2>3 DEF DidChangeWatchedFiles
    <3> QED
      BY <2>1, <3>1 DEF ArmInv
  <2> QED
    BY <2>2, <2>3
<1>5. ASSUME NEW entries \in EntryPoints, DidChangeConfiguration(entries)
      PROVE  ArmInv'
  <2>1. /\ arm' = arm /\ entries \in SUBSET Files
        /\ analysis_rx' = analysis_rx \o RefreshOpen(entries)
    BY <1>5, EntriesAssumption DEF DidChangeConfiguration, workerVars
  <2> QED
    BY <2>1, RefreshGrows
<1>6. ASSUME OnDiagnostics \/ OnProjectDiagnostics PROVE ArmInv'
  BY <1>6 DEF OnDiagnostics, OnProjectDiagnostics, workerVars, ArmInv
<1>7. ASSUME OnDiagnosticsRefresh PROVE ArmInv'
  <2>1. /\ arm' = arm /\ entry_points \in SUBSET Files
        /\ analysis_rx' = analysis_rx \o RefreshOpen(entry_points)
    BY <1>7, EntriesAssumption
       DEF OnDiagnosticsRefresh, workerVars, IndInv, TypeOK, MainTypes
  <2> QED
    BY <2>1, RefreshGrows
<1>8. ASSUME LoaderTakesNewest \/ LoaderPanics \/ \E f \in Files : LoaderReads(f)
      PROVE  ArmInv'
  BY <1>8 DEF LoaderTakesNewest, LoaderReads, LoaderPanics, workerVars, ArmInv
<1>9. ASSUME AnalysisArm \/ SyncArm \/ Receive PROVE ArmInv'
  BY <1>9 DEF AnalysisArm, SyncArm, Receive, ArmGoesOn, ArmInv
<1>10. ASSUME ReadyArm \/ (\E job \in jobs : DoneArm(job))
              \/ (\E found \in Harvests : LibraryArm(found))
       PROVE  ArmInv'
  BY <1>10 DEF ReadyArm, DoneArm, LibraryArm, ArmInv
<1>11. ASSUME NEW job \in jobs, JobFinish(job) \/ JobPanic(job) PROVE ArmInv'
  BY <1>11 DEF JobFinish, JobPanic, workerVars, ArmInv
<1>12. ASSUME UNCHANGED vars PROVE ArmInv'
  BY <1>12 DEF vars, workerVars, ArmInv
<1> QED
  BY <1>1, <1>2, <1>3, <1>4, <1>5, <1>6, <1>7, <1>8, <1>9, <1>10, <1>11, <1>12
     DEF Next, Client, MainLoop, Loader, AnalysisThread

-----------------------------------------------------------------------------
(* The invariant holds at start and every step keeps it.                   *)

LEMMA InitInd ==
    ASSUME Init
    PROVE  IndInv /\ ArmInv
<1>1. TypeOK
  <2>1. MainTypes
    BY TextsAssumption, EntriesAssumption
       DEF Init, MainTypes, NothingFound, Shown
  <2>2. ChannelTypes
    <3>1. arm = <<>> /\ ~Syncing(arm)
      BY DEF Init, Syncing
    <3>2. analysis_rx \in Seq(Request) /\ sync_rx \in Seq(Files)
          /\ ready \in Seq(Loaded)
      BY DEF Init
    <3>3. budget \in Budget /\ loader = None /\ panicked = FALSE
      BY BudgetsAssumption DEF Init
    <3> QED
      BY <3>1, <3>2, <3>3 DEF ChannelTypes
  <2>3. scripts \in Scripts
    BY DEF Init, Scripts, Registrations, Programs, NothingFound
  <2>4. jobs \in SUBSET Job /\ IsFiniteSet(jobs)
    BY FS_EmptySet DEF Init
  <2>5. WorkerTypes
    BY <2>3, <2>4 DEF Init, WorkerTypes, NothingFound
  <2> QED
    BY <2>1, <2>2, <2>5 DEF TypeOK
<1>2. LoadInv
  <2> DEFINE w == Worker("linting")
  <2>1. /\ w.scripts.documents = [f \in Files |-> None]
        /\ w.scripts.entries = {} /\ w.scripts.loading = FALSE
        /\ w.scripts.diagnostics = NothingFound
        /\ w.load = <<>> /\ w.out = <<>> /\ w.parked = None /\ w.files = None
        /\ loader = None /\ ready = <<>>
    BY DEF Init, Worker
  <2>2. WorkerOK(w)
    BY <1>1, WorkerTyped
  <2> HIDE DEF w
  <2>3. InTransit(ready) /\ LoadsOK(w, ready) /\ OnItsWay(w, ready)
    BY <2>1 DEF InTransit, LoadsOK, OnItsWay
  <2>4. SpansOK(w)
    BY <2>1 DEF SpansOK, RegistrationsAgree, FindingsAgree, NothingFound
  <2> QED
    BY <2>2, <2>3, <2>4 DEF LoadInv, Good, w
<1>3. LoaderInv /\ ArmInv
  BY DEF Init, LoaderInv, ArmInv
<1>4. TextsInv
  BY DEF Init, TextsInv, SpansFitBuffer, FindingsAgree, NothingFound
<1> QED
  BY <1>1, <1>2, <1>3, <1>4 DEF IndInv

LEMMA Stutters ==
    ASSUME IndInv, UNCHANGED vars
    PROVE  IndInv'
<1>1. UNCHANGED othersUnchanged /\ load_rx' \in {load_rx, <<>>}
      /\ UNCHANGED <<loader, ready, scripts, panicked, budget, load_rx>>
      /\ UNCHANGED <<pending_script_load, documents, lastVersion>>
  BY DEF vars, othersUnchanged, fileVars, mainVars, graphVars, workerVars, historyVars
<1>2. SaysNothingNew /\ SpansFitBuffer'
  BY <1>1 DEF othersUnchanged, mainVars, graphVars, SaysNothingNew,
              SpansFitBuffer, IndInv, TextsInv
<1>3. TypeOK'
  <2>1. MainTypes' /\ WorkerTypes'
    <3>1. load_rx' \in Seq(Load)
      BY <1>1 DEF IndInv, TypeOK, WorkerTypes
    <3> QED
      BY <1>1, <3>1, OthersTyped DEF IndInv
  <2>2. ChannelTypes'
    BY <1>1 DEF IndInv, TypeOK, ChannelTypes, othersUnchanged, workerVars
  <2> QED
    BY <2>1, <2>2 DEF TypeOK
<1>4. \A i \in DOMAIN analysis_rx' : RequestAgrees(analysis_rx'[i])
  BY <1>1, SameRequests DEF othersUnchanged
<1> QED
  BY <1>1, <1>2, <1>3, <1>4, BuffersKept
     DEF othersUnchanged, mainVars, graphVars, workerVars, loadVars

LEMMA NextInd ==
    ASSUME IndInv, ArmInv, [Next]_vars
    PROVE  IndInv'
<1>1. ASSUME Client PROVE IndInv'
  BY <1>1, SetDocumentInd, DidCloseInd, RewriteInd, DidChangeWatchedFilesInd,
     DidChangeConfigurationInd DEF Client
<1>2. ASSUME MainLoop PROVE IndInv'
  BY <1>2, OnDiagnosticsInd, OnProjectDiagnosticsInd, OnDiagnosticsRefreshInd
     DEF MainLoop
<1>3. ASSUME Loader \/ LoaderPanics PROVE IndInv'
  BY <1>3, LoaderTakesNewestInd, LoaderReadsInd, LoaderPanicsInd DEF Loader
<1>4. ASSUME Receive PROVE IndInv'
  BY <1>4, ReceiveInd DEF Receive, ArmInv
<1>5. ASSUME AnalysisThread PROVE IndInv'
  BY <1>4, <1>5, AnalysisArmInd, SyncArmInd, ReadyArmInd, DoneArmInd,
     LibraryArmInd DEF AnalysisThread
<1>6. ASSUME NEW job \in jobs, JobFinish(job) \/ JobPanic(job) PROVE IndInv'
  BY <1>6, JobFinishInd, JobPanicInd
<1>7. ASSUME UNCHANGED vars PROVE IndInv'
  BY <1>7, Stutters
<1> QED
  BY <1>1, <1>2, <1>3, <1>5, <1>6, <1>7 DEF Next

LEMMA Invariance == Spec => [](IndInv /\ ArmInv)
<1>1. Init => IndInv /\ ArmInv
  BY InitInd
<1>2. IndInv /\ ArmInv /\ [Next]_vars => (IndInv /\ ArmInv)'
  BY NextInd, ArmInvKept
<1> QED
  BY <1>1, <1>2, PTL DEF Spec

-----------------------------------------------------------------------------
(* Results.                                                                *)

(* Every variable and channel keeps its type: buffers carry versions and   *)
(* texts, a load job the registrations it was asked for, a result the      *)
(* contents read, and a message findings about files of the project.       *)
THEOREM TypeCorrect == Spec => []TypeOK
<1>1. IndInv => TypeOK
  BY DEF IndInv
<1> QED
  BY <1>1, Invariance, PTL

(* The last load asked for is never lost: while one is awaited and nothing *)
(* has panicked it is in exactly one of four places, newest of its kind,   *)
(* and asks for what is registered now.  Channels that coalesce, a loader  *)
(* that takes only the newest job, a parked result that a newer one        *)
(* replaces and arms that supersede each other cannot drop it.             *)
THEOREM LoadsArrive == Spec => []LoadIsOnItsWay
<1>1. IndInv => LoadIsOnItsWay
  BY DEF IndInv, LoadInv, Good, OnItsWay, IsCurrentIn, LoadsOK, Worker,
         LoadIsOnItsWay, IsCurrent
<1> QED
  BY <1>1, Invariance, PTL

(* A finding of a script load is displayed only beside the text its span   *)
(* indexes: a version names one text for good, findings travel with the    *)
(* version they were read from, and publish_merged compares it with the    *)
(* open buffer's.                                                          *)
THEOREM SpansFit == Spec => []SpansFitBuffer
<1>1. IndInv => SpansFitBuffer
  BY DEF IndInv, TextsInv
<1> QED
  BY <1>1, Invariance, PTL
=============================================================================
