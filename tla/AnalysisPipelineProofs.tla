----------------------- MODULE AnalysisPipelineProofs -----------------------
(***************************************************************************)
(* Proofs about AnalysisPipeline: its types, that draining a batch is      *)
(* enqueueing its requests one at a time, no lost wake-up, a single        *)
(* analysis at a time, and diagnostics of the current buffer only.  Then   *)
(* what the pipeline comes to: the in-flight slot is always freed, a       *)
(* closed file is left at its disk text, and every open document ends up   *)
(* with the findings of its own text under the current rules.              *)
(***************************************************************************)
EXTENDS AnalysisPipeline, FiniteSetTheorems, SequenceTheorems, TLAPS

-----------------------------------------------------------------------------
(* Facts about the helper operators.                                       *)

Less == {p \in Nat \X Nat : p[1] < p[2]}

LEMMA LeastExists ==
    ASSUME NEW S \in SUBSET Nat, S # {}
    PROVE  \E x \in S : \A y \in S : x =< y
<1>1. Less = OpToRel(<, Nat)
  BY DEF OpToRel, Less
<1>2. IsWellFoundedOn(Less, Nat)
  BY <1>1, NatLessThanWellFounded
<1>3. PICK x \in S : \A y \in S : ~ (<<y, x>> \in Less)
  BY <1>2, WFMin
<1>4. ASSUME NEW y \in S PROVE x =< y
  <2>1. x \in Nat /\ y \in Nat
    OBVIOUS
  <2>2. ~ (y < x)
    BY <1>3, <2>1 DEF Less
  <2> QED
    BY <2>1, <2>2
<1> QED
  BY <1>4

LEMMA MinIsMember ==
    ASSUME NEW n \in Nat, NEW S \in SUBSET (1..n), S # {}
    PROVE  Min(S) \in S
<1>1. \E x \in S : \A y \in S : x =< y
  <2>1. S \in SUBSET Nat
    OBVIOUS
  <2> QED
    BY <2>1, LeastExists
<1> QED
  BY <1>1 DEF Min

LEMMA MaxIsMember ==
    ASSUME NEW n \in Nat, NEW S \in SUBSET (1..n), S # {}
    PROVE  Max(S) \in S /\ \A y \in S : y =< Max(S)
<1> DEFINE D == {n - i : i \in S}
<1>1. D \in SUBSET Nat /\ D # {}
  <2>1. \A i \in S : n - i \in Nat
    OBVIOUS
  <2>2. PICK i \in S : TRUE
    OBVIOUS
  <2>3. n - i \in D
    OBVIOUS
  <2> QED
    BY <2>1, <2>3
<1>2. PICK x \in D : \A y \in D : x =< y
  BY <1>1, LeastExists
<1>3. PICK i \in S : x = n - i
  OBVIOUS
<1>4. \A j \in S : i >= j
  BY <1>2, <1>3
<1>5. Max(S) \in S /\ \A j \in S : Max(S) >= j
  BY <1>4 DEF Max
<1> QED
  BY <1>5

LEMMA RequestForType ==
    ASSUME NEW d \in Docs, NEW doc \in Document, NEW r \in 0..MaxRules
    PROVE  RequestFor(d, doc, r) \in Request
BY DEF RequestFor, Document, Request

LEMMA WorldType ==
    ASSUME NEW d \in Docs, NEW trk \in [Docs -> Texts \cup {None}],
           NEW lib \in 0..MaxLibrary, \A e \in Members : trk[e] \in Texts
    PROVE  World(d, trk, lib) \in Worlds
<1>1. Siblings(d) \subseteq Members
  BY DEF Siblings
<1>2. [e \in Siblings(d) |-> ProjectionOf[trk[e]]]
          \in [Siblings(d) -> Projections]
  BY <1>1 DEF Projections
<1>3. Siblings(d) \in SUBSET Docs
  BY <1>1, MembersAssumption
<1> QED
  BY <1>2, <1>3 DEF World, Worlds

LEMMA ReportType ==
    ASSUME NEW job \in Job, NEW world \in Worlds \cup {None}
    PROVE  ReportOf(job, world) \in Report
<1>1. [text |-> job.text, rules |-> job.rules, world |-> world] \in Diags
  BY DEF Job, Diags
<1>2. job.uri \in Docs /\ job.version \in Versions
  BY DEF Job
<1> QED
  BY <1>1, <1>2 DEF ReportOf, Report

JobSlots == Job \cup AnalyzeDone \cup {None}

LEMMA LiveIsJob ==
    ASSUME NEW x \in JobSlots
    PROVE  /\ Live(x) => x \in Job
           /\ x \in Job => Live(x)
           /\ x \in AnalyzeDone => x # None /\ x.phase = "done"
           /\ x # None /\ ~ Live(x) => x \in AnalyzeDone
BY NoneAssumption DEF Live, Job, AnalyzeDone, JobSlots

LEMMA UnwoundType ==
    ASSUME NEW job \in Job, NEW stage
    PROVE  Unwound(job, stage) \in AnalyzeDone
BY DEF Unwound, DoneOf, Job, AnalyzeDone

LEMMA ColdReportsType ==
    ASSUME NEW js \in [JobIds -> JobSlots]
    PROVE  ColdReports(js) \in Seq(Report)
<1> DEFINE live == {j \in JobIds : Live(js[j])}
           order == CHOOSE f \in Bijection(1..Cardinality(live), live) : TRUE
<1>1. IsFiniteSet(live)
  BY FiniteAssumption, FS_Subset
<1>2. /\ Cardinality(live) \in Nat
      /\ order \in [1..Cardinality(live) -> live]
  BY <1>1, FS_CardinalityType DEF ExistsBijection, Bijection, Injection
<1>3. \A i \in 1..Cardinality(live) : ReportOf(js[order[i]], None) \in Report
  <2> SUFFICES ASSUME NEW i \in 1..Cardinality(live)
               PROVE  ReportOf(js[order[i]], None) \in Report
    OBVIOUS
  <2>1. order[i] \in live
    BY <1>2
  <2>2. js[order[i]] \in Job
    BY <2>1, LiveIsJob
  <2> QED
    BY <2>2, ReportType
<1> DEFINE reports == [i \in 1..Cardinality(live) |->
                          ReportOf(js[order[i]], None)]
<1>4. reports \in [1..Cardinality(live) -> Report]
  BY <1>3
<1> HIDE DEF reports
<1>5. reports \in Seq(Report)
  <2> DEFINE n == Cardinality(live)
  <2>1. n \in Nat /\ reports \in [1..n -> Report]
    BY <1>2, <1>4
  <2> HIDE DEF n
  <2> QED
    BY <2>1, SeqDef
<1> QED
  BY <1>5 DEF ColdReports, reports

-----------------------------------------------------------------------------
(* Types of the record an arm works on.                                    *)

Outbound == Report \cup {Refresh}

WorkerRecord ==
    [pending : [Docs -> Request \cup {None}], inflight : Flight \cup {None},
     active : Docs \cup {None},
     projections : [Docs -> Projections \cup {None}],
     tracked : [Docs -> Texts \cup {None}], library : 0..MaxLibrary,
     jobs : [JobIds -> JobSlots], out : Seq(Outbound),
     orphaned : SUBSET Docs, stage : Stages]

WorkerOK(w) ==
    /\ w \in WorkerRecord
    /\ \A d \in Docs : w.pending[d] # None => w.pending[d].uri = d
    /\ \A d \in Members : w.tracked[d] \in Texts

LEMMA CancelOK ==
    ASSUME NEW w, WorkerOK(w)
    PROVE  WorkerOK(Cancel(w))
<1> DEFINE out == IF w.stage = "linting" THEN w.out \o ColdReports(w.jobs)
                                         ELSE w.out
           js == [j \in JobIds |-> IF Live(w.jobs[j])
                                   THEN Unwound(w.jobs[j], w.stage)
                                   ELSE w.jobs[j]]
<1>1. /\ w \in WorkerRecord
      /\ w.jobs \in [JobIds -> JobSlots] /\ w.out \in Seq(Outbound)
  BY DEF WorkerOK, WorkerRecord
<1>2. out \in Seq(Outbound)
  <2>1. ColdReports(w.jobs) \in Seq(Outbound)
    BY <1>1, ColdReportsType DEF Outbound
  <2> QED
    BY <1>1, <2>1
<1>3. js \in [JobIds -> JobSlots]
  BY <1>1, LiveIsJob, UnwoundType DEF JobSlots
<1>4. Cancel(w) = [w EXCEPT !.out = out, !.jobs = js]
  BY DEF Cancel
<1> HIDE DEF out, js
<1>5. Cancel(w) \in WorkerRecord
  BY <1>1, <1>2, <1>3, <1>4 DEF WorkerRecord
<1>6. Cancel(w).pending = w.pending /\ Cancel(w).tracked = w.tracked
  BY <1>1, <1>4 DEF WorkerRecord
<1> QED
  BY <1>5, <1>6 DEF WorkerOK

LEMMA UpsertOK ==
    ASSUME NEW w, WorkerOK(w), NEW d \in Docs, NEW t \in Texts
    PROVE  WorkerOK(Upsert(w, d, t))
<1> DEFINE written == IF w.tracked[d] \in {t, None} THEN w ELSE Cancel(w)
<1>1. WorkerOK(written)
  BY CancelOK
<1>2. Upsert(w, d, t) = [written EXCEPT !.tracked[d] = t]
  BY DEF Upsert
<1> HIDE DEF written
<1>3. written.tracked \in [Docs -> Texts \cup {None}] /\ written \in WorkerRecord
  BY <1>1 DEF WorkerOK, WorkerRecord
<1>4. [written EXCEPT !.tracked[d] = t] \in WorkerRecord
  BY <1>3 DEF WorkerRecord
<1>5. /\ Upsert(w, d, t).pending = written.pending
      /\ \A e \in Docs : Upsert(w, d, t).tracked[e] =
                            IF e = d THEN t ELSE written.tracked[e]
  BY <1>2, <1>3 DEF WorkerRecord
<1> QED
  BY <1>1, <1>2, <1>4, <1>5, MembersAssumption DEF WorkerOK

(* A coalesced request carries the version and the text of one it merged.  *)
LEMMA CoalesceOrigin ==
    ASSUME NEW p \in Request \cup {None}, NEW q \in Seq(Request),
           NEW d \in Docs, p # None => p.uri = d,
           Coalesce(p, q, d) # None
    PROVE  /\ Coalesce(p, q, d) \in Request
           /\ Coalesce(p, q, d).uri = d
           /\ \E r \in {p} \cup {q[i] : i \in DOMAIN q} :
                /\ r \in Request /\ r.uri = d
                /\ Coalesce(p, q, d).version = r.version
                /\ Coalesce(p, q, d).text = r.text
<1> DEFINE best == Latest(p, q, d)
<1>1. CASE best = {}
  BY <1>1 DEF Coalesce
<1>2. CASE best # {}
  <2> DEFINE first == q[Min(best)]
             last == q[Max(best)]
             kept == IF p # None /\ p.version = first.version THEN p
                                                             ELSE first
  <2>1. best \in SUBSET (1..Len(q)) /\ Len(q) \in Nat
    BY DEF Latest
  <2>2. Min(best) \in best /\ Max(best) \in best
    BY <1>2, <2>1, MinIsMember, MaxIsMember
  <2>3. /\ first \in Request /\ first.uri = d
        /\ first \in {q[i] : i \in DOMAIN q}
        /\ last \in Request
    <3>1. Min(best) \in 1..Len(q) /\ Max(best) \in 1..Len(q)
      BY <2>1, <2>2
    <3>2. q[Min(best)].uri = d
      BY <2>2 DEF Latest
    <3>3. \A i \in 1..Len(q) : i \in DOMAIN q /\ q[i] \in Request
      OBVIOUS
    <3> QED
      BY <3>1, <3>2, <3>3
  <2>4. Coalesce(p, q, d) = [kept EXCEPT !.rules = last.rules]
    BY <1>2 DEF Coalesce
  <2>5. kept \in Request /\ kept.uri = d
        /\ kept \in {p} \cup {q[i] : i \in DOMAIN q}
    BY <2>3
  <2> HIDE DEF first, last, kept
  <2>6. last.rules \in 0..MaxRules
    BY <2>3 DEF Request
  <2>7. /\ Coalesce(p, q, d) \in Request
        /\ Coalesce(p, q, d).uri = kept.uri
        /\ Coalesce(p, q, d).version = kept.version
        /\ Coalesce(p, q, d).text = kept.text
    BY <2>4, <2>5, <2>6 DEF Request
  <2> QED
    BY <2>5, <2>7
<1> QED
  BY <1>1, <1>2

LEMMA DrainOK ==
    ASSUME NEW w, WorkerOK(w), NEW q \in Seq(Request)
    PROVE  WorkerOK(Drain(w, q))
<1>1. CASE q = <<>>
  BY <1>1 DEF Drain
<1>2. CASE q # <<>>
  <2> DEFINE pnd == [d \in Docs |-> Coalesce(w.pending[d], q, d)]
             act == q[Len(q)].uri
  <2>1. w \in WorkerRecord /\ w.pending \in [Docs -> Request \cup {None}]
    BY DEF WorkerOK, WorkerRecord
  <2>2. \A d \in Docs : pnd[d] # None => pnd[d] \in Request /\ pnd[d].uri = d
    BY <2>1, CoalesceOrigin DEF WorkerOK
  <2>3. pnd \in [Docs -> Request \cup {None}]
    BY <2>2
  <2>4. act \in Docs
    <3>1. Len(q) \in 1..Len(q)
      BY <1>2
    <3>2. q[Len(q)] \in Request
      BY <3>1
    <3> QED
      BY <3>2 DEF Request
  <2>5. Drain(w, q) = [w EXCEPT !.pending = pnd, !.active = act]
    BY <1>2 DEF Drain
  <2> HIDE DEF pnd, act
  <2>6. Drain(w, q) \in WorkerRecord
    BY <2>1, <2>3, <2>4, <2>5 DEF WorkerRecord
  <2>7. Drain(w, q).pending = pnd /\ Drain(w, q).tracked = w.tracked
    BY <2>1, <2>5 DEF WorkerRecord
  <2> QED
    BY <2>2, <2>6, <2>7 DEF WorkerOK
<1> QED
  BY <1>1, <1>2

LEMMA RevertOK ==
    ASSUME NEW w, WorkerOK(w), NEW d \in Docs, disk \in [Docs -> Texts]
    PROVE  WorkerOK(Revert(w, d))
<1> DEFINE v == Upsert(w, d, disk[d])
           cut == {w.jobs[j].uri : j \in {i \in JobIds : Live(w.jobs[i])}}
<1>1. WorkerOK(v)
  BY UpsertOK
<1>2. cut \subseteq Docs
  <2>1. \A i \in JobIds : Live(w.jobs[i]) => w.jobs[i] \in Job
    BY LiveIsJob DEF WorkerOK, WorkerRecord
  <2> QED
    BY <2>1 DEF Job
<1>3. v \in WorkerRecord
  BY <1>1 DEF WorkerOK
<1> HIDE DEF v, cut
<1>4. WorkerOK([v EXCEPT !.orphaned = @ \cup cut])
  BY <1>1, <1>2, <1>3 DEF WorkerOK, WorkerRecord
<1> QED
  BY <1>4 DEF Revert, v, cut

LEMMA DropQueuedOK ==
    ASSUME NEW w, WorkerOK(w), NEW d \in Docs
    PROVE  WorkerOK(DropQueued(w, d))
BY DEF WorkerOK, WorkerRecord, DropQueued

LEMMA SendRefreshOK ==
    ASSUME NEW w, WorkerOK(w)
    PROVE  WorkerOK(SendRefresh(w))
<1>1. w \in WorkerRecord /\ w.out \in Seq(Outbound)
  BY DEF WorkerOK, WorkerRecord
<1>2. Append(w.out, Refresh) \in Seq(Outbound)
  BY <1>1 DEF Outbound
<1> QED
  BY <1>1, <1>2 DEF WorkerOK, WorkerRecord, SendRefresh

LEMMA ForgetProjectionOK ==
    ASSUME NEW w, WorkerOK(w), NEW d \in Docs
    PROVE  WorkerOK(ForgetProjection(w, d))
<1>1. WorkerOK([w EXCEPT !.projections[d] = None])
  BY DEF WorkerOK, WorkerRecord
<1> QED
  BY <1>1, SendRefreshOK DEF ForgetProjection

LEMMA RecordProjectionOK ==
    ASSUME NEW w, WorkerOK(w), NEW job \in AnalyzeDone
    PROVE  WorkerOK(RecordProjection(w, job))
<1>1. /\ w \in WorkerRecord /\ job.uri \in Docs
      /\ job.projection \in Projections \cup {None}
  BY DEF AnalyzeDone, WorkerOK
<1>2. WorkerOK([w EXCEPT !.projections[job.uri] = job.projection])
  BY <1>1 DEF WorkerOK, WorkerRecord
<1> QED
  BY <1>2, SendRefreshOK DEF RecordProjection

LEMMA OnDoneOK ==
    ASSUME NEW w, WorkerOK(w), NEW job \in AnalyzeDone
    PROVE  WorkerOK(OnDone(w, job))
<1>1. WorkerOK([w EXCEPT !.inflight = None])
  BY DEF WorkerOK, WorkerRecord
<1> QED
  BY <1>1, RecordProjectionOK DEF OnDone

(* What a cancelling write does to the rest of the record.                 *)
SameButJobs(v, w) ==
    /\ v.pending = w.pending /\ v.inflight = w.inflight
    /\ v.active = w.active /\ v.projections = w.projections
    /\ v.library = w.library

LEMMA CancelFrame ==
    ASSUME NEW w, WorkerOK(w)
    PROVE  /\ SameButJobs(Cancel(w), w)
           /\ Cancel(w).tracked = w.tracked
           /\ \A j \in JobIds :
                Cancel(w).jobs[j] = IF Live(w.jobs[j])
                                    THEN Unwound(w.jobs[j], w.stage)
                                    ELSE w.jobs[j]
BY DEF WorkerOK, WorkerRecord, Cancel, SameButJobs

LEMMA UpsertFrame ==
    ASSUME NEW w, WorkerOK(w), NEW d \in Docs, NEW t \in Texts
    PROVE  /\ SameButJobs(Upsert(w, d, t), w)
           /\ Upsert(w, d, t).jobs \in {w.jobs, Cancel(w).jobs}
           /\ \A j \in JobIds :
                Upsert(w, d, t).jobs[j] = None <=> w.jobs[j] = None
<1> DEFINE written == IF w.tracked[d] \in {t, None} THEN w ELSE Cancel(w)
<1>1. /\ SameButJobs(written, w)
      /\ written.jobs \in {w.jobs, Cancel(w).jobs}
  BY CancelFrame DEF SameButJobs
<1>2. WorkerOK(written)
  BY CancelOK
<1>3. Upsert(w, d, t) = [written EXCEPT !.tracked[d] = t]
  BY DEF Upsert
<1> HIDE DEF written
<1>4. /\ SameButJobs(Upsert(w, d, t), written)
      /\ Upsert(w, d, t).jobs = written.jobs
  BY <1>2, <1>3 DEF WorkerOK, WorkerRecord, SameButJobs
<1>5. \A j \in JobIds : Cancel(w).jobs[j] = None <=> w.jobs[j] = None
  <2> TAKE j \in JobIds
  <2>1. w.jobs[j] \in JobSlots
    BY DEF WorkerOK, WorkerRecord
  <2>2. CASE Live(w.jobs[j])
    <3>1. Unwound(w.jobs[j], w.stage) \in AnalyzeDone
      BY <2>1, <2>2, LiveIsJob, UnwoundType
    <3>2. None \notin AnalyzeDone
      BY NoneAssumption
    <3>3. w.jobs[j] # None
      BY <2>2 DEF Live
    <3> QED
      BY <2>2, <3>1, <3>2, <3>3, CancelFrame
  <2>3. CASE ~ Live(w.jobs[j])
    BY <2>3, CancelFrame
  <2> QED
    BY <2>2, <2>3
<1> QED
  BY <1>1, <1>4, <1>5 DEF SameButJobs

(* What starting an analysis does: from w, x holds one more job, for the   *)
(* request that was pending for d.                                         *)
StartsJob(w, d, x) ==
    \E id \in JobIds :
        /\ w.jobs[id] = None
        /\ x.jobs[id] \in Job
        /\ x.jobs[id].uri = d
        /\ x.jobs[id].version = w.pending[d].version
        /\ x.jobs[id].text = w.pending[d].text
        /\ x.jobs[id].rules = w.pending[d].rules
        /\ x.jobs[id].world.library = w.library
        /\ \A j \in JobIds \ {id} :
             x.jobs[j] = Upsert(w, d, w.pending[d].text).jobs[j]

LEMMA StartEffect ==
    ASSUME NEW w, WorkerOK(w), NEW d \in Docs, w.pending[d] # None,
           \E j \in JobIds : w.jobs[j] = None
    PROVE  /\ WorkerOK(Start(w, d))
           /\ Start(w, d).pending = [w.pending EXCEPT ![d] = None]
           /\ Start(w, d).inflight =
                [uri |-> d, version |-> w.pending[d].version]
           /\ Start(w, d).tracked = Upsert(w, d, w.pending[d].text).tracked
           /\ Start(w, d).out = Upsert(w, d, w.pending[d].text).out
           /\ Start(w, d).orphaned =
                Upsert(w, d, w.pending[d].text).orphaned \ {d}
           /\ Start(w, d).library = w.library
           /\ StartsJob(w, d, Start(w, d))
<1> DEFINE req == w.pending[d]
           v == Upsert(w, d, req.text)
           id == CHOOSE j \in JobIds : v.jobs[j] = None
           job == [uri |-> d, version |-> req.version, text |-> req.text,
                   rules |-> req.rules,
                   world |-> World(d, v.tracked, v.library),
                   phase |-> "running",
                   projection |-> IF d \in Members
                                  THEN ProjectionOf[req.text] ELSE None]
<1>1. /\ req \in Request
      /\ req.text \in Texts /\ req.version \in Versions
      /\ req.rules \in 0..MaxRules
  BY DEF WorkerOK, WorkerRecord, Request
<1>2. /\ WorkerOK(v) /\ v.pending = w.pending /\ v.library = w.library
      /\ \A j \in JobIds : v.jobs[j] = None <=> w.jobs[j] = None
  BY <1>1, UpsertOK, UpsertFrame DEF SameButJobs
<1>3. id \in JobIds /\ w.jobs[id] = None
  BY <1>2
<1>4. job \in Job
  <2>1. World(d, v.tracked, v.library) \in Worlds
    BY <1>2, WorldType DEF WorkerOK, WorkerRecord
  <2>2. ProjectionOf[req.text] \in Projections
    BY <1>1 DEF Projections
  <2> QED
    BY <1>1, <2>1, <2>2 DEF Job
<1>5. Start(w, d) =
        [v EXCEPT !.pending[d] = None,
                  !.inflight = [uri |-> d, version |-> req.version],
                  !.orphaned = @ \ {d},
                  !.jobs[id] = job]
  BY DEF Start
<1>6. [uri |-> d, version |-> req.version] \in Flight
  BY <1>1 DEF Flight
<1>7. /\ job.uri = d /\ job.version = req.version /\ job.text = req.text
      /\ job.rules = req.rules /\ job.world.library = w.library
  BY <1>2 DEF World
<1> HIDE DEF v, id, job
<1>8. v \in WorkerRecord
  BY <1>2 DEF WorkerOK
<1>9. /\ Start(w, d) \in WorkerRecord
      /\ Start(w, d).pending = [w.pending EXCEPT ![d] = None]
      /\ Start(w, d).inflight = [uri |-> d, version |-> req.version]
      /\ Start(w, d).jobs = [v.jobs EXCEPT ![id] = job]
      /\ Start(w, d).tracked = v.tracked
      /\ Start(w, d).out = v.out
      /\ Start(w, d).orphaned = v.orphaned \ {d}
      /\ Start(w, d).library = v.library
  <2> DEFINE pnd == [v.pending EXCEPT ![d] = None]
             fly == [uri |-> d, version |-> req.version]
             orp == v.orphaned \ {d}
             js == [v.jobs EXCEPT ![id] = job]
  <2>1. pnd \in [Docs -> Request \cup {None}] /\ orp \in SUBSET Docs
    BY <1>8 DEF WorkerRecord
  <2>2. js \in [JobIds -> JobSlots]
    BY <1>3, <1>4, <1>8 DEF WorkerRecord, JobSlots
  <2>3. Start(w, d) = [v EXCEPT !.pending = pnd, !.inflight = fly,
                                !.orphaned = orp, !.jobs = js]
    BY <1>5, <1>8 DEF WorkerRecord
  <2> HIDE DEF pnd, fly, orp, js, req
  <2>4. fly \in Flight
    BY <1>6 DEF fly, req
  <2>5. /\ Start(w, d) \in WorkerRecord
        /\ Start(w, d).pending = pnd
        /\ Start(w, d).inflight = fly
        /\ Start(w, d).jobs = js
        /\ Start(w, d).tracked = v.tracked
        /\ Start(w, d).out = v.out
        /\ Start(w, d).orphaned = orp
        /\ Start(w, d).library = v.library
    BY <1>8, <2>1, <2>2, <2>3, <2>4 DEF WorkerRecord
  <2> QED
    BY <1>2, <2>5 DEF pnd, fly, js, orp, req
<1>10. v.jobs \in [JobIds -> JobSlots]
  BY <1>8 DEF WorkerRecord
<1>11. WorkerOK(Start(w, d))
  BY <1>2, <1>9 DEF WorkerOK, WorkerRecord
<1>12. /\ job \in Job /\ job.uri = d
       /\ job.version = w.pending[d].version
       /\ job.text = w.pending[d].text
       /\ job.rules = w.pending[d].rules
       /\ job.world.library = w.library
  BY <1>4, <1>7
<1>13. /\ Start(w, d).jobs[id] = job
       /\ \A j \in JobIds \ {id} : Start(w, d).jobs[j] = v.jobs[j]
  BY <1>3, <1>9, <1>10
<1>14. StartsJob(w, d, Start(w, d))
  BY <1>3, <1>12, <1>13 DEF v, StartsJob
<1> QED
  BY <1>2, <1>9, <1>11, <1>14 DEF v

(* The record Start is given when an analysis supersedes the one in flight. *)
Superseded(w) == [Cancel(w) EXCEPT !.inflight = None]

LEMMA SupersededOK ==
    ASSUME NEW w, WorkerOK(w)
    PROVE  /\ WorkerOK(Superseded(w))
           /\ Superseded(w).pending = w.pending
           /\ Superseded(w).inflight = None
           /\ Superseded(w).jobs = Cancel(w).jobs
           /\ \A j \in JobIds :
                w.jobs[j] = None => Superseded(w).jobs[j] = None
<1>1. WorkerOK(Cancel(w))
  BY CancelOK
<1>2. /\ WorkerOK(Superseded(w))
      /\ Superseded(w).pending = Cancel(w).pending
      /\ Superseded(w).inflight = None
      /\ Superseded(w).jobs = Cancel(w).jobs
  BY <1>1 DEF Superseded, WorkerOK, WorkerRecord
<1> QED
  BY <1>2, CancelFrame DEF SameButJobs, Live

LEMMA TryDispatchCases ==
    ASSUME NEW w, WorkerOK(w), NEW x \in TryDispatch(w)
    PROVE  \/ /\ x = w
              /\ Decide(w) = {}
           \/ \E d \in Docs :
                /\ w.inflight = None
                /\ w.pending[d] # None
                /\ x = Start(w, d)
           \/ \E d \in Docs :
                /\ w.inflight # None
                /\ d = w.inflight.uri
                /\ w.pending[d] # None
                /\ w.pending[d].version > w.inflight.version
                /\ x = Start(Superseded(w), d)
<1>1. CASE Decide(w) = {}
  BY <1>1 DEF TryDispatch
<1>2. CASE Decide(w) # {} /\ w.inflight = None
  <2>1. PICK d \in Decide(w) : x = Start(w, d)
    BY <1>2 DEF TryDispatch
  <2>2. d \in Waiting(w)
    BY <1>2 DEF Decide
  <2> QED
    BY <1>2, <2>1, <2>2 DEF Waiting
<1>3. CASE Decide(w) # {} /\ w.inflight # None
  <2>1. PICK d \in Decide(w) : x = Start(Superseded(w), d)
    BY <1>3 DEF TryDispatch, Superseded
  <2>2. /\ d \in Waiting(w) /\ d = w.inflight.uri
        /\ w.pending[d].version > w.inflight.version
    BY <1>3 DEF Decide
  <2> QED
    BY <1>3, <2>1, <2>2 DEF Waiting
<1> QED
  BY <1>1, <1>2, <1>3

LEMMA TryDispatchOK ==
    ASSUME NEW w, WorkerOK(w), NEW x \in TryDispatch(w),
           \E j \in JobIds : w.jobs[j] = None
    PROVE  WorkerOK(x)
<1>1. CASE x = w
  BY <1>1
<1>2. ASSUME NEW d \in Docs, w.pending[d] # None, x = Start(w, d)
      PROVE  WorkerOK(x)
  BY <1>2, StartEffect
<1>3. ASSUME NEW d \in Docs, w.pending[d] # None, x = Start(Superseded(w), d)
      PROVE  WorkerOK(x)
  <2>1. /\ WorkerOK(Superseded(w)) /\ Superseded(w).pending[d] # None
        /\ \E j \in JobIds : Superseded(w).jobs[j] = None
    BY <1>3, SupersededOK
  <2> QED
    BY <1>3, <2>1, StartEffect
<1> QED
  BY <1>1, <1>2, <1>3, TryDispatchCases

(* Each arm's change, before the dispatch that ends it.                    *)
LEMMA OnSyncOK ==
    ASSUME NEW w, WorkerOK(w), NEW d \in Docs, disk \in [Docs -> Texts]
    PROVE  WorkerOK(OnSync(w, d))
<1>1. WorkerOK(DropQueued(w, d))
  BY DropQueuedOK
<1>2. WorkerOK(Revert(DropQueued(w, d), d))
  BY <1>1, RevertOK
<1> QED
  BY <1>2, ForgetProjectionOK DEF OnSync

-----------------------------------------------------------------------------
(* Type correctness.                                                       *)

(* Versions the client hands out grow with its edits, and package files    *)
(* are seeded into the database before any analysis reads them.            *)
TypeInv ==
    /\ TypeOK
    /\ \A d \in Docs : lastVersion[d] <= edits
    /\ \A d \in Docs :
         documents[d] # None => documents[d].version <= edits
    /\ \A d \in Members : tracked[d] \in Texts

LEMMA WorkerTyped ==
    ASSUME TypeInv, NEW stage \in Stages
    PROVE  WorkerOK(Worker(stage))
<1> USE DEF TypeInv, TypeOK
<1>1. Worker(stage) \in WorkerRecord
  BY DEF Worker, WorkerRecord, JobSlots, Outbound
<1> QED
  BY <1>1 DEF WorkerOK, Worker

WorkerTypes ==
    /\ out_rx \in Seq(Report \cup {Refresh})
    /\ pending \in [Docs -> Request \cup {None}]
    /\ \A d \in Docs : pending[d] # None => pending[d].uri = d
    /\ inflight \in Flight \cup {None}
    /\ active \in Docs \cup {None}
    /\ import_projections \in [Docs -> Projections \cup {None}]
    /\ tracked \in [Docs -> Texts \cup {None}]
    /\ \A d \in Members : tracked[d] \in Texts
    /\ library \in 0..MaxLibrary
    /\ jobs \in [JobIds -> Job \cup AnalyzeDone \cup {None}]
    /\ orphaned \subseteq Docs

LEMMA CommitTyped ==
    ASSUME NEW w, WorkerOK(w), Commit(w)
    PROVE  WorkerTypes'
BY DEF Commit, WorkerOK, WorkerRecord, WorkerTypes, JobSlots, Outbound

(* Free job ids stay free until a start takes one.                         *)
FreeJob(w) == \E j \in JobIds : w.jobs[j] = None

LEMMA DrainFrame ==
    ASSUME NEW w, WorkerOK(w), NEW q
    PROVE  /\ Drain(w, q).jobs = w.jobs
           /\ Drain(w, q).inflight = w.inflight
           /\ Drain(w, q).tracked = w.tracked
BY DEF Drain, WorkerOK, WorkerRecord

LEMMA DrainKeepsFree ==
    ASSUME NEW w, WorkerOK(w), FreeJob(w), NEW q
    PROVE  FreeJob(Drain(w, q))
BY DrainFrame DEF FreeJob

LEMMA OnDoneFrame ==
    ASSUME NEW w, WorkerOK(w), NEW job
    PROVE  /\ OnDone(w, job).jobs = w.jobs
           /\ OnDone(w, job).pending = w.pending
           /\ OnDone(w, job).inflight =
                IF w.inflight = [uri |-> job.uri, version |-> job.version]
                THEN None ELSE w.inflight
BY DEF OnDone, RecordProjection, SendRefresh, WorkerOK, WorkerRecord

LEMMA OnSyncFrame ==
    ASSUME NEW w, WorkerOK(w), NEW d \in Docs, disk \in [Docs -> Texts]
    PROVE  /\ OnSync(w, d).jobs \in {w.jobs, Cancel(DropQueued(w, d)).jobs}
           /\ OnSync(w, d).inflight = w.inflight
           /\ OnSync(w, d).pending = DropQueued(w, d).pending
           /\ FreeJob(w) => FreeJob(OnSync(w, d))
<1> DEFINE v == DropQueued(w, d)
           u == Upsert(v, d, disk[d])
           r == Revert(v, d)
<1>1. /\ WorkerOK(v) /\ v.jobs = w.jobs /\ v.inflight = w.inflight
  <2>1. WorkerOK(v)
    BY DropQueuedOK
  <2> QED
    BY <2>1 DEF DropQueued, WorkerOK, WorkerRecord
<1>2. /\ SameButJobs(u, v)
      /\ u.jobs \in {v.jobs, Cancel(v).jobs}
      /\ \A j \in JobIds : u.jobs[j] = None <=> v.jobs[j] = None
      /\ WorkerOK(u)
  BY <1>1, UpsertFrame, UpsertOK
<1> HIDE DEF u, v
<1>3. /\ r.jobs \in {v.jobs, u.jobs}
      /\ r.inflight = v.inflight /\ r.pending = v.pending
  BY <1>2 DEF Revert, SameButJobs, u, WorkerOK, WorkerRecord
<1>4. WorkerOK(r)
  BY <1>1, RevertOK
<1> HIDE DEF r
<1>5. /\ OnSync(w, d).jobs = r.jobs
      /\ OnSync(w, d).inflight = r.inflight
      /\ OnSync(w, d).pending = r.pending
  <2>1. OnSync(w, d) = ForgetProjection(r, d)
    BY DEF OnSync, r, v
  <2> QED
    BY <1>4, <2>1 DEF ForgetProjection, SendRefresh, WorkerOK, WorkerRecord
<1> QED
  BY <1>1, <1>2, <1>3, <1>5 DEF FreeJob, v

LEMMA SendAllType ==
    ASSUME TypeOK, NEW r \in 0..MaxRules, SendAll(OpenDocs, r)
    PROVE  analysis_rx' \in Seq(Request)
<1>1. PICK order \in Bijection(1..Cardinality(OpenDocs), OpenDocs) :
        analysis_rx' = analysis_rx \o
            [i \in DOMAIN order |->
                RequestFor(order[i], documents[order[i]], r)]
  BY DEF SendAll
<1>2. Cardinality(OpenDocs) \in Nat
  BY FiniteAssumption, FS_Subset, FS_CardinalityType DEF OpenDocs
<1>3. order \in [1..Cardinality(OpenDocs) -> OpenDocs]
  BY <1>1 DEF Bijection, Injection
<1> DEFINE requests == [i \in 1..Cardinality(OpenDocs) |->
                          RequestFor(order[i], documents[order[i]], r)]
<1>4. \A d \in OpenDocs : d \in Docs /\ documents[d] \in Document
  BY DEF OpenDocs, TypeOK
<1>5. requests \in [1..Cardinality(OpenDocs) -> Request]
  BY <1>3, <1>4, RequestForType
<1>6. analysis_rx' = analysis_rx \o requests
  BY <1>1, <1>3
<1> HIDE DEF requests
<1>7. requests \in Seq(Request)
  BY <1>2, <1>5, SeqDef
<1> QED
  BY <1>6, <1>7 DEF TypeOK

LEMMA InitTyped == Init => TypeInv
BY TextsAssumption, BoundsAssumption, MembersAssumption, NoneAssumption
   DEF Init, TypeInv, TypeOK, Document, Diags, Request, Flight, Job, AnalyzeDone

LEMMA StageTyped == CaughtIn \subseteq Stages
BY DEF CaughtIn, Stages

(* An arm builds a record, dispatches, and commits an outcome.             *)
Dispatches(w) ==
    /\ WorkerOK(w)
    /\ FreeJob(w)
    /\ \E x \in TryDispatch(w) : Commit(x)

LEMMA DispatchesTyped ==
    ASSUME NEW w, Dispatches(w)
    PROVE  WorkerTypes'
BY TryDispatchOK, CommitTyped DEF Dispatches, FreeJob

LEMMA AnalysisArmStep ==
    ASSUME TypeInv, AnalysisArm
    PROVE  \E stage \in Stages :
             /\ WorkerOK(Worker(stage))
             /\ Dispatches(Drain(Worker(stage), analysis_rx))
<1>1. PICK stage \in CaughtIn :
        \E x \in TryDispatch(Drain(Worker(stage), analysis_rx)) : Commit(x)
  BY DEF AnalysisArm
<1>2. WorkerOK(Worker(stage)) /\ Worker(stage).jobs = jobs
  BY StageTyped, WorkerTyped DEF Worker
<1>3. analysis_rx \in Seq(Request) /\ FreeJob(Worker(stage))
  BY <1>2 DEF AnalysisArm, JobIdFree, FreeJob, TypeInv, TypeOK
<1>4. /\ WorkerOK(Drain(Worker(stage), analysis_rx))
      /\ FreeJob(Drain(Worker(stage), analysis_rx))
  BY <1>2, <1>3, DrainOK, DrainKeepsFree
<1> QED
  BY <1>1, <1>2, <1>4, StageTyped DEF Dispatches

LEMMA SyncArmStep ==
    ASSUME TypeInv, SyncArm
    PROVE  \E stage \in Stages, d \in Docs :
             /\ d = Head(sync_rx)
             /\ WorkerOK(Worker(stage))
             /\ disk \in [Docs -> Texts]
             /\ WorkerOK(Drain(Worker(stage), analysis_rx))
             /\ Dispatches(OnSync(Drain(Worker(stage), analysis_rx), d))
<1> DEFINE d == Head(sync_rx)
<1>1. PICK stage \in CaughtIn :
        \E x \in TryDispatch(OnSync(Drain(Worker(stage), analysis_rx), d)) :
          Commit(x)
  BY DEF SyncArm
<1>2. /\ WorkerOK(Worker(stage)) /\ Worker(stage).jobs = jobs
      /\ d \in Docs /\ disk \in [Docs -> Texts]
  BY StageTyped, WorkerTyped DEF SyncArm, TypeInv, TypeOK, Worker
<1>3. /\ WorkerOK(Drain(Worker(stage), analysis_rx))
      /\ FreeJob(Drain(Worker(stage), analysis_rx))
  <2>1. analysis_rx \in Seq(Request) /\ FreeJob(Worker(stage))
    BY <1>2 DEF SyncArm, JobIdFree, FreeJob, TypeInv, TypeOK
  <2> QED
    BY <1>2, <2>1, DrainOK, DrainKeepsFree
<1>4. /\ WorkerOK(OnSync(Drain(Worker(stage), analysis_rx), d))
      /\ FreeJob(OnSync(Drain(Worker(stage), analysis_rx), d))
  BY <1>2, <1>3, OnSyncOK, OnSyncFrame
<1> QED
  BY <1>1, <1>2, <1>3, <1>4, StageTyped DEF Dispatches

LEMMA LibraryArmStep ==
    ASSUME TypeInv, LibraryArm
    PROVE  \E stage \in Stages :
             LET w == SendRefresh([Cancel(Worker(stage))
                                     EXCEPT !.library = @ + 1])
             IN WorkerOK(Worker(stage)) /\ WorkerOK(w) /\ Commit(w)
<1>1. PICK stage \in CaughtIn :
        Commit(SendRefresh([Cancel(Worker(stage)) EXCEPT !.library = @ + 1]))
  BY DEF LibraryArm
<1> DEFINE w == Cancel(Worker(stage))
           v == [w EXCEPT !.library = @ + 1]
<1>2. WorkerOK(Worker(stage))
  BY StageTyped, WorkerTyped
<1>3. WorkerOK(w) /\ w.library = library
  BY <1>2, CancelOK, CancelFrame DEF SameButJobs, Worker
<1>4. w.library + 1 \in 0..MaxLibrary
  BY <1>3, BoundsAssumption DEF LibraryArm, TypeInv, TypeOK
<1> HIDE DEF w
<1>5. WorkerOK(v)
  BY <1>3, <1>4 DEF WorkerOK, WorkerRecord
<1>6. WorkerOK(SendRefresh(v))
  BY <1>5, SendRefreshOK
<1> QED
  BY <1>1, <1>2, <1>6, StageTyped DEF w

(* The record of DoneArm before on_done: the signal is received.           *)
Received(stage, j) == [Worker(stage) EXCEPT !.jobs[j] = None]

LEMMA DoneArmStep ==
    ASSUME TypeInv, NEW j \in JobIds, DoneArm(j)
    PROVE  /\ jobs[j] \in AnalyzeDone
           /\ \E stage \in Stages :
                /\ WorkerOK(Worker(stage))
                /\ WorkerOK(Received(stage, j))
                /\ Dispatches(OnDone(Received(stage, j), jobs[j]))
<1>1. PICK stage \in CaughtIn :
        \E x \in TryDispatch(OnDone(Received(stage, j), jobs[j])) : Commit(x)
  BY DEF DoneArm, Received
<1>2. WorkerOK(Worker(stage))
  BY StageTyped, WorkerTyped
<1>3. WorkerOK(Received(stage, j)) /\ Received(stage, j).jobs[j] = None
  BY <1>2 DEF Received, WorkerOK, WorkerRecord, JobSlots
<1>4. jobs[j] \in AnalyzeDone
  BY DEF DoneArm, TypeInv, TypeOK, Job
<1>5. /\ WorkerOK(OnDone(Received(stage, j), jobs[j]))
      /\ FreeJob(OnDone(Received(stage, j), jobs[j]))
  BY <1>3, <1>4, OnDoneOK, OnDoneFrame DEF FreeJob
<1> QED
  BY <1>1, <1>2, <1>3, <1>4, <1>5, StageTyped DEF Dispatches

LEMMA SetDocumentTyped ==
    ASSUME TypeInv, NEW d \in Docs, NEW t \in Texts, NEW v \in 1..(edits + 1),
           SetDocument(d, [version |-> v, text |-> t])
    PROVE  TypeInv'
<1> DEFINE doc == [version |-> v, text |-> t]
<1>1. edits \in 0..MaxEdits /\ edits' = edits + 1 /\ edits' \in 0..MaxEdits
  <2>1. edits \in 0..MaxEdits /\ MaxEdits \in Nat
    BY BoundsAssumption DEF TypeInv, TypeOK
  <2>2. edits < MaxEdits /\ edits' = edits + 1
    BY DEF SetDocument
  <2> QED
    BY <2>1, <2>2
<1>2. doc \in Document /\ v \in 0..MaxEdits
  BY <1>1, BoundsAssumption DEF Document, Versions
<1>3. RequestFor(d, doc, rules) \in Request
  BY <1>2, RequestForType DEF TypeInv, TypeOK
<1>4. /\ lastVersion' \in [Docs -> 0..MaxEdits]
      /\ \A e \in Docs : lastVersion'[e] <= edits'
  <2>1. /\ lastVersion \in [Docs -> 0..MaxEdits]
        /\ \A e \in Docs : lastVersion[e] <= edits
    BY DEF TypeInv, TypeOK
  <2>2. lastVersion' = [lastVersion EXCEPT ![d] = v]
    BY DEF SetDocument
  <2>3. lastVersion' \in [Docs -> 0..MaxEdits]
    BY <1>2, <2>1, <2>2
  <2>4. \A e \in Docs : lastVersion'[e] = v \/ lastVersion'[e] = lastVersion[e]
    BY <2>1, <2>2
  <2>5. MaxEdits \in Nat /\ v <= edits + 1
    BY <1>1, BoundsAssumption
  <2> QED
    BY <1>1, <1>2, <2>1, <2>3, <2>4, <2>5
<1>5. documents' = [documents EXCEPT ![d] = doc]
  BY DEF SetDocument
<1>6. \A e \in Docs :
        documents'[e] # None => documents'[e].version <= edits'
  <2> TAKE e \in Docs
  <2>1. CASE e = d
    BY <1>1, <1>5, <2>1 DEF TypeInv, TypeOK
  <2>2. CASE e # d
    BY <1>1, <1>5, <2>2, BoundsAssumption
       DEF TypeInv, TypeOK, Document, Versions
  <2> QED
    BY <2>1, <2>2
<1>7. documents' \in [Docs -> Document \cup {None}]
  BY <1>2, <1>5 DEF TypeInv, TypeOK
<1>8. analysis_rx' \in Seq(Request)
  BY <1>3 DEF SetDocument, TypeInv, TypeOK
<1> QED
  BY <1>1, <1>4, <1>6, <1>7, <1>8
     DEF SetDocument, TypeInv, TypeOK, workerVars

LEMMA NextTyped == TypeInv /\ [Next]_vars => TypeInv'
<1> SUFFICES ASSUME TypeInv, [Next]_vars PROVE TypeInv'
  OBVIOUS
<1> USE DEF TypeInv
<1>1. ASSUME NEW d \in Docs, NEW t \in Texts, DidOpen(d, t)
      PROVE  TypeInv'
  <2>1. FirstVersion(d) \in 1..(edits + 1) /\ edits + 1 \in 0..MaxEdits
    <3>1. /\ edits \in Nat /\ lastVersion[d] \in Nat
          /\ lastVersion[d] <= edits /\ edits < MaxEdits
      BY <1>1, BoundsAssumption DEF DidOpen, SetDocument, TypeOK
    <3> QED
      BY <3>1, BoundsAssumption DEF FirstVersion
  <2> QED
    BY <1>1, <2>1, SetDocumentTyped DEF DidOpen
<1>2. ASSUME NEW d \in Docs, NEW t \in Texts, DidChange(d, t)
      PROVE  TypeInv'
  <2>1. documents[d] \in Document /\ documents[d].version <= edits
    BY <1>2 DEF DidChange, TypeOK
  <2>2. documents[d].version \in Versions /\ edits \in Nat /\ MaxEdits \in Nat
    BY <2>1, BoundsAssumption DEF Document, TypeOK
  <2>3. documents[d].version + 1 \in 1..(edits + 1)
    BY <2>1, <2>2 DEF Versions
  <2> QED
    BY <1>2, <2>3, SetDocumentTyped DEF DidChange
<1>3. ASSUME NEW d \in Docs, DidClose(d)
      PROVE  TypeInv'
  BY <1>3 DEF DidClose, TypeOK, clientVars, workerVars
<1>4. ASSUME NEW d \in Docs, NEW t \in Texts, Rewrite(d, t)
      PROVE  TypeInv'
  BY <1>4 DEF Rewrite, TypeOK, mainVars, workerVars
<1>5. ASSUME NEW d \in Docs, DidChangeWatchedFiles(d)
      PROVE  TypeInv'
  <2>1. changedOnDisk' \subseteq Docs /\ sync_rx' \in Seq(Docs)
    BY <1>5 DEF DidChangeWatchedFiles, TypeOK
  <2>2. UNCHANGED <<edits, lastVersion, disk, mainVars, analysis_rx, out_rx,
                    workerVars, jobs, panics, orphaned>>
    BY <1>5 DEF DidChangeWatchedFiles
  <2> QED
    BY <2>1, <2>2 DEF TypeOK, mainVars, workerVars
<1>6. CASE DidChangeConfiguration
  <2>1. rules + 1 \in 0..MaxRules
    BY <1>6, BoundsAssumption DEF DidChangeConfiguration, TypeOK
  <2>2. analysis_rx' \in Seq(Request)
    BY <1>6, <2>1, SendAllType DEF DidChangeConfiguration
  <2> QED
    BY <1>6, <2>1, <2>2
       DEF DidChangeConfiguration, TypeOK, clientVars, workerVars
<1>7. CASE OnDiagnostics
  <2>1. Head(out_rx) \in Report \cup {Refresh} /\ out_rx' \in Seq(Outbound)
    BY <1>7 DEF OnDiagnostics, TypeOK, Outbound
  <2>2. Head(out_rx) \in Report
    BY <1>7, <2>1 DEF OnDiagnostics, Refresh
  <2>3. parse_diags' \in [Docs -> Diags \cup {None}]
    BY <1>7, <2>2 DEF OnDiagnostics, TypeOK, Report
  <2> QED
    BY <1>7, <2>1, <2>3
       DEF OnDiagnostics, TypeOK, clientVars, workerVars, Outbound
<1>8. CASE OnDiagnosticsRefresh
  <2>1. analysis_rx' \in Seq(Request)
    BY <1>8, SendAllType DEF OnDiagnosticsRefresh, TypeOK
  <2>2. out_rx' \in Seq(Report \cup {Refresh})
    BY <1>8 DEF OnDiagnosticsRefresh, TypeOK
  <2> QED
    BY <1>8, <2>1, <2>2
       DEF OnDiagnosticsRefresh, TypeOK, clientVars, mainVars, workerVars
<1>9. CASE AnalysisArm
  <2>1. WorkerTypes'
    BY <1>9, AnalysisArmStep, DispatchesTyped
  <2> QED
    BY <1>9, <2>1 DEF AnalysisArm, WorkerTypes, TypeOK, clientVars, mainVars
<1>10. CASE SyncArm
  <2>1. WorkerTypes'
    BY <1>10, SyncArmStep, DispatchesTyped
  <2>2. analysis_rx' \in Seq(Request) /\ sync_rx' \in Seq(Docs)
    BY <1>10 DEF SyncArm, TypeOK
  <2> QED
    BY <1>10, <2>1, <2>2
       DEF SyncArm, WorkerTypes, TypeOK, clientVars, mainVars
<1>11. CASE LibraryArm
  <2>1. WorkerTypes'
    BY <1>11, LibraryArmStep, CommitTyped
  <2> QED
    BY <1>11, <2>1 DEF LibraryArm, WorkerTypes, TypeOK, clientVars, mainVars
<1>12. ASSUME NEW j \in JobIds, DoneArm(j)
       PROVE  TypeInv'
  <2>1. WorkerTypes'
    BY <1>12, DoneArmStep, DispatchesTyped
  <2> QED
    BY <1>12, <2>1 DEF DoneArm, WorkerTypes, TypeOK, clientVars, mainVars
<1>13. ASSUME NEW j \in JobIds, JobFinish(j)
       PROVE  TypeInv'
  <2>1. jobs[j] \in Job /\ jobs[j].world \in Worlds
    BY <1>13, LiveIsJob DEF JobFinish, TypeOK, JobSlots, Job
  <2>2. DoneOf(jobs[j], jobs[j].projection) \in AnalyzeDone
    BY <2>1 DEF DoneOf, Job, AnalyzeDone
  <2>3. ReportOf(jobs[j], jobs[j].world) \in Report
    BY <2>1, ReportType
  <2>4. /\ jobs' \in [JobIds -> Job \cup AnalyzeDone \cup {None}]
        /\ out_rx' \in Seq(Report \cup {Refresh})
    BY <1>13, <2>2, <2>3 DEF JobFinish, TypeOK
  <2>5. UNCHANGED <<clientVars, mainVars, analysis_rx, sync_rx, workerVars,
                    panics, orphaned>>
    BY <1>13 DEF JobFinish
  <2> QED
    BY <2>4, <2>5 DEF TypeOK, clientVars, mainVars, workerVars
<1>14. ASSUME NEW j \in JobIds, JobPanic(j)
       PROVE  TypeInv'
  <2>1. jobs[j] \in Job /\ jobs[j].uri \in Docs
    BY <1>14, LiveIsJob DEF JobPanic, TypeOK, JobSlots, Job
  <2>2. /\ panics' \in 0..MaxPanics
        /\ jobs' \in [JobIds -> Job \cup AnalyzeDone \cup {None}]
        /\ orphaned' \subseteq Docs
    <3>1. /\ panics \in 0..MaxPanics /\ MaxPanics \in Nat
          /\ panics < MaxPanics /\ panics' = panics + 1
      BY <1>14, BoundsAssumption DEF JobPanic, TypeOK
    <3>2. /\ jobs' \in [JobIds -> Job \cup AnalyzeDone \cup {None}]
          /\ orphaned' \subseteq Docs
      BY <1>14, <2>1 DEF JobPanic, TypeOK
    <3> QED
      BY <3>1, <3>2
  <2>3. UNCHANGED <<clientVars, mainVars, analysis_rx, sync_rx, out_rx,
                    workerVars>>
    BY <1>14 DEF JobPanic
  <2> QED
    BY <2>2, <2>3 DEF TypeOK, clientVars, mainVars, workerVars
<1>15. CASE UNCHANGED vars
  BY <1>15 DEF vars, clientVars, mainVars, workerVars, TypeOK
<1> QED
  BY <1>1, <1>2, <1>3, <1>4, <1>5, <1>6, <1>7, <1>8, <1>9, <1>10, <1>11,
     <1>12, <1>13, <1>14, <1>15
     DEF Next, Client, MainLoop, AnalysisThread, Pool

(* Every variable keeps its type, whatever the documents, texts, package   *)
(* members and bounds.                                                     *)
THEOREM TypeCorrect == Spec => []TypeOK
<1>1. TypeInv => TypeOK
  BY DEF TypeInv
<1> QED
  BY <1>1, InitTyped, NextTyped, PTL DEF Spec

-----------------------------------------------------------------------------
(* Draining analysis_rx.                                                   *)

Folded == INSTANCE FoldInduction WITH Op <- Enqueue

(* The requests of q about d, and those no other is newer than.            *)
Mine(q, d) == {i \in DOMAIN q : q[i].uri = d}
Newest(q, d) == {i \in Mine(q, d) :
                   \A k \in Mine(q, d) : q[k].version <= q[i].version}

LEMMA MineTyped ==
    ASSUME NEW q \in Seq(Request), NEW d \in Docs
    PROVE  \A i \in Mine(q, d) : q[i] \in Request /\ q[i].version \in Nat
<1>1. \A i \in DOMAIN q : q[i] \in Request
  OBVIOUS
<1>2. \A t \in Request : t.version \in Nat
  BY BoundsAssumption DEF Request, Versions
<1> QED
  BY <1>1, <1>2 DEF Mine

LEMMA NewestExists ==
    ASSUME NEW q \in Seq(Request), NEW d \in Docs, Mine(q, d) # {}
    PROVE  Newest(q, d) # {}
<1> DEFINE V == {q[i].version : i \in Mine(q, d)}
<1>1. \A i \in Mine(q, d) : q[i] \in Request
  BY DEF Mine
<1>2. V \in SUBSET (1..MaxEdits) /\ V # {}
  BY <1>1 DEF Request, Versions
<1>3. Max(V) \in V /\ \A v \in V : v <= Max(V)
  BY <1>2, MaxIsMember, BoundsAssumption
<1> QED
  BY <1>3 DEF Newest

(* Latest holds the newest, unless the request queued before is newer.     *)
LEMMA LatestIsNewest ==
    ASSUME NEW p \in Request \cup {None}, NEW q \in Seq(Request), NEW d \in Docs
    PROVE  Latest(p, q, d) = {i \in Newest(q, d) :
                                p # None => p.version <= q[i].version}
BY DEF Latest, Newest, Mine

(* One more request at the end of the batch.                               *)
LEMMA NewestGrows ==
    ASSUME NEW q \in Seq(Request), NEW r \in Request, NEW d \in Docs
    PROVE  LET n == Len(q) + 1
               s == Append(q, r)
           IN /\ r.uri # d => Newest(s, d) = Newest(q, d)
              /\ r.uri = d /\ (\A i \in Mine(q, d) : q[i].version < r.version)
                   => Newest(s, d) = {n}
              /\ r.uri = d /\ (\E i \in Newest(q, d) : q[i].version = r.version)
                   => Newest(s, d) = Newest(q, d) \cup {n}
              /\ r.uri = d /\ (\E i \in Newest(q, d) : q[i].version > r.version)
                   => Newest(s, d) = Newest(q, d)
<1> DEFINE n == Len(q) + 1
           s == Append(q, r)
<1>1. /\ DOMAIN s = DOMAIN q \cup {n} /\ n \notin DOMAIN q
      /\ s[n] = r /\ \A i \in DOMAIN q : s[i] = q[i]
  <2>1. Len(q) \in Nat /\ DOMAIN q = 1..Len(q) /\ DOMAIN s = 1..n
    OBVIOUS
  <2>2. s[n] = r /\ \A i \in 1..Len(q) : s[i] = q[i]
    OBVIOUS
  <2> QED
    BY <2>1, <2>2
<1>2. \A i \in Mine(q, d) : q[i].version \in Nat
  BY MineTyped
<1>3. r.version \in Nat
  BY BoundsAssumption DEF Request, Versions
<1> HIDE DEF n, s
<1>4. CASE r.uri # d
  <2>1. Mine(s, d) = Mine(q, d) /\ \A i \in Mine(q, d) : s[i] = q[i]
    BY <1>1, <1>4 DEF Mine
  <2>2. Newest(s, d) = Newest(q, d)
    BY <2>1 DEF Newest
  <2> QED
    BY <1>4, <2>2 DEF n, s
<1>5. CASE r.uri = d
  <2>1. /\ Mine(s, d) = Mine(q, d) \cup {n} /\ s[n] = r /\ n \notin Mine(q, d)
        /\ \A i \in Mine(q, d) : s[i] = q[i]
    BY <1>1, <1>5 DEF Mine
  <2>2. ASSUME \A i \in Mine(q, d) : q[i].version < r.version
        PROVE  Newest(s, d) = {n}
    <3>1. n \in Newest(s, d)
      BY <1>2, <1>3, <2>1, <2>2 DEF Newest
    <3>2. \A i \in Mine(q, d) : i \notin Newest(s, d)
      BY <1>2, <1>3, <2>1, <2>2 DEF Newest
    <3> QED
      BY <2>1, <3>1, <3>2 DEF Newest
  <2>3. ASSUME NEW i \in Newest(q, d), q[i].version = r.version
        PROVE  Newest(s, d) = Newest(q, d) \cup {n}
    <3>1. \A k \in Mine(q, d) : q[k].version <= r.version
      BY <2>3 DEF Newest
    <3>2. n \in Newest(s, d)
      BY <1>3, <2>1, <3>1 DEF Newest
    <3>3. ASSUME NEW k \in Mine(q, d)
          PROVE  k \in Newest(s, d) <=> k \in Newest(q, d)
      <4>1. i \in Mine(q, d) /\ k \in Mine(s, d)
        BY <2>1 DEF Newest
      <4>2. k \in Newest(q, d) => q[k].version = r.version
        BY <1>2, <1>3, <2>3, <3>1, <4>1 DEF Newest
      <4> QED
        BY <1>2, <1>3, <2>1, <3>1, <4>1, <4>2 DEF Newest
    <3> QED
      BY <2>1, <3>2, <3>3 DEF Newest
  <2>4. ASSUME NEW i \in Newest(q, d), q[i].version > r.version
        PROVE  Newest(s, d) = Newest(q, d)
    <3>1. i \in Mine(q, d) /\ \A k \in Mine(q, d) : q[k].version <= q[i].version
      BY DEF Newest
    <3>2. n \notin Newest(s, d)
      BY <1>2, <1>3, <2>1, <2>4, <3>1 DEF Newest
    <3>3. ASSUME NEW k \in Mine(q, d)
          PROVE  k \in Newest(s, d) <=> k \in Newest(q, d)
      <4>1. k \in Newest(q, d) => r.version <= q[k].version
        BY <1>2, <1>3, <2>4, <3>1 DEF Newest
      <4> QED
        BY <2>1, <4>1 DEF Newest
    <3> QED
      BY <2>1, <3>2, <3>3 DEF Newest
  <2> QED
    BY <1>5, <2>2, <2>3, <2>4 DEF n, s
<1> QED
  BY <1>4, <1>5

(* What one more request of its document, the n-th, does to the set that   *)
(* Coalesce reads.                                                         *)
Grows(was, is, n, p, q, r) ==
    /\ was = {} => is = IF p = None \/ p.version <= r.version THEN {n} ELSE {}
    /\ \A i \in was :
         is = IF q[i].version < r.version THEN {n}
              ELSE IF q[i].version = r.version THEN was \cup {n}
              ELSE was

LEMMA LatestGrows ==
    ASSUME NEW p \in Request \cup {None}, NEW q \in Seq(Request),
           NEW r \in Request, NEW d \in Docs, r.uri = d
    PROVE  Grows(Latest(p, q, d), Latest(p, Append(q, r), d), Len(q) + 1,
                 p, q, r)
<1> DEFINE n == Len(q) + 1
           s == Append(q, r)
           was == Latest(p, q, d)
           is == Latest(p, s, d)
           Above(v) == p # None => p.version <= v
<1>1. s \in Seq(Request) /\ s[n] = r /\ \A i \in Mine(q, d) : s[i] = q[i]
  BY DEF Mine
<1>2. \A i \in Mine(q, d) : q[i].version \in Nat
  BY MineTyped
<1>3. r.version \in Nat /\ (p # None => p.version \in Nat)
  BY BoundsAssumption DEF Request, Versions
<1>4. was = {i \in Newest(q, d) : Above(q[i].version)}
  BY LatestIsNewest
<1>5. is = {i \in Newest(s, d) : Above(s[i].version)}
  BY <1>1, LatestIsNewest
<1>6. Newest(q, d) \subseteq Mine(q, d)
  BY DEF Newest
<1>7. /\ (\A i \in Mine(q, d) : q[i].version < r.version)
           => Newest(s, d) = {n}
      /\ (\E i \in Newest(q, d) : q[i].version = r.version)
           => Newest(s, d) = Newest(q, d) \cup {n}
      /\ (\E i \in Newest(q, d) : q[i].version > r.version)
           => Newest(s, d) = Newest(q, d)
  BY NewestGrows
<1>8. \A i \in Newest(q, d), k \in Mine(q, d) : q[k].version <= q[i].version
  BY DEF Newest
<1>9. Mine(q, d) # {} => Newest(q, d) # {}
  BY NewestExists
<1>10. \A i, k \in Newest(q, d) : q[i].version = q[k].version
  BY <1>2, <1>6, <1>8
<1> HIDE DEF n, s, was, is
<1>11. ASSUME was = {}
       PROVE  is = IF p = None \/ p.version <= r.version THEN {n} ELSE {}
  <2>1. CASE p = None
    <3>1. Mine(q, d) = {}
      BY <1>4, <1>9, <1>11, <2>1
    <3>2. Newest(s, d) = {n}
      BY <1>7, <3>1
    <3> QED
      BY <1>5, <2>1, <3>2
  <2>2. CASE p # None
    <3>1. \A i \in Newest(q, d) : q[i].version < p.version
      BY <1>2, <1>3, <1>4, <1>6, <1>11, <2>2
    <3>2. \A i \in Mine(q, d) : q[i].version < p.version
      BY <1>2, <1>3, <1>6, <1>8, <1>9, <2>2, <3>1
    <3>3. CASE p.version <= r.version
      <4>1. Newest(s, d) = {n}
        BY <1>2, <1>3, <1>7, <2>2, <3>2, <3>3
      <4> QED
        BY <1>1, <1>5, <2>2, <3>3, <4>1
    <3>4. CASE ~ (p.version <= r.version)
      <4>1. r.version < p.version
        BY <1>3, <2>2, <3>4
      <4>2. \A i \in Newest(s, d) : s[i].version < p.version
        <5>1. \A i \in Newest(s, d) : i = n \/ i \in Mine(q, d)
          BY DEF Newest, Mine, s, n
        <5> QED
          BY <1>1, <3>2, <4>1, <5>1
      <4>3. \A i \in Newest(s, d) : s[i].version \in Nat
        BY <1>1, MineTyped DEF Newest
      <4> QED
        BY <1>3, <1>5, <2>2, <3>4, <4>2, <4>3
    <3> QED
      BY <2>2, <3>3, <3>4
  <2> QED
    BY <2>1, <2>2
<1>12. ASSUME NEW i \in was
       PROVE  is = IF q[i].version < r.version THEN {n}
                   ELSE IF q[i].version = r.version THEN was \cup {n}
                   ELSE was
  <2>1. i \in Newest(q, d) /\ i \in Mine(q, d) /\ Above(q[i].version)
    BY <1>4, <1>6, <1>7
  <2>2. was = Newest(q, d)
    BY <1>4, <1>10, <2>1
  <2>3. \A k \in Newest(q, d) : s[k].version = q[i].version
    BY <1>1, <1>6, <1>10, <2>1
  <2>4. CASE q[i].version < r.version
    <3>1. Newest(s, d) = {n}
      BY <1>2, <1>3, <1>7, <1>8, <2>1, <2>4
    <3>2. Above(s[n].version)
      BY <1>1, <1>2, <1>3, <2>1, <2>4
    <3> QED
      BY <1>5, <2>4, <3>1, <3>2
  <2>5. CASE q[i].version = r.version
    <3>1. Newest(s, d) = Newest(q, d) \cup {n}
      BY <1>7, <2>1, <2>5
    <3>2. \A k \in Newest(s, d) : Above(s[k].version)
      BY <1>1, <2>1, <2>3, <2>5, <3>1
    <3>3. is = Newest(s, d)
      BY <1>5, <3>2
    <3> QED
      BY <1>2, <1>3, <2>1, <2>2, <2>5, <3>1, <3>3
  <2>6. CASE q[i].version > r.version
    <3>1. Newest(s, d) = Newest(q, d)
      BY <1>7, <2>1, <2>6
    <3>2. \A k \in Newest(s, d) : Above(s[k].version)
      BY <2>1, <2>3, <3>1
    <3>3. is = Newest(s, d)
      BY <1>5, <3>2
    <3> QED
      BY <1>2, <1>3, <2>1, <2>2, <2>6, <3>1, <3>3
  <2> QED
    BY <1>2, <1>3, <2>1, <2>4, <2>5, <2>6
<1>13. Grows(was, is, n, p, q, r)
  BY <1>11, <1>12 DEF Grows
<1> QED
  BY <1>13 DEF was, is, n, s

LEMMA EndsOfInterval ==
    ASSUME NEW m \in Nat, NEW S \in SUBSET (1..m), S # {}
    PROVE  /\ Min(S) \in S
           /\ Max({m + 1}) = m + 1 /\ Min({m + 1}) = m + 1
           /\ Max(S \cup {m + 1}) = m + 1
           /\ Min(S \cup {m + 1}) = Min(S)
<1>1. Min(S) \in S
  BY MinIsMember
<1>2. \A x \in S : Min(S) <= x
  <2>1. S \in SUBSET Nat
    OBVIOUS
  <2>2. \E x \in S : \A y \in S : x =< y
    BY <2>1, LeastExists
  <2> QED
    BY <2>2 DEF Min
<1>3. Max({m + 1}) = m + 1 /\ Min({m + 1}) = m + 1
  BY DEF Min, Max
<1> DEFINE T == S \cup {m + 1}
<1>4. Max(T) = m + 1
  <2>1. T \in SUBSET (1..(m + 1)) /\ T # {} /\ m + 1 \in Nat
    OBVIOUS
  <2> HIDE DEF T
  <2>2. Max(T) \in T /\ \A y \in T : y <= Max(T)
    BY <2>1, MaxIsMember
  <2>3. Max(T) \in 1..(m + 1) /\ m + 1 <= Max(T)
    BY <2>1, <2>2 DEF T
  <2> QED
    BY <2>3
<1>5. Min(T) = Min(S)
  <2>1. T \in SUBSET (1..(m + 1)) /\ T # {}
    OBVIOUS
  <2>2. T \in SUBSET Nat
    OBVIOUS
  <2>3. \A x \in T : Min(S) <= x
    <3> DEFINE a == Min(S)
    <3>1. a \in 1..m /\ \A x \in S : a <= x
      BY <1>1, <1>2
    <3> HIDE DEF a
    <3> QED
      BY <3>1 DEF a
  <2> HIDE DEF T
  <2>4. Min(T) \in T /\ \A x \in T : Min(T) <= x
    <3>1. \E x \in T : \A y \in T : x =< y
      BY <2>1, <2>2, LeastExists
    <3> QED
      BY <3>1 DEF Min
  <2>5. Min(S) \in T
    BY <1>1 DEF T
  <2>6. Min(S) <= Min(T) /\ Min(T) <= Min(S)
    BY <2>3, <2>4, <2>5
  <2>7. Min(S) \in Nat /\ Min(T) \in Nat
    BY <2>2, <2>4, <2>5
  <2> QED
    BY <2>6, <2>7
<1> QED
  BY <1>1, <1>3, <1>4, <1>5

(* Coalescing a batch and then enqueueing one request more is coalescing   *)
(* the longer batch.                                                       *)
LEMMA CoalesceOne ==
    ASSUME NEW p \in Request \cup {None}, NEW q \in Seq(Request),
           NEW r \in Request, NEW d \in Docs
    PROVE  Coalesce(p, Append(q, r), d) =
             IF r.uri = d THEN Merged(Coalesce(p, q, d), r)
             ELSE Coalesce(p, q, d)
<1> DEFINE n == Len(q) + 1
           s == Append(q, r)
           was == Latest(p, q, d)
           is == Latest(p, s, d)
           Kept(i, t) == IF p # None /\ p.version = t[i].version THEN p
                                                                 ELSE t[i]
           Ends(set, t) == [Kept(Min(set), t) EXCEPT !.rules = t[Max(set)].rules]
<1>1. /\ Len(q) \in Nat /\ s \in Seq(Request) /\ s[n] = r
      /\ \A i \in 1..Len(q) : s[i] = q[i]
  OBVIOUS
<1>2. was \in SUBSET (1..Len(q))
  BY DEF Latest
<1>3. \A i \in 1..Len(q) : q[i] \in Request
  OBVIOUS
<1>4. \A t \in Request : t.version \in Nat /\ t # None
  BY BoundsAssumption, NoneAssumption DEF Request, Versions
<1>5. Coalesce(p, q, d) = IF was = {} THEN p ELSE Ends(was, q)
  BY DEF Coalesce
<1>6. Coalesce(p, s, d) = IF is = {} THEN p ELSE Ends(is, s)
  BY DEF Coalesce
<1>7. CASE r.uri # d
  <2>1. Newest(s, d) = Newest(q, d)
    BY <1>7, NewestGrows
  <2>2. Newest(q, d) \subseteq 1..Len(q)
    BY DEF Newest, Mine
  <2>3. is = was
    <3>1. /\ was = {i \in Newest(q, d) : p # None => p.version <= q[i].version}
          /\ is = {i \in Newest(s, d) : p # None => p.version <= s[i].version}
      BY <1>1, LatestIsNewest
    <3> HIDE DEF was, is, s
    <3> QED
      BY <1>1, <2>1, <2>2, <3>1
  <2>4. ASSUME was # {} PROVE Ends(was, s) = Ends(was, q)
    <3>1. Min(was) \in 1..Len(q) /\ Max(was) \in 1..Len(q)
      BY <1>1, <1>2, <2>4, MinIsMember, MaxIsMember
    <3>2. s[Min(was)] = q[Min(was)] /\ s[Max(was)] = q[Max(was)]
      BY <1>1, <3>1
    <3> HIDE DEF was, s
    <3> QED
      BY <3>2
  <2> HIDE DEF was, is, s, Ends
  <2> QED
    BY <1>5, <1>6, <1>7, <2>3, <2>4 DEF s
<1>8. CASE r.uri = d /\ was = {}
  <2>1. is = IF p = None \/ p.version <= r.version THEN {n} ELSE {}
    <3>1. Grows(was, is, n, p, q, r)
      BY <1>8, LatestGrows
    <3> HIDE DEF was, is, s, n
    <3> QED
      BY <1>8, <3>1 DEF Grows
  <2>2. Max({n}) = n /\ Min({n}) = n
    BY <1>1 DEF Min, Max
  <2>3. Ends({n}, s) = [(IF p # None /\ p.version = r.version THEN p ELSE r)
                          EXCEPT !.rules = r.rules]
    BY <1>1, <2>2
  <2>4. [r EXCEPT !.rules = r.rules] = r
    BY DEF Request
  <2> HIDE DEF was, is, s, n, Ends
  <2>5. CASE p = None
    <3>1. Coalesce(p, s, d) = r /\ Coalesce(p, q, d) = None
      BY <1>5, <1>6, <1>8, <2>1, <2>3, <2>4, <2>5
    <3> QED
      BY <1>8, <3>1 DEF Merged, s
  <2>6. CASE p # None /\ p.version < r.version
    <3>1. p \in Request /\ p.version # r.version /\ p.version <= r.version
      BY <1>4, <2>6
    <3>2. Coalesce(p, s, d) = r /\ Coalesce(p, q, d) = p
      BY <1>5, <1>6, <1>8, <2>1, <2>3, <2>4, <3>1
    <3> QED
      BY <1>8, <2>6, <3>2 DEF Merged, s
  <2>7. CASE p # None /\ p.version = r.version
    <3>1. p.version <= r.version /\ ~ (p.version < r.version)
      BY <1>4, <2>7
    <3>2. Coalesce(p, s, d) = [p EXCEPT !.rules = r.rules]
          /\ Coalesce(p, q, d) = p
      BY <1>5, <1>6, <1>8, <2>1, <2>3, <2>7, <3>1
    <3> QED
      BY <1>8, <2>7, <3>1, <3>2 DEF Merged, s
  <2>8. CASE p # None /\ p.version > r.version
    <3>1. /\ ~ (p.version <= r.version) /\ ~ (p.version < r.version)
          /\ p.version # r.version
      BY <1>4, <2>8
    <3>2. Coalesce(p, s, d) = p /\ Coalesce(p, q, d) = p
      BY <1>5, <1>6, <1>8, <2>1, <2>8, <3>1
    <3> QED
      BY <1>8, <2>8, <3>1, <3>2 DEF Merged, s
  <2> QED
    BY <1>4, <2>5, <2>6, <2>7, <2>8
<1>9. CASE r.uri = d /\ was # {}
  <2> DEFINE i == Min(was)
             old == Ends(was, q)
  <2>1. i \in was /\ i \in 1..Len(q) /\ q[i] \in Request
    BY <1>1, <1>2, <1>3, <1>9, MinIsMember
  <2>2. is = IF q[i].version < r.version THEN {n}
             ELSE IF q[i].version = r.version THEN was \cup {n}
             ELSE was
    <3>1. Grows(was, is, n, p, q, r)
      BY <1>9, LatestGrows
    <3> HIDE DEF was, is, s, n, i
    <3> QED
      BY <2>1, <3>1 DEF Grows
  <2>3. /\ Max({n}) = n /\ Min({n}) = n
        /\ Max(was \cup {n}) = n /\ Min(was \cup {n}) = i
    <3> HIDE DEF was
    <3> QED
      BY <1>1, <1>2, <1>9, EndsOfInterval
  <2>4. Max(was) \in 1..Len(q)
    BY <1>1, <1>2, <1>9, MaxIsMember
  <2>5. p # None => p.version <= q[i].version
    BY <2>1 DEF Latest
  <2>6. Kept(i, q) \in Request /\ Kept(i, q).version = q[i].version
    BY <2>1
  <2>7. old \in Request /\ old.version = q[i].version
        /\ \A u : [old EXCEPT !.rules = u] = [Kept(i, q) EXCEPT !.rules = u]
    <3>1. q[Max(was)].rules \in 0..MaxRules
      BY <1>3, <2>4 DEF Request
    <3>2. old = [Kept(i, q) EXCEPT !.rules = q[Max(was)].rules]
      OBVIOUS
    <3> DEFINE kept == Kept(i, q)
               last == q[Max(was)].rules
    <3> HIDE DEF old, kept, last
    <3> QED
      BY <2>6, <3>1, <3>2 DEF Request, kept, last
  <2>8. Coalesce(p, q, d) = old /\ old # None
    BY <1>4, <1>5, <1>9, <2>7
  <2>9. q[i].version \in Nat /\ r.version \in Nat
        /\ (p # None => p.version \in Nat)
    BY <1>4, <2>1
  <2>10. s[i] = q[i] /\ s[Max(was)] = q[Max(was)]
    BY <1>1, <2>1, <2>4
  <2>11. CASE q[i].version < r.version
    <3>1. p # None => p.version # r.version
      BY <2>5, <2>9, <2>11
    <3>2. Ends({n}, s) = [r EXCEPT !.rules = r.rules]
      BY <1>1, <2>3, <3>1
    <3>3. [r EXCEPT !.rules = r.rules] = r
      BY DEF Request
    <3> HIDE DEF was, is, s, n, Ends, old, i
    <3>4. Coalesce(p, s, d) = r
      BY <1>6, <2>2, <2>11, <3>2, <3>3
    <3> QED
      BY <1>9, <2>7, <2>8, <2>11, <3>4 DEF Merged, s
  <2>12. CASE q[i].version = r.version
    <3>1. Ends(was \cup {n}, s) = [Kept(i, q) EXCEPT !.rules = r.rules]
      BY <1>1, <2>3, <2>10
    <3>2. ~ (q[i].version < r.version)
      BY <2>9, <2>12
    <3> HIDE DEF was, is, s, n, Ends, old, i, Kept
    <3>3. Coalesce(p, s, d) = [old EXCEPT !.rules = r.rules]
      BY <1>6, <2>2, <2>7, <2>12, <3>1, <3>2
    <3> QED
      BY <1>9, <2>7, <2>8, <2>12, <3>2, <3>3 DEF Merged, s
  <2>13. CASE q[i].version > r.version
    <3>1. Ends(was, s) = old
      BY <2>10
    <3>2. ~ (q[i].version < r.version) /\ q[i].version # r.version
      BY <2>9, <2>13
    <3> HIDE DEF was, is, s, n, Ends, old, i
    <3>3. Coalesce(p, s, d) = old
      BY <1>6, <1>9, <2>2, <3>1, <3>2
    <3> QED
      BY <1>9, <2>7, <2>8, <3>2, <3>3 DEF Merged, s
  <2> QED
    BY <2>9, <2>11, <2>12, <2>13
<1> QED
  BY <1>7, <1>8, <1>9

LEMMA DrainOne ==
    ASSUME NEW w, WorkerOK(w), NEW q \in Seq(Request), NEW r \in Request
    PROVE  Drain(w, Append(q, r)) = Enqueue(Drain(w, q), r)
<1> DEFINE s == Append(q, r)
           pnd == [d \in Docs |-> Coalesce(w.pending[d], q, d)]
           next == [d \in Docs |-> Coalesce(w.pending[d], s, d)]
           v == Drain(w, q)
<1>1. r.uri \in Docs
  BY DEF Request
<1>2. w \in WorkerRecord /\ w.pending \in [Docs -> Request \cup {None}]
  BY DEF WorkerOK, WorkerRecord
<1>3. s # <<>> /\ s[Len(s)].uri = r.uri
  OBVIOUS
<1>4. Drain(w, s) = [w EXCEPT !.pending = next, !.active = r.uri]
  BY <1>3 DEF Drain
<1>5. \A d \in Docs : next[d] = IF r.uri = d THEN Merged(pnd[d], r) ELSE pnd[d]
  BY <1>2, CoalesceOne
<1> HIDE DEF pnd, next
<1>6. next = [pnd EXCEPT ![r.uri] = Merged(pnd[r.uri], r)]
  BY <1>1, <1>5 DEF pnd, next
<1>7. v \in WorkerRecord /\ v.pending = pnd
      /\ \A x, y : [v EXCEPT !.pending = x, !.active = y]
                     = [w EXCEPT !.pending = x, !.active = y]
  <2>1. CASE q = <<>>
    <3>1. v = w
      BY <2>1 DEF Drain
    <3>2. \A d \in Docs : Coalesce(w.pending[d], q, d) = w.pending[d]
      BY <2>1 DEF Coalesce, Latest
    <3>3. w.pending = pnd
      BY <1>2, <3>2 DEF pnd
    <3> HIDE DEF v
    <3> QED
      BY <1>2, <3>1, <3>3
  <2>2. CASE q # <<>>
    <3>1. v = [w EXCEPT !.pending = pnd, !.active = q[Len(q)].uri]
      BY <2>2 DEF Drain, pnd
    <3>2. v \in WorkerRecord
      BY DrainOK DEF WorkerOK
    <3> DEFINE a == q[Len(q)].uri
    <3> HIDE DEF v, a
    <3>3. v = [w EXCEPT !.pending = pnd, !.active = a]
      BY <3>1 DEF a
    <3> QED
      BY <1>2, <3>2, <3>3 DEF WorkerRecord
  <2> QED
    BY <2>1, <2>2
<1>8. Enqueue(v, r) = [v EXCEPT !.pending = [pnd EXCEPT ![r.uri] = Merged(pnd[r.uri], r)],
                                !.active = r.uri]
  <2> HIDE DEF v
  <2> QED
    BY <1>7 DEF Enqueue
<1> HIDE DEF s, v
<1>9. Enqueue(v, r) = [v EXCEPT !.pending = next, !.active = r.uri]
  BY <1>6, <1>8
<1>10. Enqueue(v, r) = Drain(w, s)
  BY <1>4, <1>7, <1>9
<1> QED
  BY <1>10 DEF s, v

(* Taking a batch off analysis_rx at once and enqueueing its requests one  *)
(* after the other leave the worker the same.                              *)
LEMMA DrainIsFold ==
    ASSUME NEW w, WorkerOK(w), NEW q \in Seq(Request)
    PROVE  Drain(w, q) = FoldLeft(Enqueue, w, q)
<1> DEFINE v == [k \in 0..Len(q) |-> Drain(w, SubSeq(q, 1, k))]
<1>1. Len(q) \in Nat
  OBVIOUS
<1>2. v[0] = w
  <2>1. SubSeq(q, 1, 0) = <<>> /\ 0 \in 0..Len(q)
    BY <1>1
  <2> QED
    BY <2>1 DEF Drain
<1>3. ASSUME NEW k \in 1..Len(q) PROVE v[k] = Enqueue(v[k-1], q[k])
  <2> DEFINE front == SubSeq(q, 1, k - 1)
  <2>1. SubSeq(q, 1, k) = Append(front, q[k]) /\ front \in Seq(Request)
    OBVIOUS
  <2>2. q[k] \in Request
    OBVIOUS
  <2>3. v[k] = Drain(w, SubSeq(q, 1, k)) /\ v[k-1] = Drain(w, front)
    BY <1>1
  <2> HIDE DEF v, front
  <2>4. Drain(w, Append(front, q[k])) = Enqueue(Drain(w, front), q[k])
    BY <2>1, <2>2, DrainOne
  <2> QED
    BY <2>1, <2>3, <2>4
<1>4. v[Len(q)] = Drain(w, q)
  <2>1. SubSeq(q, 1, Len(q)) = q
    OBVIOUS
  <2>2. v[Len(q)] = Drain(w, SubSeq(q, 1, Len(q)))
    BY <1>1
  <2> HIDE DEF v
  <2> QED
    BY <2>1, <2>2
<1> HIDE DEF v
<1>5. Folded!IsPath(v, q, w)
  BY <1>2, <1>3 DEF Folded!IsPath
<1>6. Folded!FoldLeft(Enqueue, w, q) = v[Len(q)]
  BY <1>5, Folded!FoldFollows
<1>7. Folded!FoldLeft(Enqueue, w, q) = FoldLeft(Enqueue, w, q)
  BY DEF FoldLeft, MapThenFoldSet, Max,
         Folded!FoldLeft, Folded!MapThenFoldSet, Folded!Max
<1> QED
  BY <1>4, <1>6, <1>7

(* In every state the analysis thread may drain its channel in one step:   *)
(* the batch coalesces to what enqueue, called once per request in the     *)
(* order they came, would have queued, whatever the versions, the ties     *)
(* between equal ones and the rules they carry.                            *)
THEOREM BatchesKeepTheOrder == Spec => []DrainEnqueuesInOrder
<1>1. TypeInv => DrainEnqueuesInOrder
  <2> SUFFICES ASSUME TypeInv PROVE DrainEnqueuesInOrder
    OBVIOUS
  <2>1. "linting" \in Stages
    BY DEF Stages
  <2>2. WorkerOK(Worker("linting"))
    BY <2>1, WorkerTyped
  <2>3. analysis_rx \in Seq(Request)
    BY DEF TypeInv, TypeOK
  <2> QED
    BY <2>2, <2>3, DrainIsFold DEF DrainEnqueuesInOrder
<1> QED
  BY <1>1, InitTyped, NextTyped, PTL DEF Spec

-----------------------------------------------------------------------------
(* No lost wake-up.                                                        *)

Dispatched(w) ==
    \A d \in Docs : w.pending[d] # None =>
        /\ w.inflight # None
        /\ w.inflight.uri = d => w.pending[d].version <= w.inflight.version

LEMMA TryDispatchDispatches ==
    ASSUME NEW w, WorkerOK(w), FreeJob(w), NEW x \in TryDispatch(w)
    PROVE  Dispatched(x)
<1>1. CASE x = w /\ Decide(w) = {}
  <2> SUFFICES ASSUME NEW d \in Docs, w.pending[d] # None
               PROVE  /\ w.inflight # None
                      /\ w.inflight.uri = d =>
                           w.pending[d].version <= w.inflight.version
    BY <1>1 DEF Dispatched
  <2>1. d \in Waiting(w)
    BY DEF Waiting
  <2>2. w.inflight # None
    BY <1>1, <2>1 DEF Decide
  <2>3. w.pending[d].version \in Nat /\ w.inflight.version \in Nat
    BY <2>2, BoundsAssumption
       DEF WorkerOK, WorkerRecord, Request, Flight, Versions
  <2>4. w.inflight.uri = d => ~ (w.pending[d].version > w.inflight.version)
    BY <1>1, <2>1, <2>2 DEF Decide
  <2> QED
    BY <2>2, <2>3, <2>4
<1>2. ASSUME NEW v, WorkerOK(v), FreeJob(v), NEW d \in Docs,
             v.pending[d] # None, x = Start(v, d)
      PROVE  Dispatched(x)
  <2>1. /\ x.pending = [v.pending EXCEPT ![d] = None]
        /\ x.inflight = [uri |-> d, version |-> v.pending[d].version]
    <3>1. \E j \in JobIds : v.jobs[j] = None
      BY <1>2 DEF FreeJob
    <3>2. /\ Start(v, d).pending = [v.pending EXCEPT ![d] = None]
          /\ Start(v, d).inflight =
               [uri |-> d, version |-> v.pending[d].version]
      BY <1>2, <3>1, StartEffect
    <3> QED
      BY <1>2, <3>2
  <2>2. x.inflight # None
    <3>1. v.pending[d].version \in Versions
      BY <1>2 DEF WorkerOK, WorkerRecord, Request
    <3>2. x.inflight \in Flight
      BY <2>1, <3>1 DEF Flight
    <3> QED
      BY <3>2, NoneAssumption
  <2>3. v.pending \in [Docs -> Request \cup {None}]
    BY <1>2 DEF WorkerOK, WorkerRecord
  <2> QED
    BY <2>1, <2>2, <2>3 DEF Dispatched
<1>3. WorkerOK(Superseded(w)) /\ FreeJob(Superseded(w))
      /\ Superseded(w).pending = w.pending
  BY SupersededOK DEF FreeJob
<1> QED
  BY <1>1, <1>2, <1>3, TryDispatchCases

LEMMA DispatchesWakes ==
    ASSUME NEW w, Dispatches(w)
    PROVE  NoLostWakeup'
<1>1. PICK x \in TryDispatch(w) : Commit(x)
  BY DEF Dispatches
<1>2. Dispatched(x)
  BY TryDispatchDispatches DEF Dispatches
<1> QED
  BY <1>1, <1>2 DEF Dispatched, NoLostWakeup, Commit

(* What the harvester's arm leaves alone.                                  *)
LEMMA LibraryArmFrame ==
    ASSUME TypeInv, LibraryArm
    PROVE  pending' = pending /\ inflight' = inflight
<1>1. PICK stage \in Stages :
        LET w == SendRefresh([Cancel(Worker(stage)) EXCEPT !.library = @ + 1])
        IN WorkerOK(Worker(stage)) /\ WorkerOK(w) /\ Commit(w)
  BY LibraryArmStep
<1> DEFINE v == Cancel(Worker(stage))
           w == SendRefresh([v EXCEPT !.library = @ + 1])
<1>2. v.pending = pending /\ v.inflight = inflight /\ WorkerOK(v)
  BY <1>1, CancelFrame, CancelOK DEF SameButJobs, Worker
<1> HIDE DEF v
<1>3. w.pending = v.pending /\ w.inflight = v.inflight
  BY <1>2 DEF SendRefresh, WorkerOK, WorkerRecord
<1> QED
  BY <1>1, <1>2, <1>3 DEF Commit, v

LEMMA WakeupStep == TypeInv /\ NoLostWakeup /\ [Next]_vars => NoLostWakeup'
<1> SUFFICES ASSUME TypeInv, NoLostWakeup, [Next]_vars
             PROVE  NoLostWakeup'
  OBVIOUS
<1>1. CASE AnalysisArm
  BY <1>1, AnalysisArmStep, DispatchesWakes
<1>2. CASE SyncArm
  BY <1>2, SyncArmStep, DispatchesWakes
<1>3. CASE LibraryArm
  BY <1>3, LibraryArmFrame DEF NoLostWakeup
<1>4. ASSUME NEW j \in JobIds, DoneArm(j)
      PROVE  NoLostWakeup'
  BY <1>4, DoneArmStep, DispatchesWakes
<1>5. CASE UNCHANGED <<pending, inflight>>
  BY <1>5 DEF NoLostWakeup
<1>6. Client \/ MainLoop \/ Pool \/ (\E j \in JobIds : JobPanic(j))
        \/ UNCHANGED vars => UNCHANGED <<pending, inflight>>
  BY DEF Client, DidOpen, DidChange, SetDocument, DidClose, Rewrite,
         DidChangeWatchedFiles, DidChangeConfiguration, MainLoop,
         OnDiagnostics, OnDiagnosticsRefresh, Pool, JobFinish, JobPanic,
         vars, workerVars
<1> QED
  BY <1>1, <1>2, <1>3, <1>4, <1>5, <1>6 DEF Next, AnalysisThread

(* Whatever the client, the harvester and panics do, the analysis thread   *)
(* never waits with a request it could dispatch: a request stays queued    *)
(* only behind an analysis in flight that it may not cancel.               *)
THEOREM NoWakeupIsLost == Spec => []NoLostWakeup
<1>1. Init => NoLostWakeup
  BY DEF Init, NoLostWakeup
<1> QED
  BY <1>1, InitTyped, NextTyped, WakeupStep, PTL DEF Spec

-----------------------------------------------------------------------------
(* Diagnostics of the current buffer only.                                 *)

(* What is in transit about version v of a document, text t, is not from   *)
(* the future; if it is about the open buffer's version, t is its text.    *)
AgreesIn(lv, docs, u, v, t) ==
    /\ v <= lv[u]
    /\ docs[u] # None /\ docs[u].version = v => docs[u].text = t
Agrees(u, v, t) == AgreesIn(lastVersion, documents, u, v, t)
AgreesNext(u, v, t) == AgreesIn(lastVersion', documents', u, v, t)

ReportsAgree(out) ==
    \A i \in 1..Len(out) : out[i].kind = "diagnostics" =>
        Agrees(out[i].uri, out[i].version, out[i].diags.text)
RequestsAgree(q) ==
    \A i \in 1..Len(q) : Agrees(q[i].uri, q[i].version, q[i].text)
QueueAgrees(pnd) ==
    \A d \in Docs : pnd[d] # None => Agrees(d, pnd[d].version, pnd[d].text)
JobsAgree(js) ==
    \A j \in JobIds :
        Live(js[j]) => Agrees(js[j].uri, js[j].version, js[j].text)

Agreeing(w) ==
    QueueAgrees(w.pending) /\ JobsAgree(w.jobs) /\ ReportsAgree(w.out)

LEMMA ColdReportsOrigin ==
    ASSUME NEW js \in [JobIds -> JobSlots], NEW i \in 1..Len(ColdReports(js))
    PROVE  \E j \in JobIds : Live(js[j])
                             /\ ColdReports(js)[i] = ReportOf(js[j], None)
<1> DEFINE live == {j \in JobIds : Live(js[j])}
           order == CHOOSE f \in Bijection(1..Cardinality(live), live) : TRUE
           reports == [k \in 1..Cardinality(live) |->
                         ReportOf(js[order[k]], None)]
<1>1. IsFiniteSet(live)
  BY FiniteAssumption, FS_Subset
<1>2. /\ Cardinality(live) \in Nat
      /\ order \in [1..Cardinality(live) -> live]
  BY <1>1, FS_CardinalityType DEF ExistsBijection, Bijection, Injection
<1>3. ColdReports(js) = reports
  BY DEF ColdReports
<1>4. DOMAIN reports = 1..Cardinality(live)
  OBVIOUS
<1>5. reports \in Seq(Report)
  BY <1>3, ColdReportsType
<1>6. i \in 1..Cardinality(live)
  <2> HIDE DEF reports, live
  <2>1. DOMAIN reports = 1..Len(reports)
    BY <1>5
  <2> QED
    BY <1>3, <1>4, <2>1
<1>7. reports[i] = ReportOf(js[order[i]], None)
  BY <1>6
<1>8. order[i] \in live
  BY <1>2, <1>6
<1> QED
  BY <1>3, <1>7, <1>8

LEMMA ColdReportsAgree ==
    ASSUME NEW js \in [JobIds -> JobSlots], JobsAgree(js)
    PROVE  ReportsAgree(ColdReports(js))
<1> SUFFICES ASSUME NEW i \in 1..Len(ColdReports(js))
             PROVE  Agrees(ColdReports(js)[i].uri, ColdReports(js)[i].version,
                           ColdReports(js)[i].diags.text)
  BY DEF ReportsAgree
<1>1. PICK j \in JobIds :
        Live(js[j]) /\ ColdReports(js)[i] = ReportOf(js[j], None)
  BY ColdReportsOrigin
<1>2. Agrees(js[j].uri, js[j].version, js[j].text)
  BY <1>1 DEF JobsAgree
<1> QED
  BY <1>1, <1>2 DEF ReportOf

LEMMA ConcatReportsAgree ==
    ASSUME NEW s \in Seq(Outbound), NEW t \in Seq(Outbound),
           ReportsAgree(s), ReportsAgree(t)
    PROVE  ReportsAgree(s \o t)
BY DEF ReportsAgree

LEMMA AppendRefreshAgrees ==
    ASSUME NEW s \in Seq(Outbound), ReportsAgree(s)
    PROVE  ReportsAgree(Append(s, Refresh))
BY DEF ReportsAgree, Refresh

LEMMA UnwoundNotLive ==
    ASSUME NEW job, NEW stage
    PROVE  ~ Live(Unwound(job, stage))
BY DEF Live, Unwound, DoneOf

LEMMA CancelAgrees ==
    ASSUME NEW w, WorkerOK(w), Agreeing(w)
    PROVE  Agreeing(Cancel(w))
<1>1. w.jobs \in [JobIds -> JobSlots] /\ w.out \in Seq(Outbound)
  BY DEF WorkerOK, WorkerRecord
<1>2. ColdReports(w.jobs) \in Seq(Outbound)
  BY <1>1, ColdReportsType DEF Outbound
<1>3. ReportsAgree(w.out \o ColdReports(w.jobs))
  BY <1>1, <1>2, ColdReportsAgree, ConcatReportsAgree DEF Agreeing
<1>4. Cancel(w).out \in {w.out, w.out \o ColdReports(w.jobs)}
  BY DEF Cancel, WorkerOK, WorkerRecord
<1>5. JobsAgree(Cancel(w).jobs)
  BY CancelFrame, UnwoundNotLive DEF JobsAgree
<1> QED
  BY <1>3, <1>4, <1>5, CancelFrame DEF Agreeing, SameButJobs

LEMMA UpsertAgrees ==
    ASSUME NEW w, WorkerOK(w), Agreeing(w), NEW d \in Docs, NEW t \in Texts
    PROVE  Agreeing(Upsert(w, d, t))
<1> DEFINE written == IF w.tracked[d] \in {t, None} THEN w ELSE Cancel(w)
<1>1. Agreeing(written) /\ WorkerOK(written)
  BY CancelAgrees, CancelOK
<1>2. Upsert(w, d, t) = [written EXCEPT !.tracked[d] = t]
  BY DEF Upsert
<1> HIDE DEF written
<1>3. /\ Upsert(w, d, t).pending = written.pending
      /\ Upsert(w, d, t).jobs = written.jobs
      /\ Upsert(w, d, t).out = written.out
  BY <1>1, <1>2 DEF WorkerOK, WorkerRecord
<1> QED
  BY <1>1, <1>3 DEF Agreeing

LEMMA StartAgrees ==
    ASSUME NEW w, WorkerOK(w), FreeJob(w), Agreeing(w), NEW d \in Docs,
           w.pending[d] # None
    PROVE  Agreeing(Start(w, d))
<1> DEFINE t == w.pending[d].text
           v == Upsert(w, d, t)
           x == Start(w, d)
<1>1. t \in Texts
  BY DEF WorkerOK, WorkerRecord, Request
<1>2. Agreeing(v) /\ WorkerOK(v)
  BY <1>1, UpsertAgrees, UpsertOK
<1>3. PICK id \in JobIds :
        /\ x.jobs[id].uri = d
        /\ x.jobs[id].version = w.pending[d].version
        /\ x.jobs[id].text = t
        /\ \A j \in JobIds \ {id} : x.jobs[j] = v.jobs[j]
  <2>1. \E j \in JobIds : w.jobs[j] = None
    BY DEF FreeJob
  <2>2. StartsJob(w, d, Start(w, d))
    BY <2>1, StartEffect
  <2> QED
    BY <2>2 DEF StartsJob
<1>4. x.pending = [w.pending EXCEPT ![d] = None]
  BY StartEffect DEF FreeJob
<1>5. x.out = v.out
  BY <1>2 DEF Start, WorkerOK, WorkerRecord
<1> HIDE DEF v, x
<1>6. Agrees(d, w.pending[d].version, t)
  BY DEF Agreeing, QueueAgrees
<1>7. JobsAgree(x.jobs)
  BY <1>2, <1>3, <1>6 DEF JobsAgree, Agreeing
<1>8. QueueAgrees(x.pending)
  BY <1>4 DEF QueueAgrees, Agreeing, WorkerOK, WorkerRecord
<1> QED
  BY <1>2, <1>5, <1>7, <1>8 DEF Agreeing, x

LEMMA TryDispatchAgrees ==
    ASSUME NEW w, WorkerOK(w), FreeJob(w), Agreeing(w),
           NEW x \in TryDispatch(w)
    PROVE  Agreeing(x)
<1>1. /\ WorkerOK(Superseded(w)) /\ FreeJob(Superseded(w))
      /\ Superseded(w).pending = w.pending
  BY SupersededOK DEF FreeJob
<1>2. Agreeing(Superseded(w))
  <2>1. Agreeing(Cancel(w)) /\ WorkerOK(Cancel(w))
    BY CancelAgrees, CancelOK
  <2>2. /\ Superseded(w).pending = Cancel(w).pending
        /\ Superseded(w).jobs = Cancel(w).jobs
        /\ Superseded(w).out = Cancel(w).out
    BY <2>1 DEF Superseded, WorkerOK, WorkerRecord
  <2> QED
    BY <2>1, <2>2 DEF Agreeing
<1> QED
  BY <1>1, <1>2, TryDispatchCases, StartAgrees

LEMMA DrainAgrees ==
    ASSUME NEW w, WorkerOK(w), Agreeing(w), NEW q \in Seq(Request),
           RequestsAgree(q)
    PROVE  Agreeing(Drain(w, q))
<1>1. CASE q = <<>>
  BY <1>1 DEF Drain
<1>2. CASE q # <<>>
  <2> DEFINE pnd == [d \in Docs |-> Coalesce(w.pending[d], q, d)]
  <2>1. /\ Drain(w, q).pending = pnd
        /\ Drain(w, q).jobs = w.jobs
        /\ Drain(w, q).out = w.out
    BY <1>2 DEF Drain, WorkerOK, WorkerRecord
  <2>2. ASSUME NEW d \in Docs, pnd[d] # None
        PROVE  Agrees(d, pnd[d].version, pnd[d].text)
    <3>1. PICK r \in {w.pending[d]} \cup {q[i] : i \in DOMAIN q} :
            /\ r \in Request /\ r.uri = d
            /\ Coalesce(w.pending[d], q, d).version = r.version
            /\ Coalesce(w.pending[d], q, d).text = r.text
      BY <2>2, CoalesceOrigin DEF WorkerOK, WorkerRecord
    <3>2. Agrees(d, r.version, r.text)
      <4>1. CASE r = w.pending[d]
        BY <3>1, <4>1, NoneAssumption DEF Agreeing, QueueAgrees
      <4>2. CASE r \in {q[i] : i \in DOMAIN q}
        BY <3>1, <4>2 DEF RequestsAgree
      <4> QED
        BY <4>1, <4>2
    <3> QED
      BY <3>1, <3>2
  <2> QED
    BY <2>1, <2>2 DEF Agreeing, QueueAgrees
<1> QED
  BY <1>1, <1>2

LEMMA SendRefreshAgrees ==
    ASSUME NEW w, WorkerOK(w), Agreeing(w)
    PROVE  Agreeing(SendRefresh(w))
<1>1. w.out \in Seq(Outbound)
  BY DEF WorkerOK, WorkerRecord
<1>2. /\ SendRefresh(w).out = Append(w.out, Refresh)
      /\ SendRefresh(w).pending = w.pending
      /\ SendRefresh(w).jobs = w.jobs
  BY DEF SendRefresh, WorkerOK, WorkerRecord
<1> QED
  BY <1>1, <1>2, AppendRefreshAgrees DEF Agreeing

(* A change of the slot, the projections or the index disturbs nothing.    *)
SameInTransit(v, w) ==
    v.pending = w.pending /\ v.jobs = w.jobs /\ v.out = w.out

LEMMA SameInTransitAgrees ==
    ASSUME NEW v, NEW w, SameInTransit(v, w), Agreeing(w)
    PROVE  Agreeing(v)
BY DEF SameInTransit, Agreeing

LEMMA OnDoneAgrees ==
    ASSUME NEW w, WorkerOK(w), Agreeing(w), NEW job \in AnalyzeDone
    PROVE  Agreeing(OnDone(w, job))
<1> DEFINE v == [w EXCEPT !.inflight = None]
           u == [v EXCEPT !.projections[job.uri] = job.projection]
<1>1. WorkerOK(v) /\ SameInTransit(v, w)
  BY DEF WorkerOK, WorkerRecord, SameInTransit
<1>2. job.uri \in Docs /\ job.projection \in Projections \cup {None}
  BY DEF AnalyzeDone
<1>3. v \in WorkerRecord
  BY <1>1 DEF WorkerOK
<1> HIDE DEF v
<1>4. WorkerOK(u) /\ SameInTransit(u, v)
  BY <1>1, <1>2, <1>3 DEF WorkerOK, WorkerRecord, SameInTransit
<1> HIDE DEF u
<1>5. Agreeing(v) /\ Agreeing(u)
  BY <1>1, <1>4, SameInTransitAgrees
<1>6. Agreeing(SendRefresh(u))
  BY <1>4, <1>5, SendRefreshAgrees
<1> QED
  BY <1>5, <1>6 DEF OnDone, RecordProjection, u, v

LEMMA OnSyncAgrees ==
    ASSUME NEW w, WorkerOK(w), Agreeing(w), NEW d \in Docs,
           disk \in [Docs -> Texts]
    PROVE  Agreeing(OnSync(w, d))
<1> DEFINE v == DropQueued(w, d)
           u == Upsert(v, d, disk[d])
           r == Revert(v, d)
           f == [r EXCEPT !.projections[d] = None]
<1>1. WorkerOK(v) /\ WorkerOK(u) /\ WorkerOK(r)
  BY DropQueuedOK, UpsertOK, RevertOK
<1>2. Agreeing(v)
  <2>1. /\ v.jobs = w.jobs /\ v.out = w.out
        /\ v.pending \in {w.pending, [w.pending EXCEPT ![d] = None]}
    BY DEF DropQueued, WorkerOK, WorkerRecord
  <2>2. w.pending \in [Docs -> Request \cup {None}]
    BY DEF WorkerOK, WorkerRecord
  <2>3. QueueAgrees(v.pending)
    BY <2>1, <2>2 DEF Agreeing, QueueAgrees
  <2> QED
    BY <2>1, <2>3 DEF Agreeing
<1> HIDE DEF v
<1>3. Agreeing(u)
  BY <1>1, <1>2, UpsertAgrees
<1> HIDE DEF u
<1>4. r = v \/ SameInTransit(r, u)
  BY <1>1 DEF Revert, SameInTransit, WorkerOK, WorkerRecord, u
<1>5. Agreeing(r)
  BY <1>2, <1>3, <1>4, SameInTransitAgrees
<1> HIDE DEF r
<1>6. WorkerOK(f) /\ SameInTransit(f, r)
  BY <1>1 DEF WorkerOK, WorkerRecord, SameInTransit
<1> HIDE DEF f
<1>7. Agreeing(SendRefresh(f))
  BY <1>5, <1>6, SameInTransitAgrees, SendRefreshAgrees
<1>8. OnSync(w, d) = ForgetProjection(r, d)
  BY DEF OnSync, r, v
<1> QED
  BY <1>5, <1>7, <1>8 DEF ForgetProjection, f

(* The open buffers carry the client's last version, and everything in     *)
(* transit agrees with them.                                               *)
VersionsCurrent ==
    \A d \in Docs :
        documents[d] # None => documents[d].version = lastVersion[d]

AgreeInv ==
    /\ VersionsCurrent
    /\ RequestsAgree(analysis_rx)
    /\ QueueAgrees(pending)
    /\ JobsAgree(jobs)
    /\ ReportsAgree(out_rx)

LEMMA WorkerAgrees ==
    ASSUME AgreeInv, NEW stage
    PROVE  Agreeing(Worker(stage))
BY DEF AgreeInv, Agreeing, Worker

(* An arm leaves the client's state alone and commits an agreeing record.  *)
LEMMA CommitAgrees ==
    ASSUME NEW w, Agreeing(w), Commit(w), AgreeInv,
           UNCHANGED <<lastVersion, documents>>,
           RequestsAgree(analysis_rx)'
    PROVE  AgreeInv'
BY DEF Agreeing, Commit, AgreeInv, VersionsCurrent, QueueAgrees, JobsAgree,
       ReportsAgree, Agrees,
       AgreesIn

LEMMA DispatchesAgrees ==
    ASSUME NEW w, Agreeing(w), Dispatches(w), AgreeInv,
           UNCHANGED <<lastVersion, documents>>,
           RequestsAgree(analysis_rx)'
    PROVE  AgreeInv'
<1>1. PICK x \in TryDispatch(w) : Commit(x)
  BY DEF Dispatches
<1>2. Agreeing(x)
  BY TryDispatchAgrees DEF Dispatches
<1> QED
  BY <1>1, <1>2, CommitAgrees

(* A new version outdates everything in transit about its document.        *)
LEMMA SetDocumentAgrees ==
    ASSUME TypeInv, AgreeInv, NEW d \in Docs, NEW t \in Texts,
           SetDocument(d, [version |-> lastVersion[d] + 1, text |-> t])
    PROVE  AgreeInv'
<1> DEFINE n == lastVersion[d] + 1
           doc == [version |-> n, text |-> t]
<1>1. /\ lastVersion \in [Docs -> Nat] /\ n \in Nat
      /\ documents \in [Docs -> Document \cup {None}]
  BY BoundsAssumption DEF TypeInv, TypeOK
<1>2. /\ lastVersion' = [lastVersion EXCEPT ![d] = n]
      /\ documents' = [documents EXCEPT ![d] = doc]
      /\ analysis_rx' = Append(analysis_rx, RequestFor(d, doc, rules))
      /\ UNCHANGED <<pending, jobs, out_rx>>
  BY DEF SetDocument, workerVars
<1>3. VersionsCurrent'
  BY <1>1, <1>2 DEF VersionsCurrent, AgreeInv
<1>4. ASSUME NEW u \in Docs, NEW v \in Nat, NEW txt, Agrees(u, v, txt)
      PROVE  AgreesNext(u, v, txt)
  BY <1>1, <1>2, <1>4 DEF Agrees, AgreesNext, AgreesIn
<1>5. AgreesNext(d, n, t)
  BY <1>1, <1>2 DEF Agrees, AgreesNext, AgreesIn
<1>6. RequestsAgree(analysis_rx)'
  <2>1. analysis_rx \in Seq(Request)
    BY DEF TypeInv, TypeOK
  <2>2. \A i \in 1..Len(analysis_rx) :
          AgreesNext(analysis_rx[i].uri, analysis_rx[i].version,
                 analysis_rx[i].text)
    <3>1. \A i \in 1..Len(analysis_rx) :
            analysis_rx[i].uri \in Docs /\ analysis_rx[i].version \in Nat
      <4>1. \A i \in 1..Len(analysis_rx) : analysis_rx[i] \in Request
        BY <2>1
      <4> QED
        BY <4>1, BoundsAssumption DEF Request, Versions
    <3> QED
      BY <1>4, <3>1 DEF RequestsAgree, AgreeInv
  <2>3. AgreesNext(RequestFor(d, doc, rules).uri, RequestFor(d, doc, rules).version,
               RequestFor(d, doc, rules).text)
    BY <1>5 DEF RequestFor
  <2> QED
    <3> DEFINE req == RequestFor(d, doc, rules)
    <3>1. AgreesNext(req.uri, req.version, req.text)
      BY <2>3
    <3>2. analysis_rx' = Append(analysis_rx, req)
      BY <1>2
    <3> HIDE DEF req
    <3>3. \A i \in 1..Len(analysis_rx') :
            \/ i \in 1..Len(analysis_rx) /\ analysis_rx'[i] = analysis_rx[i]
            \/ analysis_rx'[i] = req
      BY <2>1, <3>2
    <3> QED
      BY <2>2, <3>1, <3>3 DEF RequestsAgree, Agrees, AgreesNext
<1>7. QueueAgrees(pending)'
  <2>1. \A e \in Docs : pending[e] # None => pending[e].version \in Nat
    BY BoundsAssumption DEF TypeInv, TypeOK, Request, Versions
  <2> QED
    BY <1>2, <1>4, <2>1 DEF QueueAgrees, AgreeInv, Agrees, AgreesNext
<1>8. JobsAgree(jobs)'
  <2>1. \A j \in JobIds : Live(jobs[j]) =>
          jobs[j].uri \in Docs /\ jobs[j].version \in Nat
    BY LiveIsJob, BoundsAssumption
       DEF TypeInv, TypeOK, JobSlots, Job, Versions
  <2> QED
    BY <1>2, <1>4, <2>1 DEF JobsAgree, AgreeInv, Agrees, AgreesNext
<1>9. ReportsAgree(out_rx)'
  <2>1. \A i \in 1..Len(out_rx) : out_rx[i].kind = "diagnostics" =>
          out_rx[i].uri \in Docs /\ out_rx[i].version \in Nat
    <3> SUFFICES ASSUME NEW i \in 1..Len(out_rx),
                        out_rx[i].kind = "diagnostics"
                 PROVE  out_rx[i].uri \in Docs /\ out_rx[i].version \in Nat
      OBVIOUS
    <3>1. out_rx \in Seq(Report \cup {Refresh})
      BY DEF TypeInv, TypeOK
    <3>2. out_rx[i] \in Report \cup {Refresh}
      BY <3>1
    <3>3. out_rx[i] \in Report
      BY <3>2 DEF Refresh
    <3>4. MaxEdits \in Nat
      BY BoundsAssumption
    <3> QED
      BY <3>3, <3>4 DEF Report, Versions
  <2> QED
    BY <1>2, <1>4, <2>1 DEF ReportsAgree, AgreeInv, Agrees, AgreesNext
<1> QED
  BY <1>3, <1>6, <1>7, <1>8, <1>9 DEF AgreeInv

LEMMA SendAllAgrees ==
    ASSUME TypeInv, AgreeInv, NEW r \in 0..MaxRules, SendAll(OpenDocs, r),
           UNCHANGED <<lastVersion, documents>>
    PROVE  RequestsAgree(analysis_rx)'
<1>1. PICK order \in Bijection(1..Cardinality(OpenDocs), OpenDocs) :
        analysis_rx' = analysis_rx \o
            [i \in DOMAIN order |->
                RequestFor(order[i], documents[order[i]], r)]
  BY DEF SendAll
<1>2. Cardinality(OpenDocs) \in Nat
  BY FiniteAssumption, FS_Subset, FS_CardinalityType DEF OpenDocs
<1>3. order \in [1..Cardinality(OpenDocs) -> OpenDocs]
  BY <1>1 DEF Bijection, Injection
<1> DEFINE sent == [i \in 1..Cardinality(OpenDocs) |->
                      RequestFor(order[i], documents[order[i]], r)]
<1>4. \A i \in 1..Cardinality(OpenDocs) :
        AgreesNext(sent[i].uri, sent[i].version, sent[i].text)
  <2> TAKE i \in 1..Cardinality(OpenDocs)
  <2>1. order[i] \in Docs /\ documents[order[i]] # None
    BY <1>3 DEF OpenDocs
  <2>2. documents[order[i]].version = lastVersion[order[i]]
    BY <2>1 DEF AgreeInv, VersionsCurrent
  <2>3. lastVersion[order[i]] \in Nat
    BY <2>1, BoundsAssumption DEF TypeInv, TypeOK
  <2> QED
    BY <2>1, <2>2, <2>3 DEF RequestFor, Agrees, AgreesNext, AgreesIn
<1>5. \A d \in OpenDocs : d \in Docs /\ documents[d] \in Document
  BY DEF OpenDocs, TypeInv, TypeOK
<1>6. sent \in [1..Cardinality(OpenDocs) -> Request]
  BY <1>3, <1>5, RequestForType
<1>7. analysis_rx' = analysis_rx \o sent
  BY <1>1, <1>3
<1>8. \A i \in 1..Len(analysis_rx) :
        AgreesNext(analysis_rx[i].uri, analysis_rx[i].version,
               analysis_rx[i].text)
  BY DEF AgreeInv, RequestsAgree, Agrees, AgreesNext, AgreesIn
<1> HIDE DEF sent
<1>9. sent \in Seq(Request) /\ Len(sent) = Cardinality(OpenDocs)
  BY <1>2, <1>6, SeqDef
<1>10. analysis_rx \in Seq(Request)
  BY DEF TypeInv, TypeOK
<1> QED
  BY <1>4, <1>7, <1>8, <1>9, <1>10 DEF RequestsAgree, Agrees, AgreesNext

LEMMA AgreesCarriesOver ==
    ASSUME TypeInv, AgreeInv,
           \A u \in Docs : \A v, t : Agrees(u, v, t) => AgreesNext(u, v, t),
           UNCHANGED <<analysis_rx, pending, jobs, out_rx>>, VersionsCurrent'
    PROVE  AgreeInv'
<1>1. RequestsAgree(analysis_rx)'
  <2>1. \A i \in 1..Len(analysis_rx) : analysis_rx[i] \in Request
    BY DEF TypeInv, TypeOK
  <2>2. \A i \in 1..Len(analysis_rx) : analysis_rx[i].uri \in Docs
    BY <2>1 DEF Request
  <2> QED
    BY <2>2 DEF RequestsAgree, AgreeInv, Agrees, AgreesNext
<1>2. QueueAgrees(pending)'
  BY DEF QueueAgrees, AgreeInv, Agrees, AgreesNext
<1>3. JobsAgree(jobs)'
  <2>1. \A j \in JobIds : Live(jobs[j]) => jobs[j].uri \in Docs
    BY LiveIsJob DEF TypeInv, TypeOK, JobSlots, Job
  <2> QED
    BY <2>1 DEF JobsAgree, AgreeInv, Agrees, AgreesNext
<1>4. ReportsAgree(out_rx)'
  <2>1. \A i \in 1..Len(out_rx) :
          out_rx[i].kind = "diagnostics" => out_rx[i].uri \in Docs
    BY DEF TypeInv, TypeOK, Report, Refresh
  <2> QED
    BY <2>1 DEF ReportsAgree, AgreeInv, Agrees, AgreesNext
<1> QED
  BY <1>1, <1>2, <1>3, <1>4 DEF AgreeInv

LEMMA UnchangedAgrees ==
    ASSUME AgreeInv, RequestsAgree(analysis_rx)',
           UNCHANGED <<lastVersion, documents, pending, jobs, out_rx>>
    PROVE  AgreeInv'
BY DEF AgreeInv, VersionsCurrent, QueueAgrees, JobsAgree, ReportsAgree,
       Agrees, AgreesIn

LEMMA TailAgrees ==
    ASSUME TypeInv, AgreeInv, RequestsAgree(analysis_rx)',
           UNCHANGED <<lastVersion, documents, pending, jobs>>,
           out_rx # <<>>, out_rx' = Tail(out_rx)
    PROVE  AgreeInv'
<1>1. out_rx \in Seq(Outbound)
  BY DEF TypeInv, TypeOK, Outbound
<1>2. \A i \in 1..Len(out_rx') :
        i + 1 \in 1..Len(out_rx) /\ out_rx'[i] = out_rx[i + 1]
  BY <1>1
<1>3. ReportsAgree(out_rx')
  BY <1>2 DEF AgreeInv, ReportsAgree
<1> QED
  BY <1>3 DEF AgreeInv, VersionsCurrent, QueueAgrees, JobsAgree, ReportsAgree,
              Agrees, AgreesIn

LEMMA InitAgrees == Init => AgreeInv
BY NoneAssumption
   DEF Init, AgreeInv, VersionsCurrent, RequestsAgree, QueueAgrees, JobsAgree,
       ReportsAgree, Live

LEMMA AgreeStep ==
    ASSUME ~ VersionsRestart, TypeInv, AgreeInv, [Next]_vars
    PROVE  AgreeInv'
<1>1. ASSUME NEW d \in Docs, NEW t \in Texts,
             DidOpen(d, t) \/ DidChange(d, t)
      PROVE  AgreeInv'
  <2>1. DidOpen(d, t) =>
          SetDocument(d, [version |-> lastVersion[d] + 1, text |-> t])
    BY DEF DidOpen, FirstVersion
  <2>2. DidChange(d, t) =>
          SetDocument(d, [version |-> lastVersion[d] + 1, text |-> t])
    BY DEF DidChange, AgreeInv, VersionsCurrent
  <2> QED
    BY <1>1, <2>1, <2>2, SetDocumentAgrees
<1>2. ASSUME NEW d \in Docs, DidClose(d)
      PROVE  AgreeInv'
  <2>1. /\ documents' = [documents EXCEPT ![d] = None]
        /\ documents \in [Docs -> Document \cup {None}]
        /\ UNCHANGED <<lastVersion, analysis_rx, pending, jobs, out_rx>>
    BY <1>2 DEF DidClose, clientVars, workerVars, TypeInv, TypeOK
  <2>2. \A u \in Docs : \A v, t : Agrees(u, v, t) => AgreesNext(u, v, t)
    BY <2>1 DEF Agrees, AgreesNext, AgreesIn
  <2>3. VersionsCurrent'
    BY <2>1 DEF VersionsCurrent, AgreeInv
  <2> QED
    BY <2>1, <2>2, <2>3, AgreesCarriesOver
<1>3. CASE DidChangeConfiguration
  <2>1. rules + 1 \in 0..MaxRules
    BY <1>3, BoundsAssumption DEF DidChangeConfiguration, TypeInv, TypeOK
  <2>2. UNCHANGED <<lastVersion, documents, pending, jobs, out_rx>>
    BY <1>3 DEF DidChangeConfiguration, clientVars, workerVars
  <2>3. RequestsAgree(analysis_rx)'
    BY <1>3, <2>1, <2>2, SendAllAgrees DEF DidChangeConfiguration
  <2> QED
    BY <2>2, <2>3, UnchangedAgrees
<1>4. CASE OnDiagnosticsRefresh
  <2>1. UNCHANGED <<lastVersion, documents, pending, jobs>>
    BY <1>4 DEF OnDiagnosticsRefresh, clientVars, mainVars, workerVars
  <2>2. RequestsAgree(analysis_rx)'
    BY <1>4, <2>1, SendAllAgrees
       DEF OnDiagnosticsRefresh, TypeInv, TypeOK
  <2>3. out_rx' = Tail(out_rx) /\ out_rx # <<>>
    BY <1>4 DEF OnDiagnosticsRefresh
  <2> QED
    BY <2>1, <2>2, <2>3, TailAgrees
<1>5. CASE OnDiagnostics
  <2>1. /\ UNCHANGED <<lastVersion, documents, analysis_rx, pending, jobs>>
        /\ out_rx' = Tail(out_rx) /\ out_rx # <<>>
    BY <1>5 DEF OnDiagnostics, clientVars, workerVars
  <2>2. RequestsAgree(analysis_rx)'
    BY <2>1 DEF AgreeInv, RequestsAgree, Agrees, AgreesIn
  <2> QED
    BY <2>1, <2>2, TailAgrees
<1>6. CASE AnalysisArm
  <2>1. PICK stage \in Stages :
          /\ WorkerOK(Worker(stage))
          /\ Dispatches(Drain(Worker(stage), analysis_rx))
    BY <1>6, AnalysisArmStep
  <2>2. analysis_rx \in Seq(Request) /\ RequestsAgree(analysis_rx)
    BY DEF TypeInv, TypeOK, AgreeInv
  <2>3. Agreeing(Drain(Worker(stage), analysis_rx))
    BY <2>1, <2>2, WorkerAgrees, DrainAgrees
  <2>4. UNCHANGED <<lastVersion, documents>> /\ RequestsAgree(analysis_rx)'
    BY <1>6 DEF AnalysisArm, clientVars, mainVars, RequestsAgree
  <2> QED
    BY <2>1, <2>3, <2>4, DispatchesAgrees
<1>7. CASE SyncArm
  <2>1. PICK stage \in Stages, d \in Docs :
          /\ WorkerOK(Worker(stage))
          /\ disk \in [Docs -> Texts]
          /\ WorkerOK(Drain(Worker(stage), analysis_rx))
          /\ Dispatches(OnSync(Drain(Worker(stage), analysis_rx), d))
    BY <1>7, SyncArmStep
  <2>2. analysis_rx \in Seq(Request) /\ RequestsAgree(analysis_rx)
    BY DEF TypeInv, TypeOK, AgreeInv
  <2>3. Agreeing(Drain(Worker(stage), analysis_rx))
    BY <2>1, <2>2, WorkerAgrees, DrainAgrees
  <2>4. Agreeing(OnSync(Drain(Worker(stage), analysis_rx), d))
    BY <2>1, <2>3, OnSyncAgrees
  <2>5. UNCHANGED <<lastVersion, documents>> /\ RequestsAgree(analysis_rx)'
    BY <1>7 DEF SyncArm, clientVars, mainVars, RequestsAgree
  <2> QED
    BY <2>1, <2>4, <2>5, DispatchesAgrees
<1>8. CASE LibraryArm
  <2>1. PICK stage \in Stages :
          LET w == SendRefresh([Cancel(Worker(stage))
                                  EXCEPT !.library = @ + 1])
          IN WorkerOK(Worker(stage)) /\ WorkerOK(w) /\ Commit(w)
    BY <1>8, LibraryArmStep
  <2> DEFINE v == Cancel(Worker(stage))
             u == [v EXCEPT !.library = @ + 1]
  <2>2. Agreeing(v) /\ WorkerOK(v)
    BY <2>1, WorkerAgrees, CancelAgrees, CancelOK
  <2>3. v.library = library /\ library + 1 \in 0..MaxLibrary
    <3>1. v.library = library
      BY <2>1, CancelFrame DEF SameButJobs, Worker
    <3>2. library \in 0..MaxLibrary /\ MaxLibrary \in Nat
      BY BoundsAssumption DEF TypeInv, TypeOK
    <3>3. library < MaxLibrary
      BY <1>8 DEF LibraryArm
    <3> QED
      BY <3>1, <3>2, <3>3
  <2> HIDE DEF v
  <2>4. WorkerOK(u) /\ SameInTransit(u, v)
    BY <2>2, <2>3 DEF WorkerOK, WorkerRecord, SameInTransit
  <2>5. Agreeing(SendRefresh(u))
    BY <2>2, <2>4, SameInTransitAgrees, SendRefreshAgrees
  <2>6. UNCHANGED <<lastVersion, documents, analysis_rx>>
    BY <1>8 DEF LibraryArm, clientVars, mainVars
  <2>7. RequestsAgree(analysis_rx)'
    BY <2>6 DEF AgreeInv, RequestsAgree, Agrees, AgreesIn
  <2> QED
    BY <2>1, <2>5, <2>6, <2>7, CommitAgrees DEF v
<1>9. ASSUME NEW j \in JobIds, DoneArm(j)
      PROVE  AgreeInv'
  <2>1. PICK stage \in Stages :
          /\ jobs[j] \in AnalyzeDone
          /\ WorkerOK(Worker(stage))
          /\ WorkerOK(Received(stage, j))
          /\ Dispatches(OnDone(Received(stage, j), jobs[j]))
    BY <1>9, DoneArmStep
  <2>2. Agreeing(Received(stage, j))
    BY <2>1, WorkerAgrees
       DEF Received, Agreeing, JobsAgree, Live, WorkerOK, WorkerRecord
  <2>3. Agreeing(OnDone(Received(stage, j), jobs[j]))
    BY <2>1, <2>2, OnDoneAgrees
  <2>4. UNCHANGED <<lastVersion, documents, analysis_rx>>
    BY <1>9 DEF DoneArm, clientVars, mainVars
  <2>5. RequestsAgree(analysis_rx)'
    BY <2>4 DEF AgreeInv, RequestsAgree, Agrees, AgreesIn
  <2> QED
    BY <2>1, <2>3, <2>4, <2>5, DispatchesAgrees
<1>10. ASSUME NEW j \in JobIds, JobFinish(j)
       PROVE  AgreeInv'
  <2>1. /\ UNCHANGED <<lastVersion, documents, analysis_rx, pending>>
        /\ Live(jobs[j])
        /\ jobs' = [jobs EXCEPT ![j] = DoneOf(jobs[j], jobs[j].projection)]
        /\ out_rx' = Append(out_rx, ReportOf(jobs[j], jobs[j].world))
    BY <1>10 DEF JobFinish, clientVars, mainVars, workerVars
  <2>2. \A i \in JobIds : Live(jobs'[i]) => jobs'[i] = jobs[i]
    BY <2>1 DEF Live, DoneOf, TypeInv, TypeOK
  <2> DEFINE report == ReportOf(jobs[j], jobs[j].world)
  <2>3. Agrees(report.uri, report.version, report.diags.text)
    BY <2>1 DEF ReportOf, AgreeInv, JobsAgree
  <2>4. out_rx \in Seq(Outbound) /\ out_rx' = Append(out_rx, report)
    BY <2>1 DEF TypeInv, TypeOK, Outbound
  <2> HIDE DEF report
  <2>5. \A i \in 1..Len(out_rx') :
          \/ i \in 1..Len(out_rx) /\ out_rx'[i] = out_rx[i]
          \/ out_rx'[i] = report
    BY <2>4
  <2>6. ReportsAgree(out_rx')
    BY <2>3, <2>5 DEF AgreeInv, ReportsAgree
  <2>7. JobsAgree(jobs')
    BY <2>2 DEF AgreeInv, JobsAgree
  <2> QED
    BY <2>1, <2>6, <2>7
       DEF AgreeInv, VersionsCurrent, RequestsAgree, QueueAgrees, JobsAgree,
           ReportsAgree, Agrees, AgreesIn
<1>11. ASSUME NEW j \in JobIds, JobPanic(j)
       PROVE  AgreeInv'
  <2>1. /\ UNCHANGED <<lastVersion, documents, analysis_rx, pending, out_rx>>
        /\ jobs' = [jobs EXCEPT ![j] = None]
    BY <1>11 DEF JobPanic, clientVars, mainVars, workerVars
  <2>2. \A i \in JobIds : Live(jobs'[i]) => jobs'[i] = jobs[i]
    BY <2>1 DEF Live, TypeInv, TypeOK
  <2> QED
    BY <2>1, <2>2
       DEF AgreeInv, VersionsCurrent, RequestsAgree, QueueAgrees, JobsAgree,
           ReportsAgree, Agrees, AgreesIn
<1>12. CASE UNCHANGED <<lastVersion, documents, analysis_rx, pending, jobs,
                        out_rx>>
  BY <1>12
     DEF AgreeInv, VersionsCurrent, RequestsAgree, QueueAgrees, JobsAgree,
         ReportsAgree, Agrees, AgreesIn
<1>13. ASSUME NEW d \in Docs, NEW t \in Texts,
              Rewrite(d, t) \/ DidChangeWatchedFiles(d)
       PROVE  AgreeInv'
  BY <1>12, <1>13
     DEF Rewrite, DidChangeWatchedFiles, mainVars, workerVars
<1>14. CASE UNCHANGED vars
  BY <1>12, <1>14 DEF vars, clientVars, mainVars, workerVars
<1> QED
  BY <1>1, <1>2, <1>3, <1>4, <1>5, <1>6, <1>7, <1>8, <1>9, <1>10, <1>11,
     <1>13, <1>14, TextsAssumption
     DEF Next, Client, MainLoop, AnalysisThread, Pool

(* The refinement mapping of Service.                                      *)
Buffer == [d \in Docs |-> IF documents[d] = None THEN None
                                                 ELSE documents[d].text]
Shown == [d \in Docs |-> IF parse_diags[d] = None THEN None
                                                  ELSE parse_diags[d].text]

LEMMA ServiceStutter ==
    ASSUME UNCHANGED <<documents, parse_diags>>
    PROVE  UNCHANGED Service!vars
BY DEF Service!vars

LEMMA OpenedVersion ==
    ASSUME TypeInv, NEW d \in Docs, NEW t \in Texts,
           DidOpen(d, t) \/ DidChange(d, t)
    PROVE  \E v \in Versions :
             /\ documents' = [documents EXCEPT
                                ![d] = [version |-> v, text |-> t]]
             /\ parse_diags' = parse_diags
<1>1. edits \in Nat /\ edits < MaxEdits /\ lastVersion[d] <= edits
      /\ lastVersion[d] \in Nat
  BY BoundsAssumption
     DEF DidOpen, DidChange, SetDocument, TypeInv, TypeOK
<1>2. CASE DidOpen(d, t)
  <2>1. FirstVersion(d) \in Versions
    BY <1>1, BoundsAssumption DEF FirstVersion, Versions
  <2> QED
    BY <1>2, <2>1 DEF DidOpen, SetDocument
<1>3. CASE DidChange(d, t)
  <2>1. documents[d] \in Document /\ documents[d].version <= edits
    BY <1>3 DEF DidChange, TypeInv, TypeOK
  <2>2. documents[d].version + 1 \in Versions
    BY <1>1, <2>1, BoundsAssumption DEF Document, Versions
  <2> QED
    BY <1>3, <2>2 DEF DidChange, SetDocument
<1> QED
  BY <1>2, <1>3

LEMMA ServiceStep ==
    ASSUME TypeInv, AgreeInv, [Next]_vars
    PROVE  [Service!Next]_(Service!vars)
<1> USE DEF Service!Next, Service!vars
<1>1. ASSUME NEW d \in Docs, NEW t \in Texts,
             DidOpen(d, t) \/ DidChange(d, t)
      PROVE  [Service!Next]_(Service!vars)
  <2>1. PICK v \in Versions :
          /\ documents' = [documents EXCEPT
                             ![d] = [version |-> v, text |-> t]]
          /\ parse_diags' = parse_diags
    BY <1>1, OpenedVersion
  <2>2. documents \in [Docs -> Document \cup {None}]
    BY DEF TypeInv, TypeOK
  <2>3. [version |-> v, text |-> t] # None
    BY <2>1, NoneAssumption DEF Document
  <2>4. Buffer' = [Buffer EXCEPT ![d] = t]
    BY <2>1, <2>2, <2>3 DEF Buffer
  <2>5. Service!Edit(d, t)
    BY <2>1, <2>4 DEF Service!Edit, Buffer
  <2> QED
    BY <2>5
<1>2. ASSUME NEW d \in Docs, DidClose(d)
      PROVE  [Service!Next]_(Service!vars)
  <2>1. /\ documents[d] # None
        /\ documents' = [documents EXCEPT ![d] = None]
        /\ parse_diags' = [parse_diags EXCEPT ![d] = None]
        /\ documents \in [Docs -> Document \cup {None}]
        /\ parse_diags \in [Docs -> Diags \cup {None}]
    BY <1>2 DEF DidClose, TypeInv, TypeOK
  <2>2. documents[d].text # None
    BY <2>1, NoneAssumption DEF Document
  <2>3. Service!Close(d)
    BY <2>1, <2>2 DEF Service!Close
  <2> QED
    BY <2>3
<1>3. CASE OnDiagnostics
  <2> DEFINE report == Head(out_rx)
  <2>1. /\ documents' = documents
        /\ parse_diags \in [Docs -> Diags \cup {None}]
        /\ documents \in [Docs -> Document \cup {None}]
        /\ out_rx \in Seq(Report \cup {Refresh})
        /\ out_rx # <<>> /\ report.kind = "diagnostics"
    BY <1>3 DEF OnDiagnostics, TypeInv, TypeOK
  <2>2. report \in Report /\ report = out_rx[1] /\ 1 \in 1..Len(out_rx)
    <3>1. report \in Report \cup {Refresh} /\ report = out_rx[1]
          /\ 1 \in 1..Len(out_rx)
      BY <2>1
    <3> QED
      BY <2>1, <3>1 DEF Refresh
  <2> HIDE DEF report
  <2>3. CASE ~ Accept(report)
    BY <1>3, <2>1, <2>3, ServiceStutter DEF OnDiagnostics, report
  <2>4. CASE Accept(report)
    <3>1. /\ report.uri \in Docs /\ report.diags \in Diags
          /\ report.diags # None
      BY <2>2, NoneAssumption DEF Report
    <3>2. Agrees(report.uri, report.version, report.diags.text)
      BY <2>1, <2>2 DEF AgreeInv, ReportsAgree
    <3>3. /\ documents[report.uri] # None
          /\ documents[report.uri].text = report.diags.text
      BY <2>4, <3>2 DEF Accept, Agrees, AgreesIn
    <3>4. parse_diags' = [parse_diags EXCEPT ![report.uri] = report.diags]
      BY <1>3, <2>4 DEF OnDiagnostics, report
    <3>5. documents[report.uri].text # None
      BY <2>1, <3>1, <3>3, NoneAssumption DEF Document
    <3>6. PICK d \in Docs : d = report.uri
      BY <3>1
    <3>7. Service!Show(d)
      BY <2>1, <3>1, <3>3, <3>4, <3>5, <3>6 DEF Service!Show
    <3> QED
      BY <3>7
  <2> QED
    BY <2>3, <2>4
<1>4. CASE UNCHANGED <<documents, parse_diags>>
  BY <1>4, ServiceStutter
<1>5. AnalysisThread \/ Pool \/ OnDiagnosticsRefresh \/ DidChangeConfiguration
        \/ (\E j \in JobIds : JobPanic(j)) \/ UNCHANGED vars
        \/ (\E d \in Docs, t \in Texts : Rewrite(d, t))
        \/ (\E d \in Docs : DidChangeWatchedFiles(d))
        => UNCHANGED <<documents, parse_diags>>
  BY DEF AnalysisThread, AnalysisArm, SyncArm, LibraryArm, DoneArm, Pool,
         JobFinish, OnDiagnosticsRefresh, DidChangeConfiguration, JobPanic,
         Rewrite, DidChangeWatchedFiles, vars, mainVars
<1> QED
  BY <1>1, <1>2, <1>3, <1>4, <1>5 DEF Next, Client, MainLoop

(* Whatever is cancelled, superseded, delayed or lost to a panic, the      *)
(* client is only shown diagnostics of its current buffers: the version    *)
(* gate of on_outbound suffices, provided versions never restart.          *)
THEOREM ShowsCurrentText ==
    ASSUME ~ VersionsRestart
    PROVE  Spec => ImplementsService
<1>1. Init => Service!Init
  BY DEF Init, Service!Init
<1>2. TypeInv /\ AgreeInv /\ [Next]_vars => AgreeInv'
  BY AgreeStep
<1>3. TypeInv /\ AgreeInv /\ [Next]_vars => [Service!Next]_(Service!vars)
  BY ServiceStep
<1> QED
  BY <1>1, <1>2, <1>3, InitTyped, NextTyped, InitAgrees, PTL
     DEF Spec, ImplementsService, Service!Spec

-----------------------------------------------------------------------------
(* One analysis at a time.                                                 *)

FlightOf(job) == [uri |-> job.uri, version |-> job.version]

(* Version v of document u is over: the client has moved past it, and so   *)
(* has every request that could still be started.                          *)
Past(lv, pnd, q, u, v) ==
    /\ v < lv[u]
    /\ pnd[u] # None => v < pnd[u].version
    /\ \A i \in 1..Len(q) : q[i].uri = u => v < q[i].version

NoneLive(js) == \A j \in JobIds : ~ Live(js[j])
AllPast(pnd, js, q) ==
    \A j \in JobIds : js[j] # None =>
        Past(lastVersion, pnd, q, js[j].uri, js[j].version)
Distinct(js) ==
    \A j, k \in JobIds :
        j # k /\ js[j] # None /\ js[k] # None
            => FlightOf(js[j]) # FlightOf(js[k])

(* Only the analysis in the slot runs, no two jobs analyse one version,    *)
(* and a job that lost the slot is of a version that is over: so its late  *)
(* `done` never passes for that of the analysis in flight.                 *)
FlightsIn(lv, inf, pnd, js, q) ==
    /\ \A j \in JobIds : Live(js[j]) => inf = FlightOf(js[j])
    /\ Distinct(js)
    /\ \A j \in JobIds : js[j] # None =>
         \/ inf = FlightOf(js[j])
         \/ Past(lv, pnd, q, js[j].uri, js[j].version)
Flights(w, q) == FlightsIn(lastVersion, w.inflight, w.pending, w.jobs, q)
FlightInv == FlightsIn(lastVersion, inflight, pending, jobs, analysis_rx)

(* Jobs may end and requests be dropped.                                   *)
Shrinks(pnd, js, pnd0, js0) ==
    /\ \A d \in Docs : pnd[d] \in {pnd0[d], None}
    /\ \A j \in JobIds : js[j] # None =>
         /\ js0[j] # None
         /\ js[j].uri = js0[j].uri /\ js[j].uri \in Docs
         /\ js[j].version = js0[j].version
         /\ Live(js[j]) => Live(js0[j])

LEMMA ShrinksKeepsFlights ==
    ASSUME NEW lv, NEW inf, NEW pnd, NEW js, NEW pnd0, NEW js0, NEW q,
           Shrinks(pnd, js, pnd0, js0), FlightsIn(lv, inf, pnd0, js0, q)
    PROVE  FlightsIn(lv, inf, pnd, js, q)
<1>1. Distinct(js)
  BY DEF Shrinks, FlightsIn, Distinct, FlightOf
<1>2. \A j \in JobIds : Live(js[j]) => inf = FlightOf(js[j])
  BY DEF Shrinks, FlightsIn, FlightOf, Live
<1>3. ASSUME NEW j \in JobIds, js[j] # None,
             ~ (inf = FlightOf(js[j]))
      PROVE  Past(lv, pnd, q, js[j].uri, js[j].version)
  BY <1>3 DEF Shrinks, FlightsIn, FlightOf, Past
<1> QED
  BY <1>1, <1>2, <1>3 DEF FlightsIn

LEMMA CancelShrinks ==
    ASSUME NEW w, WorkerOK(w)
    PROVE  /\ Shrinks(w.pending, w.jobs, w.pending, w.jobs)
           /\ Shrinks(w.pending, Cancel(w).jobs, w.pending, w.jobs)
           /\ NoneLive(Cancel(w).jobs)
<1>1. w.jobs \in [JobIds -> JobSlots]
  BY DEF WorkerOK, WorkerRecord
<1>2. \A j \in JobIds : w.jobs[j] # None => w.jobs[j].uri \in Docs
  BY <1>1 DEF JobSlots, Job, AnalyzeDone
<1>3. \A job, stage : /\ Unwound(job, stage).uri = job.uri
                      /\ Unwound(job, stage).version = job.version
  BY DEF Unwound, DoneOf
<1>4. \A j \in JobIds : Live(w.jobs[j]) => w.jobs[j] # None
  BY DEF Live
<1> QED
  BY <1>2, <1>3, <1>4, CancelFrame, UnwoundNotLive DEF Shrinks, NoneLive

LEMMA StartFlights ==
    ASSUME NEW w, WorkerOK(w), FreeJob(w), NEW q, NEW d \in Docs,
           w.pending[d] # None, NoneLive(w.jobs), Distinct(w.jobs),
           AllPast(w.pending, w.jobs, q)
    PROVE  Flights(Start(w, d), q)
<1> DEFINE t == w.pending[d].text
           n == w.pending[d].version
           v == Upsert(w, d, t)
           x == Start(w, d)
<1>1. t \in Texts /\ n \in Nat
  BY BoundsAssumption DEF WorkerOK, WorkerRecord, Request, Versions
<1>2. Shrinks(w.pending, v.jobs, w.pending, w.jobs)
  BY <1>1, UpsertFrame, CancelShrinks
<1>3. \E j \in JobIds : w.jobs[j] = None
  BY DEF FreeJob
<1>4. /\ x.pending = [w.pending EXCEPT ![d] = None]
      /\ x.inflight = [uri |-> d, version |-> n]
      /\ StartsJob(w, d, x)
  BY <1>3, StartEffect
<1>5. PICK id \in JobIds :
        /\ w.jobs[id] = None
        /\ x.jobs[id] \in Job
        /\ x.jobs[id].uri = d
        /\ x.jobs[id].version = n
        /\ \A j \in JobIds \ {id} : x.jobs[j] = v.jobs[j]
  BY <1>4 DEF StartsJob
<1> HIDE DEF v, x, t, n
<1>6. \A j \in JobIds \ {id} : x.jobs[j] # None =>
        /\ w.jobs[j] # None /\ ~ Live(x.jobs[j])
        /\ FlightOf(x.jobs[j]) = FlightOf(w.jobs[j])
        /\ x.jobs[j].uri = w.jobs[j].uri /\ x.jobs[j].uri \in Docs
        /\ x.jobs[j].version = w.jobs[j].version
        /\ Past(lastVersion, w.pending, q, x.jobs[j].uri, x.jobs[j].version)
  BY <1>2, <1>5 DEF Shrinks, AllPast, FlightOf, NoneLive
<1>7. \A j \in JobIds \ {id} : x.jobs[j] # None =>
        Past(lastVersion, x.pending, q, x.jobs[j].uri, x.jobs[j].version)
  <2>1. w.pending \in [Docs -> Request \cup {None}]
    BY DEF WorkerOK, WorkerRecord
  <2> QED
    BY <1>4, <1>6, <2>1 DEF Past
<1>8. FlightOf(x.jobs[id]) = x.inflight
  BY <1>4, <1>5 DEF FlightOf
<1>9. \A j \in JobIds \ {id} : x.jobs[j] # None =>
        FlightOf(x.jobs[j]) # x.inflight
  <2> SUFFICES ASSUME NEW j \in JobIds \ {id}, x.jobs[j] # None,
                      FlightOf(x.jobs[j]) = x.inflight
               PROVE  FALSE
    OBVIOUS
  <2>1. x.jobs[j].uri = d /\ x.jobs[j].version = n
    BY <1>4 DEF FlightOf
  <2>2. n < w.pending[d].version
    BY <1>6, <2>1 DEF Past
  <2> QED
    BY <1>1, <2>2 DEF n
<1>10. Distinct(x.jobs)
  BY <1>6, <1>8, <1>9 DEF Distinct
<1>11. ASSUME NEW j \in JobIds, Live(x.jobs[j])
       PROVE  x.inflight = FlightOf(x.jobs[j])
  BY <1>6, <1>8, <1>11 DEF Live
<1>12. ASSUME NEW j \in JobIds, x.jobs[j] # None
       PROVE  \/ x.inflight = FlightOf(x.jobs[j])
              \/ Past(lastVersion, x.pending, q, x.jobs[j].uri,
                      x.jobs[j].version)
  BY <1>7, <1>8, <1>12
<1>13. FlightsIn(lastVersion, x.inflight, x.pending, x.jobs, q)
  BY <1>10, <1>11, <1>12 DEF FlightsIn
<1> QED
  BY <1>13 DEF Flights, x

LEMMA FreeSlotFlights ==
    ASSUME NEW w, WorkerOK(w), NEW q, Flights(w, q), w.inflight = None
    PROVE  /\ NoneLive(w.jobs)
           /\ Distinct(w.jobs)
           /\ AllPast(w.pending, w.jobs, q)
<1>1. ASSUME NEW j \in JobIds, w.jobs[j] # None
      PROVE  FlightOf(w.jobs[j]) # None
  <2>1. w.jobs[j] \in Job \cup AnalyzeDone
    BY <1>1 DEF WorkerOK, WorkerRecord, JobSlots
  <2>2. FlightOf(w.jobs[j]) \in Flight
    BY <2>1 DEF FlightOf, Flight, Job, AnalyzeDone
  <2> QED
    BY <2>2, NoneAssumption
<1> QED
  BY <1>1 DEF Flights, FlightsIn, NoneLive, AllPast, Live

(* A newer request of its own document ends the analysis in flight.        *)
LEMMA SupersededFlights ==
    ASSUME NEW w, WorkerOK(w), Flights(w, <<>>), QueueAgrees(w.pending),
           lastVersion \in [Docs -> Nat], w.inflight # None,
           NEW d \in Docs, d = w.inflight.uri, w.pending[d] # None,
           w.pending[d].version > w.inflight.version
    PROVE  /\ NoneLive(Superseded(w).jobs)
           /\ Distinct(Superseded(w).jobs)
           /\ AllPast(w.pending, Superseded(w).jobs, <<>>)
<1>1. /\ Superseded(w).jobs = Cancel(w).jobs
      /\ NoneLive(Cancel(w).jobs)
      /\ Shrinks(w.pending, Cancel(w).jobs, w.pending, w.jobs)
  BY SupersededOK, CancelShrinks
<1>2. FlightsIn(lastVersion, w.inflight, w.pending, Cancel(w).jobs, <<>>)
  BY <1>1, ShrinksKeepsFlights DEF Flights
<1>3. /\ w.pending[d].version <= lastVersion[d]
      /\ w.pending[d].version \in Nat /\ w.inflight.version \in Nat
      /\ lastVersion[d] \in Nat
  BY BoundsAssumption
     DEF QueueAgrees, Agrees, AgreesIn, WorkerOK, WorkerRecord, Request,
         Flight, Versions
<1>4. Past(lastVersion, w.pending, <<>>, d, w.inflight.version)
  BY <1>3 DEF Past
<1> DEFINE js == Cancel(w).jobs
<1> HIDE DEF js
<1>5. ASSUME NEW j \in JobIds, js[j] # None
      PROVE  Past(lastVersion, w.pending, <<>>, js[j].uri, js[j].version)
  <2>1. CASE w.inflight = FlightOf(js[j])
    BY <1>4, <2>1 DEF FlightOf
  <2>2. CASE w.inflight # FlightOf(js[j])
    BY <1>2, <1>5, <2>2 DEF FlightsIn, js
  <2> QED
    BY <2>1, <2>2
<1> QED
  BY <1>1, <1>2, <1>5 DEF FlightsIn, AllPast, js

(* Dispatching keeps the slot's claim, when the requests in the channel    *)
(* have been drained or the slot's analysis is not superseded.             *)
LEMMA TryDispatchFlights ==
    ASSUME NEW w, WorkerOK(w), FreeJob(w), NEW q, Flights(w, q),
           QueueAgrees(w.pending), lastVersion \in [Docs -> Nat],
           q = <<>> \/ Dispatched(w) \/ w.inflight = None,
           NEW x \in TryDispatch(w)
    PROVE  Flights(x, q)
<1>1. CASE x = w
  BY <1>1
<1>2. ASSUME NEW d \in Docs, w.inflight = None, w.pending[d] # None,
             x = Start(w, d)
      PROVE  Flights(x, q)
  BY <1>2, FreeSlotFlights, StartFlights
<1>3. ASSUME NEW d \in Docs, w.inflight # None, d = w.inflight.uri,
             w.pending[d] # None,
             w.pending[d].version > w.inflight.version,
             x = Start(Superseded(w), d)
      PROVE  Flights(x, q)
  <2>1. q = <<>>
    <3>1. w.pending[d].version \in Nat /\ w.inflight.version \in Nat
      BY <1>3, BoundsAssumption
         DEF WorkerOK, WorkerRecord, Request, Flight, Versions
    <3> QED
      BY <1>3, <3>1 DEF Dispatched
  <2>2. /\ WorkerOK(Superseded(w)) /\ FreeJob(Superseded(w))
        /\ Superseded(w).pending = w.pending
    BY SupersededOK DEF FreeJob
  <2>3. /\ NoneLive(Superseded(w).jobs)
        /\ Distinct(Superseded(w).jobs)
        /\ AllPast(w.pending, Superseded(w).jobs, q)
    BY <1>3, <2>1, SupersededFlights
  <2> QED
    BY <1>3, <2>2, <2>3, StartFlights
<1> QED
  BY <1>1, <1>2, <1>3, TryDispatchCases

LEMMA DrainFlights ==
    ASSUME NEW w, WorkerOK(w), NEW q \in Seq(Request), Flights(w, q)
    PROVE  Flights(Drain(w, q), <<>>)
<1>1. CASE q = <<>>
  BY <1>1 DEF Drain
<1>2. CASE q # <<>>
  <2> DEFINE x == Drain(w, q)
  <2>1. /\ x.jobs = w.jobs /\ x.inflight = w.inflight
        /\ x.pending = [d \in Docs |-> Coalesce(w.pending[d], q, d)]
    BY <1>2, DrainFrame DEF Drain, WorkerOK, WorkerRecord
  <2> HIDE DEF x
  <2>2. ASSUME NEW u \in Docs, NEW v,
               Past(lastVersion, w.pending, q, u, v)
        PROVE  Past(lastVersion, x.pending, <<>>, u, v)
    <3>1. ASSUME x.pending[u] # None
          PROVE  v < x.pending[u].version
      <4>1. Coalesce(w.pending[u], q, u) # None
        BY <2>1, <3>1
      <4>2. PICK r \in {w.pending[u]} \cup {q[i] : i \in DOMAIN q} :
              /\ r \in Request /\ r.uri = u
              /\ Coalesce(w.pending[u], q, u).version = r.version
        BY <4>1, CoalesceOrigin DEF WorkerOK, WorkerRecord
      <4>3. v < r.version
        <5>1. CASE r = w.pending[u]
          BY <2>2, <4>2, <5>1, NoneAssumption DEF Past
        <5>2. CASE r \in {q[i] : i \in DOMAIN q}
          BY <2>2, <4>2, <5>2 DEF Past
        <5> QED
          BY <5>1, <5>2
      <4> QED
        BY <2>1, <4>2, <4>3
    <3> QED
      BY <2>2, <3>1 DEF Past
  <2>3. \A j \in JobIds : x.jobs[j] # None => x.jobs[j].uri \in Docs
    BY <2>1 DEF WorkerOK, WorkerRecord, JobSlots, Job, AnalyzeDone
  <2>4. FlightsIn(lastVersion, x.inflight, x.pending, x.jobs, <<>>)
    BY <2>1, <2>2, <2>3 DEF Flights, FlightsIn
  <2> QED
    BY <2>4 DEF Flights, x
<1> QED
  BY <1>1, <1>2

LEMMA OnSyncFlights ==
    ASSUME NEW w, WorkerOK(w), NEW d \in Docs, disk \in [Docs -> Texts],
           NEW q, Flights(w, q)
    PROVE  Flights(OnSync(w, d), q)
<1> DEFINE v == DropQueued(w, d)
           x == OnSync(w, d)
<1>1. /\ v.jobs = w.jobs
      /\ v.pending \in {w.pending, [w.pending EXCEPT ![d] = None]}
  BY DEF DropQueued, WorkerOK, WorkerRecord
<1>2. /\ Shrinks(v.pending, v.jobs, v.pending, v.jobs)
      /\ Shrinks(v.pending, Cancel(v).jobs, v.pending, v.jobs)
  BY DropQueuedOK, CancelShrinks
<1>3. /\ x.jobs \in {v.jobs, Cancel(v).jobs}
      /\ x.pending = v.pending /\ x.inflight = w.inflight
  BY <1>1, OnSyncFrame
<1> HIDE DEF v, x
<1>4. Shrinks(x.pending, x.jobs, w.pending, w.jobs)
  <2>1. w.pending \in [Docs -> Request \cup {None}]
    BY DEF WorkerOK, WorkerRecord
  <2> QED
    BY <1>1, <1>2, <1>3, <2>1 DEF Shrinks
<1>5. FlightsIn(lastVersion, w.inflight, x.pending, x.jobs, q)
  BY <1>4, ShrinksKeepsFlights DEF Flights
<1> QED
  BY <1>3, <1>5 DEF Flights, x

(* The `done` of the analysis in flight frees the slot, and no other's.    *)
LEMMA OnDoneFlights ==
    ASSUME TypeInv, FlightInv, NEW j \in JobIds, jobs[j] \in AnalyzeDone,
           NEW stage \in Stages, WorkerOK(Received(stage, j))
    PROVE  Flights(OnDone(Received(stage, j), jobs[j]), analysis_rx)
<1> DEFINE w == Received(stage, j)
           x == OnDone(w, jobs[j])
<1>1. /\ w.jobs = [jobs EXCEPT ![j] = None]
      /\ w.pending = pending /\ w.inflight = inflight
      /\ jobs \in [JobIds -> Job \cup AnalyzeDone \cup {None}]
  BY DEF Received, Worker, TypeInv, TypeOK
<1>2. /\ x.jobs = w.jobs /\ x.pending = w.pending
      /\ x.inflight = IF w.inflight = FlightOf(jobs[j]) THEN None
                                                        ELSE w.inflight
  BY OnDoneFrame DEF FlightOf
<1> HIDE DEF w, x
<1>3. jobs[j] # None
  BY NoneAssumption
<1>4. Distinct(x.jobs)
  BY <1>1, <1>2 DEF FlightInv, FlightsIn, Distinct
<1>5. ASSUME NEW k \in JobIds, x.jobs[k] # None
      PROVE  /\ Live(x.jobs[k]) => x.inflight = FlightOf(x.jobs[k])
             /\ \/ x.inflight = FlightOf(x.jobs[k])
                \/ Past(lastVersion, x.pending, analysis_rx, x.jobs[k].uri,
                        x.jobs[k].version)
  <2>1. k # j /\ x.jobs[k] = jobs[k]
    BY <1>1, <1>2, <1>5
  <2>2. FlightOf(jobs[k]) # FlightOf(jobs[j])
    BY <1>3, <1>5, <2>1 DEF FlightInv, FlightsIn, Distinct
  <2>3. /\ Live(jobs[k]) => inflight = FlightOf(jobs[k])
        /\ \/ inflight = FlightOf(jobs[k])
           \/ Past(lastVersion, pending, analysis_rx, jobs[k].uri,
                   jobs[k].version)
    BY <1>5, <2>1 DEF FlightInv, FlightsIn
  <2>4. inflight = FlightOf(jobs[k]) => x.inflight = inflight
    BY <1>1, <1>2, <2>2
  <2> QED
    BY <1>1, <1>2, <2>1, <2>3, <2>4
<1>6. FlightsIn(lastVersion, x.inflight, x.pending, x.jobs, analysis_rx)
  BY <1>4, <1>5 DEF FlightsIn, Live
<1> QED
  BY <1>6 DEF Flights, x, w

LEMMA CommitFlights ==
    ASSUME NEW x, Flights(x, analysis_rx'), Commit(x),
           lastVersion' = lastVersion
    PROVE  FlightInv'
BY DEF Flights, FlightInv, Commit, FlightsIn, Distinct, Past

LEMMA DispatchesFlights ==
    ASSUME NEW w, Dispatches(w), Flights(w, analysis_rx'),
           QueueAgrees(w.pending), lastVersion \in [Docs -> Nat],
           analysis_rx' = <<>> \/ Dispatched(w) \/ w.inflight = None,
           lastVersion' = lastVersion
    PROVE  FlightInv'
<1>1. PICK x \in TryDispatch(w) : Commit(x)
  BY DEF Dispatches
<1> DEFINE q == analysis_rx'
<1>2. Flights(w, q) /\ (q = <<>> \/ Dispatched(w) \/ w.inflight = None)
  OBVIOUS
<1> HIDE DEF q
<1>3. Flights(x, q)
  BY <1>1, <1>2, TryDispatchFlights DEF Dispatches
<1> QED
  BY <1>1, <1>3, CommitFlights DEF q

LEMMA WorkerFlights ==
    ASSUME FlightInv, NEW stage
    PROVE  Flights(Worker(stage), analysis_rx)
BY DEF FlightInv, Flights, Worker

(* The client moves on: new requests are at least as recent.               *)
LEMMA ClientKeepsFlights ==
    ASSUME TypeInv, FlightInv, UNCHANGED <<pending, inflight, jobs>>,
           \A d \in Docs : lastVersion'[d] \in Nat
                           /\ lastVersion[d] <= lastVersion'[d],
           \A i \in 1..Len(analysis_rx') :
             \/ i \in 1..Len(analysis_rx) /\ analysis_rx'[i] = analysis_rx[i]
             \/ /\ analysis_rx'[i].uri \in Docs
                /\ analysis_rx'[i].version = lastVersion'[analysis_rx'[i].uri]
    PROVE  FlightInv'
<1> DEFINE q == analysis_rx'
           lv == lastVersion'
<1> HIDE DEF q, lv
<1>1. ASSUME NEW j \in JobIds, jobs[j] # None,
             Past(lastVersion, pending, analysis_rx, jobs[j].uri,
                  jobs[j].version)
      PROVE  Past(lv, pending, q, jobs[j].uri, jobs[j].version)
  <2> DEFINE u == jobs[j].uri
             v == jobs[j].version
  <2>1. jobs[j] \in Job \cup AnalyzeDone
    BY <1>1 DEF TypeInv, TypeOK
  <2>2. u \in Docs /\ v \in Nat
    BY <2>1, BoundsAssumption DEF Job, AnalyzeDone, Versions
  <2>3. /\ lastVersion[u] \in Nat /\ lv[u] \in Nat
        /\ lastVersion[u] <= lv[u]
    BY <2>2, BoundsAssumption DEF TypeInv, TypeOK, lv
  <2> HIDE DEF u, v
  <2>4. Past(lastVersion, pending, analysis_rx, u, v)
    BY <1>1 DEF u, v
  <2>5. v < lv[u]
    BY <2>2, <2>3, <2>4 DEF Past
  <2>6. ASSUME NEW i \in 1..Len(q), q[i].uri = u
        PROVE  v < q[i].version
    BY <2>4, <2>5, <2>6 DEF Past, q, lv
  <2>7. Past(lv, pending, q, u, v)
    BY <2>4, <2>5, <2>6 DEF Past
  <2> QED
    BY <2>7 DEF u, v
<1>2. FlightsIn(lv, inflight, pending, jobs, q)
  BY <1>1 DEF FlightInv, FlightsIn
<1> QED
  BY <1>2 DEF FlightInv, FlightsIn, Distinct, Past, q, lv

LEMMA SendAllVersions ==
    ASSUME TypeInv, AgreeInv, NEW r \in 0..MaxRules, SendAll(OpenDocs, r)
    PROVE  \A i \in 1..Len(analysis_rx') :
             \/ i \in 1..Len(analysis_rx) /\ analysis_rx'[i] = analysis_rx[i]
             \/ /\ analysis_rx'[i].uri \in Docs
                /\ analysis_rx'[i].version = lastVersion[analysis_rx'[i].uri]
<1>1. PICK order \in Bijection(1..Cardinality(OpenDocs), OpenDocs) :
        analysis_rx' = analysis_rx \o
            [i \in DOMAIN order |->
                RequestFor(order[i], documents[order[i]], r)]
  BY DEF SendAll
<1> DEFINE n == Cardinality(OpenDocs)
           sent == [i \in 1..n |->
                      RequestFor(order[i], documents[order[i]], r)]
<1>2. n \in Nat
  BY FiniteAssumption, FS_Subset, FS_CardinalityType DEF OpenDocs
<1>3. order \in [1..n -> OpenDocs]
  BY <1>1 DEF Bijection, Injection
<1>4. \A d \in OpenDocs : d \in Docs /\ documents[d] \in Document
                          /\ documents[d].version = lastVersion[d]
  BY DEF OpenDocs, TypeInv, TypeOK, AgreeInv, VersionsCurrent
<1>5. sent \in [1..n -> Request]
  BY <1>3, <1>4, RequestForType
<1>6. \A i \in 1..n : sent[i].uri \in Docs
                      /\ sent[i].version = lastVersion[sent[i].uri]
  BY <1>3, <1>4 DEF RequestFor
<1>7. analysis_rx' = analysis_rx \o sent
  BY <1>1, <1>3
<1> HIDE DEF sent, n
<1>8. sent \in Seq(Request) /\ Len(sent) = n
  BY <1>2, <1>5, SeqDef
<1>9. analysis_rx \in Seq(Request)
  BY DEF TypeInv, TypeOK
<1> QED
  BY <1>2, <1>6, <1>7, <1>8, <1>9

LEMMA EditVersions ==
    ASSUME TypeInv, NEW d \in Docs, NEW t \in Texts,
           SetDocument(d, [version |-> lastVersion[d] + 1, text |-> t])
    PROVE  /\ \A e \in Docs : /\ lastVersion'[e] \in Nat
                              /\ lastVersion[e] <= lastVersion'[e]
           /\ \A i \in 1..Len(analysis_rx') :
                \/ /\ i \in 1..Len(analysis_rx)
                   /\ analysis_rx'[i] = analysis_rx[i]
                \/ /\ analysis_rx'[i].uri \in Docs
                   /\ analysis_rx'[i].version =
                        lastVersion'[analysis_rx'[i].uri]
<1> DEFINE n == lastVersion[d] + 1
           req == RequestFor(d, [version |-> n, text |-> t], rules)
<1>1. /\ lastVersion \in [Docs -> Nat]
      /\ analysis_rx \in Seq(Request)
  BY BoundsAssumption DEF TypeInv, TypeOK
<1>2. /\ lastVersion' = [lastVersion EXCEPT ![d] = n]
      /\ analysis_rx' = Append(analysis_rx, req)
  BY DEF SetDocument
<1>3. \A e \in Docs : /\ lastVersion'[e] \in Nat
                      /\ lastVersion[e] <= lastVersion'[e]
  BY <1>1, <1>2
<1>4. req.uri \in Docs /\ req.version = lastVersion'[req.uri]
  BY <1>1, <1>2 DEF RequestFor
<1> HIDE DEF req
<1>5. \A i \in 1..Len(analysis_rx') :
        \/ i \in 1..Len(analysis_rx) /\ analysis_rx'[i] = analysis_rx[i]
        \/ analysis_rx'[i] = req
  BY <1>1, <1>2
<1> QED
  BY <1>3, <1>4, <1>5

LEMMA FlightStep ==
    ASSUME ~ VersionsRestart, TypeInv, AgreeInv, NoLostWakeup, FlightInv,
           [Next]_vars
    PROVE  FlightInv'
<1>1. /\ lastVersion \in [Docs -> Nat] /\ analysis_rx \in Seq(Request)
      /\ QueueAgrees(pending)
  BY BoundsAssumption DEF TypeInv, TypeOK, AgreeInv
<1>2. ASSUME NEW d \in Docs, NEW t \in Texts,
             DidOpen(d, t) \/ DidChange(d, t)
      PROVE  FlightInv'
  <2>1. SetDocument(d, [version |-> lastVersion[d] + 1, text |-> t])
    BY <1>2 DEF DidOpen, DidChange, FirstVersion, AgreeInv, VersionsCurrent
  <2>2. UNCHANGED <<pending, inflight, jobs>>
    BY <2>1 DEF SetDocument, workerVars
  <2> QED
    BY <2>1, <2>2, EditVersions, ClientKeepsFlights
<1>3. CASE DidChangeConfiguration \/ OnDiagnosticsRefresh
  <2>1. UNCHANGED <<lastVersion, pending, inflight, jobs>>
    BY <1>3 DEF DidChangeConfiguration, OnDiagnosticsRefresh, clientVars,
                workerVars
  <2>2. PICK r \in {rules, rules + 1} : r <= MaxRules /\ SendAll(OpenDocs, r)
    <3>1. rules \in Nat /\ rules <= MaxRules /\ MaxRules \in Nat
      BY BoundsAssumption DEF TypeInv, TypeOK
    <3>2. CASE DidChangeConfiguration
      BY <3>1, <3>2 DEF DidChangeConfiguration
    <3>3. CASE OnDiagnosticsRefresh
      BY <3>1, <3>3 DEF OnDiagnosticsRefresh
    <3> QED
      BY <1>3, <3>2, <3>3
  <2>5. r \in 0..MaxRules
    BY <2>2, BoundsAssumption DEF TypeInv, TypeOK
  <2>3. \A i \in 1..Len(analysis_rx') :
          \/ i \in 1..Len(analysis_rx) /\ analysis_rx'[i] = analysis_rx[i]
          \/ /\ analysis_rx'[i].uri \in Docs
             /\ analysis_rx'[i].version = lastVersion'[analysis_rx'[i].uri]
    BY <2>1, <2>2, <2>5, SendAllVersions
  <2>4. \A d \in Docs : lastVersion'[d] \in Nat
                        /\ lastVersion[d] <= lastVersion'[d]
    BY <1>1, <2>1
  <2> QED
    BY <2>1, <2>3, <2>4, ClientKeepsFlights
<1>4. CASE AnalysisArm
  <2>1. PICK stage \in Stages :
          /\ WorkerOK(Worker(stage))
          /\ Dispatches(Drain(Worker(stage), analysis_rx))
    BY <1>4, AnalysisArmStep
  <2> DEFINE w == Drain(Worker(stage), analysis_rx)
  <2>2. Flights(w, <<>>)
    BY <1>1, <2>1, WorkerFlights, DrainFlights
  <2>3. QueueAgrees(w.pending)
    BY <1>1, <2>1, WorkerAgrees, DrainAgrees DEF AgreeInv, Agreeing
  <2>4. analysis_rx' = <<>> /\ lastVersion' = lastVersion
    BY <1>4 DEF AnalysisArm, clientVars
  <2> HIDE DEF w
  <2> QED
    BY <1>1, <2>1, <2>2, <2>3, <2>4, DispatchesFlights DEF w
<1>5. CASE SyncArm
  <2>1. PICK stage \in Stages, d \in Docs :
          /\ WorkerOK(Worker(stage))
          /\ disk \in [Docs -> Texts]
          /\ WorkerOK(Drain(Worker(stage), analysis_rx))
          /\ Dispatches(OnSync(Drain(Worker(stage), analysis_rx), d))
    BY <1>5, SyncArmStep
  <2> DEFINE v == Drain(Worker(stage), analysis_rx)
             w == OnSync(v, d)
  <2>2. Flights(v, <<>>) /\ Agreeing(v)
    BY <1>1, <2>1, WorkerFlights, DrainFlights, WorkerAgrees, DrainAgrees
       DEF AgreeInv
  <2>3. WorkerOK(v)
    BY <2>1
  <2> HIDE DEF v
  <2>4. Flights(w, <<>>) /\ QueueAgrees(w.pending)
    BY <2>1, <2>2, <2>3, OnSyncFlights, OnSyncAgrees DEF Agreeing
  <2>5. analysis_rx' = <<>> /\ lastVersion' = lastVersion
    BY <1>5 DEF SyncArm, clientVars
  <2>6. Dispatches(w)
    BY <2>1 DEF v
  <2> HIDE DEF w
  <2> QED
    BY <1>1, <2>4, <2>5, <2>6, DispatchesFlights
<1>6. CASE LibraryArm
  <2>1. PICK stage \in Stages :
          LET w == SendRefresh([Cancel(Worker(stage))
                                  EXCEPT !.library = @ + 1])
          IN WorkerOK(Worker(stage)) /\ WorkerOK(w) /\ Commit(w)
    BY <1>6, LibraryArmStep
  <2> DEFINE u == Worker(stage)
             v == Cancel(u)
             w == SendRefresh([v EXCEPT !.library = @ + 1])
  <2>2. WorkerOK(v) /\ v.pending = u.pending /\ v.inflight = u.inflight
    BY <2>1, CancelOK, CancelFrame DEF SameButJobs
  <2>3. Shrinks(v.pending, v.jobs, u.pending, u.jobs)
    BY <2>1, <2>2, CancelShrinks
  <2>4. Flights(u, analysis_rx)
    BY WorkerFlights
  <2>5. Commit(w)
    BY <2>1
  <2> HIDE DEF u, v
  <2>6. Flights(v, analysis_rx)
    BY <2>2, <2>3, <2>4, ShrinksKeepsFlights DEF Flights
  <2>7. w.jobs = v.jobs /\ w.inflight = v.inflight /\ w.pending = v.pending
    BY <2>2 DEF SendRefresh, WorkerOK, WorkerRecord
  <2>8. analysis_rx' = analysis_rx /\ lastVersion' = lastVersion
    BY <1>6 DEF LibraryArm, clientVars
  <2> HIDE DEF w
  <2>9. Flights(w, analysis_rx')
    BY <2>6, <2>7, <2>8 DEF Flights
  <2> QED
    BY <2>5, <2>8, <2>9, CommitFlights
<1>7. ASSUME NEW j \in JobIds, DoneArm(j)
      PROVE  FlightInv'
  <2>1. PICK stage \in Stages :
          /\ jobs[j] \in AnalyzeDone
          /\ WorkerOK(Worker(stage))
          /\ WorkerOK(Received(stage, j))
          /\ Dispatches(OnDone(Received(stage, j), jobs[j]))
    BY <1>7, DoneArmStep
  <2> DEFINE w == OnDone(Received(stage, j), jobs[j])
  <2>2. Flights(w, analysis_rx)
    BY <2>1, OnDoneFlights
  <2>3. /\ w.pending = pending
        /\ w.inflight = None \/ w.inflight = inflight
    <3> DEFINE v == Received(stage, j)
    <3>1. v.pending = pending /\ v.inflight = inflight
      BY DEF Received, Worker
    <3>2. WorkerOK(v)
      BY <2>1
    <3> HIDE DEF v
    <3>3. /\ OnDone(v, jobs[j]).pending = v.pending
          /\ OnDone(v, jobs[j]).inflight \in {None, v.inflight}
      BY <3>2, OnDoneFrame
    <3> QED
      BY <3>1, <3>3 DEF v
  <2>4. Dispatches(w)
    BY <2>1
  <2> HIDE DEF w
  <2>5. Dispatched(w) \/ w.inflight = None
    BY <2>3 DEF Dispatched, NoLostWakeup
  <2>6. analysis_rx' = analysis_rx /\ lastVersion' = lastVersion
    BY <1>7 DEF DoneArm, clientVars
  <2> QED
    BY <1>1, <2>2, <2>3, <2>4, <2>5, <2>6, DispatchesFlights
<1>8. ASSUME NEW j \in JobIds, JobFinish(j) \/ JobPanic(j)
      PROVE  FlightInv'
  <2>1. /\ UNCHANGED <<lastVersion, analysis_rx, pending, inflight>>
        /\ jobs' = [jobs EXCEPT ![j] = DoneOf(jobs[j], jobs[j].projection)]
             \/ jobs' = [jobs EXCEPT ![j] = None]
        /\ jobs[j] # None
    BY <1>8 DEF JobFinish, JobPanic, clientVars, workerVars, Live
  <2>2. \A k \in JobIds : jobs[k] # None => jobs[k].uri \in Docs
    BY DEF TypeInv, TypeOK, Job, AnalyzeDone
  <2>3. /\ DoneOf(jobs[j], jobs[j].projection).uri = jobs[j].uri
        /\ DoneOf(jobs[j], jobs[j].projection).version = jobs[j].version
        /\ ~ Live(DoneOf(jobs[j], jobs[j].projection))
    BY DEF DoneOf, Live
  <2>4. jobs \in [JobIds -> Job \cup AnalyzeDone \cup {None}]
    BY DEF TypeInv, TypeOK
  <2> DEFINE js == jobs'
  <2>5. Shrinks(pending, js, pending, jobs)
    BY <2>1, <2>2, <2>3, <2>4 DEF Shrinks, Live
  <2> HIDE DEF js
  <2>6. FlightsIn(lastVersion, inflight, pending, js, analysis_rx)
    BY <2>5, ShrinksKeepsFlights DEF FlightInv
  <2> QED
    BY <2>1, <2>6 DEF FlightInv, FlightsIn, Distinct, Past, js
<1>9. CASE UNCHANGED <<lastVersion, analysis_rx, pending, inflight, jobs>>
  BY <1>9 DEF FlightInv, FlightsIn, Distinct, Past
<1>10. OnDiagnostics \/ UNCHANGED vars
         \/ (\E d \in Docs, t \in Texts : Rewrite(d, t))
         \/ (\E d \in Docs : DidClose(d) \/ DidChangeWatchedFiles(d))
         => UNCHANGED <<lastVersion, analysis_rx, pending, inflight, jobs>>
  BY DEF OnDiagnostics, Rewrite, DidClose, DidChangeWatchedFiles, vars,
         clientVars, workerVars
<1> QED
  BY <1>2, <1>3, <1>4, <1>5, <1>6, <1>7, <1>8, <1>9, <1>10
     DEF Next, Client, MainLoop, AnalysisThread, Pool

LEMMA FlightsExcludeTwo == FlightInv => SingleFlight
BY DEF FlightInv, FlightsIn, Distinct, SingleFlight, FlightOf, Live

(* At most one analysis runs at a time, and it is the one in the slot, as  *)
(* long as versions never restart: a `done` that arrives late is then of a *)
(* version that is over, and cannot free the slot of its successor.        *)
THEOREM OneAnalysisAtATime ==
    ASSUME ~ VersionsRestart
    PROVE  Spec => []SingleFlight
<1>1. Init => AgreeInv /\ NoLostWakeup /\ FlightInv
  BY InitAgrees
     DEF Init, NoLostWakeup, FlightInv, FlightsIn, Distinct, Live
<1>2. TypeInv /\ AgreeInv /\ [Next]_vars => AgreeInv'
  BY AgreeStep
<1>3. TypeInv /\ AgreeInv /\ NoLostWakeup /\ FlightInv /\ [Next]_vars
        => FlightInv'
  BY FlightStep
<1> QED
  BY <1>1, <1>2, <1>3, InitTyped, NextTyped, WakeupStep, FlightsExcludeTwo,
     PTL DEF Spec

-----------------------------------------------------------------------------
(* The slot.                                                               *)

RunsIn(inf, js) ==
    inf # None =>
        \E j \in JobIds : /\ js[j] # None
                          /\ js[j].uri = inf.uri
                          /\ js[j].version = inf.version

LEMMA CancelKeepsJobs ==
    ASSUME NEW w, WorkerOK(w), NEW j \in JobIds
    PROVE  /\ Cancel(w).jobs[j] = None <=> w.jobs[j] = None
           /\ Cancel(w).jobs[j].uri = w.jobs[j].uri
           /\ Cancel(w).jobs[j].version = w.jobs[j].version
<1>1. w.jobs[j] \in JobSlots
  BY DEF WorkerOK, WorkerRecord
<1>2. CASE Live(w.jobs[j])
  <2>1. Cancel(w).jobs[j] = Unwound(w.jobs[j], w.stage)
    BY <1>2, CancelFrame
  <2>2. Unwound(w.jobs[j], w.stage) \in AnalyzeDone
    BY <1>1, <1>2, LiveIsJob, UnwoundType
  <2>3. Cancel(w).jobs[j] # None /\ w.jobs[j] # None
    BY <1>2, <2>1, <2>2, NoneAssumption DEF Live
  <2>4. /\ Cancel(w).jobs[j].uri = w.jobs[j].uri
        /\ Cancel(w).jobs[j].version = w.jobs[j].version
    BY <2>1 DEF Unwound, DoneOf
  <2> QED
    BY <2>3, <2>4
<1>3. CASE ~ Live(w.jobs[j])
  BY <1>3, CancelFrame
<1> QED
  BY <1>2, <1>3

LEMMA CancelRuns ==
    ASSUME NEW w, WorkerOK(w), NEW inf, RunsIn(inf, w.jobs)
    PROVE  RunsIn(inf, Cancel(w).jobs)
BY CancelKeepsJobs DEF RunsIn

LEMMA StartRuns ==
    ASSUME NEW w, WorkerOK(w), FreeJob(w), NEW d \in Docs,
           w.pending[d] # None
    PROVE  RunsIn(Start(w, d).inflight, Start(w, d).jobs)
<1> DEFINE x == Start(w, d)
<1>1. \E j \in JobIds : w.jobs[j] = None
  BY DEF FreeJob
<1>2. /\ x.pending = [w.pending EXCEPT ![d] = None]
      /\ x.inflight = [uri |-> d, version |-> w.pending[d].version]
      /\ StartsJob(w, d, x)
  BY <1>1, StartEffect
<1> HIDE DEF x
<1>3. PICK id \in JobIds : /\ x.jobs[id] \in Job
                           /\ x.jobs[id].uri = d
                           /\ x.jobs[id].version = w.pending[d].version
  BY <1>2 DEF StartsJob, x
<1>4. x.jobs[id] # None
  BY <1>3, NoneAssumption
<1>5. RunsIn(x.inflight, x.jobs)
  BY <1>2, <1>3, <1>4 DEF RunsIn, x
<1> QED
  BY <1>5 DEF x

LEMMA TryDispatchRuns ==
    ASSUME NEW w, WorkerOK(w), FreeJob(w), RunsIn(w.inflight, w.jobs),
           NEW x \in TryDispatch(w)
    PROVE  RunsIn(x.inflight, x.jobs)
<1>1. CASE x = w
  BY <1>1
<1>2. ASSUME NEW d \in Docs, w.pending[d] # None, x = Start(w, d)
      PROVE  RunsIn(x.inflight, x.jobs)
  BY <1>2, StartRuns
<1>3. ASSUME NEW d \in Docs, w.pending[d] # None, x = Start(Superseded(w), d)
      PROVE  RunsIn(x.inflight, x.jobs)
  <2>1. /\ WorkerOK(Superseded(w)) /\ FreeJob(Superseded(w))
        /\ Superseded(w).pending[d] # None
    BY <1>3, SupersededOK DEF FreeJob
  <2> QED
    BY <1>3, <2>1, StartRuns
<1> QED
  BY <1>1, <1>2, <1>3, TryDispatchCases

LEMMA DispatchesRuns ==
    ASSUME NEW w, Dispatches(w), RunsIn(w.inflight, w.jobs)
    PROVE  RunsIn(inflight', jobs')
<1>1. PICK x \in TryDispatch(w) : Commit(x)
  BY DEF Dispatches
<1>2. RunsIn(x.inflight, x.jobs)
  BY TryDispatchRuns DEF Dispatches
<1> QED
  BY <1>1, <1>2 DEF Commit

LEMMA SlotStep ==
    ASSUME TypeInv, SlotNeverLeaks, [Next]_vars
    PROVE  SlotNeverLeaks'
<1> SUFFICES ASSUME panics' = 0
             PROVE  RunsIn(inflight', jobs')
  BY DEF SlotNeverLeaks, InflightIsRunning, RunsIn
<1>1. ASSUME NEW j \in JobIds, JobPanic(j)
      PROVE  FALSE
  BY <1>1, BoundsAssumption DEF JobPanic, TypeInv, TypeOK
<1>2. panics = 0
  BY <1>1
     DEF Next, Client, DidOpen, DidChange, SetDocument, DidClose, Rewrite,
         DidChangeWatchedFiles, DidChangeConfiguration, MainLoop,
         OnDiagnostics, OnDiagnosticsRefresh, AnalysisThread, AnalysisArm,
         SyncArm, LibraryArm, DoneArm, Pool, JobFinish, vars
<1>3. RunsIn(inflight, jobs)
  BY <1>2 DEF SlotNeverLeaks, InflightIsRunning, RunsIn
<1>4. CASE AnalysisArm
  <2>1. PICK stage \in Stages :
          /\ WorkerOK(Worker(stage))
          /\ Dispatches(Drain(Worker(stage), analysis_rx))
    BY <1>4, AnalysisArmStep
  <2> DEFINE w == Drain(Worker(stage), analysis_rx)
  <2>2. w.inflight = inflight /\ w.jobs = jobs
    BY <2>1, DrainFrame DEF Worker
  <2>3. Dispatches(w)
    BY <2>1
  <2> HIDE DEF w
  <2> QED
    BY <1>3, <2>2, <2>3, DispatchesRuns
<1>5. CASE SyncArm
  <2>1. PICK stage \in Stages, d \in Docs :
          /\ WorkerOK(Worker(stage))
          /\ disk \in [Docs -> Texts]
          /\ WorkerOK(Drain(Worker(stage), analysis_rx))
          /\ Dispatches(OnSync(Drain(Worker(stage), analysis_rx), d))
    BY <1>5, SyncArmStep
  <2> DEFINE v == Drain(Worker(stage), analysis_rx)
             u == DropQueued(v, d)
             w == OnSync(v, d)
  <2>2. v.inflight = inflight /\ v.jobs = jobs
    BY <2>1, DrainFrame DEF Worker
  <2>3. WorkerOK(v) /\ Dispatches(w)
    BY <2>1
  <2> HIDE DEF v
  <2>4. WorkerOK(u) /\ u.jobs = v.jobs
    <3>1. WorkerOK(u)
      BY <2>3, DropQueuedOK
    <3> QED
      BY <2>3, <3>1 DEF DropQueued, WorkerOK, WorkerRecord
  <2>5. /\ w.inflight = v.inflight
        /\ w.jobs \in {v.jobs, Cancel(u).jobs}
    BY <2>1, <2>3, OnSyncFrame
  <2> HIDE DEF u, w
  <2>6. RunsIn(w.inflight, w.jobs)
    BY <1>3, <2>2, <2>4, <2>5, CancelRuns
  <2> QED
    BY <2>3, <2>6, DispatchesRuns
<1>6. CASE LibraryArm
  <2>1. PICK stage \in Stages :
          LET w == SendRefresh([Cancel(Worker(stage))
                                  EXCEPT !.library = @ + 1])
          IN WorkerOK(Worker(stage)) /\ WorkerOK(w) /\ Commit(w)
    BY <1>6, LibraryArmStep
  <2> DEFINE v == Cancel(Worker(stage))
             w == SendRefresh([v EXCEPT !.library = @ + 1])
  <2>2. WorkerOK(v) /\ v.inflight = inflight /\ RunsIn(inflight, v.jobs)
    BY <1>3, <2>1, CancelOK, CancelFrame, CancelRuns DEF SameButJobs, Worker
  <2>3. Commit(w)
    BY <2>1
  <2> HIDE DEF v
  <2>4. w.inflight = v.inflight /\ w.jobs = v.jobs
    BY <2>2 DEF SendRefresh, WorkerOK, WorkerRecord
  <2> HIDE DEF w
  <2> QED
    BY <2>2, <2>3, <2>4 DEF Commit
<1>7. ASSUME NEW j \in JobIds, DoneArm(j)
      PROVE  RunsIn(inflight', jobs')
  <2>1. PICK stage \in Stages :
          /\ jobs[j] \in AnalyzeDone
          /\ WorkerOK(Worker(stage))
          /\ WorkerOK(Received(stage, j))
          /\ Dispatches(OnDone(Received(stage, j), jobs[j]))
    BY <1>7, DoneArmStep
  <2> DEFINE v == Received(stage, j)
             w == OnDone(v, jobs[j])
  <2>2. v.inflight = inflight /\ v.jobs = [jobs EXCEPT ![j] = None]
    BY DEF Received, Worker
  <2>3. WorkerOK(v) /\ Dispatches(w)
    BY <2>1
  <2> HIDE DEF v
  <2>4. /\ w.jobs = v.jobs
        /\ w.inflight =
             IF v.inflight = [uri |-> jobs[j].uri, version |-> jobs[j].version]
             THEN None ELSE v.inflight
    BY <2>3, OnDoneFrame
  <2> HIDE DEF w
  <2>5. ASSUME w.inflight # None
        PROVE  RunsIn(w.inflight, w.jobs)
    <3>1. /\ inflight # None /\ w.inflight = inflight
          /\ inflight # [uri |-> jobs[j].uri, version |-> jobs[j].version]
      BY <2>2, <2>4, <2>5
    <3>2. inflight = [uri |-> inflight.uri, version |-> inflight.version]
      BY <3>1 DEF TypeInv, TypeOK, Flight
    <3>3. PICK k \in JobIds : /\ jobs[k] # None
                              /\ jobs[k].uri = inflight.uri
                              /\ jobs[k].version = inflight.version
      BY <1>3, <3>1 DEF RunsIn
    <3>4. k # j
      BY <3>1, <3>2, <3>3
    <3>5. jobs \in [JobIds -> Job \cup AnalyzeDone \cup {None}]
      BY DEF TypeInv, TypeOK
    <3>6. w.jobs[k] = jobs[k]
      BY <2>2, <2>4, <3>4, <3>5
    <3> QED
      BY <3>1, <3>3, <3>6 DEF RunsIn
  <2>6. RunsIn(w.inflight, w.jobs)
    BY <2>5 DEF RunsIn
  <2> QED
    BY <2>3, <2>6, DispatchesRuns
<1>8. ASSUME NEW j \in JobIds, JobFinish(j)
      PROVE  RunsIn(inflight', jobs')
  <2>1. /\ inflight' = inflight /\ jobs[j] # None
        /\ jobs' = [jobs EXCEPT ![j] = DoneOf(jobs[j], jobs[j].projection)]
    BY <1>8 DEF JobFinish, workerVars, Live
  <2>2. jobs \in [JobIds -> Job \cup AnalyzeDone \cup {None}]
    BY DEF TypeInv, TypeOK
  <2>3. jobs[j] \in Job
    BY <1>8, <2>2, LiveIsJob DEF JobFinish, JobSlots
  <2> DEFINE done == DoneOf(jobs[j], jobs[j].projection)
  <2>4. done \in AnalyzeDone
    BY <2>3 DEF DoneOf, Job, AnalyzeDone
  <2>5. /\ done # None
        /\ done.uri = jobs[j].uri /\ done.version = jobs[j].version
    BY <2>4, NoneAssumption DEF DoneOf
  <2> HIDE DEF done
  <2>6. jobs' = [jobs EXCEPT ![j] = done]
    BY <2>1 DEF done
  <2> QED
    BY <1>3, <2>1, <2>2, <2>5, <2>6 DEF RunsIn
<1>9. Client \/ MainLoop \/ UNCHANGED vars => UNCHANGED <<inflight, jobs>>
  BY DEF Client, DidOpen, DidChange, SetDocument, DidClose, Rewrite,
         DidChangeWatchedFiles, DidChangeConfiguration, MainLoop,
         OnDiagnostics, OnDiagnosticsRefresh, vars, workerVars
<1> QED
  BY <1>1, <1>3, <1>4, <1>5, <1>6, <1>7, <1>8, <1>9
     DEF Next, AnalysisThread, Pool

(* As long as nothing panicked, the in-flight slot names an analysis that  *)
(* runs or whose `done` is on its way (AnalysisWorker::inflight, on_done): *)
(* neither a cancellation, nor a superseding start, nor a late `done` of   *)
(* another analysis leaves the slot taken with nobody to free it.          *)
THEOREM SlotIsAlwaysFreed == Spec => []SlotNeverLeaks
<1>1. Init => SlotNeverLeaks
  BY DEF Init, SlotNeverLeaks, InflightIsRunning
<1>2. TypeInv /\ SlotNeverLeaks /\ [Next]_vars => SlotNeverLeaks'
  BY SlotStep
<1> QED
  BY <1>1, <1>2, InitTyped, NextTyped, PTL DEF Spec

-----------------------------------------------------------------------------
(* Closed files.                                                           *)

Asked(q, d) == \E i \in 1..Len(q) : q[i].uri = d

(* A document without a buffer whose close has been handled: no analysis   *)
(* of it is queued anywhere, and the database holds its disk text, unless  *)
(* the file has changed since and its event is on its way.                 *)
ClosedInv ==
    \A d \in Docs :
        documents[d] = None /\ (\A i \in 1..Len(sync_rx) : sync_rx[i] # d) =>
            /\ ~ Asked(analysis_rx, d)
            /\ pending[d] = None
            /\ d \notin changedOnDisk => tracked[d] \in {disk[d], None}

(* What an arm's record says of such a document.                           *)
Left(w, d) ==
    /\ w.pending[d] = None
    /\ d \notin changedOnDisk => w.tracked[d] \in {disk[d], None}

LEMMA UpsertEffect ==
    ASSUME NEW w, WorkerOK(w), NEW d \in Docs, NEW t \in Texts
    PROVE  /\ Upsert(w, d, t).tracked = [w.tracked EXCEPT ![d] = t]
           /\ Upsert(w, d, t).orphaned = w.orphaned
           /\ \/ /\ Upsert(w, d, t).jobs = w.jobs
                 /\ Upsert(w, d, t).out = w.out
              \/ /\ Upsert(w, d, t).jobs = Cancel(w).jobs
                 /\ Upsert(w, d, t).out = Cancel(w).out
<1> DEFINE written == IF w.tracked[d] \in {t, None} THEN w ELSE Cancel(w)
<1>1. Cancel(w).orphaned = w.orphaned
  BY DEF Cancel, WorkerOK, WorkerRecord
<1>2. /\ written.tracked = w.tracked /\ written.orphaned = w.orphaned
      /\ written \in {w, Cancel(w)}
  BY <1>1, CancelFrame
<1>3. WorkerOK(written)
  BY CancelOK
<1>4. Upsert(w, d, t) = [written EXCEPT !.tracked[d] = t]
  BY DEF Upsert
<1> HIDE DEF written
<1>5. /\ Upsert(w, d, t).tracked = [written.tracked EXCEPT ![d] = t]
      /\ Upsert(w, d, t).orphaned = written.orphaned
      /\ Upsert(w, d, t).jobs = written.jobs
      /\ Upsert(w, d, t).out = written.out
  BY <1>3, <1>4 DEF WorkerOK, WorkerRecord
<1> QED
  BY <1>2, <1>5

LEMMA StartLeaves ==
    ASSUME NEW w, WorkerOK(w), FreeJob(w), NEW e \in Docs,
           w.pending[e] # None, NEW d \in Docs, Left(w, d)
    PROVE  Left(Start(w, e), d)
<1> DEFINE x == Start(w, e)
           t == w.pending[e].text
<1>1. \E j \in JobIds : w.jobs[j] = None
  BY DEF FreeJob
<1>2. /\ x.pending = [w.pending EXCEPT ![e] = None]
      /\ x.inflight = [uri |-> e, version |-> w.pending[e].version]
      /\ x.tracked = Upsert(w, e, t).tracked
      /\ StartsJob(w, e, x)
  BY <1>1, StartEffect
<1> HIDE DEF x
<1>3. t \in Texts
  BY DEF WorkerOK, WorkerRecord, Request
<1>4. x.tracked = [w.tracked EXCEPT ![e] = t]
  BY <1>2, <1>3, UpsertEffect
<1>5. d # e
  BY DEF Left
<1>6. /\ w.pending \in [Docs -> Request \cup {None}]
      /\ w.tracked \in [Docs -> Texts \cup {None}]
  BY DEF WorkerOK, WorkerRecord
<1>7. x.pending[d] = w.pending[d] /\ x.tracked[d] = w.tracked[d]
  BY <1>2, <1>4, <1>5, <1>6
<1>8. Left(x, d)
  BY <1>7 DEF Left
<1> QED
  BY <1>8 DEF x

LEMMA TryDispatchLeaves ==
    ASSUME NEW w, WorkerOK(w), FreeJob(w), NEW x \in TryDispatch(w),
           NEW d \in Docs, Left(w, d)
    PROVE  Left(x, d)
<1>1. /\ WorkerOK(Superseded(w)) /\ FreeJob(Superseded(w))
      /\ Superseded(w).pending = w.pending
  BY SupersededOK DEF FreeJob
<1>2. Superseded(w).tracked = w.tracked
  <2> DEFINE v == Cancel(w)
  <2>1. WorkerOK(v) /\ v.tracked = w.tracked
    BY CancelOK, CancelFrame
  <2> HIDE DEF v
  <2>2. [v EXCEPT !.inflight = None].tracked = v.tracked
    BY <2>1 DEF WorkerOK, WorkerRecord
  <2> QED
    BY <2>1, <2>2 DEF Superseded, v
<1>3. Left(Superseded(w), d)
  BY <1>1, <1>2 DEF Left
<1> QED
  BY <1>1, <1>3, TryDispatchCases, StartLeaves

LEMMA DispatchesLeaves ==
    ASSUME NEW w, Dispatches(w),
           UNCHANGED <<documents, changedOnDisk, disk>>,
           \A d \in Docs :
               documents[d] = None
                 /\ (\A i \in 1..Len(sync_rx') : sync_rx'[i] # d) =>
                   Left(w, d) /\ ~ Asked(analysis_rx', d)
    PROVE  ClosedInv'
<1>1. PICK x \in TryDispatch(w) : Commit(x)
  BY DEF Dispatches
<1>2. \A d \in Docs : Left(w, d) => Left(x, d)
  BY <1>1, TryDispatchLeaves DEF Dispatches
<1>3. pending' = x.pending /\ tracked' = x.tracked
  BY <1>1 DEF Commit
<1> DEFINE q == analysis_rx'
<1>4. \A d \in Docs :
        documents[d] = None
          /\ (\A i \in 1..Len(sync_rx') : sync_rx'[i] # d) =>
            Left(x, d) /\ ~ Asked(q, d)
  BY <1>2
<1> QED
  BY <1>3, <1>4 DEF ClosedInv, Left, Asked

LEMMA CoalesceUnasked ==
    ASSUME NEW p, NEW q \in Seq(Request), NEW d, ~ Asked(q, d)
    PROVE  Coalesce(p, q, d) = p
BY DEF Asked, Coalesce, Latest

LEMMA DrainLeaves ==
    ASSUME NEW w, WorkerOK(w), NEW q \in Seq(Request), NEW d \in Docs,
           Left(w, d), ~ Asked(q, d)
    PROVE  Left(Drain(w, q), d)
<1>1. CASE q = <<>>
  BY <1>1 DEF Drain
<1>2. CASE q # <<>>
  <2>1. /\ Drain(w, q).pending = [e \in Docs |-> Coalesce(w.pending[e], q, e)]
        /\ Drain(w, q).tracked = w.tracked
    <3> DEFINE pnd == [e \in Docs |-> Coalesce(w.pending[e], q, e)]
               act == q[Len(q)].uri
    <3>1. Drain(w, q) = [w EXCEPT !.pending = pnd, !.active = act]
      BY <1>2 DEF Drain
    <3> HIDE DEF pnd, act
    <3>2. Drain(w, q).pending = pnd /\ Drain(w, q).tracked = w.tracked
      BY <3>1 DEF WorkerOK, WorkerRecord
    <3> QED
      BY <3>2 DEF pnd
  <2>2. Drain(w, q).pending[d] = w.pending[d]
    BY <2>1, CoalesceUnasked
  <2> QED
    BY <2>1, <2>2 DEF Left
<1> QED
  BY <1>1, <1>2

(* on_sync drops what is queued for the path, and reverts its text.        *)
LEMMA OnSyncEffect ==
    ASSUME NEW w, WorkerOK(w), NEW e \in Docs, disk \in [Docs -> Texts]
    PROVE  /\ OnSync(w, e).pending[e] = None
           /\ OnSync(w, e).tracked[e] \in {disk[e], None}
           /\ \A d \in Docs \ {e} :
                /\ OnSync(w, e).pending[d] = w.pending[d]
                /\ OnSync(w, e).tracked[d] = w.tracked[d]
<1> DEFINE v == DropQueued(w, e)
           u == Upsert(v, e, disk[e])
           r == Revert(v, e)
           x == OnSync(w, e)
<1>1. /\ WorkerOK(v) /\ WorkerOK(u) /\ WorkerOK(r)
  BY DropQueuedOK, UpsertOK, RevertOK
<1>2. /\ v.tracked = w.tracked
      /\ v.pending[e] = None
      /\ \A d \in Docs \ {e} : v.pending[d] = w.pending[d]
  BY DEF DropQueued, WorkerOK, WorkerRecord
<1>3. x.pending = v.pending
  BY OnSyncFrame
<1>4. x.tracked = r.tracked
  <2>1. x = ForgetProjection(r, e)
    BY DEF OnSync
  <2> HIDE DEF r, x
  <2> QED
    BY <1>1, <2>1 DEF ForgetProjection, SendRefresh, WorkerOK, WorkerRecord
<1> HIDE DEF v, x
<1>5. u.tracked = [v.tracked EXCEPT ![e] = disk[e]]
  BY <1>1, UpsertEffect
<1> HIDE DEF u
<1>6. \/ r = v /\ v.tracked[e] \in {disk[e], None}
      \/ r.tracked = u.tracked
  BY <1>1 DEF Revert, WorkerOK, WorkerRecord, u
<1> HIDE DEF r
<1>7. v.tracked \in [Docs -> Texts \cup {None}]
  BY <1>1 DEF WorkerOK, WorkerRecord
<1>8. /\ r.tracked[e] \in {disk[e], None}
      /\ \A d \in Docs \ {e} : r.tracked[d] = v.tracked[d]
  BY <1>5, <1>6, <1>7
<1>9. /\ x.pending[e] = None
      /\ x.tracked[e] \in {disk[e], None}
      /\ \A d \in Docs \ {e} : /\ x.pending[d] = w.pending[d]
                               /\ x.tracked[d] = w.tracked[d]
  BY <1>2, <1>3, <1>4, <1>8
<1> QED
  BY <1>9 DEF x

(* What the main loop sends when it asks for every open document again.    *)
LEMMA SendAllEffect ==
    ASSUME TypeInv, NEW r \in 0..MaxRules, SendAll(OpenDocs, r)
    PROVE  \E sent \in Seq(Request) :
             /\ analysis_rx' = analysis_rx \o sent
             /\ \A i \in 1..Len(sent) : \E d \in OpenDocs :
                  sent[i] = RequestFor(d, documents[d], r)
             /\ \A d \in OpenDocs : Asked(sent, d)
<1>1. PICK order \in Bijection(1..Cardinality(OpenDocs), OpenDocs) :
        analysis_rx' = analysis_rx \o
            [i \in DOMAIN order |->
                RequestFor(order[i], documents[order[i]], r)]
  BY DEF SendAll
<1> DEFINE n == Cardinality(OpenDocs)
           sent == [i \in 1..n |->
                      RequestFor(order[i], documents[order[i]], r)]
<1>2. n \in Nat
  BY FiniteAssumption, FS_Subset, FS_CardinalityType DEF OpenDocs
<1>3. /\ order \in [1..n -> OpenDocs]
      /\ \A d \in OpenDocs : \E i \in 1..n : order[i] = d
  BY <1>1 DEF Bijection, Injection, Surjection
<1>4. \A d \in OpenDocs : d \in Docs /\ documents[d] \in Document
  BY DEF OpenDocs, TypeInv, TypeOK
<1>5. sent \in [1..n -> Request]
  BY <1>3, <1>4, RequestForType
<1>6. \A i \in 1..n : \E d \in OpenDocs :
        sent[i] = RequestFor(d, documents[d], r)
  BY <1>3
<1>7. \A d \in OpenDocs : \E i \in 1..n : sent[i].uri = d
  BY <1>3 DEF RequestFor
<1>8. analysis_rx' = analysis_rx \o sent
  BY <1>1, <1>3
<1> HIDE DEF sent, n
<1>9. sent \in Seq(Request) /\ Len(sent) = n
  BY <1>2, <1>5, SeqDef
<1> QED
  BY <1>6, <1>7, <1>8, <1>9 DEF Asked

LEMMA AskedInConcat ==
    ASSUME NEW s \in Seq(Request), NEW t \in Seq(Request), NEW d
    PROVE  Asked(s \o t, d) <=> Asked(s, d) \/ Asked(t, d)
<1>1. ASSUME Asked(s, d) PROVE Asked(s \o t, d)
  BY <1>1 DEF Asked
<1>2. ASSUME Asked(t, d) PROVE Asked(s \o t, d)
  <2>1. PICK i \in 1..Len(t) : t[i].uri = d
    BY <1>2 DEF Asked
  <2>2. /\ Len(s) + i \in 1..Len(s \o t)
        /\ (s \o t)[Len(s) + i] = t[i]
    OBVIOUS
  <2> QED
    BY <2>1, <2>2 DEF Asked
<1>3. ASSUME Asked(s \o t, d) PROVE Asked(s, d) \/ Asked(t, d)
  <2>1. PICK i \in 1..Len(s \o t) : (s \o t)[i].uri = d
    BY <1>3 DEF Asked
  <2>2. CASE i \in 1..Len(s)
    BY <2>1, <2>2 DEF Asked
  <2>3. CASE i \notin 1..Len(s)
    <3>1. i - Len(s) \in 1..Len(t) /\ (s \o t)[i] = t[i - Len(s)]
      BY <2>3
    <3> QED
      BY <2>1, <3>1 DEF Asked
  <2> QED
    BY <2>2, <2>3
<1> QED
  BY <1>1, <1>2, <1>3

LEMMA AskedInAppend ==
    ASSUME NEW s \in Seq(Request), NEW req, NEW d
    PROVE  Asked(Append(s, req), d) <=> Asked(s, d) \/ req.uri = d
<1>1. ASSUME Asked(s, d) \/ req.uri = d PROVE Asked(Append(s, req), d)
  <2>1. CASE Asked(s, d)
    BY <2>1 DEF Asked
  <2>2. CASE req.uri = d
    <3>1. /\ Len(s) + 1 \in 1..Len(Append(s, req))
          /\ Append(s, req)[Len(s) + 1] = req
      OBVIOUS
    <3> QED
      BY <2>2, <3>1 DEF Asked
  <2> QED
    BY <1>1, <2>1, <2>2
<1>2. ASSUME Asked(Append(s, req), d) PROVE Asked(s, d) \/ req.uri = d
  BY <1>2 DEF Asked
<1> QED
  BY <1>1, <1>2

LEMMA ClosedUnchanged ==
    ASSUME ClosedInv,
           UNCHANGED <<documents, sync_rx, analysis_rx, pending, tracked,
                       changedOnDisk, disk>>
    PROVE  ClosedInv'
BY DEF ClosedInv, Asked

LEMMA ClosedStep ==
    ASSUME TypeInv, ClosedInv, [Next]_vars
    PROVE  ClosedInv'
<1>1. analysis_rx \in Seq(Request) /\ sync_rx \in Seq(Docs)
  BY DEF TypeInv, TypeOK
<1>2. ASSUME NEW d \in Docs, NEW t \in Texts,
             DidOpen(d, t) \/ DidChange(d, t)
      PROVE  ClosedInv'
  <2>1. PICK v \in Versions :
          documents' = [documents EXCEPT ![d] = [version |-> v, text |-> t]]
    BY <1>2, OpenedVersion
  <2>2. [version |-> v, text |-> t] # None
    BY <2>1, NoneAssumption DEF Document
  <2>3. documents \in [Docs -> Document \cup {None}]
    BY DEF TypeInv, TypeOK
  <2>4. PICK req : /\ req.uri = d
                   /\ analysis_rx' = Append(analysis_rx, req)
    BY <1>2 DEF DidOpen, DidChange, SetDocument, RequestFor
  <2>5. UNCHANGED <<sync_rx, pending, tracked, changedOnDisk, disk>>
    BY <1>2 DEF DidOpen, DidChange, SetDocument, workerVars
  <2> DEFINE q == analysis_rx'
  <2>6. \A e \in Docs : ~ Asked(analysis_rx, e) /\ e # d => ~ Asked(q, e)
    BY <1>1, <2>4, AskedInAppend
  <2>7. \A e \in Docs : documents'[e] = None => e # d /\ documents[e] = None
    BY <2>1, <2>2, <2>3
  <2> HIDE DEF q
  <2>8. ASSUME NEW e \in Docs, documents'[e] = None,
               \A i \in 1..Len(sync_rx) : sync_rx[i] # e
        PROVE  /\ ~ Asked(q, e)
               /\ pending[e] = None
               /\ e \notin changedOnDisk => tracked[e] \in {disk[e], None}
    BY <2>6, <2>7, <2>8 DEF ClosedInv
  <2> QED
    BY <2>5, <2>8 DEF ClosedInv, Asked, q
<1>3. ASSUME NEW d \in Docs, DidClose(d)
      PROVE  ClosedInv'
  <2>1. /\ documents' = [documents EXCEPT ![d] = None]
        /\ sync_rx' = Append(sync_rx, d)
        /\ UNCHANGED <<analysis_rx, pending, tracked, changedOnDisk, disk>>
    BY <1>3 DEF DidClose, clientVars, workerVars
  <2>2. documents \in [Docs -> Document \cup {None}]
    BY DEF TypeInv, TypeOK
  <2>3. ASSUME NEW e \in Docs, \A i \in 1..Len(sync_rx') : sync_rx'[i] # e
        PROVE  e # d /\ \A i \in 1..Len(sync_rx) : sync_rx[i] # e
    BY <1>1, <2>1, <2>3
  <2>4. \A e \in Docs : e # d => documents'[e] = documents[e]
    BY <2>1, <2>2
  <2> QED
    BY <2>1, <2>3, <2>4 DEF ClosedInv, Asked
<1>4. ASSUME NEW d \in Docs, NEW t \in Texts, Rewrite(d, t)
      PROVE  ClosedInv'
  <2>1. /\ disk' = [disk EXCEPT ![d] = t] /\ disk \in [Docs -> Texts]
        /\ changedOnDisk' = changedOnDisk \cup {d}
        /\ UNCHANGED <<documents, sync_rx, analysis_rx, pending, tracked>>
    BY <1>4 DEF Rewrite, mainVars, workerVars, TypeInv, TypeOK
  <2>2. \A e \in Docs : e \notin changedOnDisk' =>
          e \notin changedOnDisk /\ disk'[e] = disk[e]
    BY <2>1
  <2> QED
    BY <2>1, <2>2 DEF ClosedInv, Asked
<1>5. ASSUME NEW d \in Docs, DidChangeWatchedFiles(d)
      PROVE  ClosedInv'
  <2>1. /\ changedOnDisk' = changedOnDisk \ {d}
        /\ sync_rx' = IF documents[d] = None THEN Append(sync_rx, d)
                                             ELSE sync_rx
        /\ UNCHANGED <<documents, disk, analysis_rx, pending, tracked>>
    BY <1>5 DEF DidChangeWatchedFiles, mainVars, workerVars
  <2>2. ASSUME NEW e \in Docs, documents[e] = None,
               \A i \in 1..Len(sync_rx') : sync_rx'[i] # e
        PROVE  e # d /\ \A i \in 1..Len(sync_rx) : sync_rx[i] # e
    BY <1>1, <2>1, <2>2
  <2> QED
    BY <2>1, <2>2 DEF ClosedInv, Asked
<1>6. CASE DidChangeConfiguration \/ OnDiagnosticsRefresh
  <2>1. UNCHANGED <<documents, sync_rx, pending, tracked, changedOnDisk,
                    disk>>
    BY <1>6 DEF DidChangeConfiguration, OnDiagnosticsRefresh, clientVars,
                mainVars, workerVars
  <2>2. PICK r \in 0..MaxRules : SendAll(OpenDocs, r)
    <3>1. rules \in 0..MaxRules
      BY DEF TypeInv, TypeOK
    <3>2. DidChangeConfiguration => rules + 1 \in 0..MaxRules
      BY <3>1, BoundsAssumption DEF DidChangeConfiguration
    <3> QED
      BY <1>6, <3>1, <3>2 DEF DidChangeConfiguration, OnDiagnosticsRefresh
  <2>3. PICK sent \in Seq(Request) :
          /\ analysis_rx' = analysis_rx \o sent
          /\ \A i \in 1..Len(sent) : \E d \in OpenDocs :
               sent[i] = RequestFor(d, documents[d], r)
    BY <2>2, SendAllEffect
  <2>4. \A e \in Docs : documents[e] = None => ~ Asked(sent, e)
    <3>1. \A i \in 1..Len(sent) : documents[sent[i].uri] # None
      <4> TAKE i \in 1..Len(sent)
      <4>1. PICK d \in OpenDocs : sent[i] = RequestFor(d, documents[d], r)
        BY <2>3
      <4>2. sent[i].uri = d
        BY <4>1 DEF RequestFor
      <4> QED
        BY <4>2 DEF OpenDocs
    <3> QED
      BY <3>1 DEF Asked
  <2> DEFINE q == analysis_rx'
  <2>5. \A e \in Docs :
          documents[e] = None /\ ~ Asked(analysis_rx, e) => ~ Asked(q, e)
    BY <1>1, <2>3, <2>4, AskedInConcat
  <2> HIDE DEF q
  <2>6. \A e \in Docs :
          documents[e] = None /\ (\A i \in 1..Len(sync_rx) : sync_rx[i] # e)
            => /\ ~ Asked(q, e)
               /\ pending[e] = None
               /\ e \notin changedOnDisk => tracked[e] \in {disk[e], None}
    BY <2>5 DEF ClosedInv
  <2> QED
    BY <2>1, <2>6 DEF ClosedInv, Asked, q
<1>7. CASE AnalysisArm
  <2>1. PICK stage \in Stages :
          /\ WorkerOK(Worker(stage))
          /\ Dispatches(Drain(Worker(stage), analysis_rx))
    BY <1>7, AnalysisArmStep
  <2> DEFINE u == Worker(stage)
             w == Drain(u, analysis_rx)
  <2>2. u.pending = pending /\ u.tracked = tracked
    BY DEF Worker
  <2>3. WorkerOK(u) /\ Dispatches(w)
    BY <2>1
  <2>4. UNCHANGED <<documents, changedOnDisk, disk, sync_rx>>
        /\ analysis_rx' = <<>>
    BY <1>7 DEF AnalysisArm, clientVars, mainVars
  <2> HIDE DEF u
  <2>5. ASSUME NEW d \in Docs, documents[d] = None,
               \A i \in 1..Len(sync_rx) : sync_rx[i] # d
        PROVE  Left(w, d)
    <3>1. Left(u, d) /\ ~ Asked(analysis_rx, d)
      BY <2>2, <2>5 DEF ClosedInv, Left
    <3> QED
      BY <1>1, <2>3, <3>1, DrainLeaves
  <2> HIDE DEF w
  <2>6. \A d : ~ Asked(<<>>, d)
    BY DEF Asked
  <2>7. \A d \in Docs :
          documents[d] = None
            /\ (\A i \in 1..Len(sync_rx') : sync_rx'[i] # d) =>
              Left(w, d) /\ ~ Asked(analysis_rx', d)
    BY <2>4, <2>5, <2>6
  <2> QED
    BY <2>3, <2>4, <2>7, DispatchesLeaves
<1>8. CASE SyncArm
  <2>1. PICK stage \in Stages, e \in Docs :
          /\ e = Head(sync_rx)
          /\ WorkerOK(Worker(stage))
          /\ disk \in [Docs -> Texts]
          /\ WorkerOK(Drain(Worker(stage), analysis_rx))
          /\ Dispatches(OnSync(Drain(Worker(stage), analysis_rx), e))
    BY <1>8, SyncArmStep
  <2> DEFINE u == Worker(stage)
             v == Drain(u, analysis_rx)
             w == OnSync(v, e)
  <2>2. u.pending = pending /\ u.tracked = tracked
    BY DEF Worker
  <2>3. WorkerOK(u) /\ WorkerOK(v) /\ Dispatches(w)
    BY <2>1
  <2>4. /\ UNCHANGED <<documents, changedOnDisk, disk>>
        /\ analysis_rx' = <<>> /\ sync_rx # <<>> /\ sync_rx' = Tail(sync_rx)
    BY <1>8 DEF SyncArm, clientVars, mainVars
  <2> HIDE DEF u
  <2>5. ASSUME NEW d \in Docs, documents[d] = None,
               \A i \in 1..Len(sync_rx') : sync_rx'[i] # d
        PROVE  Left(w, d)
    <3> HIDE DEF v, w
    <3>1. CASE d = e
      <4>1. w.pending[d] = None /\ w.tracked[d] \in {disk[d], None}
        BY <2>1, <2>3, <3>1, OnSyncEffect DEF w
      <4> QED
        BY <4>1 DEF Left
    <3>2. CASE d # e
      <4>1. \A i \in 1..Len(sync_rx) :
              i = 1 \/ (i - 1 \in 1..Len(sync_rx')
                        /\ sync_rx[i] = sync_rx'[i - 1])
        BY <1>1, <2>4
      <4>2. \A i \in 1..Len(sync_rx) : sync_rx[i] # d
        <5>1. sync_rx[1] = e
          BY <1>1, <2>1, <2>4
        <5> QED
          BY <2>5, <3>2, <4>1, <5>1
      <4>3. Left(u, d) /\ ~ Asked(analysis_rx, d)
        BY <2>2, <2>5, <4>2 DEF ClosedInv, Left
      <4>4. Left(v, d)
        BY <1>1, <2>3, <4>3, DrainLeaves DEF v
      <4>5. w.pending[d] = v.pending[d] /\ w.tracked[d] = v.tracked[d]
        BY <2>1, <2>3, <3>2, OnSyncEffect DEF w
      <4> QED
        BY <4>4, <4>5 DEF Left
    <3> QED
      BY <3>1, <3>2
  <2> HIDE DEF v, w
  <2>6. \A d : ~ Asked(<<>>, d)
    BY DEF Asked
  <2>7. \A d \in Docs :
          documents[d] = None
            /\ (\A i \in 1..Len(sync_rx') : sync_rx'[i] # d) =>
              Left(w, d) /\ ~ Asked(analysis_rx', d)
    BY <2>4, <2>5, <2>6
  <2> QED
    BY <2>3, <2>4, <2>7, DispatchesLeaves
<1>9. CASE LibraryArm
  <2>1. PICK stage \in Stages :
          LET w == SendRefresh([Cancel(Worker(stage))
                                  EXCEPT !.library = @ + 1])
          IN WorkerOK(Worker(stage)) /\ WorkerOK(w) /\ Commit(w)
    BY <1>9, LibraryArmStep
  <2> DEFINE v == Cancel(Worker(stage))
             w == SendRefresh([v EXCEPT !.library = @ + 1])
  <2>2. WorkerOK(v) /\ v.pending = pending /\ v.tracked = tracked
    BY <2>1, CancelOK, CancelFrame DEF SameButJobs, Worker
  <2>3. Commit(w)
    BY <2>1
  <2> HIDE DEF v
  <2>4. w.pending = v.pending /\ w.tracked = v.tracked
    BY <2>2 DEF SendRefresh, WorkerOK, WorkerRecord
  <2> HIDE DEF w
  <2>5. pending' = pending /\ tracked' = tracked
    BY <2>2, <2>3, <2>4 DEF Commit
  <2> QED
    BY <1>9, <2>5, ClosedUnchanged DEF LibraryArm, clientVars, mainVars
<1>10. ASSUME NEW j \in JobIds, DoneArm(j)
       PROVE  ClosedInv'
  <2>1. PICK stage \in Stages :
          /\ jobs[j] \in AnalyzeDone
          /\ WorkerOK(Worker(stage))
          /\ WorkerOK(Received(stage, j))
          /\ Dispatches(OnDone(Received(stage, j), jobs[j]))
    BY <1>10, DoneArmStep
  <2> DEFINE v == Received(stage, j)
             w == OnDone(v, jobs[j])
  <2>2. v.pending = pending /\ v.tracked = tracked
    BY DEF Received, Worker
  <2>3. WorkerOK(v) /\ Dispatches(w)
    BY <2>1
  <2> HIDE DEF v
  <2>4. w.pending = v.pending /\ w.tracked = v.tracked
    BY <2>3
       DEF OnDone, RecordProjection, SendRefresh, WorkerOK, WorkerRecord
  <2> HIDE DEF w
  <2>5. UNCHANGED <<documents, changedOnDisk, disk, sync_rx, analysis_rx>>
    BY <1>10 DEF DoneArm, clientVars, mainVars
  <2>6. \A d \in Docs :
          documents[d] = None
            /\ (\A i \in 1..Len(sync_rx') : sync_rx'[i] # d) =>
              Left(w, d) /\ ~ Asked(analysis_rx', d)
    BY <2>2, <2>4, <2>5 DEF ClosedInv, Left
  <2> QED
    BY <2>3, <2>5, <2>6, DispatchesLeaves
<1>11. Pool \/ OnDiagnostics \/ UNCHANGED vars
         \/ (\E j \in JobIds : JobPanic(j))
         => UNCHANGED <<documents, sync_rx, analysis_rx, pending, tracked,
                        changedOnDisk, disk>>
  BY DEF Pool, JobFinish, OnDiagnostics, JobPanic, vars, clientVars, mainVars,
         workerVars
<1> QED
  BY <1>2, <1>3, <1>4, <1>5, <1>6, <1>7, <1>8, <1>9, <1>10, <1>11,
     ClosedUnchanged DEF Next, Client, MainLoop, AnalysisThread

(* When the server comes to rest, the database holds the disk text of every *)
(* closed file: on_sync drops the analyses queued before the close and      *)
(* reverts the text, so no discarded buffer is left or written back later.  *)
THEOREM ClosedFileIsReverted == Spec => []ClosedTracksDisk
<1>1. Init => ClosedInv
  BY DEF Init, ClosedInv, Asked
<1>2. TypeInv /\ ClosedInv /\ [Next]_vars => ClosedInv'
  BY ClosedStep
<1>3. ClosedInv => ClosedTracksDisk
  BY DEF ClosedInv, ClosedTracksDisk, Quiet
<1> QED
  BY <1>1, <1>2, <1>3, InitTyped, NextTyped, PTL DEF Spec

-----------------------------------------------------------------------------
(* Fresh findings.                                                         *)

(* A request or a job is about the buffer doc under the rules r.           *)
Wants(req, doc, r) == req.version = doc.version /\ req.rules = r

Good(diags, doc, r, lib) ==
    /\ diags # None
    /\ diags.text = doc.text
    /\ diags.rules = r
    /\ diags.world # None
    /\ diags.world.library = lib

RefreshSent(out) == \E i \in 1..Len(out) : out[i].kind = "refresh"
About(out, d, n) ==
    {i \in 1..Len(out) : /\ out[i].kind = "diagnostics"
                         /\ out[i].uri = d
                         /\ out[i].version = n}

(* The last report the main loop will accept for d is good; when none is   *)
(* left, so is what it shows.                                              *)
Reported(out, shown, d, doc, r, lib) ==
    \/ \E i \in About(out, d, doc.version) :
         /\ Good(out[i].diags, doc, r, lib)
         /\ \A k \in About(out, d, doc.version) : k <= i
    \/ About(out, d, doc.version) = {} /\ Good(shown, doc, r, lib)

Analysing(js, d, doc, r) ==
    \E j \in JobIds : Live(js[j]) /\ js[j].uri = d /\ Wants(js[j], doc, r)

QueueWanted(w, q, d, doc, r) ==
    w.pending[d] # None => Asked(q, d) \/ Wants(w.pending[d], doc, r)

JobsWanted(w, q, d, doc, r) ==
    \A j \in JobIds :
        Live(w.jobs[j]) /\ w.jobs[j].uri = d /\ w.jobs[j].version = doc.version
            => \/ Asked(q, d)
               \/ w.pending[d] # None
               \/ d \in w.orphaned
               \/ w.jobs[j].rules = r

(* Somewhere between the main loop and the client, good findings are on    *)
(* their way to d.                                                         *)
Covered(w, q, shown, d, doc, r) ==
    \/ d \in w.orphaned
    \/ Asked(q, d)
    \/ w.pending[d] # None
    \/ RefreshSent(w.out)
    \/ Analysing(w.jobs, d, doc, r)
    \/ Reported(w.out, shown, d, doc, r, w.library)

FreshFor(w, q, shown, d, doc, r) ==
    /\ QueueWanted(w, q, d, doc, r)
    /\ JobsWanted(w, q, d, doc, r)
    /\ Covered(w, q, shown, d, doc, r)

(* Every running analysis reads the library the database now holds.        *)
LibraryRead(w) ==
    \A j \in JobIds :
        Live(w.jobs[j]) => w.jobs[j].world.library = w.library

(* The last request on its way for d is about its buffer and its rules.    *)
LastWins(q, d, doc, r) ==
    \A i \in 1..Len(q) :
        q[i].uri = d /\ (\A k \in 1..Len(q) : k > i => q[k].uri # d)
            => Wants(q[i], doc, r)

(* The library is read by all; every open document is fresh.               *)
FreshIn(w, q, docs, shown, r) ==
    /\ LibraryRead(w)
    /\ \A d \in Docs : docs[d] # None =>
         /\ LastWins(q, d, docs[d], r)
         /\ FreshFor(w, q, shown[d], d, docs[d], r)

(* The same for the state: the stage is of no importance.                  *)
State == Worker("linting")
FreshInv == FreshIn(State, analysis_rx, documents, parse_diags, rules)

-----------------------------------------------------------------------------
(* Steps that leave the findings of d on their way.                        *)

LEMMA AskedIsFresh ==
    ASSUME NEW w, NEW q, NEW shown, NEW d, NEW doc, NEW r, Asked(q, d)
    PROVE  FreshFor(w, q, shown, d, doc, r)
BY DEF FreshFor, QueueWanted, JobsWanted, Covered

(* More documents may be orphaned.                                         *)
SameFindings(v, w) ==
    /\ v.pending = w.pending /\ v.jobs = w.jobs /\ v.out = w.out
    /\ v.library = w.library

LEMMA SameFindingsFresh ==
    ASSUME NEW v, NEW w, SameFindings(v, w), w.orphaned \subseteq v.orphaned,
           NEW q, NEW shown, NEW d, NEW doc, NEW r,
           FreshFor(w, q, shown, d, doc, r)
    PROVE  FreshFor(v, q, shown, d, doc, r)
BY DEF SameFindings, FreshFor, QueueWanted, JobsWanted, Covered

LEMMA RefreshIsFresh ==
    ASSUME NEW v, NEW w, v.pending = w.pending, v.jobs = w.jobs,
           w.orphaned \subseteq v.orphaned,
           w.out \in Seq(Outbound), v.out = Append(w.out, Refresh),
           NEW q, NEW shown, NEW d, NEW doc, NEW r,
           QueueWanted(w, q, d, doc, r), JobsWanted(w, q, d, doc, r)
    PROVE  FreshFor(v, q, shown, d, doc, r)
<1>1. RefreshSent(v.out)
  <2>1. /\ Len(w.out) + 1 \in 1..Len(v.out)
        /\ v.out[Len(w.out) + 1] = Refresh
    OBVIOUS
  <2>2. Refresh.kind = "refresh"
    BY DEF Refresh
  <2> QED
    BY <2>1, <2>2 DEF RefreshSent
<1> QED
  BY <1>1 DEF FreshFor, QueueWanted, JobsWanted, Covered

(* Reports about other documents, or other versions, change nothing for d. *)
Elsewhere(t, d, n) ==
    \A i \in 1..Len(t) : /\ t[i].kind = "diagnostics"
                         /\ t[i].uri = d
                         => t[i].version # n

LEMMA OtherReports ==
    ASSUME NEW s \in Seq(Outbound), NEW t \in Seq(Outbound), NEW d, NEW n,
           Elsewhere(t, d, n)
    PROVE  /\ About(s \o t, d, n) = About(s, d, n)
           /\ \A i \in About(s, d, n) : (s \o t)[i] = s[i]
           /\ RefreshSent(s) => RefreshSent(s \o t)
<1>1. /\ Len(s \o t) = Len(s) + Len(t) /\ Len(s) \in Nat /\ Len(t) \in Nat
      /\ \A i \in 1..Len(s) : (s \o t)[i] = s[i]
  OBVIOUS
<1>2. \A i \in 1..Len(s \o t) :
        \/ i \in 1..Len(s)
        \/ i - Len(s) \in 1..Len(t) /\ (s \o t)[i] = t[i - Len(s)]
  OBVIOUS
<1>3. 1..Len(s) \subseteq 1..Len(s \o t)
  BY <1>1
<1>4. About(s \o t, d, n) \subseteq About(s, d, n)
  BY <1>1, <1>2 DEF About, Elsewhere
<1>5. About(s, d, n) \subseteq About(s \o t, d, n)
  BY <1>1, <1>3 DEF About
<1>6. \A i \in About(s, d, n) : (s \o t)[i] = s[i]
  BY <1>1 DEF About
<1>7. RefreshSent(s) => RefreshSent(s \o t)
  BY <1>1, <1>3 DEF RefreshSent
<1> QED
  BY <1>4, <1>5, <1>6, <1>7

LEMMA OtherReportsReported ==
    ASSUME NEW s \in Seq(Outbound), NEW t \in Seq(Outbound), NEW d, NEW doc,
           Elsewhere(t, d, doc.version),
           NEW shown, NEW r, NEW lib, Reported(s, shown, d, doc, r, lib)
    PROVE  Reported(s \o t, shown, d, doc, r, lib)
<1> DEFINE n == doc.version
           u == s \o t
<1>1. /\ About(s \o t, d, n) = About(s, d, n)
      /\ \A i \in About(s, d, n) : (s \o t)[i] = s[i]
      /\ RefreshSent(s) => RefreshSent(s \o t)
  <2> HIDE DEF n
  <2>1. Elsewhere(t, d, n)
    BY DEF n
  <2> QED
    BY <2>1, OtherReports
<1> HIDE DEF u
<1>2. Reported(u, shown, d, doc, r, lib)
  BY <1>1 DEF Reported, u
<1> QED
  BY <1>2 DEF u

(* A cancellation reports nothing for a document nobody was analysing.     *)
LEMMA CancelReports ==
    ASSUME NEW w, WorkerOK(w), NEW d,
           \A j \in JobIds : Live(w.jobs[j]) => w.jobs[j].uri # d,
           NEW doc, NEW shown, NEW r, NEW lib,
           Reported(w.out, shown, d, doc, r, lib)
    PROVE  Reported(Cancel(w).out, shown, d, doc, r, lib)
<1> DEFINE cold == ColdReports(w.jobs)
<1>1. w.jobs \in [JobIds -> JobSlots] /\ w.out \in Seq(Outbound)
  BY DEF WorkerOK, WorkerRecord
<1>2. cold \in Seq(Outbound)
  BY <1>1, ColdReportsType DEF Outbound
<1>3. ASSUME NEW i \in 1..Len(cold)
      PROVE  cold[i].uri # d
  <2>1. PICK j \in JobIds : Live(w.jobs[j])
                            /\ cold[i] = ReportOf(w.jobs[j], None)
    BY <1>1, ColdReportsOrigin
  <2>2. cold[i].uri = w.jobs[j].uri
    BY <2>1 DEF ReportOf
  <2> QED
    BY <2>1, <2>2
<1>4. Cancel(w).out \in {w.out, w.out \o cold}
  BY DEF Cancel, WorkerOK, WorkerRecord
<1> HIDE DEF cold
<1>5. Elsewhere(cold, d, doc.version)
  BY <1>3 DEF Elsewhere
<1> QED
  BY <1>1, <1>2, <1>4, <1>5, OtherReportsReported

LEMMA CancelRefresh ==
    ASSUME NEW w, WorkerOK(w), RefreshSent(w.out)
    PROVE  RefreshSent(Cancel(w).out)
<1> DEFINE cold == ColdReports(w.jobs)
<1>1. w.jobs \in [JobIds -> JobSlots] /\ w.out \in Seq(Outbound)
  BY DEF WorkerOK, WorkerRecord
<1>2. cold \in Seq(Outbound)
  BY <1>1, ColdReportsType DEF Outbound
<1>3. Cancel(w).out \in {w.out, w.out \o cold}
  BY DEF Cancel, WorkerOK, WorkerRecord
<1> HIDE DEF cold
<1>4. /\ 1..Len(w.out) \subseteq 1..Len(w.out \o cold)
      /\ \A i \in 1..Len(w.out) : (w.out \o cold)[i] = w.out[i]
  BY <1>1, <1>2
<1> QED
  BY <1>3, <1>4 DEF RefreshSent

(* A cancelled analysis of d must be queued again, or orphaned.            *)
LEMMA CancelFresh ==
    ASSUME NEW w, WorkerOK(w), NEW v,
           v.pending = w.pending, v.jobs = Cancel(w).jobs,
           v.out = Cancel(w).out, v.library = w.library,
           w.orphaned \subseteq v.orphaned,
           NEW d,
           \A j \in JobIds : Live(w.jobs[j]) /\ w.jobs[j].uri = d =>
               w.pending[d] # None \/ d \in v.orphaned,
           NEW q, NEW shown, NEW doc, NEW r,
           FreshFor(w, q, shown, d, doc, r)
    PROVE  FreshFor(v, q, shown, d, doc, r) /\ NoneLive(v.jobs)
<1>1. NoneLive(v.jobs)
  BY CancelShrinks
<1>2. QueueWanted(v, q, d, doc, r)
  BY DEF FreshFor, QueueWanted
<1>3. JobsWanted(v, q, d, doc, r)
  BY <1>1 DEF JobsWanted, NoneLive
<1>4. Covered(v, q, shown, d, doc, r)
  <2>1. CASE \E j \in JobIds : Live(w.jobs[j]) /\ w.jobs[j].uri = d
    BY <2>1 DEF Covered
  <2>2. CASE ~ \E j \in JobIds : Live(w.jobs[j]) /\ w.jobs[j].uri = d
    <3>1. ~ Analysing(w.jobs, d, doc, r)
      BY <2>2 DEF Analysing
    <3>2. RefreshSent(w.out) => RefreshSent(v.out)
      BY CancelRefresh
    <3>3. Reported(w.out, shown, d, doc, r, w.library)
            => Reported(v.out, shown, d, doc, r, v.library)
      BY <2>2, CancelReports
    <3>4. Covered(w, q, shown, d, doc, r)
      BY DEF FreshFor
    <3> QED
      BY <3>1, <3>2, <3>3, <3>4 DEF Covered
  <2> QED
    BY <2>1, <2>2
<1> QED
  BY <1>1, <1>2, <1>3, <1>4 DEF FreshFor

(* An analysis started for e: with no other running, the new one covers e. *)
LEMMA StartFresh ==
    ASSUME NEW w, WorkerOK(w), FreeJob(w), NoneLive(w.jobs),
           NEW e \in Docs, w.pending[e] # None,
           NEW d \in Docs, NEW q, NEW shown, NEW doc, NEW r,
           FreshFor(w, q, shown, d, doc, r)
    PROVE  FreshFor(Start(w, e), q, shown, d, doc, r)
<1> DEFINE t == w.pending[e].text
           v == Upsert(w, e, t)
           x == Start(w, e)
<1>1. \E j \in JobIds : w.jobs[j] = None
  BY DEF FreeJob
<1>2. /\ x.pending = [w.pending EXCEPT ![e] = None]
      /\ x.inflight = [uri |-> e, version |-> w.pending[e].version]
      /\ x.out = v.out
      /\ x.orphaned = v.orphaned \ {e}
      /\ x.library = w.library
      /\ StartsJob(w, e, x)
  BY <1>1, StartEffect
<1>3. t \in Texts
  BY DEF WorkerOK, WorkerRecord, Request
<1>4. PICK id \in JobIds :
        /\ x.jobs[id] \in Job
        /\ x.jobs[id].uri = e
        /\ x.jobs[id].version = w.pending[e].version
        /\ x.jobs[id].rules = w.pending[e].rules
        /\ \A j \in JobIds \ {id} : x.jobs[j] = v.jobs[j]
  BY <1>2 DEF StartsJob
<1>5. /\ v.pending = w.pending /\ v.library = w.library
      /\ v.orphaned = w.orphaned
  <2>1. SameButJobs(v, w)
    BY <1>3, UpsertFrame
  <2>2. v.orphaned = w.orphaned
    BY <1>3, UpsertEffect
  <2> QED
    BY <2>1, <2>2 DEF SameButJobs
<1>6. FreshFor(v, q, shown, d, doc, r) /\ NoneLive(v.jobs)
  <2>1. CASE v.jobs = w.jobs /\ v.out = w.out
    <3>1. SameFindings(v, w) /\ w.orphaned \subseteq v.orphaned
      BY <1>5, <2>1 DEF SameFindings
    <3> HIDE DEF v
    <3> QED
      BY <2>1, <3>1, SameFindingsFresh
  <2>2. CASE v.jobs = Cancel(w).jobs /\ v.out = Cancel(w).out
    <3>1. \A j \in JobIds : ~ Live(w.jobs[j])
      BY DEF NoneLive
    <3> HIDE DEF v
    <3> QED
      BY <1>5, <2>2, <3>1, CancelFresh
  <2>3. /\ v.tracked = [w.tracked EXCEPT ![e] = t]
        /\ \/ v.jobs = w.jobs /\ v.out = w.out
           \/ v.jobs = Cancel(w).jobs /\ v.out = Cancel(w).out
    BY <1>3, UpsertEffect
  <2> QED
    BY <2>1, <2>2, <2>3
<1> HIDE DEF x, v, t
<1>7. /\ Live(x.jobs[id])
      /\ \A j \in JobIds : Live(x.jobs[j]) => j = id
  <2>1. Live(x.jobs[id])
    BY <1>4, LiveIsJob DEF JobSlots
  <2> QED
    BY <1>4, <1>6, <2>1 DEF NoneLive
<1>8. w.pending \in [Docs -> Request \cup {None}]
  BY DEF WorkerOK, WorkerRecord
<1>9. CASE d # e
  <2>1. x.pending[d] = v.pending[d]
    BY <1>2, <1>5, <1>8, <1>9
  <2>2. QueueWanted(x, q, d, doc, r)
    BY <1>6, <2>1 DEF FreshFor, QueueWanted
  <2>3. JobsWanted(x, q, d, doc, r)
    BY <1>4, <1>7, <1>9 DEF JobsWanted
  <2>4. ~ Analysing(v.jobs, d, doc, r)
    BY <1>6 DEF NoneLive, Analysing
  <2>5. d \in v.orphaned => d \in x.orphaned
    BY <1>2, <1>9
  <2>6. Covered(x, q, shown, d, doc, r)
    BY <1>2, <1>5, <1>6, <2>1, <2>4, <2>5 DEF FreshFor, Covered
  <2> QED
    BY <2>2, <2>3, <2>6 DEF FreshFor, x
<1>10. CASE d = e
  <2>1. Asked(q, d) \/ Wants(w.pending[d], doc, r)
    BY <1>10 DEF FreshFor, QueueWanted
  <2>2. CASE Asked(q, d)
    BY <2>2, AskedIsFresh
  <2>3. CASE Wants(w.pending[d], doc, r)
    <3>1. x.pending[d] = None
      BY <1>2, <1>8, <1>10
    <3>2. QueueWanted(x, q, d, doc, r)
      BY <3>1 DEF QueueWanted
    <3>3. Wants(x.jobs[id], doc, r)
      BY <1>4, <1>10, <2>3 DEF Wants
    <3>4. JobsWanted(x, q, d, doc, r)
      BY <1>7, <3>3 DEF JobsWanted, Wants
    <3>5. Analysing(x.jobs, d, doc, r)
      BY <1>4, <1>7, <1>10, <3>3 DEF Analysing
    <3>6. Covered(x, q, shown, d, doc, r)
      BY <3>5 DEF Covered
    <3> QED
      BY <3>2, <3>4, <3>6 DEF FreshFor, x
  <2> QED
    BY <2>1, <2>2, <2>3
<1> QED
  BY <1>9, <1>10

LEMMA StartLibrary ==
    ASSUME NEW w, WorkerOK(w), FreeJob(w), NoneLive(w.jobs),
           NEW e \in Docs, w.pending[e] # None
    PROVE  LibraryRead(Start(w, e))
<1> DEFINE t == w.pending[e].text
           v == Upsert(w, e, t)
           x == Start(w, e)
<1>1. \E j \in JobIds : w.jobs[j] = None
  BY DEF FreeJob
<1>2. /\ x.pending = [w.pending EXCEPT ![e] = None]
      /\ x.inflight = [uri |-> e, version |-> w.pending[e].version]
      /\ x.library = w.library
      /\ StartsJob(w, e, x)
  BY <1>1, StartEffect
<1>3. t \in Texts
  BY DEF WorkerOK, WorkerRecord, Request
<1>4. PICK id \in JobIds :
        /\ x.jobs[id].world.library = w.library
        /\ \A j \in JobIds \ {id} : x.jobs[j] = v.jobs[j]
  BY <1>2 DEF StartsJob
<1>5. NoneLive(v.jobs)
  BY <1>3, UpsertFrame, CancelShrinks
<1> HIDE DEF x, v, t
<1>6. LibraryRead(x)
  BY <1>2, <1>4, <1>5 DEF LibraryRead, NoneLive
<1> QED
  BY <1>6 DEF x

(* Only the analysis in the slot runs.                                     *)
SlotOnly(w) == \A j \in JobIds : Live(w.jobs[j]) => w.inflight = FlightOf(w.jobs[j])

LEMMA FreeSlotRunsNone ==
    ASSUME NEW w, WorkerOK(w), SlotOnly(w), w.inflight = None
    PROVE  NoneLive(w.jobs)
<1> SUFFICES ASSUME NEW j \in JobIds, Live(w.jobs[j])
             PROVE  FALSE
  BY DEF NoneLive
<1>1. w.jobs[j] \in Job
  BY LiveIsJob DEF WorkerOK, WorkerRecord
<1>2. FlightOf(w.jobs[j]) \in Flight
  BY <1>1 DEF FlightOf, Flight, Job
<1>3. FlightOf(w.jobs[j]) = None
  BY DEF SlotOnly
<1> QED
  BY <1>2, <1>3, NoneAssumption

(* A superseded analysis is of the very document that is started again.    *)
LEMMA SupersededFresh ==
    ASSUME NEW w, WorkerOK(w), SlotOnly(w), w.inflight # None,
           w.pending[w.inflight.uri] # None,
           NEW d \in Docs, NEW q, NEW shown, NEW doc, NEW r,
           FreshFor(w, q, shown, d, doc, r)
    PROVE  FreshFor(Superseded(w), q, shown, d, doc, r)
<1> DEFINE v == Superseded(w)
<1>1. /\ v.pending = w.pending
      /\ v.jobs = Cancel(w).jobs
      /\ v.out = Cancel(w).out
      /\ v.library = w.library
      /\ v.orphaned = w.orphaned
  <2> DEFINE u == Cancel(w)
  <2>1. WorkerOK(u) /\ u.pending = w.pending /\ u.library = w.library
    BY CancelOK, CancelFrame DEF SameButJobs
  <2>2. u.orphaned = w.orphaned
    BY DEF Cancel, WorkerOK, WorkerRecord
  <2>3. v = [u EXCEPT !.inflight = None]
    BY DEF Superseded
  <2> HIDE DEF u, v
  <2>4. /\ v.pending = u.pending /\ v.jobs = u.jobs /\ v.out = u.out
        /\ v.library = u.library /\ v.orphaned = u.orphaned
    BY <2>1, <2>3 DEF WorkerOK, WorkerRecord
  <2> QED
    BY <2>1, <2>2, <2>4 DEF u
<1>2. \A j \in JobIds :
        Live(w.jobs[j]) /\ w.jobs[j].uri = d => w.pending[d] # None
  <2> SUFFICES ASSUME NEW j \in JobIds, Live(w.jobs[j]), w.jobs[j].uri = d
               PROVE  w.inflight.uri = d
    OBVIOUS
  <2>1. w.inflight = FlightOf(w.jobs[j])
    BY DEF SlotOnly
  <2> QED
    BY <2>1 DEF FlightOf
<1> HIDE DEF v
<1>3. FreshFor(v, q, shown, d, doc, r)
  BY <1>1, <1>2, CancelFresh
<1> QED
  BY <1>3 DEF v

LEMMA TryDispatchFresh ==
    ASSUME NEW w, WorkerOK(w), FreeJob(w), SlotOnly(w),
           NEW x \in TryDispatch(w),
           NEW d \in Docs, NEW q, NEW shown, NEW doc, NEW r,
           FreshFor(w, q, shown, d, doc, r)
    PROVE  FreshFor(x, q, shown, d, doc, r)
<1>1. CASE x = w
  BY <1>1
<1>2. ASSUME NEW e \in Docs, w.inflight = None, w.pending[e] # None,
             x = Start(w, e)
      PROVE  FreshFor(x, q, shown, d, doc, r)
  BY <1>2, FreeSlotRunsNone, StartFresh
<1>3. ASSUME NEW e \in Docs, w.inflight # None, e = w.inflight.uri,
             w.pending[e] # None, x = Start(Superseded(w), e)
      PROVE  FreshFor(x, q, shown, d, doc, r)
  <2>1. /\ WorkerOK(Superseded(w)) /\ FreeJob(Superseded(w))
        /\ Superseded(w).pending = w.pending
        /\ NoneLive(Superseded(w).jobs)
    BY SupersededOK, CancelShrinks DEF FreeJob
  <2>2. FreshFor(Superseded(w), q, shown, d, doc, r)
    BY <1>3, SupersededFresh
  <2> QED
    BY <1>3, <2>1, <2>2, StartFresh
<1> QED
  BY <1>1, <1>2, <1>3, TryDispatchCases

LEMMA TryDispatchLibrary ==
    ASSUME NEW w, WorkerOK(w), FreeJob(w), SlotOnly(w), LibraryRead(w),
           NEW x \in TryDispatch(w)
    PROVE  LibraryRead(x)
<1>1. CASE x = w
  BY <1>1
<1>2. ASSUME NEW e \in Docs, w.inflight = None, w.pending[e] # None,
             x = Start(w, e)
      PROVE  LibraryRead(x)
  BY <1>2, FreeSlotRunsNone, StartLibrary
<1>3. ASSUME NEW e \in Docs, w.pending[e] # None, x = Start(Superseded(w), e)
      PROVE  LibraryRead(x)
  <2>1. /\ WorkerOK(Superseded(w)) /\ FreeJob(Superseded(w))
        /\ Superseded(w).pending = w.pending
        /\ NoneLive(Superseded(w).jobs)
    BY SupersededOK, CancelShrinks DEF FreeJob
  <2> QED
    BY <1>3, <2>1, StartLibrary
<1> QED
  BY <1>1, <1>2, <1>3, TryDispatchCases

(* Draining the channel queues what the last request for d wants.          *)
LEMMA CoalesceWanted ==
    ASSUME NEW p \in Request \cup {None}, NEW q \in Seq(Request),
           NEW d \in Docs, NEW doc, NEW r, doc.version \in Nat,
           p # None => p.version <= doc.version,
           \A i \in 1..Len(q) : q[i].uri = d => q[i].version <= doc.version,
           LastWins(q, d, doc, r), Asked(q, d)
    PROVE  Coalesce(p, q, d) # None /\ Wants(Coalesce(p, q, d), doc, r)
<1> DEFINE n == doc.version
           mine == {i \in 1..Len(q) : q[i].uri = d}
           best == Latest(p, q, d)
           l == Max(mine)
           first == q[Min(best)]
           kept == IF p # None /\ p.version = first.version THEN p ELSE first
<1>1. /\ Len(q) \in Nat
      /\ \A i \in 1..Len(q) : q[i] \in Request /\ q[i].version \in Nat
  <2>1. \A i \in 1..Len(q) : q[i] \in Request
    OBVIOUS
  <2> QED
    BY <2>1, BoundsAssumption DEF Request, Versions
<1>2. mine \in SUBSET (1..Len(q)) /\ mine # {}
  BY DEF Asked
<1>3. l \in mine /\ \A i \in mine : i <= l
  <2> HIDE DEF mine
  <2> QED
    BY <1>1, <1>2, MaxIsMember
<1>4. q[l].version = n /\ q[l].rules = r /\ l \in 1..Len(q) /\ q[l].uri = d
  <2>1. l \in 1..Len(q) /\ q[l].uri = d
    BY <1>3
  <2>2. \A k \in 1..Len(q) : k > l => q[k].uri # d
    BY <1>1, <1>3
  <2> HIDE DEF l
  <2> QED
    BY <2>1, <2>2 DEF LastWins, Wants
<1>5. l \in best
  <2> HIDE DEF l
  <2>1. \A k \in DOMAIN q : q[k].uri = d => q[k].version <= q[l].version
    BY <1>4
  <2>2. p # None => p.version <= q[l].version
    BY <1>4
  <2> QED
    BY <1>4, <2>1, <2>2 DEF Latest
<1>6. best \in SUBSET (1..Len(q)) /\ best \subseteq mine
  BY DEF Latest
<1>7. Max(best) \in best /\ (\A i \in best : i <= Max(best))
      /\ Min(best) \in best
  <2> HIDE DEF best, l
  <2> QED
    BY <1>1, <1>5, <1>6, MaxIsMember, MinIsMember
<1>8. Max(best) = l
  <2> HIDE DEF best, l, mine
  <2>1. Max(best) \in 1..Len(q) /\ l \in 1..Len(q)
    BY <1>4, <1>6, <1>7
  <2>2. Max(best) <= l /\ l <= Max(best)
    BY <1>3, <1>5, <1>6, <1>7
  <2> QED
    BY <2>1, <2>2
<1>9. first \in Request /\ first.version = n
  <2>1. /\ Min(best) \in 1..Len(q) /\ q[Min(best)].uri = d
        /\ q[l].version <= q[Min(best)].version
    BY <1>4, <1>7 DEF Latest
  <2> HIDE DEF best, l
  <2>2. /\ q[Min(best)].version <= n /\ n <= q[Min(best)].version
        /\ q[Min(best)].version \in Nat /\ n \in Nat
    BY <1>1, <1>4, <2>1
  <2> QED
    BY <1>1, <2>1, <2>2
<1>10. kept \in Request /\ kept.version = n
  <2> HIDE DEF first
  <2> QED
    BY <1>9
<1>11. Coalesce(p, q, d) = [kept EXCEPT !.rules = q[l].rules]
  BY <1>5, <1>8 DEF Coalesce
<1> HIDE DEF kept, first, best, l, mine
<1>12. r \in 0..MaxRules
  BY <1>1, <1>4 DEF Request
<1>13. Coalesce(p, q, d) = [kept EXCEPT !.rules = r]
  BY <1>4, <1>11
<1>14. /\ Coalesce(p, q, d) \in Request
       /\ Coalesce(p, q, d).version = n
       /\ Coalesce(p, q, d).rules = r
  BY <1>10, <1>12, <1>13 DEF Request
<1>15. Coalesce(p, q, d) # None
  BY <1>14, NoneAssumption
<1> QED
  BY <1>14, <1>15 DEF Wants

LEMMA DrainFresh ==
    ASSUME NEW w, WorkerOK(w), NEW q \in Seq(Request), NEW d \in Docs,
           NEW shown, NEW doc, NEW r, doc.version \in Nat,
           w.pending[d] # None => w.pending[d].version <= doc.version,
           \A i \in 1..Len(q) : q[i].uri = d => q[i].version <= doc.version,
           LastWins(q, d, doc, r), FreshFor(w, q, shown, d, doc, r)
    PROVE  FreshFor(Drain(w, q), <<>>, shown, d, doc, r)
<1>1. CASE q = <<>>
  BY <1>1 DEF Drain
<1>2. CASE q # <<>>
  <2> DEFINE x == Drain(w, q)
             pnd == [e \in Docs |-> Coalesce(w.pending[e], q, e)]
             act == q[Len(q)].uri
  <2>1. x = [w EXCEPT !.pending = pnd, !.active = act]
    BY <1>2 DEF Drain
  <2> HIDE DEF x, pnd, act
  <2>2. /\ x.pending = pnd /\ x.jobs = w.jobs /\ x.out = w.out
        /\ x.orphaned = w.orphaned /\ x.library = w.library
    BY <2>1 DEF WorkerOK, WorkerRecord
  <2>3. x.pending[d] = Coalesce(w.pending[d], q, d)
    BY <2>2 DEF pnd
  <2>4. CASE Asked(q, d)
    <3>1. w.pending[d] \in Request \cup {None}
      BY DEF WorkerOK, WorkerRecord
    <3>2. x.pending[d] # None /\ Wants(x.pending[d], doc, r)
      BY <2>3, <2>4, <3>1, CoalesceWanted
    <3>3. FreshFor(x, <<>>, shown, d, doc, r)
      BY <3>2 DEF FreshFor, QueueWanted, JobsWanted, Covered
    <3> QED
      BY <3>3 DEF x
  <2>5. CASE ~ Asked(q, d)
    <3>1. x.pending[d] = w.pending[d]
      BY <2>3, <2>5, CoalesceUnasked
    <3>2. QueueWanted(x, <<>>, d, doc, r)
      BY <2>5, <3>1 DEF FreshFor, QueueWanted
    <3>3. JobsWanted(x, <<>>, d, doc, r)
      BY <2>2, <2>5, <3>1 DEF FreshFor, JobsWanted
    <3>4. Covered(x, <<>>, shown, d, doc, r)
      BY <2>2, <2>5, <3>1 DEF FreshFor, Covered
    <3> QED
      BY <3>2, <3>3, <3>4 DEF FreshFor, x
  <2> QED
    BY <2>4, <2>5
<1> QED
  BY <1>1, <1>2

LEMMA SendRefreshFresh ==
    ASSUME NEW w, WorkerOK(w), NEW q, NEW shown, NEW d, NEW doc, NEW r,
           FreshFor(w, q, shown, d, doc, r)
    PROVE  FreshFor(SendRefresh(w), q, shown, d, doc, r)
<1> DEFINE v == SendRefresh(w)
<1>1. /\ v.pending = w.pending /\ v.jobs = w.jobs
      /\ v.orphaned = w.orphaned /\ v.library = w.library
      /\ v.out = Append(w.out, Refresh)
      /\ w.out \in Seq(Outbound)
  BY DEF SendRefresh, WorkerOK, WorkerRecord
<1> HIDE DEF v
<1>2. FreshFor(v, q, shown, d, doc, r)
  BY <1>1, RefreshIsFresh DEF FreshFor
<1> QED
  BY <1>2 DEF v

(* What on_sync drops is orphaned, and so is what its write cancels.       *)
LEMMA DropQueuedFresh ==
    ASSUME NEW w, WorkerOK(w), NEW e \in Docs, NEW d \in Docs, NEW q,
           NEW shown, NEW doc, NEW r, FreshFor(w, q, shown, d, doc, r)
    PROVE  FreshFor(DropQueued(w, e), q, shown, d, doc, r)
<1>1. CASE w.pending[e] = None
  BY <1>1 DEF DropQueued
<1>2. CASE w.pending[e] # None
  <2> DEFINE v == DropQueued(w, e)
  <2>1. /\ v.pending = [w.pending EXCEPT ![e] = None]
        /\ v.orphaned = w.orphaned \cup {e}
        /\ v.jobs = w.jobs /\ v.out = w.out /\ v.library = w.library
    BY <1>2 DEF DropQueued, WorkerOK, WorkerRecord
  <2>2. w.pending \in [Docs -> Request \cup {None}]
    BY DEF WorkerOK, WorkerRecord
  <2> HIDE DEF v
  <2>3. CASE d = e
    <3>1. v.pending[d] = None /\ d \in v.orphaned
      BY <2>1, <2>2, <2>3
    <3>2. FreshFor(v, q, shown, d, doc, r)
      BY <3>1 DEF FreshFor, QueueWanted, JobsWanted, Covered
    <3> QED
      BY <3>2 DEF v
  <2>4. CASE d # e
    <3>1. /\ v.pending[d] = w.pending[d]
          /\ d \in v.orphaned <=> d \in w.orphaned
      BY <2>1, <2>2, <2>4
    <3>2. FreshFor(v, q, shown, d, doc, r)
      BY <2>1, <3>1 DEF FreshFor, QueueWanted, JobsWanted, Covered
    <3> QED
      BY <3>2 DEF v
  <2> QED
    BY <2>3, <2>4
<1> QED
  BY <1>1, <1>2

LEMMA RevertFresh ==
    ASSUME NEW w, WorkerOK(w), NEW e \in Docs, disk \in [Docs -> Texts],
           NEW d \in Docs, NEW q, NEW shown, NEW doc, NEW r,
           FreshFor(w, q, shown, d, doc, r)
    PROVE  FreshFor(Revert(w, e), q, shown, d, doc, r)
<1> DEFINE u == Upsert(w, e, disk[e])
           cut == {w.jobs[j].uri : j \in {i \in JobIds : Live(w.jobs[i])}}
           v == [u EXCEPT !.orphaned = @ \cup cut]
<1>1. disk[e] \in Texts /\ WorkerOK(u)
  BY UpsertOK
<1>2. /\ u.tracked = [w.tracked EXCEPT ![e] = disk[e]]
      /\ u.orphaned = w.orphaned
      /\ \/ u.jobs = w.jobs /\ u.out = w.out
         \/ u.jobs = Cancel(w).jobs /\ u.out = Cancel(w).out
  BY <1>1, UpsertEffect
<1>3. u.pending = w.pending /\ u.library = w.library
  BY <1>1, UpsertFrame DEF SameButJobs
<1>4. Revert(w, e) \in {w, v}
  BY DEF Revert
<1> HIDE DEF u
<1>5. \A j \in JobIds : Live(w.jobs[j]) => w.jobs[j].uri \in cut
  OBVIOUS
<1> HIDE DEF cut
<1>6. /\ v.pending = u.pending /\ v.jobs = u.jobs /\ v.out = u.out
      /\ v.library = u.library /\ v.orphaned = u.orphaned \cup cut
  BY <1>1 DEF WorkerOK, WorkerRecord
<1> HIDE DEF v
<1>7. FreshFor(v, q, shown, d, doc, r)
  <2>1. w.orphaned \subseteq v.orphaned
    BY <1>2, <1>6
  <2>2. CASE u.jobs = w.jobs /\ u.out = w.out
    <3>1. SameFindings(v, w)
      BY <1>3, <1>6, <2>2 DEF SameFindings
    <3> QED
      BY <2>1, <3>1, SameFindingsFresh
  <2>3. CASE u.jobs = Cancel(w).jobs /\ u.out = Cancel(w).out
    <3>1. \A j \in JobIds :
            Live(w.jobs[j]) /\ w.jobs[j].uri = d => d \in v.orphaned
      BY <1>5, <1>6
    <3>2. /\ v.pending = w.pending /\ v.jobs = Cancel(w).jobs
          /\ v.out = Cancel(w).out /\ v.library = w.library
      BY <1>3, <1>6, <2>3
    <3> QED
      BY <2>1, <3>1, <3>2, CancelFresh
  <2> QED
    BY <1>2, <2>2, <2>3
<1> QED
  BY <1>4, <1>7

LEMMA OnSyncFresh ==
    ASSUME NEW w, WorkerOK(w), NEW e \in Docs, disk \in [Docs -> Texts],
           NEW d \in Docs, NEW q, NEW shown, NEW doc, NEW r,
           FreshFor(w, q, shown, d, doc, r)
    PROVE  FreshFor(OnSync(w, e), q, shown, d, doc, r)
<1> DEFINE v == DropQueued(w, e)
           u == Revert(v, e)
           f == [u EXCEPT !.projections[e] = None]
<1>1. WorkerOK(v) /\ WorkerOK(u)
  BY DropQueuedOK, RevertOK
<1>2. FreshFor(v, q, shown, d, doc, r)
  BY DropQueuedFresh
<1> HIDE DEF v
<1>3. FreshFor(u, q, shown, d, doc, r)
  BY <1>1, <1>2, RevertFresh
<1>4. OnSync(w, e) = ForgetProjection(u, e)
  BY DEF OnSync, v
<1> HIDE DEF u
<1>5. WorkerOK(f) /\ SameFindings(f, u) /\ f.orphaned = u.orphaned
  BY <1>1 DEF WorkerOK, WorkerRecord, SameFindings
<1> HIDE DEF f
<1>6. FreshFor(f, q, shown, d, doc, r)
  BY <1>3, <1>5, SameFindingsFresh
<1>7. FreshFor(SendRefresh(f), q, shown, d, doc, r)
  BY <1>5, <1>6, SendRefreshFresh
<1> QED
  BY <1>3, <1>4, <1>7 DEF ForgetProjection, f

LEMMA OnDoneFresh ==
    ASSUME NEW w, WorkerOK(w), NEW job \in AnalyzeDone,
           NEW d \in Docs, NEW q, NEW shown, NEW doc, NEW r,
           FreshFor(w, q, shown, d, doc, r)
    PROVE  FreshFor(OnDone(w, job), q, shown, d, doc, r)
<1> DEFINE v == [w EXCEPT !.inflight = None]
           f == [v EXCEPT !.projections[job.uri] = job.projection]
<1>1. WorkerOK(v) /\ SameFindings(v, w) /\ v.orphaned = w.orphaned
  BY DEF WorkerOK, WorkerRecord, SameFindings
<1>2. job.uri \in Docs /\ job.projection \in Projections \cup {None}
  BY DEF AnalyzeDone
<1> HIDE DEF v
<1>3. FreshFor(v, q, shown, d, doc, r)
  BY <1>1, SameFindingsFresh
<1>4. WorkerOK(f) /\ SameFindings(f, v) /\ f.orphaned = v.orphaned
  BY <1>1, <1>2 DEF WorkerOK, WorkerRecord, SameFindings
<1> HIDE DEF f
<1>5. FreshFor(f, q, shown, d, doc, r)
  BY <1>3, <1>4, SameFindingsFresh
<1>6. FreshFor(SendRefresh(f), q, shown, d, doc, r)
  BY <1>4, <1>5, SendRefreshFresh
<1>7. OnDone(w, job) \in {w, v, SendRefresh(f)}
  BY DEF OnDone, RecordProjection, v, f
<1> QED
  BY <1>3, <1>6, <1>7

-----------------------------------------------------------------------------
(* Every step keeps the findings fresh.                                    *)

LEMMA FreshNext ==
    ASSUME NEW x, x.pending = pending', x.jobs = jobs', x.out = out_rx',
           x.library = library', x.orphaned = orphaned',
           FreshIn(x, analysis_rx', documents', parse_diags', rules')
    PROVE  FreshInv'
<1>1. /\ State'.pending = x.pending /\ State'.jobs = x.jobs
      /\ State'.out = x.out /\ State'.library = x.library
      /\ State'.orphaned = x.orphaned
  BY DEF State, Worker
<1> DEFINE s == State'
           q == analysis_rx'
           docs == documents'
           shown == parse_diags'
           r == rules'
<1>2. SameFindings(s, x) /\ s.orphaned = x.orphaned
  BY <1>1 DEF SameFindings
<1>3. FreshIn(x, q, docs, shown, r)
  OBVIOUS
<1> HIDE DEF s, q, docs, shown, r
<1>4. LibraryRead(s)
  BY <1>2, <1>3 DEF FreshIn, LibraryRead, SameFindings
<1>5. ASSUME NEW d \in Docs, docs[d] # None
      PROVE  /\ LastWins(q, d, docs[d], r)
             /\ FreshFor(s, q, shown[d], d, docs[d], r)
  BY <1>2, <1>3, <1>5, SameFindingsFresh DEF FreshIn
<1>6. FreshIn(s, q, docs, shown, r)
  BY <1>4, <1>5 DEF FreshIn
<1> QED
  BY <1>6 DEF FreshInv, s, q, docs, shown, r

LEMMA DispatchesFresh ==
    ASSUME NEW w, Dispatches(w), SlotOnly(w), UNCHANGED mainVars,
           FreshIn(w, analysis_rx', documents, parse_diags, rules)
    PROVE  FreshInv'
<1>1. PICK x \in TryDispatch(w) : Commit(x)
  BY DEF Dispatches
<1> DEFINE q == analysis_rx'
<1>2. FreshIn(w, q, documents, parse_diags, rules)
  OBVIOUS
<1> HIDE DEF q
<1>3. LibraryRead(x)
  BY <1>1, <1>2, TryDispatchLibrary DEF Dispatches, FreshIn
<1>4. ASSUME NEW d \in Docs, documents[d] # None
      PROVE  FreshFor(x, q, parse_diags[d], d, documents[d], rules)
  BY <1>1, <1>2, <1>4, TryDispatchFresh DEF Dispatches, FreshIn
<1>5. FreshIn(x, q, documents, parse_diags, rules)
  BY <1>2, <1>3, <1>4 DEF FreshIn
<1>6. /\ x.pending = pending' /\ x.jobs = jobs' /\ x.out = out_rx'
      /\ x.library = library' /\ x.orphaned = orphaned'
  BY <1>1 DEF Commit
<1>7. FreshIn(x, analysis_rx', documents', parse_diags', rules')
  BY <1>5 DEF mainVars, q
<1> QED
  BY <1>6, <1>7, FreshNext

(* FreshFor grows with the requests on their way.                          *)
LEMMA MoreAskedFresh ==
    ASSUME NEW w, NEW p, NEW q, NEW shown, NEW d, NEW doc, NEW r,
           Asked(p, d) => Asked(q, d), FreshFor(w, p, shown, d, doc, r)
    PROVE  FreshFor(w, q, shown, d, doc, r)
BY DEF FreshFor, QueueWanted, JobsWanted, Covered

LEMMA LastWinsAppend ==
    ASSUME NEW p \in Seq(Request), NEW req, NEW d, NEW doc, NEW r,
           IF req.uri = d THEN Wants(req, doc, r) ELSE LastWins(p, d, doc, r)
    PROVE  LastWins(Append(p, req), d, doc, r)
<1> DEFINE q == Append(p, req)
<1>1. /\ Len(q) = Len(p) + 1 /\ Len(p) \in Nat
      /\ q[Len(p) + 1] = req
      /\ \A i \in 1..Len(p) : q[i] = p[i]
  OBVIOUS
<1> HIDE DEF q
<1>2. ASSUME NEW i \in 1..Len(q), q[i].uri = d,
             \A k \in 1..Len(q) : k > i => q[k].uri # d
      PROVE  Wants(q[i], doc, r)
  <2>1. CASE req.uri = d
    <3>1. i = Len(p) + 1
      BY <1>1, <1>2, <2>1
    <3> QED
      BY <1>1, <2>1, <3>1
  <2>2. CASE req.uri # d
    <3>1. i \in 1..Len(p)
      BY <1>1, <1>2, <2>2
    <3>2. p[i].uri = d /\ \A k \in 1..Len(p) : k > i => p[k].uri # d
      BY <1>1, <1>2, <3>1
    <3>3. Wants(p[i], doc, r)
      BY <2>2, <3>1, <3>2 DEF LastWins
    <3> QED
      BY <1>1, <3>1, <3>3
  <2> QED
    BY <2>1, <2>2
<1>3. LastWins(q, d, doc, r)
  BY <1>2 DEF LastWins
<1> QED
  BY <1>3 DEF q

LEMMA LastWinsConcat ==
    ASSUME NEW p \in Seq(Request), NEW t \in Seq(Request), NEW d, NEW doc,
           NEW r, Asked(t, d),
           \A i \in 1..Len(t) : t[i].uri = d => Wants(t[i], doc, r)
    PROVE  LastWins(p \o t, d, doc, r)
<1> DEFINE q == p \o t
<1>1. /\ Len(q) = Len(p) + Len(t) /\ Len(p) \in Nat /\ Len(t) \in Nat
      /\ \A i \in 1..Len(t) : q[Len(p) + i] = t[i]
  OBVIOUS
<1> HIDE DEF q
<1>2. PICK m \in 1..Len(t) : t[m].uri = d
  BY DEF Asked
<1>3. ASSUME NEW i \in 1..Len(q), q[i].uri = d,
             \A k \in 1..Len(q) : k > i => q[k].uri # d
      PROVE  Wants(q[i], doc, r)
  <2>1. Len(p) + m \in 1..Len(q) /\ q[Len(p) + m].uri = d
    BY <1>1, <1>2
  <2>2. i >= Len(p) + m
    BY <1>1, <1>2, <1>3, <2>1
  <2>3. i - Len(p) \in 1..Len(t) /\ i = Len(p) + (i - Len(p))
    BY <1>1, <2>2
  <2>4. q[i] = t[i - Len(p)]
    BY <1>1, <2>3
  <2> QED
    BY <1>3, <2>3, <2>4
<1>4. LastWins(q, d, doc, r)
  BY <1>3 DEF LastWins
<1> QED
  BY <1>4 DEF q

LEMMA EditFresh ==
    ASSUME TypeInv, FreshInv, NEW d \in Docs, NEW doc \in Document,
           SetDocument(d, doc)
    PROVE  FreshInv'
<1> DEFINE q == analysis_rx'
           docs == documents'
           req == RequestFor(d, doc, rules)
<1>1. /\ q = Append(analysis_rx, req)
      /\ docs = [documents EXCEPT ![d] = doc]
      /\ UNCHANGED <<pending, jobs, out_rx, library, orphaned, parse_diags,
                     rules>>
  BY DEF SetDocument, workerVars
<1>2. /\ analysis_rx \in Seq(Request)
      /\ documents \in [Docs -> Document \cup {None}]
  BY DEF TypeInv, TypeOK
<1>3. req.uri = d /\ Wants(req, doc, rules)
  BY DEF RequestFor, Wants
<1> HIDE DEF req, q, docs
<1>4. ASSUME NEW e \in Docs, docs[e] # None
      PROVE  /\ LastWins(q, e, docs[e], rules)
             /\ FreshFor(State, q, parse_diags[e], e, docs[e], rules)
  <2>1. CASE e = d
    <3>1. docs[e] = doc /\ Asked(q, e)
      BY <1>1, <1>2, <1>3, <2>1, AskedInAppend
    <3>2. LastWins(q, e, doc, rules)
      BY <1>1, <1>2, <1>3, <2>1, LastWinsAppend
    <3> QED
      BY <3>1, <3>2, AskedIsFresh
  <2>2. CASE e # d
    <3>1. docs[e] = documents[e]
      BY <1>1, <1>2, <2>2
    <3>2. /\ LastWins(analysis_rx, e, documents[e], rules)
          /\ FreshFor(State, analysis_rx, parse_diags[e], e, documents[e],
                      rules)
      BY <1>4, <3>1 DEF FreshInv, FreshIn
    <3>3. Asked(analysis_rx, e) => Asked(q, e)
      BY <1>1, <1>2, AskedInAppend
    <3>4. LastWins(q, e, documents[e], rules)
      BY <1>1, <1>2, <1>3, <2>2, <3>2, LastWinsAppend
    <3> QED
      BY <3>1, <3>2, <3>3, <3>4, MoreAskedFresh
  <2> QED
    BY <2>1, <2>2
<1>5. FreshIn(State, q, docs, parse_diags, rules)
  BY <1>4 DEF FreshInv, FreshIn
<1>6. FreshIn(State, analysis_rx', documents', parse_diags', rules')
  BY <1>1, <1>5 DEF q, docs
<1>7. /\ State.pending = pending' /\ State.jobs = jobs'
      /\ State.out = out_rx' /\ State.library = library'
      /\ State.orphaned = orphaned'
  BY <1>1 DEF State, Worker
<1> QED
  BY <1>6, <1>7, FreshNext

LEMMA CloseFresh ==
    ASSUME TypeInv, FreshInv, NEW d \in Docs, DidClose(d)
    PROVE  FreshInv'
<1> DEFINE docs == documents'
           shown == parse_diags'
<1>1. /\ docs = [documents EXCEPT ![d] = None]
      /\ shown = [parse_diags EXCEPT ![d] = None]
      /\ UNCHANGED <<pending, jobs, out_rx, library, orphaned, analysis_rx,
                     rules>>
  BY DEF DidClose, workerVars
<1>2. /\ parse_diags \in [Docs -> Diags \cup {None}]
      /\ documents \in [Docs -> Document \cup {None}]
  BY DEF TypeInv, TypeOK
<1> HIDE DEF docs, shown
<1>3. \A e \in Docs : docs[e] # None =>
        docs[e] = documents[e] /\ shown[e] = parse_diags[e]
  BY <1>1, <1>2
<1>4. FreshIn(State, analysis_rx, docs, shown, rules)
  BY <1>3 DEF FreshInv, FreshIn
<1>5. FreshIn(State, analysis_rx', documents', parse_diags', rules')
  BY <1>1, <1>4 DEF docs, shown
<1>6. /\ State.pending = pending' /\ State.jobs = jobs'
      /\ State.out = out_rx' /\ State.library = library'
      /\ State.orphaned = orphaned'
  BY <1>1 DEF State, Worker
<1> QED
  BY <1>5, <1>6, FreshNext

LEMMA SendAllFresh ==
    ASSUME TypeInv, FreshInv, DidChangeConfiguration \/ OnDiagnosticsRefresh
    PROVE  FreshInv'
<1>1. /\ UNCHANGED <<pending, jobs, library, orphaned, documents,
                     parse_diags>>
      /\ rules' \in 0..MaxRules
      /\ SendAll(OpenDocs, rules')
      /\ out_rx' \in {out_rx, Tail(out_rx)}
  <2>1. rules \in Nat /\ rules <= MaxRules /\ MaxRules \in Nat
    BY BoundsAssumption DEF TypeInv, TypeOK
  <2>2. CASE DidChangeConfiguration
    BY <2>1, <2>2 DEF DidChangeConfiguration, workerVars, clientVars
  <2>3. CASE OnDiagnosticsRefresh
    BY <2>1, <2>3 DEF OnDiagnosticsRefresh, mainVars, workerVars, clientVars
  <2> QED
    BY <2>2, <2>3
<1> DEFINE r == rules'
           q == analysis_rx'
           x == [State EXCEPT !.out = out_rx']
<1>2. PICK sent \in Seq(Request) :
        /\ q = analysis_rx \o sent
        /\ \A i \in 1..Len(sent) : \E d \in OpenDocs :
             sent[i] = RequestFor(d, documents[d], r)
        /\ \A d \in OpenDocs : Asked(sent, d)
  BY <1>1, SendAllEffect
<1>3. /\ x.pending = pending' /\ x.jobs = jobs' /\ x.out = out_rx'
      /\ x.library = library' /\ x.orphaned = orphaned'
  BY <1>1 DEF State, Worker
<1>4. x.jobs = State.jobs /\ x.library = State.library
  BY DEF State, Worker
<1> HIDE DEF q, r, x
<1>5. analysis_rx \in Seq(Request)
  BY DEF TypeInv, TypeOK
<1>6. ASSUME NEW e \in Docs, documents[e] # None
      PROVE  /\ LastWins(q, e, documents[e], r)
             /\ FreshFor(x, q, parse_diags[e], e, documents[e], r)
  <2>1. Asked(sent, e)
    BY <1>2, <1>6 DEF OpenDocs
  <2>2. Asked(q, e)
    BY <1>2, <1>5, <2>1, AskedInConcat
  <2>3. ASSUME NEW i \in 1..Len(sent), sent[i].uri = e
        PROVE  Wants(sent[i], documents[e], r)
    <3>1. PICK d \in OpenDocs : sent[i] = RequestFor(d, documents[d], r)
      BY <1>2
    <3>2. d = e
      BY <2>3, <3>1 DEF RequestFor
    <3> QED
      BY <3>1, <3>2 DEF RequestFor, Wants
  <2>4. LastWins(analysis_rx \o sent, e, documents[e], r)
    BY <1>5, <2>1, <2>3, LastWinsConcat
  <2> QED
    BY <1>2, <2>2, <2>4, AskedIsFresh
<1>7. LibraryRead(x)
  BY <1>4 DEF FreshInv, FreshIn, LibraryRead
<1>8. FreshIn(x, q, documents, parse_diags, r)
  BY <1>6, <1>7 DEF FreshIn
<1>9. FreshIn(x, analysis_rx', documents', parse_diags', rules')
  BY <1>1, <1>8 DEF q, r
<1> QED
  BY <1>3, <1>9, FreshNext

(* Taking the next message: an accepted report becomes what is shown.      *)
LEMMA TailReported ==
    ASSUME NEW s \in Seq(Outbound), s # <<>>, NEW d, NEW doc, NEW shown,
           NEW r, NEW lib, Reported(s, shown, d, doc, r, lib), NEW next,
           IF /\ Head(s).kind = "diagnostics"
              /\ Head(s).uri = d
              /\ Head(s).version = doc.version
           THEN next = Head(s).diags ELSE next = shown
    PROVE  Reported(Tail(s), next, d, doc, r, lib)
<1> DEFINE n == doc.version
           t == Tail(s)
<1>1. /\ Len(t) = Len(s) - 1 /\ Len(s) \in Nat /\ Len(s) >= 1
      /\ \A i \in 1..Len(t) : t[i] = s[i + 1]
      /\ Head(s) = s[1]
  OBVIOUS
<1> HIDE DEF t
<1>2. ASSUME NEW i \in 1..Len(t), s[i + 1] = t[i]
      PROVE  i \in About(t, d, n) <=> i + 1 \in About(s, d, n)
  BY <1>1, <1>2 DEF About
<1>3. About(s, d, n) \subseteq 1..Len(s) /\ About(t, d, n) \subseteq 1..Len(t)
  BY DEF About
<1>4. ASSUME About(s, d, n) = {}, Good(shown, doc, r, lib)
      PROVE  Reported(t, next, d, doc, r, lib)
  <2>1. About(t, d, n) = {}
    BY <1>1, <1>2, <1>3, <1>4
  <2>2. 1 \notin About(s, d, n) /\ 1 \in 1..Len(s)
    BY <1>1, <1>4
  <2>3. next = shown
    BY <1>1, <2>2 DEF About
  <2> QED
    BY <1>4, <2>1, <2>3 DEF Reported
<1>5. ASSUME NEW i \in About(s, d, n), Good(s[i].diags, doc, r, lib),
             \A k \in About(s, d, n) : k <= i
      PROVE  Reported(t, next, d, doc, r, lib)
  <2>1. CASE i = 1
    <3>1. About(t, d, n) = {}
      <4> SUFFICES ASSUME NEW k \in About(t, d, n) PROVE FALSE
        OBVIOUS
      <4>1. k \in 1..Len(t) /\ k + 1 \in About(s, d, n)
        BY <1>1, <1>2, <1>3
      <4> QED
        BY <1>5, <2>1, <4>1
    <3>2. next = s[1].diags
      BY <1>1, <1>5, <2>1 DEF About
    <3> QED
      BY <1>5, <2>1, <3>1, <3>2 DEF Reported
  <2>2. CASE i # 1
    <3> DEFINE k == i - 1
    <3>1. k \in 1..Len(t) /\ k + 1 = i
      BY <1>1, <1>3, <1>5, <2>2
    <3> HIDE DEF k
    <3>2. k \in About(t, d, n) /\ t[k] = s[i]
      BY <1>1, <1>2, <1>5, <3>1
    <3>3. \A m \in About(t, d, n) : m <= k
      <4> TAKE m \in About(t, d, n)
      <4>1. m \in 1..Len(t) /\ m + 1 \in About(s, d, n)
        BY <1>1, <1>2, <1>3
      <4> QED
        BY <1>1, <1>5, <3>1, <4>1
    <3>4. Good(t[k].diags, doc, r, lib)
      BY <1>5, <3>2
    <3> QED
      BY <3>2, <3>3, <3>4 DEF Reported
  <2> QED
    BY <2>1, <2>2
<1>6. Reported(t, next, d, doc, r, lib)
  BY <1>4, <1>5 DEF Reported
<1> QED
  BY <1>6 DEF t

LEMMA DiagnosticsFresh ==
    ASSUME TypeInv, FreshInv, OnDiagnostics
    PROVE  FreshInv'
<1> DEFINE shown == parse_diags'
           report == Head(out_rx)
           t == Tail(out_rx)
           x == [State EXCEPT !.out = t]
<1>1. /\ UNCHANGED <<pending, jobs, library, orphaned, documents, rules,
                     analysis_rx>>
      /\ out_rx # <<>> /\ out_rx' = t
      /\ report.kind = "diagnostics"
      /\ shown = IF Accept(report)
                 THEN [parse_diags EXCEPT ![report.uri] = report.diags]
                 ELSE parse_diags
  BY DEF OnDiagnostics, workerVars
<1>2. /\ out_rx \in Seq(Outbound)
      /\ parse_diags \in [Docs -> Diags \cup {None}]
  BY DEF TypeInv, TypeOK, Outbound
<1>3. /\ x.pending = State.pending /\ x.jobs = State.jobs /\ x.out = t
      /\ x.library = State.library /\ x.orphaned = State.orphaned
      /\ State.pending = pending /\ State.jobs = jobs
      /\ State.library = library /\ State.orphaned = orphaned
      /\ State.out = out_rx
  BY DEF State, Worker
<1>4. /\ Len(t) = Len(out_rx) - 1 /\ Len(out_rx) \in Nat
      /\ \A i \in 1..Len(t) : t[i] = out_rx[i + 1]
      /\ report = out_rx[1]
  BY <1>1, <1>2
<1> HIDE DEF x, shown
<1>5. RefreshSent(out_rx) => RefreshSent(t)
  <2> SUFFICES ASSUME NEW i \in 1..Len(out_rx), out_rx[i].kind = "refresh"
               PROVE  RefreshSent(t)
    BY DEF RefreshSent
  <2>1. i # 1
    BY <1>1, <1>4
  <2>2. i - 1 \in 1..Len(t) /\ t[i - 1] = out_rx[i]
    BY <1>4, <2>1
  <2> QED
    BY <2>2 DEF RefreshSent
<1> HIDE DEF t
<1>6. ASSUME NEW e \in Docs, documents[e] # None
      PROVE  /\ LastWins(analysis_rx, e, documents[e], rules)
             /\ FreshFor(x, analysis_rx, shown[e], e, documents[e], rules)
  <2>1. /\ LastWins(analysis_rx, e, documents[e], rules)
        /\ FreshFor(State, analysis_rx, parse_diags[e], e, documents[e],
                    rules)
    BY <1>6 DEF FreshInv, FreshIn
  <2>2. IF /\ report.kind = "diagnostics"
           /\ report.uri = e
           /\ report.version = documents[e].version
        THEN shown[e] = report.diags ELSE shown[e] = parse_diags[e]
    BY <1>1, <1>2, <1>6 DEF Accept
  <2>3. Reported(out_rx, parse_diags[e], e, documents[e], rules, library)
          => Reported(t, shown[e], e, documents[e], rules, library)
    BY <1>1, <1>2, <2>2, TailReported DEF t
  <2>4. Covered(x, analysis_rx, shown[e], e, documents[e], rules)
    BY <1>3, <1>5, <2>1, <2>3 DEF FreshFor, Covered
  <2>5. /\ QueueWanted(x, analysis_rx, e, documents[e], rules)
        /\ JobsWanted(x, analysis_rx, e, documents[e], rules)
    BY <1>3, <2>1 DEF FreshFor, QueueWanted, JobsWanted
  <2> QED
    BY <2>1, <2>4, <2>5 DEF FreshFor
<1>7. LibraryRead(x)
  BY <1>3 DEF FreshInv, FreshIn, LibraryRead
<1>8. FreshIn(x, analysis_rx, documents, shown, rules)
  BY <1>6, <1>7 DEF FreshIn
<1>9. FreshIn(x, analysis_rx', documents', parse_diags', rules')
  BY <1>1, <1>8 DEF shown
<1>10. /\ x.pending = pending' /\ x.jobs = jobs' /\ x.out = out_rx'
       /\ x.library = library' /\ x.orphaned = orphaned'
  BY <1>1, <1>3
<1> QED
  BY <1>9, <1>10, FreshNext

(* An analysis reports before it signals that it is done.                  *)
LEMMA FinishFresh ==
    ASSUME TypeInv, AgreeInv, FreshInv, NEW j \in JobIds, JobFinish(j)
    PROVE  FreshInv'
<1> DEFINE job == jobs[j]
           done == DoneOf(job, job.projection)
           report == ReportOf(job, job.world)
           js == [jobs EXCEPT ![j] = done]
           out == Append(out_rx, report)
           x == [State EXCEPT !.jobs = js, !.out = out]
<1>1. /\ Live(job) /\ jobs' = js /\ out_rx' = out
      /\ UNCHANGED <<pending, library, orphaned, documents, rules,
                     analysis_rx, parse_diags>>
  BY DEF JobFinish, workerVars, mainVars
<1>2. /\ x.pending = State.pending /\ x.jobs = js /\ x.out = out
      /\ x.library = State.library /\ x.orphaned = State.orphaned
      /\ State.pending = pending /\ State.jobs = jobs
      /\ State.library = library /\ State.orphaned = orphaned
      /\ State.out = out_rx
  BY DEF State, Worker
<1>3. /\ out_rx \in Seq(Outbound)
      /\ jobs \in [JobIds -> JobSlots]
  BY DEF TypeInv, TypeOK, Outbound, JobSlots
<1>4. job \in Job
  BY <1>1, <1>3, LiveIsJob
<1>5. report \in Outbound
  BY <1>4, ReportType DEF Outbound, Job
<1>6. ~ Live(done)
  BY DEF Live, DoneOf
<1>7. /\ report.kind = "diagnostics" /\ report.uri = job.uri
      /\ report.version = job.version /\ report.diags.text = job.text
      /\ report.diags.rules = job.rules /\ report.diags.world = job.world
      /\ report.diags # None
  <2>1. /\ report.kind = "diagnostics" /\ report.uri = job.uri
        /\ report.version = job.version
        /\ report.diags = [text |-> job.text, rules |-> job.rules,
                           world |-> job.world]
    BY DEF ReportOf
  <2>2. report.diags \in Diags
    BY <1>4, <2>1 DEF Diags, Job
  <2> QED
    BY <2>1, <2>2, NoneAssumption
<1>8. job.world # None /\ job.world.library = library
  <2>1. job.world.library = library
    BY <1>1, <1>2 DEF FreshInv, FreshIn, LibraryRead
  <2> QED
    BY <1>4, <2>1, NoneAssumption DEF Job
<1> HIDE DEF x, done, report
<1>9. \A k \in JobIds : k # j => js[k] = jobs[k]
  BY <1>3
<1>10. js[j] = done
  BY <1>3
<1> HIDE DEF js
<1>11. /\ Len(out) = Len(out_rx) + 1 /\ Len(out_rx) \in Nat
       /\ out[Len(out)] = report
       /\ \A i \in 1..Len(out_rx) : out[i] = out_rx[i]
       /\ out = out_rx \o <<report>>
  BY <1>3, <1>5
<1> HIDE DEF out
<1>12. RefreshSent(out_rx) => RefreshSent(out)
  BY <1>11 DEF RefreshSent
<1>13. ASSUME NEW e \in Docs, documents[e] # None
       PROVE  /\ LastWins(analysis_rx, e, documents[e], rules)
              /\ FreshFor(x, analysis_rx, parse_diags[e], e, documents[e],
                          rules)
  <2> DEFINE doc == documents[e]
             n == doc.version
             shown == parse_diags[e]
  <2>1. /\ LastWins(analysis_rx, e, doc, rules)
        /\ QueueWanted(State, analysis_rx, e, doc, rules)
        /\ JobsWanted(State, analysis_rx, e, doc, rules)
        /\ Covered(State, analysis_rx, shown, e, doc, rules)
    BY <1>13 DEF FreshInv, FreshIn, FreshFor
  <2>2. QueueWanted(x, analysis_rx, e, doc, rules)
    BY <1>2, <2>1 DEF QueueWanted
  <2>3. JobsWanted(x, analysis_rx, e, doc, rules)
    BY <1>2, <1>6, <1>9, <1>10, <2>1 DEF JobsWanted
  <2>4. job.uri = e /\ job.version = n => job.text = doc.text
    BY <1>1, <1>13 DEF AgreeInv, JobsAgree, Agrees, AgreesIn
  <2>5. ASSUME job.uri = e, job.version = n, job.rules = rules
        PROVE  Reported(out, shown, e, doc, rules, library)
    <3>1. Good(report.diags, doc, rules, library)
      BY <1>7, <1>8, <2>4, <2>5 DEF Good
    <3>2. Len(out) \in About(out, e, n)
      BY <1>7, <1>11, <2>5 DEF About
    <3>3. \A k \in About(out, e, n) : k <= Len(out)
      BY <1>11 DEF About
    <3> QED
      BY <1>11, <3>1, <3>2, <3>3 DEF Reported
  <2>6. Covered(x, analysis_rx, shown, e, doc, rules)
    <3>1. CASE job.uri = e /\ job.version = n
      <4>1. \/ Asked(analysis_rx, e)
            \/ State.pending[e] # None
            \/ e \in State.orphaned
            \/ job.rules = rules
        BY <1>1, <1>2, <2>1, <3>1 DEF JobsWanted
      <4> QED
        BY <1>2, <2>5, <3>1, <4>1 DEF Covered
    <3>2. CASE ~ (job.uri = e /\ job.version = n)
      <4>1. Analysing(jobs, e, doc, rules) => Analysing(js, e, doc, rules)
        BY <1>9, <3>2 DEF Analysing, Wants
      <4>2. Reported(out_rx, shown, e, doc, rules, library)
              => Reported(out, shown, e, doc, rules, library)
        <5>1. <<report>> \in Seq(Outbound) /\ Len(<<report>>) = 1
              /\ <<report>>[1] = report
          BY <1>5
        <5>2. Elsewhere(<<report>>, e, doc.version)
          BY <1>7, <3>2, <5>1 DEF Elsewhere
        <5> QED
          BY <1>3, <1>11, <5>1, <5>2, OtherReportsReported
      <4> QED
        BY <1>2, <1>12, <2>1, <4>1, <4>2 DEF Covered
    <3> QED
      BY <3>1, <3>2
  <2> QED
    BY <2>1, <2>2, <2>3, <2>6 DEF FreshFor
<1>14. LibraryRead(x)
  BY <1>2, <1>6, <1>9, <1>10 DEF FreshInv, FreshIn, LibraryRead
<1>15. FreshIn(x, analysis_rx, documents, parse_diags, rules)
  BY <1>13, <1>14 DEF FreshIn
<1>16. FreshIn(x, analysis_rx', documents', parse_diags', rules')
  BY <1>1, <1>15
<1>17. /\ x.pending = pending' /\ x.jobs = jobs' /\ x.out = out_rx'
       /\ x.library = library' /\ x.orphaned = orphaned'
  BY <1>1, <1>2
<1> QED
  BY <1>16, <1>17, FreshNext

(* A panic orphans the document that was being analysed.                   *)
LEMMA PanicFresh ==
    ASSUME TypeInv, FreshInv, NEW j \in JobIds, JobPanic(j)
    PROVE  FreshInv'
<1> DEFINE js == [jobs EXCEPT ![j] = None]
           lost == orphaned \cup {jobs[j].uri}
           x == [State EXCEPT !.jobs = js, !.orphaned = lost]
<1>1. /\ Live(jobs[j]) /\ jobs' = js /\ orphaned' = lost
      /\ UNCHANGED <<pending, library, out_rx, documents, rules,
                     analysis_rx, parse_diags>>
  BY DEF JobPanic, workerVars, mainVars
<1>2. /\ x.pending = State.pending /\ x.jobs = js /\ x.out = State.out
      /\ x.library = State.library /\ x.orphaned = lost
      /\ State.pending = pending /\ State.jobs = jobs
      /\ State.library = library /\ State.orphaned = orphaned
      /\ State.out = out_rx
  BY DEF State, Worker
<1>3. jobs \in [JobIds -> JobSlots]
  BY DEF TypeInv, TypeOK, JobSlots
<1>4. \A k \in JobIds : Live(js[k]) => k # j /\ js[k] = jobs[k]
  BY <1>3 DEF Live
<1>5. \A k \in JobIds : k # j => js[k] = jobs[k]
  BY <1>3
<1> HIDE DEF x, js
<1>6. ASSUME NEW e \in Docs, documents[e] # None
      PROVE  /\ LastWins(analysis_rx, e, documents[e], rules)
             /\ FreshFor(x, analysis_rx, parse_diags[e], e, documents[e],
                         rules)
  <2> DEFINE doc == documents[e]
             shown == parse_diags[e]
  <2>1. /\ LastWins(analysis_rx, e, doc, rules)
        /\ QueueWanted(State, analysis_rx, e, doc, rules)
        /\ JobsWanted(State, analysis_rx, e, doc, rules)
        /\ Covered(State, analysis_rx, shown, e, doc, rules)
    BY <1>6 DEF FreshInv, FreshIn, FreshFor
  <2>2. QueueWanted(x, analysis_rx, e, doc, rules)
    BY <1>2, <2>1 DEF QueueWanted
  <2>3. JobsWanted(x, analysis_rx, e, doc, rules)
    BY <1>2, <1>4, <2>1 DEF JobsWanted
  <2>4. Covered(x, analysis_rx, shown, e, doc, rules)
    <3>1. CASE e = jobs[j].uri
      BY <1>2, <3>1 DEF Covered
    <3>2. CASE e # jobs[j].uri
      <4>1. Analysing(jobs, e, doc, rules) => Analysing(js, e, doc, rules)
        BY <1>5, <3>2 DEF Analysing
      <4> QED
        BY <1>2, <2>1, <4>1 DEF Covered
    <3> QED
      BY <3>1, <3>2
  <2> QED
    BY <2>1, <2>2, <2>3, <2>4 DEF FreshFor
<1>7. LibraryRead(x)
  BY <1>2, <1>4 DEF FreshInv, FreshIn, LibraryRead
<1>8. FreshIn(x, analysis_rx, documents, parse_diags, rules)
  BY <1>6, <1>7 DEF FreshIn
<1>9. FreshIn(x, analysis_rx', documents', parse_diags', rules')
  BY <1>1, <1>8
<1>10. /\ x.pending = pending' /\ x.jobs = jobs' /\ x.out = out_rx'
       /\ x.library = library' /\ x.orphaned = orphaned'
  BY <1>1, <1>2
<1> QED
  BY <1>9, <1>10, FreshNext

(* The arms of the analysis thread.                                        *)
WorkerFresh(w, q) == FreshIn(w, q, documents, parse_diags, rules)

LEMMA StageFresh ==
    ASSUME FreshInv, NEW stage
    PROVE  WorkerFresh(Worker(stage), analysis_rx)
<1> DEFINE u == Worker(stage)
<1>1. SameFindings(u, State) /\ u.orphaned = State.orphaned
  BY DEF Worker, State, SameFindings
<1> HIDE DEF u
<1>2. LibraryRead(u)
  BY <1>1 DEF SameFindings, FreshInv, FreshIn, LibraryRead
<1>3. ASSUME NEW d \in Docs, documents[d] # None
      PROVE  /\ LastWins(analysis_rx, d, documents[d], rules)
             /\ FreshFor(u, analysis_rx, parse_diags[d], d, documents[d],
                         rules)
  BY <1>1, <1>3, SameFindingsFresh DEF FreshInv, FreshIn
<1> QED
  BY <1>2, <1>3 DEF WorkerFresh, FreshIn, u

LEMMA DrainWorkerFresh ==
    ASSUME TypeInv, AgreeInv, FreshInv, NEW stage, WorkerOK(Worker(stage))
    PROVE  WorkerFresh(Drain(Worker(stage), analysis_rx), <<>>)
<1> DEFINE u == Worker(stage)
           w == Drain(u, analysis_rx)
<1>1. WorkerFresh(u, analysis_rx)
  BY StageFresh
<1>2. u.pending = pending
  BY DEF Worker
<1>3. WorkerOK(u)
  OBVIOUS
<1>4. analysis_rx \in Seq(Request)
      /\ documents \in [Docs -> Document \cup {None}]
  BY DEF TypeInv, TypeOK
<1> HIDE DEF u
<1>5. w.jobs = u.jobs /\ w.library = u.library
  <2>1. w.jobs = u.jobs
    BY <1>3, DrainFrame
  <2>2. w.library = u.library
    BY <1>3 DEF Drain, WorkerOK, WorkerRecord
  <2> QED
    BY <2>1, <2>2
<1> HIDE DEF w
<1>6. LibraryRead(w)
  BY <1>1, <1>5 DEF WorkerFresh, FreshIn, LibraryRead
<1>7. ASSUME NEW d \in Docs, documents[d] # None
      PROVE  FreshFor(w, <<>>, parse_diags[d], d, documents[d], rules)
  <2> DEFINE doc == documents[d]
             shown == parse_diags[d]
  <2>1. doc \in Document /\ doc.version = lastVersion[d]
    BY <1>4, <1>7 DEF AgreeInv, VersionsCurrent
  <2>2. doc.version \in Nat
    BY <2>1, BoundsAssumption DEF Document, Versions
  <2>3. /\ LastWins(analysis_rx, d, doc, rules)
        /\ FreshFor(u, analysis_rx, shown, d, doc, rules)
    BY <1>1, <1>7 DEF WorkerFresh, FreshIn
  <2>4. u.pending[d] # None => u.pending[d].version <= doc.version
    BY <1>2, <2>1 DEF AgreeInv, QueueAgrees, Agrees, AgreesIn
  <2>5. \A i \in 1..Len(analysis_rx) :
          analysis_rx[i].uri = d => analysis_rx[i].version <= doc.version
    BY <2>1 DEF AgreeInv, RequestsAgree, Agrees, AgreesIn
  <2> HIDE DEF doc, shown
  <2>6. FreshFor(w, <<>>, shown, d, doc, rules)
    BY <1>3, <1>4, <2>2, <2>3, <2>4, <2>5, DrainFresh DEF w
  <2> QED
    BY <2>6 DEF doc, shown
<1>8. \A d \in Docs : LastWins(<<>>, d, documents[d], rules)
  BY DEF LastWins
<1>9. WorkerFresh(w, <<>>)
  BY <1>6, <1>7, <1>8 DEF WorkerFresh, FreshIn
<1> QED
  BY <1>9 DEF w, u

LEMMA AnalysisArmFresh ==
    ASSUME TypeInv, AgreeInv, FlightInv, FreshInv, AnalysisArm
    PROVE  FreshInv'
<1>1. PICK stage \in Stages :
        /\ WorkerOK(Worker(stage))
        /\ Dispatches(Drain(Worker(stage), analysis_rx))
  BY AnalysisArmStep
<1> DEFINE w == Drain(Worker(stage), analysis_rx)
<1>2. analysis_rx \in Seq(Request)
  BY DEF TypeInv, TypeOK
<1>3. Flights(w, <<>>) /\ WorkerFresh(w, <<>>) /\ Dispatches(w)
  BY <1>1, <1>2, WorkerFlights, DrainFlights, DrainWorkerFresh
<1>4. analysis_rx' = <<>> /\ UNCHANGED mainVars
  BY DEF AnalysisArm
<1> HIDE DEF w
<1>5. SlotOnly(w)
  BY <1>3 DEF Flights, FlightsIn, SlotOnly
<1>6. FreshIn(w, analysis_rx', documents, parse_diags, rules)
  BY <1>3, <1>4 DEF WorkerFresh
<1> QED
  BY <1>3, <1>4, <1>5, <1>6, DispatchesFresh

(* Neither dropping, reverting nor forgetting touches the library.         *)
LEMMA OnSyncLibrary ==
    ASSUME NEW w, WorkerOK(w), NEW e \in Docs, disk \in [Docs -> Texts]
    PROVE  OnSync(w, e).library = w.library
<1> DEFINE v == DropQueued(w, e)
           u == Upsert(v, e, disk[e])
           r == Revert(v, e)
<1>1. /\ WorkerOK(v) /\ WorkerOK(r) /\ WorkerOK(u)
      /\ v.library = w.library
  <2>1. WorkerOK(v) /\ WorkerOK(r) /\ WorkerOK(u)
    BY DropQueuedOK, RevertOK, UpsertOK
  <2>2. v.library = w.library
    BY DEF DropQueued, WorkerOK, WorkerRecord
  <2> QED
    BY <2>1, <2>2
<1> HIDE DEF v
<1>2. u.library = v.library
  BY <1>1, UpsertFrame DEF SameButJobs
<1> HIDE DEF u
<1>3. r.library = v.library
  BY <1>1, <1>2 DEF Revert, WorkerOK, WorkerRecord, u
<1>4. OnSync(w, e) = ForgetProjection(r, e)
  BY DEF OnSync, v
<1> HIDE DEF r
<1>5. ForgetProjection(r, e).library = r.library
  BY <1>1 DEF ForgetProjection, SendRefresh, WorkerOK, WorkerRecord
<1> QED
  BY <1>1, <1>3, <1>4, <1>5

LEMMA SyncArmFresh ==
    ASSUME TypeInv, AgreeInv, FlightInv, FreshInv, SyncArm
    PROVE  FreshInv'
<1>1. PICK stage \in Stages, e \in Docs :
        /\ WorkerOK(Worker(stage))
        /\ disk \in [Docs -> Texts]
        /\ WorkerOK(Drain(Worker(stage), analysis_rx))
        /\ Dispatches(OnSync(Drain(Worker(stage), analysis_rx), e))
  BY SyncArmStep
<1> DEFINE v == Drain(Worker(stage), analysis_rx)
           w == OnSync(v, e)
<1>2. analysis_rx \in Seq(Request)
  BY DEF TypeInv, TypeOK
<1>3. Flights(v, <<>>) /\ WorkerFresh(v, <<>>) /\ WorkerOK(v)
  BY <1>1, <1>2, WorkerFlights, DrainFlights, DrainWorkerFresh
<1>4. Dispatches(w)
  BY <1>1
<1>5. analysis_rx' = <<>> /\ UNCHANGED mainVars
  BY DEF SyncArm
<1> HIDE DEF v
<1>6. Flights(w, <<>>)
  BY <1>1, <1>3, OnSyncFlights
<1>7. SlotOnly(w)
  BY <1>6 DEF Flights, FlightsIn, SlotOnly
<1>8. LibraryRead(w)
  <2>1. w.jobs \in {v.jobs, Cancel(DropQueued(v, e)).jobs}
    BY <1>1, <1>3, OnSyncFrame
  <2>2. w.library = v.library
    BY <1>1, <1>3, OnSyncLibrary
  <2>3. NoneLive(Cancel(DropQueued(v, e)).jobs)
    BY <1>1, <1>3, DropQueuedOK, CancelShrinks
  <2> HIDE DEF w
  <2> QED
    BY <1>3, <2>1, <2>2, <2>3
       DEF WorkerFresh, FreshIn, LibraryRead, NoneLive
<1>9. ASSUME NEW d \in Docs, documents[d] # None
      PROVE  /\ LastWins(<<>>, d, documents[d], rules)
             /\ FreshFor(w, <<>>, parse_diags[d], d, documents[d], rules)
  <2>1. /\ LastWins(<<>>, d, documents[d], rules)
        /\ FreshFor(v, <<>>, parse_diags[d], d, documents[d], rules)
    BY <1>3, <1>9 DEF WorkerFresh, FreshIn
  <2> QED
    BY <1>1, <1>3, <2>1, OnSyncFresh
<1> HIDE DEF w
<1>10. FreshIn(w, analysis_rx', documents, parse_diags, rules)
  BY <1>5, <1>8, <1>9 DEF FreshIn
<1> QED
  BY <1>4, <1>5, <1>7, <1>10, DispatchesFresh

LEMMA LibraryArmFresh ==
    ASSUME TypeInv, FreshInv, LibraryArm
    PROVE  FreshInv'
<1>1. PICK stage \in Stages :
        LET w == SendRefresh([Cancel(Worker(stage)) EXCEPT !.library = @ + 1])
        IN WorkerOK(Worker(stage)) /\ WorkerOK(w) /\ Commit(w)
  BY LibraryArmStep
<1> DEFINE u == Worker(stage)
           c == Cancel(u)
           w == SendRefresh([c EXCEPT !.library = @ + 1])
<1>2. WorkerOK(u) /\ WorkerFresh(u, analysis_rx) /\ Commit(w)
  BY <1>1, StageFresh
<1> HIDE DEF u
<1>3. WorkerOK(c) /\ c.pending = u.pending /\ NoneLive(c.jobs)
  BY <1>2, CancelOK, CancelFrame, CancelShrinks DEF SameButJobs
<1> HIDE DEF c
<1>4. /\ w.pending = c.pending /\ w.jobs = c.jobs
      /\ w.orphaned = c.orphaned /\ w.out = Append(c.out, Refresh)
      /\ c.out \in Seq(Outbound)
  BY <1>3 DEF SendRefresh, WorkerOK, WorkerRecord
<1> HIDE DEF w
<1>5. ASSUME NEW d \in Docs, documents[d] # None
      PROVE  /\ LastWins(analysis_rx, d, documents[d], rules)
             /\ FreshFor(w, analysis_rx, parse_diags[d], d, documents[d],
                         rules)
  <2>1. /\ LastWins(analysis_rx, d, documents[d], rules)
        /\ FreshFor(u, analysis_rx, parse_diags[d], d, documents[d], rules)
    BY <1>2, <1>5 DEF WorkerFresh, FreshIn
  <2>2. QueueWanted(c, analysis_rx, d, documents[d], rules)
    BY <1>3, <2>1 DEF FreshFor, QueueWanted
  <2>3. JobsWanted(c, analysis_rx, d, documents[d], rules)
    BY <1>3 DEF JobsWanted, NoneLive
  <2> QED
    BY <1>4, <2>1, <2>2, <2>3, RefreshIsFresh
<1>6. LibraryRead(w)
  BY <1>3, <1>4 DEF LibraryRead, NoneLive
<1>7. FreshIn(w, analysis_rx, documents, parse_diags, rules)
  BY <1>5, <1>6 DEF FreshIn
<1>8. FreshIn(w, analysis_rx', documents', parse_diags', rules')
  BY <1>7 DEF LibraryArm, mainVars
<1>9. /\ w.pending = pending' /\ w.jobs = jobs' /\ w.out = out_rx'
      /\ w.library = library' /\ w.orphaned = orphaned'
  BY <1>2 DEF Commit
<1> QED
  BY <1>8, <1>9, FreshNext

LEMMA DoneArmFresh ==
    ASSUME TypeInv, FlightInv, FreshInv, NEW j \in JobIds, DoneArm(j)
    PROVE  FreshInv'
<1>1. PICK stage \in Stages :
        /\ jobs[j] \in AnalyzeDone
        /\ WorkerOK(Worker(stage))
        /\ WorkerOK(Received(stage, j))
        /\ Dispatches(OnDone(Received(stage, j), jobs[j]))
  BY DoneArmStep
<1> DEFINE u == Worker(stage)
           v == Received(stage, j)
           w == OnDone(v, jobs[j])
<1>2. /\ v.pending = u.pending /\ v.out = u.out /\ v.library = u.library
      /\ v.orphaned = u.orphaned /\ v.jobs = [jobs EXCEPT ![j] = None]
      /\ u.jobs = jobs
  BY DEF Received, Worker
<1>3. WorkerFresh(u, analysis_rx) /\ WorkerOK(v) /\ Dispatches(w)
  BY <1>1, StageFresh
<1>4. Flights(w, analysis_rx)
  BY <1>1, OnDoneFlights
<1> HIDE DEF u, v
<1>5. \A k \in JobIds : /\ Live(v.jobs[k]) => v.jobs[k] = u.jobs[k]
                        /\ Live(u.jobs[k]) => v.jobs[k] = u.jobs[k]
  <2>1. jobs \in [JobIds -> JobSlots]
    BY DEF TypeInv, TypeOK, JobSlots
  <2>2. ~ Live(jobs[j]) /\ ~ Live(None)
    BY <1>1 DEF Live, AnalyzeDone
  <2> QED
    BY <1>2, <2>1, <2>2
<1>6. LibraryRead(v)
  BY <1>2, <1>3, <1>5 DEF WorkerFresh, FreshIn, LibraryRead
<1>7. LibraryRead(w)
  <2>1. w.jobs = v.jobs
    BY <1>3, OnDoneFrame
  <2>2. w.library = v.library
    BY <1>3 DEF OnDone, RecordProjection, SendRefresh, WorkerOK, WorkerRecord
  <2> HIDE DEF w
  <2> QED
    BY <1>6, <2>1, <2>2 DEF LibraryRead
<1>8. ASSUME NEW d \in Docs, documents[d] # None
      PROVE  /\ LastWins(analysis_rx, d, documents[d], rules)
             /\ FreshFor(w, analysis_rx, parse_diags[d], d, documents[d],
                         rules)
  <2>1. /\ LastWins(analysis_rx, d, documents[d], rules)
        /\ FreshFor(u, analysis_rx, parse_diags[d], d, documents[d], rules)
    BY <1>3, <1>8 DEF WorkerFresh, FreshIn
  <2>2. QueueWanted(v, analysis_rx, d, documents[d], rules)
    BY <1>2, <2>1 DEF FreshFor, QueueWanted
  <2>3. JobsWanted(v, analysis_rx, d, documents[d], rules)
    BY <1>2, <1>5, <2>1 DEF FreshFor, JobsWanted
  <2>4. Covered(v, analysis_rx, parse_diags[d], d, documents[d], rules)
    <3>1. Analysing(u.jobs, d, documents[d], rules)
            => Analysing(v.jobs, d, documents[d], rules)
      BY <1>5 DEF Analysing
    <3> QED
      BY <1>2, <2>1, <3>1 DEF FreshFor, Covered
  <2>5. FreshFor(v, analysis_rx, parse_diags[d], d, documents[d], rules)
    BY <2>2, <2>3, <2>4 DEF FreshFor
  <2> QED
    BY <1>1, <1>3, <2>1, <2>5, OnDoneFresh
<1> HIDE DEF w
<1>9. SlotOnly(w)
  BY <1>4 DEF Flights, FlightsIn, SlotOnly
<1>10. analysis_rx' = analysis_rx /\ UNCHANGED mainVars
  BY DEF DoneArm
<1>11. FreshIn(w, analysis_rx', documents, parse_diags, rules)
  BY <1>7, <1>8, <1>10 DEF FreshIn
<1> QED
  BY <1>3, <1>9, <1>10, <1>11, DispatchesFresh

LEMMA FreshStep ==
    ASSUME TypeInv, AgreeInv, FlightInv, FreshInv, [Next]_vars
    PROVE  FreshInv'
<1>1. ASSUME NEW d \in Docs, NEW t \in Texts,
             DidOpen(d, t) \/ DidChange(d, t)
      PROVE  FreshInv'
  <2>1. PICK v \in Nat : SetDocument(d, [version |-> v, text |-> t])
    <3>1. lastVersion[d] \in Nat
      BY BoundsAssumption DEF TypeInv, TypeOK
    <3>2. documents[d] # None => documents[d].version = lastVersion[d]
      BY DEF AgreeInv, VersionsCurrent
    <3> QED
      BY <1>1, <3>1, <3>2 DEF DidOpen, DidChange, FirstVersion
  <2>2. PICK m \in Versions :
          documents' = [documents EXCEPT ![d] = [version |-> m, text |-> t]]
    BY <1>1, OpenedVersion
  <2>3. v = m
    BY <2>1, <2>2 DEF SetDocument, TypeInv, TypeOK
  <2>4. [version |-> v, text |-> t] \in Document
    BY <2>2, <2>3 DEF Document
  <2> QED
    BY <2>1, <2>4, EditFresh
<1>2. ASSUME NEW d \in Docs, DidClose(d)
      PROVE  FreshInv'
  BY <1>2, CloseFresh
<1>3. CASE DidChangeConfiguration \/ OnDiagnosticsRefresh
  BY <1>3, SendAllFresh
<1>4. CASE OnDiagnostics
  BY <1>4, DiagnosticsFresh
<1>5. CASE AnalysisArm
  BY <1>5, AnalysisArmFresh
<1>6. CASE SyncArm
  BY <1>6, SyncArmFresh
<1>7. CASE LibraryArm
  BY <1>7, LibraryArmFresh
<1>8. ASSUME NEW j \in JobIds, DoneArm(j) \/ JobFinish(j) \/ JobPanic(j)
      PROVE  FreshInv'
  BY <1>8, DoneArmFresh, FinishFresh, PanicFresh
<1>9. ASSUME UNCHANGED <<pending, jobs, out_rx, library, orphaned,
                         analysis_rx, documents, parse_diags, rules>>
      PROVE  FreshInv'
  <2>1. FreshIn(State, analysis_rx', documents', parse_diags', rules')
    BY <1>9 DEF FreshInv
  <2>2. /\ State.pending = pending' /\ State.jobs = jobs'
        /\ State.out = out_rx' /\ State.library = library'
        /\ State.orphaned = orphaned'
    BY <1>9 DEF State, Worker
  <2> QED
    BY <2>1, <2>2, FreshNext
<1>10. (\E d \in Docs, t \in Texts : Rewrite(d, t))
         \/ (\E d \in Docs : DidChangeWatchedFiles(d))
         \/ UNCHANGED vars
         => UNCHANGED <<pending, jobs, out_rx, library, orphaned,
                        analysis_rx, documents, parse_diags, rules>>
  BY DEF Rewrite, DidChangeWatchedFiles, vars, mainVars, workerVars
<1> QED
  BY <1>1, <1>2, <1>3, <1>4, <1>5, <1>6, <1>7, <1>8, <1>9, <1>10
     DEF Next, Client, MainLoop, AnalysisThread, Pool

(* When nothing is queued, sent or analysed, all that is left of FreshInv  *)
(* is that what each open document shows is good.                          *)
LEMMA RestIsFresh ==
    ASSUME TypeInv, NoLostWakeup, SlotNeverLeaks, FreshInv
    PROVE  FreshWhenQuiet
<1> SUFFICES ASSUME Quiet, panics = 0, NEW d \in OpenDocs \ orphaned
             PROVE  Good(parse_diags[d], documents[d], rules, library)
  BY DEF FreshWhenQuiet, Good
<1>1. pending[d] = None
  BY DEF NoLostWakeup, SlotNeverLeaks, InflightIsRunning, Quiet, OpenDocs
<1>2. Covered(State, analysis_rx, parse_diags[d], d, documents[d], rules)
  BY DEF FreshInv, FreshIn, FreshFor, OpenDocs
<1>3. /\ analysis_rx = <<>> /\ out_rx = <<>>
      /\ \A j \in JobIds : ~ Live(jobs[j])
  BY DEF Quiet, Live
<1>4. /\ State.pending = pending /\ State.jobs = jobs
      /\ State.out = out_rx /\ State.library = library
      /\ State.orphaned = orphaned
  BY DEF State, Worker
<1>5. /\ ~ Asked(<<>>, d) /\ ~ RefreshSent(<<>>)
      /\ About(<<>>, d, documents[d].version) = {}
  BY DEF Asked, RefreshSent, About
<1>6. ~ Analysing(jobs, d, documents[d], rules)
  BY <1>3 DEF Analysing
<1>7. Reported(out_rx, parse_diags[d], d, documents[d], rules, library)
  BY <1>1, <1>2, <1>3, <1>4, <1>5, <1>6 DEF Covered
<1> QED
  BY <1>3, <1>5, <1>7 DEF Reported

(* When the server comes to rest without a panic, every open document that *)
(* no close or revert orphaned shows warm findings about its own text,     *)
(* under the current rules and the current library: nothing the main loop  *)
(* asks for is lost between the channels, the queue, the slot, the pool    *)
(* and the version gate, however the arms and the jobs interleave.         *)
THEOREM FindingsAreFresh ==
    ASSUME ~ VersionsRestart
    PROVE  Spec => []FreshWhenQuiet
<1>1. Init => /\ AgreeInv /\ NoLostWakeup /\ FlightInv
              /\ SlotNeverLeaks /\ FreshInv
  <2>1. Init => AgreeInv /\ NoLostWakeup /\ FlightInv
    BY InitAgrees
       DEF Init, NoLostWakeup, FlightInv, FlightsIn, Distinct, Live
  <2>2. Init => SlotNeverLeaks
    BY DEF Init, SlotNeverLeaks, InflightIsRunning
  <2>3. Init => FreshInv
    BY DEF Init, FreshInv, FreshIn, LibraryRead, State, Worker, Live
  <2> QED
    BY <2>1, <2>2, <2>3
<1>2. TypeInv /\ AgreeInv /\ [Next]_vars => AgreeInv'
  BY AgreeStep
<1>3. TypeInv /\ AgreeInv /\ NoLostWakeup /\ FlightInv /\ [Next]_vars
        => FlightInv'
  BY FlightStep
<1>4. TypeInv /\ AgreeInv /\ FlightInv /\ FreshInv /\ [Next]_vars
        => FreshInv'
  BY FreshStep
<1>5. TypeInv /\ NoLostWakeup /\ SlotNeverLeaks /\ FreshInv
        => FreshWhenQuiet
  BY RestIsFresh
<1> QED
  BY <1>1, <1>2, <1>3, <1>4, <1>5, InitTyped, NextTyped, WakeupStep,
     SlotIsAlwaysFreed, PTL DEF Spec
=============================================================================
