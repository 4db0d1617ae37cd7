----------------------------- MODULE ReadRequests -----------------------------
(***************************************************************************)
(* The life of a request: hover, references, rename and the other reads    *)
(* the language server answers off a snapshot of its database.             *)
(*                                                                         *)
(* A request travels client -> main loop -> read_rx -> analysis thread ->  *)
(* pool job -> out_rx -> main loop -> client.  Edits and cancellations     *)
(* come in on the client's channel, and the text of an edit reaches the    *)
(* database by another channel than the reads: a job may run against a     *)
(* snapshot that lags the buffer it was dispatched with, and any write to  *)
(* the database cancels it.                                                *)
(*                                                                         *)
(* A write waits until every snapshot is dropped, so it is two steps: the  *)
(* flag is raised, and the text is set once no job runs.  The analysis     *)
(* thread does nothing in between.  Its own analyses are AnalysisPipeline's*)
(* subject: here a queued text may be written at any time.                 *)
(***************************************************************************)
EXTENDS Integers, Sequences, FiniteSets

CONSTANTS
    Docs,         \* Julia documents
    Members,      \* those of the package under development
    Texts,        \* buffer contents
    InitialText,  \* what is on disk
    Ids,          \* request ids, each used once
    Requests,     \* what each id may ask: the kind of read, the document
    MaxVersion,   \* bound: didOpen and didChange notifications per document
    Closable,     \* bound: the documents the client may close
    Cancellable,  \* bound: the ids the client may cancel
    Panickable,   \* bound: the ids whose job may panic
    MaxHarvests,  \* bound: library writes
    None          \* the absent value of every Option

ASSUME DocsAssumption == Members \subseteq Docs /\ InitialText \in Texts
ASSUME BoundsAssumption == MaxVersion \in Nat /\ MaxHarvests \in Nat

(* "rename" and "definition" gather what the whole package holds, and a    *)
(* rename outside the package stands for all reads of one document;        *)
(* "workspace" for those of no document.                                   *)
Ask == [kind : {"rename", "definition"}, doc : Docs]
         \cup [kind : {"workspace"}, doc : {None}]

ASSUME RequestsAssumption == Requests \subseteq Ids \X Ask

VARIABLES
    buffers,         \* the client's open buffers
    numbered,        \* the last version it numbered of each document
    asked,           \* the requests it has sent
    inbox,           \* connection.receiver
    selecting,       \* the main loop found the inbox empty and is in select!
    documents,       \* GlobalState::documents
    inflight_reads,  \* GlobalState::inflight_reads
    responses,       \* what the client has been answered
    queued,          \* texts on their way to the database
    closing,         \* closed documents whose sync is on its way
    read_rx,         \* read jobs on their way to the analysis thread
    tracked,         \* the text of each salsa input
    writing,         \* the write that waits for the snapshots to drop
    harvests,        \* library writes so far
    running,         \* read jobs on the pool, each with its snapshot
    out_rx,          \* replies on their way to the main loop
    doomed,          \* history: dispatched with their cancel in the inbox
    lost             \* history: their job ended without a reply

clientVars == <<buffers, numbered, asked>>
mainVars == <<documents, inflight_reads, responses, doomed>>
workerVars == <<queued, closing, read_rx, tracked, writing, harvests>>
poolVars == <<running, out_rx, lost>>
vars == <<clientVars, inbox, selecting, mainVars, workerVars, poolVars>>

-----------------------------------------------------------------------------
(* Data.                                                                   *)

Document == [version : 1..MaxVersion, text : Texts]
Message == [type : {"document"}, doc : Docs, to : Document \cup {None}]
             \cup [type : {"request", "cancel"}, id : Ids]
ReadMeta == [uri : Docs \cup {None}, version : 1..MaxVersion \cup {None}]
Job == [id : Ids, kind : {"rename", "definition", "workspace"},
        doc : Docs \cup {None}, text : Texts \cup {None}]

(* A response; sites is the text each document was read at, None for the   *)
(* documents the response says nothing about.                              *)
Response == [kind : {"result", "modified", "cancelled", "null"},
             sites : [Docs -> Texts \cup {None}]]
Reply == [id : Ids, response : Response]
Write == [doc : Docs \cup {None}, text : Texts \cup {None}]

ASSUME NoneAssumption ==
    None \notin Docs \cup Texts \cup Document \cup Ask \cup ReadMeta
              \cup Write \cup 1..MaxVersion

Nowhere == [d \in Docs |-> None]
Only(doc, text) == [d \in Docs |-> IF d = doc THEN text ELSE None]
Plain(kind) == [kind |-> kind, sites |-> Nowhere]
Result(sites) == [kind |-> "result", sites |-> sites]

Init ==
    /\ buffers = [d \in Docs |-> None]
    /\ numbered = [d \in Docs |-> 0]
    /\ asked = [id \in Ids |-> None]
    /\ inbox = <<>>
    /\ selecting = FALSE
    /\ documents = [d \in Docs |-> None]
    /\ inflight_reads = [id \in Ids |-> None]
    /\ responses = [id \in Ids |-> <<>>]
    /\ queued = [d \in Docs |-> None]
    /\ closing = {}
    /\ read_rx = <<>>
    /\ tracked = [d \in Docs |-> IF d \in Members THEN InitialText ELSE None]
    /\ writing = None
    /\ harvests = 0
    /\ running = {}
    /\ out_rx = <<>>
    /\ doomed = {}
    /\ lost = {}

-----------------------------------------------------------------------------
(* The client.                                                             *)

Send(msg) ==
    /\ inbox' = Append(inbox, msg)
    /\ UNCHANGED <<selecting, mainVars, workerVars, poolVars>>

(* didOpen and didChange: a document's versions only grow.                 *)
ClientEdits(d, t) ==
    LET doc == [version |-> numbered[d] + 1, text |-> t]
    IN /\ numbered[d] < MaxVersion
       /\ buffers' = [buffers EXCEPT ![d] = doc]
       /\ numbered' = [numbered EXCEPT ![d] = @ + 1]
       /\ Send([type |-> "document", doc |-> d, to |-> doc])
       /\ UNCHANGED asked

ClientCloses(d) ==
    /\ d \in Closable
    /\ buffers[d] # None
    /\ buffers' = [buffers EXCEPT ![d] = None]
    /\ Send([type |-> "document", doc |-> d, to |-> None])
    /\ UNCHANGED <<numbered, asked>>

ClientAsks(id, ask) ==
    /\ asked[id] = None
    /\ asked' = [asked EXCEPT ![id] = ask]
    /\ Send([type |-> "request", id |-> id])
    /\ UNCHANGED <<buffers, numbered>>

(* Bound: no second cancellation while one is unread.                      *)
ClientCancels(id) ==
    LET cancel == [type |-> "cancel", id |-> id]
    IN /\ id \in Cancellable
       /\ asked[id] # None
       /\ responses[id] = <<>>
       /\ \A i \in DOMAIN inbox : inbox[i] # cancel
       /\ Send(cancel)
       /\ UNCHANGED clientVars

-----------------------------------------------------------------------------
(* The main loop.                                                          *)

Respond(id, response) ==
    responses' = [responses EXCEPT ![id] = Append(@, response)]

(* didOpen, didChange and didClose.                                        *)
OnDocument(d, to) ==
    /\ documents' = [documents EXCEPT ![d] = to]
    /\ IF to = None
       THEN /\ closing' = closing \cup {d}
            /\ UNCHANGED queued
       ELSE /\ queued' = [queued EXCEPT ![d] = to.text]
            /\ UNCHANGED closing
    /\ UNCHANGED <<inflight_reads, responses, read_rx, doomed>>

(* read_reply and dispatch_read: the buffer's version is remembered, its   *)
(* text goes with the job.                                                 *)
Dispatch(id, kind, d) ==
    LET doc == IF d = None THEN [version |-> None, text |-> None]
                           ELSE documents[d]
    IN /\ inflight_reads' = [inflight_reads EXCEPT ![id] =
              [uri |-> d, version |-> doc.version]]
       /\ read_rx' = Append(read_rx, [id |-> id, kind |-> kind, doc |-> d,
                                      text |-> doc.text])
       /\ doomed' = IF [type |-> "cancel", id |-> id]
                         \in {inbox[i] : i \in DOMAIN inbox}
                    THEN doomed \cup {id} ELSE doomed
       /\ UNCHANGED <<documents, responses, queued, closing>>

(* A request about a document that is not open is answered null.           *)
OnRequest(id) ==
    LET ask == asked[id]
    IN IF ask.doc # None /\ documents[ask.doc] = None
       THEN /\ Respond(id, Plain("null"))
            /\ UNCHANGED <<documents, inflight_reads, queued, closing,
                           read_rx, doomed>>
       ELSE Dispatch(id, ask.kind, ask.doc)

(* on_cancel: an id that is not in flight is ignored.                      *)
CancelLeavesEntry(id) ==                                          \* a mutant
    /\ IF inflight_reads[id] = None THEN UNCHANGED responses
       ELSE Respond(id, Plain("cancelled"))
    /\ UNCHANGED <<documents, inflight_reads, queued, closing, read_rx, doomed>>
OnCancel(id) ==
    /\ IF inflight_reads[id] = None
       THEN UNCHANGED <<inflight_reads, responses>>
       ELSE /\ inflight_reads' = [inflight_reads EXCEPT ![id] = None]
            /\ Respond(id, Plain("cancelled"))
    /\ UNCHANGED <<documents, queued, closing, read_rx, doomed>>

(* The gate of on_read_reply.                                              *)
AnyVersion(meta) == TRUE                                          \* a mutant
Current(meta) ==
    meta.uri # None =>
        /\ documents[meta.uri] # None
        /\ documents[meta.uri].version = meta.version

StaleDropped(reply) ==                                            \* a mutant
    LET meta == inflight_reads[reply.id]
    IN IF meta = None \/ ~ Current(meta)
       THEN /\ inflight_reads' = [inflight_reads EXCEPT ![reply.id] = None]
            /\ UNCHANGED responses
       ELSE /\ inflight_reads' = [inflight_reads EXCEPT ![reply.id] = None]
            /\ Respond(reply.id, reply.response)
OnReadReply(reply) ==
    LET meta == inflight_reads[reply.id]
    IN IF meta = None THEN UNCHANGED <<inflight_reads, responses>>
       ELSE /\ inflight_reads' = [inflight_reads EXCEPT ![reply.id] = None]
            /\ Respond(reply.id, IF Current(meta) THEN reply.response
                                                  ELSE Plain("modified"))

(* try_recv finds nothing: only now does select! see the replies too.      *)
Poll ==
    /\ ~ selecting
    /\ inbox = <<>>
    /\ selecting' = TRUE
    /\ UNCHANGED <<clientVars, inbox, mainVars, workerVars, poolVars>>

HandleClient ==
    /\ inbox # <<>>
    /\ inbox' = Tail(inbox)
    /\ selecting' = FALSE
    /\ LET msg == Head(inbox)
       IN \/ msg.type = "document" /\ OnDocument(msg.doc, msg.to)
          \/ msg.type = "request" /\ OnRequest(msg.id)
          \/ msg.type = "cancel" /\ OnCancel(msg.id)
    /\ UNCHANGED <<clientVars, tracked, writing, harvests, poolVars>>

EagerOutbound ==                                                  \* a mutant
    /\ out_rx # <<>>
    /\ out_rx' = Tail(out_rx)
    /\ selecting' = FALSE
    /\ OnReadReply(Head(out_rx))
    /\ UNCHANGED <<clientVars, inbox, documents, doomed, workerVars, running,
                   lost>>
HandleOutbound ==
    /\ selecting
    /\ out_rx # <<>>
    /\ out_rx' = Tail(out_rx)
    /\ selecting' = FALSE
    /\ OnReadReply(Head(out_rx))
    /\ UNCHANGED <<clientVars, inbox, documents, doomed, workerVars, running,
                   lost>>

-----------------------------------------------------------------------------
(* The analysis thread.                                                    *)

Idle == writing = None

(* The read arm: a job gets a snapshot of the database as it is.           *)
ReadArm ==
    /\ Idle
    /\ read_rx # <<>>
    /\ read_rx' = Tail(read_rx)
    /\ running' = running \cup {Head(read_rx)}
    /\ UNCHANGED <<clientVars, inbox, selecting, mainVars, queued, closing,
                   tracked, writing, harvests, out_rx, lost>>

(* start and try_dispatch: a new input is no write, and neither is an      *)
(* unchanged text, but superseding cancels all the same.                   *)
Upsert(d, supersedes) ==
    /\ Idle
    /\ queued[d] # None
    /\ queued' = [queued EXCEPT ![d] = None]
    /\ IF tracked[d] = None
       THEN /\ tracked' = [tracked EXCEPT ![d] = queued[d]]
            /\ UNCHANGED writing
       ELSE /\ writing' = IF supersedes \/ tracked[d] # queued[d]
                          THEN [doc |-> d, text |-> queued[d]] ELSE None
            /\ UNCHANGED tracked
    /\ UNCHANGED <<clientVars, inbox, selecting, mainVars, closing, read_rx,
                   harvests, poolVars>>

(* on_sync: the closed buffer's queued text is dropped, the disk's put     *)
(* back.                                                                   *)
OnSync(d) ==
    /\ Idle
    /\ d \in closing
    /\ closing' = closing \ {d}
    /\ queued' = [queued EXCEPT ![d] = None]
    /\ writing' = IF tracked[d] \in {InitialText, None} THEN None
                  ELSE [doc |-> d, text |-> InitialText]
    /\ UNCHANGED <<clientVars, inbox, selecting, mainVars, read_rx, tracked,
                   harvests, poolVars>>

(* The library arm.                                                        *)
Harvest ==
    /\ Idle
    /\ harvests < MaxHarvests
    /\ harvests' = harvests + 1
    /\ writing' = [doc |-> None, text |-> None]
    /\ UNCHANGED <<clientVars, inbox, selecting, mainVars, queued, closing,
                   read_rx, tracked, poolVars>>

(* The write itself, once every snapshot is dropped.                       *)
Commit ==
    /\ ~ Idle
    /\ running = {}
    /\ writing' = None
    /\ tracked' = IF writing.doc = None THEN tracked
                  ELSE [tracked EXCEPT ![writing.doc] = writing.text]
    /\ UNCHANGED <<clientVars, inbox, selecting, mainVars, queued, closing,
                   read_rx, harvests, poolVars>>

-----------------------------------------------------------------------------
(* The read pool.                                                          *)

(* Off the snapshot.  A rename or a definition (references and calls too)  *)
(* reads every member of the package, at the text the database tracks.     *)
Warm(job) ==
    IF job.doc \in Members
    THEN [d \in Docs |-> IF d \in Members THEN tracked[d] ELSE None]
    ELSE Only(job.doc, job.text)

(* From the buffer's own text, parsed again: the database lags it, or a    *)
(* write cancelled the job.                                                *)
Cold(job) == Only(job.doc, job.text)

(* compute_definition asks the snapshot for the file's package: a query    *)
(* made after the catch has returned.                                      *)
ReadsInFallback(job) == job.kind = "definition" /\ job.doc \in Members

Outcomes(job) ==
    IF job.doc # None /\ tracked[job.doc] # job.text THEN {Cold(job)}
    ELSE IF Idle \/ ReadsInFallback(job) THEN {Warm(job)}
    ELSE {Warm(job), Cold(job)}

CancelledIsSilent(job) ==                                         \* a mutant
    /\ job \in running
    /\ running' = running \ {job}
    /\ out_rx' = IF Idle THEN Append(out_rx, [id |-> job.id,
                                             response |-> Result(Cold(job))])
                 ELSE out_rx
    /\ UNCHANGED <<clientVars, inbox, selecting, mainVars, workerVars, lost>>
Finish(job) ==
    /\ job \in running
    /\ running' = running \ {job}
    /\ \E sites \in Outcomes(job) :
         out_rx' = Append(out_rx, [id |-> job.id, response |-> Result(sites)])
    /\ UNCHANGED <<clientVars, inbox, selecting, mainVars, workerVars, lost>>

(* The pool catches what unwinds out of a job; nobody answers.             *)
EndsSilently(job) ==
    /\ job \in running
    /\ running' = running \ {job}
    /\ lost' = lost \cup {job.id}
    /\ UNCHANGED <<clientVars, inbox, selecting, mainVars, workerVars, out_rx>>

Panic(job) == job.id \in Panickable /\ EndsSilently(job)

(* A write is pending: the fallback's query unwinds.                       *)
Unwind(job) == ReadsInFallback(job) /\ ~ Idle /\ EndsSilently(job)

-----------------------------------------------------------------------------

Client ==
    \/ \E d \in Docs : (\E t \in Texts : ClientEdits(d, t)) \/ ClientCloses(d)
    \/ \E req \in Requests : ClientAsks(req[1], req[2])
    \/ \E id \in Ids : ClientCancels(id)
MainLoop == Poll \/ HandleClient \/ HandleOutbound
AnalysisThread ==
    \/ ReadArm \/ Harvest \/ Commit
    \/ \E d \in Docs : OnSync(d) \/ \E s \in BOOLEAN : Upsert(d, s)
Pool == \E job \in running : Finish(job) \/ Panic(job) \/ Unwind(job)

Next == Client \/ MainLoop \/ AnalysisThread \/ Pool

(* The main loop and the pool never stop, and select! picks at random      *)
(* among the ready channels, so that no ready arm waits for ever.  Nothing *)
(* is assumed of the client, of the harvester or of panics.                *)
Fairness ==
    /\ WF_vars(Poll) /\ WF_vars(HandleClient) /\ WF_vars(HandleOutbound)
    /\ WF_vars(ReadArm) /\ WF_vars(Commit)
    /\ WF_vars(\E job \in running : Finish(job))

Spec == Init /\ [][Next]_vars
FairSpec == Spec /\ Fairness

-----------------------------------------------------------------------------
(* Properties.                                                             *)

(* Every variable has its type; in particular no id has two responses.     *)
TypeOK ==
    /\ buffers \in [Docs -> Document \cup {None}]
    /\ numbered \in [Docs -> 0..MaxVersion]
    /\ asked \in [Ids -> Ask \cup {None}]
    /\ inbox \in Seq(Message)
    /\ selecting \in BOOLEAN
    /\ documents \in [Docs -> Document \cup {None}]
    /\ inflight_reads \in [Ids -> ReadMeta \cup {None}]
    /\ responses \in [Ids -> Seq(Response)]
    /\ \A id \in Ids : Len(responses[id]) <= 1
    /\ queued \in [Docs -> Texts \cup {None}]
    /\ closing \subseteq Docs
    /\ read_rx \in Seq(Job)
    /\ tracked \in [Docs -> Texts \cup {None}]
    /\ writing \in Write \cup {None}
    /\ harvests \in 0..MaxHarvests
    /\ running \subseteq Job
    /\ out_rx \in Seq(Reply)
    /\ doomed \subseteq Ids
    /\ lost \subseteq Ids

(* Whatever the client edits, closes and cancels while a read is out, the  *)
(* read is answered at most once, and a result about a buffer is about the *)
(* buffer open at that moment (on_read_reply, on_cancel).                  *)
Service == INSTANCE RequestService
ImplementsService == Service!Spec

(* A cancellation that is in the client's channel when its request is      *)
(* dispatched wins: the request is never answered with a result, however   *)
(* fast the pool is (main_loop drains the client before the replies).      *)
CancelBeatsReply ==
    \A id \in doomed :
        \A i \in DOMAIN responses[id] : responses[id][i].kind = "cancelled"

(* Every read in flight is carried by exactly one job or reply, unless its *)
(* job unwound: none is dropped between the channels, the pool and the     *)
(* gate, whatever write cancels it.                                        *)
Carriers(id) ==
    {<<"read_rx", i>> : i \in {j \in DOMAIN read_rx : read_rx[j].id = id}}
      \cup {<<"pool", job>> : job \in {j \in running : j.id = id}}
      \cup {<<"out_rx", i>> : i \in {j \in DOMAIN out_rx : out_rx[j].id = id}}
ReadsAreCarried ==
    \A id \in Ids :
        inflight_reads[id] # None =>
            Cardinality(Carriers(id)) = IF id \in lost THEN 0 ELSE 1

(* Every request is answered in the end, though each edit cancels the jobs *)
(* and any channel may be served late, unless its job unwound.             *)
EventuallyAnswered ==
    \A id \in Ids : asked[id] # None ~> responses[id] # <<>> \/ id \in lost

(* "The main loop is the sole responder for reads, so this answers each    *)
(* request id exactly once" (on_read_reply), and "Salsa Cancelled never    *)
(* reaches" the pool: without panics, every request is answered.           *)
EveryRequestAnswered ==
    \A id \in Ids : asked[id] # None ~> responses[id] # <<>>

(* "A workspace top-level symbol ... renames across every member file"     *)
(* (rename.rs): a rename's edits never miss a member.                      *)
RenamesCoverMembers ==
    \A id \in Ids : \A i \in DOMAIN responses[id] :
        /\ asked[id].kind = "rename" /\ asked[id].doc \in Members
        /\ responses[id][i].kind = "result"
        => \A d \in Members : responses[id][i].sites[d] # None

(* "the buffer it was computed against moved on ... so the client          *)
(* re-requests against the current buffer instead of applying a stale      *)
(* result" (on_read_reply): no result speaks of an older text of any open  *)
(* buffer, the package's other members included.                           *)
ResultsFitEveryBuffer ==
    [][\A id \in Ids :
         responses'[id] # responses[id] =>
             LET ans == responses'[id][Len(responses'[id])]
             IN \A d \in Docs :
                  ans.sites[d] # None /\ documents[d] # None
                  => ans.sites[d] = documents[d].text]_vars
=============================================================================
