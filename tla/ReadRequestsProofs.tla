-------------------------- MODULE ReadRequestsProofs --------------------------
(* Proofs about ReadRequests: types, and that no id has two answers; that  *)
(* every read in flight is carried by one job or reply; that a cancel in   *)
(* the client's channel wins; and that the server implements               *)
(* RequestService.                                                         *)
EXTENDS ReadRequests, FiniteSetTheorems, TLAPS

-----------------------------------------------------------------------------
(* The life of an id: asked, unread in the inbox, then in the hands of one *)
(* carrier until its job unwinds or the gate takes its reply.              *)

Holds(s, id) == \E i \in DOMAIN s : s[i].id = id
Distinct(s) == \A i, j \in DOMAIN s : s[i].id = s[j].id => i = j

InRead(id) == Holds(read_rx, id)
InPool(id) == \E job \in running : job.id = id
InOut(id) == Holds(out_rx, id)
Carried(id) == InRead(id) \/ InPool(id) \/ InOut(id)

Unread(id) ==
    \E i \in DOMAIN inbox : inbox[i].type = "request" /\ inbox[i].id = id
Untouched(id) ==
    /\ inflight_reads[id] = None
    /\ responses[id] = <<>>
    /\ id \notin doomed \cup lost
    /\ ~ Carried(id)

AskedOnce ==
    /\ \A id \in Ids : Unread(id) => asked[id] # None
    /\ \A i, j \in DOMAIN inbox :
         inbox[i].type = "request" /\ inbox[j] = inbox[i] => i = j
FreshInv == \A id \in Ids : asked[id] = None \/ Unread(id) => Untouched(id)
OneCarrier ==
    /\ Distinct(read_rx) /\ Distinct(out_rx)
    /\ \A j, k \in running : j.id = k.id => j = k
    /\ \A id \in Ids :
         /\ ~ (InRead(id) /\ InPool(id))
         /\ ~ (InRead(id) /\ InOut(id))
         /\ ~ (InPool(id) /\ InOut(id))
         /\ id \in lost => ~ Carried(id)
OpenInv ==
    \A id \in Ids : inflight_reads[id] # None =>
        responses[id] = <<>> /\ (Carried(id) \/ id \in lost)
LifeInv == AskedOnce /\ FreshInv /\ OneCarrier /\ OpenInv

(* A cancel that was there before its request was taken stays until the    *)
(* main loop takes it, which does not look at a reply before.              *)
CancelWaits(id) ==
    \E i \in DOMAIN inbox : inbox[i] = [type |-> "cancel", id |-> id]
DoomedInv ==
    \A id \in doomed :
        /\ inflight_reads[id] # None => CancelWaits(id) /\ ~ selecting
        /\ \A i \in DOMAIN responses[id] : responses[id][i].kind = "cancelled"

(* A version names one text: those on their way are later than those that  *)
(* arrived, and a job of the open buffer's version has its text.           *)
Edits(msg) == msg.type = "document" /\ msg.to # None
Later(d, v) ==
    /\ v <= numbered[d]
    /\ \A i \in DOMAIN inbox :
         Edits(inbox[i]) /\ inbox[i].doc = d => v < inbox[i].to.version
VersionsInv ==
    /\ \A i \in DOMAIN inbox :
         Edits(inbox[i]) => inbox[i].to.version <= numbered[inbox[i].doc]
    /\ \A i, j \in DOMAIN inbox :
         Edits(inbox[i]) /\ Edits(inbox[j]) /\ inbox[i].doc = inbox[j].doc
           /\ i < j => inbox[i].to.version < inbox[j].to.version
    /\ \A d \in Docs : documents[d] # None => Later(d, documents[d].version)
Elements(s) == {s[i] : i \in DOMAIN s}
Jobs == Elements(read_rx) \cup running
Replies == Elements(out_rx)

AboutAsked ==
    /\ \A id \in Ids : inflight_reads[id] # None =>
         /\ asked[id] # None
         /\ inflight_reads[id].uri = asked[id].doc
         /\ asked[id].doc # None =>
              /\ inflight_reads[id].version # None
              /\ Later(asked[id].doc, inflight_reads[id].version)
    /\ \A job \in Jobs : asked[job.id] # None /\ job.doc = asked[job.id].doc
Opened(id) ==
    /\ asked[id].doc # None
    /\ inflight_reads[id] # None
    /\ documents[asked[id].doc] # None
    /\ documents[asked[id].doc].version = inflight_reads[id].version
JobFits(job) ==
    Opened(job.id) => job.text = documents[asked[job.id].doc].text
ReplyFits(reply) ==
    LET d == asked[reply.id].doc
    IN Opened(reply.id) => reply.response.sites[d] = documents[d].text
TextInv ==
    /\ \A job \in Jobs : JobFits(job)
    /\ \A reply \in Replies : ReplyFits(reply)
SnapshotInv == VersionsInv /\ AboutAsked /\ TextInv

-----------------------------------------------------------------------------
(* Sequences.                                                              *)

LEMMA Appended ==
    ASSUME NEW S, NEW s \in Seq(S), NEW e \in S
    PROVE  /\ Append(s, e) \in Seq(S)
           /\ Len(s) \in Nat /\ DOMAIN s = 1..Len(s)
           /\ DOMAIN Append(s, e) = 1..(Len(s) + 1)
           /\ Append(s, e)[Len(s) + 1] = e
           /\ \A i \in DOMAIN s : Append(s, e)[i] = s[i]
OBVIOUS

LEMMA Popped ==
    ASSUME NEW S, NEW s \in Seq(S), s # <<>>
    PROVE  /\ Tail(s) \in Seq(S)
           /\ Len(s) \in Nat /\ DOMAIN s = 1..Len(s)
           /\ 1 \in DOMAIN s /\ Head(s) = s[1] /\ Head(s) \in S
           /\ DOMAIN Tail(s) = 1..(Len(s) - 1)
           /\ \A i \in DOMAIN Tail(s) :
                i + 1 \in DOMAIN s /\ Tail(s)[i] = s[i + 1]
OBVIOUS

LEMMA KeyPushed ==
    ASSUME NEW S, NEW s \in Seq(S), NEW e \in S
    PROVE  /\ \A id : Holds(Append(s, e), id) <=> Holds(s, id) \/ id = e.id
           /\ Distinct(s) /\ ~ Holds(s, e.id) => Distinct(Append(s, e))
<1>1. Append(s, e)[Len(s) + 1] = e /\ \A i \in DOMAIN s : Append(s, e)[i] = s[i]
  BY Appended
<1>2. DOMAIN Append(s, e) = DOMAIN s \cup {Len(s) + 1}
  BY Appended
<1> QED
  BY <1>1, <1>2 DEF Holds, Distinct

LEMMA KeyPopped ==
    ASSUME NEW S, NEW s \in Seq(S), s # <<>>, Distinct(s)
    PROVE  /\ \A id : Holds(Tail(s), id) <=> Holds(s, id) /\ id # Head(s).id
           /\ Holds(s, Head(s).id)
           /\ Distinct(Tail(s))
<1>1. \A i \in DOMAIN Tail(s) : i + 1 \in DOMAIN s /\ Tail(s)[i] = s[i + 1]
  BY Popped
<1>2. \A i \in DOMAIN s : i = 1 \/ (i - 1 \in DOMAIN Tail(s) /\ Tail(s)[i - 1] = s[i])
  BY Popped
<1>3. 1 \in DOMAIN s /\ Head(s) = s[1] /\ DOMAIN s \subseteq Nat
  BY Popped
<1>4. DOMAIN Tail(s) \subseteq Nat \ {0}
  BY Popped
<1>5. ASSUME NEW id PROVE Holds(Tail(s), id) <=> Holds(s, id) /\ id # Head(s).id
  <2>1. ASSUME NEW i \in DOMAIN Tail(s), Tail(s)[i].id = id
        PROVE  Holds(s, id) /\ id # Head(s).id
    BY <1>1, <1>3, <1>4, <2>1 DEF Holds, Distinct
  <2>2. ASSUME NEW i \in DOMAIN s, s[i].id = id, id # Head(s).id
        PROVE  Holds(Tail(s), id)
    BY <1>2, <1>3, <2>2 DEF Holds
  <2> QED
    BY <2>1, <2>2 DEF Holds
<1>6. Distinct(Tail(s))
  BY <1>1, <1>4 DEF Distinct
<1> QED
  BY <1>3, <1>5, <1>6 DEF Holds
-----------------------------------------------------------------------------
(* Types.                                                                  *)

LEMMA DocumentMessage ==
    ASSUME NEW d \in Docs, NEW to \in Document \cup {None}
    PROVE  [type |-> "document", doc |-> d, to |-> to] \in Message
BY DEF Message

LEMMA IdMessage ==
    ASSUME NEW type \in {"request", "cancel"}, NEW id \in Ids
    PROVE  [type |-> type, id |-> id] \in Message
BY DEF Message

LEMMA MessageFields ==
    ASSUME NEW msg \in Message
    PROVE  /\ msg.type = "document" =>
                msg.doc \in Docs /\ msg.to \in Document \cup {None}
           /\ msg.type \in {"request", "cancel"} => msg.id \in Ids
           /\ msg.type \in {"document", "request", "cancel"}
BY DEF Message

LEMMA AskFields ==
    ASSUME NEW ask \in Ask
    PROVE  /\ ask.doc \in Docs \cup {None}
           /\ ask.kind \in {"rename", "definition", "workspace"}
           /\ ask # None
BY NoneAssumption DEF Ask

LEMMA NowhereType == Nowhere \in [Docs -> Texts \cup {None}]
BY DEF Nowhere

LEMMA PlainType ==
    ASSUME NEW kind \in {"modified", "cancelled", "null"}
    PROVE  Plain(kind) \in Response
BY NowhereType DEF Plain, Response

LEMMA OnlyType ==
    ASSUME NEW d, NEW text \in Texts \cup {None}
    PROVE  Only(d, text) \in [Docs -> Texts \cup {None}]
BY DEF Only

LEMMA OutcomesType ==
    ASSUME TypeOK, NEW job \in Job, NEW sites \in Outcomes(job)
    PROVE  Result(sites) \in Response
<1>1. Cold(job) \in [Docs -> Texts \cup {None}]
  BY OnlyType DEF Cold, Job
<1>2. Warm(job) \in [Docs -> Texts \cup {None}]
  BY OnlyType DEF Warm, Job, TypeOK
<1>3. sites \in {Cold(job), Warm(job)}
  BY DEF Outcomes
<1> QED
  BY <1>1, <1>2, <1>3 DEF Result, Response

LEMMA RespondType ==
    ASSUME TypeOK, NEW id \in Ids, responses[id] = <<>>,
           NEW response \in Response, Respond(id, response)
    PROVE  /\ responses' \in [Ids -> Seq(Response)]
           /\ \A x \in Ids : Len(responses'[x]) <= 1
<1>1. Append(<<>>, response) = <<response>>
  OBVIOUS
<1>2. responses' = [responses EXCEPT ![id] = <<response>>]
  BY <1>1 DEF Respond, TypeOK
<1>3. <<response>> \in Seq(Response) /\ Len(<<response>>) = 1
  OBVIOUS
<1> QED
  BY <1>2, <1>3 DEF TypeOK

LEMMA EmptyTyped ==
    ASSUME NEW S
    PROVE  <<>> \in Seq(S) /\ Len(<<>>) = 0
OBVIOUS

LEMMA InitTyped == Init => TypeOK
<1> SUFFICES ASSUME Init
             PROVE  TypeOK
  OBVIOUS
<1>1. 0 \in 0..MaxVersion /\ 0 \in 0..MaxHarvests
  BY BoundsAssumption
<1>2. inbox \in Seq(Message) /\ read_rx \in Seq(Job) /\ out_rx \in Seq(Reply)
  BY EmptyTyped DEF Init
<1>3. /\ responses \in [Ids -> Seq(Response)]
      /\ \A id \in Ids : Len(responses[id]) <= 1
  <2>1. responses = [id \in Ids |-> <<>>]
    BY DEF Init
  <2>2. \A id \in Ids : responses[id] = <<>>
    BY <2>1
  <2> QED
    BY <2>1, <2>2, EmptyTyped
<1>4. tracked \in [Docs -> Texts \cup {None}]
  BY DocsAssumption DEF Init
<1> QED
  BY <1>1, <1>2, <1>3, <1>4 DEF Init, TypeOK

LEMMA ClientTyped == TypeOK /\ Client => TypeOK'
<1> SUFFICES ASSUME TypeOK, Client
             PROVE  TypeOK'
  OBVIOUS
<1> USE DEF TypeOK
<1>1. ASSUME NEW msg \in Message, Send(msg)
      PROVE  /\ inbox' \in Seq(Message)
             /\ selecting' = selecting
             /\ UNCHANGED <<mainVars, workerVars, poolVars>>
  BY <1>1, Appended DEF Send
<1>2. ASSUME NEW d \in Docs, NEW t \in Texts, ClientEdits(d, t)
      PROVE  TypeOK'
  <2> DEFINE doc == [version |-> numbered[d] + 1, text |-> t]
  <2>1. numbered[d] + 1 \in 1..MaxVersion /\ numbered[d] + 1 \in 0..MaxVersion
    BY <1>2, BoundsAssumption DEF ClientEdits
  <2>2. doc \in Document
    BY <2>1 DEF Document
  <2>3. Send([type |-> "document", doc |-> d, to |-> doc])
    BY <1>2 DEF ClientEdits
  <2>4. /\ buffers' = [buffers EXCEPT ![d] = doc]
        /\ numbered' = [numbered EXCEPT ![d] = @ + 1]
        /\ asked' = asked
    BY <1>2 DEF ClientEdits
  <2>5. [type |-> "document", doc |-> d, to |-> doc] \in Message
    BY <2>2, DocumentMessage
  <2> HIDE DEF doc
  <2> QED
    BY <1>1, <2>1, <2>2, <2>3, <2>4, <2>5 DEF mainVars, workerVars, poolVars
<1>3. ASSUME NEW d \in Docs, ClientCloses(d)
      PROVE  TypeOK'
  BY <1>1, <1>3, DocumentMessage DEF ClientCloses, mainVars, workerVars, poolVars
<1>4. ASSUME NEW req \in Requests, ClientAsks(req[1], req[2])
      PROVE  TypeOK'
  <2>1. req[1] \in Ids /\ req[2] \in Ask
    BY RequestsAssumption
  <2> QED
    BY <1>1, <1>4, <2>1, IdMessage DEF ClientAsks, mainVars, workerVars, poolVars
<1>5. ASSUME NEW id \in Ids, ClientCancels(id)
      PROVE  TypeOK'
  BY <1>1, <1>5, IdMessage
     DEF ClientCancels, clientVars, mainVars, workerVars, poolVars
<1> QED
  BY <1>2, <1>3, <1>4, <1>5 DEF Client

LEMMA RequestMessage ==
    ASSUME NEW msg \in Message, msg.type = "request"
    PROVE  msg = [type |-> "request", id |-> msg.id] /\ msg.id \in Ids
BY DEF Message

(* The inbox as its head leaves it.                                        *)
LEMMA InboxPopped ==
    ASSUME TypeOK, AskedOnce, inbox # <<>>, inbox' = Tail(inbox)
    PROVE  /\ inbox' \in Seq(Message) /\ Head(inbox) \in Message
           /\ \A id : Unread(id)' => Unread(id)
           /\ \A id : Head(inbox) = [type |-> "request", id |-> id] =>
                id \in Ids /\ Unread(id) /\ ~ Unread(id)'
           /\ \A i, j \in DOMAIN inbox' :
                inbox'[i].type = "request" /\ inbox'[j] = inbox'[i] => i = j
<1>1. inbox \in Seq(Message)
  BY DEF TypeOK
<1>2. /\ inbox' \in Seq(Message) /\ Head(inbox) \in Message
      /\ Head(inbox) = inbox[1] /\ 1 \in DOMAIN inbox
      /\ DOMAIN inbox' \subseteq Nat \ {0}
      /\ \A i \in DOMAIN inbox' :
           /\ i + 1 \in DOMAIN inbox /\ inbox'[i] = inbox[i + 1]
           /\ inbox'[i] \in Message
  BY <1>1, Popped
<1>3. \A id : Unread(id)' => Unread(id)
  BY <1>2 DEF Unread
<1>4. ASSUME NEW id, Head(inbox) = [type |-> "request", id |-> id]
      PROVE  id \in Ids /\ Unread(id) /\ ~ Unread(id)'
  <2>1. Head(inbox).type = "request" /\ Head(inbox).id = id
    BY <1>4
  <2>2. id \in Ids /\ Unread(id)
    BY <1>2, <2>1, RequestMessage DEF Unread
  <2>3. ASSUME NEW i \in DOMAIN inbox', inbox'[i].type = "request",
               inbox'[i].id = id
        PROVE  FALSE
    <3>1. inbox'[i] = Head(inbox)
      BY <1>2, <1>4, <2>3, RequestMessage
    <3>2. inbox[i + 1] = inbox[1] /\ i + 1 \in DOMAIN inbox /\ i \in Nat \ {0}
      BY <1>2, <3>1
    <3>3. i + 1 = 1
      BY <1>2, <2>1, <3>2 DEF AskedOnce
    <3> QED
      BY <3>2, <3>3
  <2> QED
    BY <2>2, <2>3 DEF Unread
<1>5. ASSUME NEW i \in DOMAIN inbox', NEW j \in DOMAIN inbox',
             inbox'[i].type = "request", inbox'[j] = inbox'[i]
      PROVE  i = j
  <2>1. i + 1 = j + 1
    BY <1>2, <1>5 DEF AskedOnce
  <2> QED
    BY <1>2, <2>1
<1> QED
  BY <1>2, <1>3, <1>4, <1>5

LEMMA InboxSent ==
    ASSUME TypeOK, NEW msg \in Message, inbox' = Append(inbox, msg)
    PROVE  /\ \A id : Unread(id)' <=>
                        Unread(id) \/ (msg.type = "request" /\ msg.id = id)
           /\ inbox' \in Seq(Message)
           /\ DOMAIN inbox' = DOMAIN inbox \cup {Len(inbox) + 1}
           /\ Len(inbox) \in Nat /\ DOMAIN inbox = 1..Len(inbox)
           /\ inbox'[Len(inbox) + 1] = msg
           /\ \A i \in DOMAIN inbox : inbox'[i] = inbox[i]
<1>1. inbox \in Seq(Message)
  BY DEF TypeOK
<1>2. /\ inbox' \in Seq(Message)
      /\ DOMAIN inbox' = DOMAIN inbox \cup {Len(inbox) + 1}
      /\ Len(inbox) \in Nat /\ DOMAIN inbox = 1..Len(inbox)
      /\ inbox'[Len(inbox) + 1] = msg
      /\ \A i \in DOMAIN inbox : inbox'[i] = inbox[i]
  BY <1>1, Appended
<1> QED
  BY <1>2 DEF Unread

LEMMA MainLoopTyped ==
    ASSUME TypeOK, LifeInv, MainLoop
    PROVE  TypeOK'
<1>1. CASE Poll
  BY <1>1 DEF TypeOK, Poll, clientVars, mainVars, workerVars, poolVars
<1>2. CASE HandleClient
  <2> DEFINE msg == Head(inbox)
  <2>1. /\ inbox' \in Seq(Message) /\ msg \in Message
        /\ msg.type = "request" => msg.id \in Ids /\ Unread(msg.id)
    BY <1>2, InboxPopped, RequestMessage DEF HandleClient, LifeInv
  <2>2. /\ selecting' = FALSE
        /\ UNCHANGED <<clientVars, tracked, writing, harvests, poolVars>>
        /\ \/ msg.type = "document" /\ OnDocument(msg.doc, msg.to)
           \/ msg.type = "request" /\ OnRequest(msg.id)
           \/ msg.type = "cancel" /\ OnCancel(msg.id)
    BY <1>2 DEF HandleClient
  <2> HIDE DEF msg
  <2>3. CASE msg.type = "document" /\ OnDocument(msg.doc, msg.to)
    <3>1. msg.doc \in Docs /\ msg.to \in Document \cup {None}
      BY <2>1, <2>3, MessageFields
    <3>2. msg.to # None => msg.to.text \in Texts
      BY <3>1 DEF Document
    <3> QED
      BY <2>1, <2>2, <2>3, <3>1, <3>2
         DEF OnDocument, TypeOK, clientVars, poolVars
  <2>4. CASE msg.type = "request" /\ OnRequest(msg.id)
    <3> DEFINE id == msg.id
               ask == asked[id]
    <3>1. /\ id \in Ids /\ responses[id] = <<>> /\ asked[id] \in Ask
      BY <2>1, <2>4 DEF LifeInv, AskedOnce, FreshInv, Untouched, TypeOK
    <3>2. /\ ask.doc \in Docs \cup {None}
          /\ ask.kind \in {"rename", "definition", "workspace"}
      BY <3>1, AskFields
    <3> HIDE DEF id, ask
    <3>3. CASE ask.doc # None /\ documents[ask.doc] = None
      <4>1. /\ Respond(id, Plain("null"))
            /\ UNCHANGED <<documents, inflight_reads, queued, closing,
                           read_rx, doomed>>
        BY <2>4, <3>3 DEF OnRequest, id, ask
      <4>2. /\ responses' \in [Ids -> Seq(Response)]
            /\ \A x \in Ids : Len(responses'[x]) <= 1
        BY <3>1, <4>1, RespondType, PlainType
      <4> QED
        BY <2>1, <2>2, <4>1, <4>2 DEF TypeOK, clientVars, poolVars
    <3>4. CASE ~ (ask.doc # None /\ documents[ask.doc] = None)
      <4> DEFINE doc == IF ask.doc = None
                        THEN [version |-> None, text |-> None]
                        ELSE documents[ask.doc]
      <4>1. Dispatch(id, ask.kind, ask.doc)
        BY <2>4, <3>4 DEF OnRequest, id, ask
      <4>2. /\ doc.version \in 1..MaxVersion \cup {None}
            /\ doc.text \in Texts \cup {None}
        <5>1. CASE ask.doc = None
          BY <5>1
        <5>2. CASE ask.doc # None
          <6>1. doc \in Document
            BY <3>2, <3>4, <5>2 DEF TypeOK
          <6> QED
            BY <6>1 DEF Document
        <5> QED
          BY <5>1, <5>2
      <4>3. /\ [uri |-> ask.doc, version |-> doc.version] \in ReadMeta
            /\ [id |-> id, kind |-> ask.kind, doc |-> ask.doc,
                text |-> doc.text] \in Job
        BY <3>1, <3>2, <4>2 DEF ReadMeta, Job
      <4>4. /\ inflight_reads' = [inflight_reads EXCEPT ![id] =
                  [uri |-> ask.doc, version |-> doc.version]]
            /\ read_rx' = Append(read_rx,
                 [id |-> id, kind |-> ask.kind, doc |-> ask.doc,
                  text |-> doc.text])
            /\ doomed' \subseteq doomed \cup {id}
            /\ UNCHANGED <<documents, responses, queued, closing>>
        BY <4>1 DEF Dispatch
      <4> HIDE DEF doc
      <4>5. read_rx' \in Seq(Job)
        BY <4>3, <4>4, Appended DEF TypeOK
      <4> QED
        BY <2>1, <2>2, <3>1, <4>3, <4>4, <4>5 DEF TypeOK, clientVars, poolVars
    <3> QED
      BY <3>3, <3>4
  <2>5. CASE msg.type = "cancel" /\ OnCancel(msg.id)
    <3>1. msg.id \in Ids
      BY <2>1, <2>5, MessageFields
    <3>2. CASE inflight_reads[msg.id] = None
      BY <2>1, <2>2, <2>5, <3>2 DEF OnCancel, TypeOK, clientVars, poolVars
    <3>3. CASE inflight_reads[msg.id] # None
      <4>1. /\ Respond(msg.id, Plain("cancelled"))
            /\ inflight_reads' = [inflight_reads EXCEPT ![msg.id] = None]
            /\ UNCHANGED <<documents, queued, closing, read_rx, doomed>>
        BY <2>5, <3>3 DEF OnCancel
      <4>2. responses[msg.id] = <<>>
        BY <3>1, <3>3 DEF LifeInv, OpenInv
      <4>3. /\ responses' \in [Ids -> Seq(Response)]
            /\ \A x \in Ids : Len(responses'[x]) <= 1
        BY <3>1, <4>1, <4>2, RespondType, PlainType
      <4> QED
        BY <2>1, <2>2, <4>1, <4>3 DEF TypeOK, clientVars, poolVars
    <3> QED
      BY <3>2, <3>3
  <2> QED
    BY <2>2, <2>3, <2>4, <2>5
<1>3. CASE HandleOutbound
  <2> DEFINE reply == Head(out_rx)
  <2>1. reply \in Reply /\ out_rx' \in Seq(Reply)
    BY <1>3, Popped DEF HandleOutbound, TypeOK
  <2>2. reply.id \in Ids /\ reply.response \in Response
    BY <2>1 DEF Reply
  <2>3. /\ selecting' = FALSE
        /\ OnReadReply(reply)
        /\ UNCHANGED <<clientVars, inbox, documents, doomed, workerVars,
                       running, lost>>
    BY <1>3 DEF HandleOutbound
  <2> HIDE DEF reply
  <2>4. CASE inflight_reads[reply.id] = None
    BY <2>1, <2>3, <2>4 DEF OnReadReply, TypeOK, clientVars, workerVars
  <2>5. CASE inflight_reads[reply.id] # None
    <3>1. PICK response \in Response :
            /\ Respond(reply.id, response)
            /\ inflight_reads' = [inflight_reads EXCEPT ![reply.id] = None]
      BY <2>2, <2>3, <2>5, PlainType DEF OnReadReply
    <3>2. responses[reply.id] = <<>>
      BY <2>2, <2>5 DEF LifeInv, OpenInv
    <3>3. /\ responses' \in [Ids -> Seq(Response)]
          /\ \A x \in Ids : Len(responses'[x]) <= 1
      BY <2>2, <3>1, <3>2, RespondType
    <3> QED
      BY <2>1, <2>3, <3>1, <3>3 DEF TypeOK, clientVars, workerVars
  <2> QED
    BY <2>4, <2>5
<1> QED
  BY <1>1, <1>2, <1>3 DEF MainLoop

LEMMA WriteType ==
    ASSUME NEW d \in Docs \cup {None}, NEW text \in Texts \cup {None}
    PROVE  [doc |-> d, text |-> text] \in Write
BY DEF Write

LEMMA WorkerTyped == TypeOK /\ AnalysisThread => TypeOK'
<1> SUFFICES ASSUME TypeOK, AnalysisThread
             PROVE  TypeOK'
  OBVIOUS
<1>1. CASE ReadArm
  <2>1. read_rx' \in Seq(Job) /\ Head(read_rx) \in Job
    BY <1>1, Popped DEF ReadArm, TypeOK
  <2> QED
    BY <1>1, <2>1 DEF ReadArm, TypeOK, clientVars, mainVars
<1>2. CASE Harvest
  <2>1. harvests' \in 0..MaxHarvests
    BY <1>2, BoundsAssumption DEF Harvest, TypeOK
  <2> QED
    BY <1>2, <2>1, WriteType DEF Harvest, TypeOK, clientVars, mainVars, poolVars
<1>3. CASE Commit
  <2>1. writing.doc \in Docs \cup {None} /\ writing.text \in Texts \cup {None}
    BY <1>3 DEF Commit, Idle, TypeOK, Write
  <2>2. tracked' \in [Docs -> Texts \cup {None}]
    BY <1>3, <2>1 DEF Commit, TypeOK
  <2> QED
    BY <1>3, <2>2 DEF Commit, TypeOK, clientVars, mainVars, poolVars
<1>4. ASSUME NEW d \in Docs, OnSync(d)
      PROVE  TypeOK'
  BY <1>4, WriteType, DocsAssumption
     DEF OnSync, TypeOK, clientVars, mainVars, poolVars
<1>5. ASSUME NEW d \in Docs, NEW s \in BOOLEAN, Upsert(d, s)
      PROVE  TypeOK'
  <2>1. queued[d] \in Texts \cup {None} /\ tracked[d] \in Texts \cup {None}
    BY DEF TypeOK
  <2>2. [doc |-> d, text |-> queued[d]] \in Write
    BY <2>1, WriteType
  <2>3. \/ writing' = writing
        \/ writing' = None
        \/ writing' = [doc |-> d, text |-> queued[d]]
    BY <1>5 DEF Upsert
  <2>4. writing' \in Write \cup {None}
    BY <2>2, <2>3 DEF TypeOK
  <2>5. tracked' \in [Docs -> Texts \cup {None}]
    BY <1>5, <2>1 DEF Upsert, TypeOK
  <2> QED
    BY <1>5, <2>4, <2>5 DEF Upsert, TypeOK, clientVars, mainVars, poolVars
<1> QED
  BY <1>1, <1>2, <1>3, <1>4, <1>5 DEF AnalysisThread

(* What a step of the pool does, and what of the rest it leaves alone.     *)
LEMMA PoolStep ==
    ASSUME TypeOK, Pool
    PROVE  \E job \in running :
             /\ job \in Job
             /\ running' = running \ {job}
             /\ UNCHANGED <<clientVars, inbox, selecting, mainVars, workerVars>>
             /\ \/ /\ \E sites \in Outcomes(job) :
                        /\ Result(sites) \in Response
                        /\ out_rx' = Append(out_rx,
                             [id |-> job.id, response |-> Result(sites)])
                   /\ lost' = lost
                \/ lost' = lost \cup {job.id} /\ out_rx' = out_rx
<1>1. PICK job \in running : Finish(job) \/ EndsSilently(job)
  BY DEF Pool, Panic, Unwind
<1>2. job \in Job
  BY DEF TypeOK
<1> QED
  BY <1>1, <1>2, OutcomesType DEF Finish, EndsSilently

LEMMA PoolTyped == TypeOK /\ Pool => TypeOK'
<1> SUFFICES ASSUME TypeOK, Pool
             PROVE  TypeOK'
  OBVIOUS
<1>1. PICK job \in running :
        /\ job \in Job
        /\ running' = running \ {job}
        /\ UNCHANGED <<clientVars, inbox, selecting, mainVars, workerVars>>
        /\ \/ /\ \E sites \in Outcomes(job) :
                   /\ Result(sites) \in Response
                   /\ out_rx' = Append(out_rx,
                        [id |-> job.id, response |-> Result(sites)])
              /\ lost' = lost
           \/ lost' = lost \cup {job.id} /\ out_rx' = out_rx
  BY PoolStep
<1>2. job.id \in Ids
  BY <1>1 DEF Job
<1>3. \A response \in Response :
        Append(out_rx, [id |-> job.id, response |-> response]) \in Seq(Reply)
  BY <1>2, Appended DEF TypeOK, Reply
<1>4. out_rx' \in Seq(Reply) /\ lost' \subseteq Ids
  BY <1>1, <1>2, <1>3 DEF TypeOK
<1> QED
  BY <1>1, <1>4 DEF TypeOK, clientVars, mainVars, workerVars

LEMMA TypeStep == TypeOK /\ LifeInv /\ [Next]_vars => TypeOK'
<1> SUFFICES ASSUME TypeOK, LifeInv, [Next]_vars
             PROVE  TypeOK'
  OBVIOUS
<1>1. CASE Next
  BY <1>1, ClientTyped, MainLoopTyped, WorkerTyped, PoolTyped DEF Next
<1>2. CASE UNCHANGED vars
  BY <1>2 DEF TypeOK, vars, clientVars, mainVars, workerVars, poolVars
<1> QED
  BY <1>1, <1>2

-----------------------------------------------------------------------------
(* The life of an id, step by step.                                        *)

LEMMA LifeInit == Init => LifeInv
<1> SUFFICES ASSUME Init
             PROVE  LifeInv
  OBVIOUS
<1>1. DOMAIN inbox = {} /\ DOMAIN read_rx = {} /\ DOMAIN out_rx = {}
  BY DEF Init
<1>2. \A id : ~ Unread(id) /\ ~ Carried(id)
  BY <1>1 DEF Init, Unread, Carried, InRead, InPool, InOut, Holds
<1>3. \A id \in Ids : inflight_reads[id] = None /\ responses[id] = <<>>
  BY DEF Init
<1>4. AskedOnce
  BY <1>1, <1>2 DEF AskedOnce
<1>5. OneCarrier
  BY <1>1, <1>2 DEF Init, OneCarrier, Distinct, Carried
<1>6. FreshInv /\ OpenInv
  BY <1>2, <1>3 DEF Init, FreshInv, Untouched, OpenInv
<1> QED
  BY <1>4, <1>5, <1>6 DEF LifeInv

(* Only the request itself moves: the rest of its life is untouched.       *)
LEMMA RestKept ==
    ASSUME LifeInv, UNCHANGED <<mainVars, read_rx, poolVars>>
    PROVE  /\ OneCarrier'
           /\ \A id : Untouched(id)' <=> Untouched(id)
           /\ OpenInv'
<1>1. \A id : /\ InRead(id)' <=> InRead(id)
              /\ InPool(id)' <=> InPool(id)
              /\ InOut(id)' <=> InOut(id)
              /\ Carried(id)' <=> Carried(id)
  BY DEF poolVars, InRead, InPool, InOut, Carried
<1>2. OneCarrier'
  BY <1>1 DEF LifeInv, OneCarrier, poolVars
<1>3. \A id : Untouched(id)' <=> Untouched(id)
  BY <1>1 DEF Untouched, mainVars, poolVars
<1>4. OpenInv'
  BY <1>1 DEF LifeInv, OpenInv, mainVars, poolVars
<1> QED
  BY <1>2, <1>3, <1>4

LEMMA ClientLife ==
    ASSUME TypeOK, LifeInv, Client
    PROVE  LifeInv'
<1>1. UNCHANGED <<mainVars, read_rx, poolVars>>
  BY DEF Client, ClientEdits, ClientCloses, ClientAsks, ClientCancels, Send,
         workerVars
<1>2. /\ OneCarrier'
      /\ \A id : Untouched(id)' <=> Untouched(id)
      /\ OpenInv'
  BY <1>1, RestKept
<1>3. ASSUME NEW msg \in Message, Send(msg), msg.type # "request", asked' = asked
      PROVE  AskedOnce' /\ FreshInv'
  <2>1. /\ \A id : Unread(id)' <=> Unread(id)
        /\ DOMAIN inbox' = DOMAIN inbox \cup {Len(inbox) + 1}
        /\ inbox'[Len(inbox) + 1] = msg
        /\ \A i \in DOMAIN inbox : inbox'[i] = inbox[i]
    BY <1>3, InboxSent DEF Send
  <2>2. AskedOnce'
    BY <1>3, <2>1 DEF LifeInv, AskedOnce
  <2>3. FreshInv'
    BY <1>2, <1>3, <2>1 DEF LifeInv, FreshInv
  <2> QED
    BY <2>2, <2>3
<1>4. ASSUME NEW d \in Docs, NEW t \in Texts, ClientEdits(d, t)
      PROVE  AskedOnce' /\ FreshInv'
  <2> DEFINE doc == [version |-> numbered[d] + 1, text |-> t]
  <2>1. doc \in Document
    BY <1>4, BoundsAssumption DEF ClientEdits, TypeOK, Document
  <2>2. [type |-> "document", doc |-> d, to |-> doc] \in Message
    BY <2>1, DocumentMessage
  <2>3. Send([type |-> "document", doc |-> d, to |-> doc]) /\ asked' = asked
    BY <1>4 DEF ClientEdits
  <2> HIDE DEF doc
  <2> QED
    BY <1>3, <2>2, <2>3
<1>5. ASSUME NEW d \in Docs, ClientCloses(d)
      PROVE  AskedOnce' /\ FreshInv'
  BY <1>3, <1>5, DocumentMessage DEF ClientCloses
<1>6. ASSUME NEW id \in Ids, ClientCancels(id)
      PROVE  AskedOnce' /\ FreshInv'
  BY <1>3, <1>6, IdMessage DEF ClientCancels, clientVars
<1>7. ASSUME NEW req \in Requests, ClientAsks(req[1], req[2])
      PROVE  AskedOnce' /\ FreshInv'
  <2>1. PICK id \in Ids, ask \in Ask : ClientAsks(id, ask)
    BY <1>7, RequestsAssumption
  <2> DEFINE msg == [type |-> "request", id |-> id]
  <2>2. msg \in Message
    BY IdMessage
  <2>3. /\ asked[id] = None
        /\ asked' = [asked EXCEPT ![id] = ask]
        /\ inbox' = Append(inbox, msg)
    BY <2>1 DEF ClientAsks, Send
  <2>4. /\ \A x : Unread(x)' <=> Unread(x) \/ x = id
        /\ DOMAIN inbox' = DOMAIN inbox \cup {Len(inbox) + 1}
        /\ inbox'[Len(inbox) + 1] = msg
        /\ \A i \in DOMAIN inbox : inbox'[i] = inbox[i]
    BY <2>2, <2>3, InboxSent
  <2>5. asked'[id] # None /\ \A x \in Ids : x # id => asked'[x] = asked[x]
    BY <2>3, AskFields DEF TypeOK
  <2>6. \A i \in DOMAIN inbox : inbox[i] # msg
    BY <2>3 DEF LifeInv, AskedOnce, Unread
  <2>7. AskedOnce'
    BY <2>4, <2>5, <2>6 DEF LifeInv, AskedOnce
  <2>8. FreshInv'
    BY <1>2, <2>3, <2>4, <2>5 DEF LifeInv, FreshInv
  <2> QED
    BY <2>7, <2>8
<1>8. AskedOnce' /\ FreshInv'
  BY <1>4, <1>5, <1>6, <1>7 DEF Client
<1> QED
  BY <1>2, <1>8 DEF LifeInv

(* A message that is no request, or is one that is answered at once.       *)
LEMMA HandledAtOnce ==
    ASSUME TypeOK, LifeInv, inbox # <<>>, inbox' = Tail(inbox), NEW id \in Ids,
           asked[id] # None, ~ Unread(id)',
           \A x \in Ids \ {id} : /\ inflight_reads'[x] = inflight_reads[x]
                                 /\ responses'[x] = responses[x],
           inflight_reads'[id] = None,
           UNCHANGED <<asked, doomed, read_rx, poolVars>>
    PROVE  LifeInv'
<1>1. /\ \A x : Unread(x)' => Unread(x)
      /\ \A i, j \in DOMAIN inbox' :
           inbox'[i].type = "request" /\ inbox'[j] = inbox'[i] => i = j
  BY InboxPopped DEF LifeInv
<1>2. \A x : /\ InRead(x)' <=> InRead(x)
             /\ InPool(x)' <=> InPool(x)
             /\ InOut(x)' <=> InOut(x)
             /\ Carried(x)' <=> Carried(x)
  BY DEF poolVars, InRead, InPool, InOut, Carried
<1>3. OneCarrier'
  BY <1>2 DEF LifeInv, OneCarrier, poolVars
<1>4. AskedOnce'
  BY <1>1 DEF LifeInv, AskedOnce
<1>5. ASSUME NEW x \in Ids, asked'[x] = None \/ Unread(x)'
      PROVE  Untouched(x)'
  <2>1. x # id /\ (asked[x] = None \/ Unread(x))
    BY <1>1, <1>5
  <2>2. Untouched(x)
    BY <2>1 DEF LifeInv, FreshInv
  <2> QED
    BY <1>2, <2>1, <2>2 DEF Untouched, poolVars
<1>6. FreshInv'
  BY <1>5 DEF FreshInv
<1>7. OpenInv'
  BY <1>2 DEF LifeInv, OpenInv, poolVars
<1> QED
  BY <1>3, <1>4, <1>6, <1>7 DEF LifeInv

LEMMA HandledOther ==
    ASSUME TypeOK, LifeInv, inbox # <<>>, inbox' = Tail(inbox),
           asked' = asked, UNCHANGED <<inflight_reads, responses, doomed>>,
           UNCHANGED <<read_rx, poolVars>>
    PROVE  LifeInv'
<1>1. /\ \A x : Unread(x)' => Unread(x)
      /\ \A i, j \in DOMAIN inbox' :
           inbox'[i].type = "request" /\ inbox'[j] = inbox'[i] => i = j
  BY InboxPopped DEF LifeInv
<1>2. \A x : /\ InRead(x)' <=> InRead(x)
             /\ InPool(x)' <=> InPool(x)
             /\ InOut(x)' <=> InOut(x)
             /\ Carried(x)' <=> Carried(x)
  BY DEF poolVars, InRead, InPool, InOut, Carried
<1>3. OneCarrier'
  BY <1>2 DEF LifeInv, OneCarrier, poolVars
<1>4. AskedOnce'
  BY <1>1 DEF LifeInv, AskedOnce
<1>5. FreshInv'
  BY <1>1, <1>2 DEF LifeInv, FreshInv, Untouched, poolVars
<1>6. OpenInv'
  BY <1>2 DEF LifeInv, OpenInv, poolVars
<1> QED
  BY <1>3, <1>4, <1>5, <1>6 DEF LifeInv

(* A request that is dispatched: its job is the id's only carrier.         *)
LEMMA DispatchLife ==
    ASSUME TypeOK, LifeInv, inbox # <<>>, inbox' = Tail(inbox), NEW id \in Ids,
           Head(inbox) = [type |-> "request", id |-> id],
           NEW job \in Job, job.id = id, read_rx' = Append(read_rx, job),
           NEW meta, inflight_reads' = [inflight_reads EXCEPT ![id] = meta],
           doomed' \subseteq doomed \cup {id},
           UNCHANGED <<asked, responses, poolVars>>
    PROVE  LifeInv'
<1>1. /\ \A x : Unread(x)' => Unread(x)
      /\ Unread(id) /\ ~ Unread(id)'
      /\ \A i, j \in DOMAIN inbox' :
           inbox'[i].type = "request" /\ inbox'[j] = inbox'[i] => i = j
  BY InboxPopped DEF LifeInv
<1>2. /\ asked[id] # None
      /\ inflight_reads[id] = None /\ responses[id] = <<>>
      /\ id \notin doomed \cup lost
      /\ ~ InRead(id) /\ ~ InPool(id) /\ ~ InOut(id)
  BY <1>1 DEF LifeInv, AskedOnce, FreshInv, Untouched, Carried
<1>3. /\ \A x : InRead(x)' <=> InRead(x) \/ x = id
      /\ Distinct(read_rx')
  <2>1. Distinct(read_rx) /\ ~ Holds(read_rx, job.id)
    BY <1>2 DEF LifeInv, OneCarrier, InRead
  <2> QED
    BY <2>1, KeyPushed DEF InRead, TypeOK
<1>4. \A x : (InPool(x)' <=> InPool(x)) /\ (InOut(x)' <=> InOut(x))
  BY DEF poolVars, InPool, InOut
<1>5. OneCarrier'
  BY <1>2, <1>3, <1>4 DEF LifeInv, OneCarrier, Carried, poolVars
<1>6. AskedOnce'
  BY <1>1 DEF LifeInv, AskedOnce
<1>7. FreshInv'
  <2> SUFFICES ASSUME NEW x \in Ids, asked'[x] = None \/ Unread(x)'
               PROVE  Untouched(x)'
    BY DEF FreshInv
  <2>1. x # id /\ (asked[x] = None \/ Unread(x))
    BY <1>1, <1>2
  <2>2. Untouched(x)
    BY <2>1 DEF LifeInv, FreshInv
  <2> QED
    BY <1>3, <1>4, <2>1, <2>2 DEF Untouched, Carried, poolVars, TypeOK
<1>8. OpenInv'
  <2> SUFFICES ASSUME NEW x \in Ids, inflight_reads'[x] # None
               PROVE  responses[x] = <<>> /\ (Carried(x)' \/ x \in lost)
    BY DEF OpenInv, poolVars
  <2>1. CASE x = id
    BY <1>2, <1>3, <2>1 DEF Carried
  <2>2. CASE x # id
    BY <1>3, <1>4, <2>2 DEF LifeInv, OpenInv, Carried, TypeOK
  <2> QED
    BY <2>1, <2>2
<1> QED
  BY <1>5, <1>6, <1>7, <1>8 DEF LifeInv

(* What taking a message amounts to: a document, a request answered null, a *)
(* request dispatched, or a cancel, with an entry to clear or without.     *)
LEMMA Handled ==
    ASSUME TypeOK, LifeInv, HandleClient
    PROVE  /\ inbox # <<>> /\ inbox' = Tail(inbox) /\ selecting' = FALSE
           /\ UNCHANGED <<clientVars, tracked, writing, harvests, poolVars>>
           /\ \/ \E d \in Docs, to \in Document \cup {None} :
                   /\ Head(inbox) = [type |-> "document", doc |-> d, to |-> to]
                   /\ OnDocument(d, to)
              \/ \E id \in Ids :
                   /\ Head(inbox) = [type |-> "request", id |-> id]
                   /\ asked[id] \in Ask
                   /\ asked[id].doc # None /\ documents[asked[id].doc] = None
                   /\ Respond(id, Plain("null"))
                   /\ UNCHANGED <<documents, inflight_reads, queued, closing,
                                  read_rx, doomed>>
              \/ \E id \in Ids :
                   /\ Head(inbox) = [type |-> "request", id |-> id]
                   /\ asked[id] \in Ask
                   /\ asked[id].doc # None => documents[asked[id].doc] \in Document
                   /\ Dispatch(id, asked[id].kind, asked[id].doc)
              \/ \E id \in Ids :
                   /\ Head(inbox) = [type |-> "cancel", id |-> id]
                   /\ OnCancel(id)
<1>1. Head(inbox) \in Message
  BY InboxPopped DEF HandleClient, LifeInv
<1>2. CASE Head(inbox).type = "document" /\ OnDocument(Head(inbox).doc, Head(inbox).to)
  <2>1. \E d \in Docs, to \in Document \cup {None} :
          Head(inbox) = [type |-> "document", doc |-> d, to |-> to]
    BY <1>1, <1>2 DEF Message
  <2> QED
    BY <1>2, <2>1 DEF HandleClient
<1>3. CASE Head(inbox).type = "request" /\ OnRequest(Head(inbox).id)
  <2>1. PICK id \in Ids : Head(inbox) = [type |-> "request", id |-> id]
    BY <1>1, <1>3, RequestMessage
  <2>2. Unread(id)
    BY <2>1, InboxPopped DEF HandleClient, LifeInv
  <2>3. asked[id] \in Ask
    BY <2>2 DEF LifeInv, AskedOnce, TypeOK
  <2>4. OnRequest(id)
    BY <1>3, <2>1
  <2>5. CASE asked[id].doc # None /\ documents[asked[id].doc] = None
    BY <2>1, <2>3, <2>4, <2>5 DEF OnRequest, HandleClient
  <2>6. CASE ~ (asked[id].doc # None /\ documents[asked[id].doc] = None)
    <3>1. asked[id].doc # None => documents[asked[id].doc] \in Document
      BY <2>3, <2>6, AskFields DEF TypeOK
    <3>2. Dispatch(id, asked[id].kind, asked[id].doc)
      BY <2>4, <2>6 DEF OnRequest
    <3> QED
      BY <2>1, <2>3, <3>1, <3>2 DEF HandleClient
  <2> QED
    BY <2>5, <2>6
<1>4. CASE Head(inbox).type = "cancel" /\ OnCancel(Head(inbox).id)
  <2>1. \E id \in Ids : Head(inbox) = [type |-> "cancel", id |-> id]
    BY <1>1, <1>4 DEF Message
  <2> QED
    BY <1>4, <2>1 DEF HandleClient
<1> QED
  BY <1>2, <1>3, <1>4 DEF HandleClient

(* The entry and the job of a dispatched request.                          *)
LEMMA Dispatched ==
    ASSUME TypeOK, NEW id \in Ids, asked[id] \in Ask,
           asked[id].doc # None => documents[asked[id].doc] \in Document,
           Dispatch(id, asked[id].kind, asked[id].doc)
    PROVE  \E version \in 1..MaxVersion \cup {None}, text \in Texts \cup {None} :
             /\ asked[id].doc # None =>
                  /\ version = documents[asked[id].doc].version
                  /\ text = documents[asked[id].doc].text
             /\ LET job == [id |-> id, kind |-> asked[id].kind,
                            doc |-> asked[id].doc, text |-> text]
                    meta == [uri |-> asked[id].doc, version |-> version]
                IN /\ job \in Job /\ meta \in ReadMeta
                   /\ read_rx' = Append(read_rx, job)
                   /\ inflight_reads' = [inflight_reads EXCEPT ![id] = meta]
             /\ doomed' = IF CancelWaits(id) THEN doomed \cup {id} ELSE doomed
             /\ UNCHANGED <<documents, responses, queued, closing>>
<1> DEFINE doc == IF asked[id].doc = None THEN [version |-> None, text |-> None]
                                          ELSE documents[asked[id].doc]
           job == [id |-> id, kind |-> asked[id].kind,
                   doc |-> asked[id].doc, text |-> doc.text]
           meta == [uri |-> asked[id].doc, version |-> doc.version]
<1>1. doc.version \in 1..MaxVersion \cup {None} /\ doc.text \in Texts \cup {None}
  <2>1. CASE asked[id].doc = None
    BY <2>1
  <2>2. CASE asked[id].doc # None
    <3>1. doc \in Document
      BY <2>2
    <3> QED
      BY <3>1 DEF Document
  <2> QED
    BY <2>1, <2>2
<1>2. job \in Job /\ meta \in ReadMeta
  BY <1>1, AskFields DEF Job, ReadMeta
<1>3. /\ read_rx' = Append(read_rx, job)
      /\ inflight_reads' = [inflight_reads EXCEPT ![id] = meta]
      /\ doomed' = IF CancelWaits(id) THEN doomed \cup {id} ELSE doomed
      /\ UNCHANGED <<documents, responses, queued, closing>>
  BY DEF Dispatch, CancelWaits
<1>4. asked[id].doc # None => doc = documents[asked[id].doc]
  OBVIOUS
<1> QED
  BY <1>1, <1>2, <1>3, <1>4

LEMMA HandleClientLife ==
    ASSUME TypeOK, LifeInv, HandleClient
    PROVE  LifeInv'
<1>1. /\ inbox # <<>> /\ inbox' = Tail(inbox)
      /\ UNCHANGED <<clientVars, poolVars>>
  BY Handled
<1>2. CASE \E d \in Docs, to \in Document \cup {None} : OnDocument(d, to)
  BY <1>1, <1>2, HandledOther DEF OnDocument, clientVars
<1>3. ASSUME NEW id \in Ids, Head(inbox) = [type |-> "request", id |-> id],
             Respond(id, Plain("null")),
             UNCHANGED <<documents, inflight_reads, queued, closing,
                         read_rx, doomed>>
      PROVE  LifeInv'
  <2>1. Unread(id) /\ ~ Unread(id)'
    BY <1>1, <1>3, InboxPopped DEF LifeInv
  <2>2. asked[id] # None /\ inflight_reads[id] = None
    BY <2>1 DEF LifeInv, AskedOnce, FreshInv, Untouched
  <2>3. \A x \in Ids \ {id} : responses'[x] = responses[x]
    BY <1>3 DEF Respond, TypeOK
  <2> QED
    BY <1>1, <1>3, <2>1, <2>2, <2>3, HandledAtOnce DEF clientVars
<1>4. ASSUME NEW id \in Ids, Head(inbox) = [type |-> "request", id |-> id],
             asked[id] \in Ask,
             asked[id].doc # None => documents[asked[id].doc] \in Document,
             Dispatch(id, asked[id].kind, asked[id].doc)
      PROVE  LifeInv'
  <2>1. PICK job \in Job, meta \in ReadMeta :
          /\ job.id = id
          /\ read_rx' = Append(read_rx, job)
          /\ inflight_reads' = [inflight_reads EXCEPT ![id] = meta]
          /\ doomed' \subseteq doomed \cup {id}
          /\ responses' = responses
    <3>1. PICK version \in 1..MaxVersion \cup {None},
               text \in Texts \cup {None} :
            /\ LET job == [id |-> id, kind |-> asked[id].kind,
                           doc |-> asked[id].doc, text |-> text]
                   meta == [uri |-> asked[id].doc, version |-> version]
               IN /\ job \in Job /\ meta \in ReadMeta
                  /\ read_rx' = Append(read_rx, job)
                  /\ inflight_reads' = [inflight_reads EXCEPT ![id] = meta]
            /\ doomed' = IF CancelWaits(id) THEN doomed \cup {id} ELSE doomed
            /\ responses' = responses
      BY <1>4, Dispatched
    <3>2. doomed' \subseteq doomed \cup {id}
      BY <3>1
    <3> QED
      BY <3>1, <3>2
  <2> QED
    BY <1>1, <1>4, <2>1, DispatchLife DEF clientVars
<1>5. ASSUME NEW id \in Ids, OnCancel(id)
      PROVE  LifeInv'
  <2>1. CASE inflight_reads[id] = None
    BY <1>1, <1>5, <2>1, HandledOther DEF OnCancel, clientVars
  <2>2. CASE inflight_reads[id] # None
    <3>1. asked[id] # None /\ ~ Unread(id)
      BY <2>2 DEF LifeInv, FreshInv, Untouched
    <3>2. ~ Unread(id)'
      BY <1>1, <3>1, InboxPopped DEF LifeInv
    <3>3. /\ inflight_reads' = [inflight_reads EXCEPT ![id] = None]
          /\ Respond(id, Plain("cancelled"))
          /\ UNCHANGED <<doomed, read_rx>>
      BY <1>5, <2>2 DEF OnCancel
    <3>4. \A x \in Ids \ {id} : /\ responses'[x] = responses[x]
                                /\ inflight_reads'[x] = inflight_reads[x]
      BY <3>3 DEF Respond, TypeOK
    <3>5. inflight_reads'[id] = None
      BY <3>3 DEF TypeOK
    <3> QED
      BY <1>1, <3>1, <3>2, <3>3, <3>4, <3>5, HandledAtOnce DEF clientVars
  <2> QED
    BY <2>1, <2>2
<1> QED
  BY <1>2, <1>3, <1>4, <1>5, Handled

(* The gate takes a reply off the channel.                                 *)
LEMMA Gated ==
    ASSUME TypeOK, LifeInv, HandleOutbound
    PROVE  \E reply \in Reply :
             /\ out_rx # <<>> /\ reply = Head(out_rx)
             /\ reply.id \in Ids /\ reply.response \in Response
             /\ out_rx' = Tail(out_rx) /\ out_rx' \in Seq(Reply)
             /\ Distinct(out_rx') /\ InOut(reply.id)
             /\ \A x : InOut(x)' <=> InOut(x) /\ x # reply.id
             /\ asked[reply.id] # None /\ ~ Unread(reply.id)
             /\ selecting /\ selecting' = FALSE
             /\ UNCHANGED <<clientVars, inbox, documents, doomed, workerVars,
                            running, lost>>
             /\ IF inflight_reads[reply.id] = None
                THEN UNCHANGED <<inflight_reads, responses>>
                ELSE /\ inflight_reads' = [inflight_reads EXCEPT ![reply.id] = None]
                     /\ responses[reply.id] = <<>>
                     /\ Respond(reply.id,
                          IF Current(inflight_reads[reply.id])
                          THEN reply.response ELSE Plain("modified"))
<1>1. PICK reply \in Reply : reply = Head(out_rx) /\ out_rx # <<>>
  BY Popped DEF HandleOutbound, TypeOK
<1>2. reply.id \in Ids /\ reply.response \in Response
  BY <1>1 DEF Reply
<1>3. out_rx' = Tail(out_rx) /\ out_rx' \in Seq(Reply)
  BY <1>1, Popped DEF HandleOutbound, TypeOK
<1>4. /\ \A x : InOut(x)' <=> InOut(x) /\ x # reply.id
      /\ InOut(reply.id) /\ Distinct(out_rx')
  BY <1>1, <1>3, KeyPopped DEF InOut, TypeOK, LifeInv, OneCarrier
<1>5. asked[reply.id] # None /\ ~ Unread(reply.id)
  BY <1>2, <1>4 DEF LifeInv, FreshInv, Untouched, Carried
<1>6. inflight_reads[reply.id] # None => responses[reply.id] = <<>>
  BY <1>2 DEF LifeInv, OpenInv
<1>7. OnReadReply(reply)
  BY <1>1 DEF HandleOutbound
<1> QED
  BY <1>1, <1>2, <1>3, <1>4, <1>5, <1>6, <1>7 DEF HandleOutbound, OnReadReply

LEMMA HandleOutboundLife ==
    ASSUME TypeOK, LifeInv, HandleOutbound
    PROVE  LifeInv'
<1>1. PICK reply \in Reply :
        /\ reply.id \in Ids
        /\ Distinct(out_rx') /\ InOut(reply.id)
        /\ \A x : InOut(x)' <=> InOut(x) /\ x # reply.id
        /\ asked[reply.id] # None /\ ~ Unread(reply.id)
        /\ UNCHANGED <<clientVars, inbox, documents, doomed, workerVars,
                       running, lost>>
        /\ \A x \in Ids \ {reply.id} :
             /\ inflight_reads'[x] = inflight_reads[x]
             /\ responses'[x] = responses[x]
        /\ inflight_reads'[reply.id] = None
  BY Gated DEF Respond, TypeOK
<1>2. \A x : /\ InRead(x)' <=> InRead(x)
             /\ InPool(x)' <=> InPool(x)
             /\ Unread(x)' <=> Unread(x)
  BY <1>1 DEF InRead, InPool, Unread, workerVars
<1>3. OneCarrier'
  BY <1>1, <1>2 DEF LifeInv, OneCarrier, Carried, workerVars
<1>4. AskedOnce'
  BY <1>1, <1>2 DEF LifeInv, AskedOnce, clientVars
<1>5. FreshInv'
  <2> SUFFICES ASSUME NEW x \in Ids, asked'[x] = None \/ Unread(x)'
               PROVE  Untouched(x)'
    BY DEF FreshInv
  <2>1. x # reply.id /\ (asked[x] = None \/ Unread(x))
    BY <1>1, <1>2 DEF clientVars
  <2>2. Untouched(x)
    BY <2>1 DEF LifeInv, FreshInv
  <2> QED
    BY <1>1, <1>2, <2>1, <2>2 DEF Untouched, Carried
<1>6. OpenInv'
  <2> SUFFICES ASSUME NEW x \in Ids, inflight_reads'[x] # None
               PROVE  responses'[x] = <<>> /\ (Carried(x)' \/ x \in lost')
    BY DEF OpenInv
  <2>1. x # reply.id /\ inflight_reads[x] # None
    BY <1>1
  <2> QED
    BY <1>1, <1>2, <2>1 DEF LifeInv, OpenInv, Carried
<1> QED
  BY <1>3, <1>4, <1>5, <1>6 DEF LifeInv

(* A carrier that moves on is still the only one.                          *)
LEMMA MovedLife ==
    ASSUME LifeInv, NEW id \in Ids,
           UNCHANGED <<clientVars, inbox, mainVars>>,
           lost \subseteq lost', lost' \subseteq lost \cup {id},
           Carried(id), Carried(id)' \/ id \in lost',
           \A x \in Ids \ {id} : Carried(x)' <=> Carried(x),
           OneCarrier'
    PROVE  LifeInv'
<1>1. \A x : Unread(x)' <=> Unread(x)
  BY DEF Unread
<1>2. AskedOnce'
  BY <1>1 DEF LifeInv, AskedOnce, clientVars
<1>3. FreshInv'
  <2> SUFFICES ASSUME NEW x \in Ids, asked'[x] = None \/ Unread(x)'
               PROVE  Untouched(x)'
    BY DEF FreshInv
  <2>1. Untouched(x)
    BY <1>1 DEF LifeInv, FreshInv, clientVars
  <2>2. x # id
    BY <2>1 DEF Untouched
  <2> QED
    BY <2>1, <2>2 DEF Untouched, mainVars
<1>4. OpenInv'
  <2> SUFFICES ASSUME NEW x \in Ids, inflight_reads[x] # None
               PROVE  responses[x] = <<>> /\ (Carried(x)' \/ x \in lost')
    BY DEF OpenInv, mainVars
  <2> QED
    BY DEF LifeInv, OpenInv
<1> QED
  BY <1>2, <1>3, <1>4 DEF LifeInv

LEMMA ReadArmLife ==
    ASSUME TypeOK, LifeInv, ReadArm
    PROVE  LifeInv'
<1>1. PICK job \in Job : job = Head(read_rx) /\ read_rx # <<>>
  BY Popped DEF ReadArm, TypeOK
<1>2. /\ read_rx' = Tail(read_rx) /\ running' = running \cup {job}
      /\ UNCHANGED <<clientVars, inbox, mainVars, out_rx, lost>>
  BY <1>1 DEF ReadArm
<1>3. job.id \in Ids
  BY DEF Job
<1>4. /\ \A x : InRead(x)' <=> InRead(x) /\ x # job.id
      /\ InRead(job.id) /\ Distinct(read_rx')
  BY <1>1, <1>2, KeyPopped DEF InRead, TypeOK, LifeInv, OneCarrier
<1>5. /\ \A x : InPool(x)' <=> InPool(x) \/ x = job.id
      /\ \A x : InOut(x)' <=> InOut(x)
  BY <1>2 DEF InPool, InOut
<1>6. ~ InPool(job.id) /\ ~ InOut(job.id) /\ job.id \notin lost
  BY <1>3, <1>4 DEF LifeInv, OneCarrier, Carried
<1>7. \A j, k \in running' : j.id = k.id => j = k
  BY <1>2, <1>6 DEF LifeInv, OneCarrier, InPool
<1>8. OneCarrier'
  BY <1>2, <1>4, <1>5, <1>6, <1>7 DEF LifeInv, OneCarrier, Carried
<1>9. /\ Carried(job.id) /\ Carried(job.id)'
      /\ \A x \in Ids \ {job.id} : Carried(x)' <=> Carried(x)
  BY <1>4, <1>5 DEF Carried
<1> QED
  BY <1>2, <1>3, <1>8, <1>9, MovedLife

LEMMA PoolLife ==
    ASSUME TypeOK, LifeInv, Pool
    PROVE  LifeInv'
<1>1. PICK job \in running :
        /\ job \in Job
        /\ running' = running \ {job}
        /\ UNCHANGED <<clientVars, inbox, selecting, mainVars, workerVars>>
        /\ \/ /\ \E sites \in Outcomes(job) :
                   /\ Result(sites) \in Response
                   /\ out_rx' = Append(out_rx,
                        [id |-> job.id, response |-> Result(sites)])
              /\ lost' = lost
           \/ lost' = lost \cup {job.id} /\ out_rx' = out_rx
  BY PoolStep
<1>2. job.id \in Ids /\ InPool(job.id)
  BY <1>1 DEF Job, InPool
<1>3. /\ \A x : InRead(x)' <=> InRead(x)
      /\ \A x : InPool(x)' <=> InPool(x) /\ x # job.id
  BY <1>1 DEF InRead, InPool, workerVars, LifeInv, OneCarrier
<1>4. ~ InRead(job.id) /\ ~ InOut(job.id) /\ job.id \notin lost
  BY <1>2 DEF LifeInv, OneCarrier, Carried
<1>5. Distinct(read_rx') /\ \A j, k \in running' : j.id = k.id => j = k
  BY <1>1 DEF LifeInv, OneCarrier, workerVars
<1>6. CASE /\ \E sites \in Outcomes(job) :
                /\ Result(sites) \in Response
                /\ out_rx' = Append(out_rx,
                     [id |-> job.id, response |-> Result(sites)])
           /\ lost' = lost
  <2>1. PICK reply \in Reply : reply.id = job.id /\ out_rx' = Append(out_rx, reply)
    BY <1>2, <1>6 DEF Reply
  <2>2. /\ \A x : InOut(x)' <=> InOut(x) \/ x = job.id
        /\ Distinct(out_rx')
    <3>1. Distinct(out_rx) /\ ~ Holds(out_rx, reply.id)
      BY <1>4, <2>1 DEF LifeInv, OneCarrier, InOut
    <3> QED
      BY <2>1, <3>1, KeyPushed DEF InOut, TypeOK
  <2>3. OneCarrier'
    BY <1>3, <1>4, <1>5, <1>6, <2>2 DEF LifeInv, OneCarrier, Carried
  <2>4. /\ Carried(job.id) /\ Carried(job.id)'
        /\ \A x \in Ids \ {job.id} : Carried(x)' <=> Carried(x)
    BY <1>2, <1>3, <2>2 DEF Carried
  <2> QED
    BY <1>1, <1>2, <1>6, <2>3, <2>4, MovedLife
<1>7. CASE lost' = lost \cup {job.id} /\ out_rx' = out_rx
  <2>1. \A x : InOut(x)' <=> InOut(x)
    BY <1>7 DEF InOut
  <2>2. OneCarrier'
    BY <1>3, <1>4, <1>5, <1>7, <2>1 DEF LifeInv, OneCarrier, Carried
  <2>3. /\ Carried(job.id)
        /\ \A x \in Ids \ {job.id} : Carried(x)' <=> Carried(x)
    BY <1>2, <1>3, <2>1 DEF Carried
  <2> QED
    BY <1>1, <1>2, <1>7, <2>2, <2>3, MovedLife
<1> QED
  BY <1>1, <1>6, <1>7

LEMMA LifeStep == TypeOK /\ LifeInv /\ [Next]_vars => LifeInv'
<1> SUFFICES ASSUME TypeOK, LifeInv, [Next]_vars
             PROVE  LifeInv'
  OBVIOUS
<1>1. ASSUME UNCHANGED <<clientVars, inbox, mainVars, read_rx, poolVars>>
      PROVE  LifeInv'
  <2>1. /\ OneCarrier'
        /\ \A id : Untouched(id)' <=> Untouched(id)
        /\ OpenInv'
    BY <1>1, RestKept
  <2>2. \A id : Unread(id)' <=> Unread(id)
    BY <1>1 DEF Unread
  <2>3. AskedOnce'
    BY <1>1, <2>2 DEF LifeInv, AskedOnce, clientVars
  <2>4. FreshInv'
    BY <1>1, <2>1, <2>2 DEF LifeInv, FreshInv, clientVars
  <2> QED
    BY <2>1, <2>3, <2>4 DEF LifeInv
<1>2. CASE Client
  BY <1>2, ClientLife
<1>3. CASE Poll
  BY <1>1, <1>3 DEF Poll, workerVars
<1>4. CASE HandleClient
  BY <1>4, HandleClientLife
<1>5. CASE HandleOutbound
  BY <1>5, HandleOutboundLife
<1>6. CASE ReadArm
  BY <1>6, ReadArmLife
<1>7. CASE AnalysisThread /\ ~ ReadArm
  BY <1>1, <1>7 DEF AnalysisThread, Harvest, Commit, OnSync, Upsert
<1>8. CASE Pool
  BY <1>8, PoolLife
<1>9. CASE UNCHANGED vars
  BY <1>1, <1>9 DEF vars, workerVars
<1> QED
  BY <1>2, <1>3, <1>4, <1>5, <1>6, <1>7, <1>8, <1>9 DEF Next, MainLoop

LEMMA LifeCorrect == Spec => [](TypeOK /\ LifeInv)
<1>1. Init => TypeOK /\ LifeInv
  BY InitTyped, LifeInit
<1>2. TypeOK /\ LifeInv /\ [Next]_vars => (TypeOK /\ LifeInv)'
  BY TypeStep, LifeStep
<1> QED
  BY <1>1, <1>2, PTL DEF Spec

(* Whatever is edited, closed and cancelled, every variable keeps its type;*)
(* in particular no request is ever answered twice.  (on_read_reply and    *)
(* on_cancel remove the in-flight entry they answer for.)                  *)
THEOREM TypeCorrect == Spec => []TypeOK
BY LifeCorrect, PTL

-----------------------------------------------------------------------------
(* Every read in flight has one carrier.                                   *)

LEMMA CarriedByOne ==
    ASSUME TypeOK, LifeInv, NEW id \in Ids, Carried(id)
    PROVE  \E c : Carriers(id) = {c}
<1> DEFINE InR == {<<"read_rx", i>> : i \in {j \in DOMAIN read_rx : read_rx[j].id = id}}
           InP == {<<"pool", job>> : job \in {j \in running : j.id = id}}
           InO == {<<"out_rx", i>> : i \in {j \in DOMAIN out_rx : out_rx[j].id = id}}
<1>1. Carriers(id) = InR \cup InP \cup InO
  BY DEF Carriers
<1>2. InR # {} <=> InRead(id)
  BY DEF InRead, Holds
<1>3. InP # {} <=> InPool(id)
  BY DEF InPool
<1>4. InO # {} <=> InOut(id)
  BY DEF InOut, Holds
<1>5. \A c, e \in InR : c = e
  BY DEF LifeInv, OneCarrier, Distinct
<1>6. \A c, e \in InP : c = e
  BY DEF LifeInv, OneCarrier
<1>7. \A c, e \in InO : c = e
  BY DEF LifeInv, OneCarrier, Distinct
<1>8. /\ ~ (InRead(id) /\ InPool(id))
      /\ ~ (InRead(id) /\ InOut(id))
      /\ ~ (InPool(id) /\ InOut(id))
  BY DEF LifeInv, OneCarrier
<1> HIDE DEF InR, InP, InO
<1>9. Carriers(id) # {} /\ \A c, e \in Carriers(id) : c = e
  BY <1>1, <1>2, <1>3, <1>4, <1>5, <1>6, <1>7, <1>8 DEF Carried
<1>10. PICK c : c \in Carriers(id)
  BY <1>9
<1>11. Carriers(id) = {c}
  BY <1>9, <1>10
<1> QED
  BY <1>11

LEMMA CarriedByNone ==
    ASSUME NEW id, ~ Carried(id)
    PROVE  Carriers(id) = {}
BY DEF Carriers, Carried, InRead, InPool, InOut, Holds

LEMMA CarriersCounted == TypeOK /\ LifeInv => ReadsAreCarried
<1> SUFFICES ASSUME TypeOK, LifeInv, NEW id \in Ids, inflight_reads[id] # None
             PROVE  Cardinality(Carriers(id)) = IF id \in lost THEN 0 ELSE 1
  BY DEF ReadsAreCarried
<1>1. CASE id \in lost
  <2>1. Carriers(id) = {}
    BY <1>1, CarriedByNone DEF LifeInv, OneCarrier
  <2> QED
    BY <1>1, <2>1, FS_EmptySet
<1>2. CASE id \notin lost
  <2>1. Carried(id)
    BY <1>2 DEF LifeInv, OpenInv
  <2>2. PICK c : Carriers(id) = {c}
    BY <2>1, CarriedByOne
  <2> QED
    BY <1>2, <2>2, FS_Singleton
<1> QED
  BY <1>1, <1>2

(* A read in flight is in exactly one place: on its way to the analysis    *)
(* thread, on the pool, or on its way back, unless its job unwound, and    *)
(* then in none.  (dispatch_read, the read arm, the pool's job and         *)
(* on_read_reply pass it on and nothing drops or doubles it, whatever      *)
(* write cancels the job's snapshot.)                                      *)
THEOREM ReadsCarried == Spec => []ReadsAreCarried
BY LifeCorrect, CarriersCounted, PTL

-----------------------------------------------------------------------------
(* A cancel in the client's channel wins.                                  *)

LEMMA CancelKept ==
    ASSUME TypeOK, NEW msg \in Message, inbox' = Append(inbox, msg)
    PROVE  \A id : CancelWaits(id) => CancelWaits(id)'
BY InboxSent DEF CancelWaits

LEMMA CancelPopped ==
    ASSUME TypeOK, inbox # <<>>, inbox' = Tail(inbox)
    PROVE  \A id : CancelWaits(id) =>
                     \/ Head(inbox) = [type |-> "cancel", id |-> id]
                     \/ CancelWaits(id)'
<1>1. inbox \in Seq(Message)
  BY DEF TypeOK
<1>2. /\ Head(inbox) = inbox[1]
      /\ \A i \in DOMAIN inbox :
           i = 1 \/ (i - 1 \in DOMAIN inbox' /\ inbox'[i - 1] = inbox[i])
  BY <1>1, Popped
<1> QED
  BY <1>2 DEF CancelWaits

LEMMA AnsweredOnce ==
    ASSUME TypeOK, NEW id \in Ids, responses[id] = <<>>,
           NEW response \in Response, Respond(id, response)
    PROVE  /\ responses' = [responses EXCEPT ![id] = <<response>>]
           /\ responses'[id] = <<response>>
           /\ \A x \in Ids \ {id} : responses'[x] = responses[x]
<1>1. Append(<<>>, response) = <<response>>
  OBVIOUS
<1>2. responses' = [responses EXCEPT ![id] = <<response>>]
  BY <1>1 DEF Respond, TypeOK
<1> QED
  BY <1>2 DEF TypeOK

LEMMA DoomedHandled ==
    ASSUME TypeOK, LifeInv, DoomedInv, HandleClient
    PROVE  DoomedInv'
<1>1. /\ inbox # <<>> /\ inbox' = Tail(inbox) /\ selecting' = FALSE
  BY Handled
<1>2. ASSUME NEW d, NEW to,
             Head(inbox) = [type |-> "document", doc |-> d, to |-> to],
             OnDocument(d, to)
      PROVE  DoomedInv'
  <2>1. UNCHANGED <<inflight_reads, responses, doomed>>
    BY <1>2 DEF OnDocument
  <2>2. Head(inbox).type = "document"
    BY <1>2
  <2>3. \A x : CancelWaits(x) => CancelWaits(x)'
    BY <1>1, <2>2, CancelPopped
  <2> QED
    BY <1>1, <2>1, <2>3 DEF DoomedInv
<1>3. ASSUME NEW id \in Ids, Head(inbox) = [type |-> "request", id |-> id]
      PROVE  /\ id \notin doomed /\ responses[id] = <<>>
             /\ \A x : CancelWaits(x) => CancelWaits(x)'
  <2>1. Unread(id)
    BY <1>1, <1>3, InboxPopped DEF LifeInv
  <2>2. id \notin doomed /\ responses[id] = <<>>
    BY <2>1 DEF LifeInv, FreshInv, Untouched
  <2>3. Head(inbox).type = "request"
    BY <1>3
  <2>4. \A x : CancelWaits(x) => CancelWaits(x)'
    BY <1>1, <2>3, CancelPopped
  <2> QED
    BY <2>2, <2>4
<1>4. ASSUME NEW id \in Ids, Head(inbox) = [type |-> "request", id |-> id],
             Respond(id, Plain("null")), UNCHANGED <<inflight_reads, doomed>>
      PROVE  DoomedInv'
  <2>1. \A x \in Ids \ {id} : responses'[x] = responses[x]
    BY <1>4 DEF Respond, TypeOK
  <2>2. id \notin doomed /\ \A x : CancelWaits(x) => CancelWaits(x)'
    BY <1>3, <1>4
  <2>3. \A x \in doomed : x \in Ids \ {id}
    BY <2>2 DEF TypeOK
  <2> QED
    BY <1>1, <1>4, <2>1, <2>2, <2>3 DEF DoomedInv
<1>5. ASSUME NEW id \in Ids, Head(inbox) = [type |-> "request", id |-> id],
             asked[id] \in Ask,
             asked[id].doc # None => documents[asked[id].doc] \in Document,
             Dispatch(id, asked[id].kind, asked[id].doc)
      PROVE  DoomedInv'
  <2>1. PICK meta \in ReadMeta :
          /\ inflight_reads' = [inflight_reads EXCEPT ![id] = meta]
          /\ doomed' = IF CancelWaits(id) THEN doomed \cup {id} ELSE doomed
          /\ responses' = responses
    BY <1>5, Dispatched
  <2>2. DOMAIN responses[id] = {}
    BY <1>3, <1>5
  <2>3. \A x \in Ids \ {id} : inflight_reads'[x] = inflight_reads[x]
    BY <2>1 DEF TypeOK
  <2>4. \A x : CancelWaits(x) => CancelWaits(x)'
    BY <1>3, <1>5
  <2>5. \A x \in doomed' : \/ x \in doomed \ {id} /\ x \in Ids
                           \/ x = id /\ CancelWaits(id)
    <3>1. doomed \subseteq Ids
      BY DEF TypeOK
    <3>2. id \notin doomed
      BY <1>3, <1>5
    <3>3. CASE CancelWaits(id)
      BY <2>1, <3>1, <3>2, <3>3
    <3>4. CASE ~ CancelWaits(id)
      BY <2>1, <3>1, <3>2, <3>4
    <3> QED
      BY <3>3, <3>4
  <2>6. ASSUME NEW x \in doomed'
        PROVE  /\ inflight_reads'[x] # None => CancelWaits(x)'
               /\ \A i \in DOMAIN responses'[x] :
                    responses'[x][i].kind = "cancelled"
    <3>1. CASE x = id /\ CancelWaits(id)
      BY <2>1, <2>2, <2>4, <3>1
    <3>2. CASE x \in doomed \ {id} /\ x \in Ids
      BY <2>1, <2>3, <2>4, <3>2 DEF DoomedInv
    <3> QED
      BY <2>5, <3>1, <3>2
  <2> QED
    BY <1>1, <2>6 DEF DoomedInv
<1>6. ASSUME NEW id \in Ids, Head(inbox) = [type |-> "cancel", id |-> id],
             OnCancel(id)
      PROVE  DoomedInv'
  <2>1. \A x \in Ids \ {id} : CancelWaits(x) => CancelWaits(x)'
    <3>1. \A x : x # id => Head(inbox) # [type |-> "cancel", id |-> x]
      BY <1>6
    <3> QED
      BY <1>1, <3>1, CancelPopped
  <2>2. CASE inflight_reads[id] = None
    <3>1. UNCHANGED <<inflight_reads, responses, doomed>>
      BY <1>6, <2>2 DEF OnCancel
    <3> QED
      BY <1>1, <2>1, <2>2, <3>1 DEF DoomedInv, TypeOK
  <2>3. CASE inflight_reads[id] # None
    <3>1. /\ inflight_reads' = [inflight_reads EXCEPT ![id] = None]
          /\ Respond(id, Plain("cancelled"))
          /\ doomed' = doomed
      BY <1>6, <2>3 DEF OnCancel
    <3>2. responses[id] = <<>>
      BY <2>3 DEF LifeInv, OpenInv
    <3>3. /\ responses'[id] = <<Plain("cancelled")>>
          /\ \A x \in Ids \ {id} : responses'[x] = responses[x]
      BY <3>1, <3>2, AnsweredOnce, PlainType
    <3>4. \A i \in DOMAIN responses'[id] : responses'[id][i].kind = "cancelled"
      BY <3>3 DEF Plain
    <3>5. /\ inflight_reads'[id] = None
          /\ \A x \in Ids \ {id} : inflight_reads'[x] = inflight_reads[x]
      BY <3>1 DEF TypeOK
    <3> QED
      BY <1>1, <2>1, <3>1, <3>3, <3>4, <3>5 DEF DoomedInv, TypeOK
  <2> QED
    BY <2>2, <2>3
<1> QED
  BY <1>2, <1>4, <1>5, <1>6, Handled

LEMMA DoomedGated ==
    ASSUME TypeOK, LifeInv, DoomedInv, HandleOutbound
    PROVE  DoomedInv'
<1>1. PICK reply \in Reply :
        /\ reply.id \in Ids
        /\ selecting /\ selecting' = FALSE
        /\ inbox' = inbox /\ doomed' = doomed
        /\ inflight_reads[reply.id] = None =>
             UNCHANGED <<inflight_reads, responses>>
        /\ \A x \in Ids \ {reply.id} :
             /\ inflight_reads'[x] = inflight_reads[x]
             /\ responses'[x] = responses[x]
        /\ inflight_reads'[reply.id] = None
  BY Gated DEF Respond, TypeOK
<1>2. \A x : CancelWaits(x)' <=> CancelWaits(x)
  BY <1>1 DEF CancelWaits
<1>3. ASSUME NEW x \in doomed
      PROVE  /\ inflight_reads'[x] # None => CancelWaits(x)'
             /\ \A i \in DOMAIN responses'[x] : responses'[x][i].kind = "cancelled"
  <2>1. inflight_reads[x] = None
    BY <1>1 DEF DoomedInv
  <2> QED
    BY <1>1, <2>1 DEF DoomedInv, TypeOK
<1> QED
  BY <1>1, <1>2, <1>3 DEF DoomedInv

LEMMA DoomedStep ==
    TypeOK /\ LifeInv /\ DoomedInv /\ [Next]_vars => DoomedInv'
<1> SUFFICES ASSUME TypeOK, LifeInv, DoomedInv, [Next]_vars
             PROVE  DoomedInv'
  OBVIOUS
<1>1. CASE UNCHANGED <<inbox, selecting, mainVars>>
  BY <1>1 DEF DoomedInv, CancelWaits, mainVars
<1>2. ASSUME NEW msg \in Message, Send(msg)
      PROVE  DoomedInv'
  BY <1>2, CancelKept DEF Send, DoomedInv, mainVars
<1>3. CASE Client
  <2>1. ASSUME NEW d \in Docs, NEW t \in Texts, ClientEdits(d, t)
        PROVE  \E msg \in Message : Send(msg)
    <3> DEFINE doc == [version |-> numbered[d] + 1, text |-> t]
    <3>1. doc \in Document
      BY <2>1, BoundsAssumption DEF ClientEdits, TypeOK, Document
    <3>2. [type |-> "document", doc |-> d, to |-> doc] \in Message
      BY <3>1, DocumentMessage
    <3>3. Send([type |-> "document", doc |-> d, to |-> doc])
      BY <2>1 DEF ClientEdits
    <3> QED
      BY <3>2, <3>3
  <2>2. ASSUME NEW d \in Docs, ClientCloses(d)
        PROVE  \E msg \in Message : Send(msg)
    BY <2>2, DocumentMessage DEF ClientCloses
  <2>3. ASSUME NEW id \in Ids, ClientCancels(id)
        PROVE  \E msg \in Message : Send(msg)
    BY <2>3, IdMessage DEF ClientCancels
  <2>4. ASSUME NEW id \in Ids, NEW ask, ClientAsks(id, ask)
        PROVE  \E msg \in Message : Send(msg)
    BY <2>4, IdMessage DEF ClientAsks
  <2>5. \E msg \in Message : Send(msg)
    BY <1>3, <2>1, <2>2, <2>3, <2>4, RequestsAssumption DEF Client
  <2> QED
    BY <1>2, <2>5
<1>4. CASE Poll
  <2>1. \A id : ~ CancelWaits(id)
    BY <1>4 DEF Poll, CancelWaits
  <2> QED
    BY <1>4, <2>1 DEF Poll, DoomedInv, mainVars
<1>5. CASE HandleClient
  BY <1>5, DoomedHandled
<1>6. CASE HandleOutbound
  BY <1>6, DoomedGated
<1>7. CASE AnalysisThread
  BY <1>1, <1>7 DEF AnalysisThread, ReadArm, Harvest, Commit, OnSync, Upsert
<1>8. CASE Pool
  BY <1>1, <1>8, PoolStep
<1>9. CASE UNCHANGED vars
  BY <1>1, <1>9 DEF vars
<1> QED
  BY <1>3, <1>4, <1>5, <1>6, <1>7, <1>8, <1>9 DEF Next, MainLoop

(* A cancel that is in the client's channel when its request is dispatched *)
(* wins, however fast the pool is: the only answer is the cancellation.    *)
(* (main_loop drains the client with try_recv before select! sees replies, *)
(* and on_cancel takes the in-flight entry.)                               *)
THEOREM CancelWins == Spec => []CancelBeatsReply
<1>1. Init => DoomedInv
  BY DEF Init, DoomedInv
<1>2. TypeOK /\ LifeInv /\ DoomedInv /\ [Next]_vars => DoomedInv'
  BY DoomedStep
<1>3. DoomedInv => CancelBeatsReply
  BY DEF DoomedInv, CancelBeatsReply
<1> QED
  BY <1>1, <1>2, <1>3, LifeCorrect, PTL DEF Spec

-----------------------------------------------------------------------------
(* A result speaks of the buffer that is open when it is given.            *)

LEMMA ElementsPushed ==
    ASSUME NEW S, NEW s \in Seq(S), NEW e \in S
    PROVE  Elements(Append(s, e)) = Elements(s) \cup {e}
<1>1. /\ Append(s, e)[Len(s) + 1] = e
      /\ \A i \in DOMAIN s : Append(s, e)[i] = s[i]
      /\ DOMAIN Append(s, e) = DOMAIN s \cup {Len(s) + 1}
  BY Appended
<1> QED
  BY <1>1 DEF Elements

LEMMA ElementsPopped ==
    ASSUME NEW S, NEW s \in Seq(S), s # <<>>
    PROVE  Elements(Tail(s)) \subseteq Elements(s) /\ Head(s) \in Elements(s)
<1>1. /\ 1 \in DOMAIN s /\ Head(s) = s[1]
      /\ \A i \in DOMAIN Tail(s) : i + 1 \in DOMAIN s /\ Tail(s)[i] = s[i + 1]
  BY Popped
<1> QED
  BY <1>1 DEF Elements

LEMMA ElementsTyped ==
    ASSUME TypeOK
    PROVE  /\ \A job \in Jobs : job \in Job /\ job.id \in Ids /\ Carried(job.id)
           /\ \A reply \in Replies :
                reply \in Reply /\ reply.id \in Ids /\ Carried(reply.id)
<1>1. /\ \A i \in DOMAIN read_rx : read_rx[i] \in Job
      /\ \A i \in DOMAIN out_rx : out_rx[i] \in Reply
      /\ running \subseteq Job
  BY DEF TypeOK
<1>2. /\ \A job \in Jobs : job \in Job
      /\ \A reply \in Replies : reply \in Reply
  BY <1>1 DEF Jobs, Replies, Elements
<1>3. /\ \A job \in Job : job.id \in Ids
      /\ \A reply \in Reply : reply.id \in Ids
  BY DEF Job, Reply
<1>4. /\ \A job \in Jobs : Carried(job.id)
      /\ \A reply \in Replies : Carried(reply.id)
  BY DEF Jobs, Replies, Elements, Carried, InRead, InPool, InOut, Holds
<1> QED
  BY <1>2, <1>3, <1>4

(* What a job reads of its own document is the text it was sent with.      *)
LEMMA OutcomesFit ==
    ASSUME NEW job \in Job, job.doc # None, NEW sites \in Outcomes(job)
    PROVE  sites[job.doc] = job.text
<1>1. job.doc \in Docs
  BY DEF Job
<1>2. Cold(job)[job.doc] = job.text
  BY <1>1 DEF Cold, Only
<1>3. tracked[job.doc] = job.text => Warm(job)[job.doc] = job.text
  BY <1>1 DEF Warm, Only
<1> QED
  BY <1>2, <1>3 DEF Outcomes

(* No entry, document or job is new, except jobs and replies that fit.     *)
LEMMA TextKept ==
    ASSUME TypeOK, TextInv,
           \A job \in Jobs' : job \in Jobs \/ JobFits(job)',
           \A reply \in Replies' : reply \in Replies \/ ReplyFits(reply)',
           \A id \in Ids : Carried(id) /\ Opened(id)' =>
             /\ Opened(id) /\ asked'[id] = asked[id]
             /\ documents'[asked[id].doc] = documents[asked[id].doc]
    PROVE  TextInv'
<1>1. ASSUME NEW job \in Jobs
      PROVE  JobFits(job)'
  BY ElementsTyped DEF TextInv, JobFits
<1>2. ASSUME NEW reply \in Replies
      PROVE  ReplyFits(reply)'
  BY ElementsTyped DEF TextInv, ReplyFits
<1> QED
  BY <1>1, <1>2 DEF TextInv

LEMMA EditsTyped ==
    ASSUME NEW msg \in Message, Edits(msg)
    PROVE  /\ msg.doc \in Docs /\ msg.to \in Document
           /\ msg.to.version \in Nat /\ msg.to.version \in 1..MaxVersion
<1>1. msg.doc \in Docs /\ msg.to \in Document
  BY MessageFields DEF Edits
<1> QED
  BY <1>1, BoundsAssumption DEF Document

LEMMA VersionsSent ==
    ASSUME TypeOK, VersionsInv, NEW msg \in Message,
           inbox' = Append(inbox, msg), documents' = documents,
           numbered' \in [Docs -> Nat],
           \A d \in Docs : numbered[d] <= numbered'[d],
           Edits(msg) => /\ msg.to.version = numbered[msg.doc] + 1
                         /\ msg.to.version = numbered'[msg.doc]
    PROVE  /\ VersionsInv'
           /\ \A d \in Docs, v \in Nat : Later(d, v) => Later(d, v)'
<1>1. /\ DOMAIN inbox' = DOMAIN inbox \cup {Len(inbox) + 1}
      /\ Len(inbox) \in Nat /\ DOMAIN inbox = 1..Len(inbox)
      /\ inbox'[Len(inbox) + 1] = msg
      /\ \A i \in DOMAIN inbox : inbox'[i] = inbox[i] /\ inbox[i] \in Message
  BY InboxSent DEF TypeOK
<1>2. \A d \in Docs : numbered[d] \in Nat /\ numbered'[d] \in Nat
  BY BoundsAssumption DEF TypeOK
<1>3. ASSUME NEW d \in Docs, NEW v \in Nat, Later(d, v)
      PROVE  Later(d, v)'
  <2>1. v <= numbered'[d]
    BY <1>2, <1>3 DEF Later
  <2>2. ASSUME NEW i \in DOMAIN inbox', Edits(inbox'[i]), inbox'[i].doc = d
        PROVE  v < inbox'[i].to.version
    <3>1. CASE i \in DOMAIN inbox
      BY <1>1, <1>3, <2>2, <3>1 DEF Later
    <3>2. CASE i = Len(inbox) + 1
      BY <1>1, <1>2, <1>3, <2>2, <3>2 DEF Later
    <3> QED
      BY <1>1, <3>1, <3>2
  <2> QED
    BY <2>1, <2>2 DEF Later, Edits
<1>4. ASSUME NEW i \in DOMAIN inbox', Edits(inbox'[i])
      PROVE  inbox'[i].to.version <= numbered'[inbox'[i].doc]
  <2>1. inbox'[i] \in Message
    BY <1>1
  <2>2. inbox'[i].doc \in Docs /\ inbox'[i].to.version \in Nat
    BY <1>4, <2>1, EditsTyped
  <2>3. CASE i \in DOMAIN inbox
    BY <1>1, <1>2, <1>4, <2>2, <2>3 DEF VersionsInv
  <2>4. CASE i = Len(inbox) + 1
    BY <1>1, <1>2, <1>4, <2>2, <2>4
  <2> QED
    BY <1>1, <2>3, <2>4
<1>5. ASSUME NEW i \in DOMAIN inbox', NEW j \in DOMAIN inbox',
             Edits(inbox'[i]), Edits(inbox'[j]),
             inbox'[i].doc = inbox'[j].doc, i < j
      PROVE  inbox'[i].to.version < inbox'[j].to.version
  <2>1. i \in DOMAIN inbox
    BY <1>1, <1>5
  <2>2. inbox[i].doc \in Docs /\ inbox[i].to.version \in Nat
    BY <1>1, <1>5, <2>1, EditsTyped
  <2>3. CASE j \in DOMAIN inbox
    BY <1>1, <1>5, <2>1, <2>3 DEF VersionsInv
  <2>4. CASE j = Len(inbox) + 1
    <3>1. inbox[i].to.version <= numbered[inbox[i].doc]
      BY <1>1, <1>5, <2>1 DEF VersionsInv
    <3>2. msg.to.version = numbered[inbox[i].doc] + 1
      BY <1>1, <1>5, <2>1, <2>4
    <3> QED
      BY <1>1, <1>2, <2>1, <2>2, <2>4, <3>1, <3>2
  <2> QED
    BY <1>1, <2>3, <2>4
<1>6. ASSUME NEW d \in Docs, documents[d] # None
      PROVE  Later(d, documents[d].version)'
  <2>1. documents[d].version \in Nat
    BY <1>6, BoundsAssumption DEF TypeOK, Document
  <2>2. documents[d].version' = documents[d].version
    OBVIOUS
  <2>3. Later(d, documents[d].version)
    BY <1>6 DEF VersionsInv
  <2>4. \A v \in Nat : v = documents[d].version => Later(d, v)'
    BY <1>3, <2>3
  <2> QED
    BY <2>1, <2>2, <2>4 DEF Later
<1> QED
  BY <1>3, <1>4, <1>5, <1>6 DEF VersionsInv, Edits

LEMMA VersionsPopped ==
    ASSUME TypeOK, VersionsInv, inbox # <<>>, inbox' = Tail(inbox),
           numbered' = numbered
    PROVE  /\ \A d \in Docs, v \in Nat : Later(d, v) => Later(d, v)'
           /\ documents' = documents => VersionsInv'
           /\ \A d \in Docs, to \in Document :
                Head(inbox) = [type |-> "document", doc |-> d, to |-> to] =>
                  /\ \A v \in Nat : v = to.version => Later(d, v)'
                  /\ \A v \in Nat : Later(d, v) => v < to.version
<1>1. /\ 1 \in DOMAIN inbox /\ Head(inbox) = inbox[1]
      /\ DOMAIN inbox' \subseteq Nat \ {0}
      /\ \A i \in DOMAIN inbox' :
           i + 1 \in DOMAIN inbox /\ inbox'[i] = inbox[i + 1]
  BY Popped DEF TypeOK
<1>2. \A i \in DOMAIN inbox : inbox[i] \in Message
  BY DEF TypeOK
<1>3. ASSUME NEW d \in Docs, NEW v \in Nat, Later(d, v)
      PROVE  Later(d, v)'
  BY <1>1, <1>3 DEF Later, Edits
<1>4. ASSUME documents' = documents
      PROVE  VersionsInv'
  <2>1. \A i \in DOMAIN inbox' :
          Edits(inbox'[i]) => inbox'[i].to.version <= numbered[inbox'[i].doc]
    BY <1>1 DEF VersionsInv
  <2>2. ASSUME NEW i \in DOMAIN inbox', NEW j \in DOMAIN inbox', i < j
        PROVE  i + 1 \in DOMAIN inbox /\ j + 1 \in DOMAIN inbox /\ i + 1 < j + 1
    BY <1>1, <2>2
  <2>3. \A i, j \in DOMAIN inbox' :
          Edits(inbox'[i]) /\ Edits(inbox'[j]) /\ inbox'[i].doc = inbox'[j].doc
            /\ i < j => inbox'[i].to.version < inbox'[j].to.version
    BY <1>1, <2>2 DEF VersionsInv
  <2>4. ASSUME NEW d \in Docs, documents[d] # None
        PROVE  Later(d, documents[d].version)'
    <3>1. documents[d].version \in Nat
      BY <2>4, BoundsAssumption DEF TypeOK, Document
    <3>2. documents[d].version' = documents[d].version
      BY <1>4
    <3>3. Later(d, documents[d].version)
      BY <2>4 DEF VersionsInv
    <3>4. \A v \in Nat : v = documents[d].version => Later(d, v)'
      BY <1>3, <3>3
    <3> QED
      BY <3>1, <3>2, <3>4 DEF Later
  <2> QED
    BY <1>4, <2>1, <2>3, <2>4 DEF VersionsInv, Edits
<1>5. ASSUME NEW d \in Docs, NEW to \in Document,
             Head(inbox) = [type |-> "document", doc |-> d, to |-> to]
      PROVE  /\ \A v \in Nat : v = to.version => Later(d, v)'
             /\ \A v \in Nat : Later(d, v) => v < to.version
  <2>1. /\ Edits(inbox[1])
        /\ inbox[1].doc = d /\ inbox[1].to = to
    BY <1>1, <1>5, NoneAssumption DEF Edits
  <2>2. to.version <= numbered[d]
    BY <1>1, <2>1 DEF VersionsInv
  <2>3. ASSUME NEW i \in DOMAIN inbox', Edits(inbox'[i]), inbox'[i].doc = d
        PROVE  to.version < inbox'[i].to.version
    <3>1. 1 < i + 1 /\ i + 1 \in DOMAIN inbox /\ inbox'[i] = inbox[i + 1]
      BY <1>1
    <3> QED
      BY <1>1, <2>1, <2>3, <3>1 DEF VersionsInv
  <2>4. \A v \in Nat : v = to.version => Later(d, v)'
    BY <2>2, <2>3 DEF Later, Edits
  <2>5. \A v \in Nat : Later(d, v) => v < to.version
    BY <1>1, <2>1 DEF Later
  <2> QED
    BY <2>4, <2>5
<1> QED
  BY <1>3, <1>4, <1>5

LEMMA EntryTyped ==
    ASSUME TypeOK, AboutAsked, NEW id \in Ids, inflight_reads[id] # None
    PROVE  /\ asked[id] \in Ask /\ asked[id].doc \in Docs \cup {None}
           /\ inflight_reads[id].uri = asked[id].doc
           /\ asked[id].doc # None =>
                /\ inflight_reads[id].version \in Nat
                /\ Later(asked[id].doc, inflight_reads[id].version)
<1>1. asked[id] \in Ask
  BY DEF AboutAsked, TypeOK
<1>2. inflight_reads[id].version \in 1..MaxVersion \cup {None}
  BY DEF TypeOK, ReadMeta
<1>3. asked[id].doc # None => inflight_reads[id].version \in Nat
  BY <1>2, BoundsAssumption DEF AboutAsked
<1> QED
  BY <1>1, <1>3, AskFields DEF AboutAsked

LEMMA AboutKept ==
    ASSUME TypeOK, AboutAsked,
           \A id \in Ids : asked[id] # None => asked'[id] = asked[id],
           \A d \in Docs, v \in Nat : Later(d, v) => Later(d, v)',
           \A job \in Jobs' :
             \/ job \in Jobs
             \/ job.id \in Ids /\ asked[job.id] # None
                  /\ job.doc = asked[job.id].doc,
           \A id \in Ids : inflight_reads'[id] # None =>
             \/ inflight_reads'[id] = inflight_reads[id]
             \/ /\ asked[id] # None
                /\ inflight_reads'[id].uri = asked[id].doc
                /\ asked[id].doc # None =>
                     \E v \in Nat \ {None} : /\ inflight_reads'[id].version = v
                                             /\ asked[id].doc \in Docs
                                             /\ Later(asked[id].doc, v)
    PROVE  AboutAsked'
<1>1. ASSUME NEW job \in Jobs'
      PROVE  asked'[job.id] # None /\ job.doc = asked'[job.id].doc
  BY ElementsTyped DEF AboutAsked
<1>2. ASSUME NEW id \in Ids, inflight_reads'[id] # None
      PROVE  /\ asked'[id] # None
             /\ inflight_reads'[id].uri = asked'[id].doc
             /\ asked'[id].doc # None =>
                  /\ inflight_reads'[id].version # None
                  /\ Later(asked[id].doc, inflight_reads[id].version)'
  <2>1. asked[id] # None /\ asked'[id] = asked[id]
    BY <1>2 DEF AboutAsked
  <2>2. inflight_reads'[id].uri = asked[id].doc
    BY <1>2 DEF AboutAsked
  <2>3. ASSUME asked[id].doc # None
        PROVE  \E v \in Nat \ {None} : /\ inflight_reads'[id].version = v
                                       /\ asked[id].doc \in Docs
                                       /\ Later(asked[id].doc, v)
    <3>1. CASE inflight_reads'[id] = inflight_reads[id]
      BY <1>2, <2>3, <3>1, EntryTyped DEF AboutAsked
    <3>2. CASE inflight_reads'[id] # inflight_reads[id]
      BY <1>2, <2>3, <3>2
    <3> QED
      BY <3>1, <3>2
  <2>4. ASSUME asked[id].doc # None
        PROVE  /\ inflight_reads'[id].version # None
               /\ Later(asked[id].doc, inflight_reads[id].version)'
    <3>1. PICK v \in Nat \ {None} : /\ inflight_reads'[id].version = v
                                    /\ asked[id].doc \in Docs
                                    /\ Later(asked[id].doc, v)
      BY <2>3, <2>4
    <3>2. \A d \in Docs : d = asked[id].doc => Later(d, v)'
      BY <3>1
    <3> QED
      BY <2>1, <3>1, <3>2 DEF Later
  <2> QED
    BY <2>1, <2>2, <2>4
<1> QED
  BY <1>1, <1>2 DEF AboutAsked

LEMMA ClientSnapshot ==
    ASSUME TypeOK, LifeInv, SnapshotInv, Client
    PROVE  SnapshotInv'
<1>1. UNCHANGED <<mainVars, read_rx, running, out_rx>>
  BY DEF Client, ClientEdits, ClientCloses, ClientAsks, ClientCancels, Send,
         workerVars, poolVars
<1>2. Jobs' = Jobs /\ Replies' = Replies
  BY <1>1 DEF Jobs, Replies, Elements
<1>3. ASSUME \A id \in Ids : asked[id] # None => asked'[id] = asked[id],
             VersionsInv',
             \A d \in Docs, v \in Nat : Later(d, v) => Later(d, v)'
      PROVE  SnapshotInv'
  <2>1. UNCHANGED <<documents, inflight_reads>>
    BY <1>1 DEF mainVars
  <2>2. AboutAsked'
    BY <1>2, <1>3, <2>1, AboutKept DEF SnapshotInv
  <2>3. ASSUME NEW id \in Ids, Carried(id)
        PROVE  asked'[id] = asked[id]
    BY <1>3, <2>3 DEF LifeInv, FreshInv, Untouched
  <2>4. \A id \in Ids : Carried(id) /\ Opened(id)' =>
          /\ Opened(id) /\ asked'[id] = asked[id]
          /\ documents'[asked[id].doc] = documents[asked[id].doc]
    BY <2>1, <2>3 DEF Opened
  <2>5. TextInv'
    BY <1>2, <2>4, TextKept DEF SnapshotInv
  <2> QED
    BY <1>3, <2>2, <2>5 DEF SnapshotInv
<1>4. numbered \in [Docs -> Nat]
  BY BoundsAssumption DEF TypeOK
<1>5. ASSUME NEW msg \in Message, Send(msg), ~ Edits(msg), numbered' = numbered,
             \A id \in Ids : asked[id] # None => asked'[id] = asked[id]
      PROVE  SnapshotInv'
  <2>1. inbox' = Append(inbox, msg) /\ documents' = documents
    BY <1>1, <1>5 DEF Send, mainVars
  <2>2. \A d \in Docs : numbered[d] <= numbered'[d]
    BY <1>4, <1>5
  <2> QED
    BY <1>3, <1>4, <1>5, <2>1, <2>2, VersionsSent DEF SnapshotInv
<1>6. ASSUME NEW d \in Docs, NEW t \in Texts, ClientEdits(d, t)
      PROVE  SnapshotInv'
  <2> DEFINE doc == [version |-> numbered[d] + 1, text |-> t]
             msg == [type |-> "document", doc |-> d, to |-> doc]
  <2>1. doc \in Document
    BY <1>6, BoundsAssumption DEF ClientEdits, TypeOK, Document
  <2>2. msg \in Message
    BY <2>1, DocumentMessage
  <2>3. /\ inbox' = Append(inbox, msg) /\ documents' = documents
        /\ numbered' = [numbered EXCEPT ![d] = @ + 1] /\ asked' = asked
    BY <1>1, <1>6 DEF ClientEdits, Send, mainVars
  <2>4. numbered' \in [Docs -> Nat] /\ \A e \in Docs : numbered[e] <= numbered'[e]
    BY <1>4, <2>3
  <2>5. numbered'[d] = numbered[d] + 1
    BY <1>4, <2>3
  <2>6. msg.doc = d /\ msg.to.version = numbered[d] + 1
    OBVIOUS
  <2> HIDE DEF doc, msg
  <2> QED
    BY <1>3, <2>2, <2>3, <2>4, <2>5, <2>6, VersionsSent DEF SnapshotInv
<1>7. ASSUME NEW d \in Docs, ClientCloses(d)
      PROVE  SnapshotInv'
  <2> DEFINE msg == [type |-> "document", doc |-> d, to |-> None]
  <2>1. msg \in Message /\ ~ Edits(msg)
    BY DocumentMessage DEF Edits
  <2>2. Send(msg) /\ UNCHANGED <<numbered, asked>>
    BY <1>7 DEF ClientCloses
  <2> HIDE DEF msg
  <2> QED
    BY <1>5, <2>1, <2>2
<1>8. ASSUME NEW id \in Ids, ClientCancels(id)
      PROVE  SnapshotInv'
  <2> DEFINE msg == [type |-> "cancel", id |-> id]
  <2>1. msg \in Message /\ ~ Edits(msg)
    BY IdMessage DEF Edits
  <2>2. Send(msg) /\ UNCHANGED <<numbered, asked>>
    BY <1>8 DEF ClientCancels, clientVars
  <2> HIDE DEF msg
  <2> QED
    BY <1>5, <2>1, <2>2
<1>9. ASSUME NEW id \in Ids, NEW ask, ClientAsks(id, ask)
      PROVE  SnapshotInv'
  <2> DEFINE msg == [type |-> "request", id |-> id]
  <2>1. msg \in Message /\ ~ Edits(msg)
    BY IdMessage DEF Edits
  <2>2. /\ Send(msg) /\ numbered' = numbered
        /\ \A x \in Ids : asked[x] # None => asked'[x] = asked[x]
    BY <1>9 DEF ClientAsks, TypeOK
  <2> HIDE DEF msg
  <2> QED
    BY <1>5, <2>1, <2>2
<1> QED
  BY <1>6, <1>7, <1>8, <1>9, RequestsAssumption DEF Client

(* Entries are only removed, jobs and replies only move on.                *)
LEMMA SnapshotKept ==
    ASSUME TypeOK, SnapshotInv, asked' = asked, documents' = documents,
           VersionsInv',
           \A d \in Docs, v \in Nat : Later(d, v) => Later(d, v)',
           Jobs' \subseteq Jobs,
           \A reply \in Replies' : reply \in Replies \/ ReplyFits(reply)',
           \A id \in Ids : inflight_reads'[id] # None =>
                             inflight_reads'[id] = inflight_reads[id]
    PROVE  SnapshotInv'
<1>1. AboutAsked'
  BY AboutKept DEF SnapshotInv
<1>2. TextInv'
  BY TextKept DEF SnapshotInv, Opened
<1> QED
  BY <1>1, <1>2 DEF SnapshotInv

LEMMA QuietVersions ==
    ASSUME VersionsInv, UNCHANGED <<inbox, numbered, documents>>
    PROVE  /\ VersionsInv'
           /\ \A d \in Docs, v \in Nat : Later(d, v) => Later(d, v)'
BY DEF VersionsInv, Later, Edits

LEMMA HandleClientSnapshot ==
    ASSUME TypeOK, LifeInv, SnapshotInv, HandleClient
    PROVE  SnapshotInv'
<1>1. /\ inbox # <<>> /\ inbox' = Tail(inbox)
      /\ UNCHANGED <<buffers, numbered, asked, running, out_rx, lost>>
  BY Handled DEF clientVars, poolVars
<1>2. /\ \A d \in Docs, v \in Nat : Later(d, v) => Later(d, v)'
      /\ documents' = documents => VersionsInv'
      /\ \A d \in Docs, to \in Document :
           Head(inbox) = [type |-> "document", doc |-> d, to |-> to] =>
             /\ \A v \in Nat : v = to.version => Later(d, v)'
             /\ \A v \in Nat : Later(d, v) => v < to.version
  BY <1>1, VersionsPopped DEF SnapshotInv
<1>3. Replies' = Replies /\ (read_rx' = read_rx => Jobs' = Jobs)
  BY <1>1 DEF Jobs, Replies, Elements
<1>4. ASSUME NEW d \in Docs, NEW to \in Document \cup {None},
             Head(inbox) = [type |-> "document", doc |-> d, to |-> to],
             OnDocument(d, to)
      PROVE  SnapshotInv'
  <2>1. /\ documents' = [documents EXCEPT ![d] = to]
        /\ UNCHANGED <<inflight_reads, read_rx>>
    BY <1>4 DEF OnDocument
  <2>2. documents'[d] = to /\ \A e \in Docs : e # d => documents'[e] = documents[e]
    BY <2>1 DEF TypeOK
  <2>3. ASSUME NEW e \in Docs, documents'[e] # None
        PROVE  Later(e, documents[e].version)'
    <3>1. CASE e = d
      <4>1. to \in Document /\ to.version \in Nat
        BY <2>2, <2>3, <3>1, BoundsAssumption DEF Document
      <4>2. \A v \in Nat : v = documents'[e].version => Later(e, v)'
        BY <1>2, <1>4, <2>2, <3>1, <4>1
      <4> QED
        BY <2>2, <3>1, <4>1, <4>2 DEF Later
    <3>2. CASE e # d
      <4>1. documents'[e] = documents[e]
        BY <2>2, <3>2
      <4>2. documents[e].version \in Nat
        BY <2>3, <4>1, BoundsAssumption DEF TypeOK, Document
      <4>3. Later(e, documents[e].version)
        BY <2>3, <4>1 DEF SnapshotInv, VersionsInv
      <4>4. \A v \in Nat : v = documents[e].version => Later(e, v)'
        BY <1>2, <4>3
      <4> QED
        BY <4>1, <4>2, <4>4 DEF Later
    <3> QED
      BY <3>1, <3>2
  <2>4. VersionsInv'
    <3>1. /\ 1 \in DOMAIN inbox /\ DOMAIN inbox' \subseteq Nat \ {0}
          /\ \A i \in DOMAIN inbox' :
               i + 1 \in DOMAIN inbox /\ inbox'[i] = inbox[i + 1]
      BY <1>1, Popped DEF TypeOK
    <3>2. \A i \in DOMAIN inbox' :
            Edits(inbox'[i]) => inbox'[i].to.version <= numbered[inbox'[i].doc]
      BY <3>1 DEF SnapshotInv, VersionsInv
    <3>3. \A i, j \in DOMAIN inbox' : i < j => i + 1 < j + 1
      BY <3>1
    <3>4. \A i, j \in DOMAIN inbox' :
            Edits(inbox'[i]) /\ Edits(inbox'[j]) /\ inbox'[i].doc = inbox'[j].doc
              /\ i < j => inbox'[i].to.version < inbox'[j].to.version
      BY <3>1, <3>3 DEF SnapshotInv, VersionsInv
    <3> QED
      BY <1>1, <2>3, <3>2, <3>4 DEF VersionsInv, Edits
  <2>5. AboutAsked'
    BY <1>1, <1>2, <1>3, <2>1, AboutKept DEF SnapshotInv
  <2>6. ASSUME NEW id \in Ids, Opened(id)'
        PROVE  asked[id].doc # d
    <3> SUFFICES ASSUME asked[id].doc = d
                 PROVE  FALSE
      OBVIOUS
    <3>1. /\ inflight_reads[id] # None /\ asked[id].doc # None
          /\ to # None /\ to.version = inflight_reads[id].version
      BY <1>1, <2>1, <2>2, <2>6 DEF Opened
    <3>2. /\ inflight_reads[id].version \in Nat
          /\ Later(d, inflight_reads[id].version)
      BY <3>1, EntryTyped DEF SnapshotInv
    <3>3. inflight_reads[id].version < to.version
      BY <1>2, <1>4, <3>1, <3>2
    <3> QED
      BY <3>1, <3>2, <3>3
  <2>7. ASSUME NEW id \in Ids, Opened(id)'
        PROVE  /\ Opened(id)
               /\ documents'[asked[id].doc] = documents[asked[id].doc]
    <3>1. inflight_reads[id] # None /\ asked[id].doc # None
      BY <1>1, <2>1, <2>7 DEF Opened
    <3>2. asked[id].doc \in Docs
      BY <3>1, EntryTyped DEF SnapshotInv
    <3>3. documents'[asked[id].doc] = documents[asked[id].doc]
      BY <2>2, <2>6, <2>7, <3>2
    <3> QED
      BY <1>1, <2>1, <2>7, <3>3 DEF Opened
  <2>8. TextInv'
    BY <1>1, <1>3, <2>1, <2>7, TextKept DEF SnapshotInv
  <2> QED
    BY <2>4, <2>5, <2>8 DEF SnapshotInv
<1>5. ASSUME UNCHANGED <<documents, inflight_reads, read_rx>>
      PROVE  SnapshotInv'
  BY <1>1, <1>2, <1>3, <1>5, SnapshotKept
<1>6. ASSUME NEW id \in Ids, Head(inbox) = [type |-> "request", id |-> id],
             asked[id] \in Ask,
             asked[id].doc # None => documents[asked[id].doc] \in Document,
             Dispatch(id, asked[id].kind, asked[id].doc)
      PROVE  SnapshotInv'
  <2>1. ~ Carried(id)
    <3>1. Unread(id)
      BY <1>1, <1>6, InboxPopped DEF LifeInv
    <3> QED
      BY <3>1 DEF LifeInv, FreshInv, Untouched
  <2>2. PICK version \in 1..MaxVersion \cup {None}, text \in Texts \cup {None} :
          /\ asked[id].doc # None => /\ version = documents[asked[id].doc].version
                                     /\ text = documents[asked[id].doc].text
          /\ LET job == [id |-> id, kind |-> asked[id].kind,
                         doc |-> asked[id].doc, text |-> text]
                 meta == [uri |-> asked[id].doc, version |-> version]
             IN /\ job \in Job /\ meta \in ReadMeta
                /\ read_rx' = Append(read_rx, job)
                /\ inflight_reads' = [inflight_reads EXCEPT ![id] = meta]
          /\ UNCHANGED <<documents, responses, queued, closing>>
    BY <1>6, Dispatched
  <2> DEFINE job == [id |-> id, kind |-> asked[id].kind,
                     doc |-> asked[id].doc, text |-> text]
             meta == [uri |-> asked[id].doc, version |-> version]
  <2>3. /\ job \in Job /\ job.id = id /\ job.doc = asked[id].doc /\ job.text = text
        /\ meta.uri = asked[id].doc /\ meta.version = version
        /\ read_rx' = Append(read_rx, job)
        /\ inflight_reads' = [inflight_reads EXCEPT ![id] = meta]
    BY <2>2
  <2>4. PICK j : j = job
    OBVIOUS
  <2> HIDE DEF job, meta
  <2>5. Jobs' = Jobs \cup {j}
    BY <1>1, <2>3, <2>4, ElementsPushed DEF Jobs, TypeOK
  <2>6. /\ inflight_reads'[id] = meta
        /\ \A x \in Ids : x # id => inflight_reads'[x] = inflight_reads[x]
    BY <2>3 DEF TypeOK
  <2>7. ASSUME asked[id].doc # None
        PROVE  /\ version \in Nat \ {None} /\ asked[id].doc \in Docs
               /\ Later(asked[id].doc, version)
    <3>1. asked[id].doc \in Docs
      BY <1>6, <2>7, AskFields
    <3>2. version \in 1..MaxVersion
      BY <1>6, <2>2, <2>7 DEF Document
    <3>3. documents[asked[id].doc] # None
      BY <1>6, <2>7, NoneAssumption
    <3> QED
      BY <2>2, <2>7, <3>1, <3>2, <3>3, NoneAssumption, BoundsAssumption
         DEF SnapshotInv, VersionsInv
  <2>8. asked[id] # None
    BY <1>6, AskFields
  <2>9. AboutAsked'
    <3>1. \A x \in Jobs' : \/ x \in Jobs
                           \/ x.id \in Ids /\ asked[x.id] # None
                                /\ x.doc = asked[x.id].doc
      BY <2>3, <2>4, <2>5, <2>8
    <3>2. \A x \in Ids : inflight_reads'[x] # None =>
             \/ inflight_reads'[x] = inflight_reads[x]
             \/ /\ asked[x] # None
                /\ inflight_reads'[x].uri = asked[x].doc
                /\ asked[x].doc # None =>
                     \E v \in Nat \ {None} : /\ inflight_reads'[x].version = v
                                             /\ asked[x].doc \in Docs
                                             /\ Later(asked[x].doc, v)
      BY <2>3, <2>6, <2>7, <2>8
    <3> QED
      BY <1>1, <1>2, <3>1, <3>2, AboutKept DEF SnapshotInv
  <2>10. JobFits(j)'
    <3>1. j.id = id /\ j.text = text
      BY <2>3, <2>4
    <3> QED
      BY <1>1, <2>2, <3>1 DEF JobFits, Opened
  <2>11. ASSUME NEW x \in Ids, Carried(x), Opened(x)'
         PROVE  Opened(x) /\ documents'[asked[x].doc] = documents[asked[x].doc]
    BY <1>1, <2>1, <2>2, <2>6, <2>11 DEF Opened
  <2>12. TextInv'
    BY <1>1, <1>3, <2>5, <2>10, <2>11, TextKept DEF SnapshotInv
  <2> QED
    BY <1>2, <2>2, <2>9, <2>12 DEF SnapshotInv
<1>7. ASSUME NEW id \in Ids, OnCancel(id)
      PROVE  SnapshotInv'
  <2>1. /\ UNCHANGED <<documents, read_rx>>
        /\ \A x \in Ids : inflight_reads'[x] # None =>
                            inflight_reads'[x] = inflight_reads[x]
    BY <1>7 DEF OnCancel, TypeOK
  <2> QED
    BY <1>1, <1>2, <1>3, <2>1, SnapshotKept
<1> QED
  BY <1>4, <1>5, <1>6, <1>7, Handled

LEMMA SnapshotStep ==
    TypeOK /\ LifeInv /\ SnapshotInv /\ [Next]_vars => SnapshotInv'
<1> SUFFICES ASSUME TypeOK, LifeInv, SnapshotInv, [Next]_vars
             PROVE  SnapshotInv'
  OBVIOUS
<1>1. ASSUME UNCHANGED <<numbered, asked, inbox, documents, inflight_reads>>,
             Jobs' \subseteq Jobs,
             \A reply \in Replies' : reply \in Replies \/ ReplyFits(reply)'
      PROVE  SnapshotInv'
  BY <1>1, QuietVersions, SnapshotKept DEF SnapshotInv
<1>2. ASSUME UNCHANGED <<numbered, asked, inbox, documents, inflight_reads,
                         read_rx, running, out_rx>>
      PROVE  SnapshotInv'
  <2>1. Jobs' = Jobs /\ Replies' = Replies
    BY <1>2 DEF Jobs, Replies, Elements
  <2> QED
    BY <1>1, <1>2, <2>1
<1>3. CASE Client
  BY <1>3, ClientSnapshot
<1>4. CASE Poll
  BY <1>2, <1>4 DEF Poll, clientVars, mainVars, workerVars, poolVars
<1>5. CASE HandleClient
  BY <1>5, HandleClientSnapshot
<1>6. CASE HandleOutbound
  <2>1. PICK reply \in Reply :
          /\ out_rx # <<>> /\ out_rx' = Tail(out_rx)
          /\ UNCHANGED <<clientVars, inbox, documents, doomed, workerVars,
                         running, lost>>
          /\ \/ inflight_reads' = inflight_reads
             \/ inflight_reads' = [inflight_reads EXCEPT ![reply.id] = None]
    BY <1>6, Gated
  <2>2. \A x \in Ids : inflight_reads'[x] # None =>
                         inflight_reads'[x] = inflight_reads[x]
    BY <2>1 DEF TypeOK
  <2>3. Jobs' = Jobs
    BY <2>1 DEF Jobs, Elements, workerVars
  <2>4. Replies' \subseteq Replies
    BY <2>1, ElementsPopped DEF Replies, TypeOK
  <2>5. UNCHANGED <<inbox, numbered, documents, asked>>
    BY <2>1 DEF clientVars
  <2> QED
    BY <2>2, <2>3, <2>4, <2>5, QuietVersions, SnapshotKept DEF SnapshotInv
<1>7. CASE ReadArm
  <2>1. /\ read_rx # <<>> /\ read_rx' = Tail(read_rx)
        /\ running' = running \cup {Head(read_rx)}
        /\ UNCHANGED <<clientVars, inbox, mainVars, out_rx>>
    BY <1>7 DEF ReadArm
  <2>2. Jobs' \subseteq Jobs
    BY <2>1, ElementsPopped DEF Jobs, TypeOK
  <2>3. Replies' = Replies
    BY <2>1 DEF Replies, Elements
  <2> QED
    BY <1>1, <2>1, <2>2, <2>3 DEF clientVars, mainVars
<1>8. CASE AnalysisThread /\ ~ ReadArm
  BY <1>2, <1>8 DEF AnalysisThread, Harvest, Commit, OnSync, Upsert,
                    clientVars, mainVars, poolVars
<1>9. CASE Pool
  <2>1. PICK job \in running :
          /\ job \in Job
          /\ running' = running \ {job}
          /\ UNCHANGED <<clientVars, inbox, selecting, mainVars, workerVars>>
          /\ \/ /\ \E sites \in Outcomes(job) :
                     /\ Result(sites) \in Response
                     /\ out_rx' = Append(out_rx,
                          [id |-> job.id, response |-> Result(sites)])
                /\ lost' = lost
             \/ lost' = lost \cup {job.id} /\ out_rx' = out_rx
    BY <1>9, PoolStep
  <2>2. Jobs' \subseteq Jobs
    BY <2>1 DEF Jobs, Elements, workerVars
  <2>3. UNCHANGED <<numbered, asked, inbox, documents, inflight_reads>>
    BY <2>1 DEF clientVars, mainVars
  <2>4. CASE out_rx' = out_rx
    <3>1. Replies' = Replies
      BY <2>4 DEF Replies, Elements
    <3> QED
      BY <1>1, <2>2, <2>3, <3>1
  <2>5. ASSUME NEW sites \in Outcomes(job), Result(sites) \in Response,
               out_rx' = Append(out_rx,
                           [id |-> job.id, response |-> Result(sites)])
        PROVE  SnapshotInv'
    <3>1. PICK reply \in Reply : reply = [id |-> job.id, response |-> Result(sites)]
      BY <2>1, <2>5 DEF Reply, Job
    <3>2. Replies' = Replies \cup {reply}
      BY <2>5, <3>1, ElementsPushed DEF Replies, TypeOK
    <3>3. job \in Jobs
      BY DEF Jobs
    <3>4. job.doc = asked[job.id].doc /\ JobFits(job)
      BY <3>3 DEF SnapshotInv, AboutAsked, TextInv
    <3>5. job.doc # None => sites[job.doc] = job.text
      BY <2>1, OutcomesFit
    <3>6. reply.id = job.id /\ reply.response.sites = sites
      BY <3>1 DEF Result
    <3>7. ReplyFits(reply)'
      BY <2>3, <3>4, <3>5, <3>6 DEF ReplyFits, JobFits, Opened
    <3> QED
      BY <1>1, <2>2, <2>3, <3>2, <3>7
  <2> QED
    BY <2>1, <2>4, <2>5
<1>10. CASE UNCHANGED vars
  BY <1>2, <1>10 DEF vars, clientVars, mainVars, workerVars, poolVars
<1> QED
  BY <1>3, <1>4, <1>5, <1>6, <1>7, <1>8, <1>9, <1>10 DEF Next, MainLoop

-----------------------------------------------------------------------------
(* Each step is one of the service's, or invisible to it.                  *)

LEMMA AnswerStep ==
    ASSUME TypeOK, NEW id \in Ids, asked[id] \in Ask, responses[id] = <<>>,
           NEW response \in Response, Respond(id, response),
           response.kind = "result" /\ asked[id].doc # None =>
             /\ documents[asked[id].doc] # None
             /\ response.sites[asked[id].doc] = documents[asked[id].doc].text,
           UNCHANGED <<documents, asked>>
    PROVE  Service!Next
<1>1. /\ responses' = [responses EXCEPT ![id] = <<response>>]
      /\ responses'[id] = <<response>>
  BY AnsweredOnce
<1>2. Len(responses'[id]) = 1 /\ responses'[id][1] = response
  BY <1>1
<1>3. asked[id] # None
  BY AskFields
<1>4. Service!Fits(asked[id], responses'[id][1])
  BY <1>2 DEF Service!Fits
<1>5. responses' = [responses EXCEPT ![id] = responses'[id]]
  BY <1>1
<1>6. Service!Answer(id)
  BY <1>2, <1>3, <1>4, <1>5 DEF Service!Answer
<1> QED
  BY <1>6 DEF Service!Next

LEMMA ServiceInit == Init => Service!Init
BY DEF Init, Service!Init

LEMMA ClientServes ==
    ASSUME TypeOK, Client
    PROVE  Service!Next \/ UNCHANGED <<documents, asked, responses>>
<1>1. UNCHANGED <<documents, responses>>
  BY DEF Client, ClientEdits, ClientCloses, ClientAsks, ClientCancels, Send,
         mainVars
<1>2. CASE asked' = asked
  BY <1>1, <1>2
<1>3. ASSUME NEW id \in Ids, NEW ask \in Ask, ClientAsks(id, ask)
      PROVE  Service!Next
  <2>1. asked[id] = None /\ asked' = [asked EXCEPT ![id] = ask]
    BY <1>3 DEF ClientAsks
  <2>2. asked'[id] = ask /\ ask # None
    BY <2>1, AskFields DEF TypeOK
  <2>3. Service!Ask(id)
    BY <1>1, <2>1, <2>2 DEF Service!Ask
  <2> QED
    BY <2>3 DEF Service!Next
<1> QED
  BY <1>2, <1>3, RequestsAssumption
     DEF Client, ClientEdits, ClientCloses, ClientCancels, clientVars

LEMMA HandleClientServes ==
    ASSUME TypeOK, LifeInv, HandleClient
    PROVE  Service!Next \/ UNCHANGED <<documents, asked, responses>>
<1>1. inbox # <<>> /\ inbox' = Tail(inbox) /\ asked' = asked
  BY Handled DEF clientVars
<1>2. ASSUME NEW d, NEW to, OnDocument(d, to)
      PROVE  Service!Next \/ UNCHANGED <<documents, asked, responses>>
  <2>1. UNCHANGED <<asked, responses>>
    BY <1>1, <1>2 DEF OnDocument
  <2>2. documents' # documents => Service!Edit
    BY <2>1 DEF Service!Edit
  <2> QED
    BY <2>1, <2>2 DEF Service!Next
<1>3. ASSUME NEW id \in Ids, Head(inbox) = [type |-> "request", id |-> id],
             asked[id] \in Ask, Respond(id, Plain("null")),
             documents' = documents
      PROVE  Service!Next
  <2>1. Unread(id)
    BY <1>1, <1>3, InboxPopped DEF LifeInv
  <2>2. responses[id] = <<>>
    BY <2>1 DEF LifeInv, FreshInv, Untouched
  <2>3. Plain("null") \in Response /\ Plain("null").kind # "result"
    BY PlainType DEF Plain
  <2> QED
    BY <1>1, <1>3, <2>2, <2>3, AnswerStep
<1>4. ASSUME NEW id \in Ids, Dispatch(id, asked[id].kind, asked[id].doc)
      PROVE  UNCHANGED <<documents, asked, responses>>
  BY <1>1, <1>4 DEF Dispatch
<1>5. ASSUME NEW id \in Ids, OnCancel(id)
      PROVE  Service!Next \/ UNCHANGED <<documents, asked, responses>>
  <2>1. CASE inflight_reads[id] = None
    BY <1>1, <1>5, <2>1 DEF OnCancel
  <2>2. CASE inflight_reads[id] # None
    <3>1. Respond(id, Plain("cancelled")) /\ documents' = documents
      BY <1>5, <2>2 DEF OnCancel
    <3>2. responses[id] = <<>> /\ asked[id] \in Ask
      BY <2>2 DEF LifeInv, OpenInv, FreshInv, Untouched, TypeOK
    <3>3. Plain("cancelled") \in Response /\ Plain("cancelled").kind # "result"
      BY PlainType DEF Plain
    <3> QED
      BY <1>1, <3>1, <3>2, <3>3, AnswerStep
  <2> QED
    BY <2>1, <2>2
<1> QED
  BY <1>2, <1>3, <1>4, <1>5, Handled

(* The gate: a result goes out only for the buffer it was asked about, at  *)
(* the version it was asked at.                                            *)
LEMMA GateServes ==
    ASSUME TypeOK, LifeInv, SnapshotInv, HandleOutbound
    PROVE  Service!Next \/ UNCHANGED <<documents, asked, responses>>
<1>1. PICK reply \in Reply :
        /\ out_rx # <<>> /\ reply = Head(out_rx)
        /\ reply.id \in Ids /\ reply.response \in Response
        /\ UNCHANGED <<clientVars, documents>>
        /\ IF inflight_reads[reply.id] = None
           THEN UNCHANGED <<inflight_reads, responses>>
           ELSE /\ responses[reply.id] = <<>>
                /\ Respond(reply.id,
                     IF Current(inflight_reads[reply.id])
                     THEN reply.response ELSE Plain("modified"))
  BY Gated
<1>2. CASE inflight_reads[reply.id] = None
  BY <1>1, <1>2 DEF clientVars
<1>3. CASE inflight_reads[reply.id] # None
  <2>1. /\ asked[reply.id] \in Ask
        /\ inflight_reads[reply.id].uri = asked[reply.id].doc
    BY <1>1, <1>3, EntryTyped DEF SnapshotInv
  <2>2. CASE ~ Current(inflight_reads[reply.id])
    <3>1. Plain("modified") \in Response /\ Plain("modified").kind # "result"
      BY PlainType DEF Plain
    <3> QED
      BY <1>1, <1>3, <2>1, <2>2, <3>1, AnswerStep DEF clientVars
  <2>3. CASE Current(inflight_reads[reply.id])
    <3>1. ASSUME asked[reply.id].doc # None
          PROVE  /\ documents[asked[reply.id].doc] # None
                 /\ Opened(reply.id)
      BY <1>3, <2>1, <2>3, <3>1 DEF Current, Opened
    <3>2. reply \in Replies
      BY <1>1, ElementsPopped DEF Replies, TypeOK
    <3>3. ReplyFits(reply)
      BY <3>2 DEF SnapshotInv, TextInv
    <3>4. asked[reply.id].doc # None =>
            /\ documents[asked[reply.id].doc] # None
            /\ reply.response.sites[asked[reply.id].doc]
                 = documents[asked[reply.id].doc].text
      BY <3>1, <3>3 DEF ReplyFits
    <3>5. Respond(reply.id, reply.response)
      BY <1>1, <1>3, <2>3
    <3> QED
      BY <1>1, <1>3, <2>1, <3>4, <3>5, AnswerStep DEF clientVars
  <2> QED
    BY <2>2, <2>3
<1> QED
  BY <1>2, <1>3

LEMMA ServiceStep ==
    TypeOK /\ LifeInv /\ SnapshotInv /\ [Next]_vars
      => [Service!Next]_(Service!serviceVars)
<1> SUFFICES ASSUME TypeOK, LifeInv, SnapshotInv, [Next]_vars
             PROVE  Service!Next \/ UNCHANGED <<documents, asked, responses>>
  BY DEF Service!serviceVars
<1>1. CASE Client
  BY <1>1, ClientServes
<1>2. CASE Poll
  BY <1>2 DEF Poll, clientVars, mainVars
<1>3. CASE HandleClient
  BY <1>3, HandleClientServes
<1>4. CASE HandleOutbound
  BY <1>4, GateServes
<1>5. CASE AnalysisThread
  BY <1>5 DEF AnalysisThread, ReadArm, Harvest, Commit, OnSync, Upsert,
              clientVars, mainVars
<1>6. CASE Pool
  BY <1>6, PoolStep DEF clientVars, mainVars
<1>7. CASE UNCHANGED vars
  BY <1>7 DEF vars, clientVars, mainVars
<1> QED
  BY <1>1, <1>2, <1>3, <1>4, <1>5, <1>6, <1>7 DEF Next, MainLoop

LEMMA SnapshotInit == Init => SnapshotInv
<1> SUFFICES ASSUME Init
             PROVE  SnapshotInv
  OBVIOUS
<1>1. /\ DOMAIN inbox = {} /\ Jobs = {} /\ Replies = {}
      /\ \A d \in Docs : documents[d] = None
      /\ \A id \in Ids : inflight_reads[id] = None
  BY DEF Init, Jobs, Replies, Elements
<1> QED
  BY <1>1 DEF SnapshotInv, VersionsInv, AboutAsked, TextInv

(* The server implements RequestService: whatever the client edits, closes *)
(* and cancels while a read is out, and however far the snapshot it runs   *)
(* on lags, the read is answered at most once, and a result about a buffer *)
(* was computed from the text open at that moment.  (read_reply remembers  *)
(* the version it dispatched with, on_read_reply answers "modified" when   *)
(* it moved on, and every outcome of a job is about the text it was sent   *)
(* with.)                                                                  *)
THEOREM AnswersFit == Spec => ImplementsService
<1>1. Init => SnapshotInv /\ Service!Init
  BY SnapshotInit, ServiceInit
<1>2. TypeOK /\ LifeInv /\ SnapshotInv /\ [Next]_vars => SnapshotInv'
  BY SnapshotStep
<1>3. TypeOK /\ LifeInv /\ SnapshotInv /\ [Next]_vars
        => [Service!Next]_(Service!serviceVars)
  BY ServiceStep
<1> QED
  BY <1>1, <1>2, <1>3, LifeCorrect, PTL DEF Spec, ImplementsService, Service!Spec
=============================================================================
