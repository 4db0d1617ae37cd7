---------------------------- MODULE RequestService ----------------------------
(***************************************************************************)
(* What the server promises of the client's requests: each is answered at  *)
(* most once, and a result about a buffer is a result about the buffer     *)
(* that is open when it is given.                                          *)
(***************************************************************************)
EXTENDS Sequences

CONSTANTS Docs, Ids, None

VARIABLES
    documents,  \* the open buffers
    asked,      \* what each id asks about
    responses   \* the answers given to each id

serviceVars == <<documents, asked, responses>>

Init ==
    /\ documents = [d \in Docs |-> None]
    /\ asked = [id \in Ids |-> None]
    /\ responses = [id \in Ids |-> <<>>]

Edit ==
    /\ documents' # documents
    /\ UNCHANGED <<asked, responses>>

Ask(id) ==
    /\ asked[id] = None
    /\ asked' = [asked EXCEPT ![id] = asked'[id]]
    /\ asked'[id] # None
    /\ UNCHANGED <<documents, responses>>

\* The answer to a request about a buffer uses the text that buffer has now.
Fits(req, ans) ==
    ans.kind = "result" /\ req.doc # None =>
        /\ documents[req.doc] # None
        /\ ans.sites[req.doc] = documents[req.doc].text

Answer(id) ==
    /\ asked[id] # None
    /\ responses[id] = <<>>
    /\ Len(responses'[id]) = 1
    /\ Fits(asked[id], responses'[id][1])
    /\ responses' = [responses EXCEPT ![id] = responses'[id]]
    /\ UNCHANGED <<documents, asked>>

Next == Edit \/ \E id \in Ids : Ask(id) \/ Answer(id)

Spec == Init /\ [][Next]_serviceVars
=============================================================================
