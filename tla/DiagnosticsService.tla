------------------------- MODULE DiagnosticsService -------------------------
(***************************************************************************)
(* What a client may expect of pushed diagnostics, without threads, queues *)
(* or cancellation: the client edits buffers, and now and then the server  *)
(* shows the diagnostics of a buffer's current text.                       *)
(***************************************************************************)
CONSTANTS Docs, Texts, None

VARIABLES
    buffer,   \* each document's text in the editor, None when it is closed
    shown     \* the text each document's displayed diagnostics are about

vars == <<buffer, shown>>

Init ==
    /\ buffer = [d \in Docs |-> None]
    /\ shown = [d \in Docs |-> None]

Edit(d, t) ==
    /\ buffer' = [buffer EXCEPT ![d] = t]
    /\ UNCHANGED shown

Close(d) ==
    /\ buffer[d] # None
    /\ buffer' = [buffer EXCEPT ![d] = None]
    /\ shown' = [shown EXCEPT ![d] = None]

Show(d) ==
    /\ buffer[d] # None
    /\ shown' = [shown EXCEPT ![d] = buffer[d]]
    /\ UNCHANGED buffer

Next == \E d \in Docs : (\E t \in Texts : Edit(d, t)) \/ Close(d) \/ Show(d)

Spec == Init /\ [][Next]_vars

(* A buffer that is left alone gets its diagnostics.                       *)
FairSpec == Spec /\ \A d \in Docs : WF_vars(Show(d))
=============================================================================
