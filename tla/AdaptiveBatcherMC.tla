------------------------- MODULE AdaptiveBatcherMC -------------------------
(* Small instances of AdaptiveBatcher for TLC. *)
EXTENDS AdaptiveBatcher

\* Clients are interchangeable, so that they may be numbered in the order in which they
\* call.  Where everything may go wrong there are three of them.  The fifth one calls where
\* clients stay and batches merge, and where they may leave only to wait behind another
\* one for room while a batch is open; only clients that were not yet queued leave then
InTurn ==
    \A r \in Requests :
        /\ pc[r] = "idle" /\ pc'[r] # "idle" =>
              /\ \A q \in 1..r - 1 : pc[q] # "idle"
              /\ r = 4 => faults # FaultKinds
              /\ r = 5 => \/ faults = {"omit", "predict"}
                          \/ /\ faults = {"cancel"} /\ putters # <<>> /\ toBatch # <<>>
                             /\ \A q \in Requests : future[q] # "cancelled"
        /\ pc[5] # "idle" /\ future[r] # "cancelled" /\ future'[r] = "cancelled" =>
              pc[r] \in {"putting", "woken"}
=============================================================================
