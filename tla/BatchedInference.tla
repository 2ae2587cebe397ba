-------------------------- MODULE BatchedInference --------------------------
(* What a batching model server promises its clients, without queue, timer or *)
(* event loop: an accepted request is settled once, together with at most     *)
(* MaxBatchSize - 1 others, and all of them share the fate of their batch.    *)
(* What may go wrong decides which fates there are.                           *)
EXTENDS Naturals, FiniteSets

CONSTANTS Requests, MaxBatchSize

VARIABLES
    status,     \* of each request, as its client sees it
    faults      \* what may go wrong: "cancel", "merge", "omit", "predict"

Init == status = [r \in Requests |-> "idle"]

Accept(r) ==
    /\ status[r] = "idle"
    /\ status' = [status EXCEPT ![r] = "accepted"]

\* Clients stay and batches can be built
Undisturbed == {"cancel", "merge"} \cap faults = {}

\* An answer may leave some of a batch with nothing; an exception is for all of them
\* unless the batch met a client that has left or was told of another failure before
SharedFate(outcome) ==
    /\ "omit" \in faults \/ \A r \in DOMAIN outcome : outcome[r] # "unanswered"
    /\ \/ \A r \in DOMAIN outcome : outcome[r] # "exception"
       \/ "predict" \in faults /\ \A r \in DOMAIN outcome : outcome[r] = "exception"
       \/ ~Undisturbed

Answer(batch) ==
    /\ batch # {} /\ Cardinality(batch) <= MaxBatchSize
    /\ \A r \in batch : status[r] = "accepted"
    /\ \E outcome \in [batch -> {"result", "exception", "unanswered"}] :
          /\ SharedFate(outcome)
          /\ status' = [r \in Requests |-> IF r \in batch THEN outcome[r] ELSE status[r]]

\* A client leaves, also one whose answer is on its way
Leave(r) ==
    /\ "cancel" \in faults /\ status[r] # "idle"
    /\ status' = [status EXCEPT ![r] = "cancelled"]

\* A batch that cannot be built takes others with it
FailAll(clients) ==
    /\ "merge" \in faults
    /\ \A r \in clients : status[r] \in {"accepted", "unanswered"}
    /\ status' = [r \in Requests |-> IF r \in clients THEN "exception" ELSE status[r]]

Next ==
    \/ \E r \in Requests : Accept(r) \/ Leave(r)
    \/ \E clients \in SUBSET Requests : Answer(clients) \/ FailAll(clients)

\* No answer without a request, one answer to each, shared by at most MaxBatchSize
Safety == Init /\ [][Next]_status

\* and no client that stays is kept waiting
Spec ==
    /\ Safety
    /\ Undisturbed => \A r \in Requests : status[r] = "accepted" ~> status[r] # "accepted"
=============================================================================
