-------------------------- MODULE AdaptiveBatcher --------------------------
(* The adaptive batcher of one model: MLServer/mlserver/batching/adaptive.py. *)
(* Requests are coroutines of one asyncio event loop; the batcher is a task   *)
(* of the same loop, started on demand.  A step is what a coroutine, a task   *)
(* or a done-callback does between two suspension points, except that the     *)
(* batcher's run is cut into its loop iterations: while batchingTask is       *)
(* "running" it holds the event loop and nobody else moves.                   *)
(* max_batch_time is a timer that may expire whenever the batcher waits.      *)
EXTENDS Naturals, Sequences, FiniteSets, SequencesExt

CONSTANTS
    Requests,       \* internal ids of the requests clients send
    MaxBatchSize,   \* model.settings.max_batch_size
    FaultSets       \* the combinations of FaultKinds explored

\* "cancel": a client goes away and its handler coroutine is cancelled
\* "merge": building a BatchedRequests raises;  "omit": there are requests without inputs,
\* or answers of the model without outputs;  "predict": the model raises, or its answer
\* cannot be split
FaultKinds == {"cancel", "merge", "omit", "predict"}

\* load_batching installs a batcher only for max_batch_size > 1
ASSUME BatchSizeAssumption == MaxBatchSize \in Nat /\ MaxBatchSize > 1
ASSUME FaultsAssumption == FaultSets \subseteq SUBSET FaultKinds

VARIABLES
    pc,              \* where the predict() coroutine of each request is
    future,          \* the asyncio future of each request, then its outcome
    asyncResponses,  \* _async_responses: registered ids, in insertion order
    requests,        \* _requests: the queue, bounded by MaxBatchSize
    putters,         \* the queue's waiting putters, woken in order
    batchingTask,    \* _batching_task: "done" stands for None too
    toBatch,         \* to_batch: the batch being filled
    inflight,        \* batches handed to the model, each a predict task
    failed,          \* the batching task died and its done-callback is due
    leftOut,         \* (history) those for whom the answer to their batch had nothing
    faults           \* what may go wrong in this behaviour: one of FaultSets

vars == <<pc, future, asyncResponses, requests, putters, batchingTask, toBatch,
          inflight, failed, leftOut, faults>>

batcherVars == <<batchingTask, toBatch, inflight, failed, leftOut, faults>>

Full == Len(requests) >= MaxBatchSize
LoopFree == batchingTask # "running"

\* A registered future that set_result or set_exception still accepts
Open(r) == r \in ToSet(asyncResponses) /\ future[r] = "pending"

\* A loop that settles the futures of ids one after the other: it raises at
\* the first one that is gone (KeyError) or done (InvalidStateError)
SettledBy(ids) == {ids[i] : i \in {j \in DOMAIN ids : \A k \in 1..j : Open(ids[k])}}
SetException(ids) ==
    future' = [r \in Requests |-> IF r \in SettledBy(ids) THEN "exception" ELSE future[r]]

\* q comes before r in s
Before(s, q, r) == \E i, j \in DOMAIN s : i < j /\ s[i] = q /\ s[j] = r

\* get_nowait of n queued requests wakes the first n putters
FirstPutters(n) == {putters[i] : i \in {j \in DOMAIN putters : j <= n}}
WakePutters(n) ==
    /\ putters' = SubSeq(putters, n + 1, Len(putters))
    /\ pc' = [r \in Requests |-> IF r \in FirstPutters(n) THEN "woken" ELSE pc[r]]

----------------------------------------------------------------------------
(* predict(): a client's coroutine *)

\* A task is created unless the last one is still alive
StartBatcherIfNeeded ==
    batchingTask' = IF batchingTask = "done" THEN "ready" ELSE batchingTask

\* (mutant) the newest request is served first
QueueRequestLifo(r) ==
    /\ requests' = <<r>> \o requests
    /\ asyncResponses' = Append(asyncResponses, r)
    /\ future' = [future EXCEPT ![r] = "pending"]
    /\ pc' = [pc EXCEPT ![r] = "waiting"]
    /\ StartBatcherIfNeeded
    /\ UNCHANGED <<toBatch, inflight, failed, leftOut, faults>>

\* From put_nowait to the await of the new future nothing suspends
QueueRequest(r) ==
    /\ requests' = Append(requests, r)
    /\ asyncResponses' = Append(asyncResponses, r)
    /\ future' = [future EXCEPT ![r] = "pending"]
    /\ pc' = [pc EXCEPT ![r] = "waiting"]
    /\ StartBatcherIfNeeded
    /\ UNCHANGED <<toBatch, inflight, failed, leftOut, faults>>

WaitForRoom(r) ==
    /\ putters' = Append(putters, r)
    /\ pc' = [pc EXCEPT ![r] = "putting"]
    /\ UNCHANGED <<future, asyncResponses, requests, batcherVars>>

Predict(r) ==
    /\ LoopFree /\ pc[r] = "idle"
    /\ \/ Full /\ WaitForRoom(r)
       \/ ~Full /\ QueueRequest(r) /\ UNCHANGED putters

\* A woken putter finds the queue full again if a newcomer was faster
ResumePut(r) ==
    /\ LoopFree /\ pc[r] = "woken"
    /\ \/ Full /\ WaitForRoom(r)
       \/ ~Full /\ QueueRequest(r) /\ UNCHANGED putters

\* The future is done: forget it and answer the client
WaitResponse(r) ==
    /\ LoopFree /\ pc[r] = "waiting" /\ future[r] # "pending"
    /\ \E i \in DOMAIN asyncResponses :
          /\ asyncResponses[i] = r
          /\ asyncResponses' = RemoveAt(asyncResponses, i)
    /\ pc' = [pc EXCEPT ![r] = "done"]
    /\ UNCHANGED <<future, requests, putters, batcherVars>>

----------------------------------------------------------------------------
(* Cancellation of a handler coroutine, wherever it is suspended *)

CancelPut(r) ==
    /\ pc[r] = "putting"
    /\ \E i \in DOMAIN putters : putters[i] = r /\ putters' = RemoveAt(putters, i)
    /\ pc' = [pc EXCEPT ![r] = "done"]
    /\ future' = [future EXCEPT ![r] = "cancelled"]
    /\ UNCHANGED <<asyncResponses, requests, batcherVars>>

\* (mutant) the slot is not passed on
CancelWokenSilently(r) ==
    /\ pc[r] = "woken"
    /\ pc' = [pc EXCEPT ![r] = "done"]
    /\ future' = [future EXCEPT ![r] = "cancelled"]
    /\ UNCHANGED <<asyncResponses, requests, putters, batcherVars>>

\* A putter that was woken and cannot take the slot passes it on
CancelWoken(r) ==
    /\ pc[r] = "woken"
    /\ LET next == IF Full THEN {} ELSE FirstPutters(1) IN
          /\ putters' = IF Full THEN putters ELSE SubSeq(putters, 2, Len(putters))
          /\ pc' = [q \in Requests |-> IF q = r THEN "done"
                                       ELSE IF q \in next THEN "woken" ELSE pc[q]]
    /\ future' = [future EXCEPT ![r] = "cancelled"]
    /\ UNCHANGED <<asyncResponses, requests, batcherVars>>

\* The future is done at once; it leaves _async_responses when its waiter
\* runs, and its id stays in the queue or in the batch that holds it
CancelWait(r) ==
    /\ pc[r] = "waiting" /\ future[r] # "cancelled"
    /\ future' = [future EXCEPT ![r] = "cancelled"]
    /\ UNCHANGED <<pc, asyncResponses, requests, putters, batcherVars>>

Cancel(r) ==
    /\ "cancel" \in faults /\ LoopFree
    /\ CancelPut(r) \/ CancelWoken(r) \/ CancelWait(r)

----------------------------------------------------------------------------
(* The batching task: _batcher, _batch_requests and _get_request *)

\* The first step of a new task comes after the done-callback of the last one
RunBatcher ==
    /\ batchingTask = "ready" /\ ~failed
    /\ batchingTask' = "running"
    /\ UNCHANGED <<pc, future, asyncResponses, requests, putters, toBatch, inflight,
                   failed, leftOut, faults>>

\* (mutant) putters are told only when a full queue gets room
GetRequestWakesFromFull ==
    /\ requests # <<>>
    /\ requests' = Tail(requests)
    /\ toBatch' = Append(toBatch, Head(requests))
    /\ WakePutters(IF Full THEN 1 ELSE 0)
    /\ UNCHANGED <<future, asyncResponses, inflight, failed, leftOut, faults>>

GetRequest ==
    /\ requests # <<>>
    /\ requests' = Tail(requests)
    /\ toBatch' = Append(toBatch, Head(requests))
    /\ WakePutters(1)
    /\ UNCHANGED <<future, asyncResponses, inflight, failed, leftOut, faults>>

\* A get on a non-empty queue does not suspend
TakeQueued ==
    /\ batchingTask = "running" /\ Len(toBatch) < MaxBatchSize
    /\ GetRequest
    /\ UNCHANGED batchingTask

\* wait_for(get, timeout) on an empty queue with a batch under way
AwaitRequest ==
    /\ batchingTask = "running" /\ requests = <<>>
    /\ toBatch # <<>> /\ Len(toBatch) < MaxBatchSize
    /\ batchingTask' = "blocked"
    /\ UNCHANGED <<pc, future, asyncResponses, requests, putters, toBatch, inflight,
                   failed, leftOut, faults>>

\* The awaited get completes; the batcher itself resumes a little later
TakeAwaited ==
    /\ batchingTask = "blocked"
    /\ GetRequest
    /\ batchingTask' = "ready"

\* BatchedRequests(to_batch) and the predict task; _batch_requests goes on
DispatchBatch ==
    /\ inflight' = inflight \cup {toBatch}
    /\ batchingTask' = "running"
    /\ UNCHANGED failed

\* BatchedRequests(to_batch) raises: the batch dies with the task
MergeFails ==
    /\ "merge" \in faults
    /\ batchingTask' = "done"
    /\ failed' = TRUE
    /\ UNCHANGED inflight

\* (mutant) to_batch is not reset
CloseBatchWithoutReset ==
    /\ UNCHANGED toBatch
    /\ DispatchBatch \/ MergeFails
    /\ UNCHANGED <<pc, future, asyncResponses, requests, putters, leftOut, faults>>

CloseBatch ==
    /\ toBatch' = <<>>
    /\ DispatchBatch \/ MergeFails
    /\ UNCHANGED <<pc, future, asyncResponses, requests, putters, leftOut, faults>>

CloseFullBatch == batchingTask = "running" /\ Len(toBatch) = MaxBatchSize /\ CloseBatch

\* (mutant) the cancelled get drops the request it was about to return
TimeoutLosesRequest ==
    /\ batchingTask = "blocked"
    /\ toBatch' = <<>>
    /\ DispatchBatch
    /\ requests' = IF requests = <<>> THEN requests ELSE Tail(requests)
    /\ UNCHANGED <<pc, future, asyncResponses, putters, leftOut, faults>>

\* (mutant) only full batches are closed
TimeoutWhenFull == batchingTask = "blocked" /\ Len(toBatch) = MaxBatchSize /\ CloseBatch

\* Even if a request sits in the queue by now: the cancelled get leaves it there
Timeout == batchingTask = "blocked" /\ CloseBatch

\* (mutant) one batch per task: `if` for `while`
FinishAfterBatch ==
    /\ batchingTask = "running" /\ toBatch = <<>>
    /\ batchingTask' = "done"
    /\ UNCHANGED <<pc, future, asyncResponses, requests, putters, toBatch, inflight,
                   failed, leftOut, faults>>

FinishBatcher ==
    /\ batchingTask = "running" /\ requests = <<>> /\ toBatch = <<>>
    /\ batchingTask' = "done"
    /\ UNCHANGED <<pc, future, asyncResponses, requests, putters, toBatch, inflight,
                   failed, leftOut, faults>>

Batcher == RunBatcher \/ TakeQueued \/ AwaitRequest \/ TakeAwaited \/ CloseFullBatch
              \/ Timeout \/ FinishBatcher

----------------------------------------------------------------------------
(* Done-callbacks *)

\* split_response gives a response to every request of the batch that has an input, in
\* the order of the merged inputs: the first of them first, the others in any order.  Who
\* has none gets no response, and nobody does if the model gave no outputs.
Responses(b) ==
    {ids \in UNION {[1..n -> ToSet(b)] : n \in 0..Len(b)} :
        /\ IsInjective(ids)
        /\ \A i \in DOMAIN ids : ids[i] = ids[1] \/ Before(b, ids[1], ids[i])
        /\ "omit" \in faults \/ ToSet(ids) = ToSet(b)}

\* The futures of a batch are settled, and what is left over stays as it is
PredictCallback(b, answered, blamed) ==
    /\ LoopFree /\ b \in inflight
    /\ future' = [r \in Requests |-> IF r \in answered THEN "result"
                                    ELSE IF r \in blamed THEN "exception" ELSE future[r]]
    /\ inflight' = inflight \ {b}
    /\ UNCHANGED <<pc, asyncResponses, requests, putters, batchingTask, toBatch, failed,
                   faults>>

\* set_result on the futures of those with a response.  One that is gone or done raises:
\* then set_exception on the futures of the whole batch, which raises at the first that is
\* gone or done by now.
PredictSucceeds(b) ==
    \E ids \in Responses(b) :
        LET answered == SettledBy(ids)
            blamed == IF answered = ToSet(ids) THEN {}
                      ELSE {b[i] : i \in {j \in DOMAIN b :
                               \A k \in 1..j : Open(b[k]) /\ b[k] \notin answered}}
        IN  /\ PredictCallback(b, answered, blamed)
            /\ leftOut' = leftOut \cup (ToSet(b) \ ToSet(ids))

PredictFails(b) ==
    /\ "predict" \in faults
    /\ PredictCallback(b, {}, SettledBy(b))
    /\ UNCHANGED leftOut

\* (mutant) the queue is emptied whatever becomes of the futures
ClearQueueAnyway ==
    /\ SetException(asyncResponses)
    /\ requests' = <<>> /\ WakePutters(Len(requests))

\* _clear_queue: the queue is emptied only if every future could be settled
ClearQueue ==
    /\ SetException(asyncResponses)
    /\ IF ToSet(asyncResponses) = SettledBy(asyncResponses)
       THEN requests' = <<>> /\ WakePutters(Len(requests))
       ELSE UNCHANGED <<requests, putters, pc>>

BatchingTaskCallback ==
    /\ LoopFree /\ failed
    /\ ClearQueue
    /\ failed' = FALSE
    /\ UNCHANGED <<asyncResponses, batchingTask, toBatch, inflight, leftOut, faults>>

----------------------------------------------------------------------------
Init ==
    /\ pc = [r \in Requests |-> "idle"]
    /\ future = [r \in Requests |-> "none"]
    /\ asyncResponses = <<>>
    /\ requests = <<>>
    /\ putters = <<>>
    /\ batchingTask = "done"
    /\ toBatch = <<>>
    /\ inflight = {}
    /\ failed = FALSE
    /\ leftOut = {}
    /\ faults \in FaultSets

Next ==
    \/ \E r \in Requests : Predict(r) \/ ResumePut(r) \/ WaitResponse(r) \/ Cancel(r)
    \/ Batcher
    \/ \E b \in inflight : PredictSucceeds(b) \/ PredictFails(b)
    \/ BatchingTaskCallback

\* The event loop runs every callback that is ready and every timer that is
\* due, and the model returns.  Nothing makes a client send a request or leave.
Fairness ==
    /\ \A r \in Requests : WF_vars(ResumePut(r)) /\ WF_vars(WaitResponse(r))
    /\ WF_vars(Batcher)
    /\ WF_vars(\E b \in inflight : PredictSucceeds(b) \/ PredictFails(b))
    /\ WF_vars(BatchingTaskCallback)

Spec == Init /\ [][Next]_vars
FairSpec == Spec /\ Fairness

----------------------------------------------------------------------------
(* Properties *)

\* Every variable has its type; the queue never outgrows its bound and a batch
\* holds between one and max_batch_size requests
TypeOK ==
    /\ pc \in [Requests -> {"idle", "putting", "woken", "waiting", "done"}]
    /\ future \in [Requests -> {"none", "pending", "result", "exception", "cancelled"}]
    /\ asyncResponses \in Seq(Requests)
    /\ requests \in Seq(Requests) /\ Len(requests) <= MaxBatchSize
    /\ putters \in Seq(Requests)
    /\ batchingTask \in {"done", "ready", "running", "blocked"}
    /\ toBatch \in Seq(Requests) /\ Len(toBatch) <= MaxBatchSize
    /\ \A b \in inflight : b \in Seq(Requests) /\ Len(b) \in 1..MaxBatchSize
    /\ failed \in BOOLEAN
    /\ leftOut \subseteq Requests
    /\ faults \in FaultSets

\* Some promises are kept only while batches merge, or while clients also stay
Merges == "merge" \notin faults
Undisturbed == Merges /\ "cancel" \notin faults

Held(r) == \/ r \in ToSet(requests) \cup ToSet(toBatch)
           \/ \E b \in inflight : r \in ToSet(b)

\* A client that waits has its request somewhere that will settle its future, unless the
\* answer to its batch has come and had nothing for it (requests.py:218 and 262-272)
NobodyStranded ==
    \A r \in Requests :
        pc[r] = "waiting" /\ future[r] = "pending" => Held(r) \/ r \in leftOut

\* No request is lost on the way from the queue over the batch to the model and back,
\* whatever the timer, the wakeups and the restarts of the batching task do: whoever waits
\* for nothing was left out by the answer to the batch
NoStrandedRequest == Undisturbed => NobodyStranded

\* Whatever is cancelled and whichever predictions fail, a queued request has a
\* live batching task: _start_batcher_if_needed never takes a task that is about
\* to finish for one that will still look at the queue.  A batch under way has
\* one too, unless merging fails.
QueueIsServed ==
    Merges => (requests # <<>> \/ toBatch # <<>> => batchingTask # "done")

\* Free slots of the queue that waiting putters were not told about: none.  A
\* slot freed by a get, by a cancelled putter or by _clear_queue is always
\* matched by a putter on its way to it.
NoLostWakeup ==
    putters # <<>> =>
        Len(requests) + Cardinality({r \in Requests : pc[r] = "woken"}) >= MaxBatchSize

\* A request is in one place at a time, once: it is never predicted twice
HeldOnce ==
    LET places == {requests, toBatch} \cup inflight
    IN  /\ \A p \in places : Cardinality(ToSet(p)) = Len(p)
        /\ \A p, q \in places : p # q => ToSet(p) \cap ToSet(q) = {}
        /\ requests = toBatch => requests = <<>>
        /\ {requests, toBatch} \cap inflight = {}

\* Batches are cut from the arrival order: of two waiting requests the earlier
\* one is never behind in the queue, the batch or a batch already handed over
ArrivalOrder ==
    \A q, r \in ToSet(asyncResponses) : Before(asyncResponses, q, r) =>
        /\ r \in ToSet(toBatch) => q \notin ToSet(requests)
        /\ \A b \in inflight : r \in ToSet(b) =>
                q \notin ToSet(requests) \cup ToSet(toBatch)
        /\ \A s \in {requests, toBatch} \cup inflight : ~Before(s, r, q)

\* A request leaves the queue for a batch, or with an answer: when _clear_queue meets a
\* future that is done already it gives up, but it empties nothing then (adaptive.py:95)
DroppedMeansAnswered ==
    [][\A r \in ToSet(requests) :
         r \in ToSet(requests' \o toBatch') \/ future'[r] # "pending"]_vars

\* A client that waits for room in the queue gets it, even if others cancel, if batches merge
EveryRequestAdmitted ==
    Merges => \A r \in Requests : pc[r] = "putting" ~> pc[r] \in {"waiting", "done"}

\* What the client of each request sees; "unanswered" is one that will wait in vain
clientStatus ==
    [r \in Requests |-> IF pc[r] = "idle" THEN "idle"
                        ELSE IF future[r] \notin {"none", "pending"} THEN future[r]
                        ELSE IF r \in leftOut THEN "unanswered" ELSE "accepted"]

Service == INSTANCE BatchedInference WITH status <- clientStatus

\* The batcher implements BatchedInference, whatever is cancelled or raises: a request is
\* accepted on arrival, its future is settled once, with those of its batch, and stays as
\* it is; and where clients stay and batches merge, every request is answered in the end
\* or was left out by the model's answer
ImplementsService == Service!Spec

----------------------------------------------------------------------------
(* What the source or its tests say, and the code does not do *)

\* A client that stays is answered, whoever else leaves
StayingClientAnswered ==
    \A r \in Requests :
        pc[r] # "idle" ~> (pc[r] = "done" \/ future[r] = "cancelled")
=============================================================================
