---------------------------- MODULE BatchWindow ----------------------------
(* The clock of AdaptiveBatcher._batch_requests: how long a batch stays open. *)
(* AdaptiveBatcher lets the timer expire whenever it waits; here time is an   *)
(* integer and requests are only counted.  The event loop is prompt: time     *)
(* passes when nothing is ready to run.                                       *)
EXTENDS Integers

CONSTANTS MaxBatchSize, MaxBatchTime, LastTick    \* LastTick bounds the clock

\* What the constants are, wherever it matters
WindowAssumption ==
    /\ MaxBatchSize \in Nat /\ MaxBatchSize > 1
    /\ MaxBatchTime \in Nat /\ MaxBatchTime > 0
    /\ LastTick \in Nat

VARIABLES
    now,        \* time.time()
    queued,     \* the size of the queue, which holds at most MaxBatchSize
    taken,      \* len(to_batch)
    mode,       \* "idle": no batch is open; "running"; "waiting" in wait_for
    start,
    timeout,
    deadline    \* when the timer of wait_for expires

vars == <<now, queued, taken, mode, start, timeout, deadline>>

Init ==
    /\ now = 0 /\ queued = 0 /\ taken = 0
    /\ mode = "idle"
    /\ start = 0 /\ timeout = 0 /\ deadline = 0

Arrive ==
    /\ mode # "running"      \* gets from a filled queue do not suspend
    /\ queued < MaxBatchSize
    /\ queued' = queued + 1
    /\ UNCHANGED <<now, taken, mode, start, timeout, deadline>>

OpenBatch ==
    /\ mode = "idle" /\ queued > 0
    /\ taken' = 0
    /\ start' = now
    /\ timeout' = MaxBatchTime
    /\ mode' = "running"
    /\ UNCHANGED <<now, queued, deadline>>

\* `current - start` is all of the time since the batch was opened
UpdateRemaining == timeout' = timeout - (now - start)

\* A request that is there is taken without looking at the timeout
Take ==
    /\ \/ mode = "running" /\ taken < MaxBatchSize
       \/ mode = "waiting"
    /\ queued > 0
    /\ queued' = queued - 1
    /\ taken' = taken + 1
    /\ mode' = "running"
    /\ UpdateRemaining
    /\ UNCHANGED <<now, start, deadline>>

Await ==
    /\ mode = "running" /\ taken < MaxBatchSize /\ queued = 0
    /\ mode' = "waiting"
    /\ deadline' = now + timeout
    /\ UNCHANGED <<now, queued, taken, start, timeout>>

CloseFullBatch ==
    /\ mode = "running" /\ taken = MaxBatchSize
    /\ mode' = "idle"
    /\ UNCHANGED <<now, queued, taken, start, timeout, deadline>>

\* A request that comes at the same time stays in the queue
Timeout ==
    /\ mode = "waiting" /\ now >= deadline
    /\ mode' = "idle"
    /\ UNCHANGED <<now, queued, taken, start, timeout, deadline>>

Tick ==
    /\ now < LastTick
    /\ queued = 0
    /\ mode = "idle" \/ (mode = "waiting" /\ now < deadline)
    /\ now' = now + 1
    /\ UNCHANGED <<queued, taken, mode, start, timeout, deadline>>

Next == Arrive \/ OpenBatch \/ Take \/ Await \/ CloseFullBatch \/ Timeout \/ Tick

Spec == Init /\ [][Next]_vars

----------------------------------------------------------------------------
\* The numbers stay in their ranges and no batch is larger than allowed
TypeOK ==
    /\ now \in Nat /\ start \in Nat
    /\ queued \in 0..MaxBatchSize /\ taken \in 0..MaxBatchSize
    /\ mode \in {"idle", "running", "waiting"}
    /\ timeout \in Int /\ deadline \in Int

\* max_batch_time bounds the wait: a batch that still waits is not older, however
\* often a request interrupted the wait
NeverLate == mode = "waiting" => now - start <= MaxBatchTime

\* The timer ends the batch
ClosesByTimeout == mode = "waiting" /\ mode' = "idle"

\* "max_batch_time ... controls the time that MLServer should wait for new
\* requests to come in until we reach our maximum batch size": so does every batch
EveryBatchGetsWindow ==
    [][ClosesByTimeout => now - start = MaxBatchTime]_vars

=============================================================================
