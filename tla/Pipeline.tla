------------------------------ MODULE Pipeline ------------------------------
(* Requests on their way through a pipeline with central queues: the router    *)
(* (pipelines/router/models.py) calls the queue of each stage, which batches   *)
(* requests and calls the node of the stage (pipelines/queue/models.py; the    *)
(* nodes are pipelines/mlserver-centralized/, here audio-qa).  With a request  *)
(* travel its arrival at the router, by which late requests are dropped, and   *)
(* the times at which each unit had it: text that is taken apart and put       *)
(* together again at every hop, differently for one request and for several.   *)
EXTENDS Integers, Sequences, FiniteSets, SequencesExt

CONSTANTS
    Requests,     \* the requests clients send
    NumStages,    \* len(MODEL_LISTS)
    DropLimit,    \* DROP_LIMIT, the same for the router and all queues
    LastTick,     \* bound on the clock
    Setups        \* pipelines explored: batch size of each queue, number of requests,
                  \* and whether models fail

Stages == 1..NumStages

ASSUME PipelineAssumption ==
    /\ NumStages \in Nat \ {0} /\ DropLimit \in Nat /\ LastTick \in Nat
    /\ Setups \subseteq [size : [Stages -> Nat \ {0}], load : Nat, fails : BOOLEAN]

VARIABLES
    setup,     \* the pipeline of this behaviour: one of Setups
    now,       \* time.time()
    at,        \* where each request is
    stage,     \* the stage it was sent to last
    arrival,   \* pipeline_arrival: when the router received it
    times,     \* its times, as the router has them
    waiting,   \* the requests in the batcher of each queue, in order
    batches,   \* the batches under way, each a predict() of a queue
    passage,   \* history: the times at which the units really had the request
    mates      \* history: the requests it shared a batch with, at each stage

vars == <<setup, now, at, stage, arrival, times, waiting, batches, passage, mates>>

----------------------------------------------------------------------------
(* The times of a request: Python values and their text *)

Str(v) == <<"str", v>>
List(s) == <<"list", s>>
Dict(entries) == <<"dict", entries>>
None == <<"none">>
Error == <<"error">>      \* what raises

\* eval takes text only, and a character of a text is no expression
Eval(v) == IF v[1] = "str" THEN v[2] ELSE Error
Item(v, i) == IF v[1] = "list" THEN v[2][i] ELSE Error
IsList(v) == v[1] = "list"

Units(entries) == {e.unit : e \in entries}

\* v.update(w)
Update(v, w) ==
    IF v[1] # "dict" \/ w[1] # "dict" THEN Error
    ELSE Dict({e \in v[2] : e.unit \notin Units(w[2])} \cup w[2])

Router == <<"router", 0>>
QueueOf(s) == <<"queue", s>>
NodeOf(s) == <<"node", s>>

\* {PREDICTIVE_UNIT_ID: {"arrival": arrival_time, "serving": serving_time}}
Times(unit, arrived) == {[unit |-> unit, arrival |-> arrived, serving |-> now]}

----------------------------------------------------------------------------
(* What becomes of them in a queue and in a node *)

\* The batcher keeps the text of a single request and makes a list of several
Merged(ids) ==
    IF Len(ids) = 1 THEN times[ids[1]] ELSE List([i \in DOMAIN ids |-> times[ids[i]]])

\* (mutant) the times of a single request are sent as they are
WrappedIfMany(ids) ==
    IF Len(ids) = 1 \/ times[ids[1]] = None THEN Merged(ids) ELSE Str(Merged(ids))

\* The node is sent the text of a list, whatever the size of the batch.  In the first
\* stage there are no times yet
Wrapped(ids) ==
    IF times[ids[1]] = None THEN None
    ELSE IF Len(ids) = 1 THEN Str(List(<<Merged(ids)>>)) ELSE Str(Merged(ids))

\* What the stages before wrote about the i-th request of a batch
Previous(t, i) == Eval(Item(Eval(Item(Eval(t), i)), 1))

\* [times] * batch_shape is one dict, updated with what is known of each request: in the
\* end all have what was written last
SharedTimes(t, n, own) == FoldLeft(Update, own, [i \in 1..n |-> Previous(t, i)])

NodeTimes(t, n, own) ==
    LET v == IF t = None THEN own ELSE SharedTimes(t, n, own)
    IN  IF v = Error THEN Error ELSE Str(List([i \in 1..n |-> Str(v)]))

\* Only a queue that never batches leaves the text of a single request as it is
Received(t, n, size) == IF n = 1 /\ size = 1 THEN t ELSE Eval(t)

\* The times of the i-th request, with those of the queue
Served(v, i, own) ==
    Update(IF IsList(v) THEN Eval(Item(v, i)) ELSE Eval(Item(Eval(v), i)), Dict(own))

\* (mutant) the arrival is kept in the queue object, where the next batch overwrites it
QueueTimesShared(t, i, n, size, own) ==
    LET v == Received(t, n, size)
        latest == {[e EXCEPT !.arrival = Max({c.arrival : c \in batches})] : e \in own}
    IN  Str(List(<<Str(Served(v, i, latest))>>))

\* The response to the i-th request: the text as it is, or cut from a list by the batcher
QueueTimes(t, i, n, size, own) ==
    LET v == Received(t, n, size)
        text == Str(Served(v, i, own))
    IN  IF text[2] = Error \/ (size > 1) # IsList(v) THEN Error ELSE Str(List(<<text>>))

----------------------------------------------------------------------------
(* The router *)

Send(r, s) ==
    /\ at' = [at EXCEPT ![r] = "queue"]
    /\ stage' = [stage EXCEPT ![r] = s]
    /\ waiting' = [waiting EXCEPT ![s] = Append(@, r)]

Predict(r) ==
    /\ at[r] = "idle"
    /\ Cardinality({q \in Requests : at[q] # "idle"}) < setup.load
    /\ arrival' = [arrival EXCEPT ![r] = now]
    /\ Send(r, 1)
    /\ UNCHANGED <<setup, now, times, batches, passage, mates>>

Late(r) == now - arrival[r] >= DropLimit

\* The answer of a stage but the last: drop the request, or call the next queue
NextStage(r) ==
    /\ at[r] = "router" /\ stage[r] # NumStages
    /\ IF Late(r)
       THEN at' = [at EXCEPT ![r] = "dropped"] /\ UNCHANGED <<stage, waiting>>
       ELSE Send(r, stage[r] + 1)
    /\ UNCHANGED <<setup, now, arrival, times, batches, passage, mates>>

Answer(r) ==
    /\ at[r] = "router" /\ stage[r] = NumStages
    /\ LET own == Times(Router, arrival[r])
           v == Update(Eval(Item(Eval(times[r]), 1)), Dict(own))
       IN  /\ at' = [at EXCEPT ![r] = IF v = Error THEN "failed" ELSE "answered"]
           /\ times' = [times EXCEPT ![r] = Str(List(<<Str(v)>>))]
           /\ passage' = [passage EXCEPT ![r] = @ \cup own]
    /\ UNCHANGED <<setup, now, stage, arrival, waiting, batches, mates>>

----------------------------------------------------------------------------
(* A queue.  The router returns a drop-limit-violation, or raises an error, at once *)

Respond(ids, where) ==
    /\ at' = [r \in Requests |-> IF r \in ToSet(ids) THEN where ELSE at[r]]
    /\ UNCHANGED times

\* (mutant) the newest request of the batch decides
NewestLate(ids) == \A r \in ToSet(ids) : Late(r)

\* min(pipeline_arrival) is what is compared with the limit: the oldest request decides
BatchLate(ids) == \E r \in ToSet(ids) : Late(r)

\* The batcher closes a batch of n requests and calls predict()
QueuePredict(s, n) ==
    /\ n \in 1..setup.size[s] /\ n <= Len(waiting[s])
    /\ LET ids == SubSeq(waiting[s], 1, n) IN
          /\ waiting' = [waiting EXCEPT ![s] = SubSeq(@, n + 1, Len(@))]
          /\ mates' = [mates EXCEPT ![s] =
                          [r \in Requests |-> IF r \in ToSet(ids) THEN ToSet(ids) ELSE @[r]]]
          /\ IF BatchLate(ids)
             THEN Respond(ids, "dropped") /\ UNCHANGED batches
             ELSE /\ batches' = batches \cup
                        {[stage |-> s, ids |-> ids, arrival |-> now, returned |-> FALSE,
                          node |-> {}, times |-> Wrapped(ids)]}
                  /\ UNCHANGED <<at, times>>
    /\ UNCHANGED <<setup, now, stage, arrival, passage>>

\* After the model: drop the batch, or add the times of the queue
QueueReturns(b) ==
    /\ b.returned
    /\ batches' = batches \ {b}
    /\ LET n == Len(b.ids)
           own == Times(QueueOf(b.stage), b.arrival)
           result == [i \in 1..n |-> QueueTimes(b.times, i, n, setup.size[b.stage], own)]
       IN  /\ IF BatchLate(b.ids) THEN Respond(b.ids, "dropped")
              ELSE IF \E i \in 1..n : result[i] = Error THEN Respond(b.ids, "failed")
              ELSE /\ at' = [r \in Requests |-> IF r \in ToSet(b.ids) THEN "router" ELSE at[r]]
                   /\ times' = [r \in Requests |->
                                   IF r \in ToSet(b.ids)
                                   THEN result[CHOOSE i \in 1..n : b.ids[i] = r]
                                   ELSE times[r]]
           /\ passage' = [r \in Requests |-> IF r \in ToSet(b.ids)
                                             THEN passage[r] \cup own \cup b.node
                                             ELSE passage[r]]
    /\ UNCHANGED <<setup, now, stage, arrival, waiting, mates>>

----------------------------------------------------------------------------
(* A node, which had the batch from some time after the queue began with it *)

Fail(b) == batches' = batches \ {b} /\ Respond(b.ids, "failed")

NodePredict(b) ==
    /\ ~b.returned
    /\ \E arrived \in b.arrival..now :
       LET own == Times(NodeOf(b.stage), arrived)
           t == NodeTimes(b.times, Len(b.ids), Dict(own))
       IN  IF t = Error THEN Fail(b)
           ELSE /\ batches' = (batches \ {b}) \cup
                      {[b EXCEPT !.returned = TRUE, !.node = own, !.times = t]}
                /\ UNCHANGED <<at, times>>
    /\ UNCHANGED <<setup, now, stage, arrival, waiting, passage, mates>>

\* The model, or the call of it, raises: so does the queue, for the whole batch
NodeRaises(b) ==
    /\ setup.fails /\ ~b.returned
    /\ Fail(b)
    /\ UNCHANGED <<setup, now, stage, arrival, waiting, passage, mates>>

----------------------------------------------------------------------------
Tick ==
    /\ now < LastTick /\ now' = now + 1
    /\ UNCHANGED <<setup, at, stage, arrival, times, waiting, batches, passage, mates>>

Init ==
    /\ setup \in Setups
    /\ now = 0
    /\ at = [r \in Requests |-> "idle"]
    /\ stage = [r \in Requests |-> 0]
    /\ arrival = [r \in Requests |-> 0]
    /\ times = [r \in Requests |-> None]
    /\ waiting = [s \in Stages |-> <<>>]
    /\ batches = {}
    /\ passage = [r \in Requests |-> {}]
    /\ mates = [s \in Stages |-> [r \in Requests |-> {}]]

RouterStep(r) == Predict(r) \/ NextStage(r) \/ Answer(r)
QueueStep(s) == \E n \in 1..Len(waiting[s]) : QueuePredict(s, n)
BatchStep(b) == NodePredict(b) \/ NodeRaises(b) \/ QueueReturns(b)

Next ==
    \/ \E r \in Requests : RouterStep(r)
    \/ \E s \in Stages : QueueStep(s)
    \/ \E b \in batches : BatchStep(b)
    \/ Tick

Spec == Init /\ [][Next]_vars

----------------------------------------------------------------------------
(* Properties *)

\* The entries a client reads from the times of its answer
Trace(r) == Eval(Item(Eval(times[r]), 1))[2]

AllUnits == {Router} \cup {QueueOf(s) : s \in Stages} \cup {NodeOf(s) : s \in Stages}

\* Its answer has the times of every unit, once, and those of the stages in the order in
\* which they are passed
Whole(trace) ==
    /\ Units(trace) = AllUnits /\ Cardinality(trace) = Cardinality(AllUnits)
    /\ \A d, e \in trace : d.unit[1] = "queue" =>
          /\ e.unit = NodeOf(d.unit[2]) => d.arrival <= e.arrival /\ e.serving <= d.serving
          /\ e.unit[1] = "queue" /\ d.unit[2] < e.unit[2] => d.serving <= e.arrival

\* The times of a request survive their way, whatever the sizes of the batches it is in:
\* they can be read at every hop, so that a request fails only if a model raised, and
\* they are complete in the end (pipelines/queue/models.py:162)
TimesSurvive ==
    /\ setup.fails \/ \A r \in Requests : at[r] # "failed"
    /\ \A r \in Requests : at[r] = "answered" => Whole(Trace(r))

Alone(r, s) == mates[s][r] = {r}

\* What a stage wrote is of one request's passage, and of this one's unless a later
\* stage served it together with others; what the router wrote is always its own
OwnTimes ==
    \A r \in Requests : at[r] = "answered" =>
        /\ \A e \in Trace(r) : e.unit = Router => e \in passage[r]
        /\ \A s \in Stages : \E q \in Requests :
              /\ {e \in Trace(r) : e.unit \in {QueueOf(s), NodeOf(s)}} \subseteq passage[q]
              /\ (\A later \in s + 1..NumStages : Alone(r, later)) => q = r

\* A request that the router goes on with left every stage in time
AnsweredInTime(r) ==
    at[r] \in {"router", "answered"} =>
        \A e \in passage[r] : e.unit # Router => e.serving - arrival[r] < DropLimit

\* One that is dropped is late, or was dropped together with one that is
DroppedWithLate(r) ==
    at[r] = "dropped" =>
        \E q \in {r} \cup UNION {mates[s][r] : s \in Stages} :
            at[q] = "dropped" /\ now - arrival[q] >= DropLimit

\* The limit decides who is dropped, with the oldest request of each batch, although it
\* is looked at in three places and at different times (pipelines/queue/models.py:121)
DropLimitKept == \A r \in Requests : AnsweredInTime(r) /\ DroppedWithLate(r)
=============================================================================
