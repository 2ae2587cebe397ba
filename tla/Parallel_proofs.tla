-------------------------- MODULE Parallel_proofs --------------------------
(* Theorems about Parallel for every number of workers, requests and updates, *)
(* and for every combination of faults.                                       *)
EXTENDS Parallel, SequenceTheorems, TLAPS

----------------------------------------------------------------------------
(* Lemmas about queues *)

\* What is put at the end of a queue is in it, with what was there
LEMMA OccursAppend ==
    ASSUME NEW S, NEW s \in Seq(S), NEW e \in S, NEW x
    PROVE  Occurs(Append(s, e), x) <=> Occurs(s, x) \/ x = e
  <1> DEFINE t == Append(s, e)
  <1>1. /\ Len(t) = Len(s) + 1 /\ Len(s) \in Nat /\ t \in Seq(S)
        /\ \A i \in 1..Len(s) : t[i] = s[i]
        /\ t[Len(s) + 1] = e
    BY AppendProperties
  <1> HIDE DEF t
  <1>2. DOMAIN s = 1..Len(s) /\ DOMAIN t = 1..(Len(s) + 1)
    BY <1>1
  <1>3. Occurs(t, x) => Occurs(s, x) \/ x = e
    BY <1>1, <1>2 DEF Occurs
  <1>4. Occurs(s, x) \/ x = e => Occurs(t, x)
    BY <1>1, <1>2 DEF Occurs
  <1> QED
    BY <1>3, <1>4 DEF t

\* What is in a queue is its head or stays in it when the head is taken
LEMMA OccursTail ==
    ASSUME NEW S, NEW s \in Seq(S), s # <<>>, NEW x
    PROVE  /\ Occurs(s, x) <=> x = Head(s) \/ Occurs(Tail(s), x)
           /\ Head(s) \in S /\ Tail(s) \in Seq(S)
  <1> DEFINE t == Tail(s)
  <1>1. /\ t \in Seq(S) /\ Len(t) = Len(s) - 1 /\ Len(s) \in Nat \ {0}
        /\ \A i \in 1..Len(t) : t[i] = s[i + 1]
        /\ Head(s) = s[1] /\ Head(s) \in S
    BY HeadTailProperties, EmptySeq
  <1> HIDE DEF t
  <1>2. DOMAIN s = 1..Len(s) /\ DOMAIN t = 1..(Len(s) - 1)
    BY <1>1
  <1>3. ASSUME NEW i \in DOMAIN s PROVE s[i] = Head(s) \/ Occurs(t, s[i])
    <2>1. CASE i = 1
      BY <1>1, <2>1
    <2>2. CASE i # 1
      <3>1. i - 1 \in DOMAIN t /\ t[i - 1] = s[i]
        BY <1>1, <1>2, <2>2
      <3> QED
        BY <3>1 DEF Occurs
    <2> QED
      BY <2>1, <2>2
  <1>4. ASSUME NEW i \in DOMAIN t PROVE Occurs(s, t[i])
    <2>1. i + 1 \in DOMAIN s /\ s[i + 1] = t[i]
      BY <1>1, <1>2
    <2> QED
      BY <2>1 DEF Occurs
  <1>5. Occurs(s, Head(s))
    BY <1>1, <1>2 DEF Occurs
  <1>6. Occurs(s, x) => x = Head(s) \/ Occurs(t, x)
    BY <1>3 DEF Occurs
  <1>7. x = Head(s) \/ Occurs(t, x) => Occurs(s, x)
    BY <1>4, <1>5 DEF Occurs
  <1> QED
    BY <1>1, <1>6, <1>7 DEF t

----------------------------------------------------------------------------
(* Type correctness.  An update that is awaited has been dispatched, which     *)
(* TypeOK does not say.                                                        *)

TypeInv == TypeOK /\ (updating => kind # <<>>)

Tasks == [id : Requests \cup DOMAIN kind, home : {0} \cup DOMAIN kind, fresh : BOOLEAN]
Messages == [id : Requests \cup DOMAIN kind, from : Workers, outcome : Outcomes]

\* The updates dispatched so far are numbered
LEMMA KindIsNumbered ==
    ASSUME TypeOK
    PROVE  /\ Len(kind) \in Nat /\ Len(kind) <= MaxUpdates /\ DOMAIN kind = 1..Len(kind)
           /\ DOMAIN kind \subseteq Updates /\ MaxUpdates \in Nat
           /\ kind # <<>> => Len(kind) \in DOMAIN kind
           /\ \A u \in DOMAIN kind : kind[u] \in {"load", "unload"}
  BY ParallelAssumption, EmptySeq DEF TypeOK, Updates

\* What a dispatched update changes
LEMMA DispatchUpdateEffect ==
    ASSUME TypeOK, NEW what \in {"load", "unload"}, DispatchUpdate(what)
    PROVE  /\ kind' \in Seq({"load", "unload"}) /\ kind' # <<>>
           /\ Len(kind') = Len(kind) + 1 /\ Len(kind') <= MaxUpdates
           /\ \A u \in DOMAIN kind : kind'[u] = kind[u]
           /\ kind'[Len(kind')] = what
           /\ DOMAIN kind' = DOMAIN kind \cup {Len(kind')}
  <1>1. /\ kind \in Seq({"load", "unload"}) /\ kind' = Append(kind, what)
        /\ Len(kind) + 1 \in Updates /\ Len(kind) \in Nat /\ MaxUpdates \in Nat
    BY ParallelAssumption DEF TypeOK, DispatchUpdate
  <1>2. /\ kind' \in Seq({"load", "unload"}) /\ Len(kind') = Len(kind) + 1
        /\ \A u \in 1..Len(kind) : kind'[u] = kind[u]
        /\ kind'[Len(kind) + 1] = what
    BY <1>1, AppendProperties
  <1>3. /\ DOMAIN kind = 1..Len(kind) /\ DOMAIN kind' = 1..Len(kind')
    BY <1>1, <1>2
  <1> QED
    BY <1>1, <1>2, <1>3, EmptySeq DEF Updates

LEMMA InitTypeInv == Init => TypeInv
  <1> SUFFICES ASSUME Init PROVE TypeInv
    OBVIOUS
  <1>1. \A S : <<>> \in Seq(S) /\ Len(<<>>) = 0
    BY EmptySeq
  <1>2. 1 \in Workers /\ MaxUpdates \in Nat
    BY ParallelAssumption DEF Workers
  <1>3. /\ kind \in Seq({"load", "unload"}) /\ Len(kind) <= MaxUpdates
        /\ requests \in [Workers -> Seq(Requests)] /\ updates \in [Workers -> Seq(DOMAIN kind)]
        /\ responses \in Seq(Messages)
    BY <1>1, <1>2 DEF Init
  <1> QED
    BY <1>2, <1>3 DEF Init, TypeInv, TypeOK, Messages

\* What a new update makes of the types that depend on the updates
LEMMA DispatchUpdateType ==
    ASSUME TypeInv, NEW what \in {"load", "unload"}, DispatchUpdate(what)
    PROVE  TypeInv'
  <1> USE DEF TypeInv
  <1>1. /\ kind' \in Seq({"load", "unload"}) /\ kind' # <<>> /\ Len(kind') <= MaxUpdates
        /\ Len(kind') = Len(kind) + 1
        /\ DOMAIN kind \subseteq DOMAIN kind' /\ Len(kind') \in DOMAIN kind'
    BY DispatchUpdateEffect
  <1>2. updates' \in [Workers -> Seq(DOMAIN kind')]
    <2>1. ASSUME NEW w \in Workers PROVE Append(updates[w], Len(kind) + 1) \in Seq(DOMAIN kind')
      <3>1. updates[w] \in Seq(DOMAIN kind)
        BY DEF TypeOK
      <3>2. updates[w] \in Seq(DOMAIN kind')
        BY <1>1, <3>1, SeqDef
      <3> QED
        BY <1>1, <3>2, AppendProperties
    <2> QED
      BY <2>1 DEF DispatchUpdate
  <1>3. responses' \in Seq(Messages')
    <2>1. responses \in Seq(Messages) /\ Messages \subseteq Messages'
      BY <1>1 DEF TypeOK, Messages
    <2> QED
      BY <2>1 DEF DispatchUpdate
  <1>4. active' \in [Workers -> SUBSET Tasks']
    <2>1. active \in [Workers -> SUBSET Tasks] /\ Tasks \subseteq Tasks'
      BY <1>1 DEF TypeOK, Tasks
    <2> QED
      BY <2>1 DEF DispatchUpdate
  <1>5. answer' \in [Updates -> [Workers -> {"none", "pending"} \cup Outcomes]]
    BY DEF DispatchUpdate, TypeOK
  <1> QED
    BY <1>1, <1>2, <1>3, <1>4, <1>5 DEF DispatchUpdate, TypeOK, Tasks, Messages

\* What is put in the queue of responses is a message
LEMMA PutType ==
    ASSUME TypeOK, NEW w \in Workers, NEW id \in Requests \cup DOMAIN kind,
           NEW outcome \in Outcomes, Put(w, id, outcome)
    PROVE  responses' \in Seq(Messages)
  <1> DEFINE m == [id |-> id, from |-> w, outcome |-> outcome]
  <1>1. m \in Messages /\ responses \in Seq(Messages)
    BY DEF TypeOK, Messages
  <1> QED
    BY <1>1, AppendProperties DEF Put

\* What a task that starts, and one that ends, make of the tasks
LEMMA StartType ==
    ASSUME TypeOK, NEW w \in Workers, NEW t \in Tasks, Start(w, t)
    PROVE  active' \in [Workers -> SUBSET Tasks] /\ responses' \in Seq(Messages)
  BY DEF TypeOK, Start, Tasks, Messages

LEMMA EndType ==
    ASSUME TypeOK, NEW w \in Workers, NEW t \in active[w], NEW outcome \in Outcomes,
           End(w, t, outcome)
    PROVE  active' \in [Workers -> SUBSET Tasks] /\ responses' \in Seq(Messages)
  <1>1. active \in [Workers -> SUBSET Tasks]
    BY DEF TypeOK, Tasks
  <1>2. t \in Tasks
    BY <1>1
  <1>3. t.id \in Requests \cup DOMAIN kind
    BY <1>2 DEF Tasks
  <1> QED
    BY <1>1, <1>3, PutType DEF End

\* The head of a queue that is read
LEMMA QueueHeads ==
    ASSUME TypeOK, NEW w \in Workers
    PROVE  /\ requests[w] # <<>> =>
                /\ Head(requests[w]) \in Requests
                /\ [requests EXCEPT ![w] = Tail(@)] \in [Workers -> Seq(Requests)]
           /\ updates[w] # <<>> =>
                /\ Head(updates[w]) \in DOMAIN kind
                /\ [updates EXCEPT ![w] = Tail(@)] \in [Workers -> Seq(DOMAIN kind)]
  <1>1. /\ requests \in [Workers -> Seq(Requests)]
        /\ updates \in [Workers -> Seq(DOMAIN kind)]
    BY DEF TypeOK
  <1> QED
    BY <1>1, HeadTailProperties

LEMMA ReadRequestType ==
    ASSUME TypeOK, NEW w \in Workers, ReadRequest(w)
    PROVE  TypeOK'
  <1>1. /\ Head(requests[w]) \in Requests
        /\ requests' \in [Workers -> Seq(Requests)]
    BY QueueHeads DEF ReadRequest
  <1>2. Task(Head(requests[w]), 0, FALSE) \in Tasks
    BY <1>1 DEF Task, Tasks
  <1>3. /\ active \in [Workers -> SUBSET Tasks]
        /\ active' \in [Workers -> SUBSET Tasks] /\ responses' \in Seq(Messages)
    BY <1>1, <1>2, PutType, StartType DEF ReadRequest, TypeOK, Tasks, Outcomes
  <1> QED
    BY <1>1, <1>3
    DEF ReadRequest, TypeOK, Tasks, Messages, clientVars, updateVars

LEMMA ReadUpdateType ==
    ASSUME TypeOK, NEW w \in Workers, ReadUpdate(w)
    PROVE  TypeOK'
  <1> DEFINE u == Head(updates[w])
  <1>1. /\ u \in DOMAIN kind
        /\ updates' \in [Workers -> Seq(DOMAIN kind)]
    BY QueueHeads DEF ReadUpdate
  <1>2. /\ active \in [Workers -> SUBSET Tasks]
        /\ model \in [Workers -> {0} \cup DOMAIN kind]
        /\ entry \in [Workers -> {0} \cup DOMAIN kind]
    BY DEF TypeOK, Tasks
  <1> HIDE DEF u
  <1>3. /\ active' \in [Workers -> SUBSET Tasks] /\ responses' \in Seq(Messages)
        /\ model' \in [Workers -> {0} \cup DOMAIN kind]
        /\ entry' \in [Workers -> {0} \cup DOMAIN kind]
    <2>1. CASE StartLoad(w, u)
      <3> DEFINE home == IF entry[w] = 0 THEN u ELSE entry[w]
      <3>1. home \in DOMAIN kind
        BY <1>1, <1>2
      <3>2. /\ model' = IF model[w] = 0 THEN [model EXCEPT ![w] = u] ELSE model
            /\ entry' = [entry EXCEPT ![w] = home]
            /\ Start(w, Task(u, home, model[w] = 0))
        BY <2>1 DEF StartLoad
      <3> HIDE DEF home
      <3>3. Task(u, home, model[w] = 0) \in Tasks
        BY <1>1, <3>1 DEF Task, Tasks
      <3>4. active' \in [Workers -> SUBSET Tasks] /\ responses' \in Seq(Messages)
        BY <3>2, <3>3, StartType
      <3> QED
        BY <1>1, <1>2, <3>1, <3>2, <3>4
    <2>2. CASE Unload(w, u)
      <3>1. responses' \in Seq(Messages)
        BY <1>1, <2>2, PutType DEF Unload, Outcomes
      <3> QED
        BY <1>2, <2>2, <3>1 DEF Unload
    <2> QED
      BY <2>1, <2>2 DEF ReadUpdate, u
  <1> QED
    BY <1>1, <1>3
    DEF ReadUpdate, TypeOK, Tasks, Messages, clientVars, updateVars

LEMMA EndTaskType ==
    ASSUME TypeOK, NEW w \in Workers, NEW t \in active[w],
           EndPredict(w, t) \/ EndLoad(w, t) \/ LoadRaises(w, t)
    PROVE  TypeOK'
  <1>1. /\ t \in Tasks
        /\ model \in [Workers -> {0} \cup DOMAIN kind]
        /\ Requests \cap Updates = {}
    BY ParallelAssumption DEF TypeOK, Tasks, Updates
  <1>2. /\ active' \in [Workers -> SUBSET Tasks] /\ responses' \in Seq(Messages)
    BY EndType DEF EndPredict, EndLoad, LoadRaises, Outcomes
  <1>3. t.id \in Updates => t.id \in DOMAIN kind
    BY <1>1 DEF Tasks
  <1>4. model' \in [Workers -> {0} \cup DOMAIN kind]
    BY <1>1, <1>3 DEF EndPredict, EndLoad, LoadRaises
  <1> QED
    BY <1>2, <1>4
    DEF EndPredict, EndLoad, LoadRaises, TypeOK, Tasks, Messages, clientVars, updateVars

LEMMA ProcessResponseType ==
    ASSUME TypeOK, ProcessResponse
    PROVE  TypeOK'
  <1> DEFINE m == Head(responses)
  <1>1. responses \in Seq(Messages) /\ responses # <<>>
    BY DEF TypeOK, Messages, ProcessResponse
  <1>2. m \in Messages /\ responses' \in Seq(Messages)
    BY <1>1, HeadTailProperties DEF ProcessResponse
  <1>3. m.id \in Requests \cup DOMAIN kind /\ m.from \in Workers /\ m.outcome \in Outcomes
    BY <1>2 DEF Messages
  <1>4. future' \in [Requests -> {"none", "pending", "cancelled"} \cup Outcomes]
    BY <1>3 DEF TypeOK, ProcessResponse
  <1>5. answer' \in [Updates -> [Workers -> {"none", "pending"} \cup Outcomes]]
    <2>1. answer \in [Updates -> [Workers -> {"none", "pending"} \cup Outcomes]]
      BY DEF TypeOK
    <2>2. CASE m.id \in Requests
      BY <2>1, <2>2 DEF ProcessResponse
    <2>3. CASE m.id \notin Requests
      <3>1. m.id \in Updates /\ answer' = [answer EXCEPT ![m.id][m.from] = m.outcome]
        BY <1>3, <2>3, KindIsNumbered DEF ProcessResponse
      <3> QED
        BY <1>3, <2>1, <3>1
    <2> QED
      BY <2>2, <2>3
  <1>6. loop' \in {"on", "crashed"}
    BY DEF TypeOK, ProcessResponse
  <1> QED
    BY <1>2, <1>4, <1>5, <1>6 DEF ProcessResponse, TypeOK, Messages, workerVars

LEMMA NextTypeInv == TypeInv /\ [Next]_vars => TypeInv'
  <1> SUFFICES ASSUME TypeInv, [Next]_vars PROVE TypeInv'
    OBVIOUS
  <1> USE DEF TypeInv
  <1>1. ASSUME NEW r \in Requests, DispatchRequest(r) PROVE TypeInv'
    <2>1. turn \in Workers /\ turn' \in Workers
      BY <1>1, ParallelAssumption DEF DispatchRequest, NextTurn, TypeOK, Workers
    <2>2. requests' \in [Workers -> Seq(Requests)]
      BY <1>1, <2>1, AppendProperties DEF DispatchRequest, TypeOK
    <2> QED
      BY <1>1, <2>1, <2>2 DEF DispatchRequest, TypeOK, updateVars
  <1>2. ASSUME NEW r \in Requests, WaitResponse(r) PROVE TypeInv'
    BY <1>2 DEF WaitResponse, TypeOK, updateVars, workerVars
  <1>3. ASSUME NEW r \in Requests, Cancel(r) PROVE TypeInv'
    BY <1>3 DEF Cancel, TypeOK, updateVars, workerVars
  <1>4. CASE LoadModel \/ UnloadModel
    BY <1>4, DispatchUpdateType DEF LoadModel, UnloadModel
  <1>5. CASE UpdateReturns \/ UpdateRaises
    BY <1>5, KindIsNumbered DEF UpdateReturns, UpdateRaises, TypeOK, clientVars, workerVars
  <1>6. CASE ProcessResponse
    BY <1>6, ProcessResponseType DEF ProcessResponse
  <1>7. CASE RestartLoop
    BY <1>7 DEF RestartLoop, TypeOK, clientVars, updateVars, workerVars
  <1>8. ASSUME NEW w \in Workers, Work(w) PROVE TypeInv'
    <2>1. TypeOK'
      BY <1>8, ReadRequestType, ReadUpdateType, EndTaskType DEF Work
    <2>2. UNCHANGED updateVars
      BY <1>8 DEF Work, ReadRequest, ReadUpdate, EndPredict, EndLoad, LoadRaises
    <2> QED
      BY <2>1, <2>2 DEF updateVars
  <1>9. CASE UNCHANGED vars
    BY <1>9 DEF vars, clientVars, updateVars, workerVars, TypeOK
  <1> QED
    BY <1>1, <1>2, <1>3, <1>4, <1>5, <1>6, <1>7, <1>8, <1>9 DEF Next, Main

\* Every variable keeps its type: queues, tasks and answers belong to requests and updates
\* that were dispatched (dispatcher.py, worker.py)
THEOREM ParallelTypeCorrect == Spec => []TypeOK
  <1>1. TypeInv => TypeOK
    BY DEF TypeInv
  <1> QED
    BY <1>1, InitTypeInv, NextTypeInv, PTL DEF Spec

----------------------------------------------------------------------------
(* No answer is lost.  A request is on its way from its dispatch until its      *)
(* answer is read, and as long as its client waits it is registered for it.     *)

\* The messages in the queue of responses
InTransit == {responses[i] : i \in DOMAIN responses}

Queued(r) == \E w \in Workers : Occurs(requests[w], r)
Running(r) == \E w \in Workers : \E t \in active[w] : t.id = r
Answered(r) == \E m \in InTransit : m.id = r

RequestsInv == \A r \in Requests :
    /\ future[r] = "pending" => r \in registered /\ InFlight(r)
    /\ future[r] = "none" => ~InFlight(r)

LEMMA InFlightPlaces ==
    /\ \A r : InFlight(r) <=> Queued(r) \/ Running(r) \/ Answered(r)
    /\ \A r : InFlight(r)' <=> Queued(r)' \/ Running(r)' \/ Answered(r)'
  BY DEF InFlight, Queued, Running, Answered, InTransit

LEMMA PutInTransit ==
    ASSUME TypeOK, NEW w \in Workers, NEW id \in Requests \cup DOMAIN kind,
           NEW outcome \in Outcomes, Put(w, id, outcome)
    PROVE  InTransit' = InTransit \cup {[id |-> id, from |-> w, outcome |-> outcome]}
  <1> DEFINE m == [id |-> id, from |-> w, outcome |-> outcome]
  <1>1. m \in Messages /\ responses \in Seq(Messages) /\ responses' = Append(responses, m)
    BY DEF TypeOK, Messages, Put
  <1> HIDE DEF m
  <1>2. /\ Len(responses') = Len(responses) + 1 /\ responses' \in Seq(Messages)
        /\ \A i \in 1..Len(responses) : responses'[i] = responses[i]
        /\ responses'[Len(responses) + 1] = m /\ Len(responses) \in Nat
    BY <1>1, AppendProperties
  <1>3. DOMAIN responses = 1..Len(responses) /\ DOMAIN responses' = 1..(Len(responses) + 1)
    BY <1>1, <1>2
  <1> QED
    BY <1>2, <1>3 DEF InTransit, m

LEMMA PutAnswers ==
    ASSUME TypeOK, NEW w \in Workers, NEW id \in Requests \cup DOMAIN kind,
           NEW outcome \in Outcomes, Put(w, id, outcome), NEW x
    PROVE  Answered(x)' <=> Answered(x) \/ x = id
  <1> DEFINE m == [id |-> id, from |-> w, outcome |-> outcome]
  <1>1. InTransit' = InTransit \cup {m}
    BY PutInTransit
  <1>2. m.id = id
    OBVIOUS
  <1> HIDE DEF m
  <1>3. Answered(x)' <=> \E e \in InTransit' : e.id = x
    BY DEF Answered
  <1> QED
    BY <1>1, <1>2, <1>3 DEF Answered

LEMMA ProcessResponseInTransit ==
    ASSUME TypeOK, ProcessResponse
    PROVE  /\ Head(responses) \in InTransit /\ Head(responses) \in Messages
           /\ InTransit = InTransit' \cup {Head(responses)}
  <1>1. responses \in Seq(Messages) /\ responses # <<>> /\ responses' = Tail(responses)
    BY DEF TypeOK, Messages, ProcessResponse
  <1>2. \A m : Occurs(responses, m) <=> m = Head(responses) \/ Occurs(responses', m)
    BY <1>1, OccursTail
  <1>3. /\ \A m : m \in InTransit <=> Occurs(responses, m)
        /\ \A m : m \in InTransit' <=> Occurs(responses', m)
    BY DEF InTransit, Occurs
  <1> QED
    BY <1>1, <1>2, <1>3, HeadTailProperties

LEMMA DispatchInFlight ==
    ASSUME TypeOK, NEW r \in Requests, DispatchRequest(r), NEW x
    PROVE  InFlight(x)' <=> InFlight(x) \/ x = r
  <1>1. /\ turn \in Workers /\ requests \in [Workers -> Seq(Requests)]
        /\ requests' = [requests EXCEPT ![turn] = Append(@, r)]
    BY DEF TypeOK, DispatchRequest
  <1>2. Occurs(requests'[turn], x) <=> Occurs(requests[turn], x) \/ x = r
    BY <1>1, OccursAppend
  <1>3. Queued(x)' <=> Queued(x) \/ x = r
    BY <1>1, <1>2 DEF Queued
  <1>4. UNCHANGED <<active, responses>>
    BY DEF DispatchRequest
  <1> QED
    BY <1>3, <1>4 DEF InFlight, Queued

LEMMA ReadRequestInFlight ==
    ASSUME TypeOK, NEW w \in Workers, ReadRequest(w), NEW x
    PROVE  InFlight(x)' <=> InFlight(x)
  <1> DEFINE r == Head(requests[w])
  <1>1. /\ requests \in [Workers -> Seq(Requests)] /\ requests[w] # <<>>
        /\ requests' = [requests EXCEPT ![w] = Tail(@)]
        /\ active \in [Workers -> SUBSET Tasks]
    BY DEF TypeOK, ReadRequest, Tasks
  <1>2. /\ Occurs(requests[w], x) <=> x = r \/ Occurs(Tail(requests[w]), x)
        /\ r \in Requests
    BY <1>1, OccursTail
  <1>3. Queued(x) <=> x = r \/ Queued(x)'
    BY <1>1, <1>2 DEF Queued
  <1> HIDE DEF r
  <1>4. CASE model[w] = 0
    <2>1. Put(w, r, "notFound") /\ UNCHANGED active
      BY <1>4 DEF ReadRequest, r
    <2>2. Answered(x)' <=> Answered(x) \/ x = r
      BY <1>2, <2>1, PutAnswers DEF Outcomes
    <2>3. Running(x)' <=> Running(x)
      BY <2>1 DEF Running
    <2> QED
      BY <1>3, <2>2, <2>3, InFlightPlaces
  <1>5. CASE model[w] # 0
    <2>1. active' = [active EXCEPT ![w] = @ \cup {Task(r, 0, FALSE)}] /\ UNCHANGED responses
      BY <1>5 DEF ReadRequest, Start, r
    <2>2. Task(r, 0, FALSE).id = r
      BY DEF Task
    <2>3. (Running(x)' <=> Running(x) \/ x = r) /\ (Answered(x)' <=> Answered(x))
      BY <1>1, <2>1, <2>2 DEF Running, Answered, InTransit
    <2> QED
      BY <1>3, <2>3, InFlightPlaces
  <1> QED
    BY <1>4, <1>5

LEMMA EndInFlight ==
    ASSUME TypeOK, NEW w \in Workers, NEW t \in active[w], NEW outcome \in Outcomes,
           End(w, t, outcome), UNCHANGED requests, NEW x
    PROVE  InFlight(x)' <=> InFlight(x)
  <1>1. active \in [Workers -> SUBSET Tasks] /\ t \in Tasks
    BY DEF TypeOK, Tasks
  <1>2. /\ active' = [active EXCEPT ![w] = @ \ {t}] /\ Put(w, t.id, outcome)
        /\ t.id \in Requests \cup DOMAIN kind
    BY <1>1 DEF End, Tasks
  <1>3. Answered(x)' <=> Answered(x) \/ x = t.id
    BY <1>2, PutAnswers
  <1>4. /\ Running(x) => Running(x)' \/ x = t.id
        /\ Running(x)' => Running(x)
        /\ Running(t.id)
    BY <1>1, <1>2 DEF Running
  <1>5. Queued(x)' <=> Queued(x)
    BY DEF Queued
  <1> QED
    BY <1>3, <1>4, <1>5, InFlightPlaces

\* Updates are not requests
LEMMA ReadUpdateInFlight ==
    ASSUME TypeOK, NEW w \in Workers, ReadUpdate(w), NEW x \in Requests
    PROVE  InFlight(x)' <=> InFlight(x)
  <1> DEFINE u == Head(updates[w])
  <1>1. u \in DOMAIN kind /\ x # u /\ active \in [Workers -> SUBSET Tasks]
    BY QueueHeads, KindIsNumbered, ParallelAssumption DEF ReadUpdate, TypeOK, Tasks
  <1> HIDE DEF u
  <1>2. Queued(x)' <=> Queued(x)
    BY DEF ReadUpdate, Queued
  <1>3. CASE StartLoad(w, u)
    <2>1. PICK t : t.id = u /\ Start(w, t)
      BY <1>3 DEF StartLoad, Task
    <2>2. (Running(x)' <=> Running(x)) /\ (Answered(x)' <=> Answered(x))
      BY <1>1, <2>1 DEF Start, Running, Answered, InTransit
    <2> QED
      BY <1>2, <2>2, InFlightPlaces
  <1>4. CASE Unload(w, u)
    <2>1. PICK outcome \in Outcomes : Put(w, u, outcome) /\ UNCHANGED active
      BY <1>4 DEF Unload, Outcomes
    <2>2. Answered(x)' <=> Answered(x)
      BY <1>1, <2>1, PutAnswers
    <2>3. Running(x)' <=> Running(x)
      BY <2>1 DEF Running
    <2> QED
      BY <1>2, <2>2, <2>3, InFlightPlaces
  <1> QED
    BY <1>3, <1>4 DEF ReadUpdate, u

LEMMA NextRequestsInv == TypeInv /\ RequestsInv /\ [Next]_vars => RequestsInv'
  <1> SUFFICES ASSUME TypeInv, RequestsInv, [Next]_vars PROVE RequestsInv'
    OBVIOUS
  <1> USE DEF TypeInv
  <1>0. future \in [Requests -> {"none", "pending", "cancelled"} \cup Outcomes]
    BY DEF TypeOK
  <1>1. ASSUME UNCHANGED <<future, registered>>, \A r \in Requests : InFlight(r)' <=> InFlight(r)
        PROVE  RequestsInv'
    BY <1>1 DEF RequestsInv
  <1>2. ASSUME UNCHANGED <<requests, active, responses>>
        PROVE  \A r \in Requests : InFlight(r)' <=> InFlight(r)
    BY <1>2 DEF InFlight
  <1>3. ASSUME NEW r \in Requests, DispatchRequest(r) PROVE RequestsInv'
    <2>1. \A x \in Requests : InFlight(x)' <=> InFlight(x) \/ x = r
      BY <1>3, DispatchInFlight
    <2>2. future' = [future EXCEPT ![r] = "pending"] /\ registered' = registered \cup {r}
      BY <1>3 DEF DispatchRequest
    <2> QED
      BY <1>0, <2>1, <2>2 DEF RequestsInv
  <1>4. ASSUME NEW r \in Requests, WaitResponse(r) PROVE RequestsInv'
    <2>1. /\ future[r] # "pending" /\ registered' = registered \ {r} /\ UNCHANGED future
          /\ UNCHANGED <<requests, active, responses>>
      BY <1>4 DEF WaitResponse, workerVars
    <2> QED
      BY <1>2, <2>1 DEF RequestsInv
  <1>5. ASSUME NEW r \in Requests, Cancel(r) PROVE RequestsInv'
    <2>1. /\ future' = [future EXCEPT ![r] = "cancelled"] /\ UNCHANGED registered
          /\ UNCHANGED <<requests, active, responses>>
      BY <1>5 DEF Cancel, workerVars
    <2> QED
      BY <1>0, <1>2, <2>1 DEF RequestsInv
  <1>6. CASE LoadModel \/ UnloadModel \/ UpdateReturns \/ UpdateRaises \/ RestartLoop \/ UNCHANGED vars
    <2>1. UNCHANGED <<future, registered, requests, active, responses>>
      BY <1>6 DEF LoadModel, UnloadModel, DispatchUpdate, UpdateReturns, UpdateRaises, RestartLoop,
                  vars, clientVars, workerVars
    <2> QED
      BY <1>1, <1>2, <2>1
  <1>7. CASE ProcessResponse
    <2> DEFINE m == Head(responses)
    <2>1. m \in InTransit /\ m \in Messages /\ InTransit = InTransit' \cup {m}
      BY <1>7, ProcessResponseInTransit
    <2>2. UNCHANGED <<requests, active, registered>>
      BY <1>7 DEF ProcessResponse, workerVars
    <2>3. \A r : InFlight(r)' => InFlight(r)
      BY <2>1, <2>2, InFlightPlaces DEF Queued, Running, Answered
    <2>4. \A r : InFlight(r) /\ r # m.id => InFlight(r)'
      BY <2>1, <2>2, InFlightPlaces DEF Queued, Running, Answered
    <2>5. IF m.id \in registered /\ future[m.id] = "pending" /\ m.id \in Requests
          THEN future' = [future EXCEPT ![m.id] = m.outcome]
          ELSE future' = future
      BY <1>7 DEF ProcessResponse
    <2>6. m.outcome \notin {"pending", "none"}
      BY <2>1 DEF Messages, Outcomes
    <2> HIDE DEF m
    <2>7. ASSUME NEW r \in Requests, future'[r] = "pending"
          PROVE  r \in registered' /\ InFlight(r)'
      <3>1. future[r] = "pending"
        BY <1>0, <2>5, <2>6, <2>7
      <3>2. r # m.id
        BY <1>0, <2>5, <2>6, <2>7, <3>1 DEF RequestsInv
      <3> QED
        BY <2>2, <2>4, <3>1, <3>2 DEF RequestsInv
    <2>8. ASSUME NEW r \in Requests, future'[r] = "none" PROVE ~InFlight(r)'
      <3>1. future[r] = "none"
        BY <1>0, <2>5, <2>6, <2>8
      <3> QED
        BY <2>3, <3>1 DEF RequestsInv
    <2> QED
      BY <2>7, <2>8 DEF RequestsInv
  <1>8. ASSUME NEW w \in Workers, Work(w) PROVE RequestsInv'
    <2>1. UNCHANGED <<future, registered>>
      BY <1>8 DEF Work, ReadRequest, ReadUpdate, EndPredict, EndLoad, LoadRaises, clientVars
    <2>2. ASSUME NEW t \in active[w], EndPredict(w, t) \/ EndLoad(w, t) \/ LoadRaises(w, t)
          PROVE  \A r \in Requests : InFlight(r)' <=> InFlight(r)
      <3>1. \E outcome \in Outcomes : End(w, t, outcome) /\ UNCHANGED requests
        BY <2>2 DEF EndPredict, EndLoad, LoadRaises, Outcomes
      <3> QED
        BY <3>1, EndInFlight
    <2>3. \A r \in Requests : InFlight(r)' <=> InFlight(r)
      BY <1>8, <2>2, ReadRequestInFlight, ReadUpdateInFlight DEF Work
    <2> QED
      BY <1>1, <2>1, <2>3
  <1> QED
    BY <1>3, <1>4, <1>5, <1>6, <1>7, <1>8 DEF Next, Main

LEMMA InitRequestsInv == Init => RequestsInv
  <1> SUFFICES ASSUME Init PROVE RequestsInv
    OBVIOUS
  <1>1. DOMAIN <<>> = {}
    BY EmptySeq
  <1>2. \A r : ~InFlight(r)
    BY <1>1 DEF Init, InFlight, Occurs
  <1> QED
    BY <1>2 DEF Init, RequestsInv

\* A client waits only for a request that is in the queue of a worker, in progress there or
\* answered in the queue of responses (dispatcher.py:61)
THEOREM NoAnswerLost == Spec => []NothingLost
  <1>1. RequestsInv => NothingLost
    BY DEF RequestsInv, NothingLost
  <1> QED
    BY <1>1, InitTypeInv, NextTypeInv, InitRequestsInv, NextRequestsInv, PTL DEF Spec

----------------------------------------------------------------------------
(* What the workers have loaded, against what the main registry serves.        *)
(* Updates are numbered in the order of their dispatch, and every worker reads *)
(* them in that order: it is behind by a suffix of them.                       *)

\* The last update that worker w has read
ReadUpTo(w) == Len(kind) - Len(updates[w])

QueuesInOrder == \A w \in Workers :
    /\ Len(updates[w]) <= Len(kind)
    /\ \A i \in 1..Len(updates[w]) : updates[w][i] = ReadUpTo(w) + i

\* A load that finds no model, unless the workers disagree
FirstLoad(u) == kind[u] = "load" /\ (u = 1 \/ kind[u - 1] = "unload")

Unloading == updating /\ kind[Len(kind)] = "unload"

\* Loads in progress on the registry object of the name; those that go with their model
Current(w) == {t \in active[w] : t.id \in Updates /\ t.home = entry[w]}
Fresh(w) == {t \in Current(w) : t.fresh}

\* The worker has a model that stays until the next unload
Holds(w) == model[w] # 0 /\ Fresh(w) = {}

\* What the main registry makes of the outcome of the last update
MainInv ==
    /\ kind = <<>> => served = 0 /\ ~failedLoad
    /\ kind # <<>> => LET n == Len(kind) IN
         /\ kind[n] = "load" => updating \/ failedLoad \/ served # 0
         /\ kind[n] = "unload" /\ ~updating => served = 0 /\ ~failedLoad
         /\ FirstLoad(n) => served \in {0, n} /\ (updating => served = 0)
         /\ kind[n] = "load" /\ ~FirstLoad(n) => served # 0
         /\ failedLoad => served = 0 /\ (kind[n] = "load" => ~updating /\ FirstLoad(n))

\* While a model is served, nothing on its way to a worker takes it away
ServedInv ==
    served # 0 /\ ~Unloading =>
        \A w \in Workers :
            /\ Holds(w) /\ ReadUpTo(w) >= served
            /\ \A u \in (ReadUpTo(w) + 1)..Len(kind) : kind[u] = "load"

\* A first load that is followed by another load was a success in every worker
FollowedInv ==
    \A u \in 1..(Len(kind) - 1) : FirstLoad(u) /\ kind[u + 1] = "load" =>
        \A w \in Workers : ReadUpTo(w) >= u /\ (ReadUpTo(w) = u => Holds(w))

\* The tasks and the model of a worker
TasksInv(w) ==
    /\ \A t \in active[w] : t.id \in Updates =>
            t.id <= ReadUpTo(w) /\ t.home # 0 /\ t.home <= ReadUpTo(w)
    /\ \A s, t \in active[w] : s.id \in Updates /\ s.id = t.id => s = t
    /\ \A t \in Fresh(w) : t.id = ReadUpTo(w)
    /\ Fresh(w) # {} => FirstLoad(ReadUpTo(w)) /\ Current(w) \subseteq Fresh(w)
    /\ Current(w) # {} => model[w] # 0

ModelInv(w) ==
    /\ model[w] # 0 => entry[w] # 0
    /\ entry[w] <= ReadUpTo(w)
    /\ ReadUpTo(w) = 0 \/ kind[ReadUpTo(w)] = "unload" => model[w] = 0
    /\ model[w] = 0 /\ ReadUpTo(w) # 0 /\ kind[ReadUpTo(w)] = "load" => FirstLoad(ReadUpTo(w))

\* A worker has answered an update
Settled(u, w) ==
    \/ answer[u][w] \notin {"none", "pending"}
    \/ \E m \in InTransit : m.id = u /\ m.from = w

\* It answers what it has read, when its task has ended
AnswersInv == \A w \in Workers : \A u \in Updates :
    Settled(u, w) => u <= ReadUpTo(w) /\ \A t \in active[w] : t.id # u

\* A worker that has no model after a load has not said that the load succeeded
NoFalseSuccess(w) ==
    model[w] = 0 /\ ReadUpTo(w) # 0 /\ kind[ReadUpTo(w)] = "load" =>
        /\ \A t \in active[w] : t.id # ReadUpTo(w)
        /\ answer[ReadUpTo(w)][w] # "result"
        /\ \A m \in InTransit : m.id = ReadUpTo(w) /\ m.from = w => m.outcome # "result"

WorkersInv == \A w \in Workers : TasksInv(w) /\ ModelInv(w) /\ NoFalseSuccess(w)

ModelsInv == QueuesInOrder /\ MainInv /\ ServedInv /\ FollowedInv /\ WorkersInv /\ AnswersInv

----------------------------------------------------------------------------
(* Lemmas about what the steps change                                          *)

\* How far a worker has read
LEMMA ReadUpToType ==
    ASSUME TypeOK, QueuesInOrder, NEW w \in Workers
    PROVE  /\ ReadUpTo(w) \in 0..Len(kind) /\ Len(kind) \in Nat
           /\ ReadUpTo(w) # 0 => ReadUpTo(w) \in DOMAIN kind
           /\ updates[w] \in Seq(DOMAIN kind)
  <1>1. updates[w] \in Seq(DOMAIN kind) /\ Len(updates[w]) \in Nat
    BY DEF TypeOK
  <1>2. Len(updates[w]) <= Len(kind)
    BY DEF QueuesInOrder
  <1>3. Len(kind) \in Nat /\ DOMAIN kind = 1..Len(kind)
    BY KindIsNumbered
  <1> QED
    BY <1>1, <1>2, <1>3 DEF ReadUpTo

\* A worker that reads an update reads the next one
LEMMA ReadUpdateEffect ==
    ASSUME TypeOK, QueuesInOrder, NEW w \in Workers, ReadUpdate(w)
    PROVE  /\ Head(updates[w]) = ReadUpTo(w) + 1 /\ ReadUpTo(w) + 1 \in DOMAIN kind
           /\ ReadUpTo(w)' = ReadUpTo(w) + 1
           /\ \A v \in Workers \ {w} : ReadUpTo(v)' = ReadUpTo(v)
           /\ QueuesInOrder'
  <1>1. /\ updates \in [Workers -> Seq(DOMAIN kind)] /\ updates[w] # <<>>
        /\ updates' = [updates EXCEPT ![w] = Tail(@)] /\ kind' = kind
    BY DEF TypeOK, ReadUpdate, updateVars
  <1>2. /\ Len(updates[w]) \in Nat \ {0}
        /\ Head(updates[w]) = updates[w][1]
        /\ Head(updates[w]) \in DOMAIN kind
        /\ Len(updates'[w]) = Len(updates[w]) - 1
        /\ \A i \in 1..Len(updates'[w]) : updates'[w][i] = updates[w][i + 1]
    BY <1>1, HeadTailProperties, EmptySeq
  <1>3. Head(updates[w]) = ReadUpTo(w) + 1
    BY <1>2 DEF QueuesInOrder
  <1>4. \A v \in Workers \ {w} : updates'[v] = updates[v]
    BY <1>1
  <1>5. Len(kind) \in Nat
    BY KindIsNumbered
  <1>6. ReadUpTo(w)' = ReadUpTo(w) + 1
    BY <1>1, <1>2, <1>5 DEF ReadUpTo
  <1>7. \A v \in Workers \ {w} : ReadUpTo(v)' = ReadUpTo(v)
    BY <1>1, <1>4 DEF ReadUpTo
  <1>8. QueuesInOrder'
    <2>1. ASSUME NEW v \in Workers, v # w
          PROVE  /\ Len(updates'[v]) <= Len(kind')
                 /\ \A i \in 1..Len(updates'[v]) : updates'[v][i] = ReadUpTo(v)' + i
      BY <1>1, <1>4, <1>7, <2>1 DEF QueuesInOrder
    <2>2. /\ Len(updates'[w]) <= Len(kind')
          /\ \A i \in 1..Len(updates'[w]) : updates'[w][i] = ReadUpTo(w)' + i
      <3>1. Len(updates[w]) <= Len(kind) /\ ReadUpTo(w) \in Nat
        BY ReadUpToType DEF QueuesInOrder
      <3>2. Len(updates'[w]) <= Len(kind')
        BY <1>1, <1>2, <1>5, <3>1
      <3>3. ASSUME NEW i \in 1..Len(updates'[w])
            PROVE  updates'[w][i] = ReadUpTo(w)' + i
        <4>1. i + 1 \in 1..Len(updates[w])
          BY <1>2
        <4>2. updates[w][i + 1] = ReadUpTo(w) + (i + 1)
          BY <4>1 DEF QueuesInOrder
        <4> QED
          BY <1>2, <1>6, <3>1, <4>2
      <3> QED
        BY <3>2, <3>3
    <2> QED
      BY <2>1, <2>2 DEF QueuesInOrder
  <1> QED
    BY <1>2, <1>3, <1>6, <1>7, <1>8

\* A dispatched update is put behind those a worker has still to read
LEMMA DispatchUpdateOrder ==
    ASSUME TypeOK, QueuesInOrder, NEW what \in {"load", "unload"}, DispatchUpdate(what)
    PROVE  /\ \A w \in Workers : ReadUpTo(w)' = ReadUpTo(w)
           /\ QueuesInOrder'
  <1>1. ASSUME NEW w \in Workers
        PROVE  /\ Len(updates'[w]) <= Len(kind') /\ ReadUpTo(w)' = ReadUpTo(w)
               /\ \A i \in 1..Len(updates'[w]) : updates'[w][i] = ReadUpTo(w)' + i
    <2>1. /\ updates[w] \in Seq(DOMAIN kind) /\ Len(updates[w]) <= Len(kind)
          /\ \A i \in 1..Len(updates[w]) : updates[w][i] = ReadUpTo(w) + i
          /\ updates'[w] = Append(updates[w], Len(kind) + 1)
      BY DEF TypeOK, QueuesInOrder, DispatchUpdate
    <2>2. /\ Len(updates'[w]) = Len(updates[w]) + 1 /\ Len(updates[w]) \in Nat
          /\ \A i \in 1..Len(updates[w]) : updates'[w][i] = updates[w][i]
          /\ updates'[w][Len(updates[w]) + 1] = Len(kind) + 1
      <3>1. updates[w] \in Seq(Nat) /\ Len(kind) + 1 \in Nat
        BY <2>1, KindIsNumbered, SeqDef
      <3> QED
        BY <2>1, <3>1, AppendProperties
    <2>3. Len(kind') = Len(kind) + 1 /\ Len(kind) \in Nat
      BY DispatchUpdateEffect, KindIsNumbered
    <2>4. ReadUpTo(w)' = ReadUpTo(w)
      BY <2>2, <2>3 DEF ReadUpTo
    <2>5. Len(updates'[w]) <= Len(kind')
      BY <2>1, <2>2, <2>3
    <2>6. ASSUME NEW i \in 1..Len(updates'[w]) PROVE updates'[w][i] = ReadUpTo(w)' + i
      <3>1. CASE i \in 1..Len(updates[w])
        BY <2>1, <2>2, <2>4, <3>1
      <3>2. CASE i = Len(updates[w]) + 1
        <4>1. \A a, b \in Nat : (a - b) + (b + 1) = a + 1
          OBVIOUS
        <4>2. ReadUpTo(w) + (Len(updates[w]) + 1) = Len(kind) + 1
          BY <2>2, <2>3, <4>1 DEF ReadUpTo
        <4> QED
          BY <2>2, <2>4, <3>2, <4>2
      <3> QED
        BY <2>2, <3>1, <3>2
    <2> QED
      BY <2>4, <2>5, <2>6
  <1> QED
    BY <1>1 DEF QueuesInOrder
----------------------------------------------------------------------------
(* The steps of one worker                                                     *)

\* Its part of the types
LEMMA WorkerTypes ==
    ASSUME TypeOK, NEW w \in Workers
    PROVE  /\ active \in [Workers -> SUBSET Tasks] /\ active[w] \subseteq Tasks
           /\ model \in [Workers -> {0} \cup DOMAIN kind]
           /\ entry \in [Workers -> {0} \cup DOMAIN kind]
           /\ \A t \in active[w] :
                /\ t.id \in Updates => t.id \in DOMAIN kind /\ t.id \notin Requests
                /\ t.home \in {0} \cup DOMAIN kind /\ t.fresh \in BOOLEAN
           /\ DOMAIN kind = 1..Len(kind) /\ Len(kind) \in Nat
           /\ DOMAIN kind \subseteq Updates /\ Updates \cap Requests = {}
  <1>1. Updates \cap Requests = {} /\ Updates \subseteq Nat
    BY ParallelAssumption DEF Updates
  <1>2. /\ active \in [Workers -> SUBSET Tasks] /\ active[w] \subseteq Tasks
        /\ model \in [Workers -> {0} \cup DOMAIN kind]
        /\ entry \in [Workers -> {0} \cup DOMAIN kind]
    BY DEF TypeOK, Tasks
  <1>3. ASSUME NEW t \in active[w]
        PROVE  /\ t.id \in Updates => t.id \in DOMAIN kind /\ t.id \notin Requests
               /\ t.home \in {0} \cup DOMAIN kind /\ t.fresh \in BOOLEAN
    <2>1. t \in Tasks
      BY <1>2
    <2> QED
      BY <1>1, <2>1 DEF Tasks
  <1> QED
    BY <1>1, <1>2, <1>3, KindIsNumbered

\* A load that finds no model is a first load, and its task is the only one that counts
LEMMA LoadFindsNone ==
    ASSUME TypeOK, QueuesInOrder, FollowedInv, NEW w \in Workers, TasksInv(w), ModelInv(w),
           ReadUpdate(w), kind[ReadUpTo(w) + 1] = "load", model[w] = 0
    PROVE  TasksInv(w)' /\ ModelInv(w)' /\ model'[w] # 0
  <1> DEFINE k == ReadUpTo(w)
             u == k + 1
             home == IF entry[w] = 0 THEN u ELSE entry[w]
             t0 == Task(u, home, TRUE)
  <1>1. /\ k \in 0..Len(kind) /\ u \in DOMAIN kind /\ (k # 0 => k \in DOMAIN kind)
        /\ ReadUpTo(w)' = u /\ StartLoad(w, u) /\ kind' = kind
    BY ReadUpToType, ReadUpdateEffect DEF ReadUpdate, updateVars
  <1>2. /\ active \in [Workers -> SUBSET Tasks]
        /\ model \in [Workers -> {0} \cup DOMAIN kind]
        /\ entry \in [Workers -> {0} \cup DOMAIN kind]
        /\ DOMAIN kind = 1..Len(kind) /\ Len(kind) \in Nat /\ DOMAIN kind \subseteq Updates
    BY WorkerTypes
  <1>3. /\ t0.id = u /\ t0.home = home /\ t0.fresh
    BY DEF Task
  <1> HIDE DEF k, u, home, t0
  <1>4. home \in 1..u /\ (entry[w] # 0 => home = entry[w]) /\ (entry[w] = 0 => home = u)
    BY <1>1, <1>2 DEF home, u, k, ModelInv
  <1>5. /\ active'[w] = active[w] \cup {t0} /\ model'[w] = u /\ entry'[w] = home
    BY <1>1, <1>2 DEF StartLoad, Start, home, t0
  <1>6. FirstLoad(u)
    <2>1. k = 0 \/ kind[k] = "unload" \/ kind[k] = "load"
      BY <1>1, KindIsNumbered
    <2>2. CASE k = 0 \/ kind[k] = "unload"
      BY <1>1, <2>2 DEF FirstLoad, u, k
    <2>3. CASE k # 0 /\ kind[k] = "load"
      <3>1. FirstLoad(k)
        BY <2>3 DEF ModelInv, k
      <3>2. k \in 1..(Len(kind) - 1)
        BY <1>1, <1>2, <2>3 DEF u
      <3>3. Holds(w)
        BY <3>1, <3>2 DEF FollowedInv, k
      <3> QED
        BY <3>3 DEF Holds
    <2> QED
      BY <2>1, <2>2, <2>3
  <1>7. Current(w) = {} /\ Fresh(w) = {}
    BY DEF TasksInv, Fresh
  <1>8. \A t \in active[w] : t.id \in Updates =>
            t.id <= k /\ t.id < u /\ t.home # 0 /\ t.home <= k /\ t.home < u
    <2>1. ASSUME NEW t \in active[w], t.id \in Updates
          PROVE  t.id \in Nat /\ t.home \in Nat /\ t.id <= k /\ t.home # 0 /\ t.home <= k
      BY <1>2, <2>1, WorkerTypes DEF TasksInv, k
    <2> QED
      BY <1>1, <2>1 DEF u
  <1>9. Current(w)' = {t0} /\ Fresh(w)' = {t0}
    <2>1. ASSUME NEW t \in active[w], t.id \in Updates PROVE t.home # home
      <3>1. CASE entry[w] = 0
        BY <1>1, <1>4, <1>8, <2>1, <3>1
      <3>2. CASE entry[w] # 0
        BY <1>4, <1>7, <2>1, <3>2 DEF Current
      <3> QED
        BY <3>1, <3>2
    <2>2. u \in Updates
      BY <1>1, <1>2
    <2>3. Current(w)' = {t0}
      BY <1>3, <1>5, <2>1, <2>2 DEF Current
    <2> QED
      BY <1>3, <2>3 DEF Fresh
  <1>10. u \in Nat /\ k \in Nat /\ k <= u /\ u # 0
    BY <1>1, <1>2 DEF u
  <1>11. FirstLoad(ReadUpTo(w))' /\ ReadUpTo(w)' = u
    BY <1>1, <1>6 DEF FirstLoad
  <1>12. TasksInv(w)'
    <2>1. \A t \in active'[w] : t.id \in Updates =>
              t.id <= u /\ t.home # 0 /\ t.home <= u
      <3>1. ASSUME NEW t \in active[w], t.id \in Updates
            PROVE  t.id <= u /\ t.home # 0 /\ t.home <= u
        BY <1>2, <1>8, <1>10, <3>1, WorkerTypes
      <3>2. t0.id <= u /\ t0.home # 0 /\ t0.home <= u
        BY <1>3, <1>4, <1>10
      <3> QED
        BY <1>5, <3>1, <3>2
    <2>2. \A s, t \in active'[w] : s.id \in Updates /\ s.id = t.id => s = t
      <3>1. ASSUME NEW t \in active[w], t.id \in Updates PROVE t.id # u
        BY <1>2, <1>8, <1>10, <3>1, WorkerTypes
      <3> QED
        BY <1>3, <1>5, <3>1 DEF TasksInv
    <2> QED
      BY <1>3, <1>5, <1>9, <1>10, <1>11, <2>1, <2>2 DEF TasksInv
  <1>13. ModelInv(w)'
    BY <1>1, <1>4, <1>5, <1>10 DEF ModelInv, u, k
  <1> QED
    BY <1>5, <1>10, <1>12, <1>13

\* A load that finds a model leaves it, and its task is not one that counts
LEMMA LoadFindsModel ==
    ASSUME TypeOK, QueuesInOrder, FollowedInv, NEW w \in Workers, TasksInv(w), ModelInv(w),
           ReadUpdate(w), kind[ReadUpTo(w) + 1] = "load", model[w] # 0
    PROVE  TasksInv(w)' /\ ModelInv(w)' /\ Holds(w)'
  <1> DEFINE k == ReadUpTo(w)
             u == k + 1
             t0 == Task(u, entry[w], FALSE)
  <1>1. /\ k \in 0..Len(kind) /\ u \in DOMAIN kind /\ (k # 0 => k \in DOMAIN kind)
        /\ ReadUpTo(w)' = u /\ StartLoad(w, u) /\ kind' = kind
    BY ReadUpToType, ReadUpdateEffect DEF ReadUpdate, updateVars
  <1>2. /\ active \in [Workers -> SUBSET Tasks]
        /\ model \in [Workers -> {0} \cup DOMAIN kind]
        /\ entry \in [Workers -> {0} \cup DOMAIN kind]
        /\ DOMAIN kind = 1..Len(kind) /\ Len(kind) \in Nat /\ DOMAIN kind \subseteq Updates
    BY WorkerTypes
  <1>3. /\ t0.id = u /\ t0.home = entry[w] /\ ~t0.fresh
    BY DEF Task
  <1> HIDE DEF k, u, t0
  <1>4. u \in Nat /\ k \in Nat /\ k <= u /\ u # 0
    BY <1>1, <1>2 DEF u
  <1>5. entry[w] # 0 /\ entry[w] \in Nat /\ entry[w] <= k
    BY <1>1, <1>2 DEF ModelInv, k
  <1>6. /\ active'[w] = active[w] \cup {t0} /\ model'[w] = model[w] /\ entry'[w] = entry[w]
    BY <1>1, <1>2, <1>5 DEF StartLoad, Start, t0
  <1>7. Fresh(w) = {}
    <2>1. ASSUME Fresh(w) # {} PROVE FALSE
      <3>1. PICK t \in Fresh(w) : t.id = k /\ t.id \in Updates
        BY <2>1 DEF TasksInv, Fresh, Current, k
      <3>2. FirstLoad(k) /\ k # 0
        BY <2>1, <3>1 DEF TasksInv, k, Updates
      <3>3. k \in 1..(Len(kind) - 1)
        BY <1>1, <1>2, <3>2 DEF u
      <3>4. Holds(w)
        BY <3>2, <3>3 DEF FollowedInv, k
      <3> QED
        BY <2>1, <3>4 DEF Holds
    <2> QED
      BY <2>1
  <1>8. Fresh(w)' = {}
    BY <1>3, <1>6, <1>7 DEF Fresh, Current
  <1>9. ASSUME NEW t \in active[w], t.id \in Updates
        PROVE  t.id \in Nat /\ t.home \in Nat /\ t.id <= k /\ t.home # 0 /\ t.home <= k
    BY <1>2, <1>9, WorkerTypes DEF TasksInv, k
  <1>10. TasksInv(w)'
    <2>1. \A t \in active'[w] : t.id \in Updates => t.id <= u /\ t.home # 0 /\ t.home <= u
      <3>1. ASSUME NEW t \in active[w], t.id \in Updates
            PROVE  t.id <= u /\ t.home # 0 /\ t.home <= u
        BY <1>4, <1>9, <3>1
      <3>2. t0.id <= u /\ t0.home # 0 /\ t0.home <= u
        BY <1>3, <1>4, <1>5
      <3> QED
        BY <1>6, <3>1, <3>2
    <2>2. \A s, t \in active'[w] : s.id \in Updates /\ s.id = t.id => s = t
      <3>1. ASSUME NEW t \in active[w], t.id \in Updates PROVE t.id # u
        BY <1>4, <1>9, <3>1 DEF u
      <3> QED
        BY <1>3, <1>6, <3>1 DEF TasksInv
    <2> QED
      BY <1>1, <1>6, <1>8, <2>1, <2>2 DEF TasksInv
  <1>11. ModelInv(w)'
    BY <1>1, <1>4, <1>5, <1>6 DEF ModelInv, u, k
  <1> QED
    BY <1>6, <1>8, <1>10, <1>11 DEF Holds

\* An unload leaves no model and no task that could bring one back
LEMMA UnloadStep ==
    ASSUME TypeOK, QueuesInOrder, NEW w \in Workers, TasksInv(w), ModelInv(w),
           ReadUpdate(w), kind[ReadUpTo(w) + 1] = "unload"
    PROVE  TasksInv(w)' /\ ModelInv(w)'
  <1> DEFINE k == ReadUpTo(w)
             u == k + 1
  <1>1. /\ k \in 0..Len(kind) /\ u \in DOMAIN kind
        /\ ReadUpTo(w)' = u /\ Unload(w, u) /\ kind' = kind
    BY ReadUpToType, ReadUpdateEffect DEF ReadUpdate, updateVars
  <1>2. /\ model \in [Workers -> {0} \cup DOMAIN kind]
        /\ entry \in [Workers -> {0} \cup DOMAIN kind]
        /\ DOMAIN kind = 1..Len(kind) /\ Len(kind) \in Nat
    BY WorkerTypes
  <1> HIDE DEF k, u
  <1>3. u \in Nat /\ k \in Nat /\ k <= u /\ u # 0
    BY <1>1, <1>2 DEF u
  <1>4. /\ active' = active /\ model'[w] = 0
        /\ entry'[w] = IF model[w] = 0 THEN entry[w] ELSE 0
    BY <1>1, <1>2 DEF Unload
  <1>5. ASSUME NEW t \in active[w], t.id \in Updates
        PROVE  t.id \in Nat /\ t.home \in Nat /\ t.id <= k /\ t.home # 0 /\ t.home <= k
    BY <1>2, <1>5, WorkerTypes DEF TasksInv, k
  <1>6. Current(w)' = {}
    <2>1. CASE model[w] = 0
      BY <1>4, <2>1 DEF TasksInv, Current
    <2>2. CASE model[w] # 0
      BY <1>4, <1>5, <2>2 DEF Current
    <2> QED
      BY <2>1, <2>2
  <1>7. Fresh(w)' = {}
    BY <1>6 DEF Fresh
  <1>8. TasksInv(w)'
    <2>1. \A t \in active'[w] : t.id \in Updates => t.id <= u /\ t.home # 0 /\ t.home <= u
      BY <1>3, <1>4, <1>5
    <2>2. \A s, t \in active'[w] : s.id \in Updates /\ s.id = t.id => s = t
      BY <1>4 DEF TasksInv
    <2> QED
      BY <1>1, <1>6, <1>7, <2>1, <2>2 DEF TasksInv
  <1>9. ModelInv(w)'
    <2>1. entry[w] \in Nat /\ entry[w] <= k
      BY <1>1, <1>2 DEF ModelInv, k
    <2>2. entry'[w] <= u
      BY <1>3, <1>4, <2>1
    <2>3. kind'[ReadUpTo(w)'] = "unload" /\ ReadUpTo(w)' = u
      BY <1>1 DEF u, k
    <2> QED
      BY <1>4, <2>2, <2>3 DEF ModelInv
  <1> QED
    BY <1>8, <1>9

\* Tasks that end, or that belong to requests, only take from the tasks that count, and a
\* model that is there is replaced by another one
LEMMA TasksShrink ==
    ASSUME TypeOK, QueuesInOrder, NEW w \in Workers, TasksInv(w), ModelInv(w),
           UNCHANGED <<kind, updates, entry>>,
           \A t \in active'[w] : t \in active[w] \/ t.id \in Requests,
           model'[w] = 0 <=> model[w] = 0
    PROVE  TasksInv(w)' /\ ModelInv(w)' /\ (Holds(w) => Holds(w)')
  <1>1. Updates \cap Requests = {}
    BY WorkerTypes
  <1>2. ReadUpTo(w)' = ReadUpTo(w) /\ (FirstLoad(ReadUpTo(w))' <=> FirstLoad(ReadUpTo(w)))
    BY DEF ReadUpTo, FirstLoad
  <1>3. \A t \in active'[w] : t.id \in Updates => t \in active[w]
    BY <1>1
  <1>4. Current(w)' \subseteq Current(w)
    BY <1>3 DEF Current
  <1>5. Fresh(w)' \subseteq Fresh(w) /\ (Fresh(w)' = {t \in Current(w)' : t.fresh})
    BY <1>4 DEF Fresh
  <1>6. Fresh(w)' # {} => Current(w)' \subseteq Fresh(w)'
    <2>1. Fresh(w)' # {} => Current(w) \subseteq Fresh(w)
      BY <1>5 DEF TasksInv
    <2>2. Fresh(w) = {t \in Current(w) : t.fresh}
      BY DEF Fresh
    <2> QED
      BY <1>4, <1>5, <2>1, <2>2
  <1>7. TasksInv(w)'
    <2>1. \A t \in active'[w] : t.id \in Updates =>
              t.id <= ReadUpTo(w) /\ t.home # 0 /\ t.home <= ReadUpTo(w)
      BY <1>3 DEF TasksInv
    <2>2. \A s, t \in active'[w] : s.id \in Updates /\ s.id = t.id => s = t
      BY <1>3 DEF TasksInv
    <2>3. \A t \in Fresh(w)' : t.id = ReadUpTo(w)
      BY <1>5 DEF TasksInv
    <2>4. Fresh(w)' # {} => FirstLoad(ReadUpTo(w))
      BY <1>5 DEF TasksInv
    <2>5. Current(w)' # {} => model'[w] # 0
      BY <1>4 DEF TasksInv
    <2> QED
      BY <1>2, <1>6, <2>1, <2>2, <2>3, <2>4, <2>5 DEF TasksInv
  <1>8. ModelInv(w)'
    BY <1>2 DEF ModelInv
  <1> QED
    BY <1>5, <1>7, <1>8 DEF Holds

\* A first load that raises takes its model away; any other one changes nothing
LEMMA LoadRaisesStep ==
    ASSUME TypeOK, QueuesInOrder, NEW w \in Workers, TasksInv(w), ModelInv(w),
           NEW t \in active[w], LoadRaises(w, t), model'[w] = 0, model[w] # 0
    PROVE  /\ TasksInv(w)' /\ ModelInv(w)' /\ ~Holds(w)
           /\ t.id = ReadUpTo(w) /\ \A s \in active'[w] : s.id # t.id
  <1>1. /\ active \in [Workers -> SUBSET Tasks]
        /\ model \in [Workers -> {0} \cup DOMAIN kind]
        /\ Updates \cap Requests = {}
    BY WorkerTypes
  <1>2. /\ active'[w] = active[w] \ {t} /\ t.id \in Updates
        /\ UNCHANGED <<kind, updates, entry>> /\ t.fresh /\ t.home = entry[w]
    BY <1>1 DEF LoadRaises, End, updateVars
  <1>3. t \in Fresh(w) /\ t \in Current(w)
    BY <1>2 DEF Fresh, Current
  <1>4. /\ ReadUpTo(w)' = ReadUpTo(w) /\ FirstLoad(ReadUpTo(w)) /\ FirstLoad(ReadUpTo(w))'
        /\ t.id = ReadUpTo(w) /\ Current(w) \subseteq Fresh(w)
    BY <1>2, <1>3 DEF ReadUpTo, FirstLoad, TasksInv
  <1>5. \A s \in Fresh(w) : s = t
    <2>1. \A s \in Fresh(w) : s.id = t.id /\ s \in active[w] /\ s.id \in Updates
      BY <1>2, <1>4 DEF TasksInv, Fresh, Current
    <2> QED
      BY <1>2, <2>1 DEF TasksInv
  <1>6. Current(w)' = {} /\ Fresh(w)' = {}
    BY <1>2, <1>4, <1>5 DEF Current, Fresh
  <1>7. \A s \in active'[w] : s.id # t.id
    BY <1>2 DEF TasksInv
  <1>8. TasksInv(w)'
    <2>1. \A s \in active'[w] : s.id \in Updates =>
              s.id <= ReadUpTo(w) /\ s.home # 0 /\ s.home <= ReadUpTo(w)
      BY <1>2 DEF TasksInv
    <2>2. \A r, s \in active'[w] : r.id \in Updates /\ r.id = s.id => r = s
      BY <1>2 DEF TasksInv
    <2> QED
      BY <1>4, <1>6, <2>1, <2>2 DEF TasksInv
  <1>9. ModelInv(w)'
    <2>1. kind[ReadUpTo(w)] = "load" /\ ReadUpTo(w) # 0
      BY <1>2, <1>4 DEF FirstLoad, Updates
    <2> QED
      BY <1>2, <1>4, <2>1 DEF ModelInv
  <1> QED
    BY <1>3, <1>4, <1>7, <1>8, <1>9 DEF Holds

----------------------------------------------------------------------------
(* The steps of one worker leave the others alone                              *)

\* A worker that a step does not touch keeps its part of the invariant
LEMMA WorkerUntouched ==
    ASSUME TypeOK, QueuesInOrder, NEW w \in Workers,
           active'[w] = active[w], model'[w] = model[w], entry'[w] = entry[w],
           ReadUpTo(w)' = ReadUpTo(w), \A u \in DOMAIN kind : kind'[u] = kind[u]
    PROVE  /\ Fresh(w)' = Fresh(w) /\ Current(w)' = Current(w)
           /\ Holds(w)' <=> Holds(w)
           /\ TasksInv(w) => TasksInv(w)'
           /\ ModelInv(w) => ModelInv(w)'
  <1> DEFINE k == ReadUpTo(w)
  <1>1. k \in 0..Len(kind) /\ (k # 0 => k \in DOMAIN kind) /\ DOMAIN kind = 1..Len(kind)
        /\ Len(kind) \in Nat
    BY ReadUpToType, WorkerTypes
  <1>2. Current(w)' = Current(w)
    BY DEF Current
  <1>3. Fresh(w)' = Fresh(w)
    BY <1>2 DEF Fresh
  <1> HIDE DEF k
  <1>4. ReadUpTo(w)' = k /\ ReadUpTo(w) = k
    BY DEF k
  <1>5. (k # 0 => kind'[k] = kind[k]) /\ (k # 0 /\ k # 1 => kind'[k - 1] = kind[k - 1])
    BY <1>1
  <1>6. k # 0 => (FirstLoad(ReadUpTo(w))' <=> FirstLoad(ReadUpTo(w)))
    BY <1>4, <1>5 DEF FirstLoad
  <1>7. (Holds(w)' <=> Holds(w))
    BY <1>3 DEF Holds
  <1>8. TasksInv(w) => TasksInv(w)'
    <2> HAVE TasksInv(w)
    <2>1. /\ \A t \in active'[w] : t.id \in Updates =>
                t.id <= k /\ t.home # 0 /\ t.home <= k
          /\ \A s, t \in active'[w] : s.id \in Updates /\ s.id = t.id => s = t
          /\ \A t \in Fresh(w)' : t.id = k
          /\ Current(w)' # {} => model'[w] # 0
      BY <1>2, <1>3, <1>4 DEF TasksInv
    <2>2. Fresh(w)' # {} => FirstLoad(ReadUpTo(w))' /\ Current(w)' \subseteq Fresh(w)'
      <3>1. Fresh(w)' # {} => k # 0
        BY <1>3, <1>4 DEF TasksInv, Fresh, Current, Updates
      <3> QED
        BY <1>2, <1>3, <1>6, <3>1 DEF TasksInv
    <2> QED
      BY <1>4, <2>1, <2>2 DEF TasksInv
  <1>9. ModelInv(w) => ModelInv(w)'
    BY <1>4, <1>5, <1>6 DEF ModelInv
  <1> QED
    BY <1>2, <1>3, <1>7, <1>8, <1>9

\* A step of worker w is none of another one
LEMMA WorkOfOneWorker ==
    ASSUME TypeOK, QueuesInOrder, NEW w \in Workers, Work(w), NEW v \in Workers, v # w
    PROVE  /\ active'[v] = active[v] /\ model'[v] = model[v] /\ entry'[v] = entry[v]
           /\ ReadUpTo(v)' = ReadUpTo(v)
  <1>0. /\ active \in [Workers -> SUBSET Tasks]
        /\ model \in [Workers -> {0} \cup DOMAIN kind]
        /\ entry \in [Workers -> {0} \cup DOMAIN kind]
    BY WorkerTypes
  <1>1. CASE ReadRequest(w)
    BY <1>0, <1>1 DEF ReadRequest, Start, ReadUpTo, updateVars
  <1>2. CASE ReadUpdate(w)
    BY <1>0, <1>2, ReadUpdateEffect DEF ReadUpdate, StartLoad, Start, Unload
  <1>3. ASSUME NEW t \in active[w], EndPredict(w, t) \/ EndLoad(w, t) \/ LoadRaises(w, t)
        PROVE  /\ active'[v] = active[v] /\ model'[v] = model[v] /\ entry'[v] = entry[v]
               /\ ReadUpTo(v)' = ReadUpTo(v)
    BY <1>0, <1>3 DEF EndPredict, EndLoad, LoadRaises, End, ReadUpTo, updateVars
  <1> QED
    BY <1>1, <1>2, <1>3 DEF Work

\* Whatever a worker does, only an unload takes a model away that it holds
LEMMA WorkStep ==
    ASSUME TypeOK, QueuesInOrder, FollowedInv, NEW w \in Workers, Work(w),
           TasksInv(w), ModelInv(w)
    PROVE  /\ TasksInv(w)' /\ ModelInv(w)'
           /\ \/ Holds(w) => Holds(w)'
              \/ ReadUpdate(w) /\ kind[ReadUpTo(w) + 1] = "unload"
  <1>0. /\ active \in [Workers -> SUBSET Tasks]
        /\ model \in [Workers -> {0} \cup DOMAIN kind]
    BY WorkerTypes
  <1>1. CASE ReadRequest(w)
    <2>1. /\ UNCHANGED <<kind, updates, entry, model>>
          /\ \A t \in active'[w] : t \in active[w] \/ t.id \in Requests
      BY <1>0, <1>1, QueueHeads DEF ReadRequest, Start, Task, updateVars
    <2> QED
      BY <2>1, TasksShrink
  <1>2. CASE ReadUpdate(w)
    <2>1. kind[ReadUpTo(w) + 1] \in {"load", "unload"}
      BY <1>2, ReadUpdateEffect, KindIsNumbered
    <2> QED
      BY <1>2, <2>1, LoadFindsNone, LoadFindsModel, UnloadStep DEF Holds
  <1>3. ASSUME NEW t \in active[w], EndPredict(w, t) \/ EndLoad(w, t)
        PROVE  TasksInv(w)' /\ ModelInv(w)' /\ (Holds(w) => Holds(w)')
    <2>1. /\ UNCHANGED <<kind, updates, entry>>
          /\ \A s \in active'[w] : s \in active[w]
      BY <1>0, <1>3 DEF EndPredict, EndLoad, End, updateVars
    <2>2. model'[w] = 0 <=> model[w] = 0
      <3>1. CASE model' = model
        BY <3>1
      <3>2. CASE model' # model
        <4>1. /\ t.id \in Updates /\ t.home = entry[w]
              /\ model' = [model EXCEPT ![w] = t.id]
          BY <1>3, <3>2 DEF EndPredict, EndLoad
        <4>2. model[w] # 0 /\ t.id # 0
          BY <4>1 DEF TasksInv, Current, Updates
        <4> QED
          BY <1>0, <4>1, <4>2
      <3> QED
        BY <3>1, <3>2
    <2> QED
      BY <2>1, <2>2, TasksShrink
  <1>4. ASSUME NEW t \in active[w], LoadRaises(w, t)
        PROVE  TasksInv(w)' /\ ModelInv(w)' /\ (Holds(w) => Holds(w)')
    <2>1. CASE model'[w] = 0 /\ model[w] # 0
      BY <1>4, <2>1, LoadRaisesStep
    <2>2. CASE ~(model'[w] = 0 /\ model[w] # 0)
      <3>1. /\ UNCHANGED <<kind, updates, entry>>
            /\ \A s \in active'[w] : s \in active[w]
        BY <1>0, <1>4 DEF LoadRaises, End, updateVars
      <3>2. model'[w] = 0 <=> model[w] = 0
        BY <1>0, <1>4, <2>2 DEF LoadRaises
      <3> QED
        BY <3>1, <3>2, TasksShrink
    <2> QED
      BY <2>1, <2>2
  <1> QED
    BY <1>1, <1>2, <1>3, <1>4 DEF Work

----------------------------------------------------------------------------
(* What the workers answer                                                     *)

\* The message that a step of worker w may add: to a request, to an unload that it has
\* read, or to the update of a task that ends
LEMMA WorkMessages ==
    ASSUME TypeOK, QueuesInOrder, NEW w \in Workers, Work(w)
    PROVE  /\ answer' = answer
           /\ \A m \in InTransit' : m \in InTransit \/
                /\ m.from = w
                /\ \/ m.id \in Requests
                   \/ /\ ReadUpdate(w) /\ m.id = ReadUpTo(w) + 1
                      /\ kind[m.id] = "unload" /\ active'[w] = active[w]
                   \/ \E t \in active[w] :
                        /\ m.id = t.id /\ t.id \in Updates /\ active'[w] = active[w] \ {t}
                        /\ EndLoad(w, t) \/ (LoadRaises(w, t) /\ m.outcome = "error")
  <1>0. active \in [Workers -> SUBSET Tasks]
    BY WorkerTypes
  <1>1. answer' = answer
    BY DEF Work, ReadRequest, ReadUpdate, EndPredict, EndLoad, LoadRaises, updateVars
  <1>2. ASSUME UNCHANGED responses PROVE InTransit' = InTransit
    BY <1>2 DEF InTransit
  <1>3. ASSUME NEW id \in Requests \cup DOMAIN kind, NEW outcome \in Outcomes, Put(w, id, outcome),
               NEW m \in InTransit', m \notin InTransit
        PROVE  m.from = w /\ m.id = id /\ m.outcome = outcome
    <2>1. m = [id |-> id, from |-> w, outcome |-> outcome]
      BY <1>3, PutInTransit
    <2> QED
      BY <2>1
  <1>4. SUFFICES ASSUME NEW m \in InTransit', m \notin InTransit
                 PROVE  /\ m.from = w
                        /\ \/ m.id \in Requests
                           \/ /\ ReadUpdate(w) /\ m.id = ReadUpTo(w) + 1
                              /\ kind[m.id] = "unload" /\ active'[w] = active[w]
                           \/ \E t \in active[w] :
                                /\ m.id = t.id /\ t.id \in Updates
                                /\ active'[w] = active[w] \ {t}
                                /\ EndLoad(w, t) \/ (LoadRaises(w, t) /\ m.outcome = "error")
    BY <1>1
  <1>5. CASE ReadRequest(w)
    <2>1. Head(requests[w]) \in Requests /\ Put(w, Head(requests[w]), "notFound")
      BY <1>2, <1>4, <1>5, QueueHeads DEF ReadRequest, Start
    <2> QED
      BY <1>3, <1>4, <2>1 DEF Outcomes
  <1>6. CASE ReadUpdate(w)
    <2> DEFINE u == ReadUpTo(w) + 1
    <2>1. u \in DOMAIN kind /\ Head(updates[w]) = u
      BY <1>6, ReadUpdateEffect
    <2>2. kind[u] # "load" /\ Unload(w, u)
      BY <1>2, <1>4, <1>6, <2>1 DEF ReadUpdate, StartLoad, Start
    <2>3. kind[u] = "unload"
      BY <2>1, <2>2, KindIsNumbered
    <2>4. \E outcome \in Outcomes : Put(w, u, outcome) /\ active' = active
      BY <2>2 DEF Unload, Outcomes
    <2>5. m.from = w /\ m.id = u /\ active' = active
      BY <1>3, <1>4, <2>1, <2>4
    <2> QED
      BY <1>6, <2>3, <2>5
  <1>7. ASSUME NEW t \in active[w], EndPredict(w, t) PROVE m.from = w /\ m.id \in Requests
    BY <1>3, <1>4, <1>7 DEF EndPredict, End, Outcomes
  <1>8. ASSUME NEW t \in active[w], EndLoad(w, t)
        PROVE  m.from = w /\ m.id = t.id /\ t.id \in Updates /\ active'[w] = active[w] \ {t}
    <2>1. t.id \in DOMAIN kind /\ t.id \in Updates
      BY <1>8, WorkerTypes DEF EndLoad
    <2> QED
      BY <1>0, <1>3, <1>4, <1>8, <2>1 DEF EndLoad, End, Outcomes
  <1>9. ASSUME NEW t \in active[w], LoadRaises(w, t)
        PROVE  m.from = w /\ m.id = t.id /\ t.id \in Updates /\ active'[w] = active[w] \ {t}
               /\ m.outcome = "error"
    <2>1. t.id \in DOMAIN kind /\ t.id \in Updates
      BY <1>9, WorkerTypes DEF LoadRaises
    <2> QED
      BY <1>0, <1>3, <1>4, <1>9, <2>1 DEF LoadRaises, End, Outcomes
  <1> QED
    BY <1>5, <1>6, <1>7, <1>8, <1>9 DEF Work

\* The tasks of a worker after one of its steps: those of before, and that of the load it
\* has read
LEMMA WorkTasks ==
    ASSUME TypeOK, QueuesInOrder, NEW w \in Workers, Work(w)
    PROVE  /\ ReadUpTo(w)' \in {ReadUpTo(w), ReadUpTo(w) + 1} /\ kind' = kind
           /\ ReadUpTo(w)' # ReadUpTo(w) => ReadUpdate(w)
           /\ \A t \in active'[w] : t \in active[w] \/ t.id \in Requests \/
                (ReadUpdate(w) /\ t.id = ReadUpTo(w) + 1 /\ kind[t.id] = "load")
  <1>0. /\ active \in [Workers -> SUBSET Tasks] /\ kind' = kind
    BY WorkerTypes DEF Work, ReadRequest, ReadUpdate, EndPredict, EndLoad, LoadRaises, updateVars
  <1>1. CASE ReadRequest(w)
    <2>1. ReadUpTo(w)' = ReadUpTo(w)
      BY <1>0, <1>1 DEF ReadRequest, ReadUpTo
    <2>2. Head(requests[w]) \in Requests /\ Task(Head(requests[w]), 0, FALSE).id = Head(requests[w])
      BY <1>1, QueueHeads DEF ReadRequest, Task
    <2>3. active'[w] \subseteq active[w] \cup {Task(Head(requests[w]), 0, FALSE)}
      BY <1>0, <1>1 DEF ReadRequest, Start
    <2> QED
      BY <1>0, <2>1, <2>2, <2>3
  <1>2. CASE ReadUpdate(w)
    <2> DEFINE u == ReadUpTo(w) + 1
    <2>1. ReadUpTo(w)' = u /\ Head(updates[w]) = u
      BY <1>2, ReadUpdateEffect
    <2> HIDE DEF u
    <2>2. CASE kind[u] = "load"
      <3>1. PICK t : t.id = u /\ Start(w, t)
        BY <1>2, <2>1, <2>2 DEF ReadUpdate, StartLoad, Task
      <3> QED
        BY <1>0, <1>2, <2>1, <2>2, <3>1 DEF Start, u
    <2>3. CASE kind[u] # "load"
      <3>1. active' = active
        BY <1>2, <2>1, <2>3 DEF ReadUpdate, Unload
      <3> QED
        BY <1>0, <1>2, <2>1, <3>1 DEF u
    <2> QED
      BY <2>2, <2>3
  <1>3. ASSUME NEW t \in active[w], EndPredict(w, t) \/ EndLoad(w, t) \/ LoadRaises(w, t)
        PROVE  ReadUpTo(w)' = ReadUpTo(w) /\ \A s \in active'[w] : s \in active[w]
    BY <1>0, <1>3 DEF EndPredict, EndLoad, LoadRaises, End, ReadUpTo, updateVars
  <1> QED
    BY <1>0, <1>1, <1>2, <1>3 DEF Work

LEMMA WorkAnswersInv ==
    ASSUME TypeOK, QueuesInOrder, AnswersInv, NEW w \in Workers, Work(w), TasksInv(w)
    PROVE  AnswersInv'
  <1> SUFFICES ASSUME NEW v \in Workers, NEW u \in Updates, Settled(u, v)'
               PROVE  u <= ReadUpTo(v)' /\ \A t \in active'[v] : t.id # u
    BY DEF AnswersInv
  <1>1. answer' = answer
    BY WorkMessages
  <1>2. CASE v # w
    <2>1. active'[v] = active[v] /\ ReadUpTo(v)' = ReadUpTo(v)
      BY <1>2, WorkOfOneWorker
    <2>2. Settled(u, v)
      BY <1>1, <1>2, WorkMessages DEF Settled
    <2> QED
      BY <2>1, <2>2 DEF AnswersInv
  <1>3. CASE v = w
    <2>0. /\ ReadUpTo(w) \in Nat /\ u \in Nat /\ u \notin Requests
          /\ ReadUpTo(w)' \in {ReadUpTo(w), ReadUpTo(w) + 1}
      <3>1. ReadUpTo(w) \in Nat
        BY ReadUpToType
      <3>2. u \in Nat /\ u \notin Requests
        BY WorkerTypes, ParallelAssumption DEF Updates
      <3> QED
        BY <3>1, <3>2, WorkTasks
    <2>1. \A t \in active'[w] : t.id = u => t \in active[w] \/ (ReadUpdate(w) /\ u = ReadUpTo(w) + 1 /\ kind[u] = "load")
      BY <2>0, WorkTasks
    <2>2. CASE Settled(u, w)
      <3>1. u <= ReadUpTo(w) /\ \A t \in active[w] : t.id # u
        BY <2>2 DEF AnswersInv
      <3>2. u # ReadUpTo(w) + 1 /\ u <= ReadUpTo(w)'
        BY <2>0, <3>1
      <3> QED
        BY <1>3, <2>1, <3>1, <3>2
    <2>3. CASE ~Settled(u, w)
      <3>1. PICK m \in InTransit' : m.id = u /\ m.from = w /\ m \notin InTransit
        BY <1>1, <1>3, <2>3 DEF Settled
      <3>2. CASE /\ ReadUpdate(w) /\ m.id = ReadUpTo(w) + 1
                 /\ kind[m.id] = "unload" /\ active'[w] = active[w]
        <4>1. ReadUpTo(w)' = u /\ u = ReadUpTo(w) + 1
          BY <3>1, <3>2, ReadUpdateEffect
        <4>2. \A t \in active[w] : t.id # u
          <5>1. ASSUME NEW t \in active[w], t.id = u PROVE FALSE
            <6>1. t.id <= ReadUpTo(w)
              BY <5>1 DEF TasksInv
            <6> QED
              BY <2>0, <4>1, <5>1, <6>1
          <5> QED
            BY <5>1
        <4> QED
          BY <1>3, <2>0, <3>2, <4>1, <4>2
      <3>3. CASE \E t \in active[w] :
                    /\ m.id = t.id /\ t.id \in Updates /\ active'[w] = active[w] \ {t}
                    /\ EndLoad(w, t) \/ (LoadRaises(w, t) /\ m.outcome = "error")
        <4>1. PICK t \in active[w] : t.id = u /\ active'[w] = active[w] \ {t}
          BY <3>1, <3>3
        <4>2. u <= ReadUpTo(w) /\ \A s \in active'[w] : s.id # u
          BY <4>1 DEF TasksInv
        <4> QED
          BY <1>3, <2>0, <4>2
      <3> QED
        BY <2>0, <3>1, <3>2, <3>3, WorkMessages
    <2> QED
      BY <2>2, <2>3
  <1> QED
    BY <1>2, <1>3

LEMMA WorkNoFalseSuccess ==
    ASSUME TypeOK, QueuesInOrder, AnswersInv, FollowedInv, NEW w \in Workers, Work(w),
           TasksInv(w), ModelInv(w), NoFalseSuccess(w)
    PROVE  NoFalseSuccess(w)'
  <1> DEFINE k == ReadUpTo(w)
  <1>0. /\ k \in Nat /\ k \notin Requests /\ (k # 0 => k \in Updates)
        /\ answer' = answer /\ kind' = kind
        /\ model \in [Workers -> {0} \cup DOMAIN kind]
        /\ active \in [Workers -> SUBSET Tasks]
    <2>1. k \in Nat /\ (k # 0 => k \in DOMAIN kind)
      BY ReadUpToType
    <2> QED
      BY <2>1, WorkerTypes, WorkMessages, WorkTasks, ParallelAssumption
  <1> SUFFICES ASSUME model'[w] = 0, ReadUpTo(w)' # 0, kind[ReadUpTo(w)'] = "load"
               PROVE  /\ \A t \in active'[w] : t.id # ReadUpTo(w)'
                      /\ answer[ReadUpTo(w)'][w] # "result"
                      /\ \A m \in InTransit' :
                            m.id = ReadUpTo(w)' /\ m.from = w => m.outcome # "result"
    BY <1>0 DEF NoFalseSuccess
  <1>1. ~ReadUpdate(w)
    <2> SUFFICES ASSUME ReadUpdate(w) PROVE FALSE
      OBVIOUS
    <2>1. kind[ReadUpTo(w) + 1] = "load"
      BY ReadUpdateEffect
    <2> QED
      BY <2>1, LoadFindsNone, LoadFindsModel DEF Holds
  <1>2. ReadUpTo(w)' = k
    BY <1>1, WorkTasks
  <1> HIDE DEF k
  <1>3. \A t \in active'[w] : t.id = k => t \in active[w]
    BY <1>0, <1>1, WorkTasks
  <1>4. CASE model[w] = 0
    <2>1. /\ \A t \in active[w] : t.id # k
          /\ answer[k][w] # "result"
          /\ \A m \in InTransit : m.id = k /\ m.from = w => m.outcome # "result"
      BY <1>2, <1>4 DEF NoFalseSuccess, k
    <2>2. ASSUME NEW m \in InTransit', m.id = k PROVE m \in InTransit
      BY <1>0, <1>1, <2>1, <2>2, WorkMessages
    <2> QED
      BY <1>2, <1>3, <2>1, <2>2
  <1>5. CASE model[w] # 0
    <2>1. PICK t \in active[w] : LoadRaises(w, t)
      <3>1. CASE ReadRequest(w)
        BY <1>5, <3>1 DEF ReadRequest
      <3>2. ASSUME NEW t \in active[w], EndPredict(w, t) PROVE FALSE
        BY <1>5, <3>2 DEF EndPredict
      <3>3. ASSUME NEW t \in active[w], EndLoad(w, t) PROVE FALSE
        <4>1. t.id \in Updates /\ model' = [model EXCEPT ![w] = t.id]
          BY <1>5, <3>3 DEF EndLoad
        <4> QED
          BY <1>0, <4>1 DEF Updates
      <3> QED
        BY <1>1, <3>1, <3>2, <3>3 DEF Work
    <2>2. t.id = k /\ \A s \in active'[w] : s.id # k
      BY <1>5, <2>1, LoadRaisesStep DEF k
    <2>3. k \in Updates
      BY <2>1, <2>2 DEF LoadRaises
    <2>4. ~Settled(k, w)
      BY <2>2, <2>3 DEF AnswersInv
    <2>5. answer[k][w] # "result"
      BY <2>4 DEF Settled
    <2>6. ASSUME NEW m \in InTransit', m.id = k, m.from = w PROVE m.outcome # "result"
      <3>1. m \notin InTransit
        BY <2>4, <2>6 DEF Settled
      <3>2. InTransit' = InTransit \cup {[id |-> t.id, from |-> w, outcome |-> "error"]}
        <4>1. t.id \in DOMAIN kind /\ Put(w, t.id, "error")
          BY <2>1, WorkerTypes DEF LoadRaises, End
        <4> QED
          BY <4>1, PutInTransit DEF Outcomes
      <3>3. m = [id |-> t.id, from |-> w, outcome |-> "error"]
        BY <3>1, <3>2
      <3> QED
        BY <3>3
    <2> QED
      BY <1>2, <2>2, <2>5, <2>6
  <1> QED
    BY <1>4, <1>5

----------------------------------------------------------------------------
(* The steps of the main process                                               *)

\* A new update: what is served is not unloaded, or it is the unload that is dispatched
LEMMA DispatchUpdateInv ==
    ASSUME TypeInv, ModelsInv, NEW what \in {"load", "unload"}, DispatchUpdate(what),
           what = "load" => ~failedLoad
    PROVE  ModelsInv'
  <1> DEFINE n == Len(kind)
  <1>0. /\ n \in Nat /\ DOMAIN kind = 1..n /\ DOMAIN kind \subseteq Updates
        /\ (kind = <<>> <=> n = 0) /\ ~updating /\ updating'
        /\ UNCHANGED <<served, failedLoad, active, model, entry, responses>>
        /\ served \in {0} \cup DOMAIN kind
    BY KindIsNumbered, EmptySeq DEF TypeInv, TypeOK, DispatchUpdate
  <1>1. /\ kind' # <<>> /\ Len(kind') = n + 1 /\ kind'[n + 1] = what
        /\ \A u \in DOMAIN kind : kind'[u] = kind[u] /\ kind[u] \in {"load", "unload"}
    BY DispatchUpdateEffect, KindIsNumbered DEF TypeInv
  <1>2. QueuesInOrder' /\ \A w \in Workers : ReadUpTo(w)' = ReadUpTo(w)
    BY DispatchUpdateOrder DEF ModelsInv, TypeInv
  <1>3. \A w \in Workers : ReadUpTo(w) \in 0..n
    BY ReadUpToType DEF ModelsInv, TypeInv
  <1> HIDE DEF n
  <1>4. \A u \in 1..n : (FirstLoad(u)' <=> FirstLoad(u))
    BY <1>0, <1>1 DEF FirstLoad
  <1>5. \A w \in Workers : (Holds(w)' <=> Holds(w)) /\ TasksInv(w)' /\ ModelInv(w)'
    BY <1>0, <1>1, <1>2, WorkerUntouched DEF ModelsInv, WorkersInv, TypeInv
  <1>6. MainInv'
    <2>1. n # 0 => n \in DOMAIN kind
      BY <1>0
    <2>2. CASE what = "load"
      <3>1. (kind'[Len(kind')] = "load") /\ ~failedLoad' /\ updating'
        BY <1>0, <1>1, <2>2
      <3>3. FirstLoad(Len(kind))' <=> (n = 0 \/ kind[n] = "unload")
        BY <1>0, <1>1, <2>1, <2>2 DEF FirstLoad
      <3>4. n = 0 \/ kind[n] = "unload" => served = 0
        BY <1>0 DEF ModelsInv, MainInv, n
      <3>5. n # 0 /\ kind[n] = "load" => served # 0
        BY <1>0, <2>2 DEF ModelsInv, MainInv, n
      <3>6. n # 0 => kind[n] \in {"load", "unload"}
        BY <1>1, <2>1
      <3> QED
        BY <1>0, <1>1, <3>1, <3>3, <3>4, <3>5, <3>6 DEF MainInv
    <2>3. CASE what = "unload"
      <3>1. kind'[Len(kind')] = "unload" /\ ~FirstLoad(Len(kind))'
        BY <1>1, <2>3 DEF FirstLoad
      <3>2. failedLoad => served = 0
        BY <1>0 DEF ModelsInv, MainInv
      <3> QED
        BY <1>0, <1>1, <3>1, <3>2 DEF MainInv
    <2> QED
      BY <2>2, <2>3
  <1>7. ServedInv'
    <2> SUFFICES ASSUME served # 0, what = "load", NEW w \in Workers
                 PROVE  /\ Holds(w)' /\ ReadUpTo(w)' >= served
                        /\ \A u \in (ReadUpTo(w)' + 1)..Len(kind') : kind'[u] = "load"
      BY <1>0, <1>1 DEF ServedInv, Unloading
    <2>1. /\ Holds(w) /\ ReadUpTo(w) >= served
          /\ \A u \in (ReadUpTo(w) + 1)..n : kind[u] = "load"
      BY <1>0 DEF ModelsInv, ServedInv, Unloading, n
    <2>2. ASSUME NEW u \in (ReadUpTo(w) + 1)..(n + 1) PROVE kind'[u] = "load"
      <3>1. CASE u = n + 1
        BY <1>1, <3>1
      <3>2. CASE u # n + 1
        <4>1. u \in (ReadUpTo(w) + 1)..n /\ u \in DOMAIN kind
          BY <1>0, <1>3, <3>2
        <4> QED
          BY <1>1, <2>1, <4>1
      <3> QED
        BY <3>1, <3>2
    <2> QED
      BY <1>1, <1>2, <1>5, <2>1, <2>2
  <1>8. FollowedInv'
    <2> SUFFICES ASSUME NEW u \in 1..(Len(kind') - 1), FirstLoad(u)', kind'[u + 1] = "load",
                        NEW w \in Workers
                 PROVE  ReadUpTo(w)' >= u /\ (ReadUpTo(w)' = u => Holds(w)')
      BY DEF FollowedInv
    <2>1. u \in 1..n /\ FirstLoad(u)
      BY <1>0, <1>1, <1>4
    <2>2. CASE u # n
      <3>1. u \in 1..(n - 1) /\ u + 1 \in DOMAIN kind
        BY <1>0, <2>1, <2>2
      <3>2. u \in 1..(Len(kind) - 1) /\ kind[u + 1] = "load"
        BY <1>1, <3>1 DEF n
      <3> QED
        BY <1>2, <1>5, <2>1, <3>2 DEF ModelsInv, FollowedInv
    <2>3. CASE u = n
      <3>1. what = "load" /\ kind # <<>> /\ kind[n] = "load"
        BY <1>0, <1>1, <2>1, <2>3 DEF FirstLoad
      <3>2. served = n /\ n # 0
        BY <1>0, <2>1, <2>3, <3>1 DEF ModelsInv, MainInv, n
      <3>3. Holds(w) /\ ReadUpTo(w) >= n
        BY <1>0, <3>2 DEF ModelsInv, ServedInv, Unloading
      <3> QED
        BY <1>2, <1>5, <2>3, <3>3
    <2> QED
      BY <2>2, <2>3
  <1>9. InTransit' = InTransit
    BY <1>0 DEF InTransit
  <1>10. /\ answer' = [answer EXCEPT ![n + 1] = [w \in Workers |-> "pending"]]
         /\ answer \in [Updates -> [Workers -> {"none", "pending"} \cup Outcomes]]
         /\ n + 1 \in Updates
    BY DEF TypeInv, TypeOK, DispatchUpdate, n
  <1>11. \A w \in Workers, u \in Updates : Settled(u, w)' => Settled(u, w)
    BY <1>9, <1>10 DEF Settled
  <1>12. AnswersInv'
    BY <1>0, <1>2, <1>11 DEF ModelsInv, AnswersInv
  <1>13. ASSUME NEW w \in Workers PROVE NoFalseSuccess(w)'
    <2> DEFINE k == ReadUpTo(w)
    <2>1. k \in 0..n /\ ReadUpTo(w)' = k
      BY <1>2, <1>3
    <2> HIDE DEF k
    <2>2. k # 0 => kind'[k] = kind[k] /\ answer'[k] = answer[k]
      BY <1>0, <1>1, <1>10, <2>1
    <2>3. NoFalseSuccess(w)
      BY DEF ModelsInv, WorkersInv
    <2> QED
      BY <1>0, <1>9, <2>1, <2>2, <2>3 DEF NoFalseSuccess, k
  <1> QED
    BY <1>2, <1>5, <1>6, <1>7, <1>8, <1>12, <1>13 DEF ModelsInv, WorkersInv

\* Steps of the main process that leave updates, answers and workers alone
LEMMA WorkersUntouched ==
    ASSUME TypeOK, ModelsInv, UNCHANGED <<kind, updates, active, model, entry, answer, responses>>
    PROVE  QueuesInOrder' /\ FollowedInv' /\ WorkersInv' /\ AnswersInv' /\
           \A w \in Workers : (Holds(w)' <=> Holds(w)) /\ ReadUpTo(w)' = ReadUpTo(w)
  <1>1. \A w \in Workers : ReadUpTo(w)' = ReadUpTo(w)
    BY DEF ReadUpTo
  <1>2. InTransit' = InTransit /\ \A u : (FirstLoad(u)' <=> FirstLoad(u))
    BY DEF InTransit, FirstLoad
  <1>3. \A w \in Workers : (Holds(w)' <=> Holds(w)) /\ TasksInv(w)' /\ ModelInv(w)'
    BY <1>1, WorkerUntouched DEF ModelsInv, WorkersInv
  <1>4. QueuesInOrder'
    BY <1>1 DEF ModelsInv, QueuesInOrder
  <1>5. FollowedInv'
    BY <1>1, <1>2, <1>3 DEF ModelsInv, FollowedInv
  <1>6. AnswersInv'
    BY <1>1, <1>2 DEF ModelsInv, AnswersInv, Settled
  <1>7. \A w \in Workers : NoFalseSuccess(w)'
    BY <1>1, <1>2 DEF ModelsInv, WorkersInv, NoFalseSuccess
  <1> QED
    BY <1>1, <1>3, <1>4, <1>5, <1>6, <1>7 DEF WorkersInv

\* A load that all workers have answered is done in all of them
LEMMA UpdateReturnsInv ==
    ASSUME TypeInv, ModelsInv, UpdateReturns
    PROVE  ModelsInv'
  <1> DEFINE n == Len(kind)
  <1>0. /\ n \in DOMAIN kind /\ n # 0 /\ n \in Nat /\ kind[n] \in {"load", "unload"} /\ kind # <<>>
        /\ ~updating' /\ ~failedLoad' /\ (served' = IF kind[n] = "load" THEN n ELSE 0)
        /\ \A w \in Workers : answer[n][w] = "result"
        /\ UNCHANGED <<kind, updates, active, model, entry, answer, responses>>
    BY KindIsNumbered DEF TypeInv, UpdateReturns, workerVars
  <1>1. /\ QueuesInOrder' /\ FollowedInv' /\ WorkersInv' /\ AnswersInv'
        /\ \A w \in Workers : (Holds(w)' <=> Holds(w)) /\ ReadUpTo(w)' = ReadUpTo(w)
    BY <1>0, WorkersUntouched DEF TypeInv
  <1>2. FirstLoad(n)' <=> FirstLoad(n)
    BY <1>0 DEF FirstLoad
  <1>3. MainInv'
    BY <1>0, <1>2 DEF MainInv
  <1>4. ServedInv'
    <2> SUFFICES ASSUME kind[n] = "load", NEW w \in Workers
                 PROVE  Holds(w) /\ ReadUpTo(w) = n
      BY <1>0, <1>1 DEF ServedInv
    <2>1. ReadUpTo(w) \in 0..n /\ n \in Updates
      BY <1>0, ReadUpToType, KindIsNumbered DEF ModelsInv, TypeInv
    <2>2. n <= ReadUpTo(w) /\ \A t \in active[w] : t.id # n
      BY <1>0, <2>1 DEF ModelsInv, AnswersInv, Settled
    <2>3. ReadUpTo(w) = n
      BY <1>0, <2>1, <2>2
    <2>4. Fresh(w) = {}
      BY <2>2, <2>3 DEF ModelsInv, WorkersInv, TasksInv, Fresh, Current
    <2>5. model[w] # 0
      BY <1>0, <2>3 DEF ModelsInv, WorkersInv, NoFalseSuccess
    <2> QED
      BY <2>3, <2>4, <2>5 DEF Holds
  <1> QED
    BY <1>1, <1>3, <1>4 DEF ModelsInv

\* An update that failed changes what is served only if it is an unload
LEMMA UpdateRaisesInv ==
    ASSUME TypeInv, ModelsInv, UpdateRaises
    PROVE  ModelsInv'
  <1> DEFINE n == Len(kind)
  <1>0. /\ n \in DOMAIN kind /\ n # 0 /\ n \in Nat /\ kind[n] \in {"load", "unload"} /\ kind # <<>>
        /\ updating /\ ~updating' /\ (failedLoad' <=> (kind[n] = "load" /\ served = 0))
        /\ (served' = IF kind[n] = "load" THEN served ELSE 0)
        /\ UNCHANGED <<kind, updates, active, model, entry, answer, responses>>
    <2>1. /\ n \in DOMAIN kind /\ n # 0 /\ n \in Nat /\ kind[n] \in {"load", "unload"}
          /\ kind # <<>> /\ updating
      BY KindIsNumbered DEF TypeInv, UpdateRaises
    <2>2. failedLoad' <=> (kind[n] = "load" /\ served = 0)
      BY DEF UpdateRaises
    <2> QED
      BY <2>1, <2>2 DEF UpdateRaises, workerVars
  <1>1. /\ QueuesInOrder' /\ FollowedInv' /\ WorkersInv' /\ AnswersInv'
        /\ \A w \in Workers : (Holds(w)' <=> Holds(w)) /\ ReadUpTo(w)' = ReadUpTo(w)
    BY <1>0, WorkersUntouched DEF TypeInv
  <1>2. FirstLoad(n)' <=> FirstLoad(n)
    BY <1>0 DEF FirstLoad
  <1>3. MainInv'
    <2>1. /\ FirstLoad(n) => served = 0
          /\ kind[n] = "load" /\ ~FirstLoad(n) => served # 0
      BY <1>0 DEF ModelsInv, MainInv
    <2>2. FirstLoad(n) => kind[n] = "load"
      BY DEF FirstLoad
    <2> QED
      BY <1>0, <1>2, <2>1, <2>2 DEF MainInv
  <1>4. ServedInv'
    <2> SUFFICES ASSUME kind[n] = "load", served # 0 PROVE ServedInv'
      BY <1>0 DEF ServedInv
    <2>1. ~Unloading
      BY DEF Unloading
    <2> QED
      BY <1>0, <1>1, <2>1 DEF ModelsInv, ServedInv
  <1> QED
    BY <1>1, <1>3, <1>4 DEF ModelsInv

\* Reading an answer settles nothing that the worker had not answered
LEMMA ProcessResponseInv ==
    ASSUME TypeInv, ModelsInv, ProcessResponse
    PROVE  ModelsInv'
  <1> DEFINE m == Head(responses)
  <1>0. UNCHANGED <<kind, updates, active, model, entry, served, failedLoad, updating>>
    BY DEF ProcessResponse, workerVars
  <1>1. m \in InTransit /\ m \in Messages /\ InTransit = InTransit' \cup {m}
    BY ProcessResponseInTransit DEF TypeInv
  <1>2. /\ answer \in [Updates -> [Workers -> {"none", "pending"} \cup Outcomes]]
        /\ IF m.id \in Requests THEN answer' = answer
           ELSE m.id \in Updates /\ answer' = [answer EXCEPT ![m.id][m.from] = m.outcome]
        /\ m.from \in Workers
    <2>1. m.id \in Requests \cup DOMAIN kind /\ m.from \in Workers
      BY <1>1 DEF Messages
    <2> QED
      BY <2>1, KindIsNumbered DEF ProcessResponse, TypeInv, TypeOK
  <1> HIDE DEF m
  <1>3. \A w \in Workers, u \in Updates : answer'[u][w] = answer[u][w] \/
            (m.id = u /\ m.from = w /\ answer'[u][w] = m.outcome)
    BY <1>2
  <1>4. \A w \in Workers : ReadUpTo(w)' = ReadUpTo(w)
    BY <1>0 DEF ReadUpTo
  <1>5. \A u : (FirstLoad(u)' <=> FirstLoad(u))
    BY <1>0 DEF FirstLoad
  <1>6. \A w \in Workers : (Holds(w)' <=> Holds(w)) /\ TasksInv(w)' /\ ModelInv(w)'
    BY <1>0, <1>4, WorkerUntouched DEF ModelsInv, WorkersInv, TypeInv
  <1>7. QueuesInOrder'
    BY <1>0, <1>4 DEF ModelsInv, QueuesInOrder
  <1>8. FollowedInv'
    BY <1>0, <1>4, <1>5, <1>6 DEF ModelsInv, FollowedInv
  <1>9. MainInv'
    BY <1>0, <1>5 DEF ModelsInv, MainInv
  <1>10. ServedInv'
    BY <1>0, <1>4, <1>6 DEF ModelsInv, ServedInv, Unloading
  <1>11. AnswersInv'
    <2>1. \A w \in Workers, u \in Updates : Settled(u, w)' => Settled(u, w)
      BY <1>1, <1>3 DEF Settled
    <2> QED
      BY <1>0, <1>4, <2>1 DEF ModelsInv, AnswersInv
  <1>12. ASSUME NEW w \in Workers PROVE NoFalseSuccess(w)'
    <2>1. NoFalseSuccess(w)
      BY DEF ModelsInv, WorkersInv
    <2>2. ReadUpTo(w) # 0 => ReadUpTo(w) \in Updates
      BY ReadUpToType, KindIsNumbered DEF ModelsInv, TypeInv
    <2> QED
      BY <1>0, <1>1, <1>3, <1>4, <2>1, <2>2 DEF NoFalseSuccess
  <1> QED
    BY <1>6, <1>7, <1>8, <1>9, <1>10, <1>11, <1>12 DEF ModelsInv, WorkersInv

----------------------------------------------------------------------------
(* The invariant is inductive                                                  *)

LEMMA WorkInv ==
    ASSUME TypeInv, ModelsInv, NEW w \in Workers, Work(w)
    PROVE  ModelsInv'
  <1>0. /\ UNCHANGED <<kind, served, failedLoad, updating>>
        /\ TypeOK /\ QueuesInOrder /\ FollowedInv /\ AnswersInv
        /\ TasksInv(w) /\ ModelInv(w) /\ NoFalseSuccess(w)
    BY DEF Work, ReadRequest, ReadUpdate, EndPredict, EndLoad, LoadRaises, updateVars,
           TypeInv, ModelsInv, WorkersInv
  <1>1. /\ TasksInv(w)' /\ ModelInv(w)' /\ NoFalseSuccess(w)' /\ AnswersInv'
        /\ \/ Holds(w) => Holds(w)'
           \/ ReadUpdate(w) /\ kind[ReadUpTo(w) + 1] = "unload"
    BY <1>0, WorkStep, WorkNoFalseSuccess, WorkAnswersInv
  <1>2. \A v \in Workers : v # w =>
            /\ (Holds(v)' <=> Holds(v)) /\ TasksInv(v)' /\ ModelInv(v)' /\ ReadUpTo(v)' = ReadUpTo(v)
    BY <1>0, WorkOfOneWorker, WorkerUntouched DEF ModelsInv, WorkersInv
  <1>3. ASSUME NEW v \in Workers, v # w PROVE NoFalseSuccess(v)'
    <2>1. answer' = answer /\ \A m \in InTransit' : m.from = v => m \in InTransit
      BY <1>0, <1>3, WorkMessages
    <2>2. model'[v] = model[v] /\ active'[v] = active[v]
      BY <1>0, <1>3, WorkOfOneWorker
    <2> QED
      BY <1>0, <1>2, <1>3, <2>1, <2>2 DEF ModelsInv, WorkersInv, NoFalseSuccess
  <1>4. \A u : (FirstLoad(u)' <=> FirstLoad(u))
    BY <1>0 DEF FirstLoad
  <1>5. QueuesInOrder'
    <2>1. CASE ReadUpdate(w)
      BY <1>0, <2>1, ReadUpdateEffect
    <2>2. CASE ~ReadUpdate(w)
      <3>1. UNCHANGED updates
        BY <2>2 DEF Work, ReadRequest, EndPredict, EndLoad, LoadRaises
      <3> QED
        BY <1>0, <3>1 DEF QueuesInOrder, ReadUpTo
    <2> QED
      BY <2>1, <2>2
  <1>6. /\ ReadUpTo(w) \in Nat /\ ReadUpTo(w)' \in {ReadUpTo(w), ReadUpTo(w) + 1}
        /\ (ReadUpTo(w)' # ReadUpTo(w) => ReadUpdate(w))
    BY <1>0, ReadUpToType, WorkTasks
  <1>7. MainInv'
    BY <1>0, <1>4 DEF ModelsInv, MainInv
  <1>8. ServedInv'
    <2> SUFFICES ASSUME served # 0, ~Unloading, NEW v \in Workers
                 PROVE  /\ Holds(v)' /\ ReadUpTo(v)' >= served
                        /\ \A u \in (ReadUpTo(v)' + 1)..Len(kind) : kind[u] = "load"
      BY <1>0 DEF ServedInv, Unloading
    <2>1. /\ Holds(v) /\ ReadUpTo(v) >= served
          /\ \A u \in (ReadUpTo(v) + 1)..Len(kind) : kind[u] = "load"
      BY DEF ModelsInv, ServedInv
    <2>2. CASE v # w
      BY <1>2, <2>1, <2>2
    <2>3. CASE v = w
      <3>1. ~(ReadUpdate(w) /\ kind[ReadUpTo(w) + 1] = "unload")
        <4>1. ASSUME ReadUpdate(w) PROVE kind[ReadUpTo(w) + 1] = "load"
          <5>1. ReadUpTo(w) + 1 \in 1..Len(kind)
            BY <1>0, <4>1, ReadUpdateEffect, KindIsNumbered
          <5>2. ReadUpTo(w) + 1 \in (ReadUpTo(w) + 1)..Len(kind)
            BY <1>6, <5>1
          <5> QED
            BY <2>1, <2>3, <5>2
        <4> QED
          BY <4>1
      <3>2. Holds(w)'
        BY <1>1, <2>1, <2>3, <3>1
      <3>3. served \in Nat
        BY <1>0, KindIsNumbered DEF TypeOK
      <3>4. ReadUpTo(w)' >= served
        BY <1>6, <2>1, <2>3, <3>3
      <3>5. \A u \in (ReadUpTo(w)' + 1)..Len(kind) : u \in (ReadUpTo(w) + 1)..Len(kind)
        BY <1>0, <1>6, KindIsNumbered
      <3> QED
        BY <2>1, <2>3, <3>2, <3>4, <3>5
    <2> QED
      BY <2>2, <2>3
  <1>9. FollowedInv'
    <2> SUFFICES ASSUME NEW u \in 1..(Len(kind) - 1), FirstLoad(u), kind[u + 1] = "load",
                        NEW v \in Workers
                 PROVE  ReadUpTo(v)' >= u /\ (ReadUpTo(v)' = u => Holds(v)')
      BY <1>0, <1>4 DEF FollowedInv
    <2>1. ReadUpTo(v) >= u /\ (ReadUpTo(v) = u => Holds(v))
      BY DEF ModelsInv, FollowedInv
    <2>2. CASE v # w
      BY <1>2, <2>1, <2>2
    <2>3. CASE v = w
      <3>1. CASE ReadUpTo(w)' = ReadUpTo(w)
        <4>1. ~ReadUpdate(w)
          BY <1>0, <1>6, <3>1, ReadUpdateEffect
        <4> QED
          BY <1>1, <2>1, <2>3, <3>1, <4>1
      <3>2. CASE ReadUpTo(w)' = ReadUpTo(w) + 1
        BY <1>6, <2>1, <2>3, <3>2
      <3> QED
        BY <1>6, <3>1, <3>2
    <2> QED
      BY <2>2, <2>3
  <1> QED
    BY <1>1, <1>2, <1>3, <1>5, <1>7, <1>8, <1>9 DEF ModelsInv, WorkersInv

LEMMA NextModelsInv == TypeInv /\ ModelsInv /\ [Next]_vars => ModelsInv'
  <1> SUFFICES ASSUME TypeInv, ModelsInv, [Next]_vars PROVE ModelsInv'
    OBVIOUS
  <1>1. CASE LoadModel \/ UnloadModel
    BY <1>1, DispatchUpdateInv DEF LoadModel, UnloadModel
  <1>2. CASE UpdateReturns \/ UpdateRaises \/ ProcessResponse
    BY <1>2, UpdateReturnsInv, UpdateRaisesInv, ProcessResponseInv
  <1>3. ASSUME NEW w \in Workers, Work(w) PROVE ModelsInv'
    BY <1>3, WorkInv
  <1>4. ASSUME \/ \E r \in Requests : DispatchRequest(r) \/ WaitResponse(r) \/ Cancel(r)
               \/ RestartLoop \/ UNCHANGED vars
        PROVE  ModelsInv'
    <2>1. /\ UNCHANGED <<kind, updates, active, model, entry, answer, responses>>
          /\ UNCHANGED <<served, failedLoad, updating>>
      BY <1>4 DEF DispatchRequest, WaitResponse, Cancel, RestartLoop, vars, clientVars,
                  updateVars, workerVars
    <2>2. /\ QueuesInOrder' /\ FollowedInv' /\ WorkersInv' /\ AnswersInv'
          /\ \A w \in Workers : (Holds(w)' <=> Holds(w)) /\ ReadUpTo(w)' = ReadUpTo(w)
      BY <2>1, WorkersUntouched DEF TypeInv
    <2>3. MainInv' /\ ServedInv'
      BY <2>1, <2>2 DEF ModelsInv, MainInv, ServedInv, FirstLoad, Unloading
    <2> QED
      BY <2>2, <2>3 DEF ModelsInv
  <1> QED
    BY <1>1, <1>2, <1>3, <1>4 DEF Next, Main

LEMMA InitModelsInv == Init => ModelsInv
  <1> SUFFICES ASSUME Init PROVE ModelsInv
    OBVIOUS
  <1>1. Len(<<>>) = 0 /\ DOMAIN <<>> = {}
    BY EmptySeq
  <1>2. \A w \in Workers : /\ ReadUpTo(w) = 0 /\ Len(updates[w]) = 0 /\ active[w] = {}
                            /\ model[w] = 0 /\ entry[w] = 0
    BY <1>1 DEF Init, ReadUpTo
  <1>3. kind = <<>> /\ Len(kind) = 0 /\ served = 0 /\ ~failedLoad /\ InTransit = {}
    BY <1>1 DEF Init, InTransit
  <1>4. QueuesInOrder
    BY <1>2, <1>3 DEF QueuesInOrder
  <1>5. WorkersInv
    <2>1. \A w \in Workers : Current(w) = {} /\ Fresh(w) = {}
      BY <1>2 DEF Current, Fresh
    <2> QED
      BY <1>2, <2>1 DEF WorkersInv, TasksInv, ModelInv, NoFalseSuccess
  <1>6. AnswersInv
    BY <1>3 DEF Init, AnswersInv, Settled
  <1> QED
    BY <1>3, <1>4, <1>5, <1>6 DEF ModelsInv, MainInv, ServedInv, FollowedInv

----------------------------------------------------------------------------
(* Requests that are sent while the model is served                            *)

SteadyInv ==
    /\ steady # {} => served # 0 /\ ~Unloading
    /\ \A m \in InTransit : m.id \in steady => m.outcome # "notFound"
    /\ \A r \in steady : future[r] # "notFound"

LEMMA NextSteadyInv ==
    TypeInv /\ RequestsInv /\ ModelsInv /\ SteadyInv /\ [Next]_vars => SteadyInv'
  <1> SUFFICES ASSUME TypeInv, RequestsInv, ModelsInv, SteadyInv, [Next]_vars PROVE SteadyInv'
    OBVIOUS
  <1>0. /\ steady \subseteq Requests /\ Updates \cap Requests = {}
        /\ future \in [Requests -> {"none", "pending", "cancelled"} \cup Outcomes]
    BY ParallelAssumption DEF TypeInv, TypeOK, Updates
  <1>1. ASSUME NEW r \in Requests, DispatchRequest(r) PROVE SteadyInv'
    <2>1. /\ steady' \subseteq steady \cup {r} /\ future' = [future EXCEPT ![r] = "pending"]
          /\ (steady' # {} => steady # {} \/ (served # 0 /\ ~Unloading))
          /\ UNCHANGED <<served, updating, kind, responses>>
      BY <1>1 DEF DispatchRequest, updateVars, Unloading
    <2>2. \A m \in InTransit : m.id # r
      BY <1>1, InFlightPlaces DEF DispatchRequest, RequestsInv, Answered
    <2>3. InTransit' = InTransit /\ (Unloading' <=> Unloading)
      BY <2>1 DEF InTransit, Unloading
    <2>4. \A x \in steady' : future'[x] # "notFound"
      BY <1>0, <2>1 DEF SteadyInv
    <2> QED
      BY <2>1, <2>2, <2>3, <2>4 DEF SteadyInv
  <1>2. ASSUME NEW r \in Requests, WaitResponse(r) \/ Cancel(r) PROVE SteadyInv'
    <2>1. /\ UNCHANGED <<steady, served, updating, kind, responses>>
          /\ future' \in {future, [future EXCEPT ![r] = "cancelled"]}
      BY <1>2 DEF WaitResponse, Cancel, updateVars, workerVars
    <2>2. InTransit' = InTransit /\ (Unloading' <=> Unloading)
      BY <2>1 DEF InTransit, Unloading
    <2>3. \A x \in steady' : future'[x] # "notFound"
      BY <1>0, <2>1 DEF SteadyInv
    <2> QED
      BY <2>1, <2>2, <2>3 DEF SteadyInv
  <1>3. ASSUME NEW what \in {"load", "unload"}, DispatchUpdate(what) PROVE SteadyInv'
    <2>1. /\ UNCHANGED <<served, future, responses>>
          /\ (steady' = IF what = "unload" THEN {} ELSE steady)
      BY <1>3 DEF DispatchUpdate
    <2>2. kind'[Len(kind')] = what
      BY <1>3, DispatchUpdateEffect DEF TypeInv
    <2>3. InTransit' = InTransit /\ (what = "load" => ~Unloading')
      BY <2>1, <2>2 DEF InTransit, Unloading
    <2> QED
      BY <2>1, <2>3 DEF SteadyInv
  <1>4. CASE UpdateReturns \/ UpdateRaises
    <2>1. /\ UNCHANGED <<future, responses, steady, kind>> /\ updating /\ ~updating'
          /\ (steady # {} => served' # 0)
      <3>1. /\ UNCHANGED <<future, responses, steady, kind>> /\ updating /\ ~updating'
            /\ (kind[Len(kind)] # "unload" => served' \in {served, Len(kind)})
        BY <1>4, KindIsNumbered DEF UpdateReturns, UpdateRaises, clientVars, TypeInv
      <3>2. Len(kind) # 0
        BY <1>4, <3>1, KindIsNumbered DEF TypeInv
      <3> QED
        BY <3>1, <3>2 DEF SteadyInv, Unloading
    <2>2. InTransit' = InTransit /\ ~Unloading'
      BY <2>1 DEF InTransit, Unloading
    <2> QED
      BY <2>1, <2>2 DEF SteadyInv
  <1>5. CASE ProcessResponse
    <2> DEFINE m == Head(responses)
    <2>1. m \in InTransit /\ InTransit = InTransit' \cup {m}
      BY <1>5, ProcessResponseInTransit DEF TypeInv
    <2>2. /\ UNCHANGED <<steady, kind, updating, served>>
          /\ future' \in {future, [future EXCEPT ![m.id] = m.outcome]}
      BY <1>5 DEF ProcessResponse
    <2> HIDE DEF m
    <2>3. \A x \in steady' : future'[x] # "notFound"
      BY <1>0, <2>1, <2>2 DEF SteadyInv
    <2>4. Unloading' <=> Unloading
      BY <2>2 DEF Unloading
    <2> QED
      BY <2>1, <2>2, <2>3, <2>4 DEF SteadyInv
  <1>6. CASE RestartLoop \/ UNCHANGED vars
    <2>1. UNCHANGED <<steady, served, updating, kind, responses, future>>
      BY <1>6 DEF RestartLoop, vars, clientVars, updateVars, workerVars
    <2>2. InTransit' = InTransit /\ (Unloading' <=> Unloading)
      BY <2>1 DEF InTransit, Unloading
    <2> QED
      BY <2>1, <2>2 DEF SteadyInv
  <1>7. ASSUME NEW w \in Workers, Work(w) PROVE SteadyInv'
    <2>1. UNCHANGED <<steady, served, updating, kind, future>>
      BY <1>7 DEF Work, ReadRequest, ReadUpdate, EndPredict, EndLoad, LoadRaises,
                  clientVars, updateVars
    <2>2. Unloading' <=> Unloading
      BY <2>1 DEF Unloading
    <2>3. ASSUME NEW m \in InTransit', m \notin InTransit, m.id \in steady
          PROVE  m.outcome # "notFound"
      <3>0. m.id \in Requests /\ m.id \notin Updates /\ model[w] # 0
        BY <1>0, <2>3 DEF SteadyInv, ModelsInv, ServedInv, Holds
      <3>1. ASSUME NEW id \in Requests \cup DOMAIN kind, NEW outcome \in {"result", "error"},
                   Put(w, id, outcome)
            PROVE  m.outcome # "notFound"
        <4>1. InTransit' = InTransit \cup {[id |-> id, from |-> w, outcome |-> outcome]}
          BY <3>1, PutInTransit DEF TypeInv, Outcomes
        <4>2. m = [id |-> id, from |-> w, outcome |-> outcome]
          BY <2>3, <4>1
        <4> QED
          BY <4>2
      <3>2. CASE ReadRequest(w)
        <4>1. UNCHANGED responses
          BY <3>0, <3>2 DEF ReadRequest, Start
        <4> QED
          BY <2>3, <4>1 DEF InTransit
      <3>3. CASE ReadUpdate(w)
        <4>1. CASE UNCHANGED responses
          BY <2>3, <4>1 DEF InTransit
        <4>2. CASE ~UNCHANGED responses
          <5>1. PICK outcome \in {"result", "error"} : Put(w, Head(updates[w]), outcome)
            BY <3>3, <4>2 DEF ReadUpdate, StartLoad, Start, Unload
          <5> QED
            BY <3>1, <3>3, <5>1, QueueHeads DEF ReadUpdate, TypeInv
        <4> QED
          BY <4>1, <4>2
      <3>4. ASSUME NEW t \in active[w], EndPredict(w, t) \/ EndLoad(w, t) \/ LoadRaises(w, t)
            PROVE  m.outcome # "notFound"
        <4>1. t.id \in Requests \cup DOMAIN kind
          BY WorkerTypes DEF TypeInv, Tasks
        <4>2. \E outcome \in {"result", "error"} : Put(w, t.id, outcome)
          BY <3>4 DEF EndPredict, EndLoad, LoadRaises, End
        <4> QED
          BY <3>1, <4>1, <4>2
      <3> QED
        BY <1>7, <3>2, <3>3, <3>4 DEF Work
    <2> QED
      BY <2>1, <2>2, <2>3 DEF SteadyInv
  <1> QED
    BY <1>1, <1>2, <1>3, <1>4, <1>5, <1>6, <1>7 DEF Next, Main, LoadModel, UnloadModel

LEMMA InitSteadyInv == Init => SteadyInv
  <1> SUFFICES ASSUME Init PROVE SteadyInv
    OBVIOUS
  <1>1. DOMAIN <<>> = {}
    BY EmptySeq
  <1>2. InTransit = {} /\ steady = {}
    BY <1>1 DEF Init, InTransit
  <1> QED
    BY <1>2 DEF SteadyInv

----------------------------------------------------------------------------
(* Theorems                                                                    *)

\* While the main registry serves the model and does not unload it, every worker has a model,
\* also after reloads that failed in some of them (registry.py:158-189)
THEOREM EveryWorkerServes == Spec => []ServedEverywhere
  <1>1. ModelsInv => ServedEverywhere
    BY DEF ModelsInv, ServedInv, Holds, Unloading, ServedEverywhere
  <1> QED
    BY <1>1, InitTypeInv, NextTypeInv, InitModelsInv, NextModelsInv, PTL DEF Spec

\* A load that failed somewhere, and an unload, leave the model in no worker (registry.py:173)
THEOREM NoModelIsLeftBehind == Spec => []NoModelLeftBehind
  <1>1. TypeInv /\ ModelsInv => NoModelLeftBehind
    <2> SUFFICES ASSUME TypeInv, ModelsInv, UpdatesOver, served = 0, NEW w \in Workers
                 PROVE  model[w] = 0
      BY DEF NoModelLeftBehind
    <2>1. ~updating /\ ~failedLoad /\ updates[w] = <<>>
      BY DEF UpdatesOver
    <2>2. ReadUpTo(w) = Len(kind) /\ Len(kind) \in Nat
      BY <2>1, EmptySeq, KindIsNumbered DEF ReadUpTo, TypeInv
    <2>3. CASE kind = <<>>
      BY <2>2, <2>3, EmptySeq DEF ModelsInv, WorkersInv, ModelInv
    <2>4. CASE kind # <<>>
      <3>1. kind[Len(kind)] = "unload"
        BY <2>1, <2>4, KindIsNumbered DEF ModelsInv, MainInv, TypeInv
      <3> QED
        BY <2>2, <3>1 DEF ModelsInv, WorkersInv, ModelInv
    <2> QED
      BY <2>3, <2>4
  <1> QED
    BY <1>1, InitTypeInv, NextTypeInv, InitModelsInv, NextModelsInv, PTL DEF Spec

\* A request that is sent while the model is served is not told that there is no such model,
\* unless an unload overtakes it (worker.py:100)
THEOREM NotFoundOnlyIfUnloaded == Spec => []NotFoundMeansUnloaded
  <1>1. SteadyInv => NotFoundMeansUnloaded
    BY DEF SteadyInv, NotFoundMeansUnloaded
  <1> QED
    BY <1>1, InitTypeInv, NextTypeInv, InitRequestsInv, NextRequestsInv, InitModelsInv,
       NextModelsInv, InitSteadyInv, NextSteadyInv, PTL DEF Spec
=============================================================================
