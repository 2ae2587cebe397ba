------------------------------ MODULE Parallel ------------------------------
(* An inference pool at work: the dispatcher of the main process, the workers *)
(* and the queues between them (mlserver/parallel/dispatcher.py, worker.py    *)
(* and pool.py), for one version of one model.  Every worker has a queue of   *)
(* requests and one of model updates; all of them put their answers in one    *)
(* queue of responses.  The model is loaded and unloaded by the registry of   *)
(* the main process, one update at a time.                                    *)
EXTENDS Naturals, Sequences, FiniteSets

CONSTANTS
    NumWorkers,     \* parallel_workers
    Requests,       \* inference requests; each is dispatched once
    MaxUpdates,     \* bound on the model updates explored
    Faults          \* what may go wrong: a subset of FaultKinds

\* A client is cancelled, the load of a model raises
FaultKinds == {"cancel", "load"}

ASSUME ParallelAssumption ==
    /\ NumWorkers \in Nat \ {0}
    /\ MaxUpdates \in Nat
    /\ Faults \subseteq FaultKinds
    /\ Requests \cap Nat = {}

Workers == 1..NumWorkers
Updates == 1..MaxUpdates

VARIABLES
    future,         \* outcome of the future of each request
    registered,     \* the requests in _async_responses
    turn,           \* the worker _workers_round_robin gives next
    kind,           \* "load" or "unload": the updates dispatched so far
    answer,         \* outcome of each update at each worker
    updating,       \* dispatch_update is awaited
    served,         \* the load whose model the main registry serves, or 0
    failedLoad,     \* a first load failed and its unload is to follow
    requests,       \* Worker._requests
    updates,        \* Worker._model_updates
    active,         \* tasks in progress in each worker
    model,          \* the load whose model the worker has registered, or 0
    entry,          \* the load that made the worker's registry of the name, or 0
    responses,      \* the queue of responses
    loop,           \* the response loop: "on" or "crashed"
    steady          \* history: dispatched while served, and no unload since

clientVars == <<future, registered, turn, steady>>
updateVars == <<kind, answer, updating, served, failedLoad>>
workerVars == <<requests, updates, active, model, entry>>
vars == <<clientVars, updateVars, workerVars, responses, loop>>

----------------------------------------------------------------------------
(* The main process: Dispatcher *)

\* _get_worker: round robin
NextTurn == (turn % NumWorkers) + 1

\* Clients hold the ParallelModel of a load that returned, perhaps since unloaded
ModelIsHeld ==
    \E u \in DOMAIN kind :
        /\ kind[u] = "load" /\ (updating => u < Len(kind))
        /\ \A w \in Workers : answer[u][w] = "result"

\* dispatch_request: the worker whose turn it is gets the request
DispatchRequest(r) ==
    /\ future[r] = "none" /\ ModelIsHeld
    /\ requests' = [requests EXCEPT ![turn] = Append(@, r)]
    /\ turn' = NextTurn
    /\ future' = [future EXCEPT ![r] = "pending"]
    /\ registered' = registered \cup {r}
    /\ steady' = IF served # 0 /\ ~(updating /\ kind[Len(kind)] = "unload")
                 THEN steady \cup {r} ELSE steady
    /\ UNCHANGED <<updateVars, updates, active, model, entry, responses, loop>>

\* The future is done: its caller forgets it and returns
WaitResponse(r) ==
    /\ r \in registered /\ future[r] # "pending"
    /\ registered' = registered \ {r}
    /\ UNCHANGED <<future, turn, steady, updateVars, workerVars, responses, loop>>

Cancel(r) ==
    /\ "cancel" \in Faults /\ future[r] = "pending"
    /\ future' = [future EXCEPT ![r] = "cancelled"]
    /\ UNCHANGED <<registered, turn, steady, updateVars, workerVars, responses, loop>>

\* dispatch_update: every worker gets the update
DispatchUpdate(what) ==
    LET u == Len(kind) + 1
    IN  /\ ~updating /\ u \in Updates
        /\ kind' = Append(kind, what)
        /\ answer' = [answer EXCEPT ![u] = [w \in Workers |-> "pending"]]
        /\ updates' = [w \in Workers |-> Append(updates[w], u)]
        /\ updating' = TRUE
        /\ steady' = IF what = "unload" THEN {} ELSE steady
        /\ UNCHANGED <<future, registered, turn, served, failedLoad, requests, active,
                       model, entry, responses, loop>>

LoadModel == ~failedLoad /\ DispatchUpdate("load")
UnloadModel == (failedLoad \/ served # 0) /\ DispatchUpdate("unload")

\* (mutant) The first answer is enough
UpdateReturnsFirst ==
    LET u == Len(kind)
    IN  /\ updating /\ \E w \in Workers : answer[u][w] = "result"
        /\ updating' = FALSE
        /\ served' = IF kind[u] = "load" THEN u ELSE 0
        /\ failedLoad' = FALSE
        /\ UNCHANGED <<kind, answer, clientVars, workerVars, responses, loop>>

\* gather returns when all workers have answered
UpdateReturns ==
    LET u == Len(kind)
    IN  /\ updating /\ \A w \in Workers : answer[u][w] = "result"
        /\ updating' = FALSE
        /\ served' = IF kind[u] = "load" THEN u ELSE 0
        /\ failedLoad' = FALSE
        /\ UNCHANGED <<kind, answer, clientVars, workerVars, responses, loop>>

\* (mutant) What the workers loaded stays after a load that failed elsewhere
UpdateRaisesOnly ==
    LET u == Len(kind)
    IN  /\ updating /\ \E w \in Workers : answer[u][w] = "error"
        /\ updating' = FALSE
        /\ served' = IF kind[u] = "load" THEN served ELSE 0
        /\ UNCHANGED <<kind, answer, failedLoad, clientVars, workerVars, responses, loop>>

\* ... or raises with the first error; then the registry unloads a model it loads for
\* the first time, keeps the one it reloads, and lets the one go that it unloads
UpdateRaises ==
    LET u == Len(kind)
    IN  /\ updating /\ \E w \in Workers : answer[u][w] = "error"
        /\ updating' = FALSE
        /\ failedLoad' = (kind[u] = "load" /\ served = 0)
        /\ served' = IF kind[u] = "load" THEN served ELSE 0
        /\ UNCHANGED <<kind, answer, clientVars, workerVars, responses, loop>>

\* _process_response: an answer that nobody is registered for ends the loop
ProcessResponse ==
    /\ loop = "on" /\ responses # <<>>
    /\ LET m == Head(responses) IN
          IF m.id \in Requests
          THEN /\ future' = IF m.id \in registered /\ future[m.id] = "pending"
                            THEN [future EXCEPT ![m.id] = m.outcome] ELSE future
               /\ loop' = IF m.id \in registered THEN "on" ELSE "crashed"
               /\ UNCHANGED answer
          ELSE /\ answer' = [answer EXCEPT ![m.id][m.from] = m.outcome]
               /\ UNCHANGED <<future, loop>>
    /\ responses' = Tail(responses)
    /\ UNCHANGED <<registered, turn, steady, kind, updating, served, failedLoad, workerVars>>

\* (mutant) The crash is taken for the end of the loop
RestartLoopNever == loop = "crashed" /\ UNCHANGED vars

\* _process_responses_cb starts it again
RestartLoop ==
    /\ loop = "crashed"
    /\ loop' = "on"
    /\ UNCHANGED <<clientVars, updateVars, workerVars, responses>>

----------------------------------------------------------------------------
(* A worker process: Worker.coro_run and the tasks it starts *)

Put(w, id, outcome) ==
    responses' = Append(responses, [id |-> id, from |-> w, outcome |-> outcome])

\* A task on the registry object that was current when it started
Task(id, home, fresh) == [id |-> id, home |-> home, fresh |-> fresh]

Start(w, t) == active' = [active EXCEPT ![w] = @ \cup {t}] /\ UNCHANGED responses
End(w, t, outcome) ==
    active' = [active EXCEPT ![w] = @ \ {t}] /\ Put(w, t.id, outcome)

\* (mutant) An error in finding the model leaves the task without an answer
ReadRequestSilently(w) ==
    /\ requests[w] # <<>> /\ UNCHANGED responses
    /\ active' = IF model[w] = 0 THEN active
                 ELSE [active EXCEPT ![w] = @ \cup {Task(Head(requests[w]), 0, FALSE)}]
    /\ requests' = [requests EXCEPT ![w] = Tail(@)]
    /\ UNCHANGED <<clientVars, updateVars, updates, model, entry, loop>>

\* (mutant) A model that is being loaded again is not found
ReadRequestWhenReady(w) ==
    /\ requests[w] # <<>>
    /\ LET r == Head(requests[w]) IN
          IF model[w] = 0 \/ \E t \in active[w] : t.id \in Updates
          THEN Put(w, r, "notFound") /\ UNCHANGED active
          ELSE Start(w, Task(r, 0, FALSE))
    /\ requests' = [requests EXCEPT ![w] = Tail(@)]
    /\ UNCHANGED <<clientVars, updateVars, updates, model, entry, loop>>

\* A request is read and starts _process_request
ReadRequest(w) ==
    /\ requests[w] # <<>>
    /\ LET r == Head(requests[w]) IN
          IF model[w] = 0
          THEN Put(w, r, "notFound") /\ UNCHANGED active
          ELSE Start(w, Task(r, 0, FALSE))
    /\ requests' = [requests EXCEPT ![w] = Tail(@)]
    /\ UNCHANGED <<clientVars, updateVars, updates, model, entry, loop>>

\* What the method returns or raises is a result to its client alike
EndPredict(w, t) ==
    /\ t \in active[w] /\ t.id \in Requests
    /\ End(w, t, "result")
    /\ UNCHANGED <<clientVars, updateVars, requests, updates, model, entry, loop>>

\* An update is read and starts _process_model_update: a load that finds no model
\* registers its own at once, one that finds a model replaces it when it is loaded
StartLoad(w, u) ==
    LET home == IF entry[w] = 0 THEN u ELSE entry[w]
    IN  /\ model' = IF model[w] = 0 THEN [model EXCEPT ![w] = u] ELSE model
        /\ entry' = [entry EXCEPT ![w] = home]
        /\ Start(w, Task(u, home, model[w] = 0))

\* An unload has nothing to await in a worker
Unload(w, u) ==
    /\ Put(w, u, IF model[w] = 0 THEN "error" ELSE "result")
    /\ model' = [model EXCEPT ![w] = 0]
    /\ entry' = IF model[w] = 0 THEN entry ELSE [entry EXCEPT ![w] = 0]
    /\ UNCHANGED active

ReadUpdate(w) ==
    /\ updates[w] # <<>>
    /\ LET u == Head(updates[w]) IN
          IF kind[u] = "load" THEN StartLoad(w, u) ELSE Unload(w, u)
    /\ updates' = [updates EXCEPT ![w] = Tail(@)]
    /\ UNCHANGED <<clientVars, updateVars, requests, loop>>

\* What happens to the registry object of a name that was unloaded meanwhile is not
\* seen by anyone
EndLoad(w, t) ==
    /\ t \in active[w] /\ t.id \in Updates
    /\ model' = IF ~t.fresh /\ t.home = entry[w] THEN [model EXCEPT ![w] = t.id] ELSE model
    /\ End(w, t, "result")
    /\ UNCHANGED <<clientVars, updateVars, requests, updates, entry, loop>>

\* (mutant) The error of a load is not answered
LoadRaisesSilently(w, t) ==
    /\ "load" \in Faults
    /\ t \in active[w] /\ t.id \in Updates
    /\ model' = IF t.fresh /\ t.home = entry[w] THEN [model EXCEPT ![w] = 0] ELSE model
    /\ active' = [active EXCEPT ![w] = @ \ {t}]
    /\ UNCHANGED <<clientVars, updateVars, requests, updates, entry, responses, loop>>

LoadRaises(w, t) ==
    /\ "load" \in Faults
    /\ t \in active[w] /\ t.id \in Updates
    /\ model' = IF t.fresh /\ t.home = entry[w] THEN [model EXCEPT ![w] = 0] ELSE model
    /\ End(w, t, "error")
    /\ UNCHANGED <<clientVars, updateVars, requests, updates, entry, loop>>

----------------------------------------------------------------------------
Init ==
    /\ future = [r \in Requests |-> "none"]
    /\ registered = {}
    /\ turn = 1
    /\ kind = <<>>
    /\ answer = [u \in Updates |-> [w \in Workers |-> "none"]]
    /\ updating = FALSE
    /\ served = 0
    /\ failedLoad = FALSE
    /\ requests = [w \in Workers |-> <<>>]
    /\ updates = [w \in Workers |-> <<>>]
    /\ active = [w \in Workers |-> {}]
    /\ model = [w \in Workers |-> 0]
    /\ entry = [w \in Workers |-> 0]
    /\ responses = <<>>
    /\ loop = "on"
    /\ steady = {}

Main ==
    \/ \E r \in Requests : DispatchRequest(r) \/ WaitResponse(r) \/ Cancel(r)
    \/ LoadModel \/ UnloadModel \/ UpdateReturns \/ UpdateRaises
    \/ ProcessResponse \/ RestartLoop

Work(w) ==
    \/ ReadRequest(w) \/ ReadUpdate(w)
    \/ \E t \in active[w] : EndPredict(w, t) \/ EndLoad(w, t) \/ LoadRaises(w, t)

Next == Main \/ \E w \in Workers : Work(w)

Spec == Init /\ [][Next]_vars

\* The event loops run what is ready; predictions and loads end.  Nobody is obliged to
\* send a request or an update
Fairness ==
    /\ \A r \in Requests : WF_vars(WaitResponse(r))
    /\ WF_vars(UpdateReturns) /\ WF_vars(UpdateRaises)
    /\ WF_vars(ProcessResponse) /\ WF_vars(RestartLoop)
    /\ \A w \in Workers :
         /\ WF_vars(ReadRequest(w)) /\ WF_vars(ReadUpdate(w))
         /\ \A r \in Requests : WF_vars(\E t \in active[w] : t.id = r /\ EndPredict(w, t))
         /\ \A u \in Updates : WF_vars(\E t \in active[w] :
                t.id = u /\ (EndLoad(w, t) \/ LoadRaises(w, t)))

FairSpec == Spec /\ Fairness

----------------------------------------------------------------------------
(* Properties *)

Outcomes == {"result", "error", "notFound"}

\* Futures have outcomes and tasks belong to what was dispatched
TypeOK ==
    /\ future \in [Requests -> {"none", "pending", "cancelled"} \cup Outcomes]
    /\ registered \subseteq Requests /\ steady \subseteq Requests
    /\ turn \in Workers
    /\ kind \in Seq({"load", "unload"}) /\ Len(kind) <= MaxUpdates
    /\ answer \in [Updates -> [Workers -> {"none", "pending"} \cup Outcomes]]
    /\ updating \in BOOLEAN /\ failedLoad \in BOOLEAN
    /\ served \in {0} \cup DOMAIN kind
    /\ requests \in [Workers -> Seq(Requests)]
    /\ updates \in [Workers -> Seq(DOMAIN kind)]
    /\ active \in [Workers -> SUBSET [id : Requests \cup DOMAIN kind,
                                      home : {0} \cup DOMAIN kind, fresh : BOOLEAN]]
    /\ model \in [Workers -> {0} \cup DOMAIN kind]
    /\ entry \in [Workers -> {0} \cup DOMAIN kind]
    /\ responses \in Seq([id : Requests \cup DOMAIN kind, from : Workers,
                          outcome : Outcomes])
    /\ loop \in {"on", "crashed"}

Occurs(s, e) == \E i \in DOMAIN s : s[i] = e

\* Where a request is on its way to its answer
InFlight(r) ==
    \/ \E w \in Workers : Occurs(requests[w], r) \/ \E t \in active[w] : t.id = r
    \/ \E i \in DOMAIN responses : responses[i].id = r

\* A client waits only for a request that is still on its way, whatever other clients
\* cancel and however often the response loop crashes (dispatcher.py:61)
NothingLost == \A r \in Requests : future[r] = "pending" => InFlight(r)

\* While the main registry serves the model and does not unload it, every worker has it
ServedEverywhere ==
    served # 0 /\ ~(updating /\ kind[Len(kind)] = "unload") =>
        \A w \in Workers : model[w] # 0

\* A worker answers that there is no such model only to requests that were sent before
\* the model was served, or are overtaken by an unload (worker.py:100)
NotFoundMeansUnloaded ==
    \A r \in steady : future[r] # "notFound"

\* No update is under way in any worker, nor the unload after a failed load
UpdatesOver ==
    /\ ~updating /\ ~failedLoad
    /\ \A w \in Workers : updates[w] = <<>> /\ \A t \in active[w] : t.id \in Requests

\* A load that failed in some worker, and an unload, leave the model in none: the slower
\* workers get the unload while they still load (registry.py:173)
NoModelLeftBehind == UpdatesOver /\ served = 0 => \A w \in Workers : model[w] = 0

\* A client that is not cancelled gets an answer, also after the loop has crashed over
\* the late answer to one that was (dispatcher.py:54)
EveryRequestAnswered ==
    \A r \in Requests : future[r] = "pending" ~> future[r] # "pending"

\* Every update comes back to the registry, which is blocked until then
EveryUpdateEnds == updating ~> ~updating

=============================================================================
