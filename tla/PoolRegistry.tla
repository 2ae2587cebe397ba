---------------------------- MODULE PoolRegistry ----------------------------
(* The inference pools of a server, one per Python environment:               *)
(* MLServer/mlserver/parallel/registry.py with pool.py.  The model registry    *)
(* calls it from its hooks to load, reload and unload models; calls for        *)
(* different models overlap (at startup all models are loaded at once), and    *)
(* every await is a chance for another one to look at the pools.  What a pool  *)
(* does with an update is in Parallel: here all workers carry it out, or one   *)
(* of them fails.                                                              *)
EXTENDS Integers, FiniteSets

CONSTANTS
    Models,     \* the models of the server
    Envs,       \* the hashes of the environment tarballs in use
    MaxOps,     \* bound on the operations explored
    Faults      \* what may go wrong: a subset of FaultKinds

\* "load": a worker fails to load a model;  "extract": a tarball cannot be extracted
\* "hook": what the model registry does after the load raises
FaultKinds == {"load", "extract", "hook"}

ASSUME PoolAssumption ==
    /\ MaxOps \in Nat
    /\ Faults \subseteq FaultKinds
    /\ "none" \notin Envs
    /\ "server" \notin Models

\* The environment of a model that names no tarball, and its pool.  No operation
\* creates more than one pool
NoEnv == "none"
NoPool == 0
Default == 1
Pools == 1..MaxOps + 1

VARIABLES
    pools,      \* _pools: the pool registered for each environment
    pool,       \* every pool, and what has become of it
    folder,     \* the folder of each environment under environments_dir
    task,       \* the operation on each model, and the await it is at
    home,       \* the pool that the registered model sends its requests to
    hash,       \* its __env_hash__
    closers,    \* the _close_pool coroutines
    stopped,    \* close() was called
    ops,        \* the operations so far
    disturbed,  \* history: models loaded next to an unload in their environment, or left
                \* by a reload that could not unload them
    raced,      \* history: environments whose pool was created, or closed, twice at once
    spoiled,    \* history: environments that could not be extracted
    kept        \* history: pools in which something was loaded again, or failed

registryVars == <<pools, folder, closers, stopped>>
modelVars == <<home, hash>>
histories == <<disturbed, raced, spoiled, kept>>
vars == <<registryVars, modelVars, pool, task, ops, histories>>

Idle == [at |-> "idle", op |-> "none", env |-> NoEnv, pool |-> NoPool, from |-> NoPool]
Created == {p \in Pools : pool[p].state # "none"}
Registered(env) == IF env = NoEnv THEN Default ELSE pools[env]

\* What is being loaded into an environment, and whether something is unloaded there
LoadingInto(env) == {m \in Models : task[m].op \in {"load", "reload"} /\ task[m].env = env}
UnloadingFrom(env) ==
    \/ \E m \in Models : task[m].at \in {"unload", "closing"} /\ hash[m] = env
    \/ \E c \in closers : c.env = env

----------------------------------------------------------------------------
(* The ends of an operation: what the model registry keeps *)

End(m) == task' = [task EXCEPT ![m] = Idle]

Keep(m) ==
    /\ home' = [home EXCEPT ![m] = task[m].pool]
    /\ hash' = [hash EXCEPT ![m] = task[m].env]
    /\ End(m)

Forget(m) ==
    /\ home' = [home EXCEPT ![m] = NoPool]
    /\ hash' = [hash EXCEPT ![m] = NoEnv]
    /\ End(m)

\* A load that fails leaves no model, a reload leaves the old one.  The model of a
\* failed load has no hash: it is unloaded from the default pool, which has not got it
Fail(m) == End(m) /\ UNCHANGED modelVars

----------------------------------------------------------------------------
(* unload_model: asked for, after a reload into another environment, or after *)
(* a hook that raised                                                         *)

\* _find and the message to the workers of the pool it finds
SendUnload(m, op, env) ==
    LET p == Registered(env)
    IN  /\ task' = [task EXCEPT ![m].op = op, ![m].from = p, ![m].at =
                       IF p = NoPool THEN "notFound"
                       ELSE IF pool[p].state = "stopping" THEN "notFound" ELSE "unload"]
        /\ disturbed' = disturbed \cup (LoadingInto(env) \ {m})

Unload(m) ==
    /\ ops < MaxOps /\ ops' = ops + 1
    /\ task[m].at = "idle" /\ home[m] # NoPool
    /\ SendUnload(m, "unload", hash[m])
    /\ UNCHANGED <<registryVars, modelVars, pool, raced, spoiled, kept>>

UnloadEnds(m) ==
    /\ IF task[m].op = "reload" THEN Keep(m) ELSE Forget(m)
    /\ UNCHANGED <<disturbed, kept>>

\* The registry ignores what an unload raises, but a reload is over then
UnloadFails(m) ==
    IF task[m].op = "reload"
    THEN /\ Fail(m)
         /\ disturbed' = disturbed \cup {m}
         /\ kept' = kept \cup {task[m].pool}
    ELSE Forget(m) /\ UNCHANGED <<disturbed, kept>>

\* No such environment, the queues of the workers are closed, or a worker has no model
\* of that name
UnloadRaises(m) ==
    /\ \/ task[m].at = "notFound"
       \/ /\ task[m].at = "unload"
          /\ LET p == pool[task[m].from] IN
                p.state # "stopped" /\ (p.state = "stopping" \/ m \notin p.has)
    /\ UnloadFails(m)
    /\ UNCHANGED <<registryVars, pool, ops, raced, spoiled>>

\* The message was carried out by all workers, also when there are none left
Removed(p, m) == [pool EXCEPT ![p].count = @ - 1, ![p].has = @ \ {m}]
CanRemove(p, m) == m \in pool[p].has \/ pool[p].state = "stopped"

AnyPool(p) == p # Default     \* (mutant)

\* pool != self._default_pool and pool.empty(), once the model is gone
BecomesEmpty(p) == p # Default /\ pool[p].count = 1

UnloadReturns(m) ==
    /\ task[m].at = "unload" /\ CanRemove(task[m].from, m)
    /\ ~BecomesEmpty(task[m].from)
    /\ pool' = Removed(task[m].from, m)
    /\ UnloadEnds(m)
    /\ UNCHANGED <<registryVars, ops, raced, spoiled>>

Stop(p) == [p EXCEPT !.state = IF @ = "up" THEN "stopping" ELSE @]

\* The pool is empty now: the pool that is registered for its environment is closed
EmptyPool(m) ==
    LET p == task[m].from
        env == pool[p].env
        c == pools[env]
    IN  /\ task[m].at = "unload" /\ CanRemove(p, m) /\ BecomesEmpty(p)
        /\ IF c = NoPool
           THEN pool' = Removed(p, m) /\ UnloadFails(m) /\ UNCHANGED <<closers, raced>>
           ELSE /\ pool' = [Removed(p, m) EXCEPT ![c] = Stop(@)]
                /\ closers' = closers \cup {[by |-> m, env |-> env, pool |-> c]}
                /\ task' = [task EXCEPT ![m].at = "closing"]
                /\ raced' = raced \cup {e \in {env} : \E x \in closers : x.env = e}
                /\ UNCHANGED <<modelVars, disturbed, kept>>
        /\ UNCHANGED <<pools, folder, stopped, ops, spoiled>>

----------------------------------------------------------------------------
(* _close_pool, which awaits the hooks of every worker and the dispatcher *)

\* The workers have ended and the pool has none
ClearWorkers(c) ==
    /\ pool[c.pool].state = "stopping"
    /\ pool' = [pool EXCEPT ![c.pool].state = "stopped"]
    /\ UNCHANGED <<registryVars, modelVars, task, ops, histories>>

\* The entry and the folder of the environment go, whatever they are by now; there may
\* be none left
CloseEnds(c) ==
    /\ pool[c.pool].state = "stopped"
    /\ closers' = closers \ {c}
    /\ IF c.env = NoEnv
       THEN UNCHANGED <<pools, folder>>
       ELSE /\ pools' = [pools EXCEPT ![c.env] = NoPool]
            /\ folder' = IF pools[c.env] = NoPool THEN folder
                         ELSE [folder EXCEPT ![c.env] = "absent"]
    /\ IF c.by \notin Models
       THEN UNCHANGED <<task, modelVars, disturbed, kept>>
       ELSE IF pools[c.env] = NoPool \/ folder[c.env] = "absent"
       THEN UnloadFails(c.by)
       ELSE UnloadEnds(c.by)
    /\ UNCHANGED <<pool, stopped, ops, raced, spoiled>>

\* close(): every registered pool
Close ==
    /\ ~stopped /\ stopped' = TRUE
    /\ LET open == {[by |-> "server", env |-> e, pool |-> Registered(e)] :
                      e \in {NoEnv} \cup {e \in Envs : pools[e] # NoPool}}
       IN  /\ closers' = closers \cup open
           /\ pool' = [p \in Pools |-> IF \E c \in open : c.pool = p THEN Stop(pool[p])
                                       ELSE pool[p]]
    /\ disturbed' = disturbed \cup Models
    /\ UNCHANGED <<pools, folder, modelVars, task, ops, raced, spoiled, kept>>

----------------------------------------------------------------------------
(* load_model and reload_model *)

\* The message to the workers of the pool
SendLoad(t, p) ==
    [t EXCEPT !.pool = p, !.at = IF pool[p].state = "stopping" THEN "refused" ELSE "load"]

\* A model without a tarball goes to the default pool at once
Load(m, env) ==
    /\ ops < MaxOps /\ ops' = ops + 1
    /\ task[m].at = "idle"
    /\ LET t == [Idle EXCEPT !.env = env, !.at = "hash",
                             !.op = IF home[m] = NoPool THEN "load" ELSE "reload"]
       IN  task' = [task EXCEPT ![m] = IF env = NoEnv THEN SendLoad(t, Default) ELSE t]
    /\ disturbed' = IF UnloadingFrom(env) \/ stopped THEN disturbed \cup {m}
                    ELSE IF home[m] = NoPool THEN disturbed \ {m} ELSE disturbed
    /\ UNCHANGED <<registryVars, modelVars, pool, raced, spoiled, kept>>

\* A new pool takes the place of whatever is registered.  Its workers use the folder
\* as it is
CreatePool(m) ==
    LET env == task[m].env
        p == CHOOSE q \in Pools \ Created : TRUE
    IN  /\ pool' = [pool EXCEPT ![p] =
                      [env |-> env, whole |-> folder'[env] = "complete", count |-> 0,
                       has |-> {}, state |-> "up"]]
        /\ pools' = [pools EXCEPT ![env] = p]
        /\ task' = [task EXCEPT ![m].at = "load", ![m].pool = p]
        /\ raced' = raced \cup {e \in {env} : \E x \in Models \ {m} :
                                             task[x].at = "extract" /\ task[x].env = e}

NeverKnown(env) == FALSE     \* (mutant)

\* env_hash in self._pools
Known(env) == pools[env] # NoPool

AlwaysDir(env) == TRUE     \* (mutant)

\* os.path.isdir(env_path)
IsDir(env) == folder[env] # "absent"

\* compute_hash returned: the pool may be there, or its folder, or neither
FindPool(m) ==
    /\ task[m].at = "hash"
    /\ LET env == task[m].env IN
          \/ /\ Known(env)
             /\ task' = [task EXCEPT ![m] = SendLoad(@, pools[env])]
             /\ UNCHANGED <<pools, pool, folder, raced>>
          \/ /\ ~Known(env) /\ IsDir(env)
             /\ UNCHANGED folder
             /\ CreatePool(m)
          \/ /\ ~Known(env) /\ ~IsDir(env)
             /\ folder' = [folder EXCEPT ![env] = "partial"]
             /\ task' = [task EXCEPT ![m].at = "extract"]
             /\ UNCHANGED <<pools, pool, raced>>
    /\ UNCHANGED <<closers, stopped, modelVars, ops, disturbed, spoiled, kept>>

\* What was extracted before somebody removed the folder is missing
Extracted(m) ==
    /\ task[m].at = "extract"
    /\ folder' = [folder EXCEPT ![task[m].env] = IF @ = "absent" THEN "partial" ELSE "complete"]
    /\ CreatePool(m)
    /\ UNCHANGED <<closers, stopped, modelVars, ops, disturbed, spoiled, kept>>

\* The folder stays
ExtractRaises(m) ==
    /\ "extract" \in Faults /\ task[m].at = "extract"
    /\ Fail(m)
    /\ spoiled' = spoiled \cup {task[m].env}
    /\ UNCHANGED <<registryVars, pool, ops, disturbed, raced, kept>>

\* A worker raised, or was stopped meanwhile; or the queues are closed
LoadRaises(m) ==
    /\ \/ task[m].at = "refused"
       \/ task[m].at = "load" /\ ("load" \in Faults \/ pool[task[m].pool].state # "up")
    /\ Fail(m)
    /\ kept' = kept \cup {task[m].pool}
    /\ UNCHANGED <<registryVars, pool, ops, disturbed, raced, spoiled>>

\* All workers have loaded the model, also when there are none left
Loaded(m) ==
    LET p == task[m].pool
    IN  /\ task[m].at = "load"
        /\ pool' = [pool EXCEPT ![p].count = @ + 1, ![p].has = @ \cup {m}]
        /\ kept' = IF m \in pool[p].has THEN kept \cup {p} ELSE kept

LoadReturns(m) ==
    /\ task[m].op = "load" \/ hash[m] = task[m].env
    /\ Loaded(m)
    /\ Keep(m)
    /\ UNCHANGED <<registryVars, ops, disturbed, raced, spoiled>>

\* The environment has changed: the old model is unloaded, and is still registered
LoadReplaces(m) ==
    /\ task[m].op = "reload" /\ hash[m] # task[m].env
    /\ Loaded(m)
    /\ SendUnload(m, "reload", hash[m])
    /\ UNCHANGED <<registryVars, modelVars, ops, raced, spoiled>>

\* A later hook of the model registry raises, and the loaded model is unloaded
HookRaises(m) ==
    /\ "hook" \in Faults /\ task[m].op = "load"
    /\ Loaded(m)
    /\ hash' = [hash EXCEPT ![m] = task[m].env]
    /\ SendUnload(m, "unload", task[m].env)
    /\ UNCHANGED <<registryVars, home, ops, raced, spoiled>>

----------------------------------------------------------------------------
Init ==
    /\ pools = [e \in Envs |-> NoPool]
    /\ pool = [p \in Pools |->
                 [env |-> NoEnv, whole |-> TRUE, count |-> 0, has |-> {},
                  state |-> IF p = Default THEN "up" ELSE "none"]]
    /\ folder = [e \in Envs |-> "absent"]
    /\ task = [m \in Models |-> Idle]
    /\ home = [m \in Models |-> NoPool]
    /\ hash = [m \in Models |-> NoEnv]
    /\ closers = {} /\ stopped = FALSE
    /\ ops = 0
    /\ disturbed = {} /\ raced = {} /\ spoiled = {} /\ kept = {}

Operation(m) ==
    \/ \E env \in Envs \cup {NoEnv} : Load(m, env)
    \/ Unload(m)
    \/ FindPool(m) \/ Extracted(m) \/ ExtractRaises(m)
    \/ LoadRaises(m) \/ LoadReturns(m) \/ LoadReplaces(m) \/ HookRaises(m)
    \/ UnloadRaises(m) \/ UnloadReturns(m) \/ EmptyPool(m)

Next ==
    \/ \E m \in Models : Operation(m)
    \/ \E c \in closers : ClearWorkers(c) \/ CloseEnds(c)
    \/ Close

Spec == Init /\ [][Next]_vars

----------------------------------------------------------------------------
(* Properties *)

\* The model is registered and not about to be unloaded or replaced
Settled(m) == home[m] # NoPool /\ task[m].at \notin {"unload", "notFound", "closing"}

\* A model that was not loaded next to an unload in its environment is held by the
\* workers of the pool its requests go to, and that pool is up; a reload that could
\* not unload the old model has left it unserved
ServedWhereLoaded ==
    ~stopped => \A m \in Models : Settled(m) /\ m \notin disturbed =>
        /\ pool[home[m]].state = "up"
        /\ m \in pool[home[m]].has
        /\ pool[home[m]].env = hash[m]

\* Workers start with a complete environment, unless its pool was created or closed twice
\* at once or it could not be extracted before
WholeEnvironment ==
    \A p \in Created : pool[p].whole \/ pool[p].env \in raced \cup spoiled

Quiet == closers = {} /\ \A m \in Models : task[m].at = "idle"

\* "Keeps track of the different inference pools loaded in the server" (registry.py:42): a
\* pool whose workers are running is registered, unless it was created or closed twice at
\* once; and it has a model once everything is quiet, unless something was loaded into it
\* twice or failed there.  Until the server stops
PoolsTracked ==
    ~stopped => \A p \in Created \ {Default} :
        pool[p].state = "up" /\ pool[p].env \notin raced =>
            /\ pools[pool[p].env] = p
            /\ Quiet /\ p \notin kept => \E m \in Models : home[m] = p
=============================================================================
