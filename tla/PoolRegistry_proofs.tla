------------------------ MODULE PoolRegistry_proofs ------------------------
(* Theorems about PoolRegistry for all models, environments, numbers of       *)
(* operations and combinations of faults.                                     *)
EXTENDS PoolRegistry, FiniteSetTheorems, TLAPS

----------------------------------------------------------------------------
(* What the pools, the operations and the closing pools refer to.  All of it  *)
(* holds in every state, also after close().                                  *)

EnvsOrNone == Envs \cup {NoEnv}
PoolsOrNone == Pools \cup {NoPool}
Unloading == {"unload", "notFound", "closing"}
Loading == {"hash", "extract", "load", "refused"}

PoolRecords == [env : EnvsOrNone, whole : BOOLEAN, count : Int, has : SUBSET Models,
                state : {"none", "up", "stopping", "stopped"}]
Tasks == [at : {"idle"} \cup Loading \cup Unloading,
          op : {"none", "load", "reload", "unload"},
          env : EnvsOrNone, pool : PoolsOrNone, from : PoolsOrNone]

TypeOK ==
    /\ pools \in [Envs -> PoolsOrNone]
    /\ pool \in [Pools -> PoolRecords]
    /\ folder \in [Envs -> {"absent", "partial", "complete"}]
    /\ task \in [Models -> Tasks]
    /\ home \in [Models -> PoolsOrNone]
    /\ hash \in [Models -> EnvsOrNone]
    /\ closers \subseteq [by : Models \cup {"server"}, env : EnvsOrNone, pool : Pools]
    /\ stopped \in BOOLEAN
    /\ ops \in 0..MaxOps

\* p is a pool of this environment
PoolOf(p, env) == p \in Created /\ pool[p].env = env

\* What an operation holds while it is at one of its awaits
TaskShape(m) ==
    LET t == task[m]
    IN  /\ t.at = "idle" => t = Idle
        /\ t.at \in Loading => t.op \in {"load", "reload"} /\ t.from = NoPool
        /\ t.at \in {"hash", "extract"} => t.pool = NoPool /\ t.env \in Envs
        /\ t.at \in {"load", "refused"} => t.pool # NoPool
        /\ t.at \in Unloading => t.op \in {"unload", "reload"}
        /\ t.at \in {"unload", "closing"} => t.from # NoPool
        /\ t.at \in Unloading /\ t.op = "reload" => t.pool # NoPool /\ hash[m] # t.env
        /\ t.at \in Unloading /\ t.op = "unload" /\ t.pool # NoPool => hash[m] = t.env
        /\ t.op = "load" => home[m] = NoPool
        /\ t.pool # NoPool => PoolOf(t.pool, t.env)
        /\ t.from # NoPool => PoolOf(t.from, hash[m])

PoolRefs ==
    /\ PoolOf(Default, NoEnv)
    /\ \A p \in Created \ {Default} : pool[p].env \in Envs
    /\ \A m \in Models : TaskShape(m)
    /\ \A m \in Models : home[m] # NoPool => PoolOf(home[m], hash[m])
    /\ \A e \in Envs : pools[e] # NoPool => PoolOf(pools[e], e)

Closing ==
    /\ \A c \in closers :
          /\ PoolOf(c.pool, c.env) /\ pool[c.pool].state # "up"
          /\ c.by \in Models => task[c.by].at = "closing" /\ hash[c.by] = c.env
    /\ \A c, d \in closers : c.by = d.by /\ c.by \in Models => c = d

\* An operation creates at most one pool
Creating == {m \in Models : task[m].at \in {"hash", "extract"}}
PoolsSuffice ==
    IsFiniteSet(Creating) /\ Cardinality(Created) + Cardinality(Creating) <= ops + 1

RefInv == TypeOK /\ PoolRefs /\ Closing /\ PoolsSuffice

----------------------------------------------------------------------------
(* What the actions are built from does to the state *)

\* A pool once created keeps its environment
PoolsKept == \A p \in Created : p \in Created' /\ pool'[p].env = pool[p].env

\* Everything that belongs to a model other than m stays; where no model moves, m is the
\* server
OthersKept(m) ==
    \A x \in Models \ {m} : /\ task'[x] = task[x]
                            /\ home'[x] = home[x] /\ hash'[x] = hash[x]

LEMMA TaskType ==
    ASSUME TypeOK, NEW m \in Models
    PROVE  /\ task[m] \in Tasks /\ home[m] \in PoolsOrNone /\ hash[m] \in EnvsOrNone
           /\ task[m].env \in EnvsOrNone /\ task[m].pool \in PoolsOrNone
           /\ task[m].from \in PoolsOrNone
           /\ task[m].at \in {"idle"} \cup Loading \cup Unloading
           /\ task[m].op \in {"none", "load", "reload", "unload"}
  BY DEF TypeOK, Tasks

LEMMA IdleType == Idle \in Tasks
  BY DEF Idle, Tasks, PoolsOrNone, EnvsOrNone, NoPool, NoEnv

\* The default pool is a pool, and no number of a pool stands for none
LEMMA PoolNumbers ==
    /\ MaxOps \in Nat /\ Pools \subseteq Nat
    /\ Default \in Pools /\ NoPool \notin Pools
  BY PoolAssumption DEF Pools, Default, NoPool

LEMMA RegisteredType ==
    ASSUME TypeOK, NEW env \in EnvsOrNone
    PROVE  Registered(env) \in PoolsOrNone
  BY PoolNumbers DEF TypeOK, Registered, PoolsOrNone, EnvsOrNone

\* _find, and the message if there is somebody to send it to
LEMMA SendUnloadEffect ==
    ASSUME TypeOK, NEW m \in Models, NEW op \in {"unload", "reload"},
           NEW env \in EnvsOrNone, SendUnload(m, op, env)
    PROVE  /\ task' \in [Models -> Tasks]
           /\ \A x \in Models \ {m} : task'[x] = task[x]
           /\ task'[m].op = op /\ task'[m].env = task[m].env
           /\ task'[m].pool = task[m].pool /\ task'[m].from = Registered(env)
           /\ task'[m].at \in {"unload", "notFound"}
           /\ task'[m].at = "unload" <=> /\ Registered(env) # NoPool
                                         /\ pool[Registered(env)].state # "stopping"
           /\ disturbed' = disturbed \cup (LoadingInto(env) \ {m})
  <1> DEFINE p == Registered(env)
             at == IF p = NoPool THEN "notFound"
                   ELSE IF pool[p].state = "stopping" THEN "notFound" ELSE "unload"
  <1>1. p \in PoolsOrNone
    BY RegisteredType
  <1>2. /\ task' = [task EXCEPT ![m].op = op, ![m].from = p, ![m].at = at]
        /\ disturbed' = disturbed \cup (LoadingInto(env) \ {m})
    BY DEF SendUnload
  <1>3. at \in {"unload", "notFound"}
    OBVIOUS
  <1>4. at = "unload" <=> p # NoPool /\ pool[p].state # "stopping"
    OBVIOUS
  <1> HIDE DEF p, at
  <1>5. task \in [Models -> Tasks]
    BY DEF TypeOK
  <1>6. /\ task' \in [Models -> Tasks]
        /\ \A x \in Models \ {m} : task'[x] = task[x]
        /\ task'[m].op = op /\ task'[m].env = task[m].env
        /\ task'[m].pool = task[m].pool /\ task'[m].from = p /\ task'[m].at = at
    BY <1>1, <1>2, <1>3, <1>5 DEF Tasks, Unloading
  <1> QED
    BY <1>2, <1>3, <1>4, <1>6 DEF p

\* The message of a load
LEMMA SendLoadEffect ==
    ASSUME TypeOK, NEW t \in Tasks, NEW p \in Pools
    PROVE  /\ SendLoad(t, p) \in Tasks
           /\ SendLoad(t, p).op = t.op /\ SendLoad(t, p).env = t.env
           /\ SendLoad(t, p).pool = p /\ SendLoad(t, p).from = t.from
           /\ SendLoad(t, p).at \in {"load", "refused"}
           /\ pool[p].state = "up" => SendLoad(t, p).at = "load"
           /\ SendLoad(t, p).at = "load" <=> pool[p].state # "stopping"
  BY DEF SendLoad, Tasks, Loading, PoolsOrNone

\* There is always a number left for a new pool
LEMMA UnusedPool ==
    ASSUME RefInv, NEW m \in Creating
    PROVE  Pools \ Created # {}
  <1>1. /\ IsFiniteSet(Pools) /\ Cardinality(Pools) = MaxOps + 1
    <2>1. 1..MaxOps + 1 = 1..(MaxOps + 1) /\ 1 \in Int /\ MaxOps + 1 \in Int
          /\ MaxOps + 1 >= 1 /\ (MaxOps + 1) - 1 + 1 = MaxOps + 1
      BY PoolAssumption
    <2> QED
      BY <2>1, FS_Interval DEF Pools
  <1>2. IsFiniteSet(Creating) /\ Cardinality(Creating) \in Nat /\ Cardinality(Creating) # 0
    BY FS_CardinalityType, FS_EmptySet DEF RefInv, PoolsSuffice
  <1>3. Created \subseteq Pools
    BY DEF Created
  <1>4. IsFiniteSet(Created) /\ Cardinality(Created) \in Nat
    BY <1>1, <1>3, FS_Subset, FS_CardinalityType
  <1>5. Cardinality(Created) < Cardinality(Pools)
    BY <1>1, <1>2, <1>4, PoolAssumption DEF RefInv, PoolsSuffice, TypeOK
  <1> QED
    BY <1>3, <1>4, <1>5

\* The pool that is created is a new one
LEMMA CreatePoolEffect ==
    ASSUME RefInv, NEW m \in Creating, CreatePool(m)
    PROVE  \E p \in Pools \ Created :
              /\ pool' = [pool EXCEPT ![p] = [env |-> task[m].env,
                             whole |-> folder'[task[m].env] = "complete", count |-> 0,
                             has |-> {}, state |-> "up"]]
              /\ pools' = [pools EXCEPT ![task[m].env] = p]
              /\ task' = [task EXCEPT ![m].at = "load", ![m].pool = p]
              /\ raced' = raced \cup {e \in {task[m].env} : \E x \in Models \ {m} :
                                          task[x].at = "extract" /\ task[x].env = e}
  <1>1. (CHOOSE q \in Pools \ Created : TRUE) \in Pools \ Created
    BY UnusedPool
  <1> QED
    BY <1>1 DEF CreatePool

\* Nothing but its end and its start changes what a pool is
LEMMA SamePoolsKept ==
    ASSUME TypeOK, pool' \in [Pools -> PoolRecords],
           \A p \in Pools : pool'[p].env = pool[p].env,
           \A p \in Pools : pool'[p].state = "none" <=> pool[p].state = "none"
    PROVE  PoolsKept /\ Created' = Created
  BY DEF PoolsKept, PoolOf, Created

----------------------------------------------------------------------------
(* References stay right: a step moves at most one model, and no pool changes *)
(* its environment or comes up again.                                         *)

\* Pools change only in their models and by being stopped
PoolSteady ==
    /\ pool' \in [Pools -> PoolRecords]
    /\ \A p \in Pools : /\ pool'[p].env = pool[p].env /\ pool'[p].whole = pool[p].whole
                        /\ pool'[p].state = "none" <=> pool[p].state = "none"
                        /\ pool'[p].state = "up" => pool[p].state = "up"

\* What the registered model and its operation may refer to
ModelRefs(m) == TaskShape(m) /\ (home[m] # NoPool => PoolOf(home[m], hash[m]))

LEMMA PoolOfCreated ==
    ASSUME TypeOK, NEW p, NEW env, PoolOf(p, env)
    PROVE  p \in Created /\ p \in Pools /\ p # NoPool /\ pool[p].env = env /\ env \in EnvsOrNone
  BY PoolNumbers DEF PoolOf, Created, TypeOK, PoolRecords

\* The model that does not move
LEMMA OtherRefs ==
    ASSUME TypeOK, PoolsKept, NEW x \in Models, ModelRefs(x),
           task'[x] = task[x], home'[x] = home[x], hash'[x] = hash[x]
    PROVE  ModelRefs(x)'
  <1>1. /\ task[x].env \in EnvsOrNone /\ hash[x] \in EnvsOrNone
        /\ task[x].pool \in PoolsOrNone /\ task[x].from \in PoolsOrNone
        /\ home[x] \in PoolsOrNone
    BY TaskType
  <1>2. ASSUME NEW p, NEW env, PoolOf(p, env) PROVE PoolOf(p, env)'
    BY <1>2 DEF PoolsKept, PoolOf
  <1>3. task[x].pool # NoPool => PoolOf(task[x].pool, task[x].env)'
    BY <1>1, <1>2 DEF ModelRefs, TaskShape
  <1>4. task[x].from # NoPool => PoolOf(task[x].from, hash[x])'
    BY <1>1, <1>2 DEF ModelRefs, TaskShape
  <1>5. home[x] # NoPool => PoolOf(home[x], hash[x])'
    BY <1>1, <1>2 DEF ModelRefs, TaskShape
  <1>6. TaskShape(x)'
    <2> HIDE DEF PoolOf
    <2> QED
      BY <1>3, <1>4 DEF ModelRefs, TaskShape
  <1> QED
    BY <1>5, <1>6 DEF ModelRefs

LEMMA PoolRefsStep ==
    ASSUME RefInv, TypeOK', NEW m, OthersKept(m), PoolsKept, m \in Models => ModelRefs(m)',
           \A p \in Created' \ Created : pool'[p].env \in Envs,
           (\A e \in Envs : pools[e] # NoPool => PoolOf(pools[e], e))'
    PROVE  PoolRefs'
  <1>1. \A x \in Models : ModelRefs(x)
    BY DEF RefInv, PoolRefs, ModelRefs
  <1>2. \A x \in Models : ModelRefs(x)'
    BY <1>1, OtherRefs DEF RefInv, OthersKept
  <1>4. PoolOf(Default, NoEnv)'
    BY DEF PoolsKept, PoolOf, RefInv, PoolRefs
  <1>5. ASSUME NEW p \in Created' \ {Default} PROVE pool'[p].env \in Envs
    <2>1. CASE p \in Created
      <3>1. pool[p].env \in Envs
        BY <1>5, <2>1 DEF RefInv, PoolRefs
      <3> QED
        BY <2>1, <3>1 DEF PoolsKept
    <2> QED
      BY <1>5, <2>1
  <1>6. \A x \in Models : TaskShape(x)'
    BY <1>2 DEF ModelRefs
  <1>7. \A x \in Models : (home[x] # NoPool => PoolOf(home[x], hash[x]))'
    BY <1>2 DEF ModelRefs
  <1>8. \A p \in (Created \ {Default})' : pool'[p].env \in Envs
    BY <1>5 DEF Default
  <1> HIDE DEF PoolOf
  <1> QED
    BY <1>4, <1>6, <1>7, <1>8 DEF PoolRefs

\* Closing pools stay what they are as long as their models stay at closing
LEMMA ClosingStep ==
    ASSUME RefInv, NEW m, OthersKept(m), m \in Models => task[m].at # "closing", PoolsKept,
           closers' = closers,
           \A p \in Created : pool'[p].state = "up" => pool[p].state = "up"
    PROVE  Closing'
  <1>1. ASSUME NEW c \in closers
        PROVE  /\ PoolOf(c.pool, c.env)' /\ pool'[c.pool].state # "up"
               /\ c.by \in Models => task'[c.by].at = "closing" /\ hash'[c.by] = c.env
    <2>1. /\ PoolOf(c.pool, c.env) /\ pool[c.pool].state # "up" /\ c.pool \in Created
          /\ c.by \in Models => task[c.by].at = "closing" /\ hash[c.by] = c.env
          /\ c.pool \in Pools /\ c.env \in EnvsOrNone
      BY PoolOfCreated DEF RefInv, Closing
    <2>2. PoolOf(c.pool, c.env)' /\ pool'[c.pool].state # "up"
      BY <2>1 DEF PoolsKept, PoolOf
    <2>3. c.by \in Models => task'[c.by].at = "closing" /\ hash'[c.by] = c.env
      BY <2>1 DEF OthersKept
    <2> QED
      BY <2>2, <2>3
  <1> QED
    BY <1>1 DEF RefInv, Closing

\* The operations that may yet create a pool
LEMMA SufficeStep ==
    ASSUME RefInv, NEW m, OthersKept(m), Created' = Created,
           \/ ops' = ops + 1
           \/ ops' = ops /\ (m \in Creating' => m \in Creating)
    PROVE  PoolsSuffice'
  <1>1. Creating' \subseteq Creating \cup {m}
    BY DEF Creating, OthersKept
  <1>2. IsFiniteSet(Creating) /\ Cardinality(Creating) \in Nat
    BY FS_CardinalityType DEF RefInv, PoolsSuffice
  <1>3. /\ IsFiniteSet(Creating \cup {m})
        /\ Cardinality(Creating \cup {m}) <= Cardinality(Creating) + 1
    BY <1>2, FS_AddElement
  <1>4. /\ IsFiniteSet(Creating') /\ Cardinality(Creating') \in Nat
        /\ Cardinality(Creating') <= Cardinality(Creating) + 1
    <2>1. /\ IsFiniteSet(Creating')
          /\ Cardinality(Creating') <= Cardinality(Creating \cup {m})
      BY <1>1, <1>3, FS_Subset
    <2>2. Cardinality(Creating') \in Nat /\ Cardinality(Creating \cup {m}) \in Nat
      BY <1>3, <2>1, FS_CardinalityType
    <2> QED
      BY <1>2, <1>3, <2>1, <2>2
  <1>5. /\ Cardinality(Created) \in Nat /\ ops \in Nat
    <2>1. IsFiniteSet(Pools)
      BY PoolAssumption, FS_Interval DEF Pools
    <2>2. Created \subseteq Pools
      BY DEF Created
    <2> QED
      BY <2>1, <2>2, FS_Subset, FS_CardinalityType DEF RefInv, TypeOK
  <1>6. CASE ops' = ops + 1
    BY <1>2, <1>4, <1>5, <1>6 DEF RefInv, PoolsSuffice
  <1>7. CASE ops' = ops /\ (m \in Creating' => m \in Creating)
    <2>1. Creating' \subseteq Creating
      BY <1>1, <1>7
    <2>2. Cardinality(Creating') <= Cardinality(Creating)
      BY <1>2, <2>1, FS_Subset
    <2> QED
      BY <1>2, <1>4, <1>5, <1>7, <2>2 DEF RefInv, PoolsSuffice
  <1> QED
    BY <1>6, <1>7

\* A step of one model that creates and closes no pool
LEMMA ModelStep ==
    ASSUME RefInv, NEW m \in Models, OthersKept(m), task[m].at # "closing", PoolSteady,
           UNCHANGED <<pools, closers, stopped>>,
           folder' \in [Envs -> {"absent", "partial", "complete"}],
           task' \in [Models -> Tasks], home' \in [Models -> PoolsOrNone],
           hash' \in [Models -> EnvsOrNone], ModelRefs(m)',
           \/ ops < MaxOps /\ ops' = ops + 1
           \/ ops' = ops /\ (m \in Creating' => m \in Creating)
    PROVE  RefInv'
  <1>1. ops' \in 0..MaxOps
    BY PoolAssumption DEF RefInv, TypeOK
  <1>2. TypeOK'
    BY <1>1 DEF RefInv, TypeOK, PoolSteady
  <1>3. PoolsKept /\ Created' = Created
    BY SamePoolsKept DEF RefInv, PoolSteady
  <1>4. (\A e \in Envs : pools[e] # NoPool => PoolOf(pools[e], e))'
    BY <1>3 DEF PoolsKept, PoolOf, RefInv, PoolRefs
  <1>5. PoolRefs'
    BY <1>2, <1>3, <1>4, PoolRefsStep
  <1>6. Closing'
    <2>1. \A p \in Created : pool'[p].state = "up" => pool[p].state = "up"
      BY DEF PoolSteady, Created
    <2> QED
      BY <1>3, <2>1, ClosingStep
  <1>7. PoolsSuffice'
    BY <1>3, SufficeStep
  <1> QED
    BY <1>2, <1>5, <1>6, <1>7 DEF RefInv
----------------------------------------------------------------------------
(* What an operation that ends leaves behind *)

\* An unload has left no model; a reload has moved it, or is stuck with the old one
Left(m) ==
    /\ task[m].op = "unload" /\ home' = [home EXCEPT ![m] = NoPool]
    /\ hash' = [hash EXCEPT ![m] = NoEnv] /\ UNCHANGED <<disturbed, kept>>
Moved(m) ==
    /\ task[m].op = "reload" /\ home' = [home EXCEPT ![m] = task[m].pool]
    /\ hash' = [hash EXCEPT ![m] = task[m].env] /\ UNCHANGED <<disturbed, kept>>
Stuck(m) ==
    /\ task[m].op = "reload" /\ UNCHANGED <<home, hash>>
    /\ disturbed' = disturbed \cup {m} /\ kept' = kept \cup {task[m].pool}

Over(m) ==
    /\ task[m].at \in Unloading /\ task' = [task EXCEPT ![m] = Idle]
    /\ Left(m) \/ Moved(m) \/ Stuck(m)

LEMMA UnloadOver ==
    ASSUME RefInv, NEW m \in Models, task[m].at \in Unloading
    PROVE  /\ UnloadEnds(m) => Over(m) /\ (Left(m) \/ Moved(m))
           /\ UnloadFails(m) => Over(m) /\ (Left(m) \/ Stuck(m))
  <1>1. task[m].op \in {"unload", "reload"}
    BY DEF RefInv, PoolRefs, TaskShape
  <1> QED
    BY <1>1 DEF UnloadEnds, UnloadFails, Keep, Forget, Fail, End, Over, Left, Moved, Stuck,
                modelVars

\* What is left refers to pools that are there
LEMMA OverRefs ==
    ASSUME RefInv, NEW m \in Models, Over(m), PoolsKept
    PROVE  /\ OthersKept(m) /\ ModelRefs(m)'
           /\ task' \in [Models -> Tasks] /\ home' \in [Models -> PoolsOrNone]
           /\ hash' \in [Models -> EnvsOrNone] /\ m \notin Creating'
  <1>1. /\ task \in [Models -> Tasks] /\ home \in [Models -> PoolsOrNone]
        /\ hash \in [Models -> EnvsOrNone] /\ NoPool \in PoolsOrNone
        /\ NoEnv \in EnvsOrNone
    BY DEF RefInv, TypeOK, PoolsOrNone, EnvsOrNone
  <1>2. task[m].pool \in PoolsOrNone /\ task[m].env \in EnvsOrNone
    BY TaskType DEF RefInv
  <1>3. /\ task' \in [Models -> Tasks] /\ task'[m] = Idle
        /\ \A x \in Models \ {m} : task'[x] = task[x]
    BY <1>1, IdleType DEF Over
  <1>4. m \notin Creating'
    BY <1>3 DEF Creating, Idle
  <1>5. \A p, env : PoolOf(p, env) => PoolOf(p, env)'
    BY DEF PoolsKept, PoolOf
  <1>6. /\ home[m] # NoPool => PoolOf(home[m], hash[m])
        /\ task[m].pool # NoPool => PoolOf(task[m].pool, task[m].env)
    BY DEF RefInv, PoolRefs, TaskShape
  <1>7. TaskShape(m)'
    BY <1>3 DEF TaskShape, Idle, Loading, Unloading
  <1>8. CASE Left(m)
    BY <1>1, <1>3, <1>4, <1>7, <1>8 DEF Left, OthersKept, ModelRefs
  <1>9. CASE Moved(m)
    <2>1. /\ home' \in [Models -> PoolsOrNone] /\ hash' \in [Models -> EnvsOrNone]
          /\ home'[m] = task[m].pool /\ hash'[m] = task[m].env
          /\ \A x \in Models \ {m} : home'[x] = home[x] /\ hash'[x] = hash[x]
      BY <1>1, <1>2, <1>9 DEF Moved
    <2>2. (home[m] # NoPool => PoolOf(home[m], hash[m]))'
      BY <1>5, <1>6, <2>1
    <2> QED
      BY <1>3, <1>4, <1>7, <2>1, <2>2 DEF OthersKept, ModelRefs
  <1>10. CASE Stuck(m)
    <2>1. (home[m] # NoPool => PoolOf(home[m], hash[m]))'
      BY <1>5, <1>6, <1>10 DEF Stuck
    <2> QED
      BY <1>1, <1>3, <1>4, <1>7, <1>10, <2>1 DEF Stuck, OthersKept, ModelRefs
  <1> QED
    BY <1>8, <1>9, <1>10 DEF Over

\* A model leaves the workers of a pool, or enters them
NewContents(p, n, has) == pool' = [pool EXCEPT ![p].count = n, ![p].has = has]

LEMMA ContentsSteady ==
    ASSUME TypeOK, NEW p \in Pools, NEW n \in Int, NEW has \in SUBSET Models,
           NewContents(p, n, has)
    PROVE  /\ PoolSteady
           /\ \A q \in Pools \ {p} : pool'[q] = pool[q]
           /\ pool'[p] = [pool[p] EXCEPT !.count = n, !.has = has]
  <1>1. pool \in [Pools -> PoolRecords]
    BY DEF TypeOK
  <1>2. pool[p] \in PoolRecords
    BY <1>1
  <1>3. [pool[p] EXCEPT !.count = n, !.has = has] \in PoolRecords
    BY <1>2 DEF PoolRecords
  <1>4. /\ pool' \in [Pools -> PoolRecords]
        /\ \A q \in Pools \ {p} : pool'[q] = pool[q]
        /\ pool'[p] = [pool[p] EXCEPT !.count = n, !.has = has]
    BY <1>1, <1>3 DEF NewContents
  <1>5. /\ pool'[p].env = pool[p].env /\ pool'[p].state = pool[p].state
        /\ pool'[p].whole = pool[p].whole
    BY <1>2, <1>4 DEF PoolRecords
  <1> QED
    BY <1>4, <1>5 DEF PoolSteady

LEMMA RemovedSteady ==
    ASSUME TypeOK, NEW p \in Pools, NEW m \in Models,
           NewContents(p, pool[p].count - 1, pool[p].has \ {m})
    PROVE  /\ PoolSteady
           /\ \A q \in Pools \ {p} : pool'[q] = pool[q]
           /\ pool'[p] = [pool[p] EXCEPT !.count = pool[p].count - 1,
                                         !.has = pool[p].has \ {m}]
  <1> DEFINE n == pool[p].count - 1
             has == pool[p].has \ {m}
  <1>1. n \in Int /\ has \in SUBSET Models
    BY DEF TypeOK, PoolRecords
  <1>2. NewContents(p, n, has)
    OBVIOUS
  <1> HIDE DEF n, has
  <1>3. /\ PoolSteady
        /\ \A q \in Pools \ {p} : pool'[q] = pool[q]
        /\ pool'[p] = [pool[p] EXCEPT !.count = n, !.has = has]
    BY <1>1, <1>2, ContentsSteady
  <1> QED
    BY <1>3 DEF n, has

LEMMA LoadedSteady ==
    ASSUME TypeOK, NEW m \in Models, NEW p \in Pools, p = task[m].pool, Loaded(m)
    PROVE  /\ PoolSteady
           /\ \A q \in Pools \ {p} : pool'[q] = pool[q]
           /\ pool'[p] = [pool[p] EXCEPT !.count = pool[p].count + 1,
                                         !.has = pool[p].has \cup {m}]
           /\ kept' = IF m \in pool[p].has THEN kept \cup {p} ELSE kept
  <1> DEFINE n == pool[p].count + 1
             has == pool[p].has \cup {m}
  <1>1. n \in Int /\ has \in SUBSET Models
    BY DEF TypeOK, PoolRecords
  <1>2. NewContents(p, n, has)
    BY DEF Loaded, NewContents
  <1>3. kept' = IF m \in pool[p].has THEN kept \cup {p} ELSE kept
    BY DEF Loaded
  <1> HIDE DEF n, has
  <1>4. /\ PoolSteady
        /\ \A q \in Pools \ {p} : pool'[q] = pool[q]
        /\ pool'[p] = [pool[p] EXCEPT !.count = n, !.has = has]
    BY <1>1, <1>2, ContentsSteady
  <1> QED
    BY <1>3, <1>4 DEF n, has

----------------------------------------------------------------------------
(* RefInv is kept by every step of a model, of a closing pool and by close()  *)

LEMMA LoadRefs ==
    ASSUME RefInv, NEW m \in Models, NEW env \in EnvsOrNone, Load(m, env)
    PROVE  RefInv' /\ OthersKept(m) /\ PoolsKept /\ Created' = Created
  <1> DEFINE t == [Idle EXCEPT !.env = env, !.at = "hash",
                               !.op = IF home[m] = NoPool THEN "load" ELSE "reload"]
             u == IF env = NoEnv THEN SendLoad(t, Default) ELSE t
  <1>1. /\ ops < MaxOps /\ ops' = ops + 1 /\ task[m].at = "idle"
        /\ task' = [task EXCEPT ![m] = u]
        /\ UNCHANGED <<registryVars, modelVars, pool>>
    BY DEF Load
  <1>2. /\ t \in Tasks /\ t.env = env /\ t.at = "hash" /\ t.pool = NoPool /\ t.from = NoPool
        /\ t.op = IF home[m] = NoPool THEN "load" ELSE "reload"
    BY DEF Idle, Tasks, PoolsOrNone, Loading
  <1> HIDE DEF t
  <1>3. /\ u \in Tasks /\ u.env = env /\ u.op = t.op /\ u.from = NoPool
        /\ env = NoEnv => u.pool = Default /\ u.at \in {"load", "refused"}
        /\ env # NoEnv => u = t
    BY <1>2, SendLoadEffect, PoolNumbers DEF RefInv
  <1> HIDE DEF u
  <1>4. /\ task' \in [Models -> Tasks] /\ task'[m] = u /\ OthersKept(m)
    BY <1>1, <1>3 DEF RefInv, TypeOK, OthersKept, modelVars
  <1>5. PoolSteady
    BY <1>1 DEF PoolSteady, RefInv, TypeOK
  <1>6. PoolsKept /\ Created' = Created
    BY <1>5, SamePoolsKept DEF RefInv, PoolSteady
  <1>7. \A p, e : PoolOf(p, e) => PoolOf(p, e)'
    BY <1>6 DEF PoolsKept, PoolOf
  <1>8. ModelRefs(m)'
    <2>1. PoolOf(Default, NoEnv)' /\ (home[m] # NoPool => PoolOf(home[m], hash[m])')
      BY <1>1, <1>7 DEF RefInv, PoolRefs, modelVars
    <2>2. TaskShape(m)'
      BY <1>1, <1>2, <1>3, <1>4, <2>1
      DEF TaskShape, EnvsOrNone, Loading, Unloading, modelVars, Default, NoPool
    <2> QED
      BY <1>1, <2>1, <2>2 DEF ModelRefs, modelVars
  <1>9. RefInv'
    BY <1>1, <1>4, <1>5, <1>8, ModelStep DEF RefInv, TypeOK, registryVars, modelVars
  <1> QED
    BY <1>4, <1>6, <1>9

\* The pool that is registered for an environment is one of it
LEMMA RegisteredRef ==
    ASSUME RefInv, NEW env \in EnvsOrNone, Registered(env) # NoPool
    PROVE  PoolOf(Registered(env), env)
  BY DEF RefInv, PoolRefs, Registered, EnvsOrNone

\* An operation that goes on to unload a model from the pool of its environment
LEMMA SendUnloadRefs ==
    ASSUME RefInv, NEW m \in Models, NEW op \in {"unload", "reload"},
           NEW env \in EnvsOrNone, SendUnload(m, op, env), PoolSteady,
           home' = home, hash' = [hash EXCEPT ![m] = env],
           home[m] # NoPool => hash[m] = env,
           op = "reload" => task[m].pool # NoPool /\ env # task[m].env,
           op = "unload" /\ task[m].pool # NoPool => env = task[m].env
    PROVE  /\ OthersKept(m) /\ ModelRefs(m)' /\ m \notin Creating'
           /\ task' \in [Models -> Tasks] /\ hash' \in [Models -> EnvsOrNone]
           /\ PoolsKept /\ Created' = Created
  <1> DEFINE p == Registered(env)
  <1>1. /\ task' \in [Models -> Tasks]
        /\ \A x \in Models \ {m} : task'[x] = task[x]
        /\ task'[m].op = op /\ task'[m].env = task[m].env
        /\ task'[m].pool = task[m].pool /\ task'[m].from = p
        /\ task'[m].at \in {"unload", "notFound"}
        /\ task'[m].at = "unload" => p # NoPool
    BY SendUnloadEffect DEF RefInv
  <1>2. hash' \in [Models -> EnvsOrNone] /\ hash'[m] = env /\ OthersKept(m)
    BY <1>1 DEF RefInv, TypeOK, OthersKept
  <1>3. m \notin Creating'
    BY <1>1 DEF Creating
  <1>4. p # NoPool => PoolOf(p, env)
    BY RegisteredRef
  <1>5. PoolsKept /\ Created' = Created
    BY SamePoolsKept DEF RefInv, PoolSteady
  <1>6. \A q, e : PoolOf(q, e) => PoolOf(q, e)'
    BY <1>5 DEF PoolsKept, PoolOf
  <1> HIDE DEF p
  <1>7. TaskShape(m)'
    <2>1. task[m].pool # NoPool => PoolOf(task[m].pool, task[m].env)
      BY DEF RefInv, PoolRefs, TaskShape
    <2>2. (task[m].pool # NoPool => PoolOf(task[m].pool, task[m].env))'
      BY <1>1, <1>6, <2>1
    <2>3. (task[m].from # NoPool => PoolOf(task[m].from, hash[m]))'
      BY <1>1, <1>2, <1>4, <1>6
    <2> HIDE DEF PoolOf
    <2> QED
      BY <1>1, <1>2, <2>2, <2>3 DEF TaskShape, Loading, Unloading
  <1>8. (home[m] # NoPool => PoolOf(home[m], hash[m]))'
    BY <1>2, <1>6 DEF RefInv, PoolRefs
  <1> QED
    BY <1>1, <1>2, <1>3, <1>5, <1>7, <1>8 DEF ModelRefs

LEMMA UnloadRefs ==
    ASSUME RefInv, NEW m \in Models, Unload(m)
    PROVE  RefInv' /\ OthersKept(m) /\ PoolsKept /\ Created' = Created
  <1>1. /\ ops < MaxOps /\ ops' = ops + 1 /\ task[m].at = "idle" /\ home[m] # NoPool
        /\ SendUnload(m, "unload", hash[m]) /\ UNCHANGED <<registryVars, modelVars, pool>>
    BY DEF Unload
  <1>2. task[m] = Idle /\ task[m].pool = NoPool /\ home' = home
    BY <1>1 DEF RefInv, TypeOK, PoolRefs, TaskShape, modelVars, Idle
  <1>6. PICK env \in EnvsOrNone :
            env = hash[m] /\ SendUnload(m, "unload", env) /\ hash' = [hash EXCEPT ![m] = env]
    BY <1>1 DEF RefInv, TypeOK, modelVars
  <1>3. PoolSteady
    BY <1>1 DEF PoolSteady, RefInv, TypeOK
  <1>4. /\ OthersKept(m) /\ ModelRefs(m)' /\ m \notin Creating'
        /\ task' \in [Models -> Tasks] /\ hash' \in [Models -> EnvsOrNone]
        /\ PoolsKept /\ Created' = Created
    BY <1>2, <1>3, <1>6, SendUnloadRefs
  <1>5. RefInv'
    BY <1>1, <1>3, <1>4, ModelStep DEF RefInv, TypeOK, registryVars, modelVars
  <1> QED
    BY <1>4, <1>5

\* A load that fails leaves the model as it was
LEMMA FailRefs ==
    ASSUME RefInv, NEW m \in Models, task[m].at \in Loading, Fail(m),
           UNCHANGED <<registryVars, pool, ops>>
    PROVE  RefInv' /\ OthersKept(m) /\ PoolsKept /\ Created' = Created
  <1>1. task' = [task EXCEPT ![m] = Idle] /\ UNCHANGED <<home, hash>>
    BY DEF Fail, End, modelVars
  <1>2. /\ task' \in [Models -> Tasks] /\ task'[m] = Idle /\ OthersKept(m)
        /\ m \notin Creating'
    BY <1>1, IdleType DEF RefInv, TypeOK, OthersKept, Creating, Idle
  <1>3. PoolSteady
    BY DEF PoolSteady, RefInv, TypeOK
  <1>4. PoolsKept /\ Created' = Created
    BY <1>3, SamePoolsKept DEF RefInv, PoolSteady
  <1>5. ModelRefs(m)'
    <2>1. (home[m] # NoPool => PoolOf(home[m], hash[m]))'
      BY <1>1 DEF RefInv, PoolRefs, PoolOf, Created
    <2> QED
      BY <1>2, <2>1 DEF ModelRefs, TaskShape, Idle, Loading, Unloading
  <1>6. RefInv'
    BY <1>1, <1>2, <1>3, <1>5, ModelStep DEF RefInv, TypeOK, registryVars, Loading
  <1> QED
    BY <1>2, <1>4, <1>6

\* A model that is loaded into the pool of its operation
LEMMA LoadedPool ==
    ASSUME RefInv, NEW m \in Models, task[m].at \in {"load", "refused"}
    PROVE  /\ task[m].pool \in Pools /\ task[m].pool # NoPool
           /\ PoolOf(task[m].pool, task[m].env) /\ task[m].env \in EnvsOrNone
           /\ task[m].op \in {"load", "reload"} /\ task[m].from = NoPool
           /\ task[m].op = "load" => home[m] = NoPool
  BY TaskType DEF RefInv, PoolRefs, TaskShape, PoolOf, Created, Loading

LEMMA LoadReturnsRefs ==
    ASSUME RefInv, NEW m \in Models, LoadReturns(m)
    PROVE  RefInv' /\ OthersKept(m) /\ PoolsKept /\ Created' = Created
  <1>1. /\ task[m].at = "load" /\ task' = [task EXCEPT ![m] = Idle]
        /\ home' = [home EXCEPT ![m] = task[m].pool]
        /\ hash' = [hash EXCEPT ![m] = task[m].env]
        /\ UNCHANGED <<registryVars, ops>>
    BY DEF LoadReturns, Loaded, Keep, End
  <1>2. /\ task[m].pool \in Pools /\ PoolOf(task[m].pool, task[m].env)
        /\ task[m].env \in EnvsOrNone
    BY <1>1, LoadedPool
  <1>3. PoolSteady
    BY <1>2, LoadedSteady DEF RefInv, LoadReturns
  <1>4. PoolsKept /\ Created' = Created
    BY <1>3, SamePoolsKept DEF RefInv, PoolSteady
  <1>5. /\ task' \in [Models -> Tasks] /\ task'[m] = Idle /\ OthersKept(m)
        /\ m \notin Creating' /\ home' \in [Models -> PoolsOrNone] /\ home'[m] = task[m].pool
        /\ hash' \in [Models -> EnvsOrNone] /\ hash'[m] = task[m].env
    BY <1>1, <1>2, IdleType DEF RefInv, TypeOK, OthersKept, Creating, Idle, PoolsOrNone
  <1>6. ModelRefs(m)'
    <2>1. (home[m] # NoPool => PoolOf(home[m], hash[m]))'
      BY <1>2, <1>4, <1>5 DEF PoolsKept, PoolOf
    <2> QED
      BY <1>5, <2>1 DEF ModelRefs, TaskShape, Idle, Loading, Unloading
  <1>7. RefInv'
    BY <1>1, <1>3, <1>5, <1>6, ModelStep DEF RefInv, TypeOK, registryVars
  <1> QED
    BY <1>4, <1>5, <1>7

\* A loaded model whose operation goes on with an unload
LEMMA LoadGoesOnRefs ==
    ASSUME RefInv, NEW m \in Models, LoadReplaces(m) \/ HookRaises(m)
    PROVE  RefInv' /\ OthersKept(m) /\ PoolsKept /\ Created' = Created
  <1>1. /\ task[m].at = "load" /\ Loaded(m) /\ home' = home
        /\ UNCHANGED <<registryVars, ops>>
    BY DEF LoadReplaces, HookRaises, Loaded, modelVars
  <1>2. /\ task[m].pool \in Pools /\ task[m].pool # NoPool /\ task[m].env \in EnvsOrNone
        /\ task[m].op = "load" => home[m] = NoPool
    BY <1>1, LoadedPool
  <1>3. PoolSteady
    BY <1>1, <1>2, LoadedSteady DEF RefInv
  <1>4. PICK op \in {"unload", "reload"}, env \in EnvsOrNone :
            /\ SendUnload(m, op, env) /\ hash' = [hash EXCEPT ![m] = env]
            /\ home[m] # NoPool => hash[m] = env
            /\ op = "reload" => env # task[m].env
            /\ op = "unload" => env = task[m].env
    <2>1. CASE LoadReplaces(m)
      <3>1. hash[m] \in EnvsOrNone /\ hash' = [hash EXCEPT ![m] = hash[m]]
        BY <2>1 DEF RefInv, TypeOK, LoadReplaces, modelVars
      <3> QED
        BY <2>1, <3>1 DEF LoadReplaces
    <2>2. CASE HookRaises(m)
      BY <1>2, <2>2 DEF HookRaises
    <2> QED
      BY <2>1, <2>2
  <1>5. /\ OthersKept(m) /\ ModelRefs(m)' /\ m \notin Creating'
        /\ task' \in [Models -> Tasks] /\ hash' \in [Models -> EnvsOrNone]
        /\ PoolsKept /\ Created' = Created
    BY <1>1, <1>2, <1>3, <1>4, SendUnloadRefs
  <1>6. RefInv'
    BY <1>1, <1>3, <1>5, ModelStep DEF RefInv, TypeOK, registryVars
  <1> QED
    BY <1>5, <1>6

LEMMA UnloadRaisesRefs ==
    ASSUME RefInv, NEW m \in Models, UnloadRaises(m)
    PROVE  RefInv' /\ OthersKept(m) /\ PoolsKept /\ Created' = Created
  <1>1. /\ task[m].at \in {"unload", "notFound"} /\ UnloadFails(m)
        /\ UNCHANGED <<registryVars, pool, ops>>
    BY DEF UnloadRaises
  <1>2. Over(m)
    BY <1>1, UnloadOver DEF Unloading
  <1>3. PoolSteady
    BY <1>1 DEF PoolSteady, RefInv, TypeOK
  <1>4. PoolsKept /\ Created' = Created
    BY <1>3, SamePoolsKept DEF RefInv, PoolSteady
  <1>5. /\ OthersKept(m) /\ ModelRefs(m)' /\ m \notin Creating'
        /\ task' \in [Models -> Tasks] /\ home' \in [Models -> PoolsOrNone]
        /\ hash' \in [Models -> EnvsOrNone]
    BY <1>2, <1>4, OverRefs
  <1>6. RefInv'
    BY <1>1, <1>3, <1>5, ModelStep DEF RefInv, TypeOK, registryVars
  <1> QED
    BY <1>4, <1>5, <1>6

\* The pool that an unload was sent to
LEMMA UnloadPool ==
    ASSUME RefInv, NEW m \in Models, task[m].at = "unload"
    PROVE  /\ task[m].from \in Pools /\ task[m].from \in Created
           /\ pool[task[m].from].env = hash[m]
           /\ task[m].from # Default => hash[m] \in Envs
  <1>1. task[m].from # NoPool /\ PoolOf(task[m].from, hash[m])
    BY DEF RefInv, PoolRefs, TaskShape
  <1> QED
    BY <1>1, PoolOfCreated DEF RefInv, PoolRefs, PoolOf

LEMMA UnloadReturnsRefs ==
    ASSUME RefInv, NEW m \in Models, UnloadReturns(m)
    PROVE  /\ RefInv' /\ OthersKept(m) /\ PoolsKept /\ Created' = Created
           /\ PoolSteady /\ Over(m) /\ (Left(m) \/ Moved(m))
  <1>1. /\ task[m].at = "unload" /\ UnloadEnds(m) /\ pool' = Removed(task[m].from, m)
        /\ UNCHANGED <<registryVars, ops>>
    BY DEF UnloadReturns
  <1>2. Over(m) /\ (Left(m) \/ Moved(m))
    BY <1>1, UnloadOver DEF Unloading
  <1>3. PICK p \in Pools : p = task[m].from
    BY <1>1, UnloadPool
  <1>4. NewContents(p, pool[p].count - 1, pool[p].has \ {m})
    BY <1>1, <1>3 DEF Removed, NewContents
  <1>5. PoolSteady
    BY <1>4, RemovedSteady DEF RefInv
  <1>6. PoolsKept /\ Created' = Created
    BY <1>5, SamePoolsKept DEF RefInv, PoolSteady
  <1>7. /\ OthersKept(m) /\ ModelRefs(m)' /\ m \notin Creating'
        /\ task' \in [Models -> Tasks] /\ home' \in [Models -> PoolsOrNone]
        /\ hash' \in [Models -> EnvsOrNone]
    BY <1>2, <1>6, OverRefs
  <1>8. RefInv'
    BY <1>1, <1>5, <1>7, ModelStep DEF RefInv, TypeOK, registryVars
  <1> QED
    BY <1>2, <1>5, <1>6, <1>7, <1>8

\* A new pool is one of its environment, and its operation creates no other
LEMMA CreateRefs ==
    ASSUME RefInv, NEW m \in Creating, CreatePool(m),
           folder' \in [Envs -> {"absent", "partial", "complete"}],
           UNCHANGED <<closers, stopped, modelVars, ops>>
    PROVE  RefInv' /\ OthersKept(m) /\ PoolsKept
  <1>2. /\ m \in Models /\ task[m].env \in Envs /\ task[m].pool = NoPool
        /\ task[m].from = NoPool /\ task[m].op \in {"load", "reload"}
        /\ task[m].at \in {"hash", "extract"}
    BY DEF Creating, RefInv, PoolRefs, TaskShape, Loading
  <1>0. PICK e \in Envs : e = task[m].env
    BY <1>2
  <1> DEFINE new == [env |-> e, whole |-> folder'[e] = "complete", count |-> 0,
                         has |-> {}, state |-> "up"]
  <1>1. PICK p \in Pools \ Created :
            /\ pool' = [pool EXCEPT ![p] = new]
            /\ pools' = [pools EXCEPT ![e] = p]
            /\ task' = [task EXCEPT ![m].at = "load", ![m].pool = p]
    BY <1>0, CreatePoolEffect
  <1>3. new \in PoolRecords /\ new.env = e /\ new.state = "up"
    BY DEF PoolRecords, EnvsOrNone
  <1> HIDE DEF new
  <1>4. /\ pool' \in [Pools -> PoolRecords] /\ pool'[p] = new
        /\ \A q \in Pools \ {p} : pool'[q] = pool[q]
    BY <1>1, <1>3 DEF RefInv, TypeOK
  <1>5. p \notin Created /\ p # NoPool /\ Created' = Created \cup {p} /\ PoolsKept
    BY <1>1, <1>3, <1>4, PoolNumbers DEF Created, PoolsKept
  <1>6. /\ task' \in [Models -> Tasks] /\ \A x \in Models \ {m} : task'[x] = task[x]
        /\ task'[m].at = "load" /\ task'[m].pool = p /\ task'[m].env = e
        /\ task'[m].op = task[m].op /\ task'[m].from = NoPool
    BY <1>0, <1>1, <1>2 DEF RefInv, TypeOK, Tasks, Loading, PoolsOrNone
  <1>7. OthersKept(m)
    BY <1>6 DEF OthersKept, modelVars
  <1>8. pools' \in [Envs -> PoolsOrNone] /\ pools'[e] = p
        /\ \A f \in Envs \ {e} : pools'[f] = pools[f]
    BY <1>1, <1>2 DEF RefInv, TypeOK, PoolsOrNone
  <1>9. TypeOK'
    BY <1>4, <1>6, <1>8 DEF RefInv, TypeOK, modelVars
  <1>10. PoolOf(p, e)'
    BY <1>3, <1>4, <1>5 DEF PoolOf
  <1>11. ModelRefs(m)'
    <2>0. ASSUME NEW q, NEW f, PoolOf(q, f) PROVE PoolOf(q, f)'
      BY <1>5, <2>0 DEF PoolsKept, PoolOf
    <2>1. (home[m] # NoPool => PoolOf(home[m], hash[m]))'
      BY <1>2, <2>0 DEF RefInv, PoolRefs, modelVars
    <2>2. (task[m].pool # NoPool => PoolOf(task[m].pool, task[m].env))'
      BY <1>3, <1>4, <1>5, <1>6 DEF PoolOf
    <2>3. task[m].op = "load" => home[m] = NoPool
      BY <1>2 DEF RefInv, PoolRefs, TaskShape
    <2> HIDE DEF PoolOf
    <2>4. TaskShape(m)'
      BY <1>2, <1>5, <1>6, <2>2, <2>3 DEF TaskShape, Loading, Unloading, modelVars
    <2> QED
      BY <2>1, <2>4 DEF ModelRefs
  <1>12. PoolRefs'
    <2>1. \A q \in Created' \ Created : pool'[q].env \in Envs
      BY <1>2, <1>3, <1>4, <1>5
    <2>2. (\A f \in Envs : pools[f] # NoPool => PoolOf(pools[f], f))'
      <3>1. ASSUME NEW f \in Envs, f # e, pools[f] # NoPool
            PROVE  pools[f] \in Created' /\ pool'[pools[f]].env = f
        BY <1>5, <3>1 DEF RefInv, PoolRefs, PoolOf, PoolsKept
      <3> QED
        BY <1>3, <1>4, <1>5, <1>8, <3>1 DEF PoolOf
    <2> QED
      BY <1>2, <1>5, <1>7, <1>9, <1>11, <2>1, <2>2, PoolRefsStep
  <1>13. Closing'
    <2>1. \A q \in Created : pool'[q].state = "up" => pool[q].state = "up"
      BY <1>4, <1>5 DEF Created
    <2> QED
      BY <1>2, <1>5, <1>7, <2>1, ClosingStep
  <1>14. PoolsSuffice'
    <2>1. Creating' = Creating \ {m}
      BY <1>2, <1>6 DEF Creating
    <2>2. IsFiniteSet(Creating) /\ Cardinality(Creating) \in Nat
      BY FS_CardinalityType DEF RefInv, PoolsSuffice
    <2>3. IsFiniteSet(Creating') /\ Cardinality(Creating') = Cardinality(Creating) - 1
      BY <2>1, <2>2, FS_RemoveElement
    <2>4. IsFiniteSet(Created) /\ Cardinality(Created) \in Nat
      <3>1. IsFiniteSet(Pools) /\ Created \subseteq Pools
        BY PoolAssumption, FS_Interval DEF Pools, Created
      <3> QED
        BY <3>1, FS_Subset, FS_CardinalityType
    <2>5. Cardinality(Created') = Cardinality(Created) + 1
      BY <1>5, <2>4, FS_AddElement
    <2>6. ops' = ops /\ ops \in Nat
      BY DEF RefInv, TypeOK
    <2> QED
      BY <2>2, <2>3, <2>4, <2>5, <2>6 DEF RefInv, PoolsSuffice
  <1> QED
    BY <1>5, <1>7, <1>9, <1>12, <1>13, <1>14 DEF RefInv

\* The ways out of the search for a pool
FoundPool(m) ==
    /\ Known(task[m].env) /\ UNCHANGED <<pools, pool, folder, raced>>
    /\ task' = [task EXCEPT ![m] = SendLoad(task[m], pools[task[m].env])]
FoundDir(m) ==
    ~Known(task[m].env) /\ IsDir(task[m].env) /\ UNCHANGED folder /\ CreatePool(m)
StartsExtracting(m) ==
    /\ ~Known(task[m].env) /\ ~IsDir(task[m].env) /\ UNCHANGED <<pools, pool, raced>>
    /\ folder' = [folder EXCEPT ![task[m].env] = "partial"]
    /\ task' = [task EXCEPT ![m].at = "extract"]

LEMMA FindPoolCases ==
    ASSUME NEW m, FindPool(m)
    PROVE  /\ task[m].at = "hash"
           /\ FoundPool(m) \/ FoundDir(m) \/ StartsExtracting(m)
           /\ UNCHANGED <<closers, stopped, modelVars, ops, disturbed, spoiled, kept>>
  BY DEF FindPool, FoundPool, FoundDir, StartsExtracting

LEMMA FindPoolRefs ==
    ASSUME RefInv, NEW m \in Models, FindPool(m)
    PROVE  RefInv' /\ OthersKept(m) /\ PoolsKept
  <1>1. /\ task[m].at = "hash" /\ m \in Creating
        /\ UNCHANGED <<closers, stopped, modelVars, ops>>
    BY FindPoolCases DEF Creating
  <1>2. PICK e \in Envs : e = task[m].env
    BY <1>1 DEF RefInv, PoolRefs, TaskShape
  <1>3. /\ task[m] \in Tasks /\ task[m].op \in {"load", "reload"} /\ task[m].from = NoPool
        /\ task[m].pool = NoPool
        /\ task[m].op = "load" => home[m] = NoPool
    BY <1>1 DEF RefInv, TypeOK, PoolRefs, TaskShape, Loading
  <1>4. CASE FoundDir(m)
    <2>1. CreatePool(m) /\ folder' \in [Envs -> {"absent", "partial", "complete"}]
      BY <1>4 DEF FoundDir, RefInv, TypeOK
    <2> QED
      BY <1>1, <2>1, CreateRefs
  <1>5. ASSUME pools' = pools, pool' = pool,
               folder' \in [Envs -> {"absent", "partial", "complete"}],
               NEW t \in Tasks, task' = [task EXCEPT ![m] = t], t.op = task[m].op, t.env = e,
               t.from = NoPool,
               \/ t.at = "extract" /\ t.pool = NoPool
               \/ t.at \in {"load", "refused"} /\ PoolOf(t.pool, e)
        PROVE  RefInv' /\ OthersKept(m) /\ PoolsKept
    <2>1. PoolSteady
      BY <1>5 DEF PoolSteady, RefInv, TypeOK
    <2>2. PoolsKept
      BY <2>1, SamePoolsKept DEF RefInv, PoolSteady
    <2>3. /\ task' \in [Models -> Tasks] /\ task'[m] = t /\ OthersKept(m)
      BY <1>1, <1>5 DEF RefInv, TypeOK, OthersKept, modelVars
    <2>4. ASSUME NEW q, NEW f, PoolOf(q, f) PROVE PoolOf(q, f)'
      BY <2>2, <2>4 DEF PoolsKept, PoolOf
    <2>5. ModelRefs(m)'
      <3>1. (home[m] # NoPool => PoolOf(home[m], hash[m]))'
        BY <1>1, <2>4 DEF RefInv, PoolRefs, modelVars
      <3>2. (task[m].pool # NoPool => PoolOf(task[m].pool, task[m].env))'
        BY <1>5, <2>3, <2>4
      <3>3. task'[m].at \in {"load", "refused"} => task'[m].pool # NoPool
        BY <1>5, <2>3, PoolOfCreated DEF RefInv
      <3>5. /\ task'[m].at \in {"extract", "load", "refused"} /\ task'[m].from = NoPool
            /\ task'[m].at = "extract" => task'[m].pool = NoPool /\ task'[m].env \in Envs
            /\ task'[m].op \in {"load", "reload"}
            /\ task'[m].op = "load" => home'[m] = NoPool
        BY <1>1, <1>3, <1>5, <2>3 DEF modelVars
      <3> HIDE DEF PoolOf
      <3>4. TaskShape(m)'
        BY <3>2, <3>3, <3>5 DEF TaskShape, Loading, Unloading
      <3> QED
        BY <3>1, <3>4 DEF ModelRefs
    <2>6. RefInv'
      BY <1>1, <1>5, <2>1, <2>3, <2>5, ModelStep DEF RefInv, TypeOK, modelVars
    <2> QED
      BY <2>2, <2>3, <2>6
  <1>6. CASE FoundPool(m)
    <2>1. PICK p \in Pools : p = pools[e] /\ PoolOf(p, e)
      <3>1. pools[e] # NoPool /\ PoolOf(pools[e], e)
        BY <1>2, <1>6 DEF FoundPool, Known, RefInv, PoolRefs
      <3> QED
        BY <3>1 DEF PoolOf, Created
    <2> DEFINE t == SendLoad(task[m], p)
    <2>2. /\ t \in Tasks /\ t.op = task[m].op /\ t.env = e /\ t.from = NoPool
          /\ t.pool = p /\ t.at \in {"load", "refused"}
      BY <1>2, <1>3, SendLoadEffect DEF RefInv
    <2>3. /\ pools' = pools /\ pool' = pool /\ task' = [task EXCEPT ![m] = t]
          /\ folder' \in [Envs -> {"absent", "partial", "complete"}]
      BY <1>2, <1>6, <2>1 DEF FoundPool, RefInv, TypeOK
    <2> HIDE DEF t
    <2> QED
      BY <1>5, <2>1, <2>2, <2>3
  <1>7. CASE StartsExtracting(m)
    <2>3. PICK u \in Tasks : u = task[m]
      BY <1>3
    <2> DEFINE t == [u EXCEPT !.at = "extract"]
    <2>1. /\ t \in Tasks /\ t.op = task[m].op /\ t.env = e /\ t.from = NoPool
          /\ t.pool = NoPool /\ t.at = "extract"
      BY <1>2, <1>3, <2>3 DEF Tasks, Loading
    <2>2. /\ pools' = pools /\ pool' = pool /\ task' = [task EXCEPT ![m] = t]
          /\ folder' \in [Envs -> {"absent", "partial", "complete"}]
      BY <1>2, <1>7, <2>3 DEF StartsExtracting, RefInv, TypeOK
    <2> HIDE DEF t
    <2> QED
      BY <1>5, <2>1, <2>2
  <1> QED
    BY <1>4, <1>6, <1>7, FindPoolCases

LEMMA ExtractedRefs ==
    ASSUME RefInv, NEW m \in Models, Extracted(m)
    PROVE  RefInv' /\ OthersKept(m) /\ PoolsKept
  <1>1. /\ m \in Creating /\ CreatePool(m) /\ UNCHANGED <<closers, stopped, modelVars, ops>>
    BY DEF Extracted, Creating
  <1>2. folder' \in [Envs -> {"absent", "partial", "complete"}]
    BY DEF Extracted, RefInv, TypeOK
  <1> QED
    BY <1>1, <1>2, CreateRefs

\* What happens to the pools when one of them becomes empty
FindsNoPool(m) ==
    /\ pools[hash[m]] = NoPool /\ UnloadFails(m) /\ UNCHANGED <<closers, raced>>
    /\ NewContents(task[m].from, pool[task[m].from].count - 1,
                   pool[task[m].from].has \ {m})
ClosesPool(m, c) ==
    /\ c = pools[hash[m]] /\ c # NoPool /\ UNCHANGED <<modelVars, disturbed, kept>>
    /\ pool' = [Removed(task[m].from, m) EXCEPT ![c] = Stop(@)]
    /\ closers' = closers \cup {[by |-> m, env |-> hash[m], pool |-> c]}
    /\ task' = [task EXCEPT ![m].at = "closing"]
    /\ raced' = raced \cup {e \in {hash[m]} : \E x \in closers : x.env = e}

LEMMA EmptyPoolCases ==
    ASSUME RefInv, NEW m \in Models, EmptyPool(m)
    PROVE  /\ task[m].at = "unload" /\ CanRemove(task[m].from, m)
           /\ task[m].from # Default /\ pool[task[m].from].count = 1
           /\ task[m].from \in Created /\ task[m].from \in Pools /\ hash[m] \in Envs
           /\ pool[task[m].from].env = hash[m]
           /\ FindsNoPool(m) \/ ClosesPool(m, pools[hash[m]])
           /\ UNCHANGED <<pools, folder, stopped, ops, spoiled>>
  <1>1. task[m].at = "unload" /\ task[m].from # Default
    BY DEF EmptyPool, BecomesEmpty
  <1>2. /\ task[m].from \in Created /\ task[m].from \in Pools /\ hash[m] \in Envs
        /\ pool[task[m].from].env = hash[m]
    BY <1>1, UnloadPool
  <1> QED
    BY <1>1, <1>2 DEF EmptyPool, BecomesEmpty, FindsNoPool, ClosesPool, Removed, NewContents

\* A pool that is stopped after a model has left another one, or the same
LEMMA ClosesPoolEffect ==
    ASSUME TypeOK, NEW m \in Models, NEW p \in Pools, p = task[m].from, NEW c \in Pools,
           ClosesPool(m, c)
    PROVE  /\ PoolSteady /\ pool'[c].state # "up"
           /\ \A q \in Pools : q # p => pool'[q].has = pool[q].has
                                        /\ pool'[q].count = pool[q].count
           /\ \A q \in Pools : q # c => pool'[q].state = pool[q].state
           /\ pool'[p].has = pool[p].has \ {m} /\ pool'[p].count = pool[p].count - 1
           /\ \A q \in Pools : pool'[q].whole = pool[q].whole
  <1> DEFINE r == Removed(p, m)
  <1>1. /\ r \in [Pools -> PoolRecords]
        /\ \A q \in Pools : /\ r[q].env = pool[q].env /\ r[q].state = pool[q].state
                            /\ r[q].whole = pool[q].whole
                            /\ q # p => r[q].has = pool[q].has /\ r[q].count = pool[q].count
        /\ r[p].has = pool[p].has \ {m} /\ r[p].count = pool[p].count - 1
    <2>1. pool \in [Pools -> PoolRecords]
      BY DEF TypeOK
    <2>2. pool[p].count - 1 \in Int /\ pool[p].has \ {m} \in SUBSET Models
      BY <2>1 DEF PoolRecords
    <2> QED
      BY <2>1, <2>2 DEF Removed, PoolRecords
  <1> HIDE DEF r
  <1>2. pool' = [r EXCEPT ![c] = Stop(r[c])]
    BY DEF ClosesPool, r
  <1>3. /\ Stop(r[c]) \in PoolRecords /\ Stop(r[c]).env = r[c].env
        /\ Stop(r[c]).has = r[c].has /\ Stop(r[c]).count = r[c].count
        /\ Stop(r[c]).whole = r[c].whole
        /\ Stop(r[c]).state = IF r[c].state = "up" THEN "stopping" ELSE r[c].state
    BY <1>1 DEF Stop, PoolRecords
  <1>4. /\ pool' \in [Pools -> PoolRecords] /\ pool'[c] = Stop(r[c])
        /\ \A q \in Pools \ {c} : pool'[q] = r[q]
    BY <1>1, <1>2, <1>3
  <1>5. PoolSteady
    BY <1>1, <1>3, <1>4 DEF PoolSteady
  <1> QED
    BY <1>1, <1>3, <1>4, <1>5

\* The models that refer to pools by their environments when these change
LEMMA KeptRef ==
    ASSUME PoolsKept, NEW p, NEW env, PoolOf(p, env)
    PROVE  PoolOf(p, env)'
  BY DEF PoolsKept, PoolOf

LEMMA EmptyPoolRefs ==
    ASSUME RefInv, NEW m \in Models, EmptyPool(m)
    PROVE  RefInv' /\ OthersKept(m) /\ PoolSteady
  <1>1. /\ task[m].at = "unload" /\ task[m].from \in Pools /\ hash[m] \in Envs
        /\ FindsNoPool(m) \/ ClosesPool(m, pools[hash[m]])
        /\ UNCHANGED <<pools, folder, stopped, ops>>
    BY EmptyPoolCases
  <1>2. PICK p \in Pools : p = task[m].from
    BY <1>1
  <1>3. PICK e \in Envs : e = hash[m]
    BY <1>1
  <1>4. CASE FindsNoPool(m)
    <2>1. Over(m)
      BY <1>1, <1>4, UnloadOver DEF FindsNoPool, Unloading
    <2>2. PoolSteady
      <3>1. NewContents(p, pool[p].count - 1, pool[p].has \ {m})
        BY <1>2, <1>4 DEF FindsNoPool
      <3> QED
        BY <3>1, RemovedSteady DEF RefInv
    <2>3. PoolsKept /\ Created' = Created
      BY <2>2, SamePoolsKept DEF RefInv, PoolSteady
    <2>4. /\ OthersKept(m) /\ ModelRefs(m)' /\ m \notin Creating'
          /\ task' \in [Models -> Tasks] /\ home' \in [Models -> PoolsOrNone]
          /\ hash' \in [Models -> EnvsOrNone]
      BY <2>1, <2>3, OverRefs
    <2>5. RefInv'
      BY <1>1, <1>4, <2>2, <2>4, ModelStep DEF RefInv, TypeOK, FindsNoPool
    <2> QED
      BY <2>2, <2>4, <2>5
  <1>5. CASE ClosesPool(m, pools[hash[m]])
    <2>1. PICK c \in Pools : c = pools[e] /\ PoolOf(c, e) /\ ClosesPool(m, c)
      <3>1. pools[e] # NoPool
        BY <1>3, <1>5 DEF ClosesPool
      <3>2. PoolOf(pools[e], e)
        BY <3>1 DEF RefInv, PoolRefs
      <3> QED
        BY <1>3, <1>5, <3>2 DEF PoolOf, Created
    <2> DEFINE new == [by |-> m, env |-> e, pool |-> c]
    <2>2. /\ UNCHANGED <<home, hash>> /\ closers' = closers \cup {new}
          /\ task' = [task EXCEPT ![m].at = "closing"]
      BY <1>3, <2>1 DEF ClosesPool, modelVars
    <2>3. PoolSteady /\ pool'[c].state # "up"
      BY <1>2, <2>1, ClosesPoolEffect DEF RefInv
    <2>4. PoolsKept /\ Created' = Created
      BY <2>3, SamePoolsKept DEF RefInv, PoolSteady
    <2>5. /\ task' \in [Models -> Tasks] /\ \A x \in Models \ {m} : task'[x] = task[x]
          /\ task'[m].at = "closing" /\ task'[m].op = task[m].op
          /\ task'[m].pool = task[m].pool /\ task'[m].from = task[m].from
          /\ task'[m].env = task[m].env
      BY <2>2 DEF RefInv, TypeOK, Tasks, Unloading
    <2>6. OthersKept(m)
      BY <2>2, <2>5 DEF OthersKept
    <2>7. TypeOK'
      <3>1. new \in [by : Models \cup {"server"}, env : EnvsOrNone, pool : Pools]
        BY DEF EnvsOrNone
      <3> HIDE DEF new
      <3> QED
        BY <1>1, <2>2, <2>3, <2>5, <3>1 DEF RefInv, TypeOK, PoolSteady
    <2>8. ModelRefs(m)'
      <3>1. (home[m] # NoPool => PoolOf(home[m], hash[m]))'
        BY <2>2, <2>4, KeptRef DEF RefInv, PoolRefs
      <3>2. /\ task[m].pool # NoPool => PoolOf(task[m].pool, task[m].env)
            /\ task[m].from # NoPool => PoolOf(task[m].from, hash[m])
        BY DEF RefInv, PoolRefs, TaskShape
      <3>3. /\ (task[m].pool # NoPool => PoolOf(task[m].pool, task[m].env))'
            /\ (task[m].from # NoPool => PoolOf(task[m].from, hash[m]))'
        BY <2>2, <2>4, <2>5, <3>2, KeptRef
      <3> HIDE DEF PoolOf
      <3>4. TaskShape(m)'
        BY <1>1, <2>2, <2>5, <3>3 DEF RefInv, PoolRefs, TaskShape, Loading, Unloading
      <3> QED
        BY <3>1, <3>4 DEF ModelRefs
    <2>9. PoolRefs'
      <3>1. (\A f \in Envs : pools[f] # NoPool => PoolOf(pools[f], f))'
        BY <1>1, <2>4, KeptRef DEF RefInv, PoolRefs
      <3> QED
        BY <2>4, <2>6, <2>7, <2>8, <3>1, PoolRefsStep
    <2>10. Closing'
      <3>1. \A d \in closers : d.by # m
        BY <1>1 DEF RefInv, Closing
      <3>2. ASSUME NEW d \in closers
            PROVE  /\ PoolOf(d.pool, d.env)' /\ pool'[d.pool].state # "up"
                   /\ d.by \in Models => task'[d.by].at = "closing" /\ hash'[d.by] = d.env
        BY <2>2, <2>3, <2>4, <2>5, <3>1, KeptRef
        DEF RefInv, Closing, PoolSteady, PoolOf, Created
      <3>3. /\ PoolOf(new.pool, new.env)' /\ pool'[new.pool].state # "up" /\ new.by = m
            /\ task'[new.by].at = "closing" /\ hash'[new.by] = new.env
        BY <1>3, <2>1, <2>2, <2>3, <2>4, <2>5, KeptRef
      <3>4. \A d \in closers' : d = new \/ d \in closers
        BY <2>2
      <3> HIDE DEF new
      <3>5. \A d, f \in closers' : d.by = f.by /\ d.by \in Models => d = f
        BY <3>1, <3>3, <3>4 DEF RefInv, Closing
      <3> QED
        BY <3>2, <3>3, <3>4, <3>5 DEF Closing
    <2>11. PoolsSuffice'
      <3>1. m \notin Creating'
        BY <2>5 DEF Creating
      <3> QED
        BY <1>1, <2>4, <2>6, <3>1, SufficeStep
    <2> QED
      BY <2>3, <2>6, <2>7, <2>9, <2>10, <2>11 DEF RefInv
  <1> QED
    BY <1>1, <1>4, <1>5

\* A step of the closing pools or of close(): pools are stopped and no pool is created
LEMMA ServerStep ==
    ASSUME RefInv, OthersKept("server"), PoolSteady, UNCHANGED <<pools, folder, ops>>,
           task' = task, home' = home, hash' = hash, stopped' \in BOOLEAN,
           closers' \subseteq [by : Models \cup {"server"}, env : EnvsOrNone, pool : Pools],
           \A c \in closers' \ closers :
              c.by = "server" /\ PoolOf(c.pool, c.env) /\ pool'[c.pool].state # "up"
    PROVE  RefInv'
  <1>1. PoolsKept /\ Created' = Created
    BY SamePoolsKept DEF RefInv, PoolSteady
  <1>2. TypeOK'
    BY DEF RefInv, TypeOK, PoolSteady
  <1>3. PoolRefs'
    <2>1. (\A f \in Envs : pools[f] # NoPool => PoolOf(pools[f], f))'
      BY <1>1, KeptRef DEF RefInv, PoolRefs
    <2> QED
      BY <1>1, <1>2, <2>1, PoolRefsStep, PoolAssumption
  <1>4. Closing'
    <2>1. ASSUME NEW c \in closers'
          PROVE  /\ PoolOf(c.pool, c.env)' /\ pool'[c.pool].state # "up"
                 /\ c.by \in Models =>
                       c \in closers /\ task'[c.by].at = "closing" /\ hash'[c.by] = c.env
      <3>1. /\ PoolOf(c.pool, c.env) /\ pool'[c.pool].state # "up"
            /\ c.by \in Models =>
                  c \in closers /\ task[c.by].at = "closing" /\ hash[c.by] = c.env
        BY PoolAssumption DEF RefInv, Closing, PoolSteady, PoolOf, Created
      <3> QED
        BY <1>1, <3>1, KeptRef
    <2> QED
      BY <2>1 DEF RefInv, Closing
  <1>5. PoolsSuffice'
    BY <1>1, SufficeStep DEF Creating
  <1> QED
    BY <1>2, <1>3, <1>4, <1>5 DEF RefInv

LEMMA ClearWorkersRefs ==
    ASSUME RefInv, NEW c \in closers, ClearWorkers(c)
    PROVE  RefInv' /\ OthersKept("server") /\ PoolSteady
  <1>1. /\ UNCHANGED <<registryVars, modelVars, task, ops>>
        /\ pool[c.pool].state = "stopping"
        /\ pool' = [pool EXCEPT ![c.pool].state = "stopped"]
    BY DEF ClearWorkers
  <1>2. PICK p \in Pools : p = c.pool
    BY DEF RefInv, TypeOK
  <1>3. PoolSteady
    BY <1>1, <1>2 DEF RefInv, TypeOK, PoolRecords, PoolSteady
  <1>4. OthersKept("server")
    BY <1>1 DEF OthersKept, modelVars
  <1>5. RefInv'
    BY <1>1, <1>3, <1>4, ServerStep DEF RefInv, TypeOK, registryVars, modelVars
  <1> QED
    BY <1>3, <1>4, <1>5

LEMMA CloseRefs ==
    ASSUME RefInv, Close
    PROVE  RefInv' /\ OthersKept("server") /\ PoolSteady
  <1> DEFINE open == {[by |-> "server", env |-> e, pool |-> Registered(e)] :
                        e \in {NoEnv} \cup {e \in Envs : pools[e] # NoPool}}
  <1>1. /\ UNCHANGED <<pools, folder, modelVars, task, ops>> /\ stopped' = TRUE
        /\ closers' = closers \cup open
        /\ pool' = [p \in Pools |-> IF \E c \in open : c.pool = p THEN Stop(pool[p])
                                    ELSE pool[p]]
    BY DEF Close
  <1>2. ASSUME NEW c \in open
        PROVE  /\ c \in [by : Models \cup {"server"}, env : EnvsOrNone, pool : Pools]
               /\ c.by = "server" /\ PoolOf(c.pool, c.env)
    <2>1. PICK e \in EnvsOrNone :
              /\ c = [by |-> "server", env |-> e, pool |-> Registered(e)]
              /\ Registered(e) # NoPool
      BY DEF EnvsOrNone, Registered, Default, NoPool
    <2>2. PoolOf(Registered(e), e) /\ Registered(e) \in Pools
      BY <2>1, RegisteredRef DEF PoolOf, Created
    <2> QED
      BY <2>1, <2>2
  <1> HIDE DEF open
  <1>3. \A p \in Pools :
           /\ Stop(pool[p]) \in PoolRecords /\ Stop(pool[p]).env = pool[p].env
           /\ Stop(pool[p]).whole = pool[p].whole
           /\ Stop(pool[p]).state = IF pool[p].state = "up" THEN "stopping"
                                    ELSE pool[p].state
    BY DEF Stop, PoolRecords, RefInv, TypeOK
  <1>4. PoolSteady
    BY <1>1, <1>3 DEF RefInv, TypeOK, PoolSteady
  <1>5. \A c \in open : pool'[c.pool].state # "up"
    BY <1>1, <1>2, <1>3
  <1>6. OthersKept("server")
    BY <1>1 DEF OthersKept, modelVars
  <1>7. /\ closers' \subseteq [by : Models \cup {"server"}, env : EnvsOrNone, pool : Pools]
        /\ \A c \in closers' \ closers :
              c.by = "server" /\ PoolOf(c.pool, c.env) /\ pool'[c.pool].state # "up"
    BY <1>1, <1>2, <1>5 DEF RefInv, TypeOK
  <1>8. RefInv'
    BY <1>1, <1>4, <1>6, <1>7, ServerStep DEF modelVars
  <1> QED
    BY <1>4, <1>6, <1>8

\* A closed pool takes its entry along, and the unload that waited for it is over
LEMMA CloseEndsRefs ==
    ASSUME RefInv, NEW c \in closers, CloseEnds(c)
    PROVE  /\ RefInv' /\ OthersKept(c.by) /\ pool' = pool
           /\ c.by \in Models => Over(c.by)
           /\ c.by \notin Models => UNCHANGED <<task, home, hash, disturbed, kept>>
  <1>1. /\ closers' = closers \ {c} /\ UNCHANGED <<pool, stopped, ops>>
        /\ c.by \in Models => UnloadFails(c.by) \/ UnloadEnds(c.by)
        /\ c.by \notin Models => UNCHANGED <<task, home, hash, disturbed, kept>>
    BY DEF CloseEnds, modelVars
  <1>2. c.env \in EnvsOrNone
    BY DEF RefInv, TypeOK
  <1>3. PoolSteady
    BY <1>1 DEF PoolSteady, RefInv, TypeOK
  <1>4. PoolsKept /\ Created' = Created
    BY <1>3, SamePoolsKept DEF RefInv, PoolSteady
  <1>5. c.by \in Models => Over(c.by) /\ task[c.by].at = "closing"
    BY <1>1, UnloadOver DEF RefInv, Closing, Unloading
  <1>6. /\ OthersKept(c.by) /\ (c.by \in Models => ModelRefs(c.by)')
        /\ c.by \notin Creating'
        /\ task' \in [Models -> Tasks] /\ home' \in [Models -> PoolsOrNone]
        /\ hash' \in [Models -> EnvsOrNone]
    <2>1. CASE c.by \in Models
      <3>1. PICK m \in Models : m = c.by
        BY <2>1
      <3> QED
        BY <1>4, <1>5, <2>1, <3>1, OverRefs
    <2>2. CASE c.by \notin Models
      BY <1>1, <2>2 DEF OthersKept, Creating, RefInv, TypeOK
    <2> QED
      BY <2>1, <2>2
  <1>7. /\ pools' \in [Envs -> PoolsOrNone]
        /\ folder' \in [Envs -> {"absent", "partial", "complete"}]
        /\ \A e \in Envs : pools'[e] = pools[e] \/ pools'[e] = NoPool
    BY <1>2 DEF CloseEnds, RefInv, TypeOK, PoolsOrNone, EnvsOrNone
  <1>8. TypeOK'
    BY <1>1, <1>3, <1>6, <1>7 DEF RefInv, TypeOK
  <1>9. PoolRefs'
    <2>1. (\A f \in Envs : pools[f] # NoPool => PoolOf(pools[f], f))'
      BY <1>4, <1>7, KeptRef DEF RefInv, PoolRefs
    <2> QED
      BY <1>4, <1>6, <1>8, <2>1, PoolRefsStep
  <1>10. Closing'
    <2>1. ASSUME NEW d \in closers'
          PROVE  /\ PoolOf(d.pool, d.env)' /\ pool'[d.pool].state # "up"
                 /\ d.by \in Models => task'[d.by].at = "closing" /\ hash'[d.by] = d.env
      <3>1. /\ PoolOf(d.pool, d.env) /\ pool[d.pool].state # "up"
            /\ d.by \in Models => /\ task[d.by].at = "closing" /\ hash[d.by] = d.env
                                  /\ d.by # c.by
        BY <1>1 DEF RefInv, Closing
      <3> QED
        BY <1>1, <1>4, <1>6, <3>1, KeptRef DEF OthersKept
    <2> QED
      BY <1>1, <2>1 DEF RefInv, Closing
  <1>11. PoolsSuffice'
    BY <1>1, <1>4, <1>6, SufficeStep
  <1> QED
    BY <1>1, <1>5, <1>6, <1>8, <1>9, <1>10, <1>11 DEF RefInv

LEMMA InitRefs == Init => RefInv
  <1> SUFFICES ASSUME Init PROVE RefInv
    OBVIOUS
  <1>1. TypeOK
    <2>1. /\ 0 \in 0..MaxOps /\ NoPool \in PoolsOrNone /\ NoEnv \in EnvsOrNone
      BY PoolNumbers DEF PoolsOrNone, EnvsOrNone
    <2>2. \A p \in Pools : [env |-> NoEnv, whole |-> TRUE, count |-> 0, has |-> {},
                            state |-> IF p = Default THEN "up" ELSE "none"] \in PoolRecords
      BY <2>1 DEF PoolRecords
    <2> QED
      BY <2>1, <2>2, IdleType DEF Init, TypeOK
  <1>2. Created = {Default}
    BY PoolNumbers DEF Init, Created
  <1>3. \A m \in Models : task[m] = Idle /\ home[m] = NoPool
    BY DEF Init
  <1>4. PoolRefs
    <2>1. PoolOf(Default, NoEnv)
      BY <1>2, PoolNumbers DEF Init, PoolOf
    <2>2. \A m \in Models : TaskShape(m)
      BY <1>3 DEF TaskShape, Idle, Loading, Unloading
    <2> QED
      BY <1>2, <1>3, <2>1, <2>2 DEF Init, PoolRefs
  <1>5. Creating = {}
    BY <1>3 DEF Creating, Idle
  <1>6. IsFiniteSet({}) /\ Cardinality({}) = 0 /\ Cardinality({Default}) = 1
    <2>1. IsFiniteSet({}) /\ Cardinality({}) = 0
      BY FS_EmptySet
    <2>2. Cardinality({} \cup {Default}) = 1
      BY <2>1, FS_AddElement
    <2> QED
      BY <2>1, <2>2
  <1>7. PoolsSuffice
    BY <1>2, <1>5, <1>6 DEF Init, PoolsSuffice
  <1> QED
    BY <1>1, <1>4, <1>7 DEF Init, RefInv, Closing

LEMMA NextRefs == RefInv /\ [Next]_vars => RefInv'
  <1> SUFFICES ASSUME RefInv, [Next]_vars PROVE RefInv'
    OBVIOUS
  <1>1. ASSUME NEW m \in Models, Operation(m) PROVE RefInv'
    <2>1. CASE \E env \in Envs \cup {NoEnv} : Load(m, env)
      BY <2>1, LoadRefs DEF EnvsOrNone
    <2>2. CASE ExtractRaises(m) \/ LoadRaises(m)
      BY <2>2, FailRefs DEF ExtractRaises, LoadRaises, Loading
    <2> QED
      BY <1>1, <2>1, <2>2, UnloadRefs, FindPoolRefs, ExtractedRefs, LoadReturnsRefs,
         LoadGoesOnRefs, UnloadRaisesRefs, UnloadReturnsRefs, EmptyPoolRefs DEF Operation
  <1>2. ASSUME NEW c \in closers, ClearWorkers(c) \/ CloseEnds(c) PROVE RefInv'
    BY <1>2, ClearWorkersRefs, CloseEndsRefs
  <1>3. CASE Close
    BY <1>3, CloseRefs
  <1>4. CASE UNCHANGED vars
    BY <1>4 DEF vars, registryVars, modelVars, RefInv, TypeOK, PoolRefs, TaskShape, PoolOf,
                Created, Closing, PoolsSuffice, Creating
  <1> QED
    BY <1>1, <1>2, <1>3, <1>4 DEF Next

----------------------------------------------------------------------------
(* Workers start with a whole environment.  A folder that is not whole yet    *)
(* has somebody extracting into it, who is the only one to do so and finds no *)
(* pool there, until two operations meet in one environment.                  *)

Extracting(m, e) == task[m].at = "extract" /\ task[m].env = e

WholeInv ==
    /\ \A m \in Models, e \in Envs \ raced :
          Extracting(m, e) => pools[e] = NoPool /\ folder[e] = "partial"
    /\ \A e \in Envs \ (raced \cup spoiled) :
          folder[e] = "partial" => \E m \in Models : Extracting(m, e)
    /\ WholeEnvironment

\* Steps that leave the folders and the extractions alone
LEMMA SameWhole ==
    ASSUME RefInv, WholeInv, PoolSteady, NEW m, OthersKept(m),
           m \in Models => task[m].at # "extract" /\ task'[m].at # "extract",
           UNCHANGED <<pools, folder>>, raced \subseteq raced', spoiled \subseteq spoiled'
    PROVE  WholeInv'
  <1>1. \A x \in Models, e \in Envs : Extracting(x, e)' <=> Extracting(x, e)
    BY DEF OthersKept, Extracting
  <1>2. Created' = Created /\ \A p \in Created : pool'[p].env = pool[p].env
                                                 /\ pool'[p].whole = pool[p].whole
    BY SamePoolsKept DEF RefInv, PoolSteady, Created
  <1>3. WholeEnvironment'
    BY <1>2 DEF WholeInv, WholeEnvironment
  <1> HIDE DEF Extracting
  <1> QED
    BY <1>1, <1>3 DEF WholeInv

\* A pool that is created in a folder that is whole, or known not to be
LEMMA CreateWhole ==
    ASSUME RefInv, WholeInv, RefInv', NEW m \in Creating, CreatePool(m), spoiled' = spoiled,
           NEW e \in Envs, e = task[m].env,
           \A f \in Envs \ {e} : folder'[f] = folder[f],
           e \notin raced' \cup spoiled => folder'[e] = "complete"
    PROVE  WholeInv'
  <1> DEFINE new == [env |-> e, whole |-> folder'[e] = "complete", count |-> 0,
                     has |-> {}, state |-> "up"]
  <1>1. PICK p \in Pools \ Created :
            /\ pool' = [pool EXCEPT ![p] = new]
            /\ pools' = [pools EXCEPT ![e] = p]
            /\ task' = [task EXCEPT ![m].at = "load", ![m].pool = p]
            /\ raced' = raced \cup {f \in {e} : \E x \in Models \ {m} :
                                       task[x].at = "extract" /\ task[x].env = f}
    BY CreatePoolEffect
  <1>2. /\ m \in Models /\ task'[m].at = "load"
        /\ \A x \in Models \ {m} : task'[x] = task[x]
    BY <1>1 DEF RefInv, TypeOK, Tasks, Creating
  <1>3. \A x \in Models : Extracting(x, e) /\ x # m => e \in raced'
    BY <1>1 DEF Extracting
  <1>4. \A x \in Models, f \in Envs : Extracting(x, f)' <=> Extracting(x, f) /\ x # m
    BY <1>2 DEF Extracting
  <1>5. \A f \in Envs : Extracting(m, f) => f = e
    BY DEF Extracting
  <1>6. raced \subseteq raced' /\ \A f \in Envs \ {e} : pools'[f] = pools[f]
    BY <1>1 DEF RefInv, TypeOK
  <1>7. WholeEnvironment'
    <2>1. pool'[p] = new /\ \A q \in Created : pool'[q] = pool[q]
      BY <1>1 DEF RefInv, TypeOK, Created
    <2>2. Created' \subseteq Created \cup {p}
      BY <1>1 DEF Created, RefInv, TypeOK
    <2>3. new.env = e /\ (e \notin raced' \cup spoiled' => new.whole)
      OBVIOUS
    <2> HIDE DEF new
    <2> QED
      BY <1>6, <2>1, <2>2, <2>3 DEF WholeInv, WholeEnvironment
  <1> HIDE DEF Extracting
  <1>8. \A x \in Models, f \in Envs \ raced' :
           Extracting(x, f)' => pools'[f] = NoPool /\ folder'[f] = "partial"
    BY <1>3, <1>4, <1>6 DEF WholeInv
  <1>9. \A f \in Envs \ (raced' \cup spoiled') :
           folder'[f] = "partial" => (\E x \in Models : Extracting(x, f)')
    BY <1>4, <1>5, <1>6 DEF WholeInv
  <1> QED
    BY <1>7, <1>8, <1>9 DEF WholeInv

LEMMA FindPoolWhole ==
    ASSUME RefInv, WholeInv, RefInv', NEW m \in Models, FindPool(m)
    PROVE  WholeInv'
  <1>1. /\ task[m].at = "hash" /\ m \in Creating /\ spoiled' = spoiled /\ OthersKept(m)
    BY FindPoolCases, FindPoolRefs DEF Creating
  <1>2. PICK e \in Envs : e = task[m].env
    BY <1>1 DEF RefInv, PoolRefs, TaskShape
  <1>3. CASE FoundPool(m)
    <2>1. PoolSteady /\ UNCHANGED <<pools, folder, raced>>
      BY <1>3 DEF FoundPool, PoolSteady, RefInv, TypeOK
    <2>2. pools[e] \in Pools /\ task[m] \in Tasks
      BY <1>2, <1>3, PoolOfCreated DEF FoundPool, Known, RefInv, PoolRefs, TypeOK
    <2>3. task'[m] = SendLoad(task[m], pools[e])
      BY <1>2, <1>3 DEF FoundPool, RefInv, TypeOK
    <2>4. task'[m].at # "extract"
      BY <2>2, <2>3, SendLoadEffect DEF RefInv
    <2> QED
      BY <1>1, <2>1, <2>4, SameWhole
  <1>4. CASE FoundDir(m)
    <2>1. CreatePool(m) /\ folder' = folder /\ folder[e] \in {"partial", "complete"}
      BY <1>2, <1>4 DEF FoundDir, IsDir, RefInv, TypeOK
    <2>2. e \notin raced' \cup spoiled => folder'[e] = "complete"
      <3>1. SUFFICES ASSUME e \notin raced' \cup spoiled, folder[e] = "partial" PROVE FALSE
        BY <2>1
      <3>2. \A x \in Models \ {m} : task[x].at = "extract" /\ task[x].env = e => e \in raced'
        BY <1>2, <2>1 DEF CreatePool
      <3>3. raced \subseteq raced'
        BY <2>1 DEF CreatePool
      <3>4. \E x \in Models : Extracting(x, e)
        BY <3>1, <3>3 DEF WholeInv
      <3> QED
        BY <1>1, <3>1, <3>2, <3>4 DEF Extracting
    <2> QED
      BY <1>1, <1>2, <2>1, <2>2, CreateWhole
  <1>5. CASE StartsExtracting(m)
    <2>1. /\ pools[e] = NoPool /\ folder' = [folder EXCEPT ![e] = "partial"]
          /\ UNCHANGED <<pools, pool, raced>>
          /\ task'[m].at = "extract" /\ task'[m].env = e
          /\ \A x \in Models \ {m} : task'[x] = task[x]
      BY <1>2, <1>5 DEF StartsExtracting, Known, RefInv, TypeOK, Tasks
    <2>2. folder'[e] = "partial" /\ \A f \in Envs \ {e} : folder'[f] = folder[f]
      BY <2>1 DEF RefInv, TypeOK
    <2>3. /\ \A x \in Models, f \in Envs : x # m => (Extracting(x, f)' <=> Extracting(x, f))
          /\ \A f \in Envs : Extracting(m, f)' <=> f = e
          /\ \A f \in Envs : ~Extracting(m, f)
      BY <1>1, <2>1 DEF Extracting
    <2>4. WholeEnvironment'
      BY <1>1, <2>1 DEF WholeInv, WholeEnvironment, Created
    <2>5. \A x \in Models, f \in Envs \ raced :
              Extracting(x, f)' => pools[f] = NoPool /\ folder'[f] = "partial"
      <3> HIDE DEF Extracting
      <3> QED
        BY <2>1, <2>2, <2>3 DEF WholeInv
    <2>6. \A f \in Envs \ (raced \cup spoiled) :
              folder'[f] = "partial" => (\E x \in Models : Extracting(x, f)')
      <3> HIDE DEF Extracting
      <3> QED
        BY <2>2, <2>3 DEF WholeInv
    <2> QED
      BY <1>1, <2>1, <2>4, <2>5, <2>6 DEF WholeInv
  <1> QED
    BY <1>3, <1>4, <1>5, FindPoolCases

LEMMA ExtractedWhole ==
    ASSUME RefInv, WholeInv, RefInv', NEW m \in Models, Extracted(m)
    PROVE  WholeInv'
  <1>1. /\ task[m].at = "extract" /\ m \in Creating /\ CreatePool(m) /\ spoiled' = spoiled
    BY DEF Extracted, Creating
  <1>2. PICK e \in Envs : e = task[m].env
    BY <1>1 DEF RefInv, PoolRefs, TaskShape
  <1>3. /\ \A f \in Envs \ {e} : folder'[f] = folder[f]
        /\ folder'[e] = IF folder[e] = "absent" THEN "partial" ELSE "complete"
    BY <1>2 DEF Extracted, RefInv, TypeOK
  <1>4. raced \subseteq raced'
    BY <1>1 DEF CreatePool
  <1>5. folder[e] = "absent" => e \in raced
    BY <1>1, <1>2 DEF WholeInv, Extracting
  <1> QED
    BY <1>1, <1>2, <1>3, <1>4, <1>5, CreateWhole

\* The steps of a model that neither create a pool nor end an extraction
Ordinary(m) ==
    \/ \E env \in EnvsOrNone : Load(m, env)
    \/ Unload(m) \/ LoadRaises(m) \/ LoadReturns(m) \/ LoadReplaces(m) \/ HookRaises(m)
    \/ UnloadRaises(m) \/ UnloadReturns(m) \/ EmptyPool(m)

LEMMA OrdinarySteady ==
    ASSUME RefInv, NEW m \in Models, Ordinary(m)
    PROVE  /\ PoolSteady /\ OthersKept(m) /\ UNCHANGED <<pools, folder, spoiled, stopped>>
           /\ task[m].at # "extract" /\ raced \subseteq raced'
  <1>1. CASE \E env \in EnvsOrNone : Load(m, env)
    BY <1>1, LoadRefs DEF Load, registryVars, modelVars, PoolSteady, RefInv, TypeOK
  <1>2. CASE Unload(m)
    BY <1>2, UnloadRefs DEF Unload, registryVars, modelVars, PoolSteady, RefInv, TypeOK
  <1>3. CASE LoadRaises(m)
    BY <1>3, FailRefs DEF LoadRaises, Loading, registryVars, PoolSteady, RefInv, TypeOK
  <1>4. CASE LoadReturns(m)
    <2>1. task[m].at = "load" /\ Loaded(m) /\ task[m].pool \in Pools
      BY <1>4, LoadedPool DEF LoadReturns, Loaded
    <2> QED
      BY <1>4, <2>1, LoadReturnsRefs, LoadedSteady DEF LoadReturns, registryVars, RefInv
  <1>5. CASE LoadReplaces(m) \/ HookRaises(m)
    <2>1. task[m].at = "load" /\ Loaded(m) /\ task[m].pool \in Pools
      BY <1>5, LoadedPool DEF LoadReplaces, HookRaises, Loaded
    <2> QED
      BY <1>5, <2>1, LoadGoesOnRefs, LoadedSteady
      DEF LoadReplaces, HookRaises, registryVars, RefInv
  <1>6. CASE UnloadRaises(m)
    BY <1>6, UnloadRaisesRefs DEF UnloadRaises, registryVars, PoolSteady, RefInv, TypeOK
  <1>7. CASE UnloadReturns(m)
    BY <1>7, UnloadReturnsRefs DEF UnloadReturns, registryVars
  <1>8. CASE EmptyPool(m)
    BY <1>8, EmptyPoolRefs, EmptyPoolCases DEF FindsNoPool, ClosesPool
  <1> QED
    BY <1>1, <1>2, <1>3, <1>4, <1>5, <1>6, <1>7, <1>8 DEF Ordinary

\* They extract nothing either: an operation extracts once it has its hash
LEMMA OrdinaryExtractsNothing ==
    ASSUME RefInv, NEW m \in Models, Ordinary(m)
    PROVE  task'[m].at # "extract"
  <1>0. task \in [Models -> Tasks]
    BY DEF RefInv, TypeOK
  <1>1. ASSUME NEW env \in EnvsOrNone, Load(m, env) PROVE task'[m].at # "extract"
    <2> DEFINE t == [Idle EXCEPT !.env = env, !.at = "hash",
                                 !.op = IF home[m] = NoPool THEN "load" ELSE "reload"]
    <2>1. t \in Tasks /\ t.at = "hash"
      BY DEF Idle, Tasks, PoolsOrNone, Loading
    <2>2. task'[m] = IF env = NoEnv THEN SendLoad(t, Default) ELSE t
      BY <1>0, <1>1 DEF Load
    <2> HIDE DEF t
    <2> QED
      BY <2>1, <2>2, SendLoadEffect, PoolNumbers DEF RefInv
  <1>2. CASE Unload(m) \/ LoadReplaces(m) \/ HookRaises(m)
    <2>1. PICK op \in {"unload", "reload"}, env \in EnvsOrNone : SendUnload(m, op, env)
      BY <1>2, TaskType DEF RefInv, Unload, LoadReplaces, HookRaises
    <2> QED
      BY <2>1, SendUnloadEffect DEF RefInv
  <1>3. CASE LoadRaises(m) \/ LoadReturns(m)
    BY <1>0, <1>3 DEF LoadRaises, LoadReturns, Fail, Keep, End, Idle
  <1>4. ASSUME Over(m) PROVE task'[m].at # "extract"
    BY <1>0, <1>4 DEF Over, Idle
  <1>5. CASE UnloadRaises(m) \/ UnloadReturns(m)
    BY <1>4, <1>5, UnloadOver, UnloadReturnsRefs DEF UnloadRaises, Unloading
  <1>6. CASE EmptyPool(m)
    <2>1. CASE FindsNoPool(m)
      BY <1>4, <1>6, <2>1, UnloadOver, EmptyPoolCases DEF FindsNoPool, Unloading
    <2>2. CASE ClosesPool(m, pools[hash[m]])
      BY <1>0, <2>2 DEF ClosesPool, Tasks
    <2> QED
      BY <1>6, <2>1, <2>2, EmptyPoolCases
  <1> QED
    BY <1>1, <1>2, <1>3, <1>5, <1>6 DEF Ordinary

LEMMA ExtractRaisesWhole ==
    ASSUME RefInv, WholeInv, NEW m \in Models, ExtractRaises(m)
    PROVE  WholeInv'
  <1>1. /\ task[m].at = "extract" /\ UNCHANGED <<pools, folder, pool, raced>>
        /\ spoiled' = spoiled \cup {task[m].env} /\ task'[m] = Idle
        /\ \A x \in Models \ {m} : task'[x] = task[x]
    BY DEF ExtractRaises, Fail, End, registryVars, RefInv, TypeOK
  <1>2. \A x \in Models, f \in Envs : Extracting(x, f)' <=> Extracting(x, f) /\ x # m
    BY <1>1 DEF Extracting, Idle
  <1>3. \A f \in Envs \ spoiled' : ~Extracting(m, f)
    BY <1>1 DEF Extracting
  <1>4. WholeEnvironment'
    BY <1>1 DEF WholeInv, WholeEnvironment, Created
  <1> HIDE DEF Extracting
  <1>5. \A x \in Models, f \in Envs \ raced' :
           Extracting(x, f)' => pools'[f] = NoPool /\ folder'[f] = "partial"
    BY <1>1, <1>2 DEF WholeInv
  <1>6. \A f \in Envs \ (raced' \cup spoiled') :
           folder'[f] = "partial" => (\E x \in Models : Extracting(x, f)')
    BY <1>1, <1>2, <1>3 DEF WholeInv
  <1> QED
    BY <1>4, <1>5, <1>6 DEF WholeInv

\* A folder goes with the entry of its pool, when nobody is extracting into it
LEMMA CloseEndsWhole ==
    ASSUME RefInv, WholeInv, NEW c \in closers, CloseEnds(c)
    PROVE  WholeInv'
  <1>1. /\ UNCHANGED <<pool, raced, spoiled>> /\ OthersKept(c.by)
    BY CloseEndsRefs DEF CloseEnds
  <1>2. c.by \in Models => task[c.by].at # "extract" /\ task'[c.by].at # "extract"
    <2>1. c.by \in Models => task[c.by].at = "closing" /\ Over(c.by)
      BY CloseEndsRefs DEF RefInv, Closing
    <2> QED
      BY <2>1 DEF Over, Idle, RefInv, TypeOK
  <1>3. CASE c.env = NoEnv
    <2>1. PoolSteady /\ UNCHANGED <<pools, folder>>
      BY <1>1, <1>3 DEF CloseEnds, PoolSteady, RefInv, TypeOK
    <2> QED
      BY <1>1, <1>2, <2>1, SameWhole
  <1>4. CASE c.env # NoEnv
    <2>1. PICK e \in Envs : e = c.env
      BY <1>4 DEF RefInv, TypeOK, EnvsOrNone
    <2>2. /\ pools'[e] = NoPool /\ \A f \in Envs \ {e} : pools'[f] = pools[f]
          /\ \A f \in Envs \ {e} : folder'[f] = folder[f]
          /\ folder'[e] = IF pools[e] = NoPool THEN folder[e] ELSE "absent"
      BY <1>4, <2>1 DEF CloseEnds, RefInv, TypeOK
    <2>3. \A x \in Models, f \in Envs : Extracting(x, f)' <=> Extracting(x, f)
      BY <1>1, <1>2 DEF OthersKept, Extracting
    <2>4. WholeEnvironment'
      BY <1>1 DEF WholeInv, WholeEnvironment, Created
    <2> HIDE DEF Extracting
    <2>5. \A x \in Models, f \in Envs \ raced' :
             Extracting(x, f)' => pools'[f] = NoPool /\ folder'[f] = "partial"
      BY <1>1, <2>2, <2>3 DEF WholeInv
    <2>6. \A f \in Envs \ (raced' \cup spoiled') :
             folder'[f] = "partial" => (\E x \in Models : Extracting(x, f)')
      BY <1>1, <2>2, <2>3 DEF WholeInv
    <2> QED
      BY <2>4, <2>5, <2>6 DEF WholeInv
  <1> QED
    BY <1>3, <1>4

LEMMA InitWhole == Init => WholeInv
  <1> SUFFICES ASSUME Init PROVE WholeInv
    OBVIOUS
  <1>1. \A m \in Models, e \in Envs : ~Extracting(m, e)
    BY DEF Init, Extracting, Idle
  <1>2. \A e \in Envs : folder[e] = "absent"
    BY DEF Init
  <1>3. WholeEnvironment
    <2>1. \A p \in Pools : pool[p].whole
      BY DEF Init
    <2> QED
      BY <2>1 DEF WholeEnvironment, Created
  <1> QED
    BY <1>1, <1>2, <1>3 DEF WholeInv

LEMMA NextWhole == RefInv /\ WholeInv /\ [Next]_vars => WholeInv'
  <1> SUFFICES ASSUME RefInv, WholeInv, [Next]_vars PROVE WholeInv'
    OBVIOUS
  <1>0. RefInv'
    BY NextRefs
  <1>1. ASSUME NEW m \in Models, Operation(m) PROVE WholeInv'
    <2>1. CASE Ordinary(m)
      BY <2>1, OrdinarySteady, OrdinaryExtractsNothing, SameWhole
    <2> QED
      BY <1>0, <1>1, <2>1, FindPoolWhole, ExtractedWhole, ExtractRaisesWhole
      DEF Operation, Ordinary, EnvsOrNone
  <1>2. ASSUME NEW c \in closers, ClearWorkers(c) PROVE WholeInv'
    BY <1>2, ClearWorkersRefs, SameWhole, PoolAssumption
    DEF ClearWorkers, registryVars, histories
  <1>3. CASE Close
    BY <1>3, CloseRefs, SameWhole, PoolAssumption DEF Close
  <1>4. CASE UNCHANGED vars
    BY <1>4 DEF vars, registryVars, histories, WholeInv, WholeEnvironment, Extracting, Created
  <1> QED
    BY <1>1, <1>2, <1>3, <1>4, CloseEndsWhole DEF Next

----------------------------------------------------------------------------
(* A model that was not loaded next to an unload is served.  A pool that goes *)
(* away under a registered name is being closed by somebody, which whoever    *)
(* loads into its environment has met; and an unload that empties a pool      *)
(* looks at the pool that the models of its environment are in.               *)

HeldUp(m, p) == pool[p].state = "up" /\ m \in pool[p].has

ClosedBySomebody ==
    \A e \in Envs : pools[e] # NoPool /\ pool[pools[e]].state # "up" =>
        \E c \in closers : c.pool = pools[e] /\ c.env = e

LoadDisturbed ==
    \A e \in EnvsOrNone : \A m \in LoadingInto(e) :
        /\ \A n \in Models \ {m} : task[n].at \in {"unload", "closing"} /\ hash[n] = e =>
               m \in disturbed
        /\ \A c \in closers : c.env = e => m \in disturbed

UnloadSees ==
    \A n \in Models : \A m \in Models \ {n} :
        /\ task[n].at = "unload" /\ m \notin disturbed /\ Settled(m)
        /\ hash[m] = hash[n] /\ hash[m] \in Envs /\ home[m] = pools[hash[m]]
        => task[n].from = home[m]

ServedModel(m) ==
    m \notin disturbed =>
        /\ Settled(m) => HeldUp(m, home[m])
        /\ task[m].at = "load" => pool[task[m].pool].state = "up"
        /\ task[m].at \in Unloading /\ task[m].op = "reload" => HeldUp(m, task[m].pool)

Counts(p) ==
    pool[p].state = "up" =>
        IsFiniteSet(pool[p].has) /\ pool[p].count >= Cardinality(pool[p].has)

ServedInv ==
    /\ pool[Default].state = "up"
    /\ ClosedBySomebody /\ LoadDisturbed /\ UnloadSees
    /\ \A m \in Models : ServedModel(m)
    /\ \A p \in Pools : Counts(p)

\* No pool is registered, closed, or entered in the registry
Still ==
    /\ UNCHANGED <<pools, closers>>
    /\ \A q \in Pools : pool'[q].state = "up" <=> pool[q].state = "up"

LEMMA StillClosed ==
    ASSUME RefInv, pool[Default].state = "up", ClosedBySomebody, Still
    PROVE  pool'[Default].state = "up" /\ ClosedBySomebody'
  <1>1. \A e \in Envs : pools[e] # NoPool => pools[e] \in Pools
    BY DEF RefInv, TypeOK, PoolsOrNone
  <1>2. pools' = pools /\ closers' = closers
    BY DEF Still
  <1>3. \A e \in Envs : pools[e] # NoPool /\ pool'[pools[e]].state # "up" =>
                            pool[pools[e]].state # "up"
    BY <1>1 DEF Still
  <1>4. ClosedBySomebody'
    BY <1>2, <1>3 DEF ClosedBySomebody
  <1> QED
    BY <1>4, PoolNumbers DEF Still

\* Nobody but m is disturbed no more
StayDisturbed(m) == \A x \in Models \ {m} : x \in disturbed => x \in disturbed'

\* What m loads or unloads next to the others
LEMMA LoadDisturbedStep ==
    ASSUME RefInv, LoadDisturbed, NEW m, OthersKept(m), StayDisturbed(m),
           \A d \in closers' \ closers :
              m \in Models /\ d.env = hash[m] /\ task[m].at = "unload",
           m \in Models => /\ m \in disturbed => m \in disturbed'
                           /\ task'[m].op \in {"load", "reload"} =>
                                 task[m].op \in {"load", "reload"} /\ task'[m].env = task[m].env
                           /\ task'[m].at \in {"unload", "closing"} =>
                                 \/ LoadingInto(hash'[m]) \ {m} \subseteq disturbed'
                                 \/ task[m].at = "unload" /\ hash'[m] = hash[m]
    PROVE  LoadDisturbed'
  <1> SUFFICES ASSUME NEW e \in EnvsOrNone, NEW x \in Models, (x \in LoadingInto(e))'
               PROVE  /\ \A n \in Models \ {x} :
                            task'[n].at \in {"unload", "closing"} /\ hash'[n] = e =>
                                x \in disturbed'
                      /\ \A c \in closers' : c.env = e => x \in disturbed'
    BY DEF LoadDisturbed, LoadingInto
  <1>1. x \in LoadingInto(e)
    BY DEF LoadingInto, OthersKept
  <1>2. x \in disturbed => x \in disturbed'
    BY DEF StayDisturbed
  <1>3. ASSUME NEW n \in Models \ {x}, task'[n].at \in {"unload", "closing"}, hash'[n] = e
        PROVE  x \in disturbed'
    <2>1. CASE task[n].at \in {"unload", "closing"} /\ hash[n] = e
      BY <1>1, <1>2, <2>1 DEF LoadDisturbed
    <2>2. CASE n = m
      BY <1>1, <1>2, <1>3, <2>1, <2>2
    <2>3. CASE n # m
      BY <1>3, <2>1, <2>3 DEF OthersKept
    <2> QED
      BY <2>2, <2>3
  <1>4. ASSUME NEW c \in closers', c.env = e
        PROVE  x \in disturbed'
    <2>1. CASE c \in closers
      BY <1>1, <1>2, <1>4, <2>1 DEF LoadDisturbed
    <2>2. CASE c \notin closers
      <3>1. m \in Models /\ e = hash[m] /\ task[m].at = "unload"
        BY <1>4, <2>2
      <3>2. x # m
        BY <1>1, <3>1 DEF LoadingInto, RefInv, PoolRefs, TaskShape, Unloading
      <3> QED
        BY <1>1, <1>2, <3>1, <3>2 DEF LoadDisturbed
    <2> QED
      BY <2>1, <2>2
  <1> QED
    BY <1>3, <1>4

\* A model that is settled by this step was not loaded next to an unload
LEMMA UnloadSeesStep ==
    ASSUME RefInv, UnloadSees, NEW m, OthersKept(m), StayDisturbed(m),
           \A e \in Envs : pools'[e] = pools[e] \/ pools'[e] \notin Created,
           \A x \in Models : home'[x] = NoPool \/ home'[x] \in Created,
           m \in Models /\ m \notin disturbed' /\ Settled(m)' =>
              \/ /\ m \notin disturbed /\ Settled(m)
                 /\ home'[m] = home[m] /\ hash'[m] = hash[m]
              \/ \A n \in Models \ {m} : task[n].at = "unload" => hash[n] # hash'[m],
           m \in Models /\ task'[m].at = "unload" /\ hash'[m] \in Envs =>
              task'[m].from = pools'[hash'[m]]
    PROVE  UnloadSees'
  <1> SUFFICES ASSUME NEW n \in Models, NEW x \in Models \ {n},
                      task'[n].at = "unload", x \notin disturbed', Settled(x)',
                      hash'[x] = hash'[n], hash'[x] \in Envs,
                      home'[x] = pools'[hash'[x]]
               PROVE  task'[n].from = home'[x]
    BY DEF UnloadSees
  <1>1. home'[x] # NoPool /\ pools[hash'[x]] = home'[x]
    BY DEF Settled
  <1>2. CASE n = m
    BY <1>2
  <1>3. CASE n # m
    <2>1. task'[n] = task[n] /\ hash'[n] = hash[n]
      BY <1>3 DEF OthersKept
    <2>2. CASE x # m
      <3>1. /\ x \notin disturbed /\ Settled(x) /\ home'[x] = home[x] /\ hash'[x] = hash[x]
        BY <2>2 DEF OthersKept, StayDisturbed, Settled
      <3> QED
        BY <1>1, <2>1, <3>1 DEF UnloadSees
    <2>3. CASE x = m
      BY <1>1, <1>3, <2>1, <2>3 DEF UnloadSees
    <2> QED
      BY <2>2, <2>3
  <1> QED
    BY <1>2, <1>3

\* The models that do not move are served as before
LEMMA OthersServed ==
    ASSUME RefInv, NEW m, OthersKept(m), StayDisturbed(m),
           \A x \in Models : ServedModel(x),
           \A q \in Pools : pool[q].state = "up" => pool'[q].state = "up",
           \A q \in Pools, x \in Models \ {m} : HeldUp(x, q) => x \in pool'[q].has,
           m \in Models => ServedModel(m)'
    PROVE  \A x \in Models : ServedModel(x)'
  <1> SUFFICES ASSUME NEW x \in Models \ {m} PROVE ServedModel(x)'
    OBVIOUS
  <1>1. /\ task'[x] = task[x] /\ home'[x] = home[x] /\ hash'[x] = hash[x]
        /\ x \in disturbed => x \in disturbed'
    BY DEF OthersKept, StayDisturbed
  <1>2. home[x] \in Pools \/ home[x] = NoPool
    BY TaskType DEF RefInv, PoolsOrNone
  <1>3. /\ task[x].at = "load" => task[x].pool \in Pools
        /\ task[x].at \in Unloading /\ task[x].op = "reload" => task[x].pool \in Pools
    BY TaskType DEF RefInv, PoolsOrNone, PoolRefs, TaskShape
  <1>4. ServedModel(x)
    OBVIOUS
  <1>5. \A q \in Pools : HeldUp(x, q) => HeldUp(x, q)'
    BY DEF HeldUp
  <1> HIDE DEF HeldUp
  <1>6. (Settled(x) => HeldUp(x, home[x]))' \/ x \in disturbed'
    <2>1. SUFFICES ASSUME x \notin disturbed', Settled(x)' PROVE HeldUp(x, home[x])'
      OBVIOUS
    <2>2. Settled(x) /\ home[x] \in Pools
      BY <1>1, <1>2, <2>1 DEF Settled
    <2>3. PICK q \in Pools : q = home[x]
      BY <2>2
    <2> QED
      BY <1>1, <1>4, <1>5, <2>1, <2>2, <2>3 DEF ServedModel, HeldUp
  <1>7. \/ (task[x].at \in Unloading /\ task[x].op = "reload" => HeldUp(x, task[x].pool))'
        \/ x \in disturbed'
    <2>1. SUFFICES ASSUME x \notin disturbed', task[x].at \in Unloading, task[x].op = "reload"
                   PROVE HeldUp(x, task[x].pool)'
      BY <1>1
    <2>3. PICK q \in Pools : q = task[x].pool
      BY <1>3, <2>1
    <2> QED
      BY <1>1, <1>4, <1>5, <2>1, <2>3 DEF ServedModel, HeldUp
  <1>8. (task[x].at = "load" => pool[task[x].pool].state = "up")' \/ x \in disturbed'
    BY <1>1, <1>3, <1>4 DEF ServedModel
  <1> QED
    BY <1>6, <1>7, <1>8 DEF ServedModel

\* A model is added to its pool, or leaves it, and is counted
LEMMA CountsAdded ==
    ASSUME TypeOK, NEW m, NEW p \in Pools, Counts(p),
           pool'[p] = [pool[p] EXCEPT !.count = pool[p].count + 1,
                                      !.has = pool[p].has \cup {m}]
    PROVE  Counts(p)'
  <1>1. pool[p] \in PoolRecords
    BY DEF TypeOK
  <1>2. /\ pool'[p].state = pool[p].state /\ pool'[p].count = pool[p].count + 1
        /\ pool'[p].has = pool[p].has \cup {m} /\ pool[p].count \in Int
    BY <1>1 DEF PoolRecords
  <1>3. SUFFICES ASSUME pool[p].state = "up"
                 PROVE  /\ IsFiniteSet(pool[p].has \cup {m})
                        /\ pool[p].count + 1 >= Cardinality(pool[p].has \cup {m})
    BY <1>2 DEF Counts
  <1>4. IsFiniteSet(pool[p].has) /\ pool[p].count >= Cardinality(pool[p].has)
    BY <1>3 DEF Counts
  <1>5. Cardinality(pool[p].has) \in Nat
    BY <1>4, FS_CardinalityType
  <1>6. /\ IsFiniteSet(pool[p].has \cup {m})
        /\ \/ Cardinality(pool[p].has \cup {m}) = Cardinality(pool[p].has)
           \/ Cardinality(pool[p].has \cup {m}) = Cardinality(pool[p].has) + 1
    BY <1>4, FS_AddElement
  <1> QED
    BY <1>2, <1>4, <1>5, <1>6

LEMMA CountsRemoved ==
    ASSUME TypeOK, NEW m, NEW p \in Pools, Counts(p),
           pool'[p].state = "up" => pool[p].state = "up" /\ m \in pool[p].has,
           pool'[p].count = pool[p].count - 1, pool'[p].has = pool[p].has \ {m}
    PROVE  Counts(p)'
  <1>1. SUFFICES ASSUME pool'[p].state = "up"
                 PROVE  /\ IsFiniteSet(pool[p].has \ {m})
                        /\ pool[p].count - 1 >= Cardinality(pool[p].has \ {m})
    BY DEF Counts
  <1>2. /\ IsFiniteSet(pool[p].has) /\ pool[p].count >= Cardinality(pool[p].has)
        /\ m \in pool[p].has
    BY <1>1 DEF Counts
  <1>3. Cardinality(pool[p].has) \in Nat /\ pool[p].count \in Int
    BY <1>2, FS_CardinalityType DEF TypeOK, PoolRecords
  <1>4. /\ IsFiniteSet(pool[p].has \ {m})
        /\ Cardinality(pool[p].has \ {m}) = Cardinality(pool[p].has) - 1
    BY <1>2, FS_RemoveElement
  <1> QED
    BY <1>2, <1>3, <1>4

LEMMA CountsSame ==
    ASSUME NEW p \in Pools, Counts(p),
           pool'[p].state = "up" => /\ pool[p].state = "up" /\ pool'[p].has = pool[p].has
                                    /\ pool'[p].count = pool[p].count
    PROVE  Counts(p)'
  BY DEF Counts

\* What a step of m that stops no pool has to leave right
ServedOwn(m) ==
    /\ ServedModel(m)'
    /\ home'[m] = NoPool \/ home'[m] \in Created
    /\ task'[m].op \in {"load", "reload"} =>
          task[m].op \in {"load", "reload"} /\ task'[m].env = task[m].env
    /\ m \notin disturbed' /\ Settled(m)' =>
          \/ m \notin disturbed /\ Settled(m) /\ home'[m] = home[m] /\ hash'[m] = hash[m]
          \/ \A n \in Models \ {m} : task[n].at = "unload" => hash[n] # hash'[m]
    /\ task'[m].at # "closing"
    /\ task'[m].at = "unload" =>
          /\ LoadingInto(hash'[m]) \ {m} \subseteq disturbed'
          /\ hash'[m] \in Envs => task'[m].from = pools'[hash'[m]]

LEMMA ServedStep ==
    ASSUME RefInv, ServedInv, NEW m, OthersKept(m), m \in Models => ServedOwn(m),
           closers' \subseteq closers, pool'[Default].state = "up", ClosedBySomebody',
           disturbed \subseteq disturbed',
           \A e \in Envs : pools'[e] = pools[e] \/ pools'[e] \notin Created,
           \A q \in Pools : pool[q].state = "up" => pool'[q].state = "up",
           \A q \in Pools, x \in Models \ {m} : HeldUp(x, q) => x \in pool'[q].has,
           \A q \in Pools : Counts(q)'
    PROVE  ServedInv'
  <1>1. StayDisturbed(m)
    BY DEF StayDisturbed
  <1>2. LoadDisturbed'
    BY <1>1, LoadDisturbedStep DEF ServedInv, ServedOwn
  <1>3. \A x \in Models : home'[x] = NoPool \/ home'[x] \in Created
    BY DEF ServedOwn, OthersKept, RefInv, PoolRefs, PoolOf
  <1>4. UnloadSees'
    BY <1>1, <1>3, UnloadSeesStep DEF ServedInv, ServedOwn
  <1>5. \A x \in Models : ServedModel(x)'
    BY <1>1, OthersServed DEF ServedInv, ServedOwn
  <1> QED
    BY <1>2, <1>4, <1>5 DEF ServedInv

\* The same for the steps of a model in which the registry stays as it is
LEMMA StillServed ==
    ASSUME RefInv, ServedInv, NEW m \in Models, OthersKept(m), ServedOwn(m), Still,
           disturbed \subseteq disturbed',
           \A q \in Pools, x \in Models \ {m} : x \in pool[q].has => x \in pool'[q].has,
           \A q \in Pools : Counts(q)'
    PROVE  ServedInv'
  <1>1. pool'[Default].state = "up" /\ ClosedBySomebody'
    BY StillClosed DEF ServedInv
  <1> QED
    BY <1>1, ServedStep DEF Still, HeldUp

LEMMA SamePoolServed ==
    ASSUME RefInv, ServedInv, NEW m \in Models, OthersKept(m), ServedOwn(m),
           UNCHANGED <<pools, closers, pool>>, disturbed \subseteq disturbed'
    PROVE  ServedInv'
  <1>1. Still
    BY DEF Still
  <1>2. \A q \in Pools : Counts(q)'
    BY CountsSame DEF ServedInv
  <1> QED
    BY <1>1, <1>2, StillServed

\* A model whose operation is over and that refers to no pool, or to one that holds it
LEMMA IdleServed ==
    ASSUME RefInv, NEW m \in Models, task'[m] = Idle,
           home'[m] = NoPool \/ home'[m] \in Created,
           m \notin disturbed' /\ home'[m] # NoPool => HeldUp(m, home[m])',
           m \notin disturbed' /\ home'[m] # NoPool =>
              \/ m \notin disturbed /\ Settled(m) /\ home'[m] = home[m] /\ hash'[m] = hash[m]
              \/ \A n \in Models \ {m} : task[n].at = "unload" => hash[n] # hash'[m]
    PROVE  ServedOwn(m)
  <1>1. /\ task'[m].at = "idle" /\ task'[m].op = "none"
    BY DEF Idle
  <1>2. Settled(m)' <=> home'[m] # NoPool
    BY <1>1 DEF Settled
  <1> HIDE DEF HeldUp
  <1>3. ServedModel(m)'
    BY <1>1, <1>2 DEF ServedModel, Unloading
  <1> QED
    BY <1>1, <1>2, <1>3 DEF ServedOwn

\* Whoever unloads from the environment of a model that was loaded has disturbed it
LEMMA NobodyUnloads ==
    ASSUME ServedInv, NEW m \in Models, m \notin disturbed, task[m].op \in {"load", "reload"},
           task[m].env \in EnvsOrNone
    PROVE  \A n \in Models \ {m} : task[n].at = "unload" => hash[n] # task[m].env
  BY DEF ServedInv, LoadDisturbed, LoadingInto

LEMMA FailServed ==
    ASSUME RefInv, ServedInv, NEW m \in Models, task[m].at \in Loading, Fail(m),
           UNCHANGED <<registryVars, pool, disturbed>>, OthersKept(m)
    PROVE  ServedInv'
  <1>1. task'[m] = Idle /\ home' = home /\ hash' = hash
    BY DEF Fail, End, modelVars, RefInv, TypeOK
  <1>2. home[m] # NoPool => Settled(m)
    BY DEF Settled, Loading
  <1>3. home[m] # NoPool => home[m] \in Created
    BY DEF RefInv, PoolRefs, PoolOf
  <1>4. m \notin disturbed' /\ home'[m] # NoPool => HeldUp(m, home[m])'
    BY <1>1, <1>2 DEF ServedInv, ServedModel, HeldUp
  <1>5. ServedOwn(m)
    BY <1>1, <1>2, <1>3, <1>4, IdleServed
  <1> QED
    BY <1>1, <1>5, SamePoolServed DEF registryVars

LEMMA OverServed ==
    ASSUME RefInv, ServedInv, NEW m \in Models, Over(m), NEW p, p = task[m].pool,
           Moved(m) /\ HeldUp(m, p) => HeldUp(m, p)'
    PROVE  ServedOwn(m) /\ disturbed \subseteq disturbed'
  <1>1. task'[m] = Idle /\ task[m].at \in Unloading /\ task[m].env \in EnvsOrNone
    BY TaskType DEF Over, RefInv, TypeOK
  <1>2. CASE Left(m)
    BY <1>1, <1>2, IdleServed DEF Left, RefInv, TypeOK
  <1>3. CASE Stuck(m)
    BY <1>1, <1>3, IdleServed DEF Stuck, RefInv, PoolRefs, PoolOf
  <1>4. CASE Moved(m)
    <2>1. /\ home'[m] = p /\ hash'[m] = task[m].env /\ disturbed' = disturbed
          /\ task[m].op = "reload"
      BY <1>4 DEF Moved, RefInv, TypeOK
    <2>2. p \in Created
      BY <1>1, <2>1 DEF RefInv, PoolRefs, TaskShape, PoolOf
    <2>3. m \notin disturbed => HeldUp(m, p)'
      BY <1>1, <1>4, <2>1 DEF ServedInv, ServedModel
    <2>4. m \notin disturbed => HeldUp(m, home[m])'
      BY <2>1, <2>3 DEF HeldUp
    <2> HIDE DEF HeldUp
    <2>5. m \notin disturbed =>
             \A n \in Models \ {m} : task[n].at = "unload" => hash[n] # hash'[m]
      BY <1>1, <2>1, NobodyUnloads
    <2> QED
      BY <1>1, <2>1, <2>2, <2>4, <2>5, IdleServed
  <1> QED
    BY <1>2, <1>3, <1>4 DEF Over

LEMMA UnloadRaisesServed ==
    ASSUME RefInv, ServedInv, NEW m \in Models, UnloadRaises(m)
    PROVE  ServedInv'
  <1>1. Over(m) /\ OthersKept(m) /\ UNCHANGED <<pools, closers, pool>>
    BY UnloadOver, UnloadRaisesRefs DEF UnloadRaises, Unloading, registryVars
  <1>2. PICK p : p = task[m].pool
    OBVIOUS
  <1>3. HeldUp(m, p) => HeldUp(m, p)'
    BY <1>1 DEF HeldUp
  <1> QED
    BY <1>1, <1>2, <1>3, OverServed, SamePoolServed

\* The pool that a reload moves to is not the one it leaves
LEMMA OtherPool ==
    ASSUME RefInv, NEW m \in Models, task[m].at \in Unloading, task[m].op = "reload"
    PROVE  task[m].pool \in Created /\ task[m].pool \in Pools /\ task[m].pool # task[m].from
  <1>1. /\ task[m].pool # NoPool /\ PoolOf(task[m].pool, task[m].env)
        /\ hash[m] # task[m].env
        /\ task[m].from # NoPool => PoolOf(task[m].from, hash[m])
    BY DEF RefInv, PoolRefs, TaskShape
  <1> QED
    BY <1>1 DEF PoolOf, Created

\* A model that was removed from its pool without stopping it
LEMMA RemovedServed ==
    ASSUME RefInv, ServedInv, NEW m \in Models, Over(m), OthersKept(m),
           task[m].at = "unload", NEW q \in Pools, q = task[m].from, CanRemove(q, m),
           UNCHANGED <<pools, closers>>, NewContents(q, pool[q].count - 1, pool[q].has \ {m})
    PROVE  ServedInv'
  <1>1. /\ \A r \in Pools \ {q} : pool'[r] = pool[r]
        /\ pool'[q] = [pool[q] EXCEPT !.count = pool[q].count - 1,
                                      !.has = pool[q].has \ {m}]
    BY RemovedSteady DEF RefInv
  <1>2. /\ pool'[q].state = pool[q].state /\ pool'[q].count = pool[q].count - 1
        /\ pool'[q].has = pool[q].has \ {m}
    BY <1>1 DEF RefInv, TypeOK, PoolRecords
  <1>3. Still
    BY <1>1, <1>2 DEF Still
  <1>4. \A r \in Pools : Counts(r)'
    <2>1. pool[q].state = "up" => m \in pool[q].has
      BY DEF CanRemove
    <2>2. Counts(q)'
      BY <1>2, <2>1, CountsRemoved DEF RefInv, ServedInv
    <2> QED
      BY <1>1, <2>2, CountsSame DEF ServedInv
  <1>5. PICK p : p = task[m].pool
    OBVIOUS
  <1>6. Moved(m) /\ HeldUp(m, p) => HeldUp(m, p)'
    <2>1. Moved(m) => p \in Pools \ {q}
      BY <1>5, OtherPool DEF Moved, Unloading
    <2> QED
      BY <1>1, <2>1 DEF HeldUp
  <1>7. ServedOwn(m) /\ disturbed \subseteq disturbed'
    BY <1>5, <1>6, OverServed
  <1>8. \A r \in Pools, x \in Models \ {m} : x \in pool[r].has => x \in pool'[r].has
    BY <1>1, <1>2
  <1> QED
    BY <1>3, <1>4, <1>7, <1>8, StillServed

LEMMA UnloadReturnsServed ==
    ASSUME RefInv, ServedInv, NEW m \in Models, UnloadReturns(m)
    PROVE  ServedInv'
  <1>1. /\ Over(m) /\ OthersKept(m) /\ task[m].at = "unload" /\ CanRemove(task[m].from, m)
        /\ UNCHANGED <<pools, closers>> /\ pool' = Removed(task[m].from, m)
    BY UnloadReturnsRefs DEF UnloadReturns, registryVars
  <1>2. PICK q \in Pools : q = task[m].from
    BY <1>1, UnloadPool
  <1>3. NewContents(q, pool[q].count - 1, pool[q].has \ {m})
    BY <1>1, <1>2 DEF Removed, NewContents
  <1> QED
    BY <1>1, <1>2, <1>3, RemovedServed

LEMMA FailsServed ==
    ASSUME RefInv, ServedInv, NEW m \in Models, ExtractRaises(m) \/ LoadRaises(m)
    PROVE  ServedInv'
  <1>1. /\ task[m].at \in Loading /\ Fail(m)
        /\ UNCHANGED <<registryVars, pool, ops, disturbed>>
    BY DEF ExtractRaises, LoadRaises, Loading
  <1> QED
    BY <1>1, FailRefs, FailServed

\* A load on its way: the pool it is sent to is up, unless it was disturbed
LEMMA LoadingServed ==
    ASSUME RefInv, ServedInv, NEW m \in Models, task[m].at \in Loading,
           task'[m].at \in Loading, task'[m].op = task[m].op, task'[m].env = task[m].env,
           home'[m] = home[m], hash'[m] = hash[m], disturbed' = disturbed,
           m \notin disturbed /\ task'[m].at = "load" => pool'[task'[m].pool].state = "up",
           NEW h, h = home[m], HeldUp(m, h) => HeldUp(m, h)'
    PROVE  ServedOwn(m)
  <1>1. Settled(m)' <=> Settled(m)
    BY DEF Settled, Loading
  <1>2. task'[m].at \notin Unloading
    BY DEF Loading, Unloading
  <1>3. home'[m] = NoPool \/ home'[m] \in Created
    BY DEF RefInv, PoolRefs, PoolOf
  <1>4. m \notin disturbed /\ Settled(m) => HeldUp(m, home[m])'
    BY DEF ServedInv, ServedModel, HeldUp
  <1> HIDE DEF HeldUp
  <1>5. ServedModel(m)'
    BY <1>1, <1>2, <1>4 DEF ServedModel
  <1> QED
    BY <1>1, <1>2, <1>3, <1>5 DEF ServedOwn, Unloading

\* A registered pool that is not up is being closed, and the load has met that
LEMMA FoundIsUp ==
    ASSUME RefInv, ServedInv, NEW m \in Models, task[m].op \in {"load", "reload"},
           NEW e \in Envs, e = task[m].env, pools[e] # NoPool, m \notin disturbed
    PROVE  pool[pools[e]].state = "up"
  <1>1. m \in LoadingInto(e) /\ e \in EnvsOrNone
    BY DEF LoadingInto, EnvsOrNone
  <1> QED
    BY <1>1 DEF ServedInv, ClosedBySomebody, LoadDisturbed

LEMMA FindPoolServed ==
    ASSUME RefInv, ServedInv, NEW m \in Models, FindPool(m),
           FoundPool(m) \/ StartsExtracting(m)
    PROVE  ServedInv'
  <1>1. /\ task[m].at = "hash" /\ OthersKept(m) /\ home' = home /\ hash' = hash
        /\ UNCHANGED <<closers, disturbed>>
    BY FindPoolCases, FindPoolRefs DEF modelVars
  <1>2. PICK e \in Envs : e = task[m].env /\ task[m].op \in {"load", "reload"}
    BY <1>1 DEF RefInv, PoolRefs, TaskShape, Loading
  <1>3. task \in [Models -> Tasks] /\ task[m] \in Tasks
    BY DEF RefInv, TypeOK
  <1>4. PICK h : h = home[m]
    OBVIOUS
  <1>5. UNCHANGED <<pools, pool>>
    BY DEF FoundPool, StartsExtracting
  <1>6. /\ task'[m].at \in Loading /\ task'[m].op = task[m].op /\ task'[m].env = task[m].env
        /\ m \notin disturbed /\ task'[m].at = "load" => pool[task'[m].pool].state = "up"
    <2>1. CASE FoundPool(m)
      <3>1. pools[e] \in Pools /\ pools[e] # NoPool
        BY <1>2, <2>1, PoolOfCreated DEF FoundPool, Known, RefInv, PoolRefs, TypeOK
      <3>2. task'[m] = SendLoad(task[m], pools[e])
        BY <1>2, <1>3, <2>1 DEF FoundPool
      <3>3. task'[m].pool = pools[e] /\ task'[m].at \in {"load", "refused"}
            /\ task'[m].op = task[m].op /\ task'[m].env = task[m].env
        BY <1>3, <3>1, <3>2, SendLoadEffect DEF RefInv
      <3> QED
        BY <1>2, <3>1, <3>3, FoundIsUp DEF Loading
    <2>2. CASE StartsExtracting(m)
      BY <1>3, <2>2 DEF StartsExtracting, Tasks, Loading
    <2> QED
      BY <2>1, <2>2
  <1>7. HeldUp(m, h) => HeldUp(m, h)'
    BY <1>5 DEF HeldUp
  <1>8. ServedOwn(m)
    BY <1>1, <1>4, <1>5, <1>6, <1>7, LoadingServed DEF Loading
  <1> QED
    BY <1>1, <1>5, <1>8, SamePoolServed

\* Nobody refers to a pool that has just been created but the model it was created for
LEMMA CreateServed ==
    ASSUME RefInv, RefInv', ServedInv, NEW m \in Creating, CreatePool(m), OthersKept(m),
           UNCHANGED <<closers, modelVars, disturbed>>
    PROVE  ServedInv'
  <1>0. m \in Models /\ task[m].at \in {"hash", "extract"}
    BY DEF Creating
  <1>1. PICK e \in Envs : e = task[m].env /\ task[m].op \in {"load", "reload"}
    BY <1>0 DEF RefInv, PoolRefs, TaskShape, Loading
  <1> DEFINE new == [env |-> e, whole |-> folder'[e] = "complete", count |-> 0,
                     has |-> {}, state |-> "up"]
  <1>2. PICK p \in Pools \ Created :
            /\ pool' = [pool EXCEPT ![p] = new]
            /\ pools' = [pools EXCEPT ![e] = p]
            /\ task' = [task EXCEPT ![m].at = "load", ![m].pool = p]
    BY <1>1, CreatePoolEffect
  <1>3. new.state = "up" /\ new.has = {} /\ new.count = 0
    OBVIOUS
  <1> HIDE DEF new
  <1>4. /\ pool'[p] = new /\ \A q \in Pools \ {p} : pool'[q] = pool[q]
        /\ pools'[e] = p /\ \A f \in Envs \ {e} : pools'[f] = pools[f]
    BY <1>2 DEF RefInv, TypeOK
  <1>5. /\ task'[m].at = "load" /\ task'[m].pool = p /\ task'[m].op = task[m].op
        /\ task'[m].env = task[m].env
    BY <1>0, <1>2 DEF RefInv, TypeOK, Tasks
  <1>6. p \notin Created /\ \A q \in Created : q \in Pools \ {p}
    BY <1>2 DEF Created
  <1>7. pool'[Default].state = "up"
    BY <1>3, <1>4, PoolNumbers DEF ServedInv
  <1>8. ClosedBySomebody'
    <2>1. ASSUME NEW f \in Envs, pools'[f] # NoPool, pool'[pools'[f]].state # "up"
          PROVE  \E c \in closers' : c.pool = pools'[f] /\ c.env = f
      <3>1. f # e /\ pools'[f] = pools[f]
        BY <1>3, <1>4, <2>1
      <3>2. pools[f] \in Created
        BY <2>1, <3>1 DEF RefInv, PoolRefs, PoolOf
      <3>3. pool[pools[f]].state # "up"
        BY <1>4, <1>6, <2>1, <3>1, <3>2
      <3> QED
        BY <2>1, <3>1, <3>3 DEF ServedInv, ClosedBySomebody
    <2> QED
      BY <2>1 DEF ClosedBySomebody
  <1>9. \A q \in Pools : Counts(q)'
    <2>1. Counts(p)'
      BY <1>3, <1>4, FS_EmptySet DEF Counts
    <2> QED
      BY <1>4, <2>1, CountsSame DEF ServedInv
  <1>10. PICK h : h = home[m]
    OBVIOUS
  <1>11. ServedOwn(m)
    <2>1. CASE home[m] # NoPool
      <3>1. h \in Created /\ pool'[h] = pool[h]
        BY <1>0, <1>4, <1>6, <1>10, <2>1 DEF RefInv, PoolRefs, PoolOf
      <3>2. HeldUp(m, h) => HeldUp(m, h)'
        BY <3>1 DEF HeldUp
      <3> QED
        BY <1>0, <1>3, <1>4, <1>5, <1>10, <3>2, LoadingServed DEF Loading, modelVars
    <2>2. CASE home[m] = NoPool
      <3>1. ServedModel(m)'
        BY <1>3, <1>4, <1>5, <2>2 DEF ServedModel, Settled, Unloading, modelVars
      <3> QED
        BY <1>5, <2>2, <3>1 DEF ServedOwn, Settled, modelVars
    <2> QED
      BY <2>1, <2>2
  <1>12. /\ \A q \in Pools : pool[q].state = "up" => pool'[q].state = "up"
         /\ \A q \in Pools, x \in Models \ {m} : HeldUp(x, q) => x \in pool'[q].has
         /\ \A f \in Envs : pools'[f] = pools[f] \/ pools'[f] \notin Created
    <2>1. pool[p].state = "none"
      BY <1>2 DEF Created
    <2> QED
      BY <1>3, <1>4, <1>6, <2>1 DEF HeldUp
  <1> QED
    BY <1>0, <1>7, <1>8, <1>9, <1>11, <1>12, ServedStep

LEMMA CreatesServed ==
    ASSUME RefInv, ServedInv, NEW m \in Models, FindPool(m) \/ Extracted(m)
    PROVE  ServedInv'
  <1>1. CASE FoundDir(m) /\ FindPool(m)
    BY <1>1, FindPoolCases, FindPoolRefs, CreateServed DEF FoundDir, Creating
  <1>2. CASE Extracted(m)
    BY <1>2, ExtractedRefs, CreateServed DEF Extracted, Creating
  <1> QED
    BY <1>1, <1>2, FindPoolCases, FindPoolServed

\* An unload that was sent to the pool registered for the environment of the model
LEMMA SendUnloadServed ==
    ASSUME RefInv, NEW m \in Models, NEW op \in {"unload", "reload"},
           NEW env \in EnvsOrNone, SendUnload(m, op, env), pools' = pools,
           home'[m] = home[m], hash'[m] = env,
           op = "reload" => task[m].op \in {"load", "reload"},
           NEW p, p = task[m].pool, op = "reload" /\ m \notin disturbed' => HeldUp(m, p)'
    PROVE  ServedOwn(m) /\ disturbed \subseteq disturbed'
  <1>1. /\ task'[m].op = op /\ task'[m].env = task[m].env /\ task'[m].pool = p
        /\ task'[m].from = Registered(env) /\ task'[m].at \in {"unload", "notFound"}
        /\ disturbed' = disturbed \cup (LoadingInto(env) \ {m})
    BY SendUnloadEffect DEF RefInv
  <1>2. ~Settled(m)'
    BY <1>1 DEF Settled
  <1>3. ServedModel(m)'
    BY <1>1, <1>2 DEF ServedModel, HeldUp
  <1>4. env \in Envs => Registered(env) = pools'[env]
    BY PoolAssumption DEF Registered, NoEnv
  <1>5. home'[m] = NoPool \/ home'[m] \in Created
    BY DEF RefInv, PoolRefs, PoolOf
  <1> HIDE DEF ServedModel
  <1> QED
    BY <1>1, <1>2, <1>3, <1>4, <1>5 DEF ServedOwn

LEMMA UnloadServed ==
    ASSUME RefInv, ServedInv, NEW m \in Models, Unload(m)
    PROVE  ServedInv'
  <1>1. /\ UNCHANGED <<pools, closers, pool, home, hash>> /\ OthersKept(m)
        /\ hash[m] \in EnvsOrNone
    BY UnloadRefs DEF Unload, registryVars, modelVars, RefInv, TypeOK
  <1>2. PICK env \in EnvsOrNone : env = hash[m] /\ SendUnload(m, "unload", env)
    BY <1>1 DEF Unload
  <1>3. PICK p : p = task[m].pool
    OBVIOUS
  <1>4. ServedOwn(m) /\ disturbed \subseteq disturbed'
    BY <1>1, <1>2, <1>3, SendUnloadServed
  <1> QED
    BY <1>1, <1>4, SamePoolServed

\* The workers of the pool have loaded the model
LEMMA LoadedServed ==
    ASSUME RefInv, ServedInv, NEW m \in Models, NEW p \in Pools, p = task[m].pool, Loaded(m),
           UNCHANGED <<pools, closers>>
    PROVE  /\ Still /\ \A q \in Pools : Counts(q)'
           /\ \A q \in Pools, x \in Models \ {m} : x \in pool[q].has => x \in pool'[q].has
           /\ m \notin disturbed => HeldUp(m, p)'
  <1>1. /\ \A q \in Pools \ {p} : pool'[q] = pool[q]
        /\ pool'[p] = [pool[p] EXCEPT !.count = pool[p].count + 1,
                                      !.has = pool[p].has \cup {m}]
    BY LoadedSteady DEF RefInv
  <1>2. pool'[p].state = pool[p].state /\ pool'[p].has = pool[p].has \cup {m}
    BY <1>1 DEF RefInv, TypeOK, PoolRecords
  <1>3. Counts(p)'
    BY <1>1, CountsAdded DEF RefInv, ServedInv
  <1>4. \A q \in Pools : Counts(q)'
    BY <1>1, <1>3, CountsSame DEF ServedInv
  <1>5. m \notin disturbed => HeldUp(m, p)'
    BY <1>2 DEF ServedInv, ServedModel, HeldUp, Loaded
  <1> QED
    BY <1>1, <1>2, <1>4, <1>5 DEF Still

LEMMA LoadReturnsServed ==
    ASSUME RefInv, ServedInv, NEW m \in Models, LoadReturns(m)
    PROVE  ServedInv'
  <1>1. /\ task[m].at = "load" /\ Loaded(m) /\ task'[m] = Idle /\ OthersKept(m)
        /\ home'[m] = task[m].pool /\ hash'[m] = task[m].env
        /\ UNCHANGED <<pools, closers, disturbed>>
    BY LoadReturnsRefs DEF LoadReturns, Loaded, Keep, End, registryVars, RefInv, TypeOK
  <1>2. /\ task[m].pool \in Pools /\ task[m].pool \in Created
        /\ task[m].op \in {"load", "reload"} /\ task[m].env \in EnvsOrNone
    BY <1>1, LoadedPool DEF PoolOf
  <1>3. PICK p \in Pools : p = task[m].pool
    BY <1>2
  <1>4. /\ Still /\ \A q \in Pools : Counts(q)'
        /\ \A q \in Pools, x \in Models \ {m} : x \in pool[q].has => x \in pool'[q].has
        /\ m \notin disturbed => HeldUp(m, p)'
    BY <1>1, <1>3, LoadedServed
  <1>5. m \notin disturbed => HeldUp(m, home[m])'
    BY <1>1, <1>3, <1>4 DEF HeldUp
  <1>6. m \notin disturbed =>
           \A n \in Models \ {m} : task[n].at = "unload" => hash[n] # hash'[m]
    BY <1>1, <1>2, NobodyUnloads
  <1> HIDE DEF HeldUp
  <1>7. ServedOwn(m)
    BY <1>1, <1>2, <1>5, <1>6, IdleServed
  <1> QED
    BY <1>1, <1>4, <1>7, StillServed

LEMMA LoadGoesOnServed ==
    ASSUME RefInv, ServedInv, NEW m \in Models, LoadReplaces(m) \/ HookRaises(m)
    PROVE  ServedInv'
  <1>1. /\ task[m].at = "load" /\ Loaded(m) /\ OthersKept(m)
        /\ UNCHANGED <<pools, closers, home>>
    BY LoadGoesOnRefs DEF LoadReplaces, HookRaises, Loaded, registryVars, modelVars
  <1>2. /\ task[m].pool \in Pools /\ task[m].op \in {"load", "reload"}
        /\ task[m].env \in EnvsOrNone
    BY <1>1, LoadedPool
  <1>3. PICK p \in Pools : p = task[m].pool
    BY <1>2
  <1>4. /\ Still /\ \A q \in Pools : Counts(q)'
        /\ \A q \in Pools, x \in Models \ {m} : x \in pool[q].has => x \in pool'[q].has
        /\ m \notin disturbed => HeldUp(m, p)'
    BY <1>1, <1>3, LoadedServed
  <1>5. PICK op \in {"unload", "reload"}, env \in EnvsOrNone :
            SendUnload(m, op, env) /\ hash'[m] = env
    BY <1>2 DEF LoadReplaces, HookRaises, modelVars, RefInv, TypeOK
  <1>6. disturbed \subseteq disturbed'
    BY <1>5 DEF SendUnload
  <1>7. ServedOwn(m)
    BY <1>1, <1>2, <1>3, <1>4, <1>5, <1>6, SendUnloadServed
  <1> QED
    BY <1>1, <1>4, <1>6, <1>7, StillServed

\* A load starts with the hash of its tarball, or at the default pool without one
LEMMA LoadEffect ==
    ASSUME RefInv, NEW m \in Models, NEW env \in EnvsOrNone, Load(m, env)
    PROVE  /\ task[m].at = "idle" /\ task'[m].env = env
           /\ task'[m].op = IF home[m] = NoPool THEN "load" ELSE "reload"
           /\ task'[m].at \in {"hash", "load", "refused"}
           /\ task'[m].at = "hash" => task'[m].pool = NoPool
           /\ task'[m].at # "hash" => env = NoEnv /\ task'[m].pool = Default
           /\ UNCHANGED <<pools, closers, pool, home, hash>>
  <1> DEFINE t == [Idle EXCEPT !.env = env, !.at = "hash",
                               !.op = IF home[m] = NoPool THEN "load" ELSE "reload"]
  <1>1. /\ t \in Tasks /\ t.at = "hash" /\ t.env = env /\ t.pool = NoPool
        /\ t.op = IF home[m] = NoPool THEN "load" ELSE "reload"
    BY DEF Idle, Tasks, PoolsOrNone, Loading
  <1>2. task'[m] = IF env = NoEnv THEN SendLoad(t, Default) ELSE t
    BY DEF Load, RefInv, TypeOK
  <1>3. task[m].at = "idle" /\ UNCHANGED <<pools, closers, pool, home, hash>>
    BY DEF Load, registryVars, modelVars
  <1> HIDE DEF t
  <1> QED
    BY <1>1, <1>2, <1>3, SendLoadEffect, PoolNumbers DEF RefInv

LEMMA LoadServed ==
    ASSUME RefInv, ServedInv, NEW m \in Models, NEW env \in EnvsOrNone, Load(m, env)
    PROVE  ServedInv'
  <1>1. /\ task[m].at = "idle" /\ task'[m].env = env /\ task'[m].op \in {"load", "reload"}
        /\ task'[m].at \in {"hash", "load", "refused"}
        /\ task'[m].at = "load" => task'[m].pool = Default
        /\ UNCHANGED <<pools, closers, pool, home, hash>>
    BY LoadEffect
  <1>2. OthersKept(m)
    BY LoadRefs
  <1>3. /\ StayDisturbed(m)
        /\ UnloadingFrom(env) => m \in disturbed'
        /\ m \notin disturbed' => m \notin disturbed \/ home[m] = NoPool
    BY DEF Load, StayDisturbed
  <1>4. Settled(m)' <=> Settled(m)
    BY <1>1 DEF Settled
  <1>5. LoadDisturbed'
    <2> SUFFICES ASSUME NEW e \in EnvsOrNone, NEW x \in Models, (x \in LoadingInto(e))'
                 PROVE  /\ \A n \in Models \ {x} :
                              task'[n].at \in {"unload", "closing"} /\ hash'[n] = e =>
                                  x \in disturbed'
                        /\ \A c \in closers' : c.env = e => x \in disturbed'
      BY DEF LoadDisturbed, LoadingInto
    <2>1. \A n \in Models : task'[n].at \in {"unload", "closing"} /\ hash'[n] = e =>
                              task[n].at \in {"unload", "closing"} /\ hash[n] = e
      BY <1>1, <1>2 DEF OthersKept
    <2>2. CASE x = m
      <3>1. e = env
        BY <1>1, <2>2 DEF LoadingInto
      <3> QED
        BY <1>1, <1>3, <2>1, <2>2, <3>1 DEF UnloadingFrom
    <2>3. CASE x # m
      <3>1. x \in LoadingInto(e)
        BY <1>2, <2>3 DEF LoadingInto, OthersKept
      <3> QED
        BY <1>1, <1>3, <2>1, <2>3, <3>1 DEF ServedInv, LoadDisturbed, StayDisturbed
    <2> QED
      BY <2>2, <2>3
  <1>6. UnloadSees'
    <2>1. \A x \in Models : home'[x] = NoPool \/ home'[x] \in Created
      BY <1>1 DEF RefInv, PoolRefs, PoolOf
    <2>2. m \notin disturbed' /\ Settled(m)' =>
             m \notin disturbed /\ Settled(m) /\ home'[m] = home[m] /\ hash'[m] = hash[m]
      BY <1>1, <1>3, <1>4 DEF Settled
    <2> QED
      BY <1>1, <1>2, <1>3, <2>1, <2>2, UnloadSeesStep DEF ServedInv
  <1>7. \A x \in Models : ServedModel(x)'
    <2>1. ServedModel(m)'
      BY <1>1, <1>3, <1>4 DEF ServedInv, ServedModel, HeldUp, Settled, Unloading
    <2>2. /\ \A q \in Pools : pool[q].state = "up" => pool'[q].state = "up"
          /\ \A q \in Pools, x \in Models \ {m} : HeldUp(x, q) => x \in pool'[q].has
      BY <1>1 DEF HeldUp
    <2> QED
      BY <1>2, <1>3, <2>1, <2>2, OthersServed DEF ServedInv
  <1>8. pool'[Default].state = "up" /\ ClosedBySomebody' /\ \A q \in Pools : Counts(q)'
    BY <1>1 DEF ServedInv, ClosedBySomebody, Counts
  <1> QED
    BY <1>5, <1>6, <1>7, <1>8 DEF ServedInv

\* Only the registered pool is stopped, and nobody that is served is in it: with two
\* models it would not be empty
LEMMA ClosesPoolServed ==
    ASSUME RefInv, ServedInv, NEW m \in Models, EmptyPool(m), ClosesPool(m, pools[hash[m]])
    PROVE  ServedInv'
  <1>1. /\ task[m].at = "unload" /\ task[m].from # Default /\ pool[task[m].from].count = 1
        /\ task[m].from \in Created /\ hash[m] \in Envs /\ CanRemove(task[m].from, m)
        /\ pool[task[m].from].env = hash[m] /\ UNCHANGED pools /\ OthersKept(m)
    BY EmptyPoolCases, EmptyPoolRefs
  <1>2. PICK p \in Pools : p = task[m].from
    BY <1>1 DEF Created
  <1>3. PICK e \in Envs : e = hash[m]
    BY <1>1
  <1>4. PICK c \in Pools : c = pools[e] /\ PoolOf(c, e) /\ ClosesPool(m, c)
    <2>1. PoolOf(pools[e], e)
      BY <1>3 DEF ClosesPool, RefInv, PoolRefs
    <2> QED
      BY <1>3, <2>1 DEF PoolOf, Created
  <1>5. /\ PoolSteady /\ pool'[c].state # "up"
        /\ \A q \in Pools : q # p => pool'[q].has = pool[q].has
                                     /\ pool'[q].count = pool[q].count
        /\ \A q \in Pools : q # c => pool'[q].state = pool[q].state
        /\ pool'[p].has = pool[p].has \ {m} /\ pool'[p].count = pool[p].count - 1
    BY <1>2, <1>4, ClosesPoolEffect DEF RefInv
  <1>6. /\ UNCHANGED <<home, hash, disturbed>>
        /\ closers' = closers \cup {[by |-> m, env |-> e, pool |-> c]}
        /\ task' = [task EXCEPT ![m].at = "closing"]
    BY <1>3, <1>4 DEF ClosesPool, modelVars
  <1>7. /\ task'[m].at = "closing" /\ task'[m].op = task[m].op /\ task'[m].pool = task[m].pool
        /\ task'[m].env = task[m].env
    BY <1>6 DEF RefInv, TypeOK, Tasks
  <1>8. StayDisturbed(m)
    BY <1>6 DEF StayDisturbed
  <1>9. c # Default /\ e # NoEnv
    BY <1>4, PoolAssumption DEF PoolOf, RefInv, PoolRefs, NoEnv
  <1>10. LoadDisturbed'
    <2>1. \A d \in closers' \ closers : d.env = hash[m] /\ task[m].at = "unload"
      BY <1>1, <1>3, <1>6
    <2> QED
      BY <1>1, <1>6, <1>7, <1>8, <2>1, LoadDisturbedStep DEF ServedInv
  <1>11. UnloadSees'
    <2>1. \A x \in Models : home'[x] = NoPool \/ home'[x] \in Created
      BY <1>6 DEF RefInv, PoolRefs, PoolOf
    <2>2. ~Settled(m)'
      BY <1>7 DEF Settled
    <2> QED
      BY <1>1, <1>7, <1>8, <2>1, <2>2, UnloadSeesStep DEF ServedInv
  <1>12. ASSUME NEW x \in Models \ {m}, NEW q \in Pools, HeldUp(x, q), q # c
         PROVE  HeldUp(x, q)'
    BY <1>5, <1>12 DEF HeldUp
  <1>13. ASSUME NEW x \in Models \ {m} PROVE ServedModel(x)'
    <2>1. task'[x] = task[x] /\ home'[x] = home[x] /\ hash'[x] = hash[x]
      BY <1>1 DEF OthersKept
    <2>2. SUFFICES ASSUME x \notin disturbed PROVE ServedModel(x)'
      BY <1>6 DEF ServedModel
    <2>3. ServedModel(x)
      BY DEF ServedInv
    <2>4. ASSUME Settled(x) PROVE HeldUp(x, home[x])'
      <3>1. PICK h \in Pools : h = home[x] /\ PoolOf(h, hash[x]) /\ HeldUp(x, h)
        BY <2>2, <2>3, <2>4 DEF ServedModel, Settled, RefInv, PoolRefs, PoolOf, Created
      <3>2. h # c
        <4>1. SUFFICES ASSUME h = c PROVE FALSE
          OBVIOUS
        <4>2. hash[x] = e
          BY <1>4, <3>1, <4>1 DEF PoolOf
        <4>3. p = c
          BY <1>1, <1>2, <1>3, <1>4, <2>2, <2>4, <3>1, <4>1, <4>2 DEF ServedInv, UnloadSees
        <4>4. /\ x \in pool[p].has /\ m \in pool[p].has
              /\ IsFiniteSet(pool[p].has) /\ pool[p].count >= Cardinality(pool[p].has)
          BY <1>1, <1>2, <3>1, <4>1, <4>3 DEF HeldUp, CanRemove, ServedInv, Counts
        <4>5. Cardinality(pool[p].has) <= 1 /\ Cardinality(pool[p].has) \in Nat
          BY <1>1, <1>2, <4>4, FS_CardinalityType
        <4>6. /\ IsFiniteSet(pool[p].has \ {m})
              /\ Cardinality(pool[p].has \ {m}) = Cardinality(pool[p].has) - 1
          BY <4>4, FS_RemoveElement
        <4>7. Cardinality(pool[p].has \ {m}) = 0
          BY <4>5, <4>6, FS_CardinalityType
        <4> QED
          BY <4>4, <4>6, <4>7, FS_EmptySet
      <3>3. HeldUp(x, h)'
        BY <1>12, <3>1, <3>2
      <3> QED
        BY <2>1, <3>1, <3>3 DEF HeldUp
    <2>5. ASSUME NEW q \in Pools, q = task[x].pool, task[x].op \in {"load", "reload"}
          PROVE  q # c
      <3>1. PoolOf(q, task[x].env)
        BY <2>5, PoolNumbers DEF RefInv, PoolRefs, TaskShape
      <3>2. q = c => x \in LoadingInto(e)
        BY <1>4, <2>5, <3>1 DEF LoadingInto, PoolOf
      <3> QED
        BY <1>1, <1>3, <2>2, <3>2 DEF ServedInv, LoadDisturbed, EnvsOrNone
    <2>6. task[x].at = "load" => pool'[task[x].pool].state = "up"
      <3>1. SUFFICES ASSUME task[x].at = "load" PROVE pool'[task[x].pool].state = "up"
        OBVIOUS
      <3>2. task[x].pool \in Pools /\ task[x].op \in {"load", "reload"}
        BY <3>1, LoadedPool
      <3> QED
        BY <1>5, <2>2, <2>3, <2>5, <3>1, <3>2 DEF ServedModel
    <2>7. task[x].at \in Unloading /\ task[x].op = "reload" => HeldUp(x, task[x].pool)'
      <3>1. SUFFICES ASSUME task[x].at \in Unloading, task[x].op = "reload"
                     PROVE  HeldUp(x, task[x].pool)'
        BY <2>1
      <3>2. PICK q \in Pools : q = task[x].pool
        BY <3>1, OtherPool
      <3>3. HeldUp(x, q)'
        BY <1>12, <2>2, <2>3, <2>5, <3>1, <3>2 DEF ServedModel
      <3> QED
        BY <2>1, <3>2, <3>3 DEF HeldUp
    <2> HIDE DEF HeldUp
    <2>8. Settled(x)' <=> Settled(x)
      BY <2>1 DEF Settled
    <2> QED
      BY <2>1, <2>4, <2>6, <2>7, <2>8 DEF ServedModel
  <1>14. ServedModel(m)'
    <2>1. ~Settled(m)'
      BY <1>7 DEF Settled
    <2>2. SUFFICES ASSUME m \notin disturbed, task[m].op = "reload"
                   PROVE  HeldUp(m, task[m].pool)'
      BY <1>6, <1>7, <2>1 DEF ServedModel
    <2>3. PICK q \in Pools : q = task[m].pool /\ q # p
      BY <1>1, <1>2, <2>2, OtherPool DEF Unloading
    <2>4. q # c
      <3>1. PoolOf(q, task[m].env) /\ hash[m] # task[m].env
        BY <1>1, <2>2, <2>3, PoolNumbers DEF RefInv, PoolRefs, TaskShape, Unloading
      <3> QED
        BY <1>3, <1>4, <3>1 DEF PoolOf
    <2>5. HeldUp(m, q)
      BY <1>1, <2>2, <2>3 DEF ServedInv, ServedModel, Unloading
    <2> QED
      BY <1>5, <1>7, <2>3, <2>4, <2>5 DEF HeldUp
  <1>15. ClosedBySomebody'
    <2>1. ASSUME NEW f \in Envs, pools[f] # NoPool, pool'[pools[f]].state # "up"
          PROVE  \E d \in closers' : d.pool = pools[f] /\ d.env = f
      <3>1. CASE pools[f] = c
        <4> DEFINE d == [by |-> m, env |-> e, pool |-> c]
        <4>1. f = e
          BY <1>4, <2>1, <3>1 DEF RefInv, PoolRefs, PoolOf
        <4>2. d \in closers' /\ d.pool = c /\ d.env = e
          BY <1>6
        <4> HIDE DEF d
        <4> QED
          BY <3>1, <4>1, <4>2
      <3>2. CASE pools[f] # c
        <4>1. pools[f] \in Pools
          BY <2>1 DEF RefInv, TypeOK, PoolsOrNone
        <4>2. pool[pools[f]].state # "up"
          BY <1>5, <2>1, <3>2, <4>1
        <4>3. \E d \in closers : d.pool = pools[f] /\ d.env = f
          BY <2>1, <4>2 DEF ServedInv, ClosedBySomebody
        <4> QED
          BY <1>6, <4>3
      <3> QED
        BY <3>1, <3>2
    <2> QED
      BY <1>1, <2>1 DEF ClosedBySomebody
  <1>16. \A q \in Pools : Counts(q)'
    <2>1. pool'[p].state = "up" => pool[p].state = "up" /\ m \in pool[p].has
      BY <1>1, <1>2, <1>5 DEF CanRemove, PoolSteady
    <2>2. Counts(p)'
      BY <1>5, <2>1, CountsRemoved DEF RefInv, ServedInv
    <2>3. ASSUME NEW q \in Pools \ {p} PROVE Counts(q)'
      BY <1>5, CountsSame DEF ServedInv, PoolSteady
    <2> QED
      BY <2>2, <2>3
  <1>17. pool'[Default].state = "up"
    BY <1>5, <1>9, PoolNumbers DEF ServedInv
  <1> QED
    BY <1>10, <1>11, <1>13, <1>14, <1>15, <1>16, <1>17 DEF ServedInv

\* The pool that became empty is not registered any more: nothing is stopped
LEMMA FindsNoPoolServed ==
    ASSUME RefInv, ServedInv, NEW m \in Models, EmptyPool(m), FindsNoPool(m)
    PROVE  ServedInv'
  <1>1. /\ task[m].at = "unload" /\ task[m].from \in Pools /\ CanRemove(task[m].from, m)
        /\ UNCHANGED <<pools, closers>> /\ OthersKept(m)
    BY EmptyPoolCases, EmptyPoolRefs DEF FindsNoPool
  <1>2. Over(m)
    BY <1>1, UnloadOver DEF FindsNoPool, Unloading
  <1>3. PICK q \in Pools : q = task[m].from
    BY <1>1
  <1>4. NewContents(q, pool[q].count - 1, pool[q].has \ {m})
    BY <1>3 DEF FindsNoPool
  <1> QED
    BY <1>1, <1>2, <1>3, <1>4, RemovedServed

LEMMA ClearWorkersServed ==
    ASSUME RefInv, ServedInv, NEW c \in closers, ClearWorkers(c)
    PROVE  ServedInv'
  <1>1. /\ UNCHANGED <<pools, closers, disturbed>> /\ pool[c.pool].state = "stopping"
        /\ pool' = [pool EXCEPT ![c.pool].state = "stopped"]
        /\ OthersKept("server")
    BY ClearWorkersRefs DEF ClearWorkers, registryVars, histories
  <1>2. PICK p \in Pools : p = c.pool
    BY DEF RefInv, TypeOK
  <1>3. /\ pool'[p].state = "stopped" /\ pool'[p].has = pool[p].has
        /\ pool[p].state = "stopping" /\ \A q \in Pools \ {p} : pool'[q] = pool[q]
    BY <1>1, <1>2 DEF RefInv, TypeOK, PoolRecords
  <1>4. Still
    BY <1>1, <1>3 DEF Still
  <1>5. pool'[Default].state = "up" /\ ClosedBySomebody'
    BY <1>4, StillClosed DEF ServedInv
  <1>6. \A q \in Pools : Counts(q)'
    BY <1>3, CountsSame DEF ServedInv
  <1>7. /\ \A q \in Pools : pool[q].state = "up" => pool'[q].state = "up"
        /\ \A q \in Pools, x \in Models \ {"server"} : HeldUp(x, q) => x \in pool'[q].has
    BY <1>3 DEF HeldUp
  <1> QED
    BY <1>1, <1>5, <1>6, <1>7, ServedStep, PoolAssumption

\* The entry of a pool goes when it is closed, and with it the closing coroutine
LEMMA CloseEndsServed ==
    ASSUME RefInv, ServedInv, NEW c \in closers, CloseEnds(c)
    PROVE  ServedInv'
  <1>1. PICK m : m = c.by
    OBVIOUS
  <1>2. /\ closers' = closers \ {c} /\ pool' = pool /\ OthersKept(m)
        /\ m \in Models => Over(m)
        /\ m \notin Models => UNCHANGED disturbed
    BY <1>1, CloseEndsRefs DEF CloseEnds
  <1>3. \A f \in Envs : pools'[f] = IF f = c.env THEN NoPool ELSE pools[f]
    BY PoolAssumption DEF CloseEnds, RefInv, TypeOK, NoEnv
  <1>4. m \in Models => ServedOwn(m) /\ disturbed \subseteq disturbed'
    <2>1. SUFFICES ASSUME m \in Models PROVE ServedOwn(m) /\ disturbed \subseteq disturbed'
      OBVIOUS
    <2>2. PICK p : p = task[m].pool
      OBVIOUS
    <2>3. HeldUp(m, p) => HeldUp(m, p)'
      BY <1>2 DEF HeldUp
    <2> QED
      BY <1>2, <2>1, <2>2, <2>3, OverServed
  <1>5. ClosedBySomebody'
    <2>1. ASSUME NEW f \in Envs, pools'[f] # NoPool, pool[pools'[f]].state # "up"
          PROVE  \E d \in closers' : d.pool = pools'[f] /\ d.env = f
      <3>1. f # c.env /\ pools'[f] = pools[f]
        BY <1>3, <2>1
      <3>2. PICK d \in closers : d.pool = pools[f] /\ d.env = f
        BY <2>1, <3>1 DEF ServedInv, ClosedBySomebody
      <3> QED
        BY <1>2, <3>1, <3>2
    <2> QED
      BY <1>2, <2>1 DEF ClosedBySomebody
  <1>6. \A q \in Pools : Counts(q)'
    BY <1>2, CountsSame DEF ServedInv
  <1>7. \A f \in Envs : pools'[f] = pools[f] \/ pools'[f] \notin Created
    BY <1>3, PoolNumbers DEF Created
  <1>8. /\ \A q \in Pools : pool[q].state = "up" => pool'[q].state = "up"
        /\ \A q \in Pools, x \in Models \ {m} : HeldUp(x, q) => x \in pool'[q].has
    BY <1>2 DEF HeldUp
  <1>9. pool'[Default].state = "up"
    BY <1>2 DEF ServedInv
  <1> QED
    BY <1>2, <1>4, <1>5, <1>6, <1>7, <1>8, <1>9, ServedStep

LEMMA InitServed == Init => ServedInv
  <1> SUFFICES ASSUME Init PROVE ServedInv
    OBVIOUS
  <1>1. /\ \A m \in Models : task[m] = Idle /\ home[m] = NoPool
        /\ closers = {} /\ pool[Default].state = "up"
        /\ \A e \in Envs : pools[e] = NoPool
        /\ \A p \in Pools : pool[p].has = {} /\ pool[p].count = 0
    BY PoolNumbers DEF Init
  <1>2. \A e : LoadingInto(e) = {}
    BY <1>1 DEF LoadingInto, Idle
  <1>3. \A m \in Models : ServedModel(m)
    BY <1>1 DEF ServedModel, Settled, Idle, Unloading
  <1>4. \A p \in Pools : Counts(p)
    <2>1. IsFiniteSet({}) /\ Cardinality({}) = 0
      BY FS_EmptySet
    <2>2. ASSUME NEW p \in Pools PROVE Counts(p)
      <3>1. pool[p].has = {} /\ pool[p].count = 0
        BY <1>1
      <3> QED
        BY <2>1, <3>1 DEF Counts
    <2> QED
      BY <2>2
  <1>5. UnloadSees
    BY <1>1 DEF UnloadSees, Settled
  <1> QED
    BY <1>1, <1>2, <1>3, <1>4, <1>5 DEF ServedInv, ClosedBySomebody, LoadDisturbed

LEMMA StaysStopped ==
    ASSUME [Next]_vars, stopped
    PROVE  stopped'
  BY DEF Next, Operation, vars, registryVars, Load, Unload, FindPool, Extracted,
     ExtractRaises, LoadRaises, LoadReturns, LoadReplaces, HookRaises, UnloadRaises,
     UnloadReturns, EmptyPool, ClearWorkers, CloseEnds, Close

\* Until the server stops
LEMMA NextServed ==
    ASSUME RefInv, stopped \/ ServedInv, [Next]_vars
    PROVE  (stopped \/ ServedInv)'
  <1>1. CASE Close
    BY <1>1 DEF Close
  <1>2. CASE stopped
    BY <1>2, StaysStopped
  <1>3. CASE ServedInv /\ UNCHANGED vars
    <2>1. pool' = pool /\ closers' = closers /\ pools' = pools /\ disturbed' = disturbed
          /\ task' = task /\ home' = home /\ hash' = hash
      BY <1>3 DEF vars, registryVars, modelVars, histories
    <2> QED
      BY <1>3, <2>1 DEF ServedInv, ClosedBySomebody, LoadDisturbed, LoadingInto, UnloadSees,
         Settled, ServedModel, HeldUp, Counts
  <1>4. ASSUME NEW m \in Models, Operation(m), ServedInv PROVE ServedInv'
    BY <1>4, LoadServed, UnloadServed, CreatesServed, FailsServed, LoadReturnsServed,
       LoadGoesOnServed, UnloadRaisesServed, UnloadReturnsServed, ClosesPoolServed,
       FindsNoPoolServed, EmptyPoolCases DEF Operation, EnvsOrNone
  <1> QED
    BY <1>1, <1>2, <1>3, <1>4, ClearWorkersServed, CloseEndsServed DEF Next

----------------------------------------------------------------------------
(* The registered pools are the ones that run, and they have models.  The     *)
(* workers of a pool hold the models that are registered with it, or about to *)
(* be: the pool becomes empty with the last of them, and is closed as the one *)
(* that is registered, unless two pools meet in its environment.              *)

\* A pool with running workers that was not created or closed twice at once
Live(p) == p \in Created \ {Default} /\ pool[p].state = "up" /\ pool[p].env \notin raced

RegisteredLive == \A p \in Pools : Live(p) => pools[pool[p].env] = p

ClosersAlone ==
    \A c \in closers :
        /\ c.env \in Envs
        /\ c.env \notin raced =>
              pools[c.env] = c.pool /\ \A d \in closers : d.env = c.env => d = c

\* The registered model is in this pool, or will be when its operation is over
Holds(m, p) == home[m] = p \/ (task[m].pool = p /\ task[m].at \in Unloading)

\* What is held by the workers is held by the registry, unless something failed; an
\* unload is sent to the pool that holds the model, and a reload loads there again
TrackedPair(m, p) ==
    Live(p) =>
        /\ Holds(m, p) => m \in pool[p].has
        /\ Holds(m, p) /\ pool[p].env = hash[m] /\ task[m].at \in {"unload", "notFound"} =>
              task[m].at = "unload" /\ task[m].from = p
        /\ p \notin kept /\ m \in pool[p].has => Holds(m, p)
        /\ home[m] = p /\ task[m].at \in {"load", "refused"} /\ hash[m] = task[m].env =>
              task[m].pool = p

Uses(m, p) == home[m] = p \/ task[m].pool = p
TrackedPool(p) ==
    Live(p) /\ p \notin kept =>
        /\ pool[p].count = Cardinality(pool[p].has)
        /\ \E m \in Models : Uses(m, p)

TrackedInv ==
    /\ RegisteredLive /\ ClosersAlone
    /\ \A m \in Models, p \in Pools : TrackedPair(m, p)
    /\ \A p \in Pools : TrackedPool(p)

\* A pool that is live now was it before, and has the models it had
SameLive(p) ==
    Live(p)' => /\ Live(p) /\ pool'[p].env = pool[p].env
                /\ pool'[p].count = pool[p].count /\ pool'[p].has = pool[p].has

LEMMA PairKept ==
    ASSUME NEW x \in Models, NEW p \in Pools, TrackedPair(x, p), kept \subseteq kept',
           task'[x] = task[x], home'[x] = home[x], hash'[x] = hash[x],
           Live(p)' => /\ Live(p) /\ pool'[p].env = pool[p].env
                       /\ x \in pool'[p].has <=> x \in pool[p].has
    PROVE  TrackedPair(x, p)'
  <1>1. Holds(x, p)' <=> Holds(x, p)
    BY DEF Holds
  <1> HIDE DEF Holds, Live
  <1> QED
    BY <1>1 DEF TrackedPair

\* What a step of m that changes no live pool has to leave right
TrackedOwn(m, p) ==
    /\ TrackedPair(m, p)'
    /\ Live(p) /\ p \notin kept' /\ Uses(m, p) => Uses(m, p)'

LEMMA TrackedStep ==
    ASSUME RefInv, TrackedInv, NEW m, OthersKept(m), kept \subseteq kept',
           RegisteredLive', ClosersAlone', \A p \in Pools : SameLive(p),
           m \in Models => \A p \in Pools : TrackedOwn(m, p)
    PROVE  TrackedInv'
  <1>1. ASSUME NEW x \in Models, NEW p \in Pools PROVE TrackedPair(x, p)'
    <2>1. CASE x = m
      BY <2>1 DEF TrackedOwn
    <2>2. CASE x # m
      BY <2>2, PairKept DEF OthersKept, SameLive, TrackedInv
    <2> QED
      BY <2>1, <2>2
  <1>2. ASSUME NEW p \in Pools, Live(p)', p \notin kept'
        PROVE  /\ pool'[p].count = Cardinality(pool'[p].has)
               /\ \E x \in Models : Uses(x, p)'
    <2>1. Live(p) /\ pool'[p].count = pool[p].count /\ pool'[p].has = pool[p].has
      BY <1>2 DEF SameLive
    <2>2. PICK x \in Models : Uses(x, p)
      BY <1>2, <2>1 DEF TrackedInv, TrackedPool
    <2>3. pool[p].count = Cardinality(pool[p].has)
      BY <1>2, <2>1 DEF TrackedInv, TrackedPool
    <2>4. Uses(x, p)'
      BY <1>2, <2>1, <2>2 DEF OthersKept, TrackedOwn, Uses
    <2> QED
      BY <2>1, <2>3, <2>4
  <1> QED
    BY <1>1, <1>2 DEF TrackedInv, TrackedPool

LEMMA SameLiveRegistered ==
    ASSUME RegisteredLive, \A p \in Pools : SameLive(p), pools' = pools
    PROVE  RegisteredLive'
  BY DEF RegisteredLive, SameLive

\* The steps of a model in which no pool and no closing pool changes
LEMMA SameTracked ==
    ASSUME RefInv, TrackedInv, NEW m \in Models, OthersKept(m), kept \subseteq kept',
           UNCHANGED <<pools, pool, closers, raced>>, \A p \in Pools : TrackedOwn(m, p)
    PROVE  TrackedInv'
  <1>1. \A p \in Pools : SameLive(p)
    BY DEF SameLive, Live, Created
  <1>2. RegisteredLive' /\ ClosersAlone'
    BY <1>1, SameLiveRegistered DEF TrackedInv, ClosersAlone
  <1> QED
    BY <1>1, <1>2, TrackedStep

\* A live pool is one of an environment
LEMMA LivePool ==
    ASSUME RefInv, NEW p \in Pools, Live(p)
    PROVE  pool[p].env \in Envs /\ p \in Created /\ p # NoPool /\ p # Default /\ pool[p].env # NoEnv
  BY PoolAssumption, PoolNumbers DEF Live, RefInv, PoolRefs, NoEnv

\* What an unload still holds is in the environment of the model, or what a reload loaded
LEMMA HoldsWhere ==
    ASSUME RefInv, NEW m \in Models, NEW p \in Pools, Holds(m, p)
    PROVE  pool[p].env = hash[m] \/ (task[m].op = "reload" /\ task[m].pool = p)
  BY PoolNumbers DEF Holds, RefInv, PoolRefs, TaskShape, PoolOf, Unloading

\* A load on its way, or over without success, changes nothing of what is held
LEMMA LoadingTracked ==
    ASSUME RefInv, TrackedInv, NEW m \in Models, NEW p \in Pools, SameLive(p),
           task[m].at \notin Unloading, task'[m].at \notin Unloading,
           home'[m] = home[m], kept \subseteq kept',
           task[m].pool = NoPool \/ task[m].pool \in kept',
           Live(p) /\ home[m] = p /\ task'[m].at \in {"load", "refused"}
              /\ hash'[m] = task'[m].env => task'[m].pool = p
    PROVE  TrackedOwn(m, p)
  <1>1. Holds(m, p)' <=> Holds(m, p)
    BY DEF Holds
  <1>2. TrackedPair(m, p)
    BY DEF TrackedInv
  <1>3. task'[m].at \notin {"unload", "notFound"}
    BY DEF Unloading
  <1>4. TrackedPair(m, p)'
    <2> HIDE DEF Holds, Live
    <2> QED
      BY <1>1, <1>2, <1>3 DEF TrackedPair, SameLive
  <1>5. Live(p) /\ p \notin kept' /\ Uses(m, p) => Uses(m, p)'
    BY PoolNumbers DEF Uses
  <1> QED
    BY <1>4, <1>5 DEF TrackedOwn

LEMMA LoadTracked ==
    ASSUME RefInv, TrackedInv, NEW m \in Models, NEW env \in EnvsOrNone, Load(m, env)
    PROVE  TrackedInv'
  <1>1. /\ task[m].at = "idle" /\ task'[m].env = env
        /\ task'[m].at \in {"hash", "load", "refused"}
        /\ task'[m].at # "hash" => env = NoEnv
        /\ UNCHANGED <<pools, closers, pool, home, hash, raced, kept>> /\ OthersKept(m)
    BY LoadEffect, LoadRefs DEF Load
  <1>2. task[m].pool = NoPool
    BY <1>1 DEF RefInv, PoolRefs, TaskShape, Idle
  <1>3. ASSUME NEW p \in Pools, Live(p), home[m] = p PROVE hash[m] # NoEnv
    BY <1>3, LivePool DEF RefInv, PoolRefs, PoolOf
  <1>4. \A p \in Pools : SameLive(p)
    BY <1>1 DEF SameLive, Live, Created
  <1>5. ASSUME NEW p \in Pools PROVE TrackedOwn(m, p)
    BY <1>1, <1>2, <1>3, <1>4, LoadingTracked DEF Unloading
  <1> QED
    BY <1>1, <1>5, SameTracked

LEMMA FindPoolTracked ==
    ASSUME RefInv, TrackedInv, NEW m \in Models, FindPool(m),
           FoundPool(m) \/ StartsExtracting(m)
    PROVE  TrackedInv'
  <1>1. /\ task[m].at = "hash" /\ OthersKept(m) /\ home' = home /\ hash' = hash
        /\ UNCHANGED <<pools, pool, closers, raced, kept>>
    BY FindPoolCases, FindPoolRefs DEF modelVars, FoundPool, StartsExtracting
  <1>2. PICK e \in Envs : e = task[m].env /\ task[m].pool = NoPool
    BY <1>1 DEF RefInv, PoolRefs, TaskShape
  <1>3. task \in [Models -> Tasks] /\ task[m] \in Tasks
    BY DEF RefInv, TypeOK
  <1>4. /\ task'[m].at \notin Unloading /\ task'[m].env = e
        /\ task'[m].at \in {"load", "refused"} => task'[m].pool = pools[e]
    <2>1. CASE FoundPool(m)
      <3>1. pools[e] \in Pools
        BY <1>2, <2>1, PoolOfCreated DEF FoundPool, Known, RefInv, PoolRefs, TypeOK
      <3>2. task'[m] = SendLoad(task[m], pools[e])
        BY <1>2, <1>3, <2>1 DEF FoundPool
      <3> QED
        BY <1>2, <1>3, <3>1, <3>2, SendLoadEffect DEF RefInv, Unloading
    <2>2. CASE StartsExtracting(m)
      BY <1>2, <1>3, <2>2 DEF StartsExtracting, Tasks, Unloading
    <2> QED
      BY <2>1, <2>2
  <1>5. ASSUME NEW p \in Pools, Live(p), home[m] = p, hash[m] = e PROVE pools[e] = p
    <2>1. pool[p].env = e
      BY <1>5, PoolNumbers DEF RefInv, PoolRefs, PoolOf
    <2> QED
      BY <1>5, <2>1 DEF TrackedInv, RegisteredLive
  <1>6. \A p \in Pools : SameLive(p)
    BY <1>1 DEF SameLive, Live, Created
  <1>7. ASSUME NEW p \in Pools PROVE TrackedOwn(m, p)
    BY <1>1, <1>2, <1>4, <1>5, <1>6, LoadingTracked DEF Unloading
  <1> QED
    BY <1>1, <1>7, SameTracked

LEMMA FailsTracked ==
    ASSUME RefInv, TrackedInv, NEW m \in Models, ExtractRaises(m) \/ LoadRaises(m)
    PROVE  TrackedInv'
  <1>1. /\ task[m].at \in Loading /\ task'[m] = Idle /\ home' = home
        /\ UNCHANGED <<pools, pool, closers, raced>> /\ kept \subseteq kept'
        /\ task[m].pool = NoPool \/ task[m].pool \in kept'
    BY DEF ExtractRaises, LoadRaises, Loading, Fail, End, modelVars, registryVars, RefInv,
           TypeOK, PoolRefs, TaskShape
  <1>2. OthersKept(m)
    BY FailRefs DEF ExtractRaises, LoadRaises, Loading
  <1>3. task'[m].at = "idle" /\ task[m].at \notin Unloading
    BY <1>1 DEF Idle, Loading, Unloading
  <1>4. \A p \in Pools : SameLive(p)
    BY <1>1 DEF SameLive, Live, Created
  <1>5. ASSUME NEW p \in Pools PROVE TrackedOwn(m, p)
    BY <1>1, <1>3, <1>4, LoadingTracked DEF Unloading
  <1> QED
    BY <1>1, <1>2, <1>5, SameTracked

\* The unload of a model is sent to the live pool that holds it
LEMMA SendUnloadTracked ==
    ASSUME RefInv, TrackedInv, NEW m \in Models, NEW op \in {"unload", "reload"},
           NEW env \in EnvsOrNone, SendUnload(m, op, env), NEW p \in Pools, Live(p),
           pool[p].env = env
    PROVE  task'[m].at = "unload" /\ task'[m].from = p
  <1>1. env \in Envs /\ pools[env] = p /\ pool[p].state = "up"
    BY LivePool DEF TrackedInv, RegisteredLive, Live
  <1>2. Registered(env) = p
    BY <1>1, LivePool DEF Registered
  <1> QED
    BY <1>1, <1>2, SendUnloadEffect, PoolNumbers DEF RefInv

LEMMA UnloadTracked ==
    ASSUME RefInv, TrackedInv, NEW m \in Models, Unload(m)
    PROVE  TrackedInv'
  <1>1. /\ UNCHANGED <<pools, closers, pool, home, hash, raced, kept>> /\ OthersKept(m)
        /\ hash[m] \in EnvsOrNone /\ task[m].at = "idle"
    BY UnloadRefs DEF Unload, registryVars, modelVars, RefInv, TypeOK
  <1>2. task[m].pool = NoPool
    BY <1>1 DEF RefInv, PoolRefs, TaskShape, Idle
  <1>3. PICK env \in EnvsOrNone : env = hash[m] /\ SendUnload(m, "unload", env)
    BY <1>1 DEF Unload
  <1>4. task'[m].at \in {"unload", "notFound"} /\ task'[m].pool = NoPool
    BY <1>2, <1>3, SendUnloadEffect DEF RefInv
  <1>5. ASSUME NEW p \in Pools PROVE TrackedOwn(m, p)
    <2>1. Holds(m, p)' <=> Holds(m, p)
      BY <1>1, <1>2, <1>4, PoolNumbers DEF Holds, Unloading
    <2>2. Live(p)' <=> Live(p)
      BY <1>1 DEF Live, Created
    <2>3. Live(p) /\ pool[p].env = hash[m] => task'[m].at = "unload" /\ task'[m].from = p
      BY <1>3, SendUnloadTracked
    <2>4. Uses(m, p) => Uses(m, p)'
      BY <1>1, <1>2, PoolNumbers DEF Uses
    <2>5. TrackedPair(m, p)
      BY DEF TrackedInv
    <2> HIDE DEF Holds, Live
    <2>6. TrackedPair(m, p)'
      BY <1>1, <1>4, <2>1, <2>2, <2>3, <2>5 DEF TrackedPair
    <2> QED
      BY <2>4, <2>6 DEF TrackedOwn
  <1> QED
    BY <1>1, <1>5, SameTracked

\* An unload that is over has left the pool it was sent to, and a reload is where it
\* loaded
LEMMA OverTracked ==
    ASSUME RefInv, TrackedInv, NEW m \in Models, Over(m), NEW p \in Pools, SameLive(p),
           Live(p) /\ Holds(m, p) /\ pool[p].env = hash[m] => Stuck(m)
    PROVE  TrackedOwn(m, p)
  <1>1. /\ task'[m].at = "idle" /\ task'[m].pool = NoPool /\ task[m].at \in Unloading
        /\ NoPool # p
    BY PoolNumbers DEF Over, Idle, RefInv, TypeOK
  <1>2. Holds(m, p)' <=> home'[m] = p
    BY <1>1 DEF Holds, Unloading
  <1>3. Uses(m, p) <=> Holds(m, p)
    BY <1>1 DEF Uses, Holds
  <1>4. Uses(m, p)' <=> home'[m] = p
    BY <1>1 DEF Uses
  <1>5. TrackedPair(m, p)
    BY DEF TrackedInv
  <1>6. Holds(m, p) => pool[p].env = hash[m] \/ (task[m].op = "reload" /\ task[m].pool = p)
    BY HoldsWhere
  <1>7. CASE Left(m)
    <2>1. home'[m] = NoPool /\ kept' = kept /\ ~Stuck(m)
      BY <1>7 DEF Left, Stuck, RefInv, TypeOK
    <2>2. Live(p) => ~Holds(m, p)
      BY <1>6, <1>7, <2>1 DEF Left
    <2> HIDE DEF Holds, Uses, Live
    <2> QED
      BY <1>1, <1>2, <1>3, <1>5, <2>1, <2>2 DEF TrackedOwn, TrackedPair, SameLive
  <1>8. CASE Moved(m) /\ ~Stuck(m)
    <2>1. home'[m] = task[m].pool /\ kept' = kept
      BY <1>8 DEF Moved, RefInv, TypeOK
    <2>2. task[m].pool = p => Holds(m, p)
      BY <1>1 DEF Holds
    <2>3. Live(p) /\ Holds(m, p) => task[m].pool = p
      BY <1>6, <1>8
    <2> HIDE DEF Holds, Uses, Live
    <2> QED
      BY <1>1, <1>2, <1>3, <1>4, <1>5, <2>1, <2>2, <2>3
      DEF TrackedOwn, TrackedPair, SameLive
  <1>9. CASE Stuck(m)
    <2>1. home'[m] = home[m] /\ kept' = kept \cup {task[m].pool}
      BY <1>9 DEF Stuck
    <2>2. /\ home[m] = p => Holds(m, p)
          /\ Holds(m, p) => home[m] = p \/ p \in kept'
      BY <2>1 DEF Holds
    <2> HIDE DEF Holds, Uses, Live
    <2> QED
      BY <1>1, <1>2, <1>3, <1>4, <1>5, <2>1, <2>2 DEF TrackedOwn, TrackedPair, SameLive
  <1> QED
    BY <1>7, <1>8, <1>9 DEF Over

LEMMA UnloadRaisesTracked ==
    ASSUME RefInv, TrackedInv, NEW m \in Models, UnloadRaises(m)
    PROVE  TrackedInv'
  <1>1. Over(m) /\ OthersKept(m) /\ UNCHANGED <<pools, closers, pool, raced>>
    BY UnloadOver, UnloadRaisesRefs DEF UnloadRaises, Unloading, registryVars
  <1>2. kept \subseteq kept'
    BY <1>1 DEF Over, Left, Moved, Stuck
  <1>3. ASSUME NEW p \in Pools PROVE TrackedOwn(m, p)
    <2>1. SameLive(p)
      BY <1>1 DEF SameLive, Live, Created
    <2>2. ~(Live(p) /\ Holds(m, p) /\ pool[p].env = hash[m])
      <3>1. SUFFICES ASSUME Live(p), Holds(m, p), pool[p].env = hash[m] PROVE FALSE
        OBVIOUS
      <3>2. m \in pool[p].has /\ task[m].at = "unload" /\ task[m].from = p
        BY <3>1 DEF TrackedInv, TrackedPair, UnloadRaises
      <3> QED
        BY <3>1, <3>2 DEF UnloadRaises, Live
    <2> QED
      BY <1>1, <2>1, <2>2, OverTracked
  <1> QED
    BY <1>1, <1>2, <1>3, SameTracked

\* An empty pool that is not registered is not live
LEMMA FindsNoPoolTracked ==
    ASSUME RefInv, TrackedInv, NEW m \in Models, EmptyPool(m), FindsNoPool(m)
    PROVE  TrackedInv'
  <1>1. /\ task[m].at = "unload" /\ pool[task[m].from].env = hash[m]
        /\ pools[hash[m]] = NoPool /\ UNCHANGED <<pools, closers, raced>> /\ OthersKept(m)
    BY EmptyPoolCases, EmptyPoolRefs DEF FindsNoPool
  <1>2. Over(m) /\ kept \subseteq kept'
    <2>1. Over(m)
      BY <1>1, UnloadOver DEF FindsNoPool, Unloading
    <2> QED
      BY <2>1 DEF Over, Left, Moved, Stuck
  <1>3. PICK q \in Pools : q = task[m].from
    BY EmptyPoolCases
  <1>4. \A p \in Pools : Live(p) => pool[p].env # hash[m]
    BY <1>1, LivePool DEF TrackedInv, RegisteredLive
  <1>5. PoolSteady /\ \A p \in Pools \ {q} : pool'[p] = pool[p]
    <2>1. NewContents(q, pool[q].count - 1, pool[q].has \ {m})
      BY <1>3 DEF FindsNoPool
    <2> QED
      BY <2>1, RemovedSteady DEF RefInv
  <1>6. ASSUME NEW p \in Pools PROVE SameLive(p)
    <2>1. Live(p)' => Live(p)
      BY <1>1, <1>5 DEF Live, Created, PoolSteady
    <2>2. Live(p)' => p # q
      BY <1>1, <1>3, <1>4, <2>1
    <2> HIDE DEF Live
    <2> QED
      BY <1>5, <2>1, <2>2 DEF SameLive
  <1>7. ASSUME NEW p \in Pools PROVE TrackedOwn(m, p)
    BY <1>2, <1>4, <1>6, OverTracked
  <1>8. RegisteredLive' /\ ClosersAlone'
    BY <1>1, <1>6, SameLiveRegistered DEF TrackedInv, ClosersAlone
  <1> QED
    BY <1>1, <1>2, <1>6, <1>7, <1>8, TrackedStep

\* The live pool of an environment is the one that is stopped when it becomes empty
LEMMA ClosesPoolTracked ==
    ASSUME RefInv, TrackedInv, NEW m \in Models, EmptyPool(m), ClosesPool(m, pools[hash[m]])
    PROVE  TrackedInv'
  <1>1. /\ task[m].at = "unload" /\ hash[m] \in Envs /\ task[m].from \in Pools
        /\ pool[task[m].from].env = hash[m] /\ UNCHANGED pools /\ OthersKept(m)
    BY EmptyPoolCases, EmptyPoolRefs
  <1>2. PICK q \in Pools : q = task[m].from
    BY <1>1
  <1>3. PICK e \in Envs : e = hash[m]
    BY <1>1
  <1>4. PICK c \in Pools : c = pools[e] /\ PoolOf(c, e) /\ ClosesPool(m, c)
    <2>1. PoolOf(pools[e], e)
      BY <1>3 DEF ClosesPool, RefInv, PoolRefs
    <2> QED
      BY <1>3, <2>1 DEF PoolOf, Created
  <1>5. /\ PoolSteady /\ pool'[c].state # "up"
        /\ \A p \in Pools : p # q => pool'[p].has = pool[p].has
                                     /\ pool'[p].count = pool[p].count
        /\ \A p \in Pools : p # c => pool'[p].state = pool[p].state
    BY <1>2, <1>4, ClosesPoolEffect DEF RefInv
  <1> DEFINE new == [by |-> m, env |-> e, pool |-> c]
  <1>6. /\ UNCHANGED <<home, hash, kept>> /\ closers' = closers \cup {new}
        /\ task' = [task EXCEPT ![m].at = "closing"]
        /\ raced' = raced \cup {f \in {e} : \E x \in closers : x.env = f}
    BY <1>3, <1>4 DEF ClosesPool, modelVars
  <1>7. new.env = e /\ new.pool = c
    OBVIOUS
  <1> HIDE DEF new
  <1>8. task'[m].at = "closing" /\ task'[m].pool = task[m].pool
    BY <1>6 DEF RefInv, TypeOK, Tasks
  <1>9. ASSUME NEW p \in Pools, Live(p)' PROVE Live(p) /\ pool[p].env # e
    <2>1. Live(p)
      BY <1>5, <1>6, <1>9 DEF Live, Created, PoolSteady
    <2>2. pool[p].env = e => p = c
      BY <1>4, <2>1 DEF TrackedInv, RegisteredLive
    <2> QED
      BY <1>5, <1>9, <2>1, <2>2 DEF Live
  <1>10. ASSUME NEW p \in Pools PROVE SameLive(p)
    <2>1. SUFFICES ASSUME Live(p)'
                   PROVE  /\ Live(p) /\ pool'[p].env = pool[p].env
                          /\ pool'[p].count = pool[p].count /\ pool'[p].has = pool[p].has
      BY DEF SameLive
    <2>2. Live(p) /\ p # q
      BY <1>1, <1>2, <1>3, <1>9, <2>1
    <2> QED
      BY <1>5, <2>2 DEF PoolSteady
  <1>11. ASSUME NEW p \in Pools PROVE TrackedOwn(m, p)
    <2>1. /\ Holds(m, p)' <=> Holds(m, p)
          /\ Uses(m, p)' <=> Uses(m, p)
      BY <1>1, <1>6, <1>8 DEF Holds, Uses, Unloading
    <2>2. TrackedPair(m, p) /\ SameLive(p)
      BY <1>10 DEF TrackedInv
    <2> HIDE DEF Holds, Uses, Live
    <2> QED
      BY <1>6, <1>8, <2>1, <2>2 DEF TrackedOwn, TrackedPair, SameLive
  <1>12. RegisteredLive'
    BY <1>1, <1>10, SameLiveRegistered DEF TrackedInv
  <1>13. ClosersAlone'
    <2>1. ASSUME NEW d \in closers', d.env \notin raced'
          PROVE  pools[d.env] = d.pool /\ \A g \in closers' : g.env = d.env => g = d
      <3>1. CASE d.env = e
        <4>1. \A g \in closers : g.env # e
          BY <1>6, <2>1, <3>1
        <4> QED
          BY <1>4, <1>6, <1>7, <2>1, <3>1, <4>1
      <3>2. CASE d.env # e
        BY <1>6, <1>7, <2>1, <3>2 DEF TrackedInv, ClosersAlone
      <3> QED
        BY <3>1, <3>2
    <2>2. \A d \in closers' : d.env \in Envs
      BY <1>6, <1>7 DEF TrackedInv, ClosersAlone
    <2> QED
      BY <1>1, <2>1, <2>2 DEF ClosersAlone
  <1> QED
    BY <1>1, <1>6, <1>10, <1>11, <1>12, <1>13, TrackedStep

LEMMA ClearWorkersTracked ==
    ASSUME RefInv, TrackedInv, NEW c \in closers, ClearWorkers(c)
    PROVE  TrackedInv'
  <1>1. /\ UNCHANGED <<pools, closers, raced, kept>> /\ pool[c.pool].state = "stopping"
        /\ pool' = [pool EXCEPT ![c.pool].state = "stopped"]
        /\ OthersKept("server") /\ PoolSteady
    BY ClearWorkersRefs DEF ClearWorkers, registryVars, histories
  <1>2. PICK q \in Pools : q = c.pool
    BY DEF RefInv, TypeOK
  <1>3. pool[q].state = "stopping" /\ \A p \in Pools \ {q} : pool'[p] = pool[p]
    BY <1>1, <1>2 DEF RefInv, TypeOK
  <1>4. ASSUME NEW p \in Pools PROVE SameLive(p)
    BY <1>1, <1>3 DEF SameLive, Live, Created, PoolSteady
  <1>5. RegisteredLive' /\ ClosersAlone'
    BY <1>1, <1>4, SameLiveRegistered DEF TrackedInv, ClosersAlone
  <1> QED
    BY <1>1, <1>4, <1>5, TrackedStep, PoolAssumption

\* The entry that goes is the one of the pool that was closed
LEMMA CloseEndsTracked ==
    ASSUME RefInv, TrackedInv, NEW c \in closers, CloseEnds(c)
    PROVE  TrackedInv'
  <1>1. PICK m : m = c.by
    OBVIOUS
  <1>2. /\ closers' = closers \ {c} /\ pool' = pool /\ raced' = raced /\ OthersKept(m)
        /\ m \in Models => Over(m) /\ hash[m] = c.env
        /\ m \notin Models => UNCHANGED kept
    BY <1>1, CloseEndsRefs DEF CloseEnds, RefInv, Closing
  <1>3. \A f \in Envs : f # c.env => pools'[f] = pools[f]
    BY DEF CloseEnds, RefInv, TypeOK
  <1>4. kept \subseteq kept'
    BY <1>2 DEF Over, Left, Moved, Stuck
  <1>5. ASSUME NEW p \in Pools, Live(p) PROVE pool[p].env # c.env
    <2>1. SUFFICES ASSUME pool[p].env = c.env PROVE FALSE
      OBVIOUS
    <2>2. c.env \notin raced /\ pools[c.env] = p /\ pool[p].state = "up"
      BY <1>5, <2>1 DEF TrackedInv, RegisteredLive, Live
    <2>3. pools[c.env] = c.pool
      BY <2>2 DEF TrackedInv, ClosersAlone
    <2> QED
      BY <2>2, <2>3 DEF RefInv, Closing
  <1>6. \A p \in Pools : SameLive(p)
    BY <1>2 DEF SameLive, Live, Created
  <1>7. m \in Models => \A p \in Pools : TrackedOwn(m, p)
    BY <1>2, <1>5, <1>6, OverTracked
  <1>8. RegisteredLive'
    <2>1. ASSUME NEW p \in Pools, Live(p)' PROVE pools'[pool[p].env] = p
      <3>1. Live(p) /\ pool[p].env \in Envs
        BY <1>6, <2>1, LivePool DEF SameLive
      <3> QED
        BY <1>3, <1>5, <3>1 DEF TrackedInv, RegisteredLive
    <2> QED
      BY <1>2, <2>1 DEF RegisteredLive
  <1>9. ClosersAlone'
    <2>1. ASSUME NEW d \in closers', d.env \notin raced
          PROVE  pools'[d.env] = d.pool /\ \A g \in closers' : g.env = d.env => g = d
      <3>1. d \in closers /\ d # c /\ d.env # c.env
        BY <1>2, <2>1 DEF TrackedInv, ClosersAlone
      <3>2. pools'[d.env] = pools[d.env]
        BY <1>3, <3>1 DEF TrackedInv, ClosersAlone
      <3> QED
        BY <1>2, <2>1, <3>1, <3>2 DEF TrackedInv, ClosersAlone
    <2>2. \A d \in closers' : d.env \in Envs
      BY <1>2 DEF TrackedInv, ClosersAlone
    <2> QED
      BY <1>2, <2>1, <2>2 DEF ClosersAlone
  <1> QED
    BY <1>2, <1>4, <1>6, <1>7, <1>8, <1>9, TrackedStep

\* A new pool is the only live one of its environment, and nobody closes it
LEMMA CreateTracked ==
    ASSUME RefInv, TrackedInv, NEW m \in Creating, CreatePool(m), OthersKept(m),
           UNCHANGED <<closers, modelVars, kept>>,
           task[m].env \notin raced => pools[task[m].env] = NoPool
    PROVE  TrackedInv'
  <1>0. m \in Models /\ task[m].at \in {"hash", "extract"}
    BY DEF Creating
  <1>1. PICK e \in Envs : e = task[m].env /\ task[m].pool = NoPool
    BY <1>0 DEF RefInv, PoolRefs, TaskShape
  <1> DEFINE new == [env |-> e, whole |-> folder'[e] = "complete", count |-> 0,
                     has |-> {}, state |-> "up"]
  <1>2. PICK n \in Pools \ Created :
            /\ pool' = [pool EXCEPT ![n] = new]
            /\ pools' = [pools EXCEPT ![e] = n]
            /\ task' = [task EXCEPT ![m].at = "load", ![m].pool = n]
            /\ raced' = raced \cup {f \in {e} : \E x \in Models \ {m} :
                                       task[x].at = "extract" /\ task[x].env = f}
    BY <1>1, CreatePoolEffect
  <1>3. new.state = "up" /\ new.has = {} /\ new.count = 0 /\ new.env = e
    OBVIOUS
  <1> HIDE DEF new
  <1>4. /\ pool'[n] = new /\ \A p \in Pools \ {n} : pool'[p] = pool[p]
        /\ pools'[e] = n /\ \A f \in Envs \ {e} : pools'[f] = pools[f]
        /\ n # NoPool /\ n \notin Created
    BY <1>2, PoolNumbers DEF RefInv, TypeOK
  <1>5. /\ task'[m].at = "load" /\ task'[m].pool = n /\ task'[m].env = task[m].env
        /\ UNCHANGED <<home, hash>>
    BY <1>0, <1>2 DEF RefInv, TypeOK, Tasks, modelVars
  <1>6. ASSUME e \notin raced' PROVE pools[e] = NoPool /\ \A c \in closers : c.env # e
    <2>1. pools[e] = NoPool /\ e \notin raced
      BY <1>1, <1>2, <1>6
    <2> QED
      BY <2>1, PoolNumbers DEF TrackedInv, ClosersAlone, RefInv, TypeOK
  <1>7. ASSUME NEW p \in Pools, p # n, Live(p)'
        PROVE  Live(p) /\ pool[p].env # e
    <2>1. Live(p)
      BY <1>2, <1>4, <1>7 DEF Live, Created
    <2>2. pool[p].env = e => e \in raced'
      BY <1>6, <2>1, LivePool DEF TrackedInv, RegisteredLive
    <2> QED
      BY <1>4, <1>7, <2>1, <2>2 DEF Live
  <1>8. RegisteredLive'
    <2>1. ASSUME NEW p \in Pools, Live(p)' PROVE pools'[pool'[p].env] = p
      <3>1. CASE p = n
        BY <1>3, <1>4, <3>1
      <3>2. CASE p # n
        <4>1. Live(p) /\ pool[p].env \in Envs \ {e}
          BY <1>7, <2>1, <3>2, LivePool
        <4> QED
          BY <1>4, <3>2, <4>1 DEF TrackedInv, RegisteredLive
      <3> QED
        BY <3>1, <3>2
    <2> QED
      BY <2>1 DEF RegisteredLive
  <1>9. ClosersAlone'
    <2>1. ASSUME NEW c \in closers, c.env \notin raced' PROVE c.env \in Envs \ {e}
      BY <1>6, <2>1 DEF TrackedInv, ClosersAlone
    <2>2. raced \subseteq raced'
      BY <1>2
    <2> QED
      BY <1>4, <2>1, <2>2 DEF TrackedInv, ClosersAlone
  <1>10. ASSUME NEW x \in Models
         PROVE  ~Holds(x, n)' /\ home'[x] # n
    <2>1. home[x] # n
      BY <1>4 DEF RefInv, PoolRefs, PoolOf
    <2>2. x # m => task[x].pool # n
      BY <1>4 DEF RefInv, PoolRefs, TaskShape, PoolOf
    <2> QED
      BY <1>5, <2>1, <2>2 DEF Holds, OthersKept, Unloading
  <1>11. ASSUME NEW x \in Models, NEW p \in Pools PROVE TrackedPair(x, p)'
    <2>1. CASE p = n
      BY <1>3, <1>4, <1>10, <2>1 DEF TrackedPair
    <2>2. CASE p # n /\ x # m
      BY <1>4, <1>7, <2>2, PairKept DEF OthersKept, TrackedInv
    <2>3. CASE p # n /\ x = m
      <3>1. Live(p)' => Live(p) /\ pool'[p] = pool[p] /\ pool[p].env # e
        BY <1>4, <1>7, <2>3
      <3>2. Holds(m, p)' <=> Holds(m, p)
        BY <1>0, <1>5, <2>3 DEF Holds, Unloading
      <3>3. home[m] = p => pool[p].env = hash[m]
        BY <1>0, PoolNumbers DEF RefInv, PoolRefs, PoolOf
      <3>4. TrackedPair(m, p)
        BY <1>0 DEF TrackedInv
      <3> HIDE DEF Holds, Live
      <3> QED
        BY <1>0, <1>1, <1>5, <2>3, <3>1, <3>2, <3>3, <3>4 DEF TrackedPair
    <2> QED
      BY <2>1, <2>2, <2>3
  <1>12. ASSUME NEW p \in Pools PROVE TrackedPool(p)'
    <2>1. CASE p = n
      <3>1. Uses(m, n)' /\ Cardinality({}) = 0
        BY <1>5, FS_EmptySet DEF Uses
      <3> QED
        BY <1>0, <1>3, <1>4, <2>1, <3>1 DEF TrackedPool
    <2>2. CASE p # n
      <3>1. SUFFICES ASSUME Live(p)', p \notin kept'
                     PROVE  /\ pool'[p].count = Cardinality(pool'[p].has)
                            /\ \E x \in Models : Uses(x, p)'
        BY DEF TrackedPool
      <3>2. Live(p) /\ p # NoPool /\ pool'[p] = pool[p] /\ p \notin kept
        BY <1>4, <1>7, <2>2, <3>1, LivePool
      <3>3. PICK x \in Models : Uses(x, p)
        BY <3>2 DEF TrackedInv, TrackedPool
      <3>4. Uses(x, p)'
        BY <1>1, <1>5, <3>2, <3>3 DEF Uses, OthersKept
      <3> QED
        BY <3>2, <3>4 DEF TrackedInv, TrackedPool
    <2> QED
      BY <2>1, <2>2
  <1> QED
    BY <1>8, <1>9, <1>11, <1>12 DEF TrackedInv

LEMMA CreatesTracked ==
    ASSUME RefInv, WholeInv, TrackedInv, NEW m \in Models, FindPool(m) \/ Extracted(m)
    PROVE  TrackedInv'
  <1>1. CASE FoundDir(m) /\ FindPool(m)
    <2>1. m \in Creating /\ CreatePool(m) /\ pools[task[m].env] = NoPool
      BY <1>1, FindPoolCases DEF Creating, FoundDir, Known
    <2> QED
      BY <1>1, <2>1, FindPoolCases, FindPoolRefs, CreateTracked
  <1>2. CASE Extracted(m)
    <2>1. m \in Creating /\ CreatePool(m) /\ task[m].at = "extract" /\ task[m].env \in Envs
      BY <1>2 DEF Extracted, Creating, RefInv, PoolRefs, TaskShape
    <2>2. task[m].env \notin raced => pools[task[m].env] = NoPool
      BY <2>1 DEF WholeInv, Extracting
    <2> QED
      BY <1>2, <2>1, <2>2, ExtractedRefs, CreateTracked DEF Extracted
  <1> QED
    BY <1>1, <1>2, FindPoolCases, FindPoolTracked

\* A model that its pool had not got is one more there
LEMMA LoadedTracked ==
    ASSUME RefInv, ServedInv, TrackedInv, NEW m \in Models, OthersKept(m),
           NEW q \in Pools, q = task[m].pool, Loaded(m), UNCHANGED <<pools, closers, raced>>,
           \A p \in Pools : TrackedPair(m, p)', Uses(m, q)',
           \A p \in Pools \ {q} : Live(p) /\ Uses(m, p) => Uses(m, p)'
    PROVE  TrackedInv'
  <1>1. /\ PoolSteady /\ \A p \in Pools \ {q} : pool'[p] = pool[p]
        /\ pool'[q] = [pool[q] EXCEPT !.count = pool[q].count + 1,
                                      !.has = pool[q].has \cup {m}]
        /\ kept' = IF m \in pool[q].has THEN kept \cup {q} ELSE kept
    BY LoadedSteady DEF RefInv
  <1>2. /\ pool'[q].count = pool[q].count + 1 /\ pool'[q].has = pool[q].has \cup {m}
        /\ pool'[q].state = pool[q].state /\ pool'[q].env = pool[q].env
        /\ kept \subseteq kept'
    BY <1>1 DEF RefInv, TypeOK, PoolRecords
  <1>3. \A p \in Pools : Live(p)' <=> Live(p)
    BY <1>1, <1>2 DEF Live, Created
  <1>4. RegisteredLive' /\ ClosersAlone'
    <2>1. RegisteredLive'
      BY <1>1, <1>3 DEF TrackedInv, RegisteredLive, PoolSteady
    <2> QED
      BY <2>1 DEF TrackedInv, ClosersAlone
  <1>5. ASSUME NEW x \in Models, NEW p \in Pools PROVE TrackedPair(x, p)'
    <2>1. CASE x = m
      BY <2>1
    <2>2. CASE x # m
      <3>1. /\ pool'[p].env = pool[p].env
            /\ x \in pool'[p].has <=> x \in pool[p].has
        BY <1>1, <1>2, <2>2 DEF PoolSteady
      <3> HIDE DEF Live
      <3> QED
        BY <1>2, <1>3, <2>2, <3>1, PairKept DEF OthersKept, TrackedInv
    <2> QED
      BY <2>1, <2>2
  <1>6. ASSUME NEW p \in Pools PROVE TrackedPool(p)'
    <2>1. SUFFICES ASSUME Live(p)', p \notin kept'
                   PROVE  /\ pool'[p].count = Cardinality(pool'[p].has)
                          /\ \E x \in Models : Uses(x, p)'
      BY DEF TrackedPool
    <2>2. /\ pool[p].count = Cardinality(pool[p].has)
          /\ \E x \in Models : Uses(x, p)
      <3>1. Live(p) /\ p \notin kept
        BY <1>2, <1>3, <2>1
      <3> QED
        BY <3>1 DEF TrackedInv, TrackedPool
    <2>3. CASE p = q
      <3>1. m \notin pool[q].has
        BY <1>1, <2>1, <2>3
      <3>2. IsFiniteSet(pool[q].has)
        BY <1>3, <2>1, <2>3 DEF ServedInv, Counts, Live
      <3>3. Cardinality(pool[q].has \cup {m}) = Cardinality(pool[q].has) + 1
        BY <3>1, <3>2, FS_AddElement
      <3> QED
        BY <1>2, <2>2, <2>3, <3>3
    <2>4. CASE p # q
      <3>1. PICK x \in Models : Uses(x, p)
        BY <2>2
      <3>2. Uses(x, p)'
        BY <1>3, <2>1, <2>4, <3>1 DEF Uses, OthersKept
      <3> QED
        BY <1>1, <2>2, <2>4, <3>2
    <2> QED
      BY <2>3, <2>4
  <1> QED
    BY <1>4, <1>5, <1>6 DEF TrackedInv

LEMMA LoadReturnsTracked ==
    ASSUME RefInv, ServedInv, TrackedInv, NEW m \in Models, LoadReturns(m)
    PROVE  TrackedInv'
  <1>1. /\ task[m].at = "load" /\ Loaded(m) /\ task'[m] = Idle /\ OthersKept(m)
        /\ home'[m] = task[m].pool /\ UNCHANGED <<pools, closers, raced>>
        /\ task[m].op = "load" \/ hash[m] = task[m].env
    BY LoadReturnsRefs DEF LoadReturns, Loaded, Keep, End, registryVars, RefInv, TypeOK
  <1>2. /\ task[m].pool \in Pools
        /\ task[m].op = "load" => home[m] = NoPool
    BY <1>1, LoadedPool
  <1>3. PICK q \in Pools : q = task[m].pool
    BY <1>2
  <1>4. /\ PoolSteady /\ \A p \in Pools \ {q} : pool'[p] = pool[p]
        /\ pool'[q] = [pool[q] EXCEPT !.count = pool[q].count + 1,
                                      !.has = pool[q].has \cup {m}]
        /\ kept' = IF m \in pool[q].has THEN kept \cup {q} ELSE kept
    BY <1>1, <1>3, LoadedSteady DEF RefInv
  <1>5. m \in pool'[q].has /\ kept \subseteq kept'
    BY <1>4 DEF RefInv, TypeOK, PoolRecords
  <1>6. /\ task'[m].at = "idle" /\ task'[m].pool = NoPool
        /\ \A p \in Pools : p # NoPool
    BY <1>1, PoolNumbers DEF Idle
  <1>7. \A p \in Pools : Holds(m, p)' <=> p = q
    BY <1>1, <1>3, <1>6 DEF Holds, Unloading
  <1>8. ASSUME NEW p \in Pools, p # q, Live(p) PROVE ~Uses(m, p) /\ ~Holds(m, p)
    <2>1. home[m] = p => task[m].pool = p
      BY <1>1, <1>2, <1>6, <1>8 DEF TrackedInv, TrackedPair
    <2> QED
      BY <1>3, <1>8, <2>1 DEF Uses, Holds
  <1>9. ASSUME NEW p \in Pools PROVE TrackedPair(m, p)'
    <2>1. CASE p = q
      <3> HIDE DEF Holds, Live
      <3> QED
        BY <1>5, <1>6, <1>7, <2>1 DEF TrackedPair
    <2>2. CASE p # q
      <3>1. Live(p)' => Live(p) /\ pool'[p] = pool[p]
        BY <1>1, <1>4, <2>2 DEF Live, Created
      <3>2. Live(p) => ~Holds(m, p)
        BY <1>8, <2>2
      <3>3. TrackedPair(m, p)
        BY DEF TrackedInv
      <3>4. home'[m] # p
        BY <1>1, <1>3, <2>2
      <3> HIDE DEF Holds, Live
      <3> QED
        BY <1>5, <1>6, <1>7, <2>2, <3>1, <3>2, <3>3, <3>4 DEF TrackedPair
    <2> QED
      BY <2>1, <2>2
  <1>10. Uses(m, q)'
    BY <1>1, <1>3 DEF Uses
  <1> QED
    BY <1>1, <1>3, <1>8, <1>9, <1>10, LoadedTracked

LEMMA LoadGoesOnTracked ==
    ASSUME RefInv, ServedInv, TrackedInv, NEW m \in Models, LoadReplaces(m) \/ HookRaises(m)
    PROVE  TrackedInv'
  <1>1. /\ task[m].at = "load" /\ Loaded(m) /\ OthersKept(m)
        /\ UNCHANGED <<pools, closers, home, raced>>
    BY LoadGoesOnRefs DEF LoadReplaces, HookRaises, Loaded, registryVars, modelVars
  <1>2. /\ task[m].pool \in Pools /\ task[m].env \in EnvsOrNone
        /\ PoolOf(task[m].pool, task[m].env)
        /\ task[m].op = "load" => home[m] = NoPool
    BY <1>1, LoadedPool
  <1>3. PICK q \in Pools : q = task[m].pool
    BY <1>2
  <1>4. /\ PoolSteady /\ \A p \in Pools \ {q} : pool'[p] = pool[p]
        /\ pool'[q] = [pool[q] EXCEPT !.count = pool[q].count + 1,
                                      !.has = pool[q].has \cup {m}]
        /\ kept' = IF m \in pool[q].has THEN kept \cup {q} ELSE kept
    BY <1>1, <1>3, LoadedSteady DEF RefInv
  <1>5. /\ m \in pool'[q].has /\ kept \subseteq kept'
        /\ pool'[q].state = pool[q].state /\ pool'[q].env = pool[q].env
    BY <1>4 DEF RefInv, TypeOK, PoolRecords
  <1>6. PICK op \in {"unload", "reload"}, env \in EnvsOrNone :
            SendUnload(m, op, env) /\ hash'[m] = env
    BY <1>2 DEF LoadReplaces, HookRaises, modelVars, RefInv, TypeOK
  <1>7. /\ task'[m].pool = q /\ task'[m].at \in {"unload", "notFound"}
    BY <1>3, <1>6, SendUnloadEffect DEF RefInv
  <1>8. \A p \in Pools : Holds(m, p)' <=> home[m] = p \/ p = q
    BY <1>1, <1>7 DEF Holds, Unloading
  <1>9. \A p \in Pools : Live(p)' <=> Live(p)
    BY <1>1, <1>4, <1>5 DEF Live, Created
  <1>10. ASSUME NEW p \in Pools PROVE TrackedPair(m, p)'
    <2>1. Live(p) /\ pool[p].env = hash'[m] => task'[m].at = "unload" /\ task'[m].from = p
      BY <1>6, SendUnloadTracked
    <2>2. Holds(m, p) <=> home[m] = p
      BY <1>1 DEF Holds, Unloading
    <2>3. TrackedPair(m, p)
      BY DEF TrackedInv
    <2>4. pool'[p].env = pool[p].env /\ (p # q => pool'[p] = pool[p])
      BY <1>4, <1>5
    <2> HIDE DEF Holds, Live
    <2> QED
      BY <1>5, <1>7, <1>8, <1>9, <2>1, <2>2, <2>3, <2>4 DEF TrackedPair
  <1>11. Uses(m, q)' /\ \A p \in Pools \ {q} : Uses(m, p) => Uses(m, p)'
    BY <1>1, <1>3, <1>7 DEF Uses
  <1> QED
    BY <1>1, <1>3, <1>10, <1>11, LoadedTracked

\* A model leaves a pool that has others
LEMMA UnloadReturnsTracked ==
    ASSUME RefInv, ServedInv, TrackedInv, NEW m \in Models, UnloadReturns(m)
    PROVE  TrackedInv'
  <1>1. /\ Over(m) /\ OthersKept(m)
        /\ Left(m) \/ Moved(m)
        /\ task[m].at = "unload" /\ CanRemove(task[m].from, m)
        /\ UNCHANGED <<pools, closers, raced>> /\ pool' = Removed(task[m].from, m)
        /\ ~BecomesEmpty(task[m].from)
    BY UnloadReturnsRefs DEF UnloadReturns, registryVars
  <1>2. PICK q \in Pools : q = task[m].from
    BY <1>1, UnloadPool
  <1>3. /\ PoolSteady /\ \A p \in Pools \ {q} : pool'[p] = pool[p]
        /\ pool'[q] = [pool[q] EXCEPT !.count = pool[q].count - 1,
                                      !.has = pool[q].has \ {m}]
    <2>1. NewContents(q, pool[q].count - 1, pool[q].has \ {m})
      BY <1>1, <1>2 DEF Removed, NewContents
    <2> QED
      BY <2>1, RemovedSteady DEF RefInv
  <1>4. /\ pool'[q].state = pool[q].state /\ pool'[q].env = pool[q].env
        /\ pool'[q].count = pool[q].count - 1 /\ pool'[q].has = pool[q].has \ {m}
    BY <1>3 DEF RefInv, TypeOK, PoolRecords
  <1>5. kept' = kept
    BY <1>1 DEF Left, Moved
  <1>6. \A p \in Pools : Live(p)' <=> Live(p)
    BY <1>1, <1>3, <1>4 DEF Live, Created
  <1>7. ASSUME NEW p \in Pools, Live(p), Holds(m, p)
        PROVE  p = q \/ (task[m].op = "reload" /\ task[m].pool = p /\ p # q)
    <2>1. CASE pool[p].env = hash[m]
      BY <1>1, <1>2, <1>7, <2>1 DEF TrackedInv, TrackedPair
    <2>2. CASE pool[p].env # hash[m]
      BY <1>1, <1>2, <1>7, <2>2, HoldsWhere, UnloadPool
    <2> QED
      BY <2>1, <2>2
  <1>8. /\ task'[m].at = "idle" /\ task'[m].pool = NoPool
        /\ home'[m] = IF Moved(m) THEN task[m].pool ELSE NoPool
        /\ Moved(m) => task[m].op = "reload"
        /\ ~Moved(m) => task[m].op = "unload"
        /\ Moved(m) => task[m].pool # q /\ task[m].pool \in Pools
    <2>1. task[m].op = "reload" => task[m].pool # q /\ task[m].pool \in Pools
      BY <1>1, <1>2, OtherPool DEF Unloading
    <2>2. task'[m].at = "idle" /\ task'[m].pool = NoPool
      BY <1>1 DEF Over, Idle, RefInv, TypeOK
    <2>3. Moved(m) => home'[m] = task[m].pool /\ task[m].op = "reload"
      BY DEF Moved, RefInv, TypeOK
    <2>4. Left(m) => home'[m] = NoPool /\ task[m].op = "unload"
      BY DEF Left, RefInv, TypeOK
    <2>5. Moved(m) \/ Left(m)
      BY <1>1
    <2> HIDE DEF Moved, Left
    <2> QED
      BY <2>1, <2>2, <2>3, <2>4, <2>5
  <1>9. \A p \in Pools : /\ Holds(m, p)' <=> home'[m] = p
                         /\ Uses(m, p)' <=> home'[m] = p
                         /\ Uses(m, p) <=> Holds(m, p)
                         /\ task[m].pool = p => Holds(m, p)
    BY <1>1, <1>8, PoolNumbers DEF Holds, Uses, Unloading
  <1>10. \A p \in Pools : Live(p) /\ Holds(m, p) /\ p # q => home'[m] = p
    BY <1>7, <1>8
  <1>11. \A p \in Pools : home'[m] = p => p # q /\ Holds(m, p)
    BY <1>8, <1>9, PoolNumbers
  <1>12. ASSUME NEW x \in Models, NEW p \in Pools PROVE TrackedPair(x, p)'
    <2>1. TrackedPair(x, p)
      BY DEF TrackedInv
    <2>2. CASE x = m
      <3>1. CASE p = q
        <4>1. m \notin pool'[p].has /\ ~Holds(m, p)' /\ home'[m] # p
          BY <1>4, <1>9, <1>11, <3>1
        <4> HIDE DEF Holds, Live
        <4> QED
          BY <2>2, <4>1 DEF TrackedPair
      <3>2. CASE p # q
        <4>1. pool'[p] = pool[p]
          BY <1>3, <3>2
        <4> HIDE DEF Holds, Live
        <4> QED
          BY <1>5, <1>6, <1>8, <1>9, <1>10, <1>11, <2>1, <2>2, <3>2, <4>1 DEF TrackedPair
      <3> QED
        BY <3>1, <3>2
    <2>3. CASE x # m
      <3>1. /\ pool'[p].env = pool[p].env
            /\ x \in pool'[p].has <=> x \in pool[p].has
        BY <1>3, <1>4, <2>3
      <3> HIDE DEF Live
      <3> QED
        BY <1>1, <1>5, <1>6, <2>1, <2>3, <3>1, PairKept DEF OthersKept
    <2> QED
      BY <2>2, <2>3
  <1>13. ASSUME NEW p \in Pools PROVE TrackedPool(p)'
    <2>1. SUFFICES ASSUME Live(p)', p \notin kept'
                   PROVE  /\ pool'[p].count = Cardinality(pool'[p].has)
                          /\ \E x \in Models : Uses(x, p)'
      BY DEF TrackedPool
    <2>2. Live(p) /\ p \notin kept
      BY <1>5, <1>6, <2>1
    <2>3. /\ pool[p].count = Cardinality(pool[p].has)
          /\ \E x \in Models : Uses(x, p)
      BY <2>2 DEF TrackedInv, TrackedPool
    <2>4. \A x \in Models \ {m} : Uses(x, p) => Uses(x, p)'
      BY <1>1 DEF OthersKept, Uses
    <2>5. CASE p = q
      <3>1. /\ m \in pool[q].has /\ IsFiniteSet(pool[q].has) /\ q # Default
            /\ pool[q].has \subseteq Models
        BY <1>1, <1>2, <2>2, <2>5
        DEF Live, CanRemove, ServedInv, Counts, RefInv, TypeOK, PoolRecords
      <3>2. /\ IsFiniteSet(pool[q].has \ {m}) /\ Cardinality(pool[q].has) \in Nat
            /\ Cardinality(pool[q].has \ {m}) = Cardinality(pool[q].has) - 1
        BY <3>1, FS_RemoveElement, FS_CardinalityType
      <3>3. Cardinality(pool[q].has \ {m}) # 0
        BY <1>1, <1>2, <2>3, <2>5, <3>1, <3>2 DEF BecomesEmpty
      <3>4. PICK x \in pool[q].has : x # m
        BY <3>2, <3>3, FS_EmptySet
      <3>5. Holds(x, p)
        BY <2>2, <2>5, <3>1, <3>4 DEF TrackedInv, TrackedPair
      <3>6. Uses(x, p)'
        BY <2>4, <3>1, <3>4, <3>5 DEF Holds, Uses
      <3> QED
        BY <1>4, <2>3, <2>5, <3>1, <3>2, <3>6
    <2>6. CASE p # q
      <3>1. Uses(m, p) => Uses(m, p)'
        BY <1>9, <1>10, <2>2, <2>6
      <3> HIDE DEF Uses
      <3> QED
        BY <1>3, <2>3, <2>4, <2>6, <3>1
    <2> QED
      BY <2>5, <2>6
  <1>14. RegisteredLive' /\ ClosersAlone'
    <2>1. RegisteredLive'
      BY <1>1, <1>3, <1>6 DEF TrackedInv, RegisteredLive, PoolSteady
    <2> QED
      BY <1>1, <2>1 DEF TrackedInv, ClosersAlone
  <1> QED
    BY <1>12, <1>13, <1>14 DEF TrackedInv

LEMMA InitTracked == Init => TrackedInv
  <1> SUFFICES ASSUME Init PROVE TrackedInv
    OBVIOUS
  <1>1. \A p \in Pools : ~Live(p)
    BY DEF Init, Live, Created
  <1> HIDE DEF Live
  <1> QED
    BY <1>1 DEF Init, TrackedInv, RegisteredLive, ClosersAlone, TrackedPair, TrackedPool

\* The invariant of the registry: references and folders always, the rest until it stops
Inv == RefInv /\ WholeInv /\ (stopped \/ (ServedInv /\ TrackedInv))

LEMMA NextTracked ==
    ASSUME RefInv, WholeInv, ServedInv, TrackedInv, [Next]_vars, ~stopped'
    PROVE  TrackedInv'
  <1>1. CASE Close
    BY <1>1 DEF Close
  <1>2. CASE UNCHANGED vars
    <2>1. /\ pool' = pool /\ closers' = closers /\ pools' = pools /\ raced' = raced
          /\ kept' = kept /\ task' = task /\ home' = home /\ hash' = hash
      BY <1>2 DEF vars, registryVars, modelVars, histories
    <2> QED
      BY <2>1 DEF TrackedInv, RegisteredLive, ClosersAlone, TrackedPair, TrackedPool, Holds,
         Uses, Live, Created
  <1>3. ASSUME NEW m \in Models, Operation(m) PROVE TrackedInv'
    BY <1>3, LoadTracked, UnloadTracked, CreatesTracked, FailsTracked, LoadReturnsTracked,
       LoadGoesOnTracked, UnloadRaisesTracked, UnloadReturnsTracked, ClosesPoolTracked,
       FindsNoPoolTracked, EmptyPoolCases DEF Operation, EnvsOrNone
  <1> QED
    BY <1>1, <1>2, <1>3, ClearWorkersTracked, CloseEndsTracked DEF Next

LEMMA InitInv == Init => Inv
  BY InitRefs, InitWhole, InitServed, InitTracked DEF Inv

LEMMA NextInv == Inv /\ [Next]_vars => Inv'
  <1> SUFFICES ASSUME Inv, [Next]_vars PROVE Inv'
    OBVIOUS
  <1>1. RefInv' /\ WholeInv'
    BY NextRefs, NextWhole DEF Inv
  <1>2. (stopped \/ ServedInv)'
    BY NextServed DEF Inv
  <1>3. CASE stopped'
    BY <1>1, <1>3 DEF Inv
  <1>4. CASE ~stopped'
    <2>1. ServedInv'
      BY <1>2, <1>4
    <2>2. ~stopped
      BY <1>4, StaysStopped
    <2>3. TrackedInv'
      BY <1>4, <2>2, NextTracked DEF Inv
    <2> QED
      BY <1>1, <2>1, <2>3 DEF Inv
  <1> QED
    BY <1>3, <1>4

\* The registry of pools keeps its invariant: the references and the environments of the
\* workers always, the layers about serving and about tracking until the server stops
THEOREM RegistryInv == Spec => []Inv
  BY InitInv, NextInv, PTL DEF Spec

\* A pool, its folder, the closing pool, and what an operation holds at an await all
\* refer to pools that were created and that are of the environment they are taken for;
\* and there is always a number left for the next pool
THEOREM ReferencesRight == Spec => []RefInv
  <1>1. Inv => RefInv
    BY DEF Inv
  <1> QED
    BY <1>1, RegistryInv, PTL

\* Until the server stops, a model that was not loaded next to an unload in its
\* environment is held by the workers of its pool, and that pool is up
THEOREM RegistryServes == Spec => []ServedWhereLoaded
  <1>1. Inv => ServedWhereLoaded
    <2> SUFFICES ASSUME Inv, ~stopped, NEW m \in Models, Settled(m), m \notin disturbed
                 PROVE  /\ pool[home[m]].state = "up"
                        /\ m \in pool[home[m]].has
                        /\ pool[home[m]].env = hash[m]
      BY DEF ServedWhereLoaded
    <2>1. HeldUp(m, home[m])
      BY DEF Inv, ServedInv, ServedModel
    <2>2. PoolOf(home[m], hash[m])
      BY DEF Inv, RefInv, PoolRefs, Settled
    <2> QED
      BY <2>1, <2>2 DEF HeldUp, PoolOf
  <1> QED
    BY <1>1, RegistryInv, PTL

\* Workers start with a complete environment, unless its pool was created or closed twice
\* at once or it could not be extracted before
THEOREM WorkersStartWhole == Spec => []WholeEnvironment
  <1>1. Inv => WholeEnvironment
    BY DEF Inv, WholeInv
  <1> QED
    BY <1>1, RegistryInv, PTL

\* Until the server stops, a pool whose workers are running is registered, and has a
\* model once everything is quiet, but for what the histories record
THEOREM RegistryTracks == Spec => []PoolsTracked
  <1>1. Inv => PoolsTracked
    <2> SUFFICES ASSUME Inv, ~stopped, NEW p \in Created \ {Default}, pool[p].state = "up",
                        pool[p].env \notin raced
                 PROVE  /\ pools[pool[p].env] = p
                        /\ Quiet /\ p \notin kept => \E m \in Models : home[m] = p
      BY DEF PoolsTracked
    <2>1. p \in Pools /\ Live(p) /\ TrackedInv /\ RefInv
      BY DEF Created, Live, Inv
    <2>2. pools[pool[p].env] = p
      BY <2>1 DEF TrackedInv, RegisteredLive
    <2>3. ASSUME Quiet, p \notin kept PROVE \E m \in Models : home[m] = p
      <3>1. PICK m \in Models : Uses(m, p)
        BY <2>1, <2>3 DEF TrackedInv, TrackedPool
      <3>2. task[m].pool = NoPool
        BY <2>1, <2>3 DEF Quiet, RefInv, PoolRefs, TaskShape, Idle
      <3> QED
        BY <2>1, <3>1, <3>2, PoolNumbers DEF Uses
    <2> QED
      BY <2>2, <2>3
  <1> QED
    BY <1>1, RegistryInv, PTL
=============================================================================
