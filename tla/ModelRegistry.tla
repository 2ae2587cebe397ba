--------------------------- MODULE ModelRegistry ---------------------------
(* The registry of one model name, with the requests that work on it:         *)
(* mlserver/registry.py and mlserver/handlers/model_repository.py.  A load    *)
(* and an unload await hooks and the model itself between what they read and  *)
(* what they write.  A step is what happens between two of these awaits.      *)
(*                                                                            *)
(* Requests of concurrent clients concern different versions here, and the    *)
(* unversioned model, which stands for the default, is used by one at a time: *)
(* that is how a server starts and how its workers are updated.               *)
EXTENDS Naturals, FiniteSets, FiniteSetsExt, Functions

CONSTANTS
    Clients,    \* requests that may be under way at once
    Versions,   \* versions of the model, 0 for a model without one
    Ids,        \* bound on the objects of a version that exist at once
    Uses        \* the ways of using the registry that are explored

\* What may fail in a load: the first hook, a hook after one that has returned another
\* object for the model, the model's own load(), which may also return False: the model is
\* not ready then (model.py:64), and nothing else comes of it
FaultKinds == {"firstHook", "laterHook", "load", "notReady"}

ASSUME RegistryAssumption ==
    /\ IsFiniteSet(Versions) /\ Versions \subseteq Nat
    /\ Ids \subseteq Nat \ {0}
    /\ Uses \subseteq [concurrent : BOOLEAN,       \* several clients at once
                       wraps : BOOLEAN,            \* hooks return another object
                       faults : SUBSET FaultKinds]

VARIABLES
    known,      \* the name is in MultiModelRegistry._models
    versions,   \* _versions: the model of each version, or NoModel
    default,    \* _default, NoModel while it is not known
    ready,      \* the models whose ready flag is set
    client,     \* what each client is at
    promised,   \* (history) the model each version has to serve by the requests that
                \* succeeded: none if its load() returned False
    refused,    \* (history) the model of each version whose load() returned False last
    use         \* how the registry is used in this behaviour: one of Uses

vars == <<known, versions, default, ready, client, promised, refused, use>>

Model == [version : Versions, id : Ids]
NoModel == [version |-> 0, id |-> 0]
Numbered == Versions \ {0}

NoRequest == [at |-> "idle", kind |-> "none", todo |-> {}, wanted |-> {},
              model |-> NoModel, old |-> NoModel, pending |-> {}]

Set(c, state) == client' = [client EXCEPT ![c] = state]
Go(c, at) == Set(c, [client[c] EXCEPT !.at = at])

\* The event loop is in the middle of c's code, which calls on without an await
Running(c) == client[c].at \in {"next", "stale"}
NobodyRuns == \A c \in Clients : ~Running(c)

----------------------------------------------------------------------------
(* SingleModelRegistry *)

Registered == {v \in Numbered : versions[v] # NoModel}

\* The models of the registry, as get_models lists them
ModelsOf(vs, d) == ({vs[v] : v \in Numbered} \cup (IF d.version = 0 THEN {d} ELSE {}))
                   \ {NoModel}

\* The default property: worked out from the versions when it is not known
DefaultOf(vs, d) ==
    LET some == {v \in Numbered : vs[v] # NoModel}
    IN  IF d # NoModel \/ some = {} THEN d ELSE vs[Max(some)]

CurrentDefault == DefaultOf(versions, default)

\* empty()
Empty(vs, d) == d = NoModel /\ \A v \in Numbered : vs[v] = NoModel

\* _find_model
Find(v) == IF v = 0 THEN CurrentDefault ELSE versions[v]

\* _refresh_default with a new model m, when d is the default
Refreshed(d, m) ==
    IF d = NoModel \/ m.version = 0 \/ (d.version # 0 /\ m.version >= d.version)
    THEN m ELSE d

\* _register
WithVersion(m) == IF m.version = 0 THEN versions ELSE [versions EXCEPT ![m.version] = m]

Register(m) ==
    /\ versions' = WithVersion(m)
    /\ default' = Refreshed(default, m)

\* (mutant) a version that goes leaves the default alone
DropVersion(m) ==
    /\ versions' = IF m.version = 0 THEN versions
                   ELSE [versions EXCEPT ![m.version] = NoModel]
    /\ default' = IF m.version = 0 THEN NoModel ELSE default

\* _unload_model, once its hooks have run
Drop(m) ==
    LET left == IF m.version = 0 THEN versions
                ELSE [versions EXCEPT ![m.version] = NoModel]
        d == DefaultOf(left, default)
    IN  /\ versions' = left
        /\ default' = IF m = d THEN NoModel ELSE d

InUse ==
    Range(versions) \cup Range(promised) \cup {default}
    \cup UNION {{client[c].model, client[c].old} \cup client[c].pending : c \in Clients}

\* A new object for version v
Unused(v) == {m \in Model : m.version = v} \ InUse
NewModel(v) == CHOOSE m \in Unused(v) : TRUE

\* Nothing is known of the load of a new object
IsNew(m) == ready' = ready \ {m} /\ refused' = refused \ {m}

\* load() of m returned its readiness, or a value that is not true
Returns(m) ==
    LET others == {n \in refused : n.version # m.version}
    IN  \/ /\ ready' = ready \cup {m} /\ refused' = others
           /\ promised' = [promised EXCEPT ![m.version] = m]
        \/ /\ "notReady" \in use.faults
           /\ ready' = ready \ {m} /\ refused' = others \cup {m}
           /\ promised' = [promised EXCEPT ![m.version] = NoModel]

----------------------------------------------------------------------------
(* Requests *)

\* Whether a client may work on these versions now
MayStart(c, vs) ==
    /\ client[c] = NoRequest /\ NobodyRuns
    /\ \A d \in Clients \ {c} :
         \/ client[d] = NoRequest
         \/ /\ use.concurrent /\ 0 \notin vs
            /\ client[d].wanted \cap (vs \cup {0}) = {}

\* Startup loads a version, ModelRepositoryHandlers.load what the repository holds
\* of the model
RequestLoad(c, kind, vs) ==
    /\ MayStart(c, vs)
    /\ kind = "startup" => Cardinality(vs) = 1
    /\ kind = "repository" => ~use.concurrent
    /\ Set(c, [NoRequest EXCEPT !.at = "next", !.kind = kind, !.todo = vs, !.wanted = vs])
    /\ UNCHANGED <<known, versions, default, ready, promised, refused, use>>

\* MultiModelRegistry.load up to its first await
Load(c, v) ==
    LET m == NewModel(v)
        old == Find(v)
    IN  /\ client[c].at = "next" /\ v \in client[c].todo /\ Unused(v) # {}
        /\ known' = TRUE
        /\ IsNew(m)
        /\ Set(c, [client[c] EXCEPT !.todo = @ \ {v}, !.model = m, !.old = old,
                     !.at = IF old = NoModel THEN "loading" ELSE "reloading"])
        /\ IF old = NoModel THEN Register(m)
           ELSE /\ default' = IF v = 0 THEN CurrentDefault ELSE default
                /\ UNCHANGED versions
        /\ UNCHANGED <<promised, use>>

\* The load hooks have returned the model that is registered for good
HooksReturn(c) ==
    LET v == client[c].model.version
        m == IF use.wraps THEN NewModel(v) ELSE client[c].model
    IN  /\ client[c].at = "loading" /\ NobodyRuns
        /\ use.wraps => Unused(v) # {}
        /\ Register(m)
        /\ IsNew(m)
        /\ Set(c, [client[c] EXCEPT !.at = "starting", !.model = m])
        /\ UNCHANGED <<known, promised, use>>

LoadReturns(c) ==
    LET m == client[c].model
    IN  /\ client[c].at = "starting" /\ NobodyRuns
        /\ Returns(m)
        /\ Set(c, [client[c] EXCEPT !.at = "next", !.model = NoModel])
        /\ UNCHANGED <<known, versions, default, use>>

\* A hook or the load raises: the model that the hooks returned so far is unloaded
LoadRaises(c) ==
    /\ NobodyRuns
    /\ \/ client[c].at = "starting" /\ "load" \in use.faults /\ Go(c, "failing")
       \/ client[c].at = "loading" /\ "firstHook" \in use.faults /\ Go(c, "failing")
       \/ /\ client[c].at = "loading" /\ "laterHook" \in use.faults /\ use.wraps
          /\ Unused(client[c].model.version) # {}
          /\ Set(c, [client[c] EXCEPT !.at = "failing",
                                      !.model = NewModel(client[c].model.version)])
    /\ UNCHANGED <<known, versions, default, ready, promised, refused, use>>

\* (mutant) the exception leaves before the model is removed
FailedLoadKept(c) ==
    /\ client[c].at = "failing" /\ NobodyRuns
    /\ Set(c, [client[c] EXCEPT !.at = "failed", !.model = NoModel])
    /\ UNCHANGED <<known, versions, default, ready, promised, refused, use>>

\* Its unload hooks have run, whatever they returned
FailedLoadUnloaded(c) ==
    /\ client[c].at = "failing" /\ NobodyRuns
    /\ Drop(client[c].model)
    /\ Set(c, [client[c] EXCEPT !.at = "failed", !.model = NoModel])
    /\ UNCHANGED <<known, ready, promised, refused, use>>

\* (mutant) the old model is unregistered before its successor has come
ReloadDropsFirst(c) ==
    /\ client[c].at = "reloading" /\ NobodyRuns
    /\ Drop(client[c].old)
    /\ Set(c, [client[c] EXCEPT !.at = "starting", !.old = NoModel])
    /\ UNCHANGED <<known, ready, promised, refused, use>>

\* The reload hooks and the load of the new model have returned
ReloadReturns(c) ==
    LET v == client[c].model.version
        m == IF use.wraps THEN NewModel(v) ELSE client[c].model
        d == Refreshed(default, m)
    IN  /\ client[c].at = "reloading" /\ NobodyRuns
        /\ use.wraps => Unused(v) # {}
        /\ Returns(m)
        /\ versions' = WithVersion(m)
        /\ default' = IF d = client[c].old THEN NoModel ELSE d
        /\ Set(c, [client[c] EXCEPT !.at = "next", !.model = NoModel, !.old = NoModel])
        /\ UNCHANGED <<known, use>>

\* One of them raises, and the old model stays
ReloadRaises(c) ==
    /\ client[c].at = "reloading" /\ NobodyRuns /\ use.faults \ {"notReady"} # {}
    /\ Set(c, [client[c] EXCEPT !.at = "failed", !.model = NoModel, !.old = NoModel])
    /\ UNCHANGED <<known, versions, default, ready, promised, refused, use>>

\* (mutant) only the numbered versions are looked at
LoadsDoneNumbered(c) ==
    /\ client[c].at = "next" /\ client[c].todo = {}
    /\ Set(c, IF client[c].kind = "repository"
              THEN [client[c] EXCEPT !.at = "stale",
                      !.pending = {versions[v] : v \in Registered \ client[c].wanted}]
              ELSE [client[c] EXCEPT !.at = "done"])
    /\ UNCHANGED <<known, versions, default, ready, promised, refused, use>>

\* All versions are loaded; the repository handler lists those that are stale
LoadsDone(c) ==
    /\ client[c].at = "next" /\ client[c].todo = {}
    /\ IF client[c].kind = "repository"
       THEN /\ Set(c, [client[c] EXCEPT !.at = "stale",
                  !.pending = {m \in ModelsOf(versions, CurrentDefault) :
                                 m.version \notin client[c].wanted}])
            /\ default' = CurrentDefault
       ELSE Go(c, "done") /\ UNCHANGED default
    /\ UNCHANGED <<known, versions, ready, promised, refused, use>>

\* MultiModelRegistry.unload_version up to the hooks of the model it finds
StartUnload(c, v, state) ==
    /\ Set(c, IF known /\ Find(v) # NoModel
              THEN [state EXCEPT !.at = "unloading", !.model = Find(v)]
              ELSE [state EXCEPT !.at = "failed"])
    /\ default' = IF known /\ v = 0 THEN CurrentDefault ELSE default
    /\ UNCHANGED <<known, versions, ready, promised, refused, use>>

RequestUnloadVersion(c, v) ==
    /\ MayStart(c, {v})
    /\ StartUnload(c, v, [NoRequest EXCEPT !.kind = "unloadVersion", !.wanted = {v}])

UnloadStale(c) ==
    /\ client[c].at = "stale"
    /\ \/ \E m \in client[c].pending :
            StartUnload(c, m.version, [client[c] EXCEPT !.pending = @ \ {m}])
       \/ /\ client[c].pending = {} /\ Go(c, "done")
          /\ UNCHANGED <<known, versions, default, ready, promised, refused, use>>

\* The hooks have run: the model goes, and the whole registry when it was the last
UnloadReturns(c) ==
    LET m == client[c].model
    IN  /\ client[c].at = "unloading" /\ NobodyRuns
        /\ Drop(m)
        /\ known' = ~Empty(versions', default')
        /\ promised' = [promised EXCEPT ![m.version] = NoModel]
        /\ Set(c, [client[c] EXCEPT !.model = NoModel,
                     !.at = IF client[c].kind = "repository" THEN "stale" ELSE "done"])
        /\ UNCHANGED <<ready, refused, use>>

\* MultiModelRegistry.unload awaits the hooks of all models at once
RequestUnload(c) ==
    /\ MayStart(c, Versions) /\ ~use.concurrent
    /\ default' = IF known THEN CurrentDefault ELSE default
    /\ Set(c, [NoRequest EXCEPT !.kind = "unload", !.wanted = Versions,
                 !.at = IF known THEN "unloadingAll" ELSE "failed",
                 !.pending = IF known THEN ModelsOf(versions, CurrentDefault) ELSE {}])
    /\ UNCHANGED <<known, versions, ready, promised, refused, use>>

\* (mutant) all versions are cleared before the hooks of all have run
UnloadOneClearsAll(c, m) ==
    /\ client[c].at = "unloadingAll" /\ m \in client[c].pending /\ NobodyRuns
    /\ versions' = [v \in Numbered |-> NoModel]
    /\ default' = NoModel
    /\ Set(c, [client[c] EXCEPT !.pending = @ \ {m}])
    /\ promised' = [promised EXCEPT ![m.version] = NoModel]
    /\ UNCHANGED <<known, ready, refused, use>>

UnloadOne(c, m) ==
    /\ client[c].at = "unloadingAll" /\ m \in client[c].pending /\ NobodyRuns
    /\ Drop(m)
    /\ Set(c, [client[c] EXCEPT !.pending = @ \ {m}])
    /\ promised' = [promised EXCEPT ![m.version] = NoModel]
    /\ UNCHANGED <<known, ready, refused, use>>

UnloadedAll(c) ==
    /\ client[c].at = "unloadingAll" /\ client[c].pending = {} /\ NobodyRuns
    /\ versions' = [v \in Numbered |-> NoModel]
    /\ default' = NoModel
    /\ known' = FALSE
    /\ Go(c, "done")
    /\ UNCHANGED <<ready, promised, refused, use>>

\* The client reads its answer
Answer(c) ==
    /\ client[c].at \in {"done", "failed"} /\ NobodyRuns
    /\ Set(c, NoRequest)
    /\ UNCHANGED <<known, versions, default, ready, promised, refused, use>>

\* DataPlane.infer asks for the model without a version, which settles the default
InferDefault ==
    /\ known /\ NobodyRuns
    /\ default' = CurrentDefault
    /\ UNCHANGED <<known, versions, ready, client, promised, refused, use>>

----------------------------------------------------------------------------
Init ==
    /\ known = FALSE
    /\ versions = [v \in Numbered |-> NoModel]
    /\ default = NoModel
    /\ ready = {}
    /\ client = [c \in Clients |-> NoRequest]
    /\ promised = [v \in Versions |-> NoModel]
    /\ refused = {}
    /\ use \in Uses

Request(c) ==
    \/ \E kind \in {"startup", "repository"}, vs \in SUBSET Versions \ {{}} :
         RequestLoad(c, kind, vs)
    \/ \E v \in Versions : RequestUnloadVersion(c, v)
    \/ RequestUnload(c)

Work(c) ==
    \/ \E v \in Versions : Load(c, v)
    \/ HooksReturn(c) \/ LoadReturns(c) \/ LoadRaises(c) \/ FailedLoadUnloaded(c)
    \/ ReloadReturns(c) \/ ReloadRaises(c)
    \/ LoadsDone(c) \/ UnloadStale(c) \/ UnloadReturns(c)
    \/ \E m \in Model : UnloadOne(c, m)
    \/ UnloadedAll(c) \/ Answer(c)

Next == InferDefault \/ \E c \in Clients : Request(c) \/ Work(c)

Spec == Init /\ [][Next]_vars

----------------------------------------------------------------------------
(* Properties *)

\* A version serves the model that was loaded for it last, from the end of its load to the
\* end of its unload, whatever is loaded, fails or is unloaded besides: a reload keeps the
\* old model until load() of the new one has returned (registry.py:183), and when that was
\* False the version serves nothing
Serving(v) ==
    LET m == IF v = 0 /\ default.version = 0 THEN default
             ELSE IF v = 0 THEN NoModel ELSE versions[v]
    IN  IF known /\ m \in ready THEN m ELSE NoModel

KeepsItsWord == \A v \in Versions : Serving(v) = promised[v]

\* The default that requests without a version get is one of the registered models
DefaultIsRegistered == default \in ModelsOf(versions, default) \cup {NoModel}

\* A model that is not ready is still being loaded, or its load() returned False: a load
\* that failed leaves nothing behind (registry.py:168)
NotReadyMeansLoading ==
    \A m \in ModelsOf(versions, default) \ ready :
        \/ m \in refused
        \/ \E c \in Clients : /\ client[c].model = m
                             /\ client[c].at \in {"loading", "starting", "failing"}

\* What is awaited to be unloaded is still registered when its turn comes: the deletion
\* of a version never meets one that is gone (registry.py:219)
UnloadFindsModel ==
    \A c \in Clients :
        LET m == client[c].model
            mine == client[c].pending \cup
                      (IF client[c].at \in {"failing", "unloading"} THEN {m} ELSE {})
        IN  client[c].at # "stale" => mine \subseteq ModelsOf(versions, default)

\* A repository load that succeeds leaves exactly the versions of the repository, also
\* when the stale ones include the default (model_repository.py:73)
MirrorsRepository ==
    \A c \in Clients :
        client[c].at = "done" /\ client[c].kind = "repository" =>
            {m.version : m \in ModelsOf(versions, CurrentDefault)} = client[c].wanted
=============================================================================
