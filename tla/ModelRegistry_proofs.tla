------------------------ MODULE ModelRegistry_proofs ------------------------
(* The properties of ModelRegistry for all clients, versions and ways of using *)
(* the registry but one: hooks that return another object for the model and    *)
(* raise after that leave an unregistered model behind.                        *)
EXTENDS ModelRegistry, FiniteSetTheorems, WellFoundedInduction, TLAPS

\* When a hook raises, no hook before it has returned another object
HooksAgree == \A u \in Uses : u.wraps => "laterHook" \notin u.faults

----------------------------------------------------------------------------
(* The latest version *)

\* A finite set of numbers that is not empty has its maximum
LEMMA MaxExists ==
    ASSUME NEW S, S \subseteq Nat, IsFiniteSet(S), S # {}
    PROVE  Max(S) \in S
  <1> DEFINE NoMax(T) == T \subseteq S /\ T # {} /\ \A x \in T : \E y \in T : ~(x >= y)
             Sizes == {Cardinality(T) : T \in {U \in SUBSET S : NoMax(U)}}
             Less == {ss \in Nat \X Nat : ss[1] < ss[2]}
  <1>1. \A T \in SUBSET S : IsFiniteSet(T) /\ Cardinality(T) \in Nat
    BY FS_Subset, FS_CardinalityType
  <1>2. ASSUME NEW T0 \in SUBSET S, NoMax(T0) PROVE FALSE
    <2>1. Sizes \subseteq Nat /\ Sizes # {}
      BY <1>1, <1>2
    <2>2. IsWellFoundedOn(Less, Nat)
      BY NatLessThanWellFounded, Zenon DEF OpToRel
    <2> HIDE DEF Sizes, Less
    <2>3. PICK n \in Sizes : \A k \in Sizes : ~(<<k, n>> \in Less)
      BY <2>1, <2>2, WFMin
    <2> USE DEF Sizes
    <2>4. PICK T \in SUBSET S : NoMax(T) /\ n = Cardinality(T)
      BY <2>3
    <2>5. PICK x \in T : TRUE
      BY <2>4
    <2> DEFINE R == T \ {x}
    <2>6. R \in SUBSET S /\ Cardinality(R) = n - 1 /\ n \in Nat /\ Cardinality(R) \in Nat
      BY <1>1, <2>4, <2>5, FS_RemoveElement
    <2>7. <<Cardinality(R), n>> \in Less
      BY <2>6 DEF Less
    <2>8. ~NoMax(R)
      BY <2>3, <2>6, <2>7
    <2>9. PICK y \in T : ~(x >= y)
      BY <2>4, <2>5
    <2>10. x \in Nat /\ \A z \in T : z \in Nat
      BY <2>5
    <2>11. y \in R
      BY <2>9, <2>10
    <2>12. PICK b \in R : \A z \in R : b >= z
      BY <2>8, <2>11, <2>6
    <2>13. PICK z \in T : ~(b >= z)
      BY <2>4, <2>12
    <2>14. z = x
      BY <2>12, <2>13
    <2> QED
      BY <2>9, <2>10, <2>11, <2>12, <2>13, <2>14
  <1>3. \E x \in S : \A y \in S : x >= y
    BY <1>2
  <1> QED
    BY <1>3 DEF Max

----------------------------------------------------------------------------
(* The invariant *)

ModelOrNone == Model \cup {NoModel}
Registering == {"loading", "starting", "failing"}

RequestStates ==
    [at : {"idle", "next", "reloading", "stale", "unloading", "unloadingAll", "done", "failed"}
            \cup Registering,
     kind : {"none", "startup", "repository", "unloadVersion", "unload"},
     todo : SUBSET Versions, wanted : SUBSET Versions,
     model : ModelOrNone, old : ModelOrNone, pending : SUBSET Model]

TypeOK ==
    /\ known \in BOOLEAN
    /\ ready \subseteq Model /\ refused \subseteq Model
    /\ client \in [Clients -> RequestStates]
    /\ promised \in [Versions -> ModelOrNone]
    /\ use \in Uses

\* The model that the registry has of version v: a numbered one is among the versions, one
\* without a number is the default or nothing
At(v) == IF v # 0 THEN versions[v] ELSE IF default.version = 0 THEN default ELSE NoModel
Held == {v \in Versions : At(v) # NoModel}
Present(m) == m \in Model /\ At(m.version) = m

RegistryInv ==
    /\ versions \in [Numbered -> ModelOrNone]
    /\ default \in ModelOrNone
    /\ \A v \in Numbered : versions[v] # NoModel => versions[v].version = v
    /\ default.version # 0 => versions[default.version] = default

KnownInv == known \/ Held = {}

PromiseInv ==
    \A v \in Versions : promised[v] = IF At(v) \in ready THEN At(v) ELSE NoModel

LoadingInv ==
    \A v \in Held : At(v) \notin ready \cup refused =>
        \E c \in Clients : client[c].model = At(v) /\ client[c].at \in Registering

\* Requests that are under way at once name different versions, and each its own
Busy(c) == client[c] # NoRequest

Apart ==
    \A c \in Clients : \A d \in Clients \ {c} :
        /\ Busy(c) /\ Busy(d) => /\ use.concurrent
                                 /\ 0 \notin client[c].wanted
                                 /\ client[c].wanted \cap client[d].wanted = {}
        /\ Running(c) => ~Running(d)

\* What a request holds at each of its awaits
ClientInv(c) ==
    LET k == client[c]
    IN  /\ k.at = "idle" => k = NoRequest
        /\ k.at = "stale" => k.kind = "repository"
        /\ k.at = "unloadingAll" => k.kind = "unload"
        /\ k.kind \in {"repository", "unload"} => ~use.concurrent
        /\ k.todo \subseteq k.wanted
        /\ k.at \in Registering \cup {"reloading"} =>
              k.model \in Model /\ k.model.version \in k.wanted \ k.todo
        /\ k.at \in Registering => Present(k.model) /\ k.model \notin ready
        /\ k.at = "reloading" => /\ Present(k.old) /\ k.old # k.model
                                 /\ k.model.version \in {0, k.old.version}
        /\ k.at = "unloading" => /\ Present(k.model)
                                 /\ k.kind \in {"repository", "unloadVersion"}
                                 /\ k.kind = "repository" \/ k.model.version \in k.wanted
                                       \/ 0 \in k.wanted
        /\ \A m \in k.pending : Present(m)
        /\ k.pending # {} => /\ k.kind \in {"repository", "unload"}
                            /\ k.at \in {"stale", "unloading", "unloadingAll"}

VersionsOf(ms) == {m.version : m \in ms}

\* How far a repository load has come
RepositoryInv(c) ==
    LET k == client[c]
        stale == VersionsOf(k.pending)
    IN  k.kind = "repository" =>
        /\ k.at = "next" => k.wanted \ k.todo \subseteq Held
        /\ k.at \in {"loading", "starting", "reloading"} =>
              (k.wanted \ k.todo) \ {k.model.version} \subseteq Held
        /\ k.at = "stale" => Held = k.wanted \cup stale
        /\ k.at = "unloading" => /\ Held = k.wanted \cup stale \cup {k.model.version}
                                 /\ k.model.version \notin k.wanted \cup stale
        /\ k.at \in {"stale", "unloading"} => stale \cap k.wanted = {}
        /\ k.at = "done" => Held = k.wanted

UnloadInv(c) ==
    client[c].at = "unloadingAll" => Held = VersionsOf(client[c].pending)

RequestInv(c) == ClientInv(c) /\ RepositoryInv(c) /\ UnloadInv(c)

Inv == /\ TypeOK /\ RegistryInv /\ KnownInv /\ PromiseInv /\ LoadingInv /\ Apart
       /\ \A c \in Clients : RequestInv(c)

----------------------------------------------------------------------------
(* What the actions are built from does to the registry *)

\* Version v is the one that changes
Puts(v, x) ==
    /\ RegistryInv'
    /\ \A u \in Versions : At(u)' = IF u = v THEN x ELSE At(u)

SameModels == RegistryInv' /\ \A u \in Versions : At(u)' = At(u)

LEMMA ModelShape ==
    /\ NoModel \notin Model /\ NoModel.version = 0
    /\ \A m \in Model : m.version \in Versions /\ m.version \in Nat
    /\ Numbered \subseteq Versions /\ Numbered \subseteq Nat \ {0}
    /\ \A v \in Versions : v # 0 => v \in Numbered
  BY RegistryAssumption DEF Model, NoModel, Numbered

LEMMA AtTyped ==
    ASSUME RegistryInv, NEW v \in Versions
    PROVE  At(v) \in ModelOrNone /\ (At(v) # NoModel => At(v) \in Model /\ At(v).version = v)
  BY ModelShape DEF RegistryInv, At, ModelOrNone

\* The default is what it was, or the model of some version when it is worked out
LEMMA DefaultOfWhat ==
    ASSUME NEW vs \in [Numbered -> ModelOrNone], NEW d \in ModelOrNone
    PROVE  /\ d # NoModel => DefaultOf(vs, d) = d
           /\ d = NoModel => \/ /\ DefaultOf(vs, d) = NoModel
                                /\ \A v \in Numbered : vs[v] = NoModel
                             \/ \E v \in Numbered : vs[v] # NoModel /\ DefaultOf(vs, d) = vs[v]
  <1> DEFINE some == {v \in Numbered : vs[v] # NoModel}
  <1>1. some \subseteq Numbered /\ some \subseteq Nat /\ IsFiniteSet(some)
    BY ModelShape, RegistryAssumption, FS_Subset
  <1>2. some # {} => Max(some) \in some
    BY <1>1, MaxExists
  <1> QED
    BY <1>2 DEF DefaultOf

LEMMA CurrentDefaultWhat ==
    ASSUME RegistryInv
    PROVE  /\ CurrentDefault \in ModelOrNone
           /\ CurrentDefault # NoModel => Present(CurrentDefault)
           /\ CurrentDefault = NoModel => Held = {}
           /\ CurrentDefault.version # 0 => versions[CurrentDefault.version] = CurrentDefault
           /\ default # NoModel => CurrentDefault = default
           /\ default.version # 0 \/ default = NoModel =>
                 CurrentDefault.version # 0 \/ CurrentDefault = NoModel
  <1>1. CASE default # NoModel
    <2>1. CurrentDefault = default
      BY <1>1, DefaultOfWhat DEF CurrentDefault, RegistryInv
    <2> QED
      BY <1>1, <2>1, ModelShape DEF RegistryInv, Present, At, ModelOrNone
  <1>2. CASE default = NoModel /\ CurrentDefault = NoModel
    <2>1. \A v \in Numbered : versions[v] = NoModel
      <3>1. ASSUME NEW v \in Numbered, versions[v] # NoModel, CurrentDefault = versions[v]
            PROVE  FALSE
        BY <1>2, <3>1
      <3> QED
        BY <1>2, <3>1, DefaultOfWhat DEF CurrentDefault, RegistryInv
    <2> QED
      BY <1>2, <2>1, ModelShape DEF Held, At, ModelOrNone
  <1>3. CASE default = NoModel /\ CurrentDefault # NoModel
    <2>1. PICK v \in Numbered : versions[v] # NoModel /\ CurrentDefault = versions[v]
      BY <1>3, DefaultOfWhat DEF CurrentDefault, RegistryInv
    <2> QED
      BY <1>3, <2>1, ModelShape DEF RegistryInv, Present, At, ModelOrNone
  <1> QED
    BY <1>1, <1>2, <1>3

\* To ask for the default does not change what is there
LEMMA SettleKeeps ==
    ASSUME RegistryInv, default' \in {default, CurrentDefault}, versions' = versions
    PROVE  SameModels
  <1>1. RegistryInv'
    BY CurrentDefaultWhat DEF RegistryInv
  <1>2. ASSUME NEW u \in Versions PROVE At(u)' = At(u)
    BY CurrentDefaultWhat, ModelShape DEF At
  <1> QED
    BY <1>1, <1>2 DEF SameModels

\* _find_model
LEMMA FindWhat ==
    ASSUME RegistryInv, NEW v \in Versions
    PROVE  /\ Find(v) \in ModelOrNone
           /\ Find(v) # NoModel => Present(Find(v)) /\ v \in {0, Find(v).version}
           /\ Find(v) = NoModel => At(v) = NoModel
           /\ At(v) # NoModel => Find(v) = At(v)
  <1>1. CASE v = 0
    BY <1>1, CurrentDefaultWhat, ModelShape DEF Find, Held, At
  <1>2. CASE v # 0
    BY <1>2, AtTyped, ModelShape DEF Find, At, Present, RegistryInv
  <1> QED
    BY <1>1, <1>2

\* get_models, before and after the default was worked out
LEMMA ModelsOfWhat ==
    ASSUME RegistryInv, NEW d \in {default, CurrentDefault}
    PROVE  ModelsOf(versions, d) = {At(v) : v \in Held}
  <1>1. d.version = 0 => (d = NoModel \/ d = default)
    BY CurrentDefaultWhat, ModelShape DEF RegistryInv, ModelOrNone
  <1>2. ASSUME NEW m \in ModelsOf(versions, d) PROVE m \in {At(v) : v \in Held}
    <2>1. m # NoModel
      BY DEF ModelsOf
    <2>2. CASE \E v \in Numbered : m = versions[v]
      BY <2>1, <2>2, ModelShape DEF Held, At
    <2>3. CASE d.version = 0 /\ m = d
      BY <1>1, <2>1, <2>3, ModelShape DEF Held, At, RegistryInv, ModelOrNone
    <2> QED
      BY <2>2, <2>3 DEF ModelsOf
  <1>3. ASSUME NEW v \in Held PROVE At(v) \in ModelsOf(versions, d)
    <2>1. CASE v # 0
      BY <2>1, ModelShape DEF Held, At, ModelsOf
    <2>2. CASE v = 0
      <3>1. default.version = 0 /\ default # NoModel /\ At(v) = default
        BY <2>2 DEF Held, At
      <3>2. d = default
        BY <3>1, CurrentDefaultWhat
      <3> QED
        BY <3>1, <3>2 DEF ModelsOf
    <2> QED
      BY <2>1, <2>2
  <1> QED
    BY <1>2, <1>3

\* _register
LEMMA RegisterPuts ==
    ASSUME RegistryInv, NEW m \in Model,
           versions' = WithVersion(m), default' = Refreshed(default, m)
    PROVE  Puts(m.version, m)
  <1>1. CASE m.version = 0
    BY <1>1, ModelShape DEF Puts, RegistryInv, At, WithVersion, Refreshed, ModelOrNone
  <1>2. CASE m.version # 0
    <2>1. /\ versions' = [versions EXCEPT ![m.version] = m]
          /\ m.version \in Numbered
      BY <1>2, ModelShape DEF WithVersion
    <2>2. default' \in {default, m}
      BY DEF Refreshed
    <2>3. default.version # 0 /\ default' = default => default.version \in Numbered /\
              (default.version = m.version => default = m)
      BY ModelShape DEF Refreshed, RegistryInv, ModelOrNone
    <2>4. default' = default => default # NoModel \/ default = m
      BY DEF Refreshed
    <2>5. default' # default => default = NoModel \/ default.version # 0
      BY <1>2 DEF Refreshed
    <2>6. RegistryInv'
      BY <1>2, <2>1, <2>2, <2>3, ModelShape DEF RegistryInv, ModelOrNone
    <2>7. ASSUME NEW u \in Versions PROVE At(u)' = IF u = m.version THEN m ELSE At(u)
      <3>1. CASE u # 0
        BY <2>1, <3>1, ModelShape DEF At, RegistryInv
      <3>2. CASE u = 0
        BY <1>2, <2>2, <2>5, <3>2, ModelShape DEF At
      <3> QED
        BY <3>1, <3>2
    <2> QED
      BY <2>6, <2>7 DEF Puts
  <1> QED
    BY <1>1, <1>2

\* A reload registers the new model; the old one is never the default after that
LEMMA ReloadPuts ==
    ASSUME RegistryInv, NEW m \in Model, NEW old, Present(old), m # old,
           m.version \in {0, old.version}, versions' = WithVersion(m),
           default' = IF Refreshed(default, m) = old THEN NoModel ELSE Refreshed(default, m)
    PROVE  Puts(m.version, m)
  <1>1. Refreshed(default, m) # old
    <2>1. Refreshed(default, m) \in {default, m}
      BY DEF Refreshed
    <2>2. ASSUME default = old PROVE Refreshed(default, m) = m
      BY <2>2, ModelShape DEF Refreshed, Present
    <2> QED
      BY <2>1, <2>2
  <1> QED
    BY <1>1, RegisterPuts

\* _unload_model of a model that is there
LEMMA DropPuts ==
    ASSUME RegistryInv, NEW m, Present(m), Drop(m)
    PROVE  Puts(m.version, NoModel)
  <1> DEFINE left == IF m.version = 0 THEN versions
                     ELSE [versions EXCEPT ![m.version] = NoModel]
             d == DefaultOf(left, default)
  <1>1. versions' = left /\ default' = IF m = d THEN NoModel ELSE d
    BY DEF Drop
  <1>2. /\ left \in [Numbered -> ModelOrNone]
        /\ \A u \in Numbered : left[u] = IF u = m.version THEN NoModel ELSE versions[u]
    BY ModelShape DEF RegistryInv, ModelOrNone, Present
  <1>3. /\ default # NoModel => d = default
        /\ default = NoModel => \/ d = NoModel
                                \/ \E u \in Numbered : left[u] # NoModel /\ d = left[u]
    <2>1. left \in [Numbered -> ModelOrNone] /\ default \in ModelOrNone
      BY <1>2 DEF RegistryInv
    <2> HIDE DEF left
    <2>2. default # NoModel => DefaultOf(left, default) = default
      BY <2>1, DefaultOfWhat
    <2>3. default = NoModel =>
            \/ DefaultOf(left, default) = NoModel
            \/ \E u \in Numbered : left[u] # NoModel /\ DefaultOf(left, default) = left[u]
      BY <2>1, DefaultOfWhat
    <2> QED
      BY <2>2, <2>3
  <1> HIDE DEF left, d
  <1>4. m.version \in Versions /\ m \in Model
    BY ModelShape DEF Present
  <1>5. CASE default # NoModel
    <2>1. default' = IF m = default THEN NoModel ELSE default
      BY <1>1, <1>3, <1>5
    <2>2. default.version = m.version => m = default
      BY <1>5, ModelShape DEF Present, At, RegistryInv
    <2>3. RegistryInv'
      BY <1>1, <1>2, <1>4, <1>5, <2>1, <2>2, ModelShape DEF RegistryInv, ModelOrNone
    <2>4. ASSUME NEW u \in Versions PROVE At(u)' = IF u = m.version THEN NoModel ELSE At(u)
      BY <1>1, <1>2, <1>4, <1>5, <2>1, <2>2, ModelShape DEF At
    <2> QED
      BY <2>3, <2>4 DEF Puts
  <1>6. CASE default = NoModel
    <2>1. m.version # 0
      BY <1>6, ModelShape DEF Present, At
    <2>2. \/ default' = NoModel
          \/ \E u \in Numbered : left[u] # NoModel /\ default' = left[u]
      BY <1>1, <1>3, <1>6
    <2>3. RegistryInv'
      BY <1>1, <1>2, <2>2, ModelShape DEF RegistryInv, ModelOrNone
    <2>4. ASSUME NEW u \in Versions PROVE At(u)' = IF u = m.version THEN NoModel ELSE At(u)
      <3>1. CASE u # 0
        BY <1>1, <1>2, <3>1, ModelShape DEF At
      <3>2. default'.version # 0 \/ default' = NoModel
        BY <1>2, <2>2, ModelShape DEF RegistryInv
      <3>3. CASE u = 0
        BY <1>6, <3>2, <3>3, <2>1 DEF At
      <3> QED
        BY <3>1, <3>3
    <2> QED
      BY <2>3, <2>4 DEF Puts
  <1> QED
    BY <1>5, <1>6

----------------------------------------------------------------------------
(* What a step of one request leaves of the invariant to the others *)

Others(c) == \A d \in Clients \ {c} : client'[d] = client[d]

\* No other request that is under way works on version v
Free(c, v) ==
    \A d \in Clients \ {c} : Busy(d) =>
        /\ 0 \notin client[d].wanted /\ v \notin client[d].wanted
        /\ client[d].kind \notin {"repository", "unload"}

\* What a request works on is its own
LEMMA OwnVersion ==
    ASSUME Inv, NEW c \in Clients, Busy(c), NEW v \in Versions,
           \/ v \in client[c].wanted \/ 0 \in client[c].wanted
           \/ client[c].kind \in {"repository", "unload"}
    PROVE  Free(c, v)
  <1> SUFFICES ASSUME NEW d \in Clients \ {c}, Busy(d)
               PROVE  /\ 0 \notin client[d].wanted /\ v \notin client[d].wanted
                      /\ client[d].kind \notin {"repository", "unload"}
    BY DEF Free
  <1>1. /\ use.concurrent /\ 0 \notin client[c].wanted /\ 0 \notin client[d].wanted
        /\ client[c].wanted \cap client[d].wanted = {}
    BY DEF Inv, Apart
  <1>2. ClientInv(c) /\ ClientInv(d)
    BY DEF Inv, RequestInv
  <1> QED
    BY <1>1, <1>2 DEF ClientInv

\* A request that is not under way
LEMMA NoRequestInv ==
    ASSUME NEW d \in Clients, client'[d] = NoRequest
    PROVE  RequestInv(d)'
  BY DEF RequestInv, ClientInv, RepositoryInv, UnloadInv, NoRequest, Registering

\* Another request goes on as if nothing had happened to its version
LEMMA OtherKeeps ==
    ASSUME Inv, NEW d \in Clients, client'[d] = client[d], use' = use,
           NEW v \in Versions, NEW x, Puts(v, x),
           Busy(d) => /\ 0 \notin client[d].wanted /\ v \notin client[d].wanted
                      /\ client[d].kind \notin {"repository", "unload"},
           \A m \in Model : m.version # v => (m \in ready' <=> m \in ready)
    PROVE  RequestInv(d)'
  <1>1. CASE ~Busy(d)
    BY <1>1, NoRequestInv DEF Busy
  <1>2. CASE Busy(d)
    <2>1. PICK k \in RequestStates : k = client[d] /\ k = client'[d]
      BY DEF Inv, TypeOK
    <2>2. ClientInv(d)
      BY DEF Inv, RequestInv
    <2>3. k.pending = {} /\ k.kind \notin {"repository", "unload"}
      BY <1>2, <2>1, <2>2 DEF ClientInv
    <2>4. \A m \in Model : m.version # v /\ Present(m) => Present(m)'
      BY ModelShape DEF Present, Puts
    <2>5. k.at \in Registering => k.model \in Model /\ k.model.version # v
      BY <1>2, <2>1, <2>2 DEF ClientInv
    <2>6. k.at = "reloading" => /\ k.old \in Model /\ k.old.version # v
      BY <1>2, <2>1, <2>2 DEF ClientInv, Present
    <2>7. k.at = "unloading" => k.model \in Model /\ k.model.version # v
      BY <1>2, <2>1, <2>2, <2>3 DEF ClientInv, Present
    <2>8. ClientInv(d)'
      BY <2>1, <2>2, <2>3, <2>4, <2>5, <2>6, <2>7 DEF ClientInv
    <2> QED
      BY <2>1, <2>3, <2>8, <2>2 DEF RequestInv, RepositoryInv, UnloadInv, ClientInv
  <1> QED
    BY <1>1, <1>2

\* What all steps on a version have in common
LEMMA PutStep ==
    ASSUME Inv, NEW c \in Clients, NEW v \in Versions, NEW x \in ModelOrNone,
           Puts(v, x), Free(c, v), Others(c), use' = use, ready' \subseteq Model,
           \A m \in Model : m.version # v => (m \in ready' <=> m \in ready),
           \A m \in Model : m.version # v => (m \in refused' <=> m \in refused),
           promised' = [promised EXCEPT ![v] = IF x \in ready' THEN x ELSE NoModel],
           x # NoModel /\ x \notin ready' \cup refused' =>
                client'[c].model = x /\ client'[c].at \in Registering,
           client[c].at \in Registering => client[c].model.version = v,
           known' \/ Held' = {}
    PROVE  /\ RegistryInv' /\ KnownInv' /\ PromiseInv' /\ LoadingInv'
           /\ \A d \in Clients \ {c} : RequestInv(d)'
  <1>1. RegistryInv' /\ KnownInv'
    BY DEF Puts, KnownInv
  <1>2. ASSUME NEW u \in Versions, u # v
        PROVE  /\ At(u)' = At(u)
               /\ At(u) # NoModel => /\ At(u) \in ready' <=> At(u) \in ready
                                     /\ At(u) \in refused' <=> At(u) \in refused
    BY <1>2, AtTyped DEF Puts, Inv
  <1>3. At(v)' = x
    BY DEF Puts
  <1>4. PromiseInv'
    <2>1. ASSUME NEW u \in Versions
          PROVE  promised'[u] = IF At(u)' \in ready' THEN At(u)' ELSE NoModel
      <3>1. CASE u = v
        BY <1>3, <3>1 DEF Inv, TypeOK
      <3>2. CASE u # v
        <4>1. promised'[u] = promised[u]
          BY <3>2 DEF Inv, TypeOK
        <4>2. promised[u] = IF At(u) \in ready THEN At(u) ELSE NoModel
          BY DEF Inv, PromiseInv
        <4> QED
          BY <1>2, <3>2, <4>1, <4>2
      <3> QED
        BY <3>1, <3>2
    <2> QED
      BY <2>1 DEF PromiseInv
  <1>5. LoadingInv'
    <2>1. ASSUME NEW u \in Versions, At(u)' # NoModel, At(u)' \notin ready' \cup refused'
          PROVE  \E d \in Clients : client'[d].model = At(u)' /\ client'[d].at \in Registering
      <3>1. CASE u = v
        BY <1>3, <2>1, <3>1
      <3>2. CASE u # v
        <4>1. At(u) # NoModel /\ At(u) \notin ready \cup refused /\ At(u).version = u
          BY <1>2, <2>1, <3>2, AtTyped DEF Inv
        <4>2. PICK d \in Clients : client[d].model = At(u) /\ client[d].at \in Registering
          BY <4>1 DEF Inv, LoadingInv, Held
        <4>3. d # c
          BY <3>2, <4>1, <4>2
        <4> QED
          BY <1>2, <3>2, <4>2, <4>3 DEF Others
      <3> QED
        BY <3>1, <3>2
    <2> QED
      BY <2>1 DEF LoadingInv, Held
  <1>6. ASSUME NEW d \in Clients \ {c} PROVE RequestInv(d)'
    BY OtherKeeps DEF Free, Others
  <1> QED
    BY <1>1, <1>4, <1>5, <1>6

\* What is the same to a request
LEMMA SameHeld ==
    ASSUME SameModels
    PROVE  Held' = Held /\ \A m \in Model : Present(m)' <=> Present(m)
  BY ModelShape DEF SameModels, Held, Present

\* What all steps that leave the models as they are have in common; where no request
\* moves, c is nobody
LEMMA SameStep ==
    ASSUME Inv, NEW c, SameModels, Others(c), UNCHANGED <<ready, promised, refused, use>>,
           known' \/ Held' = {},
           c \in Clients /\ client[c].at \in Registering =>
                client'[c].at \in Registering /\ client'[c].model = client[c].model
    PROVE  /\ RegistryInv' /\ KnownInv' /\ PromiseInv' /\ LoadingInv'
           /\ \A d \in Clients \ {c} : RequestInv(d)'
  <1>1. RegistryInv' /\ KnownInv' /\ PromiseInv'
    BY DEF SameModels, KnownInv, Inv, PromiseInv
  <1>2. LoadingInv'
    <2>1. ASSUME NEW u \in Held', At(u)' \notin ready' \cup refused'
          PROVE  \E d \in Clients : client'[d].model = At(u)' /\ client'[d].at \in Registering
      <3>1. u \in Held /\ At(u)' = At(u) /\ At(u) \notin ready \cup refused
        BY <2>1, SameHeld DEF Held, SameModels
      <3>2. PICK d \in Clients : client[d].model = At(u) /\ client[d].at \in Registering
        BY <3>1 DEF Inv, LoadingInv
      <3> QED
        BY <3>1, <3>2 DEF Others
    <2> QED
      BY <2>1 DEF LoadingInv
  <1>3. ASSUME NEW d \in Clients \ {c} PROVE RequestInv(d)'
    <2>1. PICK k \in RequestStates : k = client[d] /\ k = client'[d]
      BY DEF Inv, TypeOK, Others
    <2>2. ClientInv(d) /\ RepositoryInv(d) /\ UnloadInv(d)
      BY DEF Inv, RequestInv
    <2>3. k.pending \subseteq Model
      BY DEF RequestStates
    <2>4. \A m : Present(m)' <=> Present(m)
      BY SameHeld DEF Present
    <2>5. ClientInv(d)'
      BY <2>1, <2>2, <2>3, <2>4 DEF ClientInv
    <2>6. RepositoryInv(d)' /\ UnloadInv(d)'
      BY <2>1, <2>2, SameHeld DEF RepositoryInv, UnloadInv
    <2> QED
      BY <2>5, <2>6 DEF RequestInv
  <1> QED
    BY <1>1, <1>2, <1>3

\* A request goes on with the versions it named
LEMMA ApartStays ==
    ASSUME Inv, NEW c \in Clients, Busy(c), Others(c), use' = use,
           client'[c].wanted = client[c].wanted,
           Running(c)' => Running(c) \/ NobodyRuns
    PROVE  Apart'
  <1>1. ASSUME NEW a \in Clients, NEW b \in Clients \ {a}
        PROVE  /\ (Busy(a) /\ Busy(b))' => /\ use'.concurrent
                                           /\ 0 \notin client'[a].wanted
                                           /\ client'[a].wanted \cap client'[b].wanted = {}
               /\ Running(a)' => ~Running(b)'
    <2>1. /\ Busy(a)' => Busy(a) /\ client'[a].wanted = client[a].wanted
          /\ Busy(b)' => Busy(b) /\ client'[b].wanted = client[b].wanted
      BY DEF Busy, Others
    <2>2. /\ Running(a)' => Running(a) \/ (a = c /\ NobodyRuns)
          /\ Running(b)' => Running(b) \/ (b = c /\ NobodyRuns)
      BY DEF Running, Others
    <2> QED
      BY <2>1, <2>2 DEF Inv, Apart, NobodyRuns
  <1> QED
    BY <1>1 DEF Apart

\* A new request names versions that no other one has named
LEMMA ApartStarts ==
    ASSUME Inv, NEW c \in Clients, NEW vs, MayStart(c, vs), Others(c), use' = use,
           client'[c].wanted = vs
    PROVE  Apart'
  <1>1. ASSUME NEW a \in Clients, NEW b \in Clients \ {a}
        PROVE  /\ (Busy(a) /\ Busy(b))' => /\ use'.concurrent
                                           /\ 0 \notin client'[a].wanted
                                           /\ client'[a].wanted \cap client'[b].wanted = {}
               /\ Running(a)' => ~Running(b)'
    <2>1. /\ a # c => client'[a] = client[a]
          /\ b # c => client'[b] = client[b]
      BY DEF Others
    <2>2. a # c /\ b # c => /\ Busy(a) /\ Busy(b) => /\ use.concurrent
                                                     /\ 0 \notin client[a].wanted
                                                     /\ client[a].wanted \cap client[b].wanted = {}
                            /\ Running(a) => ~Running(b)
      BY DEF Inv, Apart
    <2>3. ASSUME NEW d \in Clients \ {c}, client[d] # NoRequest
          PROVE  /\ use.concurrent /\ 0 \notin vs /\ 0 \notin client[d].wanted
                 /\ client[d].wanted \cap vs = {}
      BY <2>3 DEF MayStart
    <2>4. \A d \in Clients : ~Running(d)
      BY DEF MayStart, NobodyRuns
    <2> QED
      BY <2>1, <2>2, <2>3, <2>4 DEF Busy, Running
  <1> QED
    BY <1>1 DEF Apart

\* A request that was answered is gone
LEMMA ApartEnds ==
    ASSUME Inv, NEW c \in Clients, Others(c), use' = use, client'[c] = NoRequest
    PROVE  Apart'
  <1>1. ASSUME NEW a \in Clients, NEW b \in Clients \ {a}
        PROVE  /\ (Busy(a) /\ Busy(b))' => /\ use'.concurrent
                                           /\ 0 \notin client'[a].wanted
                                           /\ client'[a].wanted \cap client'[b].wanted = {}
               /\ Running(a)' => ~Running(b)'
    <2>1. /\ a # c => client'[a] = client[a]
          /\ b # c => client'[b] = client[b]
      BY DEF Others
    <2> QED
      BY <2>1 DEF Busy, Running, NoRequest, Inv, Apart
  <1> QED
    BY <1>1 DEF Apart

LEMMA SetWhat ==
    ASSUME TypeOK, NEW c \in Clients, NEW r \in RequestStates, Set(c, r)
    PROVE  /\ client'[c] = r /\ Others(c)
           /\ client' \in [Clients -> RequestStates]
  BY DEF TypeOK, Set, Others

----------------------------------------------------------------------------
(* Each action keeps the invariant *)

LEMMA NoRequestTyped == NoRequest \in RequestStates
  BY DEF NoRequest, RequestStates, ModelOrNone, Registering

LEMMA NothingKnown ==
    ASSUME Inv, NEW m, Present(m)
    PROVE  known /\ m.version \in Held /\ m # NoModel
  BY ModelShape DEF Inv, KnownInv, Held, Present

LEMMA RequestLoadInv ==
    ASSUME Inv, NEW c \in Clients, NEW kind \in {"startup", "repository"},
           NEW vs \in SUBSET Versions \ {{}}, RequestLoad(c, kind, vs)
    PROVE  Inv'
  <1> DEFINE r == [NoRequest EXCEPT !.at = "next", !.kind = kind, !.todo = vs, !.wanted = vs]
  <1>1. /\ r.at = "next" /\ r.kind = kind /\ r.todo = vs /\ r.wanted = vs
        /\ r.pending = {} /\ r \in RequestStates
    BY NoRequestTyped DEF NoRequest, RequestStates
  <1>2. Set(c, r) /\ UNCHANGED <<known, versions, default, ready, promised, refused, use>>
    BY DEF RequestLoad
  <1> HIDE DEF r
  <1>3. /\ client'[c] = r /\ Others(c)
        /\ client' \in [Clients -> RequestStates]
    BY <1>1, <1>2, SetWhat DEF Inv
  <1>4. TypeOK'
    BY <1>2, <1>3 DEF Inv, TypeOK
  <1>5. SameModels
    BY <1>2, SettleKeeps DEF Inv
  <1>6. client[c] = NoRequest
    BY DEF RequestLoad, MayStart
  <1>7. known' \/ Held' = {}
    BY <1>2, <1>5, SameHeld DEF Inv, KnownInv
  <1>8. /\ RegistryInv' /\ KnownInv' /\ PromiseInv' /\ LoadingInv'
        /\ \A d \in Clients \ {c} : RequestInv(d)'
    BY <1>2, <1>3, <1>5, <1>6, <1>7, SameStep DEF NoRequest, Registering
  <1>9. Apart'
    BY <1>1, <1>2, <1>3, ApartStarts DEF RequestLoad
  <1>10. RequestInv(c)'
    BY <1>1, <1>2, <1>3 DEF RequestLoad, RequestInv, ClientInv, RepositoryInv, UnloadInv, Registering
  <1> QED
    BY <1>4, <1>8, <1>9, <1>10 DEF Inv

LEMMA UnusedNew ==
    ASSUME NEW v, Unused(v) # {}
    PROVE  NewModel(v) \in Model /\ NewModel(v).version = v /\ NewModel(v) \notin InUse
  <1>1. NewModel(v) \in Unused(v)
    BY DEF NewModel
  <1> QED
    BY <1>1 DEF Unused

\* What the registry has is in use
LEMMA FoundInUse ==
    ASSUME RegistryInv, NEW v \in Versions
    PROVE  /\ Find(v) # NoModel => Find(v) \in InUse
           /\ At(v) # NoModel => At(v) \in InUse
  <1>1. \A u \in Numbered : versions[u] \in InUse
    BY DEF RegistryInv, InUse, Range
  <1>2. default \in InUse
    BY DEF InUse
  <1>3. CurrentDefault # NoModel => CurrentDefault \in InUse
    BY <1>1, <1>2, DefaultOfWhat DEF CurrentDefault, RegistryInv
  <1> QED
    BY <1>1, <1>2, <1>3, ModelShape DEF Find, At

LEMMA LoadInv ==
    ASSUME Inv, NEW c \in Clients, NEW v \in Versions, Load(c, v)
    PROVE  Inv'
  <1>1. PICK m \in Model : m = NewModel(v) /\ m.version = v /\ m \notin InUse
    BY UnusedNew DEF Load
  <1>2. PICK old \in ModelOrNone :
        /\ old = Find(v)
        /\ old # NoModel => Present(old) /\ v \in {0, old.version} /\ old # m
        /\ old = NoModel => At(v) = NoModel
        /\ At(v) # NoModel => old = At(v) /\ At(v) # m
    BY <1>1, FindWhat, FoundInUse DEF Inv
  <1> DEFINE at == IF old = NoModel THEN "loading" ELSE "reloading"
             r == [client[c] EXCEPT !.todo = @ \ {v}, !.model = m, !.old = old, !.at = at]
  <1>3. /\ client[c].at = "next" /\ v \in client[c].todo
        /\ known' = TRUE /\ ready' = ready \ {m} /\ refused' = refused \ {m} /\ Set(c, r)
        /\ UNCHANGED <<promised, use>>
        /\ old = NoModel => Register(m)
        /\ old # NoModel => default' \in {default, CurrentDefault} /\ UNCHANGED versions
    BY <1>1, <1>2 DEF Load, IsNew
  <1>4. PICK k \in RequestStates : k = client[c]
    BY DEF Inv, TypeOK
  <1>5. /\ r.at = at /\ r.kind = k.kind /\ r.todo = k.todo \ {v} /\ r.wanted = k.wanted
        /\ r.model = m /\ r.old = old /\ r.pending = k.pending
        /\ r \in RequestStates
    <2>1. r = [k EXCEPT !.todo = @ \ {v}, !.model = m, !.old = old, !.at = at]
      BY <1>4
    <2>2. at \in {"loading", "reloading"}
      OBVIOUS
    <2> HIDE DEF r, at
    <2> QED
      BY <1>1, <1>2, <2>1, <2>2 DEF RequestStates, ModelOrNone, Registering
  <1>6. at = IF old = NoModel THEN "loading" ELSE "reloading"
    OBVIOUS
  <1> HIDE DEF r, at
  <1>7. /\ client'[c] = r /\ Others(c)
        /\ client' \in [Clients -> RequestStates]
    BY <1>3, <1>5, SetWhat DEF Inv
  <1>8. TypeOK'
    BY <1>3, <1>7 DEF Inv, TypeOK
  <1>9. ClientInv(c) /\ RepositoryInv(c)
    BY DEF Inv, RequestInv
  <1>10. Busy(c) /\ v \in k.wanted
    BY <1>3, <1>4, <1>9 DEF Busy, NoRequest, ClientInv
  <1>11. Free(c, v)
    BY <1>4, <1>10, OwnVersion
  <1> DEFINE x == IF old = NoModel THEN m ELSE At(v)
  <1>12. Puts(v, x)
    <2>1. CASE old = NoModel
      BY <1>1, <1>3, <2>1, RegisterPuts DEF Inv, Register
    <2>2. CASE old # NoModel
      <3>1. SameModels
        BY <1>3, <2>2, SettleKeeps DEF Inv
      <3> QED
        BY <2>2, <3>1 DEF Puts, SameModels
    <2> QED
      BY <2>1, <2>2
  <1>13. At(v) # NoModel => At(v) \in ready \cup refused
    <2>1. ASSUME At(v) # NoModel, At(v) \notin ready \cup refused PROVE FALSE
      <3>1. PICK d \in Clients : client[d].model = At(v) /\ client[d].at \in Registering
        BY <2>1 DEF Inv, LoadingInv, Held
      <3>2. d # c /\ Busy(d)
        BY <1>3, <3>1 DEF Registering, Busy, NoRequest
      <3>3. v \in client[d].wanted
        BY <2>1, <3>1, AtTyped DEF Inv, RequestInv, ClientInv
      <3> QED
        BY <1>11, <3>2, <3>3 DEF Free
    <2> QED
      BY <2>1
  <1>14. promised' = [promised EXCEPT ![v] = IF x \in ready' THEN x ELSE NoModel]
    <2>1. promised[v] = IF At(v) \in ready THEN At(v) ELSE NoModel
      BY DEF Inv, PromiseInv
    <2>2. At(v) # NoModel => At(v) # m /\ old # NoModel
      BY <1>2, ModelShape
    <2>3. NoModel \notin ready
      BY ModelShape DEF Inv, TypeOK
    <2>4. (IF x \in ready' THEN x ELSE NoModel) = promised[v]
      BY <1>2, <1>3, <2>1, <2>2, <2>3
    <2> QED
      BY <1>3, <2>4 DEF Inv, TypeOK
  <1>15. x \in ModelOrNone /\ (x # NoModel /\ x \notin ready' \cup refused' => r.model = x /\ r.at \in Registering)
    BY <1>1, <1>2, <1>3, <1>5, <1>6, <1>13, AtTyped DEF ModelOrNone, Registering, Inv
  <1>16. /\ ready' \subseteq Model /\ use' = use /\ known'
         /\ \A n \in Model : n.version # v => (n \in ready' <=> n \in ready)
         /\ \A n \in Model : n.version # v => (n \in refused' <=> n \in refused)
         /\ client[c].at \notin Registering
    BY <1>1, <1>3 DEF Inv, TypeOK, Registering
  <1> HIDE DEF x
  <1>17. /\ RegistryInv' /\ KnownInv' /\ PromiseInv' /\ LoadingInv'
         /\ \A d \in Clients \ {c} : RequestInv(d)'
    BY <1>7, <1>11, <1>12, <1>14, <1>15, <1>16, PutStep
  <1>18. Apart'
    BY <1>3, <1>4, <1>5, <1>7, <1>10, ApartStays DEF Running
  <1>19. RequestInv(c)'
    <2>1. k.at = "next" /\ (k.pending # {} => k.kind \in {"repository", "unload"})
      BY <1>3, <1>4, <1>9 DEF ClientInv
    <2>2. \A n : Present(n) => Present(n)'
      <3>1. CASE old = NoModel
        BY <1>2, <1>12, <3>1, ModelShape DEF x, Puts, Present
      <3>2. CASE old # NoModel
        BY <1>12, <3>2, ModelShape DEF x, Puts, Present
      <3> QED
        BY <3>1, <3>2
    <2>3. old = NoModel => Present(m)' /\ m \notin ready'
      BY <1>1, <1>3, <1>12 DEF x, Puts, Present
    <2>4. Held \subseteq Held'
      <3>1. ASSUME NEW u \in Versions, At(u) # NoModel PROVE At(u)' # NoModel
        BY <1>2, <1>12, <3>1 DEF x, Puts
      <3> QED
        BY <3>1 DEF Held
    <2>5. ClientInv(c)'
      BY <1>1, <1>2, <1>3, <1>4, <1>5, <1>6, <1>7, <1>9, <1>10, <2>1, <2>2, <2>3 DEF ClientInv, Registering
    <2>6. RepositoryInv(c)' /\ UnloadInv(c)'
      BY <1>1, <1>4, <1>5, <1>6, <1>7, <1>9, <2>1, <2>4 DEF RepositoryInv, UnloadInv
    <2> QED
      BY <2>5, <2>6 DEF RequestInv
  <1> QED
    BY <1>8, <1>17, <1>18, <1>19 DEF Inv

LEMMA HooksReturnInv ==
    ASSUME Inv, NEW c \in Clients, HooksReturn(c)
    PROVE  Inv'
  <1>1. PICK k \in RequestStates : k = client[c]
    BY DEF Inv, TypeOK
  <1>2. ClientInv(c) /\ RepositoryInv(c)
    BY DEF Inv, RequestInv
  <1>3. PICK v \in Versions : /\ k.at = "loading" /\ v = k.model.version
                              /\ v \in k.wanted \ k.todo /\ Present(k.model)
    BY <1>1, <1>2, ModelShape DEF HooksReturn, ClientInv, Registering
  <1>4. PICK m \in Model : /\ m = IF use.wraps THEN NewModel(v) ELSE k.model
                           /\ m.version = v
    BY <1>1, <1>3, UnusedNew DEF HooksReturn, Present
  <1> DEFINE r == [client[c] EXCEPT !.at = "starting", !.model = m]
  <1>5. /\ Register(m) /\ ready' = ready \ {m} /\ refused' = refused \ {m} /\ Set(c, r)
        /\ UNCHANGED <<known, promised, use>> /\ NobodyRuns
    BY <1>1, <1>3, <1>4 DEF HooksReturn, IsNew
  <1>6. /\ r.at = "starting" /\ r.kind = k.kind /\ r.todo = k.todo /\ r.wanted = k.wanted
        /\ r.model = m /\ r.old = k.old /\ r.pending = k.pending
        /\ r \in RequestStates
    BY <1>1 DEF RequestStates, ModelOrNone, Registering
  <1> HIDE DEF r
  <1>7. /\ client'[c] = r /\ Others(c)
        /\ client' \in [Clients -> RequestStates]
    BY <1>5, <1>6, SetWhat DEF Inv
  <1>8. TypeOK'
    BY <1>5, <1>7 DEF Inv, TypeOK
  <1>9. Busy(c) /\ Free(c, v)
    <2>1. Busy(c)
      BY <1>1, <1>3 DEF Busy, NoRequest
    <2> QED
      BY <1>1, <1>3, <2>1, OwnVersion
  <1>10. Puts(v, m)
    BY <1>4, <1>5, RegisterPuts DEF Inv, Register
  <1>11. promised' = [promised EXCEPT ![v] = IF m \in ready' THEN m ELSE NoModel]
    <2>1. At(v) = k.model /\ k.model \notin ready
      BY <1>1, <1>2, <1>3 DEF ClientInv, Registering, Present
    <2>2. promised[v] = NoModel
      BY <2>1 DEF Inv, PromiseInv
    <2> QED
      BY <1>5, <2>2 DEF Inv, TypeOK
  <1>12. /\ ready' \subseteq Model /\ use' = use /\ known'
         /\ \A n \in Model : n.version # v => (n \in ready' <=> n \in ready)
         /\ \A n \in Model : n.version # v => (n \in refused' <=> n \in refused)
         /\ client[c].model.version = v /\ r.at \in Registering /\ m \in ModelOrNone
    BY <1>1, <1>3, <1>4, <1>5, <1>6, NothingKnown DEF Inv, TypeOK, Registering, ModelOrNone
  <1>13. /\ RegistryInv' /\ KnownInv' /\ PromiseInv' /\ LoadingInv'
         /\ \A d \in Clients \ {c} : RequestInv(d)'
    BY <1>6, <1>7, <1>9, <1>10, <1>11, <1>12, PutStep
  <1>14. Apart'
    BY <1>1, <1>5, <1>6, <1>7, <1>9, ApartStays
  <1>15. RequestInv(c)'
    <2>1. k.kind \in {"repository", "unload"} => ~use.concurrent
      BY <1>1, <1>2 DEF ClientInv
    <2>2. \A n \in Model : n.version # v /\ Present(n) => Present(n)'
      BY <1>10, ModelShape DEF Puts, Present
    <2>3. Present(m)' /\ m \notin ready'
      BY <1>4, <1>5, <1>10 DEF Puts, Present
    <2>4. k.pending = {}
      BY <1>1, <1>2, <1>3 DEF ClientInv
    <2>5. Held \subseteq Held'
      <3>1. ASSUME NEW u \in Versions, At(u) # NoModel PROVE At(u)' # NoModel
        BY <1>10, <3>1, ModelShape DEF Puts
      <3> QED
        BY <3>1 DEF Held
    <2>6. ClientInv(c)'
      BY <1>1, <1>2, <1>3, <1>4, <1>5, <1>6, <1>7, <2>3, <2>4 DEF ClientInv, Registering
    <2>7. RepositoryInv(c)' /\ UnloadInv(c)'
      BY <1>1, <1>2, <1>3, <1>4, <1>6, <1>7, <2>5 DEF RepositoryInv, UnloadInv
    <2> QED
      BY <2>6, <2>7 DEF RequestInv
  <1> QED
    BY <1>8, <1>13, <1>14, <1>15 DEF Inv

\* The outcome of a load is known, and what the version has to serve
LEMMA ReturnsWhat ==
    ASSUME TypeOK, NEW m \in Model, Returns(m)
    PROVE  /\ ready' \subseteq Model /\ refused' \subseteq Model /\ m \in ready' \cup refused'
           /\ promised' \in [Versions -> ModelOrNone]
           /\ promised' = [promised EXCEPT ![m.version] = IF m \in ready' THEN m ELSE NoModel]
           /\ \A n \in Model : n.version # m.version => (n \in ready' <=> n \in ready)
           /\ \A n \in Model : n.version # m.version => (n \in refused' <=> n \in refused)
  <1>1. ready' = ready \cup {m} \/ ready' = ready \ {m}
    BY DEF Returns
  <1>2. LET others == {n \in refused : n.version # m.version}
        IN  refused' \in {others, others \cup {m}} /\ m \in ready' \cup refused'
    BY DEF Returns
  <1>3. promised' = [promised EXCEPT ![m.version] = IF m \in ready' THEN m ELSE NoModel]
    <2>1. CASE ready' = ready \cup {m} /\ promised' = [promised EXCEPT ![m.version] = m]
      BY <2>1
    <2>2. CASE ready' = ready \ {m} /\ promised' = [promised EXCEPT ![m.version] = NoModel]
      BY <2>2
    <2> QED
      BY <2>1, <2>2 DEF Returns
  <1>4. promised' \in [Versions -> ModelOrNone]
    BY <1>3 DEF TypeOK, ModelOrNone
  <1> QED
    BY <1>1, <1>2, <1>3, <1>4 DEF TypeOK

LEMMA LoadReturnsInv ==
    ASSUME Inv, NEW c \in Clients, LoadReturns(c)
    PROVE  Inv'
  <1>1. PICK k \in RequestStates : k = client[c]
    BY DEF Inv, TypeOK
  <1>2. ClientInv(c) /\ RepositoryInv(c)
    BY DEF Inv, RequestInv
  <1>3. PICK v \in Versions : /\ k.at = "starting" /\ v = k.model.version
                              /\ v \in k.wanted \ k.todo
                              /\ Present(k.model) /\ k.model \in Model
    BY <1>1, <1>2, ModelShape DEF LoadReturns, ClientInv, Registering
  <1> DEFINE r == [client[c] EXCEPT !.at = "next", !.model = NoModel]
  <1>4. Returns(k.model) /\ Set(c, r) /\ NobodyRuns /\ UNCHANGED <<known, versions, default, use>>
    BY <1>1, <1>3 DEF LoadReturns
  <1>5. /\ r.at = "next" /\ r.kind = k.kind /\ r.todo = k.todo /\ r.wanted = k.wanted
        /\ r.pending = k.pending /\ r \in RequestStates
    BY <1>1 DEF RequestStates, ModelOrNone, Registering
  <1> HIDE DEF r
  <1>6. /\ client'[c] = r /\ Others(c)
        /\ client' \in [Clients -> RequestStates]
    BY <1>4, <1>5, SetWhat DEF Inv
  <1>7. TypeOK'
    BY <1>3, <1>4, <1>6, ReturnsWhat DEF Inv, TypeOK
  <1>8. Busy(c) /\ Free(c, v)
    <2>1. Busy(c)
      BY <1>1, <1>3 DEF Busy, NoRequest
    <2> QED
      BY <1>1, <1>3, <2>1, OwnVersion
  <1>9. SameModels
    BY <1>4, SettleKeeps DEF Inv
  <1>10. Puts(v, k.model)
    BY <1>3, <1>9 DEF Puts, SameModels, Present
  <1>11. /\ promised' = [promised EXCEPT ![v] = IF k.model \in ready' THEN k.model ELSE NoModel]
         /\ ready' \subseteq Model /\ use' = use /\ known' /\ k.model \in ready' \cup refused'
         /\ \A n \in Model : n.version # v => (n \in ready' <=> n \in ready)
         /\ \A n \in Model : n.version # v => (n \in refused' <=> n \in refused)
         /\ client[c].model.version = v /\ k.model \in ModelOrNone
    BY <1>1, <1>3, <1>4, NothingKnown, ReturnsWhat DEF Inv, ModelOrNone
  <1>12. /\ RegistryInv' /\ KnownInv' /\ PromiseInv' /\ LoadingInv'
         /\ \A d \in Clients \ {c} : RequestInv(d)'
    BY <1>6, <1>8, <1>10, <1>11, PutStep
  <1>13. Apart'
    BY <1>1, <1>4, <1>5, <1>6, <1>8, ApartStays
  <1>14. RequestInv(c)'
    <2>1. k.pending = {}
      BY <1>1, <1>2, <1>3 DEF ClientInv
    <2>2. v \in Held
      BY <1>3, NothingKnown
    <2>3. ClientInv(c)'
      BY <1>1, <1>2, <1>4, <1>5, <1>6, <2>1 DEF ClientInv, Registering
    <2>4. RepositoryInv(c)' /\ UnloadInv(c)'
      BY <1>1, <1>2, <1>3, <1>5, <1>6, <1>9, <2>2, SameHeld DEF RepositoryInv, UnloadInv
    <2> QED
      BY <2>3, <2>4 DEF RequestInv
  <1> QED
    BY <1>7, <1>12, <1>13, <1>14 DEF Inv

\* A request goes on without a change of the models: what is left to show of it
LEMMA GoesOn ==
    ASSUME Inv, NEW c \in Clients, NEW r \in RequestStates, Set(c, r), SameModels,
           UNCHANGED <<ready, promised, refused, use>>, known' \in BOOLEAN, known' \/ Held' = {},
           client[c].at \in Registering =>
                r.at \in Registering /\ r.model = client[c].model,
           RequestInv(c)', Apart'
    PROVE  Inv'
  <1>1. /\ client'[c] = r /\ Others(c)
        /\ client' \in [Clients -> RequestStates]
    BY SetWhat DEF Inv
  <1>2. TypeOK'
    BY <1>1 DEF Inv, TypeOK
  <1>3. /\ RegistryInv' /\ KnownInv' /\ PromiseInv' /\ LoadingInv'
        /\ \A d \in Clients \ {c} : RequestInv(d)'
    BY <1>1, SameStep
  <1> QED
    BY <1>2, <1>3 DEF Inv

\* The same for a request that stays under way, and does not start to run unless nobody does
LEMMA GoesOnBusy ==
    ASSUME Inv, NEW c \in Clients, Busy(c), NEW r \in RequestStates, Set(c, r), SameModels,
           UNCHANGED <<ready, promised, refused, use>>, known' \in BOOLEAN, known' \/ Held' = {},
           client[c].at \in Registering =>
                r.at \in Registering /\ r.model = client[c].model,
           r.wanted = client[c].wanted,
           r.at \in {"next", "stale"} => Running(c) \/ NobodyRuns,
           RequestInv(c)'
    PROVE  Inv'
  <1>1. client'[c] = r /\ Others(c)
    BY SetWhat DEF Inv
  <1>2. Apart'
    BY <1>1, ApartStays DEF Running
  <1> QED
    BY <1>2, GoesOn

\* Without a change of the registry, the models are the same and those that are known
LEMMA RegistryStays ==
    ASSUME Inv, UNCHANGED <<known, versions>>, default' \in {default, CurrentDefault}
    PROVE  SameModels /\ known' \in BOOLEAN /\ (known' \/ Held' = {})
  <1>1. SameModels
    BY SettleKeeps DEF Inv
  <1> QED
    BY <1>1, SameHeld DEF Inv, KnownInv, TypeOK

LEMMA LoadRaisesInv ==
    ASSUME Inv, NEW c \in Clients, LoadRaises(c), HooksAgree
    PROVE  Inv'
  <1>1. PICK k \in RequestStates : k = client[c]
    BY DEF Inv, TypeOK
  <1>2. ClientInv(c)
    BY DEF Inv, RequestInv
  <1> DEFINE r == [client[c] EXCEPT !.at = "failing"]
  <1>3. Set(c, r) /\ client[c].at \in {"loading", "starting"}
    BY DEF LoadRaises, HooksAgree, Inv, TypeOK, Go
  <1>4. UNCHANGED <<known, versions, default, ready, promised, refused, use>>
    BY DEF LoadRaises
  <1>5. /\ r.at = "failing" /\ r.kind = k.kind /\ r.todo = k.todo /\ r.wanted = k.wanted
        /\ r.model = k.model /\ r.pending = k.pending /\ r \in RequestStates
    BY <1>1 DEF RequestStates, ModelOrNone, Registering
  <1> HIDE DEF r
  <1>6. client'[c] = r
    BY <1>3, <1>5, SetWhat DEF Inv
  <1>7. SameModels /\ known' \in BOOLEAN /\ (known' \/ Held' = {})
    BY <1>4, RegistryStays
  <1>8. RequestInv(c)'
    <2>1. k.pending = {}
      BY <1>1, <1>2, <1>3 DEF ClientInv
    <2>2. Present(k.model)'
      BY <1>1, <1>2, <1>3, <1>7, SameHeld DEF ClientInv, Registering
    <2>3. ClientInv(c)'
      BY <1>1, <1>2, <1>3, <1>4, <1>5, <1>6, <2>1, <2>2 DEF ClientInv, Registering
    <2> QED
      BY <1>5, <1>6, <2>3 DEF RequestInv, RepositoryInv, UnloadInv
  <1>9. Busy(c)
    BY <1>3 DEF Busy, NoRequest
  <1> QED
    BY <1>1, <1>3, <1>4, <1>5, <1>7, <1>8, <1>9, GoesOnBusy DEF Registering

LEMMA ReloadRaisesInv ==
    ASSUME Inv, NEW c \in Clients, ReloadRaises(c)
    PROVE  Inv'
  <1>1. PICK k \in RequestStates : k = client[c]
    BY DEF Inv, TypeOK
  <1>2. ClientInv(c)
    BY DEF Inv, RequestInv
  <1> DEFINE r == [client[c] EXCEPT !.at = "failed", !.model = NoModel, !.old = NoModel]
  <1>3. /\ Set(c, r) /\ client[c].at = "reloading"
        /\ UNCHANGED <<known, versions, default, ready, promised, refused, use>>
    BY DEF ReloadRaises
  <1>4. /\ r.at = "failed" /\ r.kind = k.kind /\ r.todo = k.todo /\ r.wanted = k.wanted
        /\ r.pending = k.pending /\ r \in RequestStates
    BY <1>1 DEF RequestStates, ModelOrNone, Registering
  <1> HIDE DEF r
  <1>5. client'[c] = r
    BY <1>3, <1>4, SetWhat DEF Inv
  <1>6. SameModels /\ known' \in BOOLEAN /\ (known' \/ Held' = {})
    BY <1>3, RegistryStays
  <1>7. RequestInv(c)'
    <2>1. k.pending = {}
      BY <1>1, <1>2, <1>3 DEF ClientInv
    <2>2. ClientInv(c)'
      BY <1>1, <1>2, <1>3, <1>4, <1>5, <2>1 DEF ClientInv, Registering
    <2> QED
      BY <1>4, <1>5, <2>2 DEF RequestInv, RepositoryInv, UnloadInv
  <1>8. Busy(c)
    BY <1>3 DEF Busy, NoRequest
  <1> QED
    BY <1>1, <1>3, <1>4, <1>6, <1>7, <1>8, GoesOnBusy DEF Registering

LEMMA FailedLoadUnloadedInv ==
    ASSUME Inv, NEW c \in Clients, FailedLoadUnloaded(c)
    PROVE  Inv'
  <1>1. PICK k \in RequestStates : k = client[c]
    BY DEF Inv, TypeOK
  <1>2. ClientInv(c)
    BY DEF Inv, RequestInv
  <1>3. PICK v \in Versions : /\ k.at = "failing" /\ v = k.model.version
                              /\ v \in k.wanted \ k.todo
                              /\ Present(k.model) /\ k.model \notin ready
    BY <1>1, <1>2, ModelShape DEF FailedLoadUnloaded, ClientInv, Registering
  <1> DEFINE r == [client[c] EXCEPT !.at = "failed", !.model = NoModel]
  <1>4. /\ Drop(k.model) /\ Set(c, r) /\ UNCHANGED <<known, ready, promised, refused, use>>
    BY <1>1 DEF FailedLoadUnloaded
  <1>5. /\ r.at = "failed" /\ r.kind = k.kind /\ r.todo = k.todo /\ r.wanted = k.wanted
        /\ r.pending = k.pending /\ r \in RequestStates
    BY <1>1 DEF RequestStates, ModelOrNone, Registering
  <1> HIDE DEF r
  <1>6. /\ client'[c] = r /\ Others(c)
        /\ client' \in [Clients -> RequestStates]
    BY <1>4, <1>5, SetWhat DEF Inv
  <1>7. TypeOK'
    BY <1>4, <1>6 DEF Inv, TypeOK
  <1>8. Busy(c) /\ Free(c, v)
    <2>1. Busy(c)
      BY <1>1, <1>3 DEF Busy, NoRequest
    <2> QED
      BY <1>1, <1>3, <2>1, OwnVersion
  <1>9. Puts(v, NoModel)
    BY <1>3, <1>4, DropPuts DEF Inv
  <1>10. promised' = [promised EXCEPT ![v] = NoModel]
    <2>1. promised[v] = NoModel
      BY <1>3 DEF Inv, PromiseInv, Present
    <2> QED
      BY <1>4, <2>1 DEF Inv, TypeOK
  <1>11. /\ ready' = ready /\ refused' = refused /\ use' = use /\ known' /\ ready \subseteq Model
         /\ client[c].model.version = v /\ NoModel \in ModelOrNone /\ NoModel \notin ready
    BY <1>1, <1>3, <1>4, NothingKnown, ModelShape DEF Inv, TypeOK, ModelOrNone
  <1>12. /\ RegistryInv' /\ KnownInv' /\ PromiseInv' /\ LoadingInv'
         /\ \A d \in Clients \ {c} : RequestInv(d)'
    BY <1>6, <1>8, <1>9, <1>10, <1>11, PutStep
  <1>13. Apart'
    BY <1>1, <1>5, <1>6, <1>8, <1>11, ApartStays DEF Running
  <1>14. RequestInv(c)'
    <2>1. k.pending = {}
      BY <1>1, <1>2, <1>3 DEF ClientInv
    <2>2. ClientInv(c)'
      BY <1>1, <1>2, <1>4, <1>5, <1>6, <2>1 DEF ClientInv, Registering
    <2> QED
      BY <1>5, <1>6, <2>2 DEF RequestInv, RepositoryInv, UnloadInv
  <1> QED
    BY <1>7, <1>12, <1>13, <1>14 DEF Inv

LEMMA ReloadReturnsInv ==
    ASSUME Inv, NEW c \in Clients, ReloadReturns(c)
    PROVE  Inv'
  <1>1. PICK k \in RequestStates : k = client[c]
    BY DEF Inv, TypeOK
  <1>2. ClientInv(c) /\ RepositoryInv(c)
    BY DEF Inv, RequestInv
  <1>3. PICK v \in Versions : /\ k.at = "reloading" /\ v = k.model.version
                              /\ v \in k.wanted \ k.todo /\ k.model \in Model
                              /\ Present(k.old) /\ k.old # k.model /\ v \in {0, k.old.version}
    BY <1>1, <1>2, ModelShape DEF ReloadReturns, ClientInv
  <1>4. PICK m \in Model : /\ m = IF use.wraps THEN NewModel(v) ELSE k.model
                           /\ m.version = v /\ m # k.old
    <2>1. k.old \in InUse
      BY <1>1 DEF InUse
    <2> QED
      BY <1>1, <1>3, <2>1, UnusedNew DEF ReloadReturns
  <1> DEFINE r == [client[c] EXCEPT !.at = "next", !.model = NoModel, !.old = NoModel]
  <1>5. /\ versions' = WithVersion(m) /\ Returns(m) /\ Set(c, r)
        /\ default' = IF Refreshed(default, m) = k.old THEN NoModel ELSE Refreshed(default, m)
        /\ UNCHANGED <<known, use>> /\ NobodyRuns
    BY <1>1, <1>3, <1>4 DEF ReloadReturns
  <1>6. /\ r.at = "next" /\ r.kind = k.kind /\ r.todo = k.todo /\ r.wanted = k.wanted
        /\ r.pending = k.pending /\ r \in RequestStates
    BY <1>1 DEF RequestStates, ModelOrNone, Registering
  <1> HIDE DEF r
  <1>7. /\ client'[c] = r /\ Others(c)
        /\ client' \in [Clients -> RequestStates]
    BY <1>5, <1>6, SetWhat DEF Inv
  <1>8. TypeOK'
    BY <1>5, <1>7, ReturnsWhat DEF Inv, TypeOK
  <1>9. Busy(c) /\ Free(c, v)
    <2>1. Busy(c)
      BY <1>1, <1>3 DEF Busy, NoRequest
    <2> QED
      BY <1>1, <1>3, <2>1, OwnVersion
  <1>10. Puts(v, m)
    BY <1>3, <1>4, <1>5, ReloadPuts DEF Inv
  <1>11. /\ promised' = [promised EXCEPT ![v] = IF m \in ready' THEN m ELSE NoModel]
         /\ ready' \subseteq Model /\ use' = use /\ known' /\ m \in ready' \cup refused'
         /\ \A n \in Model : n.version # v => (n \in ready' <=> n \in ready)
         /\ \A n \in Model : n.version # v => (n \in refused' <=> n \in refused)
         /\ client[c].at \notin Registering /\ m \in ModelOrNone
    BY <1>1, <1>3, <1>4, <1>5, NothingKnown, ReturnsWhat DEF Inv, ModelOrNone, Registering
  <1>12. /\ RegistryInv' /\ KnownInv' /\ PromiseInv' /\ LoadingInv'
         /\ \A d \in Clients \ {c} : RequestInv(d)'
    BY <1>7, <1>9, <1>10, <1>11, PutStep
  <1>13. Apart'
    BY <1>1, <1>5, <1>6, <1>7, <1>9, ApartStays
  <1>14. RequestInv(c)'
    <2>1. k.pending = {}
      BY <1>1, <1>2, <1>3 DEF ClientInv
    <2>2. Held \cup {v} \subseteq Held'
      <3>1. ASSUME NEW u \in Versions, u = v \/ At(u) # NoModel PROVE At(u)' # NoModel
        BY <1>10, <3>1, ModelShape DEF Puts
      <3> QED
        BY <3>1 DEF Held
    <2>3. ClientInv(c)'
      BY <1>1, <1>2, <1>5, <1>6, <1>7, <2>1 DEF ClientInv, Registering
    <2>4. RepositoryInv(c)' /\ UnloadInv(c)'
      BY <1>1, <1>2, <1>3, <1>6, <1>7, <2>2 DEF RepositoryInv, UnloadInv
    <2> QED
      BY <2>3, <2>4 DEF RequestInv
  <1> QED
    BY <1>8, <1>12, <1>13, <1>14 DEF Inv

\* The models that the repository handler lists as stale, or unload of all: one for each version
LEMMA VersionsListed ==
    ASSUME RegistryInv, NEW some, some \subseteq Held
    PROVE  /\ VersionsOf({At(v) : v \in some}) = some
           /\ \A m \in {At(v) : v \in some} : m \in Model /\ Present(m)
  <1>1. \A v \in Held : At(v) \in Model /\ At(v).version = v
    BY AtTyped DEF Held
  <1> QED
    BY <1>1 DEF VersionsOf, Present

LEMMA LoadsDoneInv ==
    ASSUME Inv, NEW c \in Clients, LoadsDone(c)
    PROVE  Inv'
  <1>1. PICK k \in RequestStates : k = client[c]
    BY DEF Inv, TypeOK
  <1>2. ClientInv(c) /\ RepositoryInv(c)
    BY DEF Inv, RequestInv
  <1>3. /\ k.at = "next" /\ k.todo = {} /\ k.pending = {}
        /\ UNCHANGED <<known, versions, ready, promised, refused, use>>
    BY <1>1, <1>2 DEF LoadsDone, ClientInv
  <1>4. SameModels /\ known' \in BOOLEAN /\ (known' \/ Held' = {})
    BY <1>3, RegistryStays DEF LoadsDone
  <1>5. Busy(c) /\ Running(c) /\ client[c].at \notin Registering
    BY <1>1, <1>3 DEF Busy, NoRequest, Running, Registering
  <1>6. CASE k.kind = "repository"
    <2>1. PICK stale \in SUBSET Held : stale = Held \ k.wanted
      OBVIOUS
    <2>2. PICK ms : ms = {At(v) : v \in stale}
      OBVIOUS
    <2>3. VersionsOf(ms) = stale /\ \A m \in ms : m \in Model /\ Present(m)
      BY <2>2, VersionsListed DEF Inv
    <2>4. {m \in ModelsOf(versions, CurrentDefault) : m.version \notin k.wanted} = ms
      <3>1. ModelsOf(versions, CurrentDefault) = {At(v) : v \in Held}
        BY ModelsOfWhat DEF Inv
      <3>2. \A v \in Held : At(v).version = v
        BY AtTyped DEF Inv, Held
      <3> QED
        BY <2>1, <2>2, <3>1, <3>2
    <2> DEFINE r == [client[c] EXCEPT !.at = "stale", !.pending = ms]
    <2>5. Set(c, r)
      BY <1>1, <1>6, <2>4 DEF LoadsDone
    <2>6. /\ r.at = "stale" /\ r.kind = k.kind /\ r.todo = k.todo /\ r.wanted = k.wanted
          /\ r.pending = ms /\ r \in RequestStates
      BY <1>1, <2>3 DEF RequestStates, ModelOrNone, Registering
    <2> HIDE DEF r
    <2>7. client'[c] = r
      BY <2>5, <2>6, SetWhat DEF Inv
    <2>8. RequestInv(c)'
      <3>1. \A m \in ms : Present(m)'
        BY <1>4, <2>3, SameHeld
      <3>2. ClientInv(c)'
        BY <1>1, <1>2, <1>3, <1>6, <2>6, <2>7, <3>1 DEF ClientInv, Registering
      <3>3. k.wanted \subseteq Held
        BY <1>1, <1>2, <1>3, <1>6 DEF RepositoryInv
      <3>4. RepositoryInv(c)' /\ UnloadInv(c)'
        BY <1>4, <2>1, <2>3, <2>6, <2>7, <3>3, SameHeld DEF RepositoryInv, UnloadInv
      <3> QED
        BY <3>2, <3>4 DEF RequestInv
    <2> QED
      BY <1>1, <1>3, <1>4, <1>5, <2>5, <2>6, <2>8, GoesOnBusy
  <1>7. CASE k.kind # "repository"
    <2> DEFINE r == [client[c] EXCEPT !.at = "done"]
    <2>1. Set(c, r)
      BY <1>1, <1>7 DEF LoadsDone, Go
    <2>2. /\ r.at = "done" /\ r.kind = k.kind /\ r.todo = k.todo /\ r.wanted = k.wanted
          /\ r.pending = k.pending /\ r \in RequestStates
      BY <1>1 DEF RequestStates, ModelOrNone, Registering
    <2> HIDE DEF r
    <2>3. client'[c] = r
      BY <2>1, <2>2, SetWhat DEF Inv
    <2>4. RequestInv(c)'
      <3>1. ClientInv(c)'
        BY <1>1, <1>2, <1>3, <2>2, <2>3 DEF ClientInv, Registering
      <3> QED
        BY <1>7, <2>2, <2>3, <3>1 DEF RequestInv, RepositoryInv, UnloadInv
    <2> QED
      BY <1>1, <1>3, <1>4, <1>5, <2>1, <2>2, <2>4, GoesOnBusy
  <1> QED
    BY <1>6, <1>7

LEMMA RequestUnloadVersionInv ==
    ASSUME Inv, NEW c \in Clients, NEW v \in Versions, RequestUnloadVersion(c, v)
    PROVE  Inv'
  <1> DEFINE s == [NoRequest EXCEPT !.kind = "unloadVersion", !.wanted = {v}]
             found == known /\ Find(v) # NoModel
  <1>1. PICK m \in ModelOrNone :
          m = Find(v) /\ (m # NoModel => Present(m) /\ v \in {0, m.version})
    BY FindWhat DEF Inv
  <1>2. /\ MayStart(c, {v}) /\ StartUnload(c, v, s)
    BY DEF RequestUnloadVersion
  <1>3. /\ s \in RequestStates /\ s.kind = "unloadVersion" /\ s.wanted = {v} /\ s.todo = {}
        /\ s.pending = {}
    BY NoRequestTyped DEF NoRequest, RequestStates
  <1> HIDE DEF s
  <1>4. PICK r \in RequestStates :
          /\ Set(c, r) /\ r.kind = "unloadVersion" /\ r.wanted = {v} /\ r.todo = {}
          /\ r.pending = {}
          /\ \/ r.at = "unloading" /\ r.model = m /\ m # NoModel
             \/ r.at = "failed"
    <2>1. CASE found
      <3> DEFINE r == [s EXCEPT !.at = "unloading", !.model = m]
      <3>1. Set(c, r)
        BY <1>1, <1>2, <2>1 DEF StartUnload
      <3>2. /\ r \in RequestStates /\ r.kind = "unloadVersion" /\ r.wanted = {v} /\ r.todo = {}
            /\ r.pending = {} /\ r.at = "unloading" /\ r.model = m
        BY <1>3 DEF RequestStates
      <3> HIDE DEF r
      <3> QED
        BY <1>1, <2>1, <3>1, <3>2
    <2>2. CASE ~found
      <3> DEFINE r == [s EXCEPT !.at = "failed"]
      <3>1. Set(c, r)
        BY <1>1, <1>2, <2>2 DEF StartUnload
      <3>2. /\ r \in RequestStates /\ r.kind = "unloadVersion" /\ r.wanted = {v} /\ r.todo = {}
            /\ r.pending = {} /\ r.at = "failed"
        BY <1>3 DEF RequestStates
      <3> HIDE DEF r
      <3> QED
        BY <3>1, <3>2
    <2> QED
      BY <2>1, <2>2
  <1>5. /\ client'[c] = r /\ Others(c)
    BY <1>4, SetWhat DEF Inv
  <1>6. /\ UNCHANGED <<known, versions, ready, promised, refused, use>>
        /\ default' \in {default, CurrentDefault}
    BY <1>2 DEF StartUnload
  <1>7. SameModels /\ known' \in BOOLEAN /\ (known' \/ Held' = {})
    BY <1>6, RegistryStays
  <1>8. Apart'
    BY <1>2, <1>4, <1>5, <1>6, ApartStarts
  <1>9. RequestInv(c)'
    <2>1. m # NoModel => Present(m)' /\ v \in {0, m.version}
      BY <1>1, <1>7, SameHeld DEF Present
    <2>2. ClientInv(c)'
      BY <1>4, <1>5, <2>1 DEF ClientInv, Registering
    <2> QED
      BY <1>4, <1>5, <2>2 DEF RequestInv, RepositoryInv, UnloadInv
  <1>10. client[c].at \notin Registering
    BY <1>2 DEF MayStart, NoRequest, Registering
  <1> QED
    BY <1>4, <1>6, <1>7, <1>8, <1>9, <1>10, GoesOn

\* Every version has one model: what is listed twice is the same
LEMMA OneOfVersion ==
    ASSUME NEW ms, \A m \in ms : Present(m), NEW n \in ms
    PROVE  VersionsOf(ms \ {n}) = VersionsOf(ms) \ {n.version} /\ n.version \in VersionsOf(ms)
  <1>1. \A m \in ms : m.version = n.version => m = n
    BY DEF Present
  <1> QED
    BY <1>1 DEF VersionsOf

LEMMA UnloadStaleInv ==
    ASSUME Inv, NEW c \in Clients, UnloadStale(c)
    PROVE  Inv'
  <1>1. PICK k \in RequestStates : k = client[c]
    BY DEF Inv, TypeOK
  <1>2. ClientInv(c) /\ RepositoryInv(c)
    BY DEF Inv, RequestInv
  <1>3. k.at = "stale" /\ k.kind = "repository"
    BY <1>1, <1>2 DEF UnloadStale, ClientInv
  <1>4. Busy(c) /\ Running(c) /\ client[c].at \notin Registering
    BY <1>1, <1>3 DEF Busy, NoRequest, Running, Registering
  <1>5. ASSUME NEW m \in k.pending,
               StartUnload(c, m.version, [client[c] EXCEPT !.pending = @ \ {m}])
        PROVE  Inv'
    <2>1. Present(m) /\ m \in Model /\ m.version \in Versions
      BY <1>1, <1>2, ModelShape DEF ClientInv, Present
    <2>2. Find(m.version) = m /\ known /\ m # NoModel
      BY <2>1, FindWhat, NothingKnown DEF Inv, Present
    <2> DEFINE s == [client[c] EXCEPT !.pending = @ \ {m}]
               r == [s EXCEPT !.at = "unloading", !.model = m]
    <2>3. Set(c, r)
      BY <1>5, <2>2 DEF StartUnload
    <2>4. /\ s.kind = k.kind /\ s.todo = k.todo /\ s.wanted = k.wanted
          /\ s.pending = k.pending \ {m} /\ s \in RequestStates
      BY <1>1 DEF RequestStates
    <2> HIDE DEF s
    <2>5. /\ r.at = "unloading" /\ r.kind = k.kind /\ r.todo = k.todo /\ r.wanted = k.wanted
          /\ r.pending = k.pending \ {m} /\ r.model = m /\ r \in RequestStates
      BY <2>1, <2>4 DEF RequestStates, ModelOrNone
    <2> HIDE DEF r
    <2>6. client'[c] = r
      BY <2>3, <2>5, SetWhat DEF Inv
    <2>7. /\ UNCHANGED <<known, versions, ready, promised, refused, use>>
          /\ default' \in {default, CurrentDefault}
      BY <1>5 DEF StartUnload
    <2>8. SameModels /\ known' \in BOOLEAN /\ (known' \/ Held' = {})
      BY <2>7, RegistryStays
    <2>9. RequestInv(c)'
      <3>1. \A n \in k.pending : Present(n) /\ Present(n)'
        BY <1>1, <1>2, <2>8, SameHeld DEF ClientInv, Present
      <3>2. ClientInv(c)'
        BY <1>1, <1>2, <1>3, <2>5, <2>6, <2>7, <3>1 DEF ClientInv, Registering
      <3>3. /\ VersionsOf(k.pending \ {m}) = VersionsOf(k.pending) \ {m.version}
            /\ m.version \in VersionsOf(k.pending)
        BY <3>1, OneOfVersion
      <3>4. Held = k.wanted \cup VersionsOf(k.pending) /\ VersionsOf(k.pending) \cap k.wanted = {}
        BY <1>1, <1>2, <1>3 DEF RepositoryInv
      <3>5. RepositoryInv(c)' /\ UnloadInv(c)'
        BY <2>5, <2>6, <2>8, <3>3, <3>4, SameHeld DEF RepositoryInv, UnloadInv
      <3> QED
        BY <3>2, <3>5 DEF RequestInv
    <2> QED
      BY <1>1, <1>4, <2>3, <2>5, <2>7, <2>8, <2>9, GoesOnBusy
  <1>6. ASSUME k.pending = {}, Go(c, "done"),
               UNCHANGED <<known, versions, default, ready, promised, refused, use>>
        PROVE  Inv'
    <2> DEFINE r == [client[c] EXCEPT !.at = "done"]
    <2>1. Set(c, r)
      BY <1>6 DEF Go
    <2>2. /\ r.at = "done" /\ r.kind = k.kind /\ r.todo = k.todo /\ r.wanted = k.wanted
          /\ r.pending = {} /\ r \in RequestStates
      BY <1>1, <1>6 DEF RequestStates, ModelOrNone, Registering
    <2> HIDE DEF r
    <2>3. client'[c] = r
      BY <2>1, <2>2, SetWhat DEF Inv
    <2>4. SameModels /\ known' \in BOOLEAN /\ (known' \/ Held' = {})
      BY <1>6, RegistryStays
    <2>5. RequestInv(c)'
      <3>1. ClientInv(c)'
        BY <1>1, <1>2, <1>3, <1>6, <2>2, <2>3 DEF ClientInv, Registering
      <3>2. Held = k.wanted
        BY <1>1, <1>2, <1>3, <1>6 DEF RepositoryInv, VersionsOf
      <3>3. RepositoryInv(c)' /\ UnloadInv(c)'
        BY <2>2, <2>3, <2>4, <3>2, SameHeld DEF RepositoryInv, UnloadInv
      <3> QED
        BY <3>1, <3>3 DEF RequestInv
    <2> QED
      BY <1>1, <1>4, <1>6, <2>1, <2>2, <2>4, <2>5, GoesOnBusy
  <1> QED
    BY <1>1, <1>5, <1>6 DEF UnloadStale

LEMMA UnloadReturnsInv ==
    ASSUME Inv, NEW c \in Clients, UnloadReturns(c)
    PROVE  Inv'
  <1>1. PICK k \in RequestStates : k = client[c]
    BY DEF Inv, TypeOK
  <1>2. ClientInv(c) /\ RepositoryInv(c)
    BY DEF Inv, RequestInv
  <1>3. PICK v \in Versions : /\ k.at = "unloading" /\ v = k.model.version /\ Present(k.model)
                              /\ k.kind = "repository" \/ v \in k.wanted \/ 0 \in k.wanted
    BY <1>1, <1>2, ModelShape DEF UnloadReturns, ClientInv, Present
  <1> DEFINE at == IF k.kind = "repository" THEN "stale" ELSE "done"
             r == [client[c] EXCEPT !.model = NoModel, !.at = at]
  <1>4. /\ Drop(k.model) /\ Set(c, r) /\ UNCHANGED <<ready, refused, use>> /\ NobodyRuns
        /\ known' = ~Empty(versions', default')
        /\ promised' = [promised EXCEPT ![v] = NoModel]
    BY <1>1, <1>3 DEF UnloadReturns
  <1>5. /\ r.at = at /\ r.kind = k.kind /\ r.todo = k.todo /\ r.wanted = k.wanted
        /\ r.pending = k.pending /\ r \in RequestStates
    BY <1>1 DEF RequestStates, ModelOrNone, Registering
  <1> HIDE DEF r
  <1>6. /\ client'[c] = r /\ Others(c)
        /\ client' \in [Clients -> RequestStates]
    BY <1>4, <1>5, SetWhat DEF Inv
  <1>7. TypeOK'
    BY <1>4, <1>6 DEF Inv, TypeOK, ModelOrNone
  <1>8. Busy(c) /\ Free(c, v)
    <2>1. Busy(c)
      BY <1>1, <1>3 DEF Busy, NoRequest
    <2> QED
      BY <1>1, <1>3, <2>1, OwnVersion
  <1>9. Puts(v, NoModel)
    BY <1>3, <1>4, DropPuts DEF Inv
  <1>10. known' \/ Held' = {}
    <2>1. ASSUME Empty(versions', default'), NEW u \in Versions PROVE At(u)' = NoModel
      BY <2>1, ModelShape DEF Empty, At
    <2> QED
      BY <1>4, <2>1 DEF Held
  <1>11. /\ ready \subseteq Model /\ NoModel \in ModelOrNone /\ NoModel \notin ready
         /\ client[c].at \notin Registering
    BY <1>1, <1>3, ModelShape DEF Inv, TypeOK, ModelOrNone, Registering
  <1>12. /\ RegistryInv' /\ KnownInv' /\ PromiseInv' /\ LoadingInv'
         /\ \A d \in Clients \ {c} : RequestInv(d)'
    BY <1>4, <1>6, <1>8, <1>9, <1>10, <1>11, PutStep
  <1>13. Apart'
    BY <1>1, <1>4, <1>5, <1>6, <1>8, ApartStays
  <1>14. RequestInv(c)'
    <2>1. Held' = Held \ {v}
      BY <1>9, ModelShape DEF Puts, Held
    <2>2. k.kind = "repository" =>
            /\ Held = k.wanted \cup VersionsOf(k.pending) \cup {v}
            /\ v \notin k.wanted \cup VersionsOf(k.pending)
            /\ VersionsOf(k.pending) \cap k.wanted = {}
      BY <1>1, <1>2, <1>3 DEF RepositoryInv
    <2>3. \A n \in k.pending : Present(n)'
      <3>1. SUFFICES ASSUME NEW n \in k.pending PROVE Present(n)'
        OBVIOUS
      <3>2. k.kind = "repository" /\ Present(n)
        <4>1. k.kind # "unload"
          BY <1>1, <1>2, <1>3 DEF ClientInv
        <4> QED
          BY <1>1, <1>2, <4>1 DEF ClientInv
      <3>3. n.version # v
        BY <2>2, <3>2 DEF VersionsOf
      <3> QED
        BY <1>9, <3>2, <3>3, ModelShape DEF Puts, Present
    <2>4. k.pending # {} => k.kind = "repository"
      BY <1>1, <1>2, <1>3 DEF ClientInv
    <2>5. ClientInv(c)'
      BY <1>1, <1>2, <1>3, <1>4, <1>5, <1>6, <2>3, <2>4 DEF ClientInv, Registering
    <2>6. RepositoryInv(c)' /\ UnloadInv(c)'
      BY <1>5, <1>6, <2>1, <2>2 DEF RepositoryInv, UnloadInv
    <2> QED
      BY <2>5, <2>6 DEF RequestInv
  <1> QED
    BY <1>7, <1>12, <1>13, <1>14 DEF Inv

LEMMA RequestUnloadInv ==
    ASSUME Inv, NEW c \in Clients, RequestUnload(c)
    PROVE  Inv'
  <1>1. PICK ms : ms = {At(v) : v \in Held}
    OBVIOUS
  <1>2. VersionsOf(ms) = Held /\ \A m \in ms : m \in Model /\ Present(m)
    BY <1>1, VersionsListed DEF Inv
  <1>3. ModelsOf(versions, CurrentDefault) = ms
    BY <1>1, ModelsOfWhat DEF Inv
  <1> DEFINE r == [NoRequest EXCEPT !.kind = "unload", !.wanted = Versions,
                     !.at = IF known THEN "unloadingAll" ELSE "failed",
                     !.pending = IF known THEN ms ELSE {}]
  <1>4. /\ Set(c, r) /\ UNCHANGED <<known, versions, ready, promised, refused, use>>
        /\ default' \in {default, CurrentDefault}
        /\ MayStart(c, Versions) /\ ~use.concurrent
    BY <1>3 DEF RequestUnload
  <1>5. /\ r.kind = "unload" /\ r.wanted = Versions /\ r.todo = {}
        /\ r.at = IF known THEN "unloadingAll" ELSE "failed"
        /\ r.pending = IF known THEN ms ELSE {}
        /\ r \in RequestStates
    BY <1>2, NoRequestTyped DEF NoRequest, RequestStates
  <1> HIDE DEF r
  <1>6. client'[c] = r /\ Others(c)
    BY <1>4, <1>5, SetWhat DEF Inv
  <1>7. SameModels /\ known' \in BOOLEAN /\ (known' \/ Held' = {})
    BY <1>4, RegistryStays
  <1>8. Apart'
    BY <1>4, <1>5, <1>6, ApartStarts
  <1>9. RequestInv(c)'
    <2>1. \A m \in ms : Present(m)'
      BY <1>2, <1>7, SameHeld
    <2>2. ClientInv(c)'
      BY <1>4, <1>5, <1>6, <2>1 DEF ClientInv, Registering
    <2>3. RepositoryInv(c)' /\ UnloadInv(c)'
      BY <1>2, <1>5, <1>6, <1>7, SameHeld DEF RepositoryInv, UnloadInv
    <2> QED
      BY <2>2, <2>3 DEF RequestInv
  <1>10. client[c].at \notin Registering
    BY <1>4 DEF MayStart, NoRequest, Registering
  <1> QED
    BY <1>4, <1>5, <1>7, <1>8, <1>9, <1>10, GoesOn

LEMMA UnloadOneInv ==
    ASSUME Inv, NEW c \in Clients, NEW m \in Model, UnloadOne(c, m)
    PROVE  Inv'
  <1>1. PICK k \in RequestStates : k = client[c]
    BY DEF Inv, TypeOK
  <1>2. ClientInv(c) /\ UnloadInv(c)
    BY DEF Inv, RequestInv
  <1>3. /\ k.at = "unloadingAll" /\ m \in k.pending /\ NobodyRuns
        /\ k.kind = "unload" /\ Present(m)
    BY <1>1, <1>2 DEF UnloadOne, ClientInv
  <1>4. PICK v \in Versions : v = m.version
    BY ModelShape
  <1> DEFINE r == [client[c] EXCEPT !.pending = @ \ {m}]
  <1>5. /\ Drop(m) /\ Set(c, r) /\ UNCHANGED <<known, ready, refused, use>>
        /\ promised' = [promised EXCEPT ![v] = NoModel]
    BY <1>4 DEF UnloadOne
  <1>6. /\ r.at = "unloadingAll" /\ r.kind = k.kind /\ r.todo = k.todo /\ r.wanted = k.wanted
        /\ r.pending = k.pending \ {m} /\ r \in RequestStates
    BY <1>1, <1>3 DEF RequestStates
  <1> HIDE DEF r
  <1>7. /\ client'[c] = r /\ Others(c)
        /\ client' \in [Clients -> RequestStates]
    BY <1>5, <1>6, SetWhat DEF Inv
  <1>8. TypeOK'
    BY <1>5, <1>7 DEF Inv, TypeOK, ModelOrNone
  <1>9. Busy(c) /\ Free(c, v)
    <2>1. Busy(c)
      BY <1>1, <1>3 DEF Busy, NoRequest
    <2> QED
      BY <1>1, <1>3, <2>1, OwnVersion
  <1>10. Puts(v, NoModel)
    BY <1>3, <1>4, <1>5, DropPuts DEF Inv
  <1>11. /\ ready \subseteq Model /\ NoModel \in ModelOrNone /\ NoModel \notin ready
         /\ client[c].at \notin Registering /\ known'
    BY <1>1, <1>3, <1>5, NothingKnown, ModelShape DEF Inv, TypeOK, ModelOrNone, Registering
  <1>12. /\ RegistryInv' /\ KnownInv' /\ PromiseInv' /\ LoadingInv'
         /\ \A d \in Clients \ {c} : RequestInv(d)'
    BY <1>5, <1>7, <1>9, <1>10, <1>11, PutStep
  <1>13. Apart'
    BY <1>1, <1>3, <1>5, <1>6, <1>7, <1>9, ApartStays
  <1>14. RequestInv(c)'
    <2>1. Held' = Held \ {v}
      BY <1>10, ModelShape DEF Puts, Held
    <2>2. \A n \in k.pending : Present(n)
      BY <1>1, <1>2 DEF ClientInv
    <2>3. VersionsOf(k.pending \ {m}) = VersionsOf(k.pending) \ {v}
      BY <1>3, <1>4, <2>2, OneOfVersion
    <2>4. \A n \in k.pending \ {m} : Present(n)'
      BY <1>3, <1>4, <1>10, <2>2, ModelShape DEF Puts, Present
    <2>5. ClientInv(c)'
      BY <1>1, <1>2, <1>3, <1>5, <1>6, <1>7, <2>4 DEF ClientInv, Registering
    <2>6. RepositoryInv(c)' /\ UnloadInv(c)'
      BY <1>1, <1>2, <1>3, <1>6, <1>7, <2>1, <2>3 DEF RepositoryInv, UnloadInv
    <2> QED
      BY <2>5, <2>6 DEF RequestInv
  <1> QED
    BY <1>8, <1>12, <1>13, <1>14 DEF Inv

\* When all models have gone one by one, nothing is left to clear
LEMMA UnloadedAllInv ==
    ASSUME Inv, NEW c \in Clients, UnloadedAll(c)
    PROVE  Inv'
  <1>1. PICK k \in RequestStates : k = client[c]
    BY DEF Inv, TypeOK
  <1>2. ClientInv(c) /\ UnloadInv(c)
    BY DEF Inv, RequestInv
  <1> DEFINE r == [client[c] EXCEPT !.at = "done"]
  <1>3. /\ k.at = "unloadingAll" /\ k.pending = {} /\ Set(c, r)
        /\ versions' = [v \in Numbered |-> NoModel] /\ default' = NoModel
        /\ known' = FALSE /\ UNCHANGED <<ready, promised, refused, use>>
    BY <1>1 DEF UnloadedAll, Go
  <1>4. /\ r.at = "done" /\ r.kind = k.kind /\ r.todo = k.todo /\ r.wanted = k.wanted
        /\ r.pending = k.pending /\ r \in RequestStates
    BY <1>1 DEF RequestStates, ModelOrNone, Registering
  <1> HIDE DEF r
  <1>5. client'[c] = r
    BY <1>3, <1>4, SetWhat DEF Inv
  <1>6. Held = {}
    BY <1>1, <1>2, <1>3 DEF UnloadInv, VersionsOf
  <1>7. SameModels /\ Held' = {}
    <2>1. RegistryInv'
      BY <1>3, ModelShape DEF RegistryInv, ModelOrNone
    <2>2. ASSUME NEW u \in Versions PROVE At(u)' = NoModel /\ At(u) = NoModel
      BY <1>3, <1>6, ModelShape DEF At, Held
    <2> QED
      BY <2>1, <2>2 DEF SameModels, Held
  <1>8. RequestInv(c)'
    <2>1. ClientInv(c)'
      BY <1>1, <1>2, <1>3, <1>4, <1>5 DEF ClientInv, Registering
    <2>2. k.kind # "repository"
      BY <1>1, <1>2, <1>3 DEF ClientInv
    <2> QED
      BY <1>4, <1>5, <2>1, <2>2 DEF RequestInv, RepositoryInv, UnloadInv
  <1>9. Busy(c) /\ client[c].at \notin Registering
    BY <1>1, <1>3 DEF Busy, NoRequest, Registering
  <1> QED
    BY <1>1, <1>3, <1>4, <1>7, <1>8, <1>9, GoesOnBusy

LEMMA AnswerInv ==
    ASSUME Inv, NEW c \in Clients, Answer(c)
    PROVE  Inv'
  <1>1. /\ Set(c, NoRequest) /\ client[c].at \notin Registering
        /\ UNCHANGED <<known, versions, default, ready, promised, refused, use>>
    BY DEF Answer, Registering
  <1>2. client'[c] = NoRequest /\ Others(c)
    BY <1>1, NoRequestTyped, SetWhat DEF Inv
  <1>3. SameModels /\ known' \in BOOLEAN /\ (known' \/ Held' = {})
    BY <1>1, RegistryStays
  <1>4. Apart' /\ RequestInv(c)'
    BY <1>1, <1>2, ApartEnds, NoRequestInv
  <1> QED
    BY <1>1, <1>3, <1>4, NoRequestTyped, GoesOn

LEMMA SettledInv ==
    ASSUME Inv, UNCHANGED <<known, versions, ready, client, promised, refused, use>>,
           default' \in {default, CurrentDefault}
    PROVE  Inv'
  <1>1. SameModels /\ known' \in BOOLEAN /\ (known' \/ Held' = {})
    BY RegistryStays
  <1>2. PICK nobody : nobody \notin Clients
    BY NoSetContainsEverything
  <1>3. /\ RegistryInv' /\ KnownInv' /\ PromiseInv' /\ LoadingInv'
        /\ \A d \in Clients \ {nobody} : RequestInv(d)'
    BY <1>1, <1>2, SameStep DEF Others
  <1>4. TypeOK' /\ Apart'
    BY DEF Inv, TypeOK, Apart, Busy, Running
  <1> QED
    BY <1>2, <1>3, <1>4 DEF Inv

LEMMA InitInv == Init => Inv
  <1> SUFFICES ASSUME Init PROVE Inv
    OBVIOUS
  <1>1. RegistryInv /\ \A v \in Versions : At(v) = NoModel
    BY ModelShape DEF Init, RegistryInv, At, ModelOrNone
  <1>2. TypeOK
    BY NoRequestTyped DEF Init, TypeOK, ModelOrNone
  <1>3. KnownInv /\ PromiseInv /\ LoadingInv
    BY <1>1 DEF Init, KnownInv, PromiseInv, LoadingInv, Held
  <1>4. Apart
    BY DEF Init, Apart, Busy, Running, NoRequest
  <1>5. ASSUME NEW c \in Clients PROVE RequestInv(c)
    BY DEF Init, RequestInv, ClientInv, RepositoryInv, UnloadInv, NoRequest, Registering
  <1> QED
    BY <1>1, <1>2, <1>3, <1>4, <1>5 DEF Inv

LEMMA NextInv == HooksAgree /\ Inv /\ [Next]_vars => Inv'
  <1> SUFFICES ASSUME HooksAgree, Inv, [Next]_vars PROVE Inv'
    OBVIOUS
  <1>1. CASE InferDefault
    BY <1>1, SettledInv DEF InferDefault
  <1>2. CASE UNCHANGED vars
    BY <1>2, SettledInv DEF vars
  <1>3. ASSUME NEW c \in Clients, Request(c) PROVE Inv'
    BY <1>3, RequestLoadInv, RequestUnloadVersionInv, RequestUnloadInv DEF Request
  <1>4. ASSUME NEW c \in Clients, Work(c) PROVE Inv'
    BY <1>4, LoadInv, HooksReturnInv, LoadReturnsInv, LoadRaisesInv, FailedLoadUnloadedInv,
       ReloadReturnsInv, ReloadRaisesInv, LoadsDoneInv, UnloadStaleInv, UnloadReturnsInv,
       UnloadOneInv, UnloadedAllInv, AnswerInv DEF Work
  <1> QED
    BY <1>1, <1>2, <1>3, <1>4 DEF Next

----------------------------------------------------------------------------
(* The theorems *)

\* The registry of a model keeps its invariant, for hooks that agree on their model
THEOREM RegistryCorrect == HooksAgree /\ Spec => []Inv
  <1> SUFFICES ASSUME HooksAgree PROVE Spec => []Inv
    OBVIOUS
  <1>1. Inv /\ [Next]_vars => Inv'
    BY NextInv
  <1> QED
    BY <1>1, InitInv, PTL DEF Spec

\* A version serves what was loaded for it last and not unloaded since, and nothing if load()
\* of that one returned False, whatever is loaded, fails or is unloaded besides
THEOREM RegistryKeepsItsWord == HooksAgree /\ Spec => []KeepsItsWord
  <1>1. Inv => KeepsItsWord
    <2> SUFFICES ASSUME Inv, NEW v \in Versions PROVE Serving(v) = promised[v]
      BY DEF KeepsItsWord
    <2>1. /\ promised[v] = IF At(v) \in ready THEN At(v) ELSE NoModel
          /\ At(v) # NoModel => known
          /\ NoModel \notin ready
      BY ModelShape DEF Inv, PromiseInv, KnownInv, Held, TypeOK
    <2>2. Serving(v) = IF known /\ At(v) \in ready THEN At(v) ELSE NoModel
      BY DEF Serving, At
    <2> QED
      BY <2>1, <2>2
  <1> QED
    BY <1>1, RegistryCorrect, PTL

\* The default is nothing or one of the registered models
THEOREM RegistryHasDefault == HooksAgree /\ Spec => []DefaultIsRegistered
  <1>1. Inv => DefaultIsRegistered
    BY ModelShape DEF Inv, RegistryInv, DefaultIsRegistered, ModelsOf, ModelOrNone
  <1> QED
    BY <1>1, RegistryCorrect, PTL

\* What is registered and not ready is being loaded by somebody, or has refused to be ready
THEOREM NothingHalfLoaded == HooksAgree /\ Spec => []NotReadyMeansLoading
  <1>1. Inv => NotReadyMeansLoading
    <2> SUFFICES ASSUME Inv, NEW m \in ModelsOf(versions, default), m \notin ready, m \notin refused
                 PROVE  \E c \in Clients : /\ client[c].model = m
                                           /\ client[c].at \in {"loading", "starting", "failing"}
      BY DEF NotReadyMeansLoading
    <2>1. PICK v \in Held : m = At(v)
      BY ModelsOfWhat DEF Inv
    <2> QED
      BY <2>1 DEF Inv, LoadingInv, Registering
  <1> QED
    BY <1>1, RegistryCorrect, PTL

\* What waits for its unload hooks is registered until its turn comes
THEOREM UnloadsFindTheirModel == HooksAgree /\ Spec => []UnloadFindsModel
  <1>1. Inv => UnloadFindsModel
    <2> SUFFICES ASSUME Inv, NEW c \in Clients,
                        NEW m \in client[c].pending \cup
                                    (IF client[c].at \in {"failing", "unloading"}
                                     THEN {client[c].model} ELSE {})
                 PROVE  m \in ModelsOf(versions, default)
      BY DEF UnloadFindsModel
    <2>1. Present(m)
      BY DEF Inv, RequestInv, ClientInv, Registering
    <2>2. m.version \in Held /\ At(m.version) = m
      BY <2>1, NothingKnown DEF Present
    <2> QED
      BY <2>2, ModelsOfWhat DEF Inv
  <1> QED
    BY <1>1, RegistryCorrect, PTL

\* A repository load that succeeds leaves exactly the versions of the repository
THEOREM RepositoryMirrored == HooksAgree /\ Spec => []MirrorsRepository
  <1>1. Inv => MirrorsRepository
    <2> SUFFICES ASSUME Inv, NEW c \in Clients,
                        client[c].at = "done", client[c].kind = "repository"
                 PROVE  {m.version : m \in ModelsOf(versions, CurrentDefault)} = client[c].wanted
      BY DEF MirrorsRepository
    <2>1. Held = client[c].wanted
      BY DEF Inv, RequestInv, RepositoryInv
    <2>2. ModelsOf(versions, CurrentDefault) = {At(v) : v \in Held}
      BY ModelsOfWhat DEF Inv
    <2>3. \A v \in Held : At(v).version = v
      BY AtTyped DEF Inv, Held
    <2> QED
      BY <2>1, <2>2, <2>3
  <1> QED
    BY <1>1, RegistryCorrect, PTL
=============================================================================
