-------------------------- MODULE Optimizer_proofs --------------------------
(* The optimizer, for every set of profiles, cap, weight and load.  Its steps are  *)
(* independent of each other (Memoryless): the coefficients are read off the       *)
(* pipeline that the answers were written to, but every variant is switched to     *)
(* before it is read, and switching sets all that its profile is looked up by.     *)
(* The walk over the allocations ends where it is to end (BaseAllocationRule).     *)
(* Answers carry the load (SustainsLoad), and a single one is saved with its own   *)
(* numbers (NumbersOfConfig); for both the sums and the maximum that the problem   *)
(* is stated with have to be numbers.  What is recursive is reasoned about by a    *)
(* least counterexample.                                                           *)
EXTENDS Optimizer, FiniteSetTheorems, WellFoundedInduction, TLAPS

\* The knobs that a baseline fixes
Fixed(ts) ==
    \A s \in Stages :
        /\ setup.mode = "scale" => ts[s].variant = setup.initial[s].variant
        /\ setup.mode = "switch" => ts[s].replicas = setup.initial[s].replicas

\* Pipelines have the stages of the setup, and tasks have their knobs
Shaped(ts) == \A s \in Stages : DOMAIN ts[s] = Knobs

(* Answers keep to what is fixed, because the pipeline that they are solved for does *)
StepInv ==
    /\ setup \in Setups
    /\ Shaped(tasks) /\ Fixed(tasks)
    /\ phase # "idle" => params.profile = Parameters(setup.initial)
    /\ phase = "write" => \A i \in DOMAIN answers : Fixed(answers[i])

----------------------------------------------------------------------------
\* Switching sets the two knobs by which profiles are looked up, whatever they were
LEMMA SwitchForgets ==
    ASSUME NEW task, NEW t, NEW u, NEW v, DOMAIN t = Knobs, DOMAIN u = Knobs
    PROVE  /\ ModelSwitch(task, t, v).variant = v
           /\ ModelSwitch(task, t, v).variant = ModelSwitch(task, u, v).variant
           /\ ModelSwitch(task, t, v).cpu = ModelSwitch(task, u, v).cpu
           /\ DOMAIN ModelSwitch(task, t, v) = Knobs
  BY DEF ModelSwitch, Knobs

LEMMA ProfileForgets ==
    ASSUME NEW task, NEW t, NEW u, NEW v, NEW b, DOMAIN t = Knobs, DOMAIN u = Knobs
    PROVE  /\ IsProfiled(task, ModelSwitch(task, t, v), b)
                <=> IsProfiled(task, ModelSwitch(task, u, v), b)
           /\ ProfileOf(task, ModelSwitch(task, t, v), b)
                = ProfileOf(task, ModelSwitch(task, u, v), b)
  <1> DEFINE T == ModelSwitch(task, t, v)
  <1> DEFINE U == ModelSwitch(task, u, v)
  <1>1. T.variant = U.variant /\ T.cpu = U.cpu
    BY SwitchForgets
  <1> HIDE DEF T, U
  <1>2. IsProfiled(task, T, b) <=> IsProfiled(task, U, b)
    BY <1>1 DEF IsProfiled
  <1>3. ProfileOf(task, T, b) = ProfileOf(task, U, b)
    BY <1>1, Zenon DEF ProfileOf
  <1> QED
    BY <1>2, <1>3 DEF T, U

\* So the coefficients do not depend on the pipeline they are read off
LEMMA ParametersForget ==
    ASSUME NEW ts, NEW us, Shaped(ts), Shaped(us)
    PROVE  Parameters(ts) = Parameters(us)
  BY ProfileForgets DEF Parameters, Shaped

LEMMA AnswersKeepFixed ==
    ASSUME Fixed(tasks), NEW q \in Answers(Solutions), NEW i \in DOMAIN q
    PROVE  Fixed(q[i])
  <1>1. q[i] \in Solutions
    BY DEF Answers, Injection
  <1>2. \A s \in Stages : q[i][s] \in StageChoices(s)
    BY <1>1 DEF Solutions
  <1> QED
    BY <1>2 DEF StageChoices, Fixed

LEMMA WriteKeeps ==
    ASSUME NEW ts, NEW x, Shaped(ts), Fixed(x)
    PROVE  Shaped(Write(ts, x)) /\ Fixed(Write(ts, x))
  <1> SUFFICES ASSUME NEW s \in Stages
               PROVE  /\ DOMAIN Write(ts, x)[s] = Knobs
                      /\ Write(ts, x)[s].variant = x[s].variant
                      /\ Write(ts, x)[s].replicas = x[s].replicas
    BY DEF Shaped, Fixed
  <1>1. DOMAIN ts[s] = Knobs
    BY DEF Shaped
  <1>2. Write(ts, x)[s] = [ModelSwitch(Graph[s], ts[s], x[s].variant)
                              EXCEPT !.batch = x[s].batch, !.replicas = x[s].replicas]
    BY DEF Write
  <1> QED
    BY <1>1, <1>2, SwitchForgets DEF Knobs

----------------------------------------------------------------------------
LEMMA StepInit == Init => StepInv
  BY OptimizerAssumption DEF Init, StepInv, Shaped, Fixed, Stages, Graph

LEMMA SameSetup ==
    ASSUME setup' = setup
    PROVE  Parameters(setup.initial)' = Parameters(setup.initial)
  BY DEF Parameters, VariantsOf, DistinctBatches, Graph, Stages

LEMMA StepStep == StepInv /\ [Next]_vars => StepInv'
  <1> SUFFICES ASSUME StepInv, [Next]_vars
               PROVE  StepInv'
    OBVIOUS
  <1>1. Shaped(setup.initial)
    BY OptimizerAssumption DEF StepInv, Shaped, Stages, Graph
  <1> USE DEF StepInv, Shaped, Fixed, Stages, Graph
  <1>2. ASSUME NEW rate \in Loads, Start(rate)
        PROVE  StepInv'
    <2>1. params'.profile = Parameters(setup.initial)
      BY <1>1, <1>2, ParametersForget DEF Start
    <2> QED
      BY <1>2, <2>1, SameSetup DEF Start
  <1>3. CASE Solve
    <2>1. \A i \in DOMAIN answers' : Fixed(answers'[i])
      BY <1>3, AnswersKeepFixed DEF Solve
    <2> QED
      BY <1>3, <2>1, SameSetup DEF Solve
  <1>4. CASE NoSolution
    BY <1>4, SameSetup DEF NoSolution
  <1>5. CASE WriteAnswer
    <2>1. Shaped(tasks') /\ Fixed(tasks')
      BY <1>5, WriteKeeps DEF WriteAnswer
    <2> QED
      BY <1>5, <2>1, SameSetup DEF WriteAnswer
  <1>6. CASE Choose
    BY <1>6 DEF Choose
  <1>7. CASE UNCHANGED vars
    BY <1>7, SameSetup DEF vars
  <1> QED
    BY <1>2, <1>3, <1>4, <1>5, <1>6, <1>7 DEF Next

\* No step depends on what earlier answers left in the pipeline, and a baseline never
\* changes what it fixes, for every set of profiles, number of stages and loads
THEOREM StepsIndependent == Spec => []Memoryless
  <1>1. StepInv => Memoryless
    BY DEF StepInv, Fixed, Memoryless
  <1> QED
    BY <1>1, StepInit, StepStep, PTL DEF Spec

----------------------------------------------------------------------------
(* Induction by a least counterexample *)

LEMMA LeastNumber ==
    ASSUME NEW T, T \subseteq Nat, T # {}
    PROVE  \E m \in T : \A k \in T : m <= k
  <1> DEFINE Less == {ss \in Nat \X Nat : ss[1] < ss[2]}
  <1>1. IsWellFoundedOn(Less, Nat)
    BY NatLessThanWellFounded, Zenon DEF OpToRel
  <1> HIDE DEF Less
  <1>2. PICK m \in T : \A k \in T : ~(<<k, m>> \in Less)
    BY <1>1, WFMin
  <1>3. ASSUME NEW k \in T PROVE m <= k
    <2>1. k \in Nat /\ m \in Nat
      OBVIOUS
    <2>2. ~(k < m)
      BY <1>2, <2>1 DEF Less
    <2> QED
      BY <2>1, <2>2
  <1> QED
    BY <1>3

LEMMA LeastSet ==
    ASSUME NEW S, IsFiniteSet(S), NEW F, F \subseteq SUBSET S, F # {}
    PROVE  \E T \in F : \A U \in F : U \subseteq T => U = T
  <1>1. F \subseteq FiniteSubsetsOf(S)
    BY FS_FiniteSubsetsOfFinite
  <1>2. PICK T \in F : \A U \in F : ~(<<U, T>> \in StrictSubsetOrdering(S))
    BY <1>1, FS_StrictSubsetOrderingWellFounded, WFMin
  <1> QED
    BY <1>2 DEF StrictSubsetOrdering

----------------------------------------------------------------------------
(* Sums.  SumFunctionOnSet is a recursive function on the subsets of a set *)

Pick(s) == CHOOSE x \in s : TRUE
SumRec(f, g, S) ==
    g = [s \in SUBSET S |-> IF s = {} THEN 0 ELSE f[Pick(s)] + g[s \ {Pick(s)}]]

LEMMA PickIn == \A s : s # {} => Pick(s) \in s
  BY DEF Pick

LEMMA SumRecUnique ==
    ASSUME NEW f, NEW S, IsFiniteSet(S), NEW g, NEW h, SumRec(f, g, S), SumRec(f, h, S)
    PROVE  g = h
  <1> DEFINE F == {s \in SUBSET S : g[s] # h[s]}
  <1>1. SUFFICES F = {}
    BY DEF SumRec
  <1>2. SUFFICES ASSUME F # {} PROVE FALSE
    OBVIOUS
  <1>3. PICK s \in F : \A u \in F : u \subseteq s => u = s
    <2> HIDE DEF F
    <2>1. F \subseteq SUBSET S
      BY DEF F
    <2> QED
      BY <1>2, <2>1, LeastSet
  <1>4. s # {}
    BY <1>3 DEF SumRec
  <1>5. Pick(s) \in s
    BY <1>4, PickIn
  <1>6. g[s \ {Pick(s)}] = h[s \ {Pick(s)}]
    BY <1>3, <1>5
  <1>7. /\ g[s] = f[Pick(s)] + g[s \ {Pick(s)}]
        /\ h[s] = f[Pick(s)] + h[s \ {Pick(s)}]
    BY <1>3, <1>4 DEF SumRec
  <1> QED
    BY <1>3, <1>6, <1>7

LEMMA SumRecExists ==
    ASSUME NEW f, NEW S, IsFiniteSet(S)
    PROVE  \E g : SumRec(f, g, S)
  <1> DEFINE F == {T \in SUBSET S : ~\E g : SumRec(f, g, T)}
  <1>1. SUFFICES F = {}
    OBVIOUS
  <1>2. SUFFICES ASSUME F # {} PROVE FALSE
    OBVIOUS
  <1>3. PICK T \in F : \A U \in F : U \subseteq T => U = T
    <2> HIDE DEF F
    <2>1. F \subseteq SUBSET S
      BY DEF F
    <2> QED
      BY <1>2, <2>1, LeastSet
  <1> DEFINE G(U) == CHOOSE g : SumRec(f, g, U)
             x == Pick(T)
             h == [s \in SUBSET T |-> IF s = T THEN IF T = {} THEN 0 ELSE f[x] + G(T \ {x})[T \ {x}]
                                      ELSE G(s)[s]]
  <1>4. ASSUME NEW U \in SUBSET T, U # T
        PROVE  SumRec(f, G(U), U)
    <2>1. U \notin F
      BY <1>3, <1>4
    <2>2. \E g : SumRec(f, g, U)
      BY <2>1, <1>3
    <2> QED
      BY <2>2
  <1> HIDE DEF G
  <1>5. ASSUME NEW U \in SUBSET T, U # T, NEW V \in SUBSET U
        PROVE  G(U)[V] = G(V)[V]
    <2> DEFINE r == [s \in SUBSET V |-> G(U)[s]]
    <2>1. SumRec(f, G(U), U) /\ SumRec(f, G(V), V)
      BY <1>4, <1>5
    <2>2. SumRec(f, r, V)
      <3>1. ASSUME NEW s \in SUBSET V
            PROVE  r[s] = IF s = {} THEN 0 ELSE f[Pick(s)] + r[s \ {Pick(s)}]
        <4>1. s \in SUBSET U /\ s \ {Pick(s)} \in SUBSET V
          BY <3>1
        <4>2. G(U)[s] = IF s = {} THEN 0 ELSE f[Pick(s)] + G(U)[s \ {Pick(s)}]
          BY <4>1, <2>1 DEF SumRec
        <4> QED
          BY <4>1, <4>2
      <3> QED
        BY <3>1 DEF SumRec
    <2>3. IsFiniteSet(V)
      BY <1>3, <1>5, FS_Subset
    <2> HIDE DEF r
    <2>4. r = G(V)
      BY <2>1, <2>2, <2>3, SumRecUnique
    <2> QED
      BY <2>4 DEF r
  <1>6. ASSUME NEW s \in SUBSET T
        PROVE  h[s] = IF s = {} THEN 0 ELSE f[Pick(s)] + h[s \ {Pick(s)}]
    <2>1. CASE s = {}
      <3>1. CASE s = T
        BY <2>1, <3>1
      <3>2. CASE s # T
        <4>1. SumRec(f, G(s), s)
          BY <1>4, <3>2
        <4>2. G(s)[s] = 0
          BY <4>1, <2>1 DEF SumRec
        <4> QED
          BY <2>1, <3>2, <4>2
      <3> QED
        BY <3>1, <3>2
    <2>2. CASE s # {}
      <3> DEFINE y == Pick(s)
                 u == s \ {y}
      <3>1. y \in s /\ u \in SUBSET T /\ u # T /\ u # s /\ u \in SUBSET s
        BY <2>2, PickIn
      <3>2. h[u] = G(u)[u]
        BY <3>1
      <3>3. CASE s = T
        BY <2>2, <3>1, <3>2, <3>3
      <3>4. CASE s # T
        <4>1. G(s)[s] = f[y] + G(s)[u]
          <5>1. SumRec(f, G(s), s)
            BY <1>4, <3>4
          <5> QED
            BY <5>1, <2>2 DEF SumRec
        <4>2. G(s)[u] = G(u)[u]
          BY <1>5, <3>1, <3>4
        <4> QED
          BY <2>2, <3>2, <3>4, <4>1, <4>2
      <3> QED
        BY <3>3, <3>4
    <2> QED
      BY <2>1, <2>2
  <1>7. SumRec(f, h, T)
    <2> DEFINE k == [s \in SUBSET T |-> IF s = {} THEN 0 ELSE f[Pick(s)] + h[s \ {Pick(s)}]]
    <2>1. \A s \in SUBSET T : h[s] = k[s]
      BY <1>6
    <2>2. h = k
      BY <2>1
    <2> QED
      BY <2>2 DEF SumRec
  <1> QED
    BY <1>3, <1>7

LEMMA SumIsRec ==
    ASSUME NEW f, NEW S, IsFiniteSet(S)
    PROVE  \E g : SumRec(f, g, S) /\ SumFunctionOnSet(f, S) = g[S]
  <1> DEFINE iter == CHOOSE g : SumRec(f, g, S)
  <1>1. SumRec(f, iter, S)
    BY SumRecExists
  <1>2. SumFunctionOnSet(f, S) = iter[S]
    BY DEF SumFunctionOnSet, FoldFunctionOnSet, MapThenFoldSet, SumRec, Pick
  <1> QED
    BY <1>1, <1>2

\* What a sum of numbers is, as far as it is needed here
LEMMA SumBounds ==
    ASSUME NEW f, IsFiniteSet(DOMAIN f), \A x \in DOMAIN f : f[x] \in Int
    PROVE  /\ SumFunction(f) \in Int
           /\ (\A x \in DOMAIN f : f[x] >= 0) =>
                 SumFunction(f) >= 0 /\ \A x \in DOMAIN f : f[x] <= SumFunction(f)
  <1> DEFINE S == DOMAIN f
  <1>1. PICK g : SumRec(f, g, S) /\ SumFunction(f) = g[S]
    BY SumIsRec DEF SumFunction
  <1> DEFINE Good(s) == /\ g[s] \in Int
                        /\ (\A x \in S : f[x] >= 0) => g[s] >= 0 /\ \A x \in s : f[x] <= g[s]
             F == {s \in SUBSET S : ~Good(s)}
  <1>2. SUFFICES ASSUME F # {} PROVE FALSE
    BY <1>1
  <1>3. PICK s \in F : \A u \in F : u \subseteq s => u = s
    <2> HIDE DEF F
    <2>1. F \subseteq SUBSET S
      BY DEF F
    <2> QED
      BY <1>2, <2>1, LeastSet
  <1>4. s # {}
    BY <1>1, <1>3 DEF SumRec
  <1> DEFINE y == Pick(s)
             u == s \ {y}
  <1>5. y \in s /\ y \in S /\ f[y] \in Int
    BY <1>3, <1>4, PickIn
  <1>6. g[s] = f[y] + g[u]
    BY <1>1, <1>3, <1>4 DEF SumRec
  <1>7. Good(u)
    BY <1>3, <1>5
  <1>8. \A x \in s : x = y \/ x \in u
    OBVIOUS
  <1>9. \A x \in u : f[x] \in Int
    BY <1>3
  <1> HIDE DEF y, u
  <1>10. Good(s)
    BY <1>5, <1>6, <1>7, <1>8, <1>9
  <1> QED
    BY <1>3, <1>10

----------------------------------------------------------------------------
(* The walk over the allocations *)

Serves(task, v) == [k \in DOMAIN task.cpus |-> NumSustains(task, v, k)]
StepUp(S, n, k) == IF k < n /\ S[k + 1] > S[k] THEN k + 1 ELSE k
WalkRec(w, S, n) ==
    w = [k \in 1..n |-> IF S[StepUp(S, n, k)] # 0 THEN StepUp(S, n, k)
                        ELSE IF k = n THEN NoAllocation ELSE w[k + 1]]

\* It ends at the first allocation from which one step up, or none, is to one that serves
LEMMA WalkExists ==
    ASSUME NEW n \in Nat, NEW S \in [1..n -> Nat]
    PROVE  \E w : WalkRec(w, S, n)
  <1> DEFINE Stop(j) == S[StepUp(S, n, j)] # 0
             IsFirst(k, j) == j \in k..n /\ Stop(j) /\ \A i \in k..j - 1 : ~Stop(i)
             First(k) == CHOOSE j : IsFirst(k, j)
             w == [k \in 1..n |-> IF \E j \in k..n : Stop(j) THEN StepUp(S, n, First(k))
                                  ELSE NoAllocation]
  <1> HIDE DEF Stop
  <1>1. ASSUME NEW k \in 1..n, NEW j \in k..n, Stop(j)
        PROVE  \E i : IsFirst(k, i)
    <2> DEFINE T == {i \in k..n : Stop(i)}
    <2>1. T \subseteq Nat /\ T # {}
      BY <1>1
    <2>2. PICK i \in T : \A m \in T : i <= m
      BY <2>1, LeastNumber
    <2> QED
      BY <2>2
  <1>2. ASSUME NEW k \in 1..n, NEW i, NEW j, IsFirst(k, i), IsFirst(k, j)
        PROVE  i = j
    BY <1>2
  <1>3. ASSUME NEW k \in 1..n
        PROVE  w[k] = IF Stop(k) THEN StepUp(S, n, k)
                      ELSE IF k = n THEN NoAllocation ELSE w[k + 1]
    <2>1. CASE Stop(k)
      <3>1. IsFirst(k, k)
        BY <2>1
      <3>2. IsFirst(k, First(k))
        BY <3>1
      <3>3. First(k) = k
        BY <1>2, <3>1, <3>2
      <3> QED
        BY <2>1, <3>3
    <2>2. CASE ~Stop(k) /\ k = n
      BY <2>2
    <2>3. CASE ~Stop(k) /\ k # n
      <3>1. k + 1 \in 1..n /\ \A i : IsFirst(k, i) <=> IsFirst(k + 1, i)
        BY <2>3
      <3>2. (\E j \in k..n : Stop(j)) <=> (\E j \in k + 1..n : Stop(j))
        BY <2>3
      <3>3. CASE \E j \in k..n : Stop(j)
        <4>1. IsFirst(k, First(k))
          BY <1>1, <3>3
        <4>2. IsFirst(k + 1, First(k + 1))
          BY <1>1, <3>1, <3>2, <3>3
        <4>3. First(k) = First(k + 1)
          BY <1>2, <3>1, <4>1, <4>2
        <4> QED
          BY <2>3, <3>1, <3>2, <3>3, <4>3
      <3>4. CASE ~\E j \in k..n : Stop(j)
        BY <2>3, <3>1, <3>2, <3>4
      <3> QED
        BY <3>3, <3>4
    <2> QED
      BY <2>1, <2>2, <2>3
  <1>4. w = [k \in 1..n |-> IF Stop(k) THEN StepUp(S, n, k)
                            ELSE IF k = n THEN NoAllocation ELSE w[k + 1]]
    <2>1. w = [k \in 1..n |-> w[k]]
      OBVIOUS
    <2> HIDE DEF w
    <2> QED
      BY <1>3, <2>1
  <1> HIDE DEF w
  <1> QED
    BY <1>4 DEF WalkRec, Stop

\* So it ends at the first allocation that serves, or a better one right above where it
\* began or above one that does not serve
WalkEnds(r, S, n, from) ==
    IF \A k \in from..n : S[k] = 0 THEN r = NoAllocation
    ELSE /\ r \in from..n /\ S[r] # 0
         /\ \A k \in from..r - 1 : S[k] = 0 \/ (k = from /\ r = from + 1 /\ S[r] > S[k])

LEMMA WalkFinds ==
    ASSUME NEW n \in Nat, NEW S \in [1..n -> Nat], NEW w, WalkRec(w, S, n), NEW from \in 1..n
    PROVE  WalkEnds(w[from], S, n, from)
  <1> DEFINE T == {d \in 0..n - 1 : ~WalkEnds(w[n - d], S, n, n - d)}
  <1>1. SUFFICES T = {}
    <2>1. n - from \in 0..n - 1 /\ n - (n - from) = from
      OBVIOUS
    <2> QED
      BY <2>1
  <1>2. SUFFICES ASSUME T # {} PROVE FALSE
    OBVIOUS
  <1>3. PICK d \in T : \A e \in T : d <= e
    <2>1. T \subseteq Nat
      OBVIOUS
    <2> HIDE DEF T
    <2> QED
      BY <1>2, <2>1, LeastNumber
  <1> DEFINE k == n - d
  <1>4. k \in 1..n /\ ~WalkEnds(w[k], S, n, k)
    BY <1>3
  <1>5. k # n => WalkEnds(w[k + 1], S, n, k + 1)
    <2>1. SUFFICES ASSUME k # n PROVE WalkEnds(w[k + 1], S, n, k + 1)
      OBVIOUS
    <2>2. d - 1 \in 0..n - 1 /\ ~(d <= d - 1) /\ n - (d - 1) = k + 1
      BY <1>3, <2>1
    <2>3. d - 1 \notin T
      BY <1>3, <2>2
    <2> QED
      BY <2>2, <2>3
  <1> HIDE DEF k, T
  <1>6. w[k] = IF S[StepUp(S, n, k)] # 0 THEN StepUp(S, n, k)
               ELSE IF k = n THEN NoAllocation ELSE w[k + 1]
    BY <1>4 DEF WalkRec
  <1>7. CASE S[StepUp(S, n, k)] # 0
    <2>1. CASE k < n /\ S[k + 1] > S[k]
      BY <1>4, <1>6, <1>7, <2>1 DEF StepUp, WalkEnds
    <2>2. CASE ~(k < n /\ S[k + 1] > S[k])
      BY <1>4, <1>6, <1>7, <2>2 DEF StepUp, WalkEnds
    <2> QED
      BY <2>1, <2>2
  <1>8. CASE S[StepUp(S, n, k)] = 0
    <2>1. S[k] = 0 /\ (k # n => S[k + 1] = 0)
      BY <1>4, <1>8 DEF StepUp
    <2>2. CASE k = n
      BY <1>4, <1>6, <1>8, <2>1, <2>2 DEF WalkEnds
    <2>3. CASE k # n /\ \A i \in k + 1..n : S[i] = 0
      BY <1>4, <1>5, <1>6, <1>8, <2>1, <2>3 DEF WalkEnds
    <2>4. CASE k # n /\ ~\A i \in k + 1..n : S[i] = 0
      <3>1. w[k] = w[k + 1]
        BY <1>6, <1>8, <2>4
      <3>2. /\ w[k] \in k + 1..n /\ S[w[k]] # 0
            /\ \A i \in k + 1..w[k] - 1 : S[i] = 0 \/ i = k + 1
        BY <1>4, <1>5, <2>4, <3>1 DEF WalkEnds
      <3>3. \A i \in k..w[k] - 1 : S[i] = 0
        BY <1>4, <2>1, <2>4, <3>2
      <3>4. ~\A i \in k..n : S[i] = 0
        BY <1>4, <2>4
      <3> QED
        BY <1>4, <3>2, <3>3, <3>4 DEF WalkEnds
    <2> QED
      BY <2>2, <2>3, <2>4
  <1> QED
    BY <1>7, <1>8

LEMMA ServesType ==
    ASSUME NEW task, Measured(task), NEW v \in ToSet(task.variants)
    PROVE  /\ Len(task.cpus) \in Nat /\ DOMAIN task.cpus = 1..Len(task.cpus)
           /\ Serves(task, v) \in [1..Len(task.cpus) -> Nat]
  <1>1. Len(task.cpus) \in Nat /\ DOMAIN task.cpus = 1..Len(task.cpus)
    BY DEF Measured
  <1>2. ASSUME NEW k \in DOMAIN task.cpus
        PROVE  NumSustains(task, v, k) \in Nat
    <2>1. task.batches[v] \in Seq(Nat)
      BY DEF Measured
    <2>2. IsFiniteSet(DOMAIN task.batches[v])
      BY <2>1, FS_Interval
    <2> QED
      BY <2>2, FS_Subset, FS_CardinalityType DEF NumSustains
  <1> QED
    BY <1>1, <1>2 DEF Serves

LEMMA NextIndicatorIs ==
    ASSUME NEW task, Measured(task), NEW v \in ToSet(task.variants), NEW from \in DOMAIN task.cpus
    PROVE  WalkEnds(NextIndicator(task, v, from), Serves(task, v), Len(task.cpus), from)
  <1> DEFINE n == Len(task.cpus)
             S == Serves(task, v)
             walk == CHOOSE w : WalkRec(w, S, n)
  <1>1. n \in Nat /\ DOMAIN task.cpus = 1..n /\ S \in [1..n -> Nat]
    BY ServesType
  <1>2. WalkRec(walk, S, n)
    BY <1>1, WalkExists
  <1>3. WalkEnds(walk[from], S, n, from)
    BY <1>1, <1>2, WalkFinds
  <1>4. NextIndicator(task, v, from) = walk[from]
    <2>1. ASSUME NEW k \in 1..n
          PROVE  /\ S[k] = NumSustains(task, v, k)
                 /\ k < n => S[k + 1] = NumSustains(task, v, k + 1)
                 /\ StepUp(S, n, k) \in 1..n
      BY <1>1 DEF Serves, StepUp
    <2> DEFINE Num(k) == NumSustains(task, v, k)
               Up(k) == IF k < n /\ Num(k + 1) > Num(k) THEN k + 1 ELSE k
    <2>2. ASSUME NEW k \in 1..n
          PROVE  Up(k) = StepUp(S, n, k) /\ Num(Up(k)) = S[StepUp(S, n, k)]
      BY <2>1 DEF StepUp
    <2> HIDE DEF Up, Num, n, S
    <2>3. ASSUME NEW w
          PROVE  [k \in 1..n |-> IF Num(Up(k)) # 0 THEN Up(k)
                                 ELSE IF k = n THEN NoAllocation ELSE w[k + 1]]
               = [k \in 1..n |-> IF S[StepUp(S, n, k)] # 0 THEN StepUp(S, n, k)
                                 ELSE IF k = n THEN NoAllocation ELSE w[k + 1]]
      BY <2>2
    <2> DEFINE other == CHOOSE w : w = [k \in 1..n |-> IF Num(Up(k)) # 0 THEN Up(k)
                                          ELSE IF k = n THEN NoAllocation ELSE w[k + 1]]
    <2>4. other = walk
      BY <2>3 DEF WalkRec
    <2>5. from # NoAllocation
      BY <1>1 DEF NoAllocation, n
    <2>6. NextIndicator(task, v, from) = other[from]
      BY <2>5 DEF NextIndicator, Up, Num, n
    <2> QED
      BY <2>4, <2>6
  <1> QED
    BY <1>3, <1>4

\* The indicators of the first m variants
IndicatorsRec(f, task, m) ==
    f = [i \in 1..m |-> IF i = 1 THEN FirstIndicator(task)
                        ELSE NextIndicator(task, task.variants[i], f[i - 1])]

LEMMA IndicatorsExist ==
    ASSUME NEW task, NEW n \in Nat
    PROVE  \E f : IndicatorsRec(f, task, n)
  <1> DEFINE T == {m \in Nat : ~\E f : IndicatorsRec(f, task, m)}
  <1>1. SUFFICES T = {}
    OBVIOUS
  <1>2. SUFFICES ASSUME T # {} PROVE FALSE
    OBVIOUS
  <1>3. PICK m \in T : \A k \in T : m <= k
    <2>1. T \subseteq Nat
      OBVIOUS
    <2> HIDE DEF T
    <2> QED
      BY <1>2, <2>1, LeastNumber
  <1>4. CASE m = 0
    <2> DEFINE f == [i \in 1..0 |-> IF i = 1 THEN FirstIndicator(task)
                        ELSE NextIndicator(task, task.variants[i], 0)]
    <2>1. IndicatorsRec(f, task, 0)
      BY DEF IndicatorsRec
    <2> QED
      BY <1>3, <1>4, <2>1
  <1>5. CASE m # 0
    <2>1. m \in Nat /\ m - 1 \in Nat /\ ~(m <= m - 1)
      BY <1>3, <1>5
    <2>2. PICK f : IndicatorsRec(f, task, m - 1)
      BY <1>3, <2>1
    <2> DEFINE h == [i \in 1..m |-> IF i = 1 THEN FirstIndicator(task)
                        ELSE NextIndicator(task, task.variants[i], f[i - 1])]
    <2>3. \A i \in 1..m - 1 : h[i] = f[i]
      BY <2>1, <2>2 DEF IndicatorsRec
    <2>4. \A i \in 1..m : i # 1 => i - 1 \in 1..m - 1
      BY <2>1
    <2>5. ASSUME NEW i \in 1..m
          PROVE  h[i] = IF i = 1 THEN FirstIndicator(task)
                        ELSE NextIndicator(task, task.variants[i], h[i - 1])
      BY <2>3, <2>4
    <2>6. h = [i \in 1..m |-> h[i]]
      OBVIOUS
    <2> HIDE DEF h
    <2>7. IndicatorsRec(h, task, m)
      BY <2>5, <2>6 DEF IndicatorsRec
    <2> QED
      BY <1>3, <2>7
  <1> QED
    BY <1>4, <1>5

LEMMA IndicatorsAre ==
    ASSUME NEW task, Measured(task)
    PROVE  /\ Len(task.variants) \in Nat /\ DOMAIN task.variants = 1..Len(task.variants)
           /\ IndicatorsRec(Indicators(task), task, Len(task.variants))
  <1> DEFINE n == Len(task.variants)
  <1>1. n \in Nat /\ DOMAIN task.variants = 1..n
    BY DEF Measured
  <1>2. Indicators(task) = CHOOSE f : IndicatorsRec(f, task, n)
    BY <1>1 DEF Indicators, IndicatorsRec
  <1> QED
    BY <1>1, <1>2, IndicatorsExist

LEMMA FirstIndicatorIs ==
    ASSUME NEW task, Measured(task), task.variants # <<>>
    PROVE  LET S == Serves(task, task.variants[1]) IN
           IF \A k \in DOMAIN task.cpus : S[k] = 0 THEN FirstIndicator(task) = NoAllocation
           ELSE /\ FirstIndicator(task) \in DOMAIN task.cpus /\ S[FirstIndicator(task)] # 0
                /\ \A k \in 1..FirstIndicator(task) - 1 : S[k] = 0
  <1> DEFINE v == task.variants[1]
             S == Serves(task, v)
             able == {k \in DOMAIN task.cpus : NumSustains(task, v, k) # 0}
  <1>1. v \in ToSet(task.variants)
    BY DEF Measured, ToSet
  <1>2. /\ Len(task.cpus) \in Nat /\ DOMAIN task.cpus = 1..Len(task.cpus)
        /\ S \in [1..Len(task.cpus) -> Nat]
    BY <1>1, ServesType
  <1>3. able = {k \in DOMAIN task.cpus : S[k] # 0}
    BY DEF Serves
  <1>4. able \subseteq Nat
    BY <1>2
  <1>5. FirstIndicator(task) = IF able = {} THEN NoAllocation ELSE Min(able)
    BY DEF FirstIndicator
  <1> HIDE DEF able, S
  <1>6. CASE able = {}
    BY <1>3, <1>5, <1>6 DEF S
  <1>7. CASE able # {}
    <2>1. \E m \in able : \A k \in able : m <= k
      BY <1>4, <1>7, LeastNumber
    <2>2. Min(able) \in able /\ \A k \in able : Min(able) <= k
      BY <2>1 DEF Min
    <2>3. FirstIndicator(task) = Min(able) /\ Min(able) \in Nat /\ Min(able) \in DOMAIN task.cpus
      BY <1>3, <1>4, <1>5, <1>7, <2>2
    <2>4. \A k \in 1..Min(able) - 1 : S[k] = 0
      <3>1. SUFFICES ASSUME NEW k \in 1..Min(able) - 1 PROVE S[k] = 0
        OBVIOUS
      <3>2. k \in DOMAIN task.cpus /\ ~(Min(able) <= k)
        <4> HIDE DEF v
        <4> QED
          BY <1>2, <2>3, <3>1
      <3> QED
        BY <1>3, <2>2, <3>2
    <2> QED
      BY <1>3, <2>2, <2>3, <2>4 DEF S
  <1> QED
    BY <1>6, <1>7

\* An indicator is an allocation, or none
LEMMA IndicatorsType ==
    ASSUME NEW task, Measured(task), task.variants # <<>>, NEW i \in DOMAIN task.variants
    PROVE  Indicators(task)[i] \in {NoAllocation} \cup DOMAIN task.cpus
  <1> DEFINE ind == Indicators(task)
             V == {NoAllocation} \cup DOMAIN task.cpus
             T == {k \in DOMAIN task.variants : ind[k] \notin V}
  <1>1. DOMAIN task.variants = 1..Len(task.variants) /\ Len(task.variants) \in Nat
    BY IndicatorsAre
  <1>2. SUFFICES ASSUME T # {} PROVE FALSE
    OBVIOUS
  <1>3. PICK k \in T : \A j \in T : k <= j
    <2>1. T \subseteq Nat
      BY <1>1
    <2> HIDE DEF T
    <2> QED
      BY <1>2, <2>1, LeastNumber
  <1>4. k \in 1..Len(task.variants)
    BY <1>1, <1>3
  <1>5. ind[k] = IF k = 1 THEN FirstIndicator(task)
                 ELSE NextIndicator(task, task.variants[k], ind[k - 1])
    BY <1>4, IndicatorsAre DEF IndicatorsRec
  <1>6. CASE k = 1
    BY <1>3, <1>5, <1>6, FirstIndicatorIs
  <1>7. CASE k # 1
    <2>1. k - 1 \in DOMAIN task.variants /\ ~(k <= k - 1)
      BY <1>1, <1>4, <1>7
    <2>2. ind[k - 1] \in V
      BY <1>3, <2>1
    <2>3. CASE ind[k - 1] = NoAllocation
      BY <1>3, <1>5, <1>7, <2>3 DEF NextIndicator
    <2>4. CASE ind[k - 1] # NoAllocation
      <3>1. task.variants[k] \in ToSet(task.variants) /\ ind[k - 1] \in DOMAIN task.cpus
        BY <1>3, <2>2, <2>4 DEF ToSet
      <3>2. WalkEnds(ind[k], Serves(task, task.variants[k]), Len(task.cpus), ind[k - 1])
        BY <1>5, <1>7, <3>1, NextIndicatorIs
      <3>3. Len(task.cpus) \in Nat /\ DOMAIN task.cpus = 1..Len(task.cpus)
        BY <3>1, ServesType
      <3> QED
        BY <1>3, <3>1, <3>2, <3>3 DEF WalkEnds
    <2> QED
      BY <2>3, <2>4
  <1> QED
    BY <1>6, <1>7

\* The rule for one task
LEMMA IndicatorRule ==
    ASSUME NEW task, Measured(task), task.variants # <<>>, NEW i \in DOMAIN task.variants
    PROVE  LET ind == Indicators(task)
               S(k) == NumSustains(task, task.variants[i], k)
               from == IF i = 1 THEN 1 ELSE ind[i - 1]
           IN  IF from = NoAllocation \/ \A k \in from..Len(task.cpus) : S(k) = 0
               THEN ind[i] = NoAllocation
               ELSE /\ S(ind[i]) # 0 /\ ind[i] >= from
                    /\ \A k \in from..ind[i] - 1 :
                          S(k) = 0 \/ (i # 1 /\ k = from /\ ind[i] = from + 1 /\ S(ind[i]) > S(k))
  <1> DEFINE ind == Indicators(task)
             v == task.variants[i]
             n == Len(task.cpus)
             S == Serves(task, v)
             from == IF i = 1 THEN 1 ELSE ind[i - 1]
  <1>1. DOMAIN task.variants = 1..Len(task.variants) /\ Len(task.variants) \in Nat
    BY IndicatorsAre
  <1>2. v \in ToSet(task.variants)
    BY DEF ToSet
  <1>3. n \in Nat /\ DOMAIN task.cpus = 1..n /\ S \in [1..n -> Nat]
    BY <1>2, ServesType
  <1>4. \A k \in 1..n : NumSustains(task, v, k) = S[k]
    BY <1>3 DEF Serves
  <1>5. ind[i] = IF i = 1 THEN FirstIndicator(task) ELSE NextIndicator(task, v, ind[i - 1])
    BY <1>1, IndicatorsAre DEF IndicatorsRec
  <1>6. ind[i] \in {0} \cup 1..n
    BY <1>3, IndicatorsType DEF NoAllocation
  <1> HIDE DEF ind, n, S
  <1>7. CASE i = 1
    <2>1. IF \A k \in 1..n : S[k] = 0 THEN ind[i] = NoAllocation
          ELSE ind[i] \in 1..n /\ S[ind[i]] # 0 /\ \A k \in 1..ind[i] - 1 : S[k] = 0
      BY <1>3, <1>5, <1>7, FirstIndicatorIs DEF S
    <2>2. \A k \in 1..n : k \in 1..n /\ \A j \in 1..k - 1 : j \in 1..n
      BY <1>3
    <2> QED
      BY <1>3, <1>4, <1>7, <2>1, <2>2 DEF NoAllocation, ind, n
  <1>8. CASE i # 1
    <2>1. i - 1 \in DOMAIN task.variants
      BY <1>1, <1>8
    <2>2. ind[i - 1] \in {0} \cup 1..n
      BY <1>3, <2>1, IndicatorsType DEF NoAllocation, ind
    <2>3. CASE ind[i - 1] = NoAllocation
      BY <1>5, <1>8, <2>3 DEF NextIndicator, ind, n
    <2>4. CASE ind[i - 1] # NoAllocation
      <3>1. ind[i - 1] \in 1..n
        BY <2>2, <2>4 DEF NoAllocation
      <3>2. WalkEnds(ind[i], S, n, ind[i - 1])
        BY <1>2, <1>3, <1>5, <1>8, <3>1, NextIndicatorIs DEF S, n
      <3>3. \A k \in ind[i - 1]..n : k \in 1..n /\ \A j \in ind[i - 1]..k - 1 : j \in 1..n
        BY <1>3, <3>1
      <3>4. CASE \A k \in ind[i - 1]..n : S[k] = 0
        BY <1>4, <1>8, <3>2, <3>3, <3>4 DEF WalkEnds, ind, n
      <3>5. CASE ~\A k \in ind[i - 1]..n : S[k] = 0
        <4>1. /\ ind[i] \in ind[i - 1]..n /\ S[ind[i]] # 0
              /\ \A k \in ind[i - 1]..ind[i] - 1 :
                    S[k] = 0 \/ (k = ind[i - 1] /\ ind[i] = ind[i - 1] + 1 /\ S[ind[i]] > S[k])
          BY <3>2, <3>5 DEF WalkEnds
        <4>2. ind[i] >= ind[i - 1]
          BY <1>3, <3>1, <4>1
        <4> QED
          BY <1>4, <1>8, <2>4, <3>3, <3>5, <4>1, <4>2 DEF ind, n
      <3> QED
        BY <3>4, <3>5
    <2> QED
      BY <2>3, <2>4
  <1> QED
    BY <1>7, <1>8

\* With an allocation for every variant, the base allocations are numbers of cpus
LEMMA BaseAllocationType ==
    ASSUME NEW task, Measured(task), task.variants # <<>>, HasBaseAllocations(task),
           NEW v \in ToSet(task.variants)
    PROVE  /\ BaseAllocation(task, v) \in Nat
           /\ \E k \in DOMAIN task.cpus : task.cpus[k] = BaseAllocation(task, v)
  <1> DEFINE i == CHOOSE j \in DOMAIN task.variants : task.variants[j] = v
             ind == Indicators(task)
  <1>1. i \in DOMAIN task.variants
    BY DEF ToSet
  <1>2. DOMAIN ind = DOMAIN task.variants
    BY IndicatorsAre DEF IndicatorsRec
  <1>3. ind[i] # NoAllocation
    BY <1>1, <1>2 DEF HasBaseAllocations, Range
  <1>4. ind[i] \in DOMAIN task.cpus
    BY <1>1, <1>3, IndicatorsType
  <1>5. task.cpus \in Seq(Nat)
    BY DEF Measured
  <1>6. task.cpus[ind[i]] \in Nat
    BY <1>4, <1>5
  <1> QED
    BY <1>4, <1>6 DEF BaseAllocation

----------------------------------------------------------------------------
(* The solutions are finite in number, so one of them is best *)

LEMMA ImageFinite ==
    ASSUME NEW f, IsFiniteSet(DOMAIN f), f = [x \in DOMAIN f |-> f[x]]
    PROVE  IsFiniteSet(Range(f))
  <1>1. f \in Surjection(DOMAIN f, Range(f))
    BY DEF Surjection, Range
  <1> QED
    BY <1>1, FS_Surjection

LEMMA FunctionsFinite ==
    ASSUME NEW A, NEW B, IsFiniteSet(A), IsFiniteSet(B)
    PROVE  IsFiniteSet([A -> B])
  <1> DEFINE pairs(f) == {<<x, f[x]>> : x \in A}
             F == [f \in [A -> B] |-> pairs(f)]
  <1>1. IsFiniteSet(SUBSET (A \X B))
    BY FS_Product, FS_SUBSET
  <1>2. ASSUME NEW f \in [A -> B], NEW g \in [A -> B], pairs(f) = pairs(g)
        PROVE  f = g
    <2>1. ASSUME NEW x \in A PROVE f[x] = g[x]
      <3>1. <<x, f[x]>> \in pairs(g)
        BY <1>2
      <3>2. PICK y \in A : <<x, f[x]>> = <<y, g[y]>>
        BY <3>1
      <3> QED
        BY <3>2
    <2> QED
      BY <2>1
  <1>3. \A f \in [A -> B] : pairs(f) \in SUBSET (A \X B)
    OBVIOUS
  <1> HIDE DEF pairs
  <1>4. F \in Injection([A -> B], SUBSET (A \X B))
    BY <1>2, <1>3 DEF Injection, IsInjective
  <1> QED
    BY <1>1, <1>4, FS_Injection

Integral(S) == \A x \in S : x \in Int

LEMMA IntMaxExists ==
    ASSUME NEW S, IsFiniteSet(S), S # {}, Integral(S)
    PROVE  Max(S) \in S
  <1> DEFINE F == {T \in SUBSET S : T # {} /\ \A x \in T : \E y \in T : ~(x >= y)}
  <1>1. SUFFICES ASSUME S \in F PROVE FALSE
    <2>1. CASE S \in F
      BY <1>1, <2>1
    <2>2. CASE S \notin F
      <3>1. \E x \in S : \A y \in S : x >= y
        BY <2>2
      <3> QED
        BY <3>1 DEF Max
    <2> QED
      BY <2>1, <2>2
  <1>2. PICK T \in F : \A U \in F : U \subseteq T => U = T
    <2>1. F \subseteq SUBSET S
      OBVIOUS
    <2>2. F # {}
      BY <1>1
    <2> HIDE DEF F
    <2> QED
      BY <2>1, <2>2, LeastSet
  <1>3. PICK x \in T : TRUE
    BY <1>2
  <1>4. PICK y \in T : ~(x >= y)
    BY <1>2, <1>3
  <1>5. x \in Int /\ y \in Int /\ x # y
    BY <1>2, <1>4 DEF Integral
  <1> DEFINE R == T \ {x}
  <1>6. R \in SUBSET S /\ R # {} /\ R # T
    BY <1>2, <1>3, <1>4, <1>5
  <1>7. R \notin F
    BY <1>2, <1>6
  <1>8. PICK b \in R : \A z \in R : b >= z
    BY <1>6, <1>7
  <1>9. PICK z \in T : ~(b >= z)
    BY <1>2, <1>8
  <1>10. z = x /\ b >= y /\ b \in Int
    BY <1>4, <1>5, <1>6, <1>8, <1>9 DEF Integral
  <1> QED
    BY <1>4, <1>5, <1>9, <1>10

LEMMA VariantsFinite ==
    ASSUME NEW task, Measured(task)
    PROVE  IsFiniteSet(ToSet(task.variants))
  <1>1. task.variants \in Seq(DOMAIN task.accuracy)
    BY DEF Measured
  <1>2. IsFiniteSet(DOMAIN task.variants) /\ task.variants = [i \in DOMAIN task.variants |-> task.variants[i]]
    BY <1>1, FS_Interval
  <1>3. IsFiniteSet(Range(task.variants))
    BY <1>2, ImageFinite
  <1> QED
    BY <1>3 DEF Range, ToSet

\* The tasks of the pipeline are measured
SetupInv == setup \in Setups

LEMMA GraphMeasured ==
    ASSUME SetupInv
    PROVE  /\ IsFiniteSet(Stages)
           /\ \A s \in Stages : /\ Measured(Graph[s]) /\ Rectangular(Graph[s])
                                /\ Graph[s].variants # <<>>
                                /\ Graph[s].variants \in Seq(DOMAIN Graph[s].accuracy)
                                /\ DOMAIN setup.initial[s] = Knobs
  BY OptimizerAssumption DEF SetupInv, Stages, Graph, Rectangular, Measured

LEMMA BatchesFinite ==
    ASSUME SetupInv
    PROVE  DistinctBatches \subseteq Nat /\ IsFiniteSet(DistinctBatches)
  <1>1. DistinctBatches \subseteq Nat
    <2>1. SUFFICES ASSUME NEW b \in DistinctBatches PROVE b \in Nat
      OBVIOUS
    <2>2. PICK s \in Stages : \E v \in VariantsOf(s) : b \in ToSet(Graph[s].batches[v])
      BY <2>1 DEF DistinctBatches
    <2>3. PICK v \in VariantsOf(s) : b \in ToSet(Graph[s].batches[v])
      BY <2>2
    <2>4. Graph[s].batches[v] \in Seq(Nat)
      BY GraphMeasured, <2>3 DEF Measured, VariantsOf
    <2> QED
      BY <2>3, <2>4 DEF ToSet
  <1>2. \A b \in DistinctBatches : b <= BatchingCap
    BY DEF DistinctBatches
  <1>3. BatchingCap \in Nat
    BY OptimizerAssumption
  <1> QED
    BY <1>1, <1>2, <1>3, FS_BoundedSetOfNaturals

LEMMA SolutionsFinite ==
    ASSUME SetupInv
    PROVE  IsFiniteSet(Solutions)
  <1> DEFINE R(s) == [variant : VariantsOf(s), batch : DistinctBatches, replicas : 1..ScalingCap]
             choices == [s \in Stages |-> StageChoices(s)]
             P(s) == (VariantsOf(s) \X DistinctBatches) \X (1..ScalingCap)
  <1>1. IsFiniteSet(Stages) /\ \A s \in Stages : IsFiniteSet(VariantsOf(s))
    BY GraphMeasured, VariantsFinite DEF VariantsOf
  <1>2. ASSUME NEW s \in Stages
        PROVE  IsFiniteSet(StageChoices(s))
    <2>1. IsFiniteSet(1..ScalingCap)
      BY FS_Interval, OptimizerAssumption
    <2>2. IsFiniteSet(P(s))
      BY <1>1, <2>1, BatchesFinite, FS_Product
    <2> DEFINE f == [c \in R(s) |-> <<<<c.variant, c.batch>>, c.replicas>>]
    <2>3. f \in Injection(R(s), P(s))
      BY DEF Injection, IsInjective
    <2>4. IsFiniteSet(R(s))
      BY <2>2, <2>3, FS_Injection
    <2>5. StageChoices(s) \in SUBSET R(s)
      BY DEF StageChoices
    <2> QED
      BY <2>4, <2>5, FS_Subset
  <1>3. IsFiniteSet(Range(choices))
    BY <1>1, ImageFinite
  <1>4. \A T \in Range(choices) : IsFiniteSet(T)
    BY <1>2 DEF Range
  <1>5. IsFiniteSet([Stages -> UNION Range(choices)])
    BY <1>1, <1>3, <1>4, FS_UNION, FunctionsFinite
  <1>6. Solutions \in SUBSET [Stages -> UNION Range(choices)]
    BY DEF Solutions
  <1> QED
    BY <1>5, <1>6, FS_Subset

\* What a solution chooses for a stage
LEMMA SolutionChooses ==
    ASSUME NEW x \in Solutions, NEW s \in Stages
    PROVE  /\ x[s] \in StageChoices(s)
           /\ x[s].variant \in VariantsOf(s) /\ x[s].batch \in DistinctBatches
           /\ x[s].replicas \in 1..ScalingCap
           /\ params.profile[s][x[s].variant][x[s].batch].throughput * x[s].replicas >= load
  <1>1. x[s] \in StageChoices(s)
    BY DEF Solutions
  <1> QED
    BY <1>1 DEF StageChoices

LEMMA ObjectiveType ==
    ASSUME SetupInv, AllHaveBase, params.base = BaseAllocations, NEW x \in Solutions
    PROVE  Objective(x) \in Int
  <1> DEFINE value(s) == Alpha * Graph[s].accuracy[x[s].variant]
                           - Beta * params.base[s][x[s].variant] * x[s].replicas
                           - Gamma * x[s].batch
             f == [s \in Stages |-> value(s)]
  <1>1. ASSUME NEW s \in Stages
        PROVE  value(s) \in Int
    <2>1. /\ x[s].variant \in VariantsOf(s) /\ x[s].batch \in DistinctBatches
          /\ x[s].replicas \in 1..ScalingCap
      BY SolutionChooses
    <2>2. x[s].batch \in Nat
      BY <2>1, BatchesFinite
    <2>3. Graph[s].accuracy[x[s].variant] \in Int
      BY <2>1, GraphMeasured DEF Measured, VariantsOf
    <2>4. params.base[s][x[s].variant] \in Nat
      <3>1. params.base[s][x[s].variant] = BaseAllocation(Graph[s], x[s].variant)
        BY <2>1 DEF BaseAllocations
      <3> QED
        BY <2>1, <3>1, GraphMeasured, BaseAllocationType DEF AllHaveBase, VariantsOf
    <2>5. Alpha \in Int /\ Beta \in Int /\ Gamma \in Int /\ x[s].replicas \in Int
      BY <2>1, OptimizerAssumption
    <2> QED
      BY <2>2, <2>3, <2>4, <2>5
  <1> HIDE DEF value
  <1>2. IsFiniteSet(DOMAIN f) /\ \A s \in DOMAIN f : f[s] \in Int
    BY <1>1, GraphMeasured
  <1> HIDE DEF f
  <1>3. SumFunction(f) \in Int
    BY <1>2, SumBounds
  <1> QED
    BY <1>3 DEF Objective, f, value

\* As many solutions as are asked for, but at least one
LEMMA AnswersAre ==
    ASSUME SetupInv, AllHaveBase, params.base = BaseAllocations, Solutions # {},
           NEW q \in Answers(Solutions)
    PROVE  /\ \E m \in Nat : m >= 1 /\ m <= setup.limit /\ DOMAIN q = 1..m
           /\ \A i \in DOMAIN q : q[i] \in Solutions
  <1> DEFINE values == {Objective(x) : x \in Solutions}
             top == Max(values)
             best == {x \in Solutions : Objective(x) = top}
             m == Min({setup.limit, Cardinality(best)})
  <1>1. top \in values
    <2> DEFINE f == [x \in Solutions |-> Objective(x)]
    <2>1. IsFiniteSet(Range(f))
      BY SolutionsFinite, ImageFinite
    <2>2. values = Range(f)
      BY DEF Range
    <2>3. values \subseteq Int
      BY ObjectiveType
    <2>4. values # {}
      OBVIOUS
    <2>5. Integral(values)
      BY <2>3 DEF Integral
    <2> HIDE DEF values
    <2> QED
      BY <2>1, <2>2, <2>4, <2>5, IntMaxExists
  <1>2. best # {} /\ best \in SUBSET Solutions
    BY <1>1
  <1>3. IsFiniteSet(best)
    BY <1>2, SolutionsFinite, FS_Subset
  <1> HIDE DEF best
  <1>4. Cardinality(best) \in Nat /\ Cardinality(best) # 0
    BY <1>2, <1>3, FS_CardinalityType, FS_EmptySet
  <1>5. setup.limit \in Nat /\ setup.limit # 0
    BY OptimizerAssumption DEF SetupInv
  <1>6. m \in Nat /\ m >= 1 /\ m <= setup.limit
    <2> DEFINE c == Cardinality(best)
               l == setup.limit
    <2> HIDE DEF c
    <2>1. c \in Nat /\ c # 0
      BY <1>4 DEF c
    <2>2. \E x \in {l, c} : \A y \in {l, c} : x <= y
      BY <1>5, <2>1
    <2>3. Min({l, c}) \in {l, c} /\ \A y \in {l, c} : Min({l, c}) <= y
      BY <2>2 DEF Min
    <2> QED
      BY <1>5, <2>1, <2>3 DEF c
  <1>7. q \in Injection(1..m, best)
    BY DEF Answers, best
  <1> HIDE DEF m
  <1>8. q \in [1..m -> best]
    BY <1>7 DEF Injection
  <1> QED
    BY <1>2, <1>6, <1>8

----------------------------------------------------------------------------
(* What is answered, written and saved *)

\* Somebody asks for something, or the 1000 seconds of what was not profiled are too long
Bounded == load > 0 \/ PipelineSla < 1000000

\* A solution is made of what was profiled, and carries the load
Carries(x) ==
    \A s \in Stages : LET t == ModelSwitch(Graph[s], setup.initial[s], x[s].variant) IN
        Bounded => /\ IsProfiled(Graph[s], t, x[s].batch)
                   /\ load <= x[s].replicas * ProfileOf(Graph[s], t, x[s].batch).throughput

IsASequence(c) == \E S : c \in Seq(S)

(* With one solution asked for there is one candidate, which the pipeline still has *)
AnswerInv ==
    /\ load \in Nat /\ IsASequence(configs)
    /\ phase # "idle" => AllHaveBase /\ params.base = BaseAllocations
    /\ phase = "solve" => configs = <<>>
    /\ phase = "write" =>
          /\ \A i \in DOMAIN answers : Carries(answers[i])
          /\ setup.limit = 1 => /\ DOMAIN answers = {1}
                                /\ \/ next = 1 /\ configs = <<>>
                                   \/ next = 2 /\ configs = <<tasks>>
    /\ Bounded => SustainsLoad
    /\ NumbersOfConfig

----------------------------------------------------------------------------
LEMMA MeasuredProfile ==
    ASSUME NEW task, Measured(task), Rectangular(task), HasBaseAllocations(task), NEW t,
           DOMAIN t = Knobs, NEW v \in ToSet(task.variants), NEW b,
           IsProfiled(task, ModelSwitch(task, t, v), b)
    PROVE  ProfileOf(task, ModelSwitch(task, t, v), b) \in [latency : Nat, throughput : Nat]
  <1> DEFINE u == ModelSwitch(task, t, v)
             k == CHOOSE i \in DOMAIN task.cpus : task.cpus[i] = u.cpu
             j == CHOOSE i \in DOMAIN task.batches[v] : task.batches[v][i] = b
  <1>1. u.variant = v /\ u.cpu = BaseAllocation(task, v)
    BY DEF ModelSwitch, Knobs
  <1> HIDE DEF u
  <1>2. k \in DOMAIN task.cpus
    <2>1. task.variants # <<>>
      BY DEF Rectangular
    <2> QED
      BY <1>1, <2>1, BaseAllocationType
  <1>3. j \in DOMAIN task.batches[v]
    BY <1>1 DEF IsProfiled, ToSet, u
  <1>4. ProfileOf(task, u, b) = task.profiles[v][k][j]
    BY <1>1 DEF ProfileOf
  <1> HIDE DEF k, j
  <1>5. task.profiles[v][k][j] \in [latency : Nat, throughput : Nat]
    BY <1>2, <1>3 DEF Measured
  <1> QED
    BY <1>4, <1>5 DEF u

\* What the coefficients say of a stage
LEMMA ParametersAre ==
    ASSUME NEW ts, NEW s \in Stages, NEW v \in VariantsOf(s), NEW b \in DistinctBatches
    PROVE  Parameters(ts)[s][v][b] = IF IsProfiled(Graph[s], ModelSwitch(Graph[s], ts[s], v), b)
                                     THEN ProfileOf(Graph[s], ModelSwitch(Graph[s], ts[s], v), b)
                                     ELSE [latency |-> 1000000, throughput |-> 0]
  BY DEF Parameters

LEMMA SlaType ==
    ASSUME SetupInv, AllHaveBase
    PROVE  PipelineSla \in Int
  <1>1. ASSUME NEW s \in Stages PROVE Sla(Graph[s]) \in Int
    <2> DEFINE task == Graph[s]
               n == Len(task.cpus)
               f == [v \in ToSet(task.variants) |-> task.profiles[v][n][1].latency]
    <2>1. Measured(task) /\ Rectangular(task) /\ task.variants # <<>>
      BY GraphMeasured
    <2>2. n \in DOMAIN task.cpus
      BY <2>1 DEF Measured, Rectangular
    <2>3. ASSUME NEW v \in ToSet(task.variants)
          PROVE  task.profiles[v][n][1].latency \in Int
      <3>1. 1 \in DOMAIN task.batches[v]
        <4>1. task.batches[v] \in Seq(Nat) /\ task.batches[v] # <<>>
          BY <2>1 DEF Measured, Rectangular
        <4> QED
          BY <4>1
      <3>2. task.profiles[v][n][1] \in [latency : Nat, throughput : Nat]
        BY <2>1, <2>2, <3>1 DEF Measured
      <3> QED
        BY <3>2
    <2>4. IsFiniteSet(DOMAIN f) /\ \A v \in DOMAIN f : f[v] \in Int
      BY <2>1, <2>3, VariantsFinite
    <2> HIDE DEF f
    <2>5. SumFunction(f) \in Int
      BY <2>4, SumBounds
    <2>6. Len(task.variants) \in Nat /\ Len(task.variants) > 0
      BY <2>1 DEF Measured
    <2>7. SlaFactor \in Nat
      BY OptimizerAssumption
    <2>8. Sla(task) = (5 * SlaFactor * SumFunction(f)) \div Len(task.variants)
      BY DEF Sla, f
    <2> HIDE DEF task
    <2>9. Sla(task) \in Int
      BY <2>5, <2>6, <2>7, <2>8
    <2> QED
      BY <2>9 DEF task
  <1> DEFINE f == [s \in Stages |-> Sla(Graph[s])]
  <1>2. IsFiniteSet(DOMAIN f) /\ \A s \in DOMAIN f : f[s] \in Int
    BY <1>1, GraphMeasured
  <1> HIDE DEF f
  <1>3. SumFunction(f) \in Int
    BY <1>2, SumBounds
  <1> QED
    BY <1>3 DEF PipelineSla, f

\* Nobody may be as slow as what was not profiled, when nothing is queued
LEMMA LatencyBounded ==
    ASSUME SetupInv, AllHaveBase, load = 0, PipelineSla < 1000000,
           params.profile = Parameters(setup.initial), NEW x \in Solutions, NEW s \in Stages
    PROVE  IsProfiled(Graph[s], ModelSwitch(Graph[s], setup.initial[s], x[s].variant), x[s].batch)
  <1> DEFINE f == [r \in Stages |-> Latency(r, x[r])]
             switched(r) == ModelSwitch(Graph[r], setup.initial[r], x[r].variant)
  <1>1. ASSUME NEW r \in Stages
        PROVE  /\ Latency(r, x[r]) \in Nat
               /\ ~IsProfiled(Graph[r], switched(r), x[r].batch) => Latency(r, x[r]) >= 1000000
    <2> DEFINE q == [b \in DistinctBatches |-> FuncQ(IF b = x[r].batch THEN 1 ELSE 0)]
               p == params.profile[r][x[r].variant][x[r].batch]
    <2>1. SumFunction(q) \in Nat
      <3>1. \A b \in DistinctBatches : q[b] = 0
        BY DEF FuncQ
      <3>2. IsFiniteSet(DOMAIN q) /\ \A b \in DOMAIN q : q[b] \in Int /\ q[b] >= 0
        BY <3>1, BatchesFinite
      <3> HIDE DEF q
      <3>3. SumFunction(q) \in Int /\ SumFunction(q) >= 0
        BY <3>2, SumBounds
      <3> QED
        BY <3>3
    <2>2. Len(Graph[r].variants) \in Nat
      BY GraphMeasured
    <2>3. x[r].variant \in VariantsOf(r) /\ x[r].batch \in DistinctBatches
      BY SolutionChooses
    <2>4. p = IF IsProfiled(Graph[r], switched(r), x[r].batch)
              THEN ProfileOf(Graph[r], switched(r), x[r].batch)
              ELSE [latency |-> 1000000, throughput |-> 0]
      BY <2>3, ParametersAre
    <2>5. IsProfiled(Graph[r], switched(r), x[r].batch) => p.latency \in Nat
      <3>1. SUFFICES ASSUME IsProfiled(Graph[r], switched(r), x[r].batch)
                     PROVE  p.latency \in Nat
        OBVIOUS
      <3>2. ProfileOf(Graph[r], switched(r), x[r].batch) \in [latency : Nat, throughput : Nat]
        BY <2>3, <3>1, MeasuredProfile, GraphMeasured DEF AllHaveBase, VariantsOf
      <3> HIDE DEF p, switched
      <3>3. p \in [latency : Nat, throughput : Nat]
        BY <2>4, <3>1, <3>2
      <3> QED
        BY <3>3
    <2>6. ~IsProfiled(Graph[r], switched(r), x[r].batch) => p.latency = 1000000
      BY <2>4
    <2>7. Latency(r, x[r]) = p.latency * 1 + Len(Graph[r].variants) * SumFunction(q)
      BY DEF Latency, Queueing, Scale
    <2> HIDE DEF p, q, switched
    <2>8. Len(Graph[r].variants) * SumFunction(q) \in Nat
      BY <2>1, <2>2
    <2> QED
      BY <2>5, <2>6, <2>7, <2>8
  <1>2. SumFunction(f) <= PipelineSla
    <2>1. SumFunction(f) <= PipelineSla * 1
      BY DEF Solutions, Scale
    <2> QED
      BY <2>1, SlaType
  <1>3. IsFiniteSet(DOMAIN f) /\ \A r \in DOMAIN f : f[r] \in Int /\ f[r] >= 0
    BY <1>1, GraphMeasured
  <1>4. f[s] = Latency(s, x[s]) /\ s \in DOMAIN f
    OBVIOUS
  <1> HIDE DEF f, switched
  <1>5. SumFunction(f) \in Int /\ f[s] <= SumFunction(f)
    BY <1>3, <1>4, SumBounds
  <1>6. Latency(s, x[s]) < 1000000
    BY <1>1, <1>2, <1>4, <1>5, SlaType
  <1>7. IsProfiled(Graph[s], switched(s), x[s].batch)
    BY <1>1, <1>6
  <1> QED
    BY <1>7 DEF switched

LEMMA SolutionCarries ==
    ASSUME SetupInv, AllHaveBase, load \in Nat,
           params.profile = Parameters(setup.initial), NEW x \in Solutions
    PROVE  Carries(x)
  <1> SUFFICES ASSUME NEW s \in Stages, Bounded
               PROVE  LET t == ModelSwitch(Graph[s], setup.initial[s], x[s].variant) IN
                      /\ IsProfiled(Graph[s], t, x[s].batch)
                      /\ load <= x[s].replicas * ProfileOf(Graph[s], t, x[s].batch).throughput
    BY DEF Carries
  <1> DEFINE t == ModelSwitch(Graph[s], setup.initial[s], x[s].variant)
             p == params.profile[s][x[s].variant][x[s].batch]
  <1>1. /\ x[s].variant \in VariantsOf(s) /\ x[s].batch \in DistinctBatches
        /\ x[s].replicas \in 1..ScalingCap /\ p.throughput * x[s].replicas >= load
    BY SolutionChooses
  <1>2. p = IF IsProfiled(Graph[s], t, x[s].batch) THEN ProfileOf(Graph[s], t, x[s].batch)
            ELSE [latency |-> 1000000, throughput |-> 0]
    BY <1>1, ParametersAre
  <1>3. x[s].replicas \in Nat
    BY <1>1, OptimizerAssumption
  <1>4. IsProfiled(Graph[s], t, x[s].batch)
    <2>1. CASE load = 0
      BY <2>1, LatencyBounded DEF Bounded
    <2>2. CASE load > 0
      <3>1. SUFFICES ASSUME ~IsProfiled(Graph[s], t, x[s].batch) PROVE FALSE
        OBVIOUS
      <3>2. p.throughput = 0
        BY <1>2, <3>1
      <3> HIDE DEF p
      <3> QED
        BY <1>1, <1>3, <2>2, <3>2
    <2> QED
      BY <2>1, <2>2
  <1>5. ProfileOf(Graph[s], t, x[s].batch) \in [latency : Nat, throughput : Nat]
    BY <1>1, <1>4, MeasuredProfile, GraphMeasured DEF AllHaveBase, VariantsOf
  <1>6. p \in [latency : Nat, throughput : Nat] /\ p = ProfileOf(Graph[s], t, x[s].batch)
    BY <1>2, <1>4, <1>5
  <1> HIDE DEF p, t
  <1>7. p.throughput \in Nat
    BY <1>6
  <1>8. load <= x[s].replicas * p.throughput
    BY <1>1, <1>3, <1>7
  <1>9. load <= x[s].replicas * ProfileOf(Graph[s], t, x[s].batch).throughput
    BY <1>6, <1>8
  <1> QED
    BY <1>4, <1>9 DEF t

\* What was written is what was solved, with the variant's cpus
LEMMA WrittenCarries ==
    ASSUME SetupInv, Shaped(tasks), NEW x, Carries(x), NEW s \in Stages, Bounded
    PROVE  LET w == Write(tasks, x)[s] IN
           /\ IsProfiled(Graph[s], w, w.batch)
           /\ load <= w.replicas * ProfileOf(Graph[s], w, w.batch).throughput
  <1> DEFINE w == Write(tasks, x)[s]
             t == ModelSwitch(Graph[s], setup.initial[s], x[s].variant)
  <1>1. /\ w.variant = x[s].variant /\ w.batch = x[s].batch /\ w.replicas = x[s].replicas
        /\ w.cpu = BaseAllocation(Graph[s], x[s].variant)
    BY DEF Write, ModelSwitch, Shaped, Knobs
  <1>2. t.variant = w.variant /\ t.cpu = w.cpu
    BY <1>1, GraphMeasured DEF ModelSwitch, Knobs
  <1>3. /\ IsProfiled(Graph[s], t, x[s].batch)
        /\ load <= x[s].replicas * ProfileOf(Graph[s], t, x[s].batch).throughput
    BY DEF Carries
  <1> HIDE DEF w, t
  <1>4. ProfileOf(Graph[s], t, x[s].batch) = ProfileOf(Graph[s], w, w.batch)
    BY <1>1, <1>2, Zenon DEF ProfileOf
  <1>5. IsProfiled(Graph[s], w, w.batch)
    BY <1>1, <1>2, <1>3 DEF IsProfiled
  <1>6. load <= w.replicas * ProfileOf(Graph[s], w, w.batch).throughput
    BY <1>1, <1>3, <1>4
  <1> QED
    BY <1>5, <1>6 DEF w

----------------------------------------------------------------------------
LEMMA AnswerInit == Init => AnswerInv
  <1> SUFFICES ASSUME Init PROVE AnswerInv
    OBVIOUS
  <1>1. IsASequence(<<>>)
    BY DEF IsASequence
  <1> QED
    BY <1>1 DEF Init, AnswerInv, SustainsLoad, NumbersOfConfig, None

LEMMA SameSustains ==
    ASSUME UNCHANGED <<setup, load, configs>>, Bounded => SustainsLoad
    PROVE  (Bounded => SustainsLoad)'
  BY DEF SustainsLoad, Bounded, PipelineSla, Stages, Graph

LEMMA SameNumbers ==
    ASSUME UNCHANGED <<setup, report>>, NumbersOfConfig, phase' = "idle" => phase = "idle"
    PROVE  NumbersOfConfig'
  BY DEF NumbersOfConfig, Stages, Graph

LEMMA SameBase ==
    ASSUME setup' = setup
    PROVE  AllHaveBase' = AllHaveBase /\ BaseAllocations' = BaseAllocations
  BY DEF AllHaveBase, BaseAllocations, VariantsOf, Stages, Graph

\* Of one candidate the first one is chosen
LEMMA ChooseOnly ==
    ASSUME SetupInv, NEW c
    PROVE  ChooseConfig(<<c>>) = c
  <1>1. CASE old = None
    BY <1>1 DEF ChooseConfig
  <1>2. CASE old # None
    <2> DEFINE new == <<c>>
               V == {s \in Stages : c[s].variant # old.config[s].variant}
               B == {s \in Stages : ~old.text \/ c[s].batch # old.config[s].batch}
    <2>1. Cardinality(V) \in Nat /\ Cardinality(B) \in Nat
      BY GraphMeasured, FS_Subset, FS_CardinalityType
    <2>2. Score(c) = - Cardinality(V) - Cardinality(B)
      BY DEF Score
    <2> HIDE DEF V, B
    <2>3. Score(c) <= Score(c)
      BY <2>1, <2>2
    <2>4. DOMAIN new = {1} /\ new[1] = c
      OBVIOUS
    <2>5. {i \in DOMAIN new : \A j \in DOMAIN new : Score(new[j]) <= Score(new[i])} = {1}
      BY <2>3, <2>4
    <2>6. Min({1}) = 1
      BY DEF Min
    <2>7. ChooseConfig(new) = new[Min({1})]
      BY <1>2, <2>5 DEF ChooseConfig
    <2> QED
      BY <2>4, <2>6, <2>7
  <1> QED
    BY <1>1, <1>2

LEMMA AppendSequence ==
    ASSUME NEW c, IsASequence(c), NEW x
    PROVE  /\ IsASequence(Append(c, x))
           /\ \A i \in DOMAIN Append(c, x) :
                 \/ i \in DOMAIN c /\ Append(c, x)[i] = c[i]
                 \/ Append(c, x)[i] = x
  <1>1. PICK S : c \in Seq(S)
    BY DEF IsASequence
  <1>2. c \in Seq(S \cup {x})
    BY <1>1
  <1>3. Append(c, x) \in Seq(S \cup {x})
    BY <1>2
  <1> QED
    BY <1>2, <1>3 DEF IsASequence

LEMMA AnswerStep == StepInv /\ AnswerInv /\ [Next]_vars => AnswerInv'
  <1> SUFFICES ASSUME StepInv, AnswerInv, [Next]_vars
               PROVE  AnswerInv'
    OBVIOUS
  <1>1. SetupInv /\ Shaped(tasks)
    BY DEF StepInv, SetupInv
  <1>2. ASSUME NEW rate \in Loads, Start(rate)
        PROVE  AnswerInv'
    <2>1. load' \in Nat /\ configs' = <<>> /\ phase' = "solve" /\ UNCHANGED setup
      BY <1>2, OptimizerAssumption DEF Start
    <2>2. IsASequence(configs')
      BY <2>1 DEF IsASequence
    <2>3. AllHaveBase' /\ params'.base = BaseAllocations'
      BY <1>2, <2>1, SameBase DEF Start
    <2>4. SustainsLoad' /\ NumbersOfConfig'
      BY <2>1 DEF SustainsLoad, NumbersOfConfig
    <2> QED
      BY <2>1, <2>2, <2>3, <2>4 DEF AnswerInv
  <1>3. CASE Solve
    <2>1. /\ phase = "solve" /\ Solutions # {} /\ answers' \in Answers(Solutions)
          /\ phase' = "write" /\ next' = 1
          /\ UNCHANGED <<setup, load, params, configs, report>>
      BY <1>3 DEF Solve
    <2>2. /\ AllHaveBase /\ params.base = BaseAllocations /\ load \in Nat /\ configs = <<>>
          /\ params.profile = Parameters(setup.initial)
      BY <2>1 DEF AnswerInv, StepInv
    <2>3. /\ \E m \in Nat : m >= 1 /\ m <= setup.limit /\ DOMAIN answers' = 1..m
          /\ \A i \in DOMAIN answers' : answers'[i] \in Solutions
      BY <1>1, <2>1, <2>2, AnswersAre
    <2>4. \A i \in DOMAIN answers' : Carries(answers'[i])
      BY <1>1, <2>2, <2>3, SolutionCarries
    <2>5. \A i \in DOMAIN answers' : (Carries(answers[i]))'
      BY <2>1, <2>4 DEF Carries, Bounded, PipelineSla, Stages, Graph
    <2>6. setup.limit = 1 => DOMAIN answers' = {1}
      <3>1. PICK m \in Nat : m >= 1 /\ m <= setup.limit /\ DOMAIN answers' = 1..m
        BY <2>3
      <3>2. setup.limit = 1 => m = 1
        BY <3>1
      <3>3. 1..1 = {1}
        OBVIOUS
      <3> QED
        BY <3>1, <3>2, <3>3
    <2>7. (Bounded => SustainsLoad)'
      BY <2>1, SameSustains DEF AnswerInv
    <2>8. NumbersOfConfig'
      BY <2>1 DEF NumbersOfConfig
    <2>9. AllHaveBase' /\ params'.base = BaseAllocations'
      BY <2>1, <2>2, SameBase
    <2> QED
      BY <2>1, <2>2, <2>5, <2>6, <2>7, <2>8, <2>9 DEF AnswerInv
  <1>4. CASE NoSolution
    <2>1. phase' = "idle" /\ report' = None /\ UNCHANGED <<setup, load, configs>>
      BY <1>4 DEF NoSolution
    <2>2. (Bounded => SustainsLoad)'
      BY <2>1, SameSustains DEF AnswerInv
    <2>3. NumbersOfConfig'
      BY <2>1 DEF NumbersOfConfig, None
    <2> QED
      BY <2>1, <2>2, <2>3 DEF AnswerInv
  <1>5. CASE WriteAnswer
    <2>1. /\ phase = "write" /\ next \in DOMAIN answers /\ next' = next + 1
          /\ tasks' = Write(tasks, answers[next]) /\ configs' = Append(configs, tasks')
          /\ UNCHANGED <<setup, load, phase, params, answers, report>>
      BY <1>5 DEF WriteAnswer
    <2>2. Carries(answers[next])
      BY <2>1 DEF AnswerInv
    <2>3. IsASequence(configs')
      BY <2>1, AppendSequence DEF AnswerInv
    <2>4. (Bounded => SustainsLoad)'
      <3>1. SUFFICES ASSUME Bounded, NEW i \in DOMAIN configs', NEW s \in Stages
                     PROVE  LET t == configs'[i][s] IN
                            /\ IsProfiled(Graph[s], t, t.batch)
                            /\ load <= t.replicas * ProfileOf(Graph[s], t, t.batch).throughput
        BY <2>1 DEF SustainsLoad, Bounded, PipelineSla, Stages, Graph
      <3>2. \/ i \in DOMAIN configs /\ configs'[i] = configs[i]
            \/ configs'[i] = tasks'
        BY <2>1, AppendSequence DEF AnswerInv
      <3>3. CASE i \in DOMAIN configs /\ configs'[i] = configs[i]
        BY <3>1, <3>3 DEF AnswerInv, SustainsLoad
      <3>4. CASE configs'[i] = tasks'
        BY <1>1, <2>1, <2>2, <3>1, <3>4, WrittenCarries
      <3> QED
        BY <3>2, <3>3, <3>4
    <2>5. setup.limit = 1 => DOMAIN answers' = {1} /\ next' = 2 /\ configs' = <<tasks'>>
      <3>1. SUFFICES ASSUME setup.limit = 1
                     PROVE  DOMAIN answers' = {1} /\ next' = 2 /\ configs' = <<tasks'>>
        OBVIOUS
      <3>2. DOMAIN answers = {1} /\ next = 1 /\ configs = <<>>
        BY <2>1, <3>1 DEF AnswerInv
      <3> QED
        BY <2>1, <3>2
    <2>6. \A i \in DOMAIN answers' : (Carries(answers[i]))'
      BY <2>1 DEF AnswerInv, Carries, Bounded, PipelineSla, Stages, Graph
    <2>7. NumbersOfConfig'
      BY <2>1 DEF NumbersOfConfig
    <2>8. AllHaveBase' /\ params'.base = BaseAllocations' /\ load' \in Nat
      BY <2>1, SameBase DEF AnswerInv
    <2> QED
      BY <2>1, <2>3, <2>4, <2>5, <2>6, <2>7, <2>8 DEF AnswerInv
  <1>6. CASE Choose
    <2>1. /\ phase = "write" /\ next \notin DOMAIN answers /\ phase' = "idle"
          /\ report' = Saved(ChooseConfig(configs), tasks)
          /\ UNCHANGED <<setup, load, configs>>
      BY <1>6 DEF Choose
    <2>2. (Bounded => SustainsLoad)'
      BY <2>1, SameSustains DEF AnswerInv
    <2>3. NumbersOfConfig'
      <3>1. SUFFICES ASSUME setup.limit = 1, NEW s \in Stages
                     PROVE  LET t == report'.config[s] IN
                            report'.numbers[s] = ProfileOf(Graph[s], t, t.batch)
        BY <2>1 DEF NumbersOfConfig, Stages, Graph
      <3>2. configs = <<tasks>>
        BY <2>1, <3>1 DEF AnswerInv
      <3>3. ChooseConfig(configs) = tasks
        BY <1>1, <3>2, ChooseOnly
      <3> QED
        BY <2>1, <3>3 DEF Saved
    <2> QED
      BY <2>1, <2>2, <2>3 DEF AnswerInv
  <1>7. CASE UNCHANGED vars
    <2>1. UNCHANGED <<setup, tasks, load, phase, params, answers, next, configs, report>>
      BY <1>7 DEF vars
    <2>2. (Bounded => SustainsLoad)'
      BY <2>1, SameSustains DEF AnswerInv
    <2>3. NumbersOfConfig'
      BY <2>1, SameNumbers DEF AnswerInv
    <2>4. \A i \in DOMAIN answers' : (Carries(answers[i]))' <=> Carries(answers[i])
      BY <2>1 DEF Carries, Bounded, PipelineSla, Stages, Graph
    <2>5. AllHaveBase' = AllHaveBase /\ BaseAllocations' = BaseAllocations
      BY <2>1, SameBase
    <2> QED
      BY <2>1, <2>2, <2>3, <2>4, <2>5 DEF AnswerInv
  <1> QED
    BY <1>2, <1>3, <1>4, <1>5, <1>6, <1>7 DEF Next

\* Every candidate was profiled and carries the load, if there is one or no pipeline is
\* allowed as long as what was not profiled is taken to last, for every set of profiles,
\* weights and caps
THEOREM AnswersSustainLoad == Spec => [](load > 0 \/ PipelineSla < 1000000 => SustainsLoad)
  <1>1. AnswerInv => (load > 0 \/ PipelineSla < 1000000 => SustainsLoad)
    BY DEF AnswerInv, Bounded
  <1> QED
    BY <1>1, StepInit, StepStep, AnswerInit, AnswerStep, PTL DEF Spec

\* With one solution asked for, what is saved are the numbers of the configuration chosen
THEOREM NumbersBelong == Spec => []NumbersOfConfig
  <1>1. AnswerInv => NumbersOfConfig
    BY DEF AnswerInv
  <1> QED
    BY <1>1, StepInit, StepStep, AnswerInit, AnswerStep, PTL DEF Spec

\* The walk finds the base allocations for every list of variants and allocations
THEOREM BaseAllocationsFound == Spec => []BaseAllocationRule
  <1>1. StepInv => BaseAllocationRule
    <2> SUFFICES ASSUME StepInv, NEW s \in Stages, NEW i \in DOMAIN Indicators(Graph[s])
                 PROVE  LET task == Graph[s]
                            ind == Indicators(task)
                            S(k) == NumSustains(task, task.variants[i], k)
                            from == IF i = 1 THEN 1 ELSE ind[i - 1]
                        IN  IF from = NoAllocation \/ \A k \in from..Len(task.cpus) : S(k) = 0
                            THEN ind[i] = NoAllocation
                            ELSE /\ S(ind[i]) # 0 /\ ind[i] >= from
                                 /\ \A k \in from..ind[i] - 1 :
                                       S(k) = 0 \/ (i # 1 /\ k = from /\ ind[i] = from + 1 /\ S(ind[i]) > S(k))
      BY DEF BaseAllocationRule
    <2>1. Measured(Graph[s]) /\ Graph[s].variants # <<>>
      BY GraphMeasured DEF StepInv, SetupInv
    <2>2. i \in DOMAIN Graph[s].variants
      BY <2>1, IndicatorsAre DEF IndicatorsRec
    <2> QED
      BY <2>1, <2>2, IndicatorRule
  <1> QED
    BY <1>1, StepInit, StepStep, PTL DEF Spec
=============================================================================
