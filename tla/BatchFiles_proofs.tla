--------------------------- MODULE BatchFiles_proofs ---------------------------
(* Theorems about BatchFiles for all files, batch sizes, numbers of consumers  *)
(* and retries, and all combinations of faults.                                *)
(*                                                                             *)
(* A line is in one place only: in a batch that waits, in one that a consumer  *)
(* works on, among the items that wait, or in the output (Separate); and what  *)
(* has to be reported is somewhere until it is written (Covered).  With what   *)
(* is known of the items of a batch (Outcome) this is inductive.  What an      *)
(* answer holds comes from the lemmas about merging and splitting: the rows of *)
(* a request are where the running total of the sizes before it says.          *)
EXTENDS BatchFiles, FiniteSetTheorems, SequenceTheorems, WellFoundedInduction, TLAPS

\* A set of natural numbers that is not empty has a least one
LEMMA LeastNumber ==
    ASSUME NEW T, T \subseteq Nat, T # {}
    PROVE  \E m \in T : \A k \in T : m <= k
  <1> DEFINE Less == {ss \in Nat \X Nat : ss[1] < ss[2]}
  <1>1. IsWellFoundedOn(Less, Nat)
    BY NatLessThanWellFounded, Zenon DEF OpToRel
  <1> HIDE DEF Less
  <1>2. PICK m \in T : \A k \in T : ~(<<k, m>> \in Less)
    BY <1>1, WFMin
  <1>3. ASSUME NEW k \in T PROVE m <= k
    <2>1. k \in Nat /\ m \in Nat
      OBVIOUS
    <2>2. ~(k < m)
      BY <1>2, <2>1 DEF Less
    <2> QED
      BY <2>1, <2>2
  <1> QED
    BY <1>3

----------------------------------------------------------------------------
(* At: the recursive function it is made of *)

\* f is the function upTo of At, up to m
AtRec(s, places, m, f) ==
    f = [n \in 0..m |-> IF n = 0 THEN <<>>
                        ELSE IF n \in places THEN Append(f[n - 1], s[n])
                        ELSE f[n - 1]]

\* There is such a function
LEMMA AtRecExists ==
    ASSUME NEW s, NEW places, NEW n \in Nat
    PROVE  \E f : AtRec(s, places, n, f)
  <1> DEFINE F == {m \in Nat : ~\E f : AtRec(s, places, m, f)}
  <1>1. SUFFICES ASSUME F # {} PROVE FALSE
    OBVIOUS
  <1>2. PICK m \in F : \A k \in F : m <= k
    <2>1. F \subseteq Nat
      OBVIOUS
    <2> HIDE DEF F
    <2> QED
      BY <1>1, <2>1, LeastNumber
  <1>3. CASE m = 0
    <2> DEFINE f == [k \in 0..0 |-> <<>>]
    <2>1. f = [k \in 0..0 |-> IF k = 0 THEN <<>>
                        ELSE IF k \in places THEN Append(f[k - 1], s[k])
                        ELSE f[k - 1]]
      OBVIOUS
    <2>2. AtRec(s, places, m, f)
      BY <1>3, <2>1 DEF AtRec
    <2> QED
      BY <1>2, <2>2
  <1>4. CASE m # 0
    <2>1. m \in Nat /\ m - 1 \in Nat /\ ~(m <= m - 1)
      BY <1>4
    <2>2. PICK g : AtRec(s, places, m - 1, g)
      BY <1>2, <2>1
    <2> DEFINE f == [k \in 0..m |-> IF k = m THEN IF m \in places THEN Append(g[m - 1], s[m]) ELSE g[m - 1]
                                    ELSE g[k]]
    <2>3. ASSUME NEW k \in 0..m
          PROVE  f[k] = IF k = 0 THEN <<>>
                        ELSE IF k \in places THEN Append(f[k - 1], s[k])
                        ELSE f[k - 1]
      <3>1. CASE k = m
        <4>1. m - 1 \in 0..m /\ m - 1 # m /\ m # 0
          BY <2>1, <1>4
        <4> QED
          BY <3>1, <4>1
      <3>2. CASE k # m
        <4>1. k \in 0..(m - 1) /\ (k # 0 => k - 1 \in 0..m /\ k - 1 # m)
          BY <2>1, <3>2
        <4>2. f[k] = g[k] /\ (k # 0 => f[k - 1] = g[k - 1])
          BY <3>2, <4>1
        <4>3. g[k] = IF k = 0 THEN <<>>
                     ELSE IF k \in places THEN Append(g[k - 1], s[k])
                     ELSE g[k - 1]
          BY <2>2, <4>1 DEF AtRec
        <4> HIDE DEF f
        <4> QED
          BY <4>2, <4>3
      <3> QED
        BY <3>1, <3>2
    <2>4. f = [k \in 0..m |-> f[k]]
      OBVIOUS
    <2> HIDE DEF f
    <2>5. AtRec(s, places, m, f)
      BY <2>3, <2>4 DEF AtRec
    <2> QED
      BY <1>2, <2>5
  <1> QED
    BY <1>3, <1>4

\* What At is, element by element
LEMMA AtIs ==
    ASSUME NEW T, NEW s \in Seq(T), NEW places
    PROVE  \E f : /\ At(s, places) = f[Len(s)]
                  /\ f[0] = <<>>
                  /\ \A n \in 1..Len(s) :
                        f[n] = IF n \in places THEN Append(f[n - 1], s[n]) ELSE f[n - 1]
  <1> DEFINE f == CHOOSE g : AtRec(s, places, Len(s), g)
  <1>1. Len(s) \in Nat
    OBVIOUS
  <1>2. AtRec(s, places, Len(s), f)
    BY <1>1, AtRecExists
  <1>3. At(s, places) = f[Len(s)]
    BY DEF At, AtRec
  <1> HIDE DEF f
  <1>4. \A n \in 0..Len(s) : f[n] = IF n = 0 THEN <<>>
                        ELSE IF n \in places THEN Append(f[n - 1], s[n])
                        ELSE f[n - 1]
    BY <1>2 DEF AtRec
  <1>5. f[0] = <<>>
    BY <1>1, <1>4
  <1>6. \A n \in 1..Len(s) : f[n] = IF n \in places THEN Append(f[n - 1], s[n]) ELSE f[n - 1]
    BY <1>1, <1>4
  <1> QED
    BY <1>3, <1>5, <1>6

\* order says which elements of s are those of t
InOrder(t, s, places, order) ==
    /\ order \in [1..Len(t) -> places]
    /\ \A k \in 1..Len(t) : t[k] = s[order[k]]
    /\ \A j, k \in 1..Len(t) : j < k => order[j] < order[k]
    /\ \A i \in places : \E k \in 1..Len(t) : order[k] = i

\* One more element is put at the end of those in order
LEMMA InOrderAppend ==
    ASSUME NEW T, NEW s \in Seq(T), NEW P, NEW n \in 1..Len(s), P \subseteq 1..(n - 1),
           NEW t \in Seq(T), NEW order, InOrder(t, s, P, order)
    PROVE  \E o : InOrder(Append(t, s[n]), s, P \cup {n}, o)
  <1> DEFINE L == Len(t)
             o == [k \in 1..(L + 1) |-> IF k = L + 1 THEN n ELSE order[k]]
             u == Append(t, s[n])
  <1>1. L \in Nat /\ Len(u) = L + 1 /\ u[L + 1] = s[n] /\ \A k \in 1..L : u[k] = t[k]
    OBVIOUS
  <1>2. /\ order \in [1..L -> P]
        /\ \A k \in 1..L : t[k] = s[order[k]]
        /\ \A j, k \in 1..L : j < k => order[j] < order[k]
        /\ \A i \in P : \E k \in 1..L : order[k] = i
    BY DEF InOrder
  <1> HIDE DEF L, u
  <1>3. o \in [1..(L + 1) -> P \cup {n}]
    BY <1>1, <1>2
  <1>4. \A k \in 1..(L + 1) : u[k] = s[o[k]]
    BY <1>1, <1>2
  <1>5. ASSUME NEW j \in 1..(L + 1), NEW k \in 1..(L + 1), j < k
        PROVE  o[j] < o[k]
    <2>1. j \in 1..L
      BY <1>1, <1>5
    <2>2. o[j] = order[j] /\ order[j] \in P
      BY <1>1, <1>2, <2>1
    <2>3. CASE k = L + 1
      <3>1. order[j] \in 1..(n - 1) /\ n \in Nat
        <4>1. n \in Nat
          OBVIOUS
        <4>2. \A i \in P : i \in 1..(n - 1)
          OBVIOUS
        <4> QED
          BY <2>2, <4>1, <4>2
      <3>2. o[k] = n
        BY <2>3
      <3> QED
        BY <2>2, <3>1, <3>2
    <2>4. CASE k # L + 1
      BY <1>1, <1>2, <1>5, <2>1, <2>2, <2>4
    <2> QED
      BY <2>3, <2>4
  <1>6. ASSUME NEW i \in P \cup {n} PROVE \E k \in 1..(L + 1) : o[k] = i
    <2>1. CASE i = n
      BY <1>1, <2>1
    <2>2. CASE i \in P
      <3>1. PICK k \in 1..L : order[k] = i
        BY <1>2, <2>2
      <3>2. k \in 1..(L + 1) /\ k # L + 1
        BY <1>1
      <3> QED
        BY <3>1, <3>2
    <2> QED
      BY <2>1, <2>2
  <1> HIDE DEF o
  <1>7. InOrder(u, s, P \cup {n}, o)
    BY <1>1, <1>3, <1>4, <1>5, <1>6 DEF InOrder
  <1> QED
    BY <1>7 DEF u

\* At has the elements at the places, each once and in their order
LEMMA AtProperties ==
    ASSUME NEW T, NEW s \in Seq(T), NEW places, places \subseteq DOMAIN s
    PROVE  /\ At(s, places) \in Seq(T)
           /\ \E order : InOrder(At(s, places), s, places, order)
  <1>1. PICK f : /\ At(s, places) = f[Len(s)]
                 /\ f[0] = <<>>
                 /\ \A n \in 1..Len(s) :
                        f[n] = IF n \in places THEN Append(f[n - 1], s[n]) ELSE f[n - 1]
    BY AtIs
  <1> DEFINE Upto(n) == places \cap 1..n
             Good(n) == f[n] \in Seq(T) /\ \E order : InOrder(f[n], s, Upto(n), order)
             F == {n \in 0..Len(s) : ~Good(n)}
  <1>2. Len(s) \in Nat /\ DOMAIN s = 1..Len(s)
    OBVIOUS
  <1>3. F = {}
    <2>1. SUFFICES ASSUME F # {} PROVE FALSE
      OBVIOUS
    <2>2. PICK m \in F : \A k \in F : m <= k
      <3>1. F \subseteq Nat
        OBVIOUS
      <3> HIDE DEF F
      <3> QED
        BY <2>1, <3>1, LeastNumber
    <2>3. CASE m = 0
      <3>1. Upto(0) = {}
        OBVIOUS
      <3>2. InOrder(<<>>, s, {}, <<>>)
        BY DEF InOrder
      <3>3. f[0] \in Seq(T)
        BY <1>1
      <3>4. Good(0)
        BY <1>1, <3>1, <3>2, <3>3
      <3> QED
        BY <2>2, <2>3, <3>4
    <2>4. CASE m # 0
      <3>1. m \in 1..Len(s) /\ m - 1 \in 0..Len(s) /\ ~(m <= m - 1) /\ m \in Nat
        BY <2>4
      <3>2. Good(m - 1)
        BY <2>2, <3>1
      <3>3. PICK order : InOrder(f[m - 1], s, Upto(m - 1), order)
        BY <3>2
      <3>4. CASE m \in places
        <4>1. Upto(m) = Upto(m - 1) \cup {m} /\ Upto(m - 1) \subseteq 1..(m - 1)
          BY <3>1, <3>4
        <4>2. f[m] = Append(f[m - 1], s[m])
          BY <1>1, <3>1, <3>4
        <4>6. s[m] \in T
          BY <3>1
        <4>3. f[m] \in Seq(T)
          BY <3>2, <4>2, <4>6
        <4> HIDE DEF Upto
        <4>4. \E o : InOrder(Append(f[m - 1], s[m]), s, Upto(m - 1) \cup {m}, o)
          BY <3>1, <3>2, <3>3, <4>1, InOrderAppend
        <4>5. Good(m)
          BY <4>1, <4>2, <4>3, <4>4
        <4> QED
          BY <2>2, <4>5
      <3>5. CASE m \notin places
        <4>1. Upto(m) = Upto(m - 1)
          BY <3>1, <3>5
        <4>2. f[m] = f[m - 1]
          BY <1>1, <3>1, <3>5
        <4>3. Good(m)
          BY <3>2, <4>1, <4>2
        <4> QED
          BY <2>2, <4>3
      <3> QED
        BY <3>4, <3>5
    <2> QED
      BY <2>3, <2>4
  <1>4. Good(Len(s))
    <2>1. Len(s) \in 0..Len(s)
      BY <1>2
    <2> HIDE DEF Good
    <2> QED
      BY <1>3, <2>1
  <1>5. Upto(Len(s)) = places
    BY <1>2
  <1> QED
    BY <1>1, <1>4, <1>5

\* The elements are those at the places
LEMMA AtSet ==
    ASSUME NEW T, NEW s \in Seq(T), NEW places, places \subseteq DOMAIN s
    PROVE  /\ At(s, places) \in Seq(T)
           /\ ToSet(At(s, places)) = {s[i] : i \in places}
           /\ At(s, places) = <<>> <=> places = {}
  <1> DEFINE t == At(s, places)
  <1>1. t \in Seq(T) /\ \E order : InOrder(t, s, places, order)
    BY AtProperties
  <1>2. PICK order : InOrder(t, s, places, order)
    BY <1>1
  <1> HIDE DEF t
  <1>3. DOMAIN t = 1..Len(t)
    BY <1>1
  <1>4. ToSet(t) = {s[i] : i \in places}
    BY <1>2, <1>3 DEF InOrder, ToSet
  <1>5. t = <<>> <=> ToSet(t) = {}
    <2>1. t = <<>> <=> Len(t) = 0
      BY <1>1
    <2>2. Len(t) = 0 <=> DOMAIN t = {}
      BY <1>1
    <2> QED
      BY <2>1, <2>2 DEF ToSet
  <1>6. t = <<>> <=> places = {}
    BY <1>4, <1>5
  <1> QED
    BY <1>1, <1>4, <1>6 DEF t

\* The last one
LEMMA AtLast ==
    ASSUME NEW T, NEW s \in Seq(T), NEW places, places \subseteq DOMAIN s, places # {}
    PROVE  \E i \in places : Last(At(s, places)) = s[i] /\ \A j \in places : j <= i
  <1> DEFINE t == At(s, places)
  <1>1. t \in Seq(T) /\ \E order : InOrder(t, s, places, order)
    BY AtProperties
  <1>2. PICK order : InOrder(t, s, places, order)
    BY <1>1
  <1>3. t # <<>>
    BY AtSet
  <1> HIDE DEF t
  <1>4. Len(t) \in 1..Len(t)
    BY <1>1, <1>3
  <1>5. order[Len(t)] \in places /\ Last(t) = s[order[Len(t)]]
    BY <1>2, <1>4 DEF InOrder, Last
  <1>6. ASSUME NEW j \in places PROVE j <= order[Len(t)]
    <2>1. PICK k \in 1..Len(t) : order[k] = j
      BY <1>2 DEF InOrder
    <2>2. \A i \in places : i \in Nat
      OBVIOUS
    <2>3. CASE k = Len(t)
      BY <1>5, <2>1, <2>2, <2>3
    <2>4. CASE k # Len(t)
      <3>1. k < Len(t)
        BY <1>4, <2>4
      <3>2. order[k] < order[Len(t)]
        BY <1>2, <1>4, <3>1 DEF InOrder
      <3> QED
        BY <1>5, <2>1, <2>2, <3>2
    <2> QED
      BY <2>3, <2>4
  <1> QED
    BY <1>5, <1>6 DEF t

\* The first places
LEMMA AtPrefix ==
    ASSUME NEW T, NEW s \in Seq(T), NEW m \in 0..Len(s)
    PROVE  At(s, 1..m) = [k \in 1..m |-> s[k]]
  <1> DEFINE places == 1..m
  <1>1. PICK f : /\ At(s, places) = f[Len(s)]
                 /\ f[0] = <<>>
                 /\ \A n \in 1..Len(s) :
                        f[n] = IF n \in places THEN Append(f[n - 1], s[n]) ELSE f[n - 1]
    BY AtIs
  <1>2. Len(s) \in Nat /\ DOMAIN s = 1..Len(s)
    OBVIOUS
  <1> DEFINE upTo(n) == IF n <= m THEN n ELSE m
             Good(n) == f[n] = [k \in 1..upTo(n) |-> s[k]]
             F == {n \in 0..Len(s) : ~Good(n)}
  <1>3. SUFFICES ASSUME F # {} PROVE FALSE
    <2>1. Len(s) \in 0..Len(s)
      BY <1>2
    <2>2. CASE F = {}
      <3> HIDE DEF Good
      <3>1. Good(Len(s))
        BY <2>1, <2>2
      <3> USE DEF Good
      <3>2. upTo(Len(s)) = m
        OBVIOUS
      <3> HIDE DEF upTo
      <3> QED
        BY <1>1, <3>1, <3>2
    <2> QED
      BY <2>2
  <1>4. PICK n \in F : \A k \in F : n <= k
    <2>1. F \subseteq Nat
      OBVIOUS
    <2> HIDE DEF F
    <2> QED
      BY <1>3, <2>1, LeastNumber
  <1>5. CASE n = 0
    <2>1. upTo(0) = 0
      OBVIOUS
    <2>2. [k \in 1..0 |-> s[k]] = <<>>
      OBVIOUS
    <2> HIDE DEF upTo
    <2> QED
      BY <1>1, <1>4, <1>5, <2>1, <2>2
  <1>6. CASE n # 0
    <2>1. n \in 1..Len(s) /\ n - 1 \in 0..Len(s) /\ ~(n <= n - 1)
      BY <1>6
    <2>2. Good(n - 1)
      BY <1>4, <2>1
    <2>3. CASE n \in places
      <3>1. upTo(n - 1) = n - 1 /\ upTo(n) = n
        BY <2>1, <2>3
      <3>2. f[n - 1] = [k \in 1..(n - 1) |-> s[k]]
        BY <2>2, <3>1
      <3>3. f[n] = Append(f[n - 1], s[n])
        BY <1>1, <2>1, <2>3
      <3>4. Append([k \in 1..(n - 1) |-> s[k]], s[n]) = [k \in 1..n |-> s[k]]
        <4>1. n - 1 \in Nat
          BY <2>1
        <4> QED
          BY <4>1, SMTT(30)
      <3>5. Good(n)
        BY <3>1, <3>2, <3>3, <3>4
      <3> QED
        BY <1>4, <3>5
    <2>4. CASE n \notin places
      <3>1. upTo(n - 1) = m /\ upTo(n) = m
        BY <2>1, <2>4
      <3>2. f[n] = f[n - 1]
        BY <1>1, <2>1, <2>4
      <3>3. Good(n)
        BY <2>2, <3>1, <3>2
      <3> QED
        BY <1>4, <3>3
    <2> QED
      BY <2>3, <2>4
  <1> QED
    BY <1>5, <1>6

\* All places
LEMMA AtAll ==
    ASSUME NEW T, NEW s \in Seq(T)
    PROVE  At(s, DOMAIN s) = s
  <1>1. Len(s) \in 0..Len(s) /\ DOMAIN s = 1..Len(s)
    OBVIOUS
  <1>2. At(s, 1..Len(s)) = [k \in 1..Len(s) |-> s[k]]
    BY <1>1, AtPrefix
  <1> QED
    BY <1>1, <1>2

\* Every element is a key, once
LEMMA KeysAre ==
    ASSUME NEW T, NEW s \in Seq(T)
    PROVE  /\ Keys(s) \in Seq(T)
           /\ ToSet(Keys(s)) = ToSet(s)
           /\ \A j, k \in DOMAIN Keys(s) : Keys(s)[j] = Keys(s)[k] => j = k
  <1> DEFINE places == {i \in DOMAIN s : \A j \in 1..i - 1 : s[j] # s[i]}
             t == Keys(s)
  <1>1. t = At(s, places) /\ places \subseteq DOMAIN s
    BY DEF Keys
  <1>2. t \in Seq(T) /\ \E order : InOrder(t, s, places, order)
    BY <1>1, AtProperties
  <1>3. PICK order : InOrder(t, s, places, order)
    BY <1>2
  <1>4. ToSet(t) = {s[i] : i \in places}
    BY <1>1, AtSet
  <1>5. ASSUME NEW x \in ToSet(s) PROVE x \in ToSet(t)
    <2> DEFINE F == {i \in DOMAIN s : s[i] = x}
    <2>1. F \subseteq Nat /\ F # {}
      BY <1>5 DEF ToSet
    <2>2. PICK i \in F : \A j \in F : i <= j
      <3> HIDE DEF F
      <3> QED
        BY <2>1, LeastNumber
    <2>3. i \in places
      <3>1. ASSUME NEW j \in 1..i - 1 PROVE s[j] # s[i]
        <4>1. j \in DOMAIN s /\ ~(i <= j)
          BY <2>2
        <4> QED
          BY <2>2, <4>1
      <3> QED
        BY <2>2, <3>1
    <2> QED
      BY <1>4, <2>2, <2>3
  <1>6. ToSet(t) = ToSet(s)
    BY <1>4, <1>5 DEF ToSet
  <1> HIDE DEF t
  <1>7. DOMAIN t = 1..Len(t) /\ Len(t) \in Nat
    BY <1>2
  <1>8. ASSUME NEW j \in 1..Len(t), NEW k \in 1..Len(t), j < k
        PROVE  t[j] # t[k]
    <2>1. order[j] \in places /\ order[k] \in places /\ order[j] < order[k]
      BY <1>3, <1>8 DEF InOrder
    <2>2. order[j] \in 1..order[k] - 1
      BY <2>1
    <2>3. s[order[j]] # s[order[k]]
      BY <2>1, <2>2
    <2> QED
      BY <1>3, <2>3 DEF InOrder
  <1>9. ASSUME NEW j \in DOMAIN t, NEW k \in DOMAIN t, t[j] = t[k]
        PROVE  j = k
    <2>1. j < k \/ k < j \/ j = k
      BY <1>7
    <2> QED
      BY <1>7, <1>8, <1>9, <2>1
  <1> QED
    BY <1>2, <1>6, <1>9 DEF t

----------------------------------------------------------------------------
(* Running totals, the places where the parts of a whole begin *)

\* off[k] is what there is in the first k parts
Totals(off, sizes, n) ==
    /\ off \in [0..n -> Nat]
    /\ off[0] = 0
    /\ \A k \in 1..n : off[k] = off[k - 1] + sizes[k]

\* There are running totals of all sizes
LEMMA TotalsExist ==
    ASSUME NEW n \in Nat, NEW sizes \in [1..n -> Nat]
    PROVE  \E off : Totals(off, sizes, n)
  <1> DEFINE F == {m \in 0..n : ~\E off : Totals(off, sizes, m)}
  <1>1. SUFFICES ASSUME F # {} PROVE FALSE
    <2>1. n \in 0..n
      OBVIOUS
    <2> QED
      BY <2>1
  <1>2. PICK m \in F : \A k \in F : m <= k
    <2>1. F \subseteq Nat
      OBVIOUS
    <2> HIDE DEF F
    <2> QED
      BY <1>1, <2>1, LeastNumber
  <1>3. CASE m = 0
    <2> DEFINE z == [k \in 0..0 |-> 0]
    <2>1. Totals(z, sizes, 0)
      BY DEF Totals
    <2> QED
      BY <1>2, <1>3, <2>1
  <1>4. CASE m # 0
    <2>1. m \in 1..n /\ m - 1 \in 0..n /\ ~(m <= m - 1) /\ m \in Nat
      BY <1>4
    <2>2. PICK g : Totals(g, sizes, m - 1)
      BY <1>2, <2>1
    <2> DEFINE off == [k \in 0..m |-> IF k = m THEN g[m - 1] + sizes[m] ELSE g[k]]
    <2>3. /\ g \in [0..(m - 1) -> Nat] /\ g[0] = 0
          /\ \A k \in 1..(m - 1) : g[k] = g[k - 1] + sizes[k]
      BY <2>2 DEF Totals
    <2>4. off \in [0..m -> Nat]
      <3>1. g[m - 1] \in Nat /\ sizes[m] \in Nat
        BY <2>1, <2>3
      <3>2. \A k \in 0..m : k # m => k \in 0..(m - 1)
        BY <2>1
      <3> QED
        BY <2>3, <3>1, <3>2
    <2>5. off[0] = 0
      BY <2>1, <2>3
    <2>6. ASSUME NEW k \in 1..m PROVE off[k] = off[k - 1] + sizes[k]
      <3>1. CASE k = m
        <4>1. m - 1 \in 0..m /\ m - 1 # m
          BY <2>1
        <4> QED
          BY <3>1, <4>1
      <3>2. CASE k # m
        <4>1. k \in 1..(m - 1) /\ k \in 0..m /\ k - 1 \in 0..m /\ k - 1 # m
          BY <2>1, <3>2
        <4> QED
          BY <2>3, <3>2, <4>1
      <3> QED
        BY <3>1, <3>2
    <2> HIDE DEF off
    <2>7. Totals(off, sizes, m)
      BY <2>4, <2>5, <2>6 DEF Totals
    <2> QED
      BY <1>2, <2>7
  <1> QED
    BY <1>3, <1>4

\* Running totals grow
LEMMA TotalsGrow ==
    ASSUME NEW n \in Nat, NEW sizes \in [1..n -> Nat], NEW off, Totals(off, sizes, n),
           NEW n2 \in 0..n
    PROVE  \A j \in 0..n2 : off[j] <= off[n2]
  <1> DEFINE F == {m \in 0..n : ~\A j \in 0..m : off[j] <= off[m]}
  <1>1. SUFFICES ASSUME F # {} PROVE FALSE
    BY <1>1
  <1>2. PICK m \in F : \A i \in F : m <= i
    <2>1. F \subseteq Nat
      OBVIOUS
    <2> HIDE DEF F
    <2> QED
      BY <1>1, <2>1, LeastNumber
  <1>3. off \in [0..n -> Nat]
    BY DEF Totals
  <1>4. CASE m = 0
    <2>1. off[0] <= off[0]
      BY <1>3
    <2> QED
      BY <1>2, <1>4, <2>1
  <1>5. CASE m # 0
    <2>1. m \in 1..n /\ m - 1 \in 0..n /\ ~(m <= m - 1) /\ m \in Nat
      BY <1>5
    <2>2. \A j \in 0..(m - 1) : off[j] <= off[m - 1]
      BY <1>2, <2>1
    <2>3. off[m] = off[m - 1] + sizes[m] /\ sizes[m] \in Nat
      BY <2>1 DEF Totals
    <2>4. ASSUME NEW j \in 0..m PROVE off[j] <= off[m]
      <3>1. off[j] \in Nat /\ off[m] \in Nat /\ off[m - 1] \in Nat
        BY <1>3, <2>1
      <3>2. j = m \/ j \in 0..(m - 1)
        BY <2>1
      <3> QED
        BY <2>2, <2>3, <3>1, <3>2
    <2> QED
      BY <1>2, <2>4
  <1> QED
    BY <1>4, <1>5

\* Places and the parts they are in
Cover(off, sizes, n) ==
    \A p \in 1..off[n] : \E k \in 1..n : \E i \in 1..sizes[k] : p = off[k - 1] + i

\* Every place is in one of the parts
LEMMA TotalsCover ==
    ASSUME NEW n \in Nat, NEW sizes \in [1..n -> Nat], NEW off, Totals(off, sizes, n)
    PROVE  Cover(off, sizes, n)
  <1> SUFFICES ASSUME NEW p \in 1..off[n]
               PROVE  \E k \in 1..n : \E i \in 1..sizes[k] : p = off[k - 1] + i
    BY DEF Cover
  <1> DEFINE F == {m \in 0..n : p <= off[m]}
  <1>1. off \in [0..n -> Nat] /\ off[0] = 0
    BY DEF Totals
  <1>2. n \in 0..n /\ off[n] \in Nat /\ p \in Nat /\ p # 0 /\ p <= off[n]
    BY <1>1
  <1>3. PICK m \in F : \A i \in F : m <= i
    <2>1. F \subseteq Nat /\ F # {}
      BY <1>2
    <2> HIDE DEF F
    <2> QED
      BY <2>1, LeastNumber
  <1>4. m \in 1..n /\ m - 1 \in 0..n /\ ~(m <= m - 1)
    BY <1>1, <1>2, <1>3
  <1>5. off[m - 1] \in Nat /\ off[m] \in Nat /\ sizes[m] \in Nat /\ off[m] = off[m - 1] + sizes[m]
    BY <1>1, <1>4 DEF Totals
  <1>6. ~(p <= off[m - 1]) /\ p <= off[m]
    BY <1>3, <1>4
  <1>7. p - off[m - 1] \in 1..sizes[m] /\ p = off[m - 1] + (p - off[m - 1])
    BY <1>2, <1>5, <1>6
  <1> QED
    BY <1>4, <1>7

----------------------------------------------------------------------------
(* FlattenSeq puts the parts one after the other *)

\* f[i] is what the first i parts make
FlatRec(s, m, f) == f = [i \in 1..m |-> IF i = 1 THEN s[i] ELSE f[i - 1] \o s[i]]

\* There is such a function
LEMMA FlatRecExists ==
    ASSUME NEW s, NEW n \in Nat
    PROVE  \E f : FlatRec(s, n, f)
  <1> DEFINE F == {m \in Nat : ~\E f : FlatRec(s, m, f)}
  <1>1. SUFFICES ASSUME F # {} PROVE FALSE
    OBVIOUS
  <1>2. PICK m \in F : \A k \in F : m <= k
    <2>1. F \subseteq Nat
      OBVIOUS
    <2> HIDE DEF F
    <2> QED
      BY <1>1, <2>1, LeastNumber
  <1>3. CASE m = 0
    <2> DEFINE f == [i \in 1..0 |-> <<>>]
    <2>1. f = [i \in 1..0 |-> IF i = 1 THEN s[i] ELSE f[i - 1] \o s[i]]
      OBVIOUS
    <2>2. FlatRec(s, m, f)
      BY <1>3, <2>1 DEF FlatRec
    <2> QED
      BY <1>2, <2>2
  <1>4. CASE m # 0
    <2>1. m \in Nat /\ m - 1 \in Nat /\ ~(m <= m - 1)
      BY <1>4
    <2>2. PICK g : FlatRec(s, m - 1, g)
      BY <1>2, <2>1
    <2> DEFINE f == [k \in 1..m |-> IF k = m THEN IF m = 1 THEN s[1] ELSE g[m - 1] \o s[m]
                                    ELSE g[k]]
    <2>3. ASSUME NEW k \in 1..m
          PROVE  f[k] = IF k = 1 THEN s[k] ELSE f[k - 1] \o s[k]
      <3>1. CASE k = m
        <4>1. m # 1 => m - 1 \in 1..m /\ m - 1 # m
          BY <2>1, <1>4
        <4> QED
          BY <3>1, <4>1
      <3>2. CASE k # m
        <4>1. k \in 1..(m - 1) /\ (k # 1 => k - 1 \in 1..m /\ k - 1 # m)
          BY <2>1, <3>2
        <4>2. f[k] = g[k] /\ (k # 1 => f[k - 1] = g[k - 1])
          BY <3>2, <4>1
        <4>3. g[k] = IF k = 1 THEN s[k] ELSE g[k - 1] \o s[k]
          BY <2>2, <4>1 DEF FlatRec
        <4> HIDE DEF f
        <4> QED
          BY <4>2, <4>3
      <3> QED
        BY <3>1, <3>2
    <2>4. f = [k \in 1..m |-> f[k]]
      OBVIOUS
    <2> HIDE DEF f
    <2>5. FlatRec(s, m, f)
      BY <2>3, <2>4 DEF FlatRec
    <2> QED
      BY <1>2, <2>5
  <1> QED
    BY <1>3, <1>4

\* The elements of two sequences put together
LEMMA ConcatIs ==
    ASSUME NEW T, NEW a \in Seq(T), NEW b \in Seq(T)
    PROVE  /\ a \o b \in Seq(T) /\ Len(a \o b) = Len(a) + Len(b)
           /\ \A i \in 1..Len(a) : (a \o b)[i] = a[i]
           /\ \A i \in 1..Len(b) : (a \o b)[Len(a) + i] = b[i]
  OBVIOUS

\* As many elements as each part has
SizesAre(sizes, segs, n) == sizes \in [1..n -> Nat] /\ \A k \in 1..n : sizes[k] = Len(segs[k])

\* Parts, and the whole t in which every one is where the running total says.  The provers
\* get lost unless both are opaque where FlattenIs is cited
Parts(segs, n, T) == segs \in [1..n -> Seq(T)]
Laid(t, segs, off, n, T) ==
    /\ t \in Seq(T)
    /\ Len(t) = off[n]
    /\ \A k \in 1..n : \A i \in 1..Len(segs[k]) : t[off[k - 1] + i] = segs[k][i]

\* Every element is where the running total of its part says
LEMMA FlattenIs ==
    ASSUME NEW T, NEW n \in Nat, NEW segs, Parts(segs, n, T),
           NEW sizes, SizesAre(sizes, segs, n),
           NEW off, Totals(off, sizes, n)
    PROVE  Laid(FlattenSeq(segs), segs, off, n, T)
  <1> USE DEF Parts, Laid
  <1> DEFINE f == CHOOSE g : FlatRec(segs, n, g)
  <1>1. FlatRec(segs, n, f)
    BY FlatRecExists
  <1>2. Len(segs) = n /\ DOMAIN segs = 1..n
    OBVIOUS
  <1>3. FlattenSeq(segs) = IF n = 0 THEN segs ELSE f[n]
    BY <1>2 DEF FlattenSeq, FlatRec
  <1> HIDE DEF f
  <1>4. \A i \in 1..n : f[i] = IF i = 1 THEN segs[i] ELSE f[i - 1] \o segs[i]
    BY <1>1 DEF FlatRec
  <1>5. /\ off \in [0..n -> Nat] /\ off[0] = 0
        /\ \A k \in 1..n : off[k] = off[k - 1] + Len(segs[k])
    BY DEF Totals, SizesAre
  <1>7. CASE n = 0
    <2>1. segs = <<>> /\ off[n] = 0 /\ 1..n = {}
      BY <1>5, <1>7
    <2> QED
      BY <1>3, <1>7, <2>1
  <1> DEFINE Good(m) == /\ f[m] \in Seq(T) /\ Len(f[m]) = off[m]
                        /\ \A k \in 1..m : \A i \in 1..Len(segs[k]) : f[m][off[k - 1] + i] = segs[k][i]
             F == {m \in 1..n : ~Good(m)}
  <1>8. CASE n # 0
    <2>1. n \in 1..n
      BY <1>8
    <2>2. F = {}
      <3>1. SUFFICES ASSUME F # {} PROVE FALSE
        OBVIOUS
      <3>2. PICK m \in F : \A k \in F : m <= k
        <4>1. F \subseteq Nat
          OBVIOUS
        <4> HIDE DEF F
        <4> QED
          BY <3>1, <4>1, LeastNumber
      <3>3. m \in 1..n /\ m \in Nat /\ segs[m] \in Seq(T)
        BY <3>2
      <3>4. CASE m = 1
        <4>1. f[1] = segs[1]
          BY <1>4, <3>3, <3>4
        <4>2. off[1] = off[0] + Len(segs[1]) /\ off[0] = 0
          BY <1>5, <3>3, <3>4
        <4>3. Len(segs[1]) \in Nat
          BY <3>3, <3>4
        <4>4. \A k \in 1..1 : \A i \in 1..Len(segs[k]) : k = 1 /\ off[k - 1] + i = i
          BY <4>2, <4>3
        <4>5. Good(1)
          BY <3>3, <3>4, <4>1, <4>2, <4>3, <4>4
        <4> QED
          BY <3>2, <3>4, <4>5
      <3>5. CASE m # 1
        <4>1. m - 1 \in 1..n /\ ~(m <= m - 1) /\ m - 1 \in 0..n
          BY <3>3, <3>5
        <4>2. Good(m - 1)
          BY <3>2, <4>1
        <4>3. f[m] = f[m - 1] \o segs[m]
          BY <1>4, <3>3, <3>5
        <4> DEFINE a == f[m - 1]  b == segs[m]
        <4>4. a \in Seq(T) /\ b \in Seq(T) /\ Len(a) = off[m - 1]
          BY <3>3, <4>2
        <4>5. f[m] \in Seq(T) /\ Len(f[m]) = off[m]
          <5>1. off[m] = off[m - 1] + Len(b)
            BY <1>5, <3>3
          <5> HIDE DEF a, b
          <5>2. a \o b \in Seq(T) /\ Len(a \o b) = Len(a) + Len(b)
            BY <4>4, ConcatIs
          <5> QED
            BY <4>3, <4>4, <5>1, <5>2 DEF a, b
        <4>6. ASSUME NEW k \in 1..m, NEW i \in 1..Len(segs[k])
              PROVE  f[m][off[k - 1] + i] = segs[k][i]
          <5>1. k \in 1..n /\ k - 1 \in 0..n /\ segs[k] \in Seq(T)
            BY <3>3
          <5>2. off[k - 1] \in Nat /\ Len(segs[k]) \in Nat /\ i \in Nat /\ off[m - 1] \in Nat
            <6>1. off[k - 1] \in Nat /\ off[m - 1] \in Nat
              BY <1>5, <4>1, <5>1
            <6>2. Len(segs[k]) \in Nat
              BY <5>1
            <6> QED
              BY <6>1, <6>2
          <5>3. CASE k = m
            <6>1. Len(a) = off[k - 1] /\ i \in 1..Len(b)
              BY <4>4, <5>3
            <6> HIDE DEF a, b
            <6>2. \A j \in 1..Len(b) : (a \o b)[Len(a) + j] = b[j]
              <7>1. a \in Seq(T) /\ b \in Seq(T)
                BY <4>4
              <7> QED
                BY <7>1, ConcatIs
            <6> QED
              BY <4>3, <5>3, <6>1, <6>2 DEF a, b
          <5>4. CASE k # m
            <6>1. k \in 1..(m - 1) /\ k \in 0..(m - 1)
              BY <3>3, <5>4
            <6>2. off[k] <= off[m - 1]
              <7>1. \A j \in 0..(m - 1) : off[j] <= off[m - 1]
                BY <4>1, TotalsGrow DEF SizesAre
              <7> QED
                BY <6>1, <7>1
            <6>3. off[k] = off[k - 1] + Len(segs[k])
              BY <1>5, <5>1
            <6>4. off[k - 1] + i \in 1..Len(a)
              <7>1. off[k - 1] + i >= 1 /\ off[k - 1] + i <= off[m - 1]
                <8>1. PICK x \in Nat, y \in Nat, z \in Nat :
                         x = off[k - 1] /\ y = off[m - 1] /\ z = Len(segs[k])
                  BY <5>2
                <8>2. i \in 1..z /\ x + z <= y
                  BY <6>2, <6>3, <8>1
                <8>3. x + i >= 1 /\ x + i <= y
                  BY <8>2
                <8> QED
                  BY <8>1, <8>3
              <7> QED
                BY <4>4, <5>2, <7>1
            <6>5. a[off[k - 1] + i] = segs[k][i]
              BY <4>2, <6>1
            <6> HIDE DEF a, b
            <6>6. (a \o b)[off[k - 1] + i] = a[off[k - 1] + i]
              BY <4>4, <6>4, ConcatIs
            <6> QED
              BY <4>3, <6>5, <6>6 DEF a, b
          <5> QED
            BY <5>3, <5>4
        <4>7. Good(m)
          BY <4>5, <4>6
        <4> QED
          BY <3>2, <4>7
      <3> QED
        BY <3>4, <3>5
    <2>3. Good(n)
      <3> HIDE DEF Good
      <3> QED
        BY <2>1, <2>2
    <2>4. FlattenSeq(segs) = f[n]
      BY <1>3, <1>8
    <2> QED
      BY <2>3, <2>4
  <1> QED
    BY <1>7, <1>8

\* The elements of the whole are those of its parts
LEMMA FlattenElements ==
    ASSUME NEW T, NEW n \in Nat, NEW segs \in [1..n -> Seq(T)]
    PROVE  /\ FlattenSeq(segs) \in Seq(T)
           /\ ToSet(FlattenSeq(segs)) = UNION {ToSet(segs[k]) : k \in 1..n}
  <1>9. PICK sizes : sizes = [k \in 1..n |-> Len(segs[k])]
    OBVIOUS
  <1>0. PICK t : t = FlattenSeq(segs)
    OBVIOUS
  <1>1. sizes \in [1..n -> Nat] /\ \A k \in 1..n : sizes[k] = Len(segs[k])
    BY <1>9
  <1>2. PICK off : Totals(off, sizes, n)
    BY <1>1, TotalsExist
  <1>3. /\ t \in Seq(T) /\ Len(t) = off[n]
        /\ \A k \in 1..n : \A i \in 1..Len(segs[k]) : t[off[k - 1] + i] = segs[k][i]
    <2>1. SizesAre(sizes, segs, n) /\ Parts(segs, n, T)
      BY <1>1 DEF SizesAre, Parts
    <2>2. Laid(t, segs, off, n, T)
      BY <1>0, <1>2, <2>1, FlattenIs
    <2> QED
      BY <2>2 DEF Laid
  <1>4. DOMAIN t = 1..off[n]
    BY <1>3
  <1>5. ASSUME NEW p \in 1..off[n]
        PROVE  \E k \in 1..n : t[p] \in ToSet(segs[k])
    <2>0. PICK k \in 1..n : \E i \in 1..sizes[k] : p = off[k - 1] + i
      <3>1. Cover(off, sizes, n)
        BY <1>1, <1>2, TotalsCover
      <3> QED
        BY <3>1 DEF Cover
    <2>1. PICK i \in 1..sizes[k] : p = off[k - 1] + i
      BY <2>0
    <2>2. sizes[k] = Len(segs[k]) /\ DOMAIN segs[k] = 1..Len(segs[k])
      BY <1>1
    <2>3. t[p] = segs[k][i]
      BY <1>3, <2>1, <2>2
    <2> QED
      BY <2>2, <2>3 DEF ToSet
  <1>6. ASSUME NEW k \in 1..n, NEW x \in ToSet(segs[k])
        PROVE  x \in ToSet(t)
    <2>1. PICK i \in 1..Len(segs[k]) : x = segs[k][i]
      BY DEF ToSet
    <2>2. x = t[off[k - 1] + i]
      BY <1>3, <2>1
    <2>3. off[k - 1] + i \in 1..off[n]
      <3>1. off[k] = off[k - 1] + Len(segs[k]) /\ off \in [0..n -> Nat]
        BY <1>1, <1>2 DEF Totals
      <3>2. n \in 0..n /\ k \in 0..n /\ k - 1 \in 0..n
        OBVIOUS
      <3>3. off[k] <= off[n]
        <4>1. \A j \in 0..n : off[j] <= off[n]
          BY <1>1, <1>2, <3>2, TotalsGrow
        <4> QED
          BY <3>2, <4>1
      <3>4. off[n] \in Nat /\ off[k - 1] \in Nat /\ Len(segs[k]) \in Nat /\ off[k] \in Nat
        BY <3>1, <3>2
      <3>5. i >= 1 /\ i <= Len(segs[k]) /\ i \in Nat
        BY <3>4
      <3> QED
        BY <3>1, <3>3, <3>4, <3>5
    <2> QED
      BY <1>4, <2>2, <2>3 DEF ToSet
  <1>7. \A x \in ToSet(t) : \E k \in 1..n : x \in ToSet(segs[k])
    BY <1>4, <1>5 DEF ToSet
  <1>8. ToSet(t) = UNION {ToSet(segs[k]) : k \in 1..n}
    BY <1>6, <1>7
  <1> QED
    BY <1>0, <1>3, <1>8

\* g is the function that adds the elements of q up, for every set of places in S
FoldRec(q, base, g, S) ==
    g = [s \in SUBSET S |-> IF s = {} THEN base ELSE g[s \ {Max(s)}] + q[Max(s)]]

\* A family of subsets of a finite set that is not empty has a smallest member
LEMMA LeastSet ==
    ASSUME NEW S, IsFiniteSet(S), NEW F, F \subseteq SUBSET S, F # {}
    PROVE  \E T \in F : \A U \in F : U \subseteq T => U = T
  <1>1. F \subseteq FiniteSubsetsOf(S)
    BY FS_FiniteSubsetsOfFinite
  <1>2. PICK T \in F : \A U \in F : ~(<<U, T>> \in StrictSubsetOrdering(S))
    BY <1>1, FS_StrictSubsetOrderingWellFounded, WFMin
  <1> QED
    BY <1>2 DEF StrictSubsetOrdering

\* A set of indices has a greatest one
LEMMA MaxIs ==
    ASSUME NEW n \in Nat, NEW s, s \subseteq 1..n, s # {}
    PROVE  Max(s) \in s /\ \A k \in s : k <= Max(s)
  <1> DEFINE T == {n - k : k \in s}
  <1>1. T \subseteq Nat /\ T # {}
    <2>1. \A k \in s : k \in 1..n
      OBVIOUS
    <2>2. \A k \in s : n - k \in Nat
      BY <2>1
    <2> QED
      BY <2>2
  <1>2. PICK m \in T : \A k \in T : m <= k
    <2> HIDE DEF T
    <2> QED
      BY <1>1, LeastNumber
  <1>3. PICK x \in s : m = n - x
    BY <1>2
  <1>4. ASSUME NEW y \in s PROVE x >= y
    <2>1. n - y \in T /\ x \in 1..n /\ y \in 1..n
      OBVIOUS
    <2> QED
      BY <1>2, <1>3, <2>1
  <1>5. Max(s) \in s /\ \A y \in s : Max(s) >= y
    BY <1>4 DEF Max
  <1> QED
    BY <1>5

\* Opaque where the provers should not know that S is a set of numbers
Upto(n, S) == S \subseteq 1..n

\* There is one such function for every batch, and only one
LEMMA FoldRecUnique ==
    ASSUME NEW n \in Nat, NEW S, Upto(n, S), NEW q, NEW base, NEW g, NEW h,
           FoldRec(q, base, g, S), FoldRec(q, base, h, S)
    PROVE  g = h
  <1> DEFINE F == {s \in SUBSET S : g[s] # h[s]}
  <1>1. SUFFICES F = {}
    BY DEF FoldRec
  <1>2. SUFFICES ASSUME F # {} PROVE FALSE
    OBVIOUS
  <1>3. PICK s \in F : \A u \in F : u \subseteq s => u = s
    <2>1. IsFiniteSet(S)
      <3>1. S \subseteq 1..n
        BY DEF Upto
      <3>2. IsFiniteSet(1..n)
        BY FS_Interval
      <3> QED
        BY <3>1, <3>2, FS_Subset
    <2>2. F \subseteq SUBSET S
      OBVIOUS
    <2> HIDE DEF F
    <2> QED
      BY <1>2, <2>1, <2>2, LeastSet
  <1>4. s # {}
    BY <1>3 DEF FoldRec
  <1> DEFINE y == Max(s)
  <1>5. y \in s
    <2>1. s \subseteq 1..n
      BY <1>3 DEF Upto
    <2> QED
      BY <1>4, <2>1, MaxIs
  <1> HIDE DEF y
  <1>6. g[s \ {y}] = h[s \ {y}]
    BY <1>3, <1>5
  <1>7. /\ g[s] = g[s \ {y}] + q[y]
        /\ h[s] = h[s \ {y}] + q[y]
    BY <1>3, <1>4 DEF FoldRec, y
  <1> QED
    BY <1>3, <1>6, <1>7

\* There is such a function
LEMMA FoldRecExists ==
    ASSUME NEW n \in Nat, NEW q, NEW base
    PROVE  \E g : FoldRec(q, base, g, 1..n)
  <1> DEFINE S == 1..n
             F == {T \in SUBSET S : ~\E g : FoldRec(q, base, g, T)}
  <1>1. SUFFICES F = {}
    OBVIOUS
  <1>2. SUFFICES ASSUME F # {} PROVE FALSE
    OBVIOUS
  <1>3. PICK T \in F : \A U \in F : U \subseteq T => U = T
    <2>1. IsFiniteSet(S)
      BY FS_Interval
    <2>2. F \subseteq SUBSET S
      OBVIOUS
    <2> HIDE DEF F, S
    <2> QED
      BY <1>2, <2>1, <2>2, LeastSet
  <1> DEFINE G(U) == CHOOSE g : FoldRec(q, base, g, U)
             x == Max(T)
             h == [s \in SUBSET T |->
                      IF s # T THEN G(s)[s]
                      ELSE IF T = {} THEN base ELSE G(T \ {x})[T \ {x}] + q[x]]
  <1>4. ASSUME NEW U \in SUBSET T, U # T
        PROVE  FoldRec(q, base, G(U), U)
    <2>1. U \notin F
      BY <1>3, <1>4
    <2>2. \E g : FoldRec(q, base, g, U)
      BY <2>1, <1>3
    <2> QED
      BY <2>2
  <1> HIDE DEF G
  <1>5. ASSUME NEW U \in SUBSET T, U # T, NEW V \in SUBSET U
        PROVE  G(U)[V] = G(V)[V]
    <2> DEFINE r == [s \in SUBSET V |-> G(U)[s]]
    <2>1. FoldRec(q, base, G(U), U) /\ FoldRec(q, base, G(V), V)
      BY <1>4, <1>5
    <2>2. FoldRec(q, base, r, V)
      <3>1. ASSUME NEW s \in SUBSET V
            PROVE  r[s] = IF s = {} THEN base ELSE r[s \ {Max(s)}] + q[Max(s)]
        <4>1. s \in SUBSET U /\ s \ {Max(s)} \in SUBSET V
          BY <3>1
        <4>2. G(U)[s] = IF s = {} THEN base ELSE G(U)[s \ {Max(s)}] + q[Max(s)]
          BY <4>1, <2>1 DEF FoldRec
        <4> QED
          BY <4>1, <4>2
      <3> QED
        BY <3>1 DEF FoldRec
    <2>3. Upto(n, V)
      BY <1>3, <1>5 DEF Upto
    <2> HIDE DEF r
    <2>4. r = G(V)
      BY <2>1, <2>2, <2>3, FoldRecUnique
    <2> QED
      BY <2>4 DEF r
  <1>6. ASSUME NEW s \in SUBSET T
        PROVE  h[s] = IF s = {} THEN base ELSE h[s \ {Max(s)}] + q[Max(s)]
    <2>1. CASE s = {}
      <3>1. CASE s = T
        BY <2>1, <3>1
      <3>2. CASE s # T
        <4>1. FoldRec(q, base, G(s), s)
          BY <1>4, <3>2
        <4>2. G(s)[s] = base
          BY <4>1, <2>1 DEF FoldRec
        <4> QED
          BY <2>1, <3>2, <4>2
      <3> QED
        BY <3>1, <3>2
    <2>2. CASE s # {}
      <3> DEFINE y == Max(s)
                 u == s \ {y}
      <3>1. y \in s
        BY <1>3, <2>2, MaxIs
      <3>2. u \in SUBSET T /\ u # T /\ u # s /\ u \in SUBSET s
        BY <3>1
      <3>3. h[u] = G(u)[u]
        BY <3>2
      <3>4. CASE s = T
        BY <2>2, <3>2, <3>3, <3>4
      <3>5. CASE s # T
        <4>1. G(s)[s] = G(s)[u] + q[y]
          <5>1. FoldRec(q, base, G(s), s)
            BY <1>4, <3>5
          <5> QED
            BY <5>1, <2>2 DEF FoldRec
        <4>2. G(s)[u] = G(u)[u]
          BY <1>5, <3>2, <3>5
        <4> QED
          BY <2>2, <3>3, <3>5, <4>1, <4>2
      <3> QED
        BY <3>4, <3>5
    <2> QED
      BY <2>1, <2>2
  <1>7. FoldRec(q, base, h, T)
    <2>1. h = [s \in SUBSET T |-> h[s]]
      OBVIOUS
    <2> HIDE DEF h
    <2> QED
      BY <1>6, <2>1 DEF FoldRec
  <1> QED
    BY <1>3, <1>7


\* The sum is the last running total
LEMMA SumIs ==
    ASSUME NEW n \in Nat, NEW q \in [1..n -> Nat], NEW off, Totals(off, q, n)
    PROVE  SumOf(q) = off[n]
  <1> DEFINE iter == CHOOSE g : FoldRec(q, 0, g, 1..n)
  <1>1. FoldRec(q, 0, iter, 1..n)
    BY FoldRecExists
  <1>2. DOMAIN q = 1..n
    OBVIOUS
  <1>3. SumOf(q) = iter[1..n]
    BY <1>2 DEF SumOf, FoldLeft, MapThenFoldSet, FoldRec
  <1> HIDE DEF iter
  <1> DEFINE Good(k) == iter[1..k] = off[k]
             T == {k \in 0..n : ~Good(k)}
  <1>4. SUFFICES ASSUME T # {} PROVE FALSE
    <2>1. CASE T = {}
      <3>1. n \in 0..n
        OBVIOUS
      <3>2. Good(n)
        BY <2>1, <3>1
      <3> QED
        BY <1>3, <3>2
    <2> QED
      BY <2>1
  <1>5. PICK k \in T : \A j \in T : k <= j
    <2>1. T \subseteq Nat
      OBVIOUS
    <2> HIDE DEF T
    <2> QED
      BY <1>4, <2>1, LeastNumber
  <1>6. k \in 0..n
    BY <1>5
  <1>7. CASE k = 0
    <2>1. 1..k = {}
      BY <1>7
    <2>2. iter[{}] = 0
      BY <1>1 DEF FoldRec
    <2>3. off[0] = 0
      BY DEF Totals
    <2> QED
      BY <1>5, <1>7, <2>1, <2>2, <2>3
  <1>8. CASE k # 0
    <2>1. k \in 1..n /\ k - 1 \in 0..n /\ ~(k <= k - 1)
      BY <1>6, <1>8
    <2>2. Good(k - 1)
      BY <1>5, <2>1
    <2>3. 1..k # {} /\ 1..k \in SUBSET (1..n) /\ (1..k) \ {k} = 1..k - 1
      <3>1. 1..k # {}
        <4>1. k \in 1..k
          BY <2>1
        <4> QED
          BY <4>1
      <3>2. 1..k \in SUBSET (1..n)
        BY <2>1
      <3>3. (1..k) \ {k} = 1..k - 1
        BY <2>1
      <3> QED
        BY <3>1, <3>2, <3>3
    <2>4. Max(1..k) = k
      <3>1. 1..k \subseteq 1..n /\ 1..k # {} /\ k \in 1..k
        BY <2>1, <2>3
      <3>2. Max(1..k) \in 1..k /\ \A j \in 1..k : j <= Max(1..k)
        BY <3>1, MaxIs
      <3> DEFINE m == Max(1..k)
      <3>3. m \in 1..k /\ k <= m
        BY <3>1, <3>2
      <3> HIDE DEF m
      <3>4. m = k
        BY <2>1, <3>3
      <3> QED
        BY <3>4 DEF m
    <2>5. iter[1..k] = iter[1..k - 1] + q[k]
      BY <1>1, <2>3, <2>4 DEF FoldRec
    <2>6. off[k] = off[k - 1] + q[k]
      BY <2>1 DEF Totals
    <2> QED
      BY <1>5, <2>2, <2>5, <2>6
  <1> QED
    BY <1>7, <1>8

----------------------------------------------------------------------------
(* Requests whose inputs are taken from a set *)

\* Requests, and the names of their inputs
RequestsOver(I) == [id : Int, index : Nat, inputs : Seq(I)]
NamesOf(I) == {i.name : i \in I}

\* The heads are the names of the inputs, each once
LEMMA HeadsAre ==
    ASSUME NEW I, NEW R \in Seq(RequestsOver(I))
    PROVE  /\ Heads(R) \in Seq(NamesOf(I))
           /\ \A name : name \in ToSet(Heads(R)) <=> \E r \in ToSet(R) : Has(r, name)
           /\ \A j, k \in DOMAIN Heads(R) : Heads(R)[j] = Heads(R)[k] => j = k
  <1>1. PICK segs : segs = [i \in DOMAIN R |->
                                [j \in DOMAIN R[i].inputs |-> R[i].inputs[j].name]]
    OBVIOUS
  <1>2. DOMAIN R = 1..Len(R) /\ Len(R) \in Nat
    OBVIOUS
  <1>3. \A i \in 1..Len(R) : R[i].inputs \in Seq(I)
    <2>1. \A i \in 1..Len(R) : R[i] \in RequestsOver(I)
      OBVIOUS
    <2> QED
      BY <2>1 DEF RequestsOver
  <1>4. ASSUME NEW i \in 1..Len(R)
        PROVE  /\ segs[i] \in Seq(NamesOf(I)) /\ DOMAIN segs[i] = DOMAIN R[i].inputs
               /\ \A j \in DOMAIN segs[i] : segs[i][j] = R[i].inputs[j].name
    <2>1. segs[i] = [j \in DOMAIN R[i].inputs |-> R[i].inputs[j].name]
      BY <1>1, <1>2
    <2>2. PICK inputs \in Seq(I) : inputs = R[i].inputs
      BY <1>3
    <2>3. \A j \in 1..Len(inputs) : inputs[j].name \in NamesOf(I)
      BY DEF NamesOf
    <2>4. segs[i] = [j \in 1..Len(inputs) |-> inputs[j].name]
      BY <2>1, <2>2
    <2>5. segs[i] \in Seq(NamesOf(I))
      BY <2>2, <2>3, <2>4
    <2> QED
      BY <2>1, <2>5
  <1>5. segs \in [1..Len(R) -> Seq(NamesOf(I))]
    BY <1>1, <1>2, <1>4
  <1> DEFINE flat == FlattenSeq(segs)
  <1>6. flat \in Seq(NamesOf(I)) /\ ToSet(flat) = UNION {ToSet(segs[k]) : k \in 1..Len(R)}
    BY <1>2, <1>5, FlattenElements
  <1>7. Heads(R) = Keys(flat)
    BY <1>1 DEF Heads
  <1>8. ASSUME NEW name
        PROVE  name \in ToSet(flat) <=> \E r \in ToSet(R) : Has(r, name)
    <2> HIDE DEF flat
    <2>1. name \in ToSet(flat) <=> \E k \in 1..Len(R) : name \in ToSet(segs[k])
      BY <1>6
    <2>2. \A k \in 1..Len(R) : name \in ToSet(segs[k]) <=> Has(R[k], name)
      BY <1>4 DEF ToSet, Has
    <2> QED
      BY <1>2, <2>1, <2>2 DEF ToSet
  <1> HIDE DEF flat
  <1>9. /\ Keys(flat) \in Seq(NamesOf(I)) /\ ToSet(Keys(flat)) = ToSet(flat)
        /\ \A j, k \in DOMAIN Keys(flat) : Keys(flat)[j] = Keys(flat)[k] => j = k
    BY <1>6, KeysAre
  <1> QED
    BY <1>7, <1>8, <1>9

\* Those who have a head
LEMMA HavingIs ==
    ASSUME NEW I, NEW R \in Seq(RequestsOver(I)), NEW name
    PROVE  /\ Having(R, name) \in Seq(RequestsOver(I))
           /\ ToSet(Having(R, name)) = {r \in ToSet(R) : Has(r, name)}
  <1> DEFINE places == {i \in DOMAIN R : Has(R[i], name)}
  <1>1. Having(R, name) = At(R, places) /\ places \subseteq DOMAIN R
    BY DEF Having
  <1>2. At(R, places) \in Seq(RequestsOver(I)) /\ ToSet(At(R, places)) = {R[i] : i \in places}
    BY <1>1, AtSet
  <1>3. {R[i] : i \in places} = {r \in ToSet(R) : Has(r, name)}
    BY DEF ToSet
  <1> QED
    BY <1>1, <1>2, <1>3

\* The order of the minibatch sizes
Order(R) == Keys(FlattenSeq([h \in DOMAIN Heads(R) |-> Having(R, Heads(R)[h])]))

\* Every request with inputs has a minibatch size, and only one
LEMMA OrderIs ==
    ASSUME NEW I, NEW R \in Seq(RequestsOver(I))
    PROVE  /\ Order(R) \in Seq(RequestsOver(I))
           /\ \A r : r \in ToSet(Order(R)) <=> r \in ToSet(R) /\ r.inputs # <<>>
           /\ \A j, k \in DOMAIN Order(R) : Order(R)[j] = Order(R)[k] => j = k
  <1>1. PICK heads : heads = Heads(R)
    OBVIOUS
  <1>2. /\ heads \in Seq(NamesOf(I))
        /\ \A name : name \in ToSet(heads) <=> \E r \in ToSet(R) : Has(r, name)
    BY <1>1, HeadsAre
  <1>3. DOMAIN heads = 1..Len(heads) /\ Len(heads) \in Nat
    BY <1>2
  <1>4. PICK segs : segs = [h \in DOMAIN heads |-> Having(R, heads[h])]
    OBVIOUS
  <1>5. \A h \in 1..Len(heads) : /\ segs[h] \in Seq(RequestsOver(I))
                                 /\ ToSet(segs[h]) = {r \in ToSet(R) : Has(r, heads[h])}
    BY <1>3, <1>4, HavingIs
  <1>6. segs \in [1..Len(heads) -> Seq(RequestsOver(I))]
    BY <1>3, <1>4, <1>5
  <1>7. PICK flat : flat = FlattenSeq(segs)
    OBVIOUS
  <1>8. flat \in Seq(RequestsOver(I)) /\ ToSet(flat) = UNION {ToSet(segs[k]) : k \in 1..Len(heads)}
    BY <1>3, <1>6, <1>7, FlattenElements
  <1>9. ASSUME NEW r
        PROVE  r \in ToSet(flat) <=> r \in ToSet(R) /\ r.inputs # <<>>
    <2>1. r \in ToSet(flat) <=> \E h \in 1..Len(heads) : r \in ToSet(R) /\ Has(r, heads[h])
      BY <1>5, <1>8
    <2>2. ASSUME r \in ToSet(R)
          PROVE  (\E h \in 1..Len(heads) : Has(r, heads[h])) <=> r.inputs # <<>>
      <3>1. r.inputs \in Seq(I)
        <4>1. r \in RequestsOver(I)
          BY <2>2 DEF ToSet
        <4> QED
          BY <4>1 DEF RequestsOver
      <3>2. ASSUME NEW h \in 1..Len(heads), Has(r, heads[h]) PROVE r.inputs # <<>>
        BY <3>2 DEF Has
      <3>3. ASSUME r.inputs # <<>> PROVE \E h \in 1..Len(heads) : Has(r, heads[h])
        <4>1. 1 \in DOMAIN r.inputs
          BY <3>1, <3>3
        <4>2. Has(r, r.inputs[1].name)
          BY <4>1 DEF Has
        <4>3. r.inputs[1].name \in ToSet(heads)
          BY <1>2, <2>2, <4>2
        <4> QED
          BY <1>3, <4>2, <4>3 DEF ToSet
      <3> QED
        BY <3>2, <3>3
    <2> QED
      BY <2>1, <2>2
  <1>10. /\ Keys(flat) \in Seq(RequestsOver(I)) /\ ToSet(Keys(flat)) = ToSet(flat)
         /\ \A j, k \in DOMAIN Keys(flat) : Keys(flat)[j] = Keys(flat)[k] => j = k
    BY <1>8, KeysAre
  <1>11. Order(R) = Keys(flat)
    BY <1>1, <1>4, <1>7 DEF Order
  <1> QED
    BY <1>9, <1>10, <1>11

\* The sizes are those of the requests in this order
LEMMA SizesOf ==
    ASSUME NEW R
    PROVE  /\ DOMAIN MinibatchSizes(R) = DOMAIN Order(R)
           /\ \A k \in DOMAIN Order(R) : MinibatchSizes(R)[k].id = Order(R)[k].id
  BY DEF MinibatchSizes, Order

\* A request is known by its id
DistinctIds(R) == \A r, s \in ToSet(R) : r.id = s.id => r = s

\* Who gets a response
LEMMA ResponsesAre ==
    ASSUME NEW I, NEW R \in Seq(RequestsOver(I)), DistinctIds(R), NEW outputs
    PROVE  /\ \A a \in ToSet(SplitResponse(R, outputs)) : \E r \in ToSet(R) : a.id = r.id
           /\ \A a, b \in ToSet(SplitResponse(R, outputs)) : a.id = b.id => a = b
           /\ outputs # <<>> =>
                 \A r \in ToSet(R) : r.inputs # <<>> =>
                    \E a \in ToSet(SplitResponse(R, outputs)) : a.id = r.id
  <1>1. PICK order : order = Order(R)
    OBVIOUS
  <1>2. /\ \A r : r \in ToSet(order) <=> r \in ToSet(R) /\ r.inputs # <<>>
        /\ \A j, k \in DOMAIN order : order[j] = order[k] => j = k
    BY <1>1, OrderIs
  <1>3. PICK sizes : sizes = MinibatchSizes(R)
    OBVIOUS
  <1>4. DOMAIN sizes = DOMAIN order /\ \A k \in DOMAIN order : sizes[k].id = order[k].id
    BY <1>1, <1>3, SizesOf
  <1>5. PICK split : split = SplitResponse(R, outputs)
    OBVIOUS
  <1>6. /\ DOMAIN split = IF outputs = <<>> THEN {} ELSE DOMAIN order
        /\ \A k \in DOMAIN split : split[k].id = sizes[k].id
    BY <1>3, <1>4, <1>5 DEF SplitResponse
  <1>7. \A k \in DOMAIN split : k \in DOMAIN order /\ split[k].id = order[k].id /\ order[k] \in ToSet(R)
    BY <1>2, <1>4, <1>6 DEF ToSet
  <1>8. \A a \in ToSet(split) : \E r \in ToSet(R) : a.id = r.id
    BY <1>7 DEF ToSet
  <1>9. ASSUME NEW j \in DOMAIN split, NEW k \in DOMAIN split, split[j].id = split[k].id
        PROVE  split[j] = split[k]
    <2>1. order[j] = order[k]
      BY <1>7, <1>9 DEF DistinctIds
    <2> QED
      BY <1>2, <1>7, <2>1
  <1>10. \A a, b \in ToSet(split) : a.id = b.id => a = b
    BY <1>9 DEF ToSet
  <1>11. ASSUME outputs # <<>>, NEW r \in ToSet(R), r.inputs # <<>>
         PROVE  \E a \in ToSet(split) : a.id = r.id
    <2>1. r \in ToSet(order)
      BY <1>2, <1>11
    <2>2. PICK k \in DOMAIN order : r = order[k]
      BY <2>1 DEF ToSet
    <2>3. k \in DOMAIN split /\ split[k].id = r.id
      BY <1>4, <1>6, <1>11, <2>2
    <2> QED
      BY <2>3 DEF ToSet
  <1> QED
    BY <1>5, <1>8, <1>10, <1>11

\* When a request has inputs, what is merged is not empty
LEMMA MergedAre ==
    ASSUME NEW I, NEW R \in Seq(RequestsOver(I)), NEW r \in ToSet(R), r.inputs # <<>>
    PROVE  MergeRequests(R) # <<>>
  <1>1. PICK heads : heads = Heads(R)
    OBVIOUS
  <1>2. \A name : name \in ToSet(heads) <=> \E q \in ToSet(R) : Has(q, name)
    BY <1>1, HeadsAre
  <1>3. r.inputs \in Seq(I)
    <2>1. r \in RequestsOver(I)
      BY DEF ToSet
    <2> QED
      BY <2>1 DEF RequestsOver
  <1>4. 1 \in DOMAIN r.inputs
    BY <1>3
  <1>5. Has(r, r.inputs[1].name)
    BY <1>4 DEF Has
  <1>6. DOMAIN heads # {}
    BY <1>2, <1>5 DEF ToSet
  <1>7. DOMAIN MergeRequests(R) = DOMAIN heads
    BY <1>1 DEF MergeRequests
  <1> QED
    BY <1>6, <1>7

----------------------------------------------------------------------------
(* Batches of a file *)

\* A line with its index, and a command line that can be run
Rows == [index : Nat, line : Lines]
IsSetup(s) == s.file \in Seq(Lines) /\ s.batchSize \in Nat \ {0}

\* The micro-batch a line is in
Number(s, i) == i \div s.batchSize

\* A batch has the lines of a file with its number
LEMMA BatchIs ==
    ASSUME NEW s, IsSetup(s), NEW i
    PROVE  /\ BatchIn(s, i) \in Seq(Rows)
           /\ \A x : x \in ToSet(BatchIn(s, i)) <=>
                 \E j \in 0..Len(s.file) - 1 : /\ Number(s, j) = Number(s, i)
                                               /\ x = [index |-> j, line |-> s.file[j + 1]]
  <1> DEFINE rows == [k \in DOMAIN s.file |-> [index |-> k - 1, line |-> s.file[k]]]
             places == {k \in DOMAIN s.file : (k - 1) \div s.batchSize = i \div s.batchSize}
  <1>1. BatchIn(s, i) = At(rows, places)
    BY DEF BatchIn
  <1>2. DOMAIN s.file = 1..Len(s.file) /\ Len(s.file) \in Nat
    BY DEF IsSetup
  <1>3. rows \in Seq(Rows) /\ places \subseteq DOMAIN rows
    <2>1. \A k \in 1..Len(s.file) : s.file[k] \in Lines /\ k - 1 \in Nat
      BY <1>2 DEF IsSetup
    <2>2. \A k \in 1..Len(s.file) : [index |-> k - 1, line |-> s.file[k]] \in Rows
      BY <2>1 DEF Rows
    <2>3. DOMAIN rows = 1..Len(s.file)
      BY <1>2
    <2> QED
      BY <1>2, <2>2, <2>3
  <1>4. DOMAIN rows = 1..Len(s.file)
    BY <1>2
  <1>5. ASSUME NEW x
        PROVE  x \in {rows[k] : k \in places} <=>
                 \E j \in 0..Len(s.file) - 1 : /\ Number(s, j) = Number(s, i)
                                               /\ x = [index |-> j, line |-> s.file[j + 1]]
    <2>1. ASSUME NEW k \in places, x = rows[k]
          PROVE  \E j \in 0..Len(s.file) - 1 : /\ Number(s, j) = Number(s, i)
                                               /\ x = [index |-> j, line |-> s.file[j + 1]]
      <3>1. k \in 1..Len(s.file) /\ k - 1 \in 0..Len(s.file) - 1 /\ (k - 1) + 1 = k
        BY <1>2, <2>1
      <3>2. Number(s, k - 1) = Number(s, i) /\ x = [index |-> k - 1, line |-> s.file[k]]
        BY <2>1, <3>1 DEF Number
      <3> QED
        BY <3>1, <3>2
    <2>2. ASSUME NEW j \in 0..Len(s.file) - 1, Number(s, j) = Number(s, i),
                 x = [index |-> j, line |-> s.file[j + 1]]
          PROVE  \E k \in places : x = rows[k]
      <3>1. j + 1 \in 1..Len(s.file) /\ (j + 1) - 1 = j
        BY <1>2
      <3>2. j + 1 \in places
        BY <1>2, <2>2, <3>1 DEF Number
      <3>3. rows[j + 1] = x
        BY <1>2, <2>2, <3>1
      <3> QED
        BY <3>2, <3>3
    <2> HIDE DEF rows, places
    <2> QED
      BY <2>1, <2>2
  <1> HIDE DEF rows, places
  <1>6. At(rows, places) \in Seq(Rows) /\ ToSet(At(rows, places)) = {rows[k] : k \in places}
    BY <1>3, AtSet
  <1> QED
    BY <1>1, <1>5, <1>6

\* The lines of a batch
IndicesOf(batch) == {x.index : x \in ToSet(batch)}

\* A batch that is worked on: rows, and no two with the same index
IsBatch(batch) ==
    /\ batch \in Seq(Rows)
    /\ \A x, y \in ToSet(batch) : x.index = y.index => x = y

\* What is read of a file is a batch, with the lines that have its number
LEMMA BatchesAre ==
    ASSUME NEW s, IsSetup(s), NEW i
    PROVE  /\ IsBatch(BatchIn(s, i))
           /\ \A j : j \in IndicesOf(BatchIn(s, i)) <=>
                        j \in 0..Len(s.file) - 1 /\ Number(s, j) = Number(s, i)
           /\ \A x \in ToSet(BatchIn(s, i)) : x.line = s.file[x.index + 1]
  <1>1. PICK b : b = BatchIn(s, i)
    OBVIOUS
  <1>2. /\ b \in Seq(Rows)
        /\ \A x : x \in ToSet(b) <=>
              \E j \in 0..Len(s.file) - 1 : /\ Number(s, j) = Number(s, i)
                                            /\ x = [index |-> j, line |-> s.file[j + 1]]
    BY <1>1, BatchIs
  <1>3. \A x \in ToSet(b) : /\ x.index \in 0..Len(s.file) - 1 /\ Number(s, x.index) = Number(s, i)
                            /\ x = [index |-> x.index, line |-> s.file[x.index + 1]]
    BY <1>2
  <1>4. \A x \in ToSet(b) : x.line = s.file[x.index + 1]
    BY <1>3
  <1>5. \A x, y \in ToSet(b) : x.index = y.index => x = y
    BY <1>3
  <1>6. ASSUME NEW j
        PROVE  j \in IndicesOf(b) <=> j \in 0..Len(s.file) - 1 /\ Number(s, j) = Number(s, i)
    <2>1. ASSUME j \in IndicesOf(b)
          PROVE  j \in 0..Len(s.file) - 1 /\ Number(s, j) = Number(s, i)
      <3>1. PICK x \in ToSet(b) : j = x.index
        BY <2>1 DEF IndicesOf
      <3> QED
        BY <1>3, <3>1
    <2>2. ASSUME j \in 0..Len(s.file) - 1, Number(s, j) = Number(s, i)
          PROVE  j \in IndicesOf(b)
      <3>1. PICK x : x = [index |-> j, line |-> s.file[j + 1]]
        OBVIOUS
      <3>2. x \in ToSet(b) /\ x.index = j
        BY <1>2, <2>2, <3>1
      <3> QED
        BY <3>2 DEF IndicesOf
    <2> QED
      BY <2>1, <2>2
  <1> QED
    BY <1>1, <1>2, <1>4, <1>5, <1>6 DEF IsBatch

\* Lines with the same number are in the same batch
LEMMA SameBatch ==
    ASSUME NEW s, NEW i, NEW j, Number(s, i) = Number(s, j)
    PROVE  BatchIn(s, i) = BatchIn(s, j)
  BY DEF BatchIn, Number

----------------------------------------------------------------------------
(* The requests of a batch *)

\* The lines of a kind
LEMMA OfKind ==
    ASSUME NEW batch, IsBatch(batch), NEW kind
    PROVE  /\ Of(batch, kind) \in Seq(Rows)
           /\ ToSet(Of(batch, kind)) = {x \in ToSet(batch) : x.line.kind = kind}
  <1> DEFINE places == {k \in DOMAIN batch : batch[k].line.kind = kind}
  <1>1. Of(batch, kind) = At(batch, places) /\ places \subseteq DOMAIN batch /\ batch \in Seq(Rows)
    BY DEF Of, IsBatch
  <1>2. At(batch, places) \in Seq(Rows) /\ ToSet(At(batch, places)) = {batch[k] : k \in places}
    BY <1>1, AtSet
  <1>3. {batch[k] : k \in places} = {x \in ToSet(batch) : x.line.kind = kind}
    BY DEF ToSet
  <1> QED
    BY <1>1, <1>2, <1>3

\* The id, the index and the places of the inputs of a request
LEMMA RequestFields ==
    ASSUME NEW x
    PROVE  /\ Request(x).id = IdOf(x) /\ Request(x).index = x.index
           /\ DOMAIN Request(x).inputs = DOMAIN x.line.inputs
  BY DEF Request

\* Every request is the one of a line of the batch, and there is one for each id
LEMMA RequestsAre ==
    ASSUME NEW batch, IsBatch(batch)
    PROVE  /\ Requests(batch) = [k \in 1..Len(Requests(batch)) |-> Requests(batch)[k]]
           /\ Len(Requests(batch)) \in Nat
           /\ \A r \in ToSet(Requests(batch)) :
                 \E x \in ToSet(batch) : x.line.kind = "request" /\ r = Request(x)
           /\ \A x \in ToSet(batch) : x.line.kind = "request" =>
                 \E r \in ToSet(Requests(batch)) : r.id = IdOf(x)
           /\ \A j, k \in DOMAIN Requests(batch) : Requests(batch)[j].id = Requests(batch)[k].id => j = k
  <1>1. PICK lines : lines = Of(batch, "request")
    OBVIOUS
  <1>2. lines \in Seq(Rows) /\ ToSet(lines) = {x \in ToSet(batch) : x.line.kind = "request"}
    BY <1>1, OfKind
  <1>3. PICK seq : seq = [i \in DOMAIN lines |-> IdOf(lines[i])]
    OBVIOUS
  <1>4. seq \in Seq({IdOf(x) : x \in ToSet(lines)}) /\ ToSet(seq) = {IdOf(x) : x \in ToSet(lines)}
    <2>1. DOMAIN lines = 1..Len(lines) /\ Len(lines) \in Nat
      BY <1>2
    <2>2. seq \in Seq({IdOf(x) : x \in ToSet(lines)})
      <3>1. \A i \in 1..Len(lines) : seq[i] \in {IdOf(x) : x \in ToSet(lines)}
        BY <1>3, <2>1 DEF ToSet
      <3> QED
        BY <1>3, <2>1, <3>1
    <2>3. ToSet(seq) = {IdOf(x) : x \in ToSet(lines)}
      BY <1>3 DEF ToSet
    <2> QED
      BY <2>2, <2>3
  <1>5. PICK ids : ids = Keys(seq)
    OBVIOUS
  <1>6. /\ ids \in Seq({IdOf(x) : x \in ToSet(lines)})
        /\ ToSet(ids) = ToSet(seq)
        /\ \A j, k \in DOMAIN ids : ids[j] = ids[k] => j = k
    BY <1>4, <1>5, KeysAre
  <1> DEFINE last(id) == Last(At(lines, {i \in DOMAIN lines : IdOf(lines[i]) = id}))
  <1>7. Requests(batch) = [k \in DOMAIN ids |-> Request(last(ids[k]))]
    BY <1>1, <1>3, <1>5 DEF Requests
  <1>8. ASSUME NEW k \in DOMAIN ids
        PROVE  last(ids[k]) \in ToSet(lines) /\ IdOf(last(ids[k])) = ids[k]
    <2> DEFINE places == {i \in DOMAIN lines : IdOf(lines[i]) = ids[k]}
    <2>1. places \subseteq DOMAIN lines
      OBVIOUS
    <2>2. ids[k] \in ToSet(seq)
      BY <1>6, <1>8 DEF ToSet
    <2>3. places # {}
      BY <1>4, <2>2 DEF ToSet
    <2>4. \E i \in places : Last(At(lines, places)) = lines[i]
      <3> HIDE DEF places
      <3> QED
        BY <1>2, <2>1, <2>3, AtLast
    <2>5. PICK i \in places : last(ids[k]) = lines[i]
      BY <2>4
    <2> QED
      BY <2>5 DEF ToSet
  <1> HIDE DEF last
  <1>9. PICK R : R = Requests(batch)
    OBVIOUS
  <1>10. DOMAIN ids = 1..Len(ids) /\ Len(ids) \in Nat
    BY <1>6
  <1>11. R = [k \in 1..Len(ids) |-> Request(last(ids[k]))]
    BY <1>7, <1>9, <1>10
  <1>12. Len(R) = Len(ids) /\ R = [k \in 1..Len(R) |-> R[k]]
    BY <1>10, <1>11
  <1>13. \A k \in DOMAIN R : R[k].id = ids[k]
    BY <1>8, <1>10, <1>11, RequestFields
  <1>14. \A r \in ToSet(R) : \E x \in ToSet(batch) : x.line.kind = "request" /\ r = Request(x)
    <2>1. \A k \in 1..Len(ids) : R[k] = Request(last(ids[k])) /\ last(ids[k]) \in ToSet(lines)
      BY <1>8, <1>10, <1>11
    <2> QED
      BY <1>2, <1>11, <2>1 DEF ToSet
  <1>15. ASSUME NEW x \in ToSet(batch), x.line.kind = "request"
         PROVE  \E r \in ToSet(R) : r.id = IdOf(x)
    <2>1. IdOf(x) \in ToSet(ids)
      BY <1>2, <1>4, <1>6, <1>15
    <2>2. PICK k \in DOMAIN ids : IdOf(x) = ids[k]
      BY <2>1 DEF ToSet
    <2>3. k \in DOMAIN R
      BY <1>10, <1>11
    <2> QED
      BY <1>13, <2>2, <2>3 DEF ToSet
  <1>16. \A j, k \in DOMAIN R : R[j].id = R[k].id => j = k
    BY <1>6, <1>10, <1>11, <1>13
  <1> QED
    BY <1>9, <1>10, <1>12, <1>14, <1>15, <1>16

\* The inputs of the requests of a batch
Made(batch) == UNION {ToSet(Request(x).inputs) : x \in ToSet(batch)}

\* A request has inputs that are made for its batch
LEMMA RequestOver ==
    ASSUME NEW batch, IsBatch(batch), NEW x \in ToSet(batch)
    PROVE  Request(x) \in RequestsOver(Made(batch))
  <1>1. x \in Rows
    BY DEF IsBatch, ToSet
  <1>2. x.index \in Nat /\ x.line \in Lines
    BY <1>1 DEF Rows
  <1>3. x.line.id \in Nat /\ x.line.inputs \in Seq(Inputs)
    BY <1>2 DEF Lines
  <1>4. IdOf(x) \in Int
    BY <1>2, <1>3 DEF IdOf, NoId
  <1>5. PICK inputs : inputs = Request(x).inputs
    OBVIOUS
  <1>6. DOMAIN inputs = 1..Len(x.line.inputs) /\ Len(x.line.inputs) \in Nat
    BY <1>3, <1>5, RequestFields
  <1>7. inputs = [j \in 1..Len(x.line.inputs) |-> inputs[j]]
    <2>1. inputs = [j \in DOMAIN x.line.inputs |->
              LET input == x.line.inputs[j]
              IN  [name |-> input.name, size |-> input.size, elem |-> input.elem,
                   type |-> input.type,
                   data |-> [k \in 1..input.length |-> <<x.index, input.name, k>>],
                   param |-> IF input.param THEN Parameter(Text(x.index)) ELSE NoParameter]]
      BY <1>5 DEF Request
    <2>2. DOMAIN x.line.inputs = 1..Len(x.line.inputs)
      BY <1>3
    <2> QED
      BY <2>1, <2>2
  <1>8. \A j \in 1..Len(x.line.inputs) : inputs[j] \in Made(batch)
    <2>1. \A j \in 1..Len(x.line.inputs) : inputs[j] \in ToSet(Request(x).inputs)
      BY <1>5, <1>6 DEF ToSet
    <2> QED
      BY <2>1 DEF Made
  <1>9. inputs \in Seq(Made(batch))
    BY <1>6, <1>7, <1>8
  <1>10. Request(x) = [id |-> IdOf(x), index |-> x.index, inputs |-> inputs]
    BY <1>5 DEF Request
  <1> QED
    BY <1>2, <1>4, <1>9, <1>10 DEF RequestsOver

\* A request is known by its line
DistinctIndices(R) == \A r, s \in ToSet(R) : r.index = s.index => r = s

\* The requests of a batch can be merged and split, and it is known whose they are
LEMMA RequestsTyped ==
    ASSUME NEW batch, IsBatch(batch)
    PROVE  /\ Requests(batch) \in Seq(RequestsOver(Made(batch)))
           /\ DistinctIds(Requests(batch)) /\ DistinctIndices(Requests(batch))
           /\ \A r \in ToSet(Requests(batch)) : \E x \in ToSet(batch) :
                 x.line.kind = "request" /\ r.index = x.index /\ r = Request(x)
  <1>1. PICK R : R = Requests(batch)
    OBVIOUS
  <1>2. /\ R = [k \in 1..Len(R) |-> R[k]] /\ Len(R) \in Nat
        /\ \A r \in ToSet(R) : \E x \in ToSet(batch) : x.line.kind = "request" /\ r = Request(x)
        /\ \A j, k \in DOMAIN R : R[j].id = R[k].id => j = k
    BY <1>1, RequestsAre
  <1>3. DOMAIN R = 1..Len(R)
    BY <1>2
  <1>4. \A k \in 1..Len(R) : R[k] \in RequestsOver(Made(batch))
    <2>1. \A k \in 1..Len(R) : R[k] \in ToSet(R)
      BY <1>3 DEF ToSet
    <2> QED
      BY <1>2, <2>1, RequestOver
  <1>5. R \in Seq(RequestsOver(Made(batch)))
    BY <1>2, <1>4
  <1>6. DistinctIds(R)
    BY <1>2 DEF DistinctIds, ToSet
  <1>7. \A r \in ToSet(R) : \E x \in ToSet(batch) :
           x.line.kind = "request" /\ r.index = x.index /\ r = Request(x)
    BY <1>2, RequestFields
  <1>8. DistinctIndices(R)
    BY <1>7 DEF IsBatch, DistinctIndices
  <1> QED
    BY <1>1, <1>5, <1>6, <1>7, <1>8

----------------------------------------------------------------------------
(* What can be written for a batch *)

\* A line of the batch that has its line in the output if the batch is not dropped
Kept(batch, x) ==
    \/ x.line.kind = "invalid"
    \/ /\ \E r \in ToSet(Requests(batch)) : r.index = x.index
       /\ x.line.inputs # <<>>

\* Items for the lines of a batch: one each at most, and one for each line that is kept
Outcome(batch, items) ==
    /\ \A a \in items : \E x \in ToSet(batch) :
          a.index = x.index /\ (a.kind = "invalid" <=> x.line.kind = "invalid")
    /\ \A a, b \in items : a.index = b.index => a = b
    /\ \A a \in items : a.kind = "answer" => a \in Answers(batch)
    /\ \A x \in ToSet(batch) : Kept(batch, x) => \E a \in items : a.index = x.index

\* Items for the requests, one each at most and, when they have inputs, one each
Results(batch, items) ==
    /\ \A a \in items : a.kind # "invalid" /\ \E r \in ToSet(Requests(batch)) : a.index = r.index
    /\ \A a, b \in items : a.index = b.index => a = b
    /\ \A a \in items : a.kind = "answer" => a \in Answers(batch)
    /\ \A r \in ToSet(Requests(batch)) : r.inputs # <<>> => \E a \in items : a.index = r.index

\* Every line that is not valid has its item, and no other line has one
LEMMA InvalidIs ==
    ASSUME NEW batch, IsBatch(batch)
    PROVE  /\ \A a \in Invalid(batch) : a.kind = "invalid" /\
                 \E x \in ToSet(batch) : x.line.kind = "invalid" /\ a.index = x.index
           /\ \A a, b \in Invalid(batch) : a.index = b.index => a = b
           /\ \A x \in ToSet(batch) : x.line.kind = "invalid" =>
                 \E a \in Invalid(batch) : a.index = x.index
  <1>1. PICK S : S = ToSet(Of(batch, "invalid"))
    OBVIOUS
  <1>2. S = {x \in ToSet(batch) : x.line.kind = "invalid"}
    BY <1>1, OfKind
  <1>3. Invalid(batch) = {[index |-> x.index, kind |-> "invalid", outputs |-> <<>>] : x \in S}
    BY <1>1 DEF Invalid, Item
  <1>4. PICK V : V = Invalid(batch)
    OBVIOUS
  <1>5. \A a \in V : \E x \in S : a = [index |-> x.index, kind |-> "invalid", outputs |-> <<>>]
    BY <1>3, <1>4
  <1>6. \A x \in S : [index |-> x.index, kind |-> "invalid", outputs |-> <<>>] \in V
    BY <1>3, <1>4
  <1>7. \A a \in V : a.kind = "invalid" /\ \E x \in S : a.index = x.index
    BY <1>5
  <1>8. \A a, b \in V : a.index = b.index => a = b
    BY <1>5
  <1>9. ASSUME NEW x \in S PROVE \E a \in V : a.index = x.index
    <2>1. PICK a : a = [index |-> x.index, kind |-> "invalid", outputs |-> <<>>]
      OBVIOUS
    <2> QED
      BY <1>6, <2>1
  <1>10. \A x \in ToSet(batch) : x.line.kind = "invalid" <=> x \in S
    BY <1>2
  <1>11. \A x \in S : x \in ToSet(batch) /\ x.line.kind = "invalid"
    BY <1>2
  <1> QED
    BY <1>4, <1>7, <1>8, <1>9, <1>10, <1>11

\* Every request has its error, if there are errors
LEMMA ErrorsAre ==
    ASSUME NEW batch, IsBatch(batch)
    PROVE  Results(batch, Errors(batch))
  <1>1. PICK S : S = ToSet(Requests(batch))
    OBVIOUS
  <1>2. PICK E : E = Errors(batch)
    OBVIOUS
  <1>3. E = {[index |-> r.index, kind |-> "error", outputs |-> <<>>] : r \in S}
    BY <1>1, <1>2 DEF Errors, Item
  <1>4. \A a \in E : \E r \in S : a = [index |-> r.index, kind |-> "error", outputs |-> <<>>]
    BY <1>3
  <1>5. \A r \in S : [index |-> r.index, kind |-> "error", outputs |-> <<>>] \in E
    BY <1>3
  <1>6. \A a \in E : a.kind = "error" /\ \E r \in S : a.index = r.index
    BY <1>4
  <1>7. \A a, b \in E : a.index = b.index => a = b
    BY <1>4
  <1>8. ASSUME NEW r \in S PROVE \E a \in E : a.index = r.index
    <2>1. PICK a : a = [index |-> r.index, kind |-> "error", outputs |-> <<>>]
      OBVIOUS
    <2> QED
      BY <1>5, <2>1
  <1> QED
    BY <1>1, <1>2, <1>6, <1>7, <1>8 DEF Results

\* Every request with inputs has its answer, if there are answers
LEMMA AnswersAre ==
    ASSUME NEW batch, IsBatch(batch)
    PROVE  Results(batch, Answers(batch))
  <1>1. PICK R : R = Requests(batch)
    OBVIOUS
  <1>2. R \in Seq(RequestsOver(Made(batch))) /\ DistinctIds(R) /\ DistinctIndices(R)
    BY <1>1, RequestsTyped
  <1>3. PICK outputs : outputs = MergeRequests(R)
    OBVIOUS
  <1>4. PICK S : S = ToSet(SplitResponse(R, outputs))
    OBVIOUS
  <1>5. /\ \A a \in S : \E r \in ToSet(R) : a.id = r.id
        /\ \A a, b \in S : a.id = b.id => a = b
        /\ outputs # <<>> => \A r \in ToSet(R) : r.inputs # <<>> => \E a \in S : a.id = r.id
    BY <1>2, <1>4, ResponsesAre
  <1> DEFINE out(o) == [j \in DOMAIN o |-> [name |-> o[j].name, size |-> o[j].size, data |-> o[j].data]]
             indexOf(id) == (CHOOSE r \in ToSet(R) : r.id = id).index
  <1>6. Answers(batch) = {[index |-> indexOf(a.id), kind |-> "answer", outputs |-> out(a.outputs)] : a \in S}
    BY <1>1, <1>3, <1>4 DEF Answers, Infer, Item
  <1>7. \A r \in ToSet(R) : indexOf(r.id) = r.index
    <2> SUFFICES ASSUME NEW r \in ToSet(R) PROVE indexOf(r.id) = r.index
      OBVIOUS
    <2>1. \A q \in ToSet(R) : q.id = r.id => q = r
      BY <1>2 DEF DistinctIds
    <2> QED
      BY <2>1
  <1> HIDE DEF indexOf, out
  <1>8. PICK A : A = Answers(batch)
    OBVIOUS
  <1>9. A = {[index |-> indexOf(a.id), kind |-> "answer", outputs |-> out(a.outputs)] : a \in S}
    BY <1>6, <1>8
  <1>10. \A a \in A : a.kind = "answer" /\ \E r \in ToSet(R) : a.index = r.index
    BY <1>5, <1>7, <1>9
  <1>11. \A a, b \in A : a.index = b.index => a = b
    <2> SUFFICES ASSUME NEW a \in A, NEW b \in A, a.index = b.index PROVE a = b
      OBVIOUS
    <2>1. PICK c \in S : a = [index |-> indexOf(c.id), kind |-> "answer", outputs |-> out(c.outputs)]
      BY <1>9
    <2>2. PICK d \in S : b = [index |-> indexOf(d.id), kind |-> "answer", outputs |-> out(d.outputs)]
      BY <1>9
    <2>3. PICK q \in ToSet(R) : c.id = q.id
      BY <1>5
    <2>4. PICK r \in ToSet(R) : d.id = r.id
      BY <1>5
    <2>5. q.index = r.index
      BY <1>7, <2>1, <2>2, <2>3, <2>4
    <2>6. c = d
      BY <1>2, <1>5, <2>3, <2>4, <2>5 DEF DistinctIndices
    <2> QED
      BY <2>1, <2>2, <2>6
  <1>12. ASSUME NEW r \in ToSet(R), r.inputs # <<>>
         PROVE  \E a \in A : a.index = r.index
    <2>1. outputs # <<>>
      BY <1>2, <1>3, <1>12, MergedAre
    <2>2. PICK a \in S : a.id = r.id
      BY <1>5, <1>12, <2>1
    <2>3. PICK b : b = [index |-> indexOf(a.id), kind |-> "answer", outputs |-> out(a.outputs)]
      OBVIOUS
    <2>4. b \in A
      BY <1>9, <2>3
    <2>5. b.index = r.index
      BY <1>7, <2>2, <2>3
    <2> QED
      BY <2>4, <2>5
  <1> QED
    BY <1>1, <1>8, <1>10, <1>11, <1>12 DEF Results

\* The results for the requests and what is not valid make an outcome
LEMMA ResultsMakeOutcome ==
    ASSUME NEW batch, IsBatch(batch), NEW items, Results(batch, items)
    PROVE  Outcome(batch, items \cup Invalid(batch))
  <1>1. PICK V : V = Invalid(batch)
    OBVIOUS
  <1>2. PICK B : B = ToSet(batch)
    OBVIOUS
  <1>3. PICK R : R = ToSet(Requests(batch))
    OBVIOUS
  <1>4. /\ \A a \in V : a.kind = "invalid" /\ \E x \in B : x.line.kind = "invalid" /\ a.index = x.index
        /\ \A a, b \in V : a.index = b.index => a = b
        /\ \A x \in B : x.line.kind = "invalid" => \E a \in V : a.index = x.index
    BY <1>1, <1>2, InvalidIs
  <1>5. \A r \in R : \E x \in B : x.line.kind = "request" /\ r.index = x.index /\ r = Request(x)
    BY <1>2, <1>3, RequestsTyped
  <1>6. \A x, y \in B : x.index = y.index => x = y
    BY <1>2 DEF IsBatch
  <1>7. /\ \A a \in items : a.kind # "invalid" /\ \E r \in R : a.index = r.index
        /\ \A a, b \in items : a.index = b.index => a = b
        /\ \A a \in items : a.kind = "answer" => a \in Answers(batch)
        /\ \A r \in R : r.inputs # <<>> => \E a \in items : a.index = r.index
    BY <1>3 DEF Results
  <1>8. \A a \in items : \E x \in B : x.line.kind = "request" /\ a.index = x.index
    BY <1>5, <1>7
  <1>9. \A a \in items \cup V : \E x \in B :
           a.index = x.index /\ (a.kind = "invalid" <=> x.line.kind = "invalid")
    BY <1>4, <1>7, <1>8
  <1>10. \A a, b \in items \cup V : a.index = b.index => a = b
    <2>1. \A a \in items, b \in V : a.index # b.index
      <3> SUFFICES ASSUME NEW a \in items, NEW b \in V, a.index = b.index PROVE FALSE
        OBVIOUS
      <3>1. PICK x \in B : x.line.kind = "request" /\ a.index = x.index
        BY <1>8
      <3>2. PICK y \in B : y.line.kind = "invalid" /\ b.index = y.index
        BY <1>4
      <3> QED
        BY <1>6, <3>1, <3>2
    <2> QED
      BY <1>4, <1>7, <2>1
  <1>11. \A a \in items \cup V : a.kind = "answer" => a \in Answers(batch)
    BY <1>4, <1>7
  <1>12. ASSUME NEW x \in B, Kept(batch, x)
         PROVE  \E a \in items \cup V : a.index = x.index
    <2>1. CASE x.line.kind = "invalid"
      BY <1>4, <2>1
    <2>2. CASE x.line.kind # "invalid"
      <3>1. PICK r \in R : r.index = x.index
        BY <1>3, <1>12, <2>2 DEF Kept
      <3>2. x.line.inputs # <<>>
        BY <1>12, <2>2 DEF Kept
      <3>3. r = Request(x)
        BY <1>5, <1>6, <3>1
      <3>4. r.inputs # <<>>
        <4>1. DOMAIN r.inputs = DOMAIN x.line.inputs
          BY <3>3, RequestFields
        <4>2. x.line.inputs \in Seq(Inputs)
          <5>1. x \in Rows
            BY <1>2 DEF IsBatch, ToSet
          <5> QED
            BY <5>1 DEF Rows, Lines
        <4>3. 1 \in DOMAIN x.line.inputs
          BY <3>2, <4>2
        <4> QED
          BY <4>1, <4>3
      <3> QED
        BY <1>7, <3>1, <3>4
    <2> QED
      BY <2>1, <2>2
  <1>13. Outcome(batch, items \cup V)
    BY <1>2, <1>9, <1>10, <1>11, <1>12 DEF Outcome
  <1> QED
    BY <1>1, <1>13

\* When no line is a request, the lines that are not valid are an outcome
LEMMA InvalidIsOutcome ==
    ASSUME NEW batch, IsBatch(batch), Of(batch, "invalid") = batch
    PROVE  Outcome(batch, Invalid(batch))
  <1>1. \A x \in ToSet(batch) : x.line.kind = "invalid"
    BY OfKind
  <1>2. Results(batch, {})
    <2>1. ToSet(Requests(batch)) = {}
      BY <1>1, RequestsTyped
    <2> QED
      BY <2>1 DEF Results
  <1>3. {} \cup Invalid(batch) = Invalid(batch)
    OBVIOUS
  <1> QED
    BY <1>2, <1>3, ResultsMakeOutcome

\* A batch without a garbled line and without a request has invalid lines only
LEMMA AllInvalid ==
    ASSUME NEW batch, IsBatch(batch), Of(batch, "garbled") = <<>>, Requests(batch) = <<>>
    PROVE  Of(batch, "invalid") = batch
  <1>1. \A x \in ToSet(batch) : x.line.kind \in {"request", "invalid", "garbled"}
    <2>1. \A x \in ToSet(batch) : x \in Rows
      BY DEF IsBatch, ToSet
    <2> QED
      BY <2>1 DEF Rows, Lines
  <1>2. \A x \in ToSet(batch) : x.line.kind # "garbled"
    <2>1. ToSet(<<>>) = {}
      BY DEF ToSet
    <2> QED
      BY <2>1, OfKind
  <1>3. \A x \in ToSet(batch) : x.line.kind # "request"
    <2>1. ToSet(Requests(batch)) = {}
      BY DEF ToSet
    <2> QED
      BY <2>1, RequestsAre
  <1>4. \A k \in DOMAIN batch : batch[k].line.kind = "invalid"
    BY <1>1, <1>2, <1>3 DEF ToSet
  <1>5. {k \in DOMAIN batch : batch[k].line.kind = "invalid"} = DOMAIN batch
    BY <1>4
  <1>6. batch \in Seq(Rows)
    BY DEF IsBatch
  <1> QED
    BY <1>5, <1>6, AtAll DEF Of

----------------------------------------------------------------------------
(* Sets that are nowhere the same: those waiting in F, worked on in G, waiting in H, and D *)

\* No two sets of F meet, no set of F meets one of G, none meets X
Disjoint(F) == \A x, y \in DOMAIN F : x # y => F[x] \cap F[y] = {}
Apart(F, G) == \A x \in DOMAIN F : \A y \in DOMAIN G : F[x] \cap G[y] = {}
Clear(F, X) == \A x \in DOMAIN F : F[x] \cap X = {}

\* Nothing is in two of these sets
Separated(F, G, H, D) ==
    /\ Disjoint(F) /\ Disjoint(G) /\ Disjoint(H)
    /\ Apart(F, G) /\ Apart(F, H) /\ Apart(G, H)
    /\ Clear(F, D) /\ Clear(G, D) /\ Clear(H, D)

\* F2 is F without its first, or with another one at its end
IsTail(F2, F) == \E n \in Nat : /\ DOMAIN F = 1..n /\ n > 0 /\ DOMAIN F2 = 1..(n - 1)
                                /\ \A k \in 1..(n - 1) : F2[k] = F[k + 1]
IsAppend(F2, F, X) == \E n \in Nat : /\ DOMAIN F = 1..n /\ DOMAIN F2 = 1..(n + 1)
                                     /\ \A k \in 1..n : F2[k] = F[k]
                                     /\ F2[n + 1] = X
\* G2 is G but for w
IsChange(G2, G, w) == w \in DOMAIN G /\ DOMAIN G2 = DOMAIN G /\ \A v \in DOMAIN G : v # w => G2[v] = G[v]

\* What was in a queue before its first was taken
LEMMA TailFrom ==
    ASSUME NEW F, NEW F2, IsTail(F2, F)
    PROVE  /\ 1 \in DOMAIN F
           /\ \A x \in DOMAIN F2 : x + 1 \in DOMAIN F /\ x + 1 # 1 /\ F2[x] = F[x + 1]
           /\ \A x, y \in DOMAIN F2 : x # y => x + 1 # y + 1
           /\ \A y \in DOMAIN F : y = 1 \/ \E x \in DOMAIN F2 : F2[x] = F[y]
  <1>1. PICK n \in Nat : /\ DOMAIN F = 1..n /\ n > 0 /\ DOMAIN F2 = 1..(n - 1)
                         /\ \A k \in 1..(n - 1) : F2[k] = F[k + 1]
    BY DEF IsTail
  <1>2. \A x \in 1..(n - 1) : x + 1 \in 1..n /\ x + 1 # 1
    OBVIOUS
  <1>3. \A x, y \in 1..(n - 1) : x # y => x + 1 # y + 1
    OBVIOUS
  <1>4. \A y \in 1..n : y = 1 \/ (y - 1 \in 1..(n - 1) /\ (y - 1) + 1 = y)
    OBVIOUS
  <1>5. \A y \in DOMAIN F : y = 1 \/ \E x \in DOMAIN F2 : F2[x] = F[y]
    BY <1>1, <1>4
  <1> QED
    BY <1>1, <1>2, <1>3, <1>5

\* What was in a queue before another one came
LEMMA AppendFrom ==
    ASSUME NEW F, NEW F2, NEW X, IsAppend(F2, F, X)
    PROVE  /\ \A x \in DOMAIN F2 : F2[x] = X \/ (x \in DOMAIN F /\ F2[x] = F[x])
           /\ \A x, y \in DOMAIN F2 : x # y => x \in DOMAIN F \/ y \in DOMAIN F
           /\ \A x \in DOMAIN F : x \in DOMAIN F2 /\ F2[x] = F[x]
           /\ \A x \in DOMAIN F2 : x \in DOMAIN F \/ F2[x] = X
           /\ \E x \in DOMAIN F2 : F2[x] = X
  <1>1. PICK n \in Nat : /\ DOMAIN F = 1..n /\ DOMAIN F2 = 1..(n + 1)
                         /\ \A k \in 1..n : F2[k] = F[k]
                         /\ F2[n + 1] = X
    BY DEF IsAppend
  <1>2. \A x \in 1..(n + 1) : x \in 1..n \/ x = n + 1
    OBVIOUS
  <1>3. \A x \in 1..n : x \in 1..(n + 1)
    OBVIOUS
  <1>4. n + 1 \in 1..(n + 1)
    OBVIOUS
  <1> QED
    BY <1>1, <1>2, <1>3, <1>4

\* A set that is new is put in the first queue
LEMMA Arrives ==
    ASSUME NEW F, NEW G, NEW H, NEW D, Separated(F, G, H, D), NEW F2, NEW X, IsAppend(F2, F, X),
           Clear(F, X), Clear(G, X), Clear(H, X), X \cap D = {}
    PROVE  Separated(F2, G, H, D)
  <1>1. /\ \A x \in DOMAIN F2 : F2[x] = X \/ (x \in DOMAIN F /\ F2[x] = F[x])
        /\ \A x, y \in DOMAIN F2 : x # y => x \in DOMAIN F \/ y \in DOMAIN F
        /\ \A x \in DOMAIN F : x \in DOMAIN F2 /\ F2[x] = F[x]
    BY AppendFrom
  <1>2. Disjoint(F2)
    BY <1>1 DEF Separated, Disjoint, Clear
  <1>3. Apart(F2, G)
    BY <1>1 DEF Separated, Apart, Clear
  <1>4. Apart(F2, H)
    BY <1>1 DEF Separated, Apart, Clear
  <1>5. Clear(F2, D)
    BY <1>1 DEF Separated, Clear
  <1> QED
    BY <1>2, <1>3, <1>4, <1>5 DEF Separated

\* The first of the queue is taken, or what is left of it
LEMMA Taken ==
    ASSUME NEW F, NEW G, NEW H, NEW D, Separated(F, G, H, D), NEW F2, IsTail(F2, F),
           NEW G2, NEW w, IsChange(G2, G, w), G2[w] \subseteq F[1]
    PROVE  Separated(F2, G2, H, D)
  <1>1. /\ 1 \in DOMAIN F
        /\ \A x \in DOMAIN F2 : x + 1 \in DOMAIN F /\ x + 1 # 1 /\ F2[x] = F[x + 1]
        /\ \A x, y \in DOMAIN F2 : x # y => x + 1 # y + 1
    BY TailFrom
  <1>2. DOMAIN G2 = DOMAIN G /\ \A v \in DOMAIN G : v = w \/ G2[v] = G[v]
    BY DEF IsChange
  <1>3. Disjoint(F2)
    BY <1>1 DEF Separated, Disjoint
  <1>4. Disjoint(G2)
    <2>1. \A v \in DOMAIN G : v # w => G2[w] \cap G2[v] = {}
      BY <1>1, <1>2 DEF Separated, Apart
    <2> QED
      BY <1>2, <2>1 DEF Separated, Disjoint
  <1>5. Apart(F2, G2)
    <2>1. \A x \in DOMAIN F2 : F2[x] \cap F[1] = {}
      BY <1>1 DEF Separated, Disjoint
    <2> QED
      BY <1>1, <1>2, <2>1 DEF Separated, Apart
  <1>6. Apart(F2, H)
    BY <1>1 DEF Separated, Apart
  <1>7. Apart(G2, H)
    BY <1>1, <1>2 DEF Separated, Apart
  <1>8. Clear(F2, D)
    BY <1>1 DEF Separated, Clear
  <1>9. Clear(G2, D)
    BY <1>1, <1>2 DEF Separated, Clear
  <1> QED
    BY <1>3, <1>4, <1>5, <1>6, <1>7, <1>8, <1>9 DEF Separated

\* Some of what is worked on is dropped
LEMMA Dropped ==
    ASSUME NEW F, NEW G, NEW H, NEW D, Separated(F, G, H, D), NEW G2, DOMAIN G2 = DOMAIN G,
           \A v \in DOMAIN G : G2[v] \subseteq G[v]
    PROVE  Separated(F, G2, H, D)
  <1>1. Disjoint(G2)
    BY DEF Separated, Disjoint
  <1>2. Apart(F, G2)
    BY DEF Separated, Apart
  <1>3. Apart(G2, H)
    BY DEF Separated, Apart
  <1>4. Clear(G2, D)
    BY DEF Separated, Clear
  <1> QED
    BY <1>1, <1>2, <1>3, <1>4 DEF Separated

\* What is worked on, or some of it, is put in the second queue
LEMMA Passed ==
    ASSUME NEW F, NEW G, NEW H, NEW D, Separated(F, G, H, D), NEW G2, NEW w, IsChange(G2, G, w),
           G2[w] = {}, NEW H2, NEW X, IsAppend(H2, H, X), X \subseteq G[w]
    PROVE  Separated(F, G2, H2, D)
  <1>1. /\ \A x \in DOMAIN H2 : H2[x] = X \/ (x \in DOMAIN H /\ H2[x] = H[x])
        /\ \A x, y \in DOMAIN H2 : x # y => x \in DOMAIN H \/ y \in DOMAIN H
        /\ \A x \in DOMAIN H : x \in DOMAIN H2 /\ H2[x] = H[x]
    BY AppendFrom
  <1>2. w \in DOMAIN G /\ DOMAIN G2 = DOMAIN G /\ \A v \in DOMAIN G : v # w => G2[v] = G[v]
    BY DEF IsChange
  <1>3. Disjoint(G2) /\ Apart(F, G2) /\ Clear(G2, D)
    <2>1. \A v \in DOMAIN G : G2[v] \subseteq G[v]
      BY <1>2
    <2>2. Separated(F, G2, H, D)
      BY <1>2, <2>1, Dropped
    <2> QED
      BY <2>2 DEF Separated
  <1>4. Disjoint(H2)
    <2>1. \A x \in DOMAIN H : H[x] \cap X = {}
      BY <1>2 DEF Separated, Apart
    <2> QED
      BY <1>1, <2>1 DEF Separated, Disjoint
  <1>5. Apart(F, H2)
    BY <1>1, <1>2 DEF Separated, Apart
  <1>6. Apart(G2, H2)
    <2>1. \A v \in DOMAIN G2 : G2[v] \cap X = {}
      BY <1>2 DEF Separated, Disjoint
    <2>2. \A v \in DOMAIN G2 : \A x \in DOMAIN H : G2[v] \cap H[x] = {}
      BY <1>2 DEF Separated, Apart
    <2> QED
      BY <1>1, <2>1, <2>2 DEF Apart
  <1>7. Clear(H2, D)
    BY <1>1, <1>2 DEF Separated, Clear
  <1> QED
    BY <1>3, <1>4, <1>5, <1>6, <1>7 DEF Separated

\* The first of the second queue, or some of it, is done
LEMMA Stored ==
    ASSUME NEW F, NEW G, NEW H, NEW D, Separated(F, G, H, D), NEW H2, IsTail(H2, H),
           NEW D2, D2 \subseteq D \cup H[1]
    PROVE  Separated(F, G, H2, D2)
  <1>1. /\ 1 \in DOMAIN H
        /\ \A x \in DOMAIN H2 : x + 1 \in DOMAIN H /\ x + 1 # 1 /\ H2[x] = H[x + 1]
        /\ \A x, y \in DOMAIN H2 : x # y => x + 1 # y + 1
    BY TailFrom
  <1>2. Disjoint(H2)
    BY <1>1 DEF Separated, Disjoint
  <1>3. Apart(F, H2)
    BY <1>1 DEF Separated, Apart
  <1>4. Apart(G, H2)
    BY <1>1 DEF Separated, Apart
  <1>5. Clear(F, D2)
    BY <1>1 DEF Separated, Clear, Apart
  <1>6. Clear(G, D2)
    BY <1>1 DEF Separated, Clear, Apart
  <1>7. Clear(H2, D2)
    <2>1. \A x \in DOMAIN H2 : H2[x] \cap H[1] = {} /\ H2[x] \cap D = {}
      BY <1>1 DEF Separated, Disjoint, Clear
    <2> QED
      BY <2>1 DEF Clear
  <1> QED
    BY <1>2, <1>3, <1>4, <1>5, <1>6, <1>7 DEF Separated

----------------------------------------------------------------------------
(* The inductive invariant *)

\* All items there are, and what a consumer may be at
Items == UNION {Answers(b) \cup Errors(b) \cup Invalid(b) : b \in Batches}
Consumers == [at : {"idle", "send", "put"}, batch : Batches \cup {<<>>}, tries : Nat,
              items : SUBSET Items]

\* The values of the variables; what was read ends where a batch ends
TypeOK ==
    /\ setup \in Setups
    /\ main \in {"produce", "joinIn", "joinOut", "done", "raised"}
    /\ next \in 0..Length
    /\ next = Length \/ \E q \in Nat : next = q * setup.batchSize
    /\ queueIn \in Seq(Batches)
    /\ worker \in [Workers -> Consumers]
    /\ queueOut \in Seq(SUBSET Items)

\* The consumers that hold a batch
Busy == {w \in Workers : worker[w].at # "idle"}

\* task_done is called once for each batch that was taken and each item that was written
Counted ==
    /\ unfinishedIn = Len(queueIn) + Cardinality(Busy)
    /\ unfinishedOut = Len(queueOut)

\* What has been awaited is empty
Stages ==
    /\ main # "produce" => next = Length
    /\ main \in {"joinOut", "done", "raised"} => queueIn = <<>> /\ Busy = {}
    /\ main \in {"done", "raised"} => queueOut = <<>>

\* A batch of the lines that have been read
Read(batch) == \E i \in 0..next - 1 : batch = BatchOf(i)

\* An item that is right about its line
Sound(a) ==
    /\ a.index \in 0..next - 1
    /\ a.kind = "invalid" <=> Line(a.index).kind = "invalid"
    /\ a.kind = "answer" => a \in Answers(BatchOf(a.index))

\* One item for a line
OneEach(items) == \A a, b \in items : a.index = b.index => a = b

\* Everything comes from lines that have been read, and goes with their outcome
Origin ==
    /\ \A k \in DOMAIN queueIn : Read(queueIn[k])
    /\ \A w \in Workers :
          /\ worker[w].at = "idle" => worker[w].batch = <<>>
          /\ worker[w].at # "idle" => Read(worker[w].batch)
          /\ worker[w].at = "put" => Outcome(worker[w].batch, worker[w].items)
    /\ \A k \in DOMAIN queueOut : OneEach(queueOut[k]) /\ \A a \in queueOut[k] : Sound(a)

\* What has been written is right, and there once
Stock ==
    /\ \A a \in BagToSet(written) : Sound(a) /\ written[a] = 1
    /\ OneEach(BagToSet(written))

\* The lines that items are for
Numbered(items) == {a.index : a \in items}

\* Where the lines of the file are
Queued == [k \in DOMAIN queueIn |-> IndicesOf(queueIn[k])]
Working == [w \in Workers |-> IndicesOf(worker[w].batch)]
Finished == [k \in DOMAIN queueOut |-> Numbered(queueOut[k])]
Done == Numbered(BagToSet(written))

\* No line is in two places
Separate == Separated(Queued, Working, Finished, Done)

\* A line is somewhere
Held(i, F, G, H, D) ==
    \/ \E k \in DOMAIN F : i \in F[k]
    \/ \E w \in DOMAIN G : i \in G[w]
    \/ \E k \in DOMAIN H : i \in H[k]
    \/ i \in D

\* Every line that has to be reported is somewhere between the file and the output
Covered ==
    setup.faults \cap {"answer", "write"} = {} =>
        \A i \in 0..next - 1 : Reported(i) => Held(i, Queued, Working, Finished, Done)

\* The inductive invariant
IInv == TypeOK /\ Counted /\ Stages /\ Origin /\ Stock /\ Separate /\ Covered

----------------------------------------------------------------------------
\* The numbers of the command line
LEMMA SetupIs ==
    ASSUME TypeOK
    PROVE  /\ IsSetup(setup) /\ setup.batchSize \in Nat \ {0}
           /\ Length \in Nat /\ Length = Len(setup.file)
           /\ setup.workers \in Nat \ {0} /\ setup.retries \in Nat
           /\ next \in Nat /\ next <= Length
  <1>1. setup \in Setups /\ next \in 0..Length
    BY DEF TypeOK
  <1>2. /\ setup.file \in Seq(Lines) /\ setup.batchSize \in Nat \ {0}
        /\ setup.workers \in Nat \ {0} /\ setup.retries \in Nat
    BY <1>1, SetupsAssumption
  <1>3. Length \in Nat /\ Length = Len(setup.file)
    BY <1>2 DEF Length
  <1> QED
    BY <1>1, <1>2, <1>3 DEF IsSetup

\* The batches of a file are batches
LEMMA BatchesHere ==
    ASSUME TypeOK, NEW i \in 0..Length - 1
    PROVE  /\ BatchOf(i) \in Batches /\ IsBatch(BatchOf(i))
           /\ i \in IndicesOf(BatchOf(i))
           /\ \A j : j \in IndicesOf(BatchOf(i)) <=>
                        j \in 0..Length - 1 /\ Number(setup, j) = Number(setup, i)
           /\ \A x \in ToSet(BatchOf(i)) : x.line = Line(x.index)
  <1>1. IsSetup(setup) /\ Length \in Nat /\ Length = Len(setup.file)
    BY SetupIs
  <1>2. /\ IsBatch(BatchIn(setup, i))
        /\ \A j : j \in IndicesOf(BatchIn(setup, i)) <=>
                     j \in 0..Len(setup.file) - 1 /\ Number(setup, j) = Number(setup, i)
        /\ \A x \in ToSet(BatchIn(setup, i)) : x.line = setup.file[x.index + 1]
    BY <1>1, BatchesAre
  <1>3. BatchIn(setup, i) \in Batches
    <2>1. i + 1 \in DOMAIN setup.file /\ (i + 1) - 1 = i
      BY <1>1 DEF IsSetup
    <2>2. BatchIn(setup, i) \in {BatchIn(setup, k - 1) : k \in DOMAIN setup.file}
      BY <2>1
    <2>3. setup \in Setups
      BY DEF TypeOK
    <2> QED
      BY <2>2, <2>3 DEF Batches
  <1> QED
    BY <1>1, <1>2, <1>3 DEF BatchOf, Line

\* All batches of the setups are batches
LEMMA AnyBatch ==
    ASSUME NEW batch \in Batches
    PROVE  IsBatch(batch)
  <1>1. PICK s \in Setups : \E k \in DOMAIN s.file : batch = BatchIn(s, k - 1)
    BY DEF Batches
  <1>2. IsSetup(s)
    BY SetupsAssumption DEF IsSetup
  <1> QED
    BY <1>1, <1>2, BatchesAre

\* Numbers of micro-batches
LEMMA WholeBatches ==
    ASSUME NEW b \in Nat \ {0}, NEW L \in Nat, NEW n \in 0..L, n = L \/ \E q \in Nat : n = q * b,
           NEW i \in 0..n - 1, NEW j \in 0..L - 1, i \div b = j \div b
    PROVE  j < n
  <1>1. CASE n = L
    BY <1>1
  <1>2. CASE \E q \in Nat : n = q * b
    <2>1. PICK q \in Nat : n = q * b
      BY <1>2
    <2>2. i < n /\ i \in Nat /\ j \in Nat
      OBVIOUS
    <2>3. i \div b < q
      BY <2>1, <2>2
    <2>4. j \div b < q
      BY <2>3
    <2> QED
      BY <2>1, <2>2, <2>4
  <1> QED
    BY <1>1, <1>2

\* Where the next batch ends
After(n, b, L) == IF n + b <= L THEN n + b ELSE L

\* A batch is read as a whole, and so are all before it
LEMMA NextBatch ==
    ASSUME NEW b \in Nat \ {0}, NEW L \in Nat, NEW n \in Nat, n < L, \E q \in Nat : n = q * b,
           NEW m, m = After(n, b, L)
    PROVE  /\ m \in 0..L /\ n < m
           /\ m = L \/ \E q \in Nat : m = q * b
           /\ \A j \in 0..L - 1 : j \div b = n \div b <=> n <= j /\ j < m
  <1>1. PICK q \in Nat : n = q * b
    OBVIOUS
  <1>2. n + b = (q + 1) * b /\ q + 1 \in Nat
    BY <1>1
  <1>3. m \in 0..L /\ n < m
    BY DEF After
  <1>4. m = L \/ \E p \in Nat : m = p * b
    BY <1>2 DEF After
  <1>5. n \div b = q
    BY <1>1
  <1>6. ASSUME NEW j \in 0..L - 1 PROVE j \div b = n \div b <=> n <= j /\ j < m
    <2>1. j \in Nat /\ j \div b \in Nat
      OBVIOUS
    <2>2. j < n <=> j \div b < q
      BY <1>1, <2>1
    <2>3. j < n + b <=> j \div b < q + 1
      BY <1>2, <2>1
    <2>4. j < n + b <=> j < m
      BY <2>1 DEF After
    <2> QED
      BY <1>5, <2>1, <2>2, <2>3, <2>4
  <1> QED
    BY <1>3, <1>4, <1>6

\* Every line of a batch that has been read has been read
LEMMA ReadIs ==
    ASSUME TypeOK, NEW batch, Read(batch)
    PROVE  /\ batch \in Batches /\ IsBatch(batch)
           /\ \A j \in IndicesOf(batch) : j \in 0..next - 1 /\ BatchOf(j) = batch
           /\ \A x \in ToSet(batch) : x.index \in 0..next - 1 /\ x.line = Line(x.index)
  <1>1. PICK i \in 0..next - 1 : batch = BatchOf(i)
    BY DEF Read
  <1>2. next \in Nat /\ Length \in Nat /\ next <= Length
    BY SetupIs
  <1>3. i \in 0..Length - 1
    BY <1>2
  <1>4. /\ batch \in Batches /\ IsBatch(batch)
        /\ \A j : j \in IndicesOf(batch) <=>
                        j \in 0..Length - 1 /\ Number(setup, j) = Number(setup, i)
        /\ \A x \in ToSet(batch) : x.line = Line(x.index)
    BY <1>1, <1>3, BatchesHere
  <1>5. ASSUME NEW j \in IndicesOf(batch)
        PROVE  j \in 0..next - 1 /\ BatchOf(j) = batch
    <2>1. j \in 0..Length - 1 /\ Number(setup, j) = Number(setup, i)
      BY <1>4
    <2>2. j < next
      <3>1. i \div setup.batchSize = j \div setup.batchSize
        BY <2>1 DEF Number
      <3>2. next \in 0..Length /\ (next = Length \/ \E q \in Nat : next = q * setup.batchSize)
        BY DEF TypeOK
      <3>3. setup.batchSize \in Nat \ {0}
        BY SetupIs
      <3> QED
        BY <1>2, <2>1, <3>1, <3>2, <3>3, WholeBatches
    <2>3. BatchOf(j) = BatchOf(i)
      BY <2>1, SameBatch DEF BatchOf
    <2> QED
      BY <1>1, <1>2, <2>1, <2>2, <2>3
  <1>6. \A x \in ToSet(batch) : x.index \in IndicesOf(batch)
    BY DEF IndicesOf
  <1> QED
    BY <1>4, <1>5, <1>6

\* An outcome is right about the lines of its batch
LEMMA OutcomeSound ==
    ASSUME TypeOK, NEW batch, Read(batch), NEW items, Outcome(batch, items)
    PROVE  /\ OneEach(items) /\ \A a \in items : Sound(a)
           /\ Numbered(items) \subseteq IndicesOf(batch)
           /\ \A i \in IndicesOf(batch) : Reported(i) => i \in Numbered(items)
  <1>1. /\ IsBatch(batch)
        /\ \A j \in IndicesOf(batch) : j \in 0..next - 1 /\ BatchOf(j) = batch
        /\ \A x \in ToSet(batch) : x.index \in 0..next - 1 /\ x.line = Line(x.index)
    BY ReadIs
  <1>2. OneEach(items)
    BY DEF Outcome, OneEach
  <1>3. ASSUME NEW a \in items PROVE Sound(a) /\ a.index \in IndicesOf(batch)
    <2>1. PICK x \in ToSet(batch) :
             a.index = x.index /\ (a.kind = "invalid" <=> x.line.kind = "invalid")
      BY DEF Outcome
    <2>2. a.index \in IndicesOf(batch)
      BY <2>1 DEF IndicesOf
    <2>3. a.kind = "answer" => a \in Answers(BatchOf(a.index))
      BY <1>1, <2>2 DEF Outcome
    <2> QED
      BY <1>1, <2>1, <2>2, <2>3 DEF Sound
  <1>4. ASSUME NEW i \in IndicesOf(batch), Reported(i) PROVE i \in Numbered(items)
    <2>1. PICK x \in ToSet(batch) : i = x.index
      BY DEF IndicesOf
    <2>2. BatchOf(i) = batch /\ Line(i) = x.line
      BY <1>1, <2>1
    <2>3. Kept(batch, x)
      BY <1>4, <2>1, <2>2 DEF Reported, Kept
    <2>4. PICK a \in items : a.index = x.index
      BY <2>3 DEF Outcome
    <2> QED
      BY <2>1, <2>4 DEF Numbered
  <1> QED
    BY <1>2, <1>3, <1>4 DEF Numbered

\* A queue without its first
LEMMA QueueTail ==
    ASSUME NEW T, NEW q \in Seq(T), q # <<>>
    PROVE  /\ Head(q) \in T /\ Head(q) = q[1] /\ 1 \in DOMAIN q
           /\ Tail(q) \in Seq(T) /\ Len(q) \in Nat /\ Len(q) > 0 /\ Len(Tail(q)) = Len(q) - 1
           /\ DOMAIN q = 1..Len(q) /\ DOMAIN Tail(q) = 1..(Len(q) - 1)
           /\ \A k \in 1..(Len(q) - 1) : Tail(q)[k] = q[k + 1] /\ k + 1 \in DOMAIN q
  OBVIOUS

\* A queue with one more at its end
LEMMA QueueAppend ==
    ASSUME NEW T, NEW q \in Seq(T), NEW e \in T
    PROVE  /\ Append(q, e) \in Seq(T) /\ Len(q) \in Nat /\ Len(Append(q, e)) = Len(q) + 1
           /\ DOMAIN q = 1..Len(q) /\ DOMAIN Append(q, e) = 1..(Len(q) + 1)
           /\ \A k \in 1..Len(q) : Append(q, e)[k] = q[k]
           /\ Append(q, e)[Len(q) + 1] = e
           /\ \A k \in DOMAIN Append(q, e) : Append(q, e)[k] = e \/ (k \in DOMAIN q /\ Append(q, e)[k] = q[k])
  OBVIOUS

\* The invariant holds before anything is read
LEMMA InitHolds == Init => IInv
  <1> SUFFICES ASSUME Init PROVE IInv
    OBVIOUS
  <1>1. setup \in Setups /\ Length \in Nat
    BY SetupsAssumption DEF Init, Length
  <1>2. TypeOK
    <2>1. 0 = 0 * setup.batchSize
      BY <1>1, SetupsAssumption
    <2>2. Idle \in Consumers
      BY DEF Idle, Consumers
    <2> QED
      BY <1>1, <2>1, <2>2 DEF Init, TypeOK
  <1>3. Busy = {}
    BY DEF Init, Busy, Idle
  <1>4. Counted
    BY <1>3, FS_EmptySet DEF Init, Counted
  <1>5. Stages
    BY DEF Init, Stages
  <1>6. Origin
    BY DEF Init, Origin, Idle
  <1>7. BagToSet(written) = {}
    BY DEF Init, BagToSet, EmptyBag, SetToBag
  <1>8. Stock
    BY <1>7 DEF Stock, OneEach
  <1>9. Separate
    <2>1. ToSet(<<>>) = {}
      BY DEF ToSet
    <2>2. IndicesOf(<<>>) = {}
      BY <2>1 DEF IndicesOf
    <2>3. DOMAIN Queued = {} /\ DOMAIN Finished = {} /\ Done = {}
      BY <1>7 DEF Init, Queued, Finished, Done, Numbered
    <2>4. \A w \in DOMAIN Working : Working[w] = {}
      BY <2>2 DEF Init, Working, Idle
    <2> QED
      BY <2>3, <2>4 DEF Separate, Separated, Disjoint, Apart, Clear
  <1>10. Covered
    BY DEF Init, Covered
  <1> QED
    BY <1>2, <1>4, <1>5, <1>6, <1>8, <1>9, <1>10 DEF IInv

\* What an action that leaves the file and the number of lines read alone leaves alone too
Still == UNCHANGED <<setup, next>>

\* Such an action changes nothing that is said of the file
LEMMA StillSame ==
    ASSUME TypeOK, Still
    PROVE  /\ Length' = Length /\ Workers' = Workers
           /\ \A i : (Reported(i)' <=> Reported(i)) /\ BatchOf(i)' = BatchOf(i) /\ Line(i)' = Line(i)
           /\ \A batch : Read(batch)' <=> Read(batch)
           /\ \A a : Sound(a)' <=> Sound(a)
  <1>1. setup' = setup /\ next' = next
    BY DEF Still
  <1>2. Length' = Length /\ Workers' = Workers
    BY <1>1 DEF Length, Workers
  <1>3. \A i : BatchOf(i)' = BatchOf(i) /\ Line(i)' = Line(i)
    BY <1>1 DEF BatchOf, Line
  <1>4. \A i : Reported(i)' <=> Reported(i)
    BY <1>1, <1>3 DEF Reported
  <1>5. \A batch : Read(batch)' <=> Read(batch)
    BY <1>1, <1>3 DEF Read
  <1>6. \A a : Sound(a)' <=> Sound(a)
    BY <1>1, <1>3 DEF Sound
  <1> QED
    BY <1>2, <1>3, <1>4, <1>5, <1>6

\* Lines that have been read stay read
LEMMA Longer ==
    ASSUME NEW n \in Nat, NEW m \in Nat, n < m
    PROVE  n \in 0..m - 1 /\ \A i \in 0..n - 1 : i \in 0..m - 1
  OBVIOUS

\* A line that has just been read is after those read before
LEMMA Later ==
    ASSUME NEW n \in Nat, NEW m \in Nat, NEW L \in Nat, m <= L, NEW i \in 0..m - 1, ~(i < n)
    PROVE  i \in 0..L - 1 /\ n <= i /\ i < m
  OBVIOUS

\* Lines that have not been read are in no other batch
LEMMA ProduceStep ==
    ASSUME IInv, Produce
    PROVE  IInv'
  <1>1. TypeOK /\ Counted /\ Stages /\ Origin /\ Stock /\ Separate /\ Covered
    BY DEF IInv
  <1>2. PICK B : B = BatchOf(next)
    OBVIOUS
  <1>3. /\ main = "produce" /\ next < Length
        /\ queueIn' = Append(queueIn, B)
        /\ next' = IF next + setup.batchSize <= Length THEN next + setup.batchSize ELSE Length
        /\ unfinishedIn' = unfinishedIn + 1
        /\ UNCHANGED <<setup, main, queueOut, unfinishedOut, worker, finalizer, written>>
    BY <1>2 DEF Produce, BatchOf
  <1>4. /\ setup.batchSize \in Nat \ {0} /\ Length \in Nat /\ setup.workers \in Nat \ {0}
        /\ next \in Nat /\ next \in 0..Length - 1 /\ next \in 0..Length
    BY <1>1, <1>3, SetupIs
  <1>5. Length' = Length /\ Workers' = Workers
    BY <1>3 DEF Length, Workers
  <1>6. \E q \in Nat : next = q * setup.batchSize
    BY <1>1, <1>3, <1>4 DEF TypeOK
  <1>7. /\ next' \in 0..Length /\ next < next'
        /\ next' = Length \/ \E q \in Nat : next' = q * setup.batchSize
        /\ \A j \in 0..Length - 1 :
              j \div setup.batchSize = next \div setup.batchSize <=> next <= j /\ j < next'
    <2>1. next' = After(next, setup.batchSize, Length)
      BY <1>3 DEF After
    <2> QED
      BY <1>3, <1>4, <1>6, <2>1, NextBatch
  <1>29. next' \in Nat /\ next < next' /\ next' <= Length
    BY <1>4, <1>7
  <1>8. /\ B \in Batches /\ IsBatch(B)
        /\ \A j : j \in IndicesOf(B) <=> j \in 0..Length - 1 /\ Number(setup, j) = Number(setup, next)
    BY <1>1, <1>2, <1>4, BatchesHere
  <1>9. \A j : j \in IndicesOf(B) <=> j \in 0..Length - 1 /\ next <= j /\ j < next'
    BY <1>7, <1>8 DEF Number
  <1>10. queueIn \in Seq(Batches)
    BY <1>1 DEF TypeOK
  <1>11. /\ queueIn' \in Seq(Batches) /\ Len(queueIn) \in Nat /\ Len(queueIn') = Len(queueIn) + 1
         /\ DOMAIN queueIn = 1..Len(queueIn) /\ DOMAIN queueIn' = 1..(Len(queueIn) + 1)
         /\ \A k \in 1..Len(queueIn) : queueIn'[k] = queueIn[k]
         /\ queueIn'[Len(queueIn) + 1] = B
         /\ \A k \in DOMAIN queueIn' : queueIn'[k] = B \/ (k \in DOMAIN queueIn /\ queueIn'[k] = queueIn[k])
    BY <1>3, <1>8, <1>10, QueueAppend
  <1>12. TypeOK'
    BY <1>1, <1>3, <1>5, <1>7, <1>11 DEF TypeOK
  <1>13. Busy' = Busy
    BY <1>3, <1>5 DEF Busy
  <1>14. Counted'
    <2>1. unfinishedIn' = unfinishedIn + 1 /\ unfinishedIn = Len(queueIn) + Cardinality(Busy)
      BY <1>1, <1>3 DEF Counted
    <2>2. Cardinality(Busy) \in Nat
      <3>1. IsFiniteSet(Workers)
        BY <1>4, FS_Interval DEF Workers
      <3>2. Busy \in SUBSET Workers
        BY DEF Busy
      <3> QED
        BY <3>1, <3>2, FS_Subset, FS_CardinalityType
    <2>3. unfinishedIn' = Len(queueIn') + Cardinality(Busy')
      BY <1>11, <1>13, <2>1, <2>2
    <2>4. unfinishedOut' = Len(queueOut')
      BY <1>1, <1>3 DEF Counted
    <2> QED
      BY <2>3, <2>4 DEF Counted
  <1>15. Stages'
    BY <1>3 DEF Stages
  <1>16. \A i : BatchOf(i)' = BatchOf(i) /\ Line(i)' = Line(i)
    BY <1>3 DEF BatchOf, Line
  <1>17. \A i \in 0..next - 1 : i \in 0..next' - 1
    BY <1>4, <1>29, Longer
  <1>18. \A batch : Read(batch) => Read(batch)'
    BY <1>16, <1>17 DEF Read
  <1>19. \A a : Sound(a) => Sound(a)'
    BY <1>16, <1>17 DEF Sound
  <1>20. Read(B)'
    <2>1. next \in 0..next' - 1
      BY <1>4, <1>29, Longer
    <2> QED
      BY <1>2, <1>16, <2>1 DEF Read
  <1>21. Origin'
    <2>1. (\A k \in DOMAIN queueIn : Read(queueIn[k]))'
      BY <1>1, <1>11, <1>18, <1>20 DEF Origin
    <2>2. (\A w \in Workers :
             /\ worker[w].at = "idle" => worker[w].batch = <<>>
             /\ worker[w].at # "idle" => Read(worker[w].batch)
             /\ worker[w].at = "put" => Outcome(worker[w].batch, worker[w].items))'
      BY <1>1, <1>3, <1>5, <1>18 DEF Origin
    <2>3. (\A k \in DOMAIN queueOut : OneEach(queueOut[k]) /\ \A a \in queueOut[k] : Sound(a))'
      BY <1>1, <1>3, <1>19 DEF Origin
    <2> QED
      BY <2>1, <2>2, <2>3 DEF Origin
  <1>22. Stock'
    BY <1>1, <1>3, <1>19 DEF Stock
  <1>23. Working' = Working /\ Finished' = Finished /\ Done' = Done
    BY <1>3, <1>5 DEF Working, Finished, Done
  <1>24. IsAppend(Queued', Queued, IndicesOf(B))
    <2>1. Len(queueIn) \in Nat /\ DOMAIN Queued = 1..Len(queueIn) /\ DOMAIN Queued' = 1..(Len(queueIn) + 1)
      BY <1>11 DEF Queued
    <2>2. \A k \in 1..Len(queueIn) : Queued[k] = IndicesOf(queueIn[k])
      BY <1>11 DEF Queued
    <2>3. \A k \in 1..(Len(queueIn) + 1) : Queued'[k] = IndicesOf(queueIn'[k])
      BY <1>11 DEF Queued
    <2>4. \A k \in 1..Len(queueIn) : Queued'[k] = Queued[k]
      <3>1. \A k \in 1..Len(queueIn) : k \in 1..(Len(queueIn) + 1)
        BY <2>1
      <3> QED
        BY <1>11, <2>2, <2>3, <3>1
    <2>5. Queued'[Len(queueIn) + 1] = IndicesOf(B)
      BY <1>11, <2>1, <2>3
    <2> QED
      BY <2>1, <2>4, <2>5 DEF IsAppend
  <1>25. \A batch : Read(batch) => IndicesOf(batch) \cap IndicesOf(B) = {}
    <2>1. \A batch : Read(batch) => \A j \in IndicesOf(batch) : j \in 0..next - 1
      BY <1>1, ReadIs
    <2>2. \A j \in 0..next - 1 : ~(next <= j)
      BY <1>4
    <2> QED
      BY <1>9, <2>1, <2>2
  <1>26. \A a : Sound(a) => a.index \notin IndicesOf(B)
    <2>1. \A j \in 0..next - 1 : ~(next <= j)
      BY <1>4
    <2> QED
      BY <1>9, <2>1 DEF Sound
  <1>27. Separate'
    <2>1. Clear(Queued, IndicesOf(B))
      BY <1>1, <1>25 DEF Clear, Queued, Origin
    <2>2. Clear(Working, IndicesOf(B))
      <3>1. IndicesOf(<<>>) = {}
        BY DEF IndicesOf, ToSet
      <3> QED
        BY <1>1, <1>25, <3>1 DEF Clear, Working, Origin
    <2>3. Clear(Finished, IndicesOf(B))
      BY <1>1, <1>26 DEF Clear, Finished, Numbered, Origin
    <2>4. IndicesOf(B) \cap Done = {}
      BY <1>1, <1>26 DEF Done, Numbered, Stock
    <2>5. Separated(Queued', Working, Finished, Done)
      BY <1>1, <1>24, <2>1, <2>2, <2>3, <2>4, Arrives DEF Separate
    <2> QED
      BY <1>23, <2>5 DEF Separate
  <1>28. Covered'
    <2> SUFFICES ASSUME setup.faults \cap {"answer", "write"} = {},
                        NEW i \in 0..next' - 1, Reported(i)'
                 PROVE  Held(i, Queued', Working', Finished', Done')
      BY <1>3 DEF Covered
    <2>1. Reported(i)
      BY <1>3, <1>16 DEF Reported
    <2>2. /\ \A x \in DOMAIN Queued : x \in DOMAIN Queued' /\ Queued'[x] = Queued[x]
          /\ \E x \in DOMAIN Queued' : Queued'[x] = IndicesOf(B)
      BY <1>24, AppendFrom
    <2>3. CASE i < next
      <3>1. i \in 0..next - 1
        BY <1>4, <1>29, <2>3
      <3>2. Held(i, Queued, Working, Finished, Done)
        BY <1>1, <2>1, <3>1 DEF Covered
      <3> QED
        BY <1>23, <2>2, <3>2 DEF Held
    <2>4. CASE ~(i < next)
      <3>1. i \in 0..Length - 1 /\ next <= i /\ i < next'
        BY <1>4, <1>29, <2>4, Later
      <3>2. i \in IndicesOf(B)
        BY <1>9, <3>1
      <3> QED
        BY <2>2, <3>2 DEF Held
    <2> QED
      BY <2>3, <2>4
  <1> QED
    BY <1>12, <1>14, <1>15, <1>21, <1>22, <1>27, <1>28 DEF IInv

\* What the process may await
Mains == {"produce", "joinIn", "joinOut", "done", "raised"}

\* The consumers at work can be counted
LEMMA BusyIs ==
    ASSUME TypeOK
    PROVE  /\ Busy \subseteq Workers /\ IsFiniteSet(Busy) /\ Cardinality(Busy) \in Nat
           /\ Cardinality(Busy) = 0 <=> Busy = {}
  <1>1. IsFiniteSet(Workers)
    <2>1. setup.workers \in Nat
      BY SetupIs
    <2> QED
      BY <2>1, FS_Interval DEF Workers
  <1>2. Busy \in SUBSET Workers
    BY DEF Busy
  <1>3. IsFiniteSet(Busy)
    BY <1>1, <1>2, FS_Subset
  <1> QED
    BY <1>2, <1>3, FS_CardinalityType, FS_EmptySet

\* Where the process is in its work has to do with its stages only
LEMMA OnlyMain ==
    ASSUME IInv, UNCHANGED <<setup, next, queues, worker, written>>, main' \in Mains, Stages'
    PROVE  IInv'
  <1>1. TypeOK /\ Counted /\ Stages /\ Origin /\ Stock /\ Separate /\ Covered
    BY DEF IInv
  <1>2. /\ setup' = setup /\ next' = next /\ worker' = worker /\ written' = written
        /\ queueIn' = queueIn /\ queueOut' = queueOut
        /\ unfinishedIn' = unfinishedIn /\ unfinishedOut' = unfinishedOut
    BY DEF queues
  <1>3. /\ Length' = Length /\ Workers' = Workers
        /\ \A i : (Reported(i)' <=> Reported(i)) /\ BatchOf(i)' = BatchOf(i) /\ Line(i)' = Line(i)
        /\ \A batch : Read(batch)' <=> Read(batch)
        /\ \A a : Sound(a)' <=> Sound(a)
    BY <1>1, <1>2, StillSame DEF Still
  <1>4. TypeOK'
    BY <1>1, <1>2, <1>3 DEF TypeOK, Mains
  <1>5. Busy' = Busy
    BY <1>2, <1>3 DEF Busy
  <1>6. Counted'
    BY <1>1, <1>2, <1>5 DEF Counted
  <1>7. Origin'
    BY <1>1, <1>2, <1>3 DEF Origin
  <1>8. Stock'
    BY <1>1, <1>2, <1>3 DEF Stock
  <1>9. Queued' = Queued /\ Working' = Working /\ Finished' = Finished /\ Done' = Done
    BY <1>2, <1>3 DEF Queued, Working, Finished, Done
  <1>10. Separate'
    BY <1>1, <1>9 DEF Separate
  <1>11. Covered'
    BY <1>1, <1>2, <1>3, <1>9 DEF Covered
  <1> QED
    BY <1>4, <1>6, <1>7, <1>8, <1>10, <1>11 DEF IInv

\* The file ends when all of it has been read
LEMMA EndOfFileStep ==
    ASSUME IInv, EndOfFile
    PROVE  IInv'
  <1>1. next = Length /\ main' = "joinIn" /\ UNCHANGED <<setup, next>>
    BY DEF EndOfFile
  <1>2. next' = Length'
    BY <1>1 DEF Length
  <1>3. Stages'
    BY <1>1, <1>2 DEF Stages
  <1> QED
    BY <1>3, OnlyMain DEF EndOfFile, Mains

\* The batches are awaited: task_done was called for each of them
LEMMA JoinInStep ==
    ASSUME IInv, JoinIn
    PROVE  IInv'
  <1>1. TypeOK /\ Counted /\ Stages
    BY DEF IInv
  <1>2. main = "joinIn" /\ unfinishedIn = 0 /\ main' = "joinOut"
        /\ UNCHANGED <<setup, next, queues, worker, written>>
    BY DEF JoinIn
  <1>3. queueIn = <<>> /\ Busy = {}
    <2>1. Len(queueIn) \in Nat /\ (Len(queueIn) = 0 => queueIn = <<>>)
      BY <1>1 DEF TypeOK
    <2>2. Cardinality(Busy) \in Nat /\ (Cardinality(Busy) = 0 <=> Busy = {})
      BY <1>1, BusyIs
    <2>3. Len(queueIn) + Cardinality(Busy) = 0
      BY <1>1, <1>2 DEF Counted
    <2> QED
      BY <2>1, <2>2, <2>3
  <1>4. queueIn' = queueIn /\ Busy' = Busy /\ next' = next /\ Length' = Length
    BY <1>2 DEF queues, Busy, Workers, Length
  <1>5. Stages'
    BY <1>1, <1>2, <1>3, <1>4 DEF Stages
  <1> QED
    BY <1>2, <1>5, OnlyMain DEF Mains

\* The consumers that are cancelled are idle
LEMMA JoinOutStep ==
    ASSUME IInv, JoinOut
    PROVE  IInv'
  <1>1. TypeOK /\ Counted /\ Stages /\ Origin
    BY DEF IInv
  <1>2. /\ main = "joinOut" /\ unfinishedOut = 0 /\ main' \in {"done", "raised"}
        /\ worker' = [w \in Workers |-> Idle]
        /\ UNCHANGED <<setup, next, queues, finalizer, written>>
    BY DEF JoinOut
  <1>3. queueIn = <<>> /\ Busy = {} /\ next = Length
    BY <1>1, <1>2 DEF Stages
  <1>4. queueOut = <<>>
    <2>1. queueOut \in Seq(SUBSET Items) /\ Len(queueOut) = 0
      BY <1>1, <1>2 DEF Counted, TypeOK
    <2> QED
      BY <2>1
  <1>5. \A w \in Workers : worker[w].at = "idle" /\ worker[w].batch = <<>>
    BY <1>1, <1>3 DEF Busy, Origin
  <1>6. /\ setup' = setup /\ next' = next /\ written' = written
        /\ queueIn' = queueIn /\ queueOut' = queueOut
        /\ unfinishedIn' = unfinishedIn /\ unfinishedOut' = unfinishedOut
    BY <1>2 DEF queues
  <1>7. /\ Length' = Length /\ Workers' = Workers
        /\ \A i : (Reported(i)' <=> Reported(i)) /\ BatchOf(i)' = BatchOf(i) /\ Line(i)' = Line(i)
        /\ \A batch : Read(batch)' <=> Read(batch)
        /\ \A a : Sound(a)' <=> Sound(a)
    BY <1>1, <1>6, StillSame DEF Still
  <1>8. \A w \in Workers : worker'[w].at = "idle" /\ worker'[w].batch = <<>>
    BY <1>2 DEF Idle
  <1>9. TypeOK'
    <2>1. Idle \in Consumers
      BY DEF Idle, Consumers
    <2> QED
      BY <1>1, <1>2, <1>6, <1>7, <2>1 DEF TypeOK
  <1>10. Busy' = {}
    BY <1>7, <1>8 DEF Busy
  <1>11. Counted'
    BY <1>1, <1>3, <1>6, <1>10 DEF Counted
  <1>12. Stages'
    BY <1>3, <1>4, <1>6, <1>7, <1>10 DEF Stages
  <1>13. Origin'
    BY <1>1, <1>6, <1>7, <1>8 DEF Origin
  <1>14. Stock'
    BY <1>6, <1>7 DEF IInv, Stock
  <1>15. Queued' = Queued /\ Working' = Working /\ Finished' = Finished /\ Done' = Done
    BY <1>5, <1>6, <1>7, <1>8 DEF Queued, Working, Finished, Done
  <1>16. Separate'
    BY <1>15 DEF IInv, Separate
  <1>17. Covered'
    BY <1>6, <1>7, <1>15 DEF IInv, Covered
  <1> QED
    BY <1>9, <1>11, <1>12, <1>13, <1>14, <1>16, <1>17 DEF IInv

\* Opening the file moves no line
LEMMA OpenStep ==
    ASSUME IInv, Open
    PROVE  IInv'
  <1>1. main' = main /\ UNCHANGED <<setup, next, queues, worker, written>>
    BY DEF Open
  <1>2. main' \in Mains
    BY <1>1 DEF IInv, TypeOK, Mains
  <1>3. Stages'
    BY <1>1 DEF IInv, Stages, queues, Busy, Workers, Length
  <1> QED
    BY <1>1, <1>2, <1>3, OnlyMain

\* Nothing changes
LEMMA Stutter ==
    ASSUME IInv, UNCHANGED vars
    PROVE  IInv'
  <1>1. main' = main /\ UNCHANGED <<setup, next, queues, worker, written>>
    BY DEF vars
  <1>2. main' \in Mains
    BY <1>1 DEF IInv, TypeOK, Mains
  <1>3. Stages'
    BY <1>1 DEF IInv, Stages, queues, Busy, Workers, Length
  <1> QED
    BY <1>1, <1>2, <1>3, OnlyMain

----------------------------------------------------------------------------
(* The steps of a consumer *)

\* One consumer changes
LEMMA ChangedIs ==
    ASSUME TypeOK, NEW w \in Workers, NEW r \in Consumers, worker' = [worker EXCEPT ![w] = r],
           setup' = setup
    PROVE  /\ worker' \in [Workers -> Consumers] /\ worker'[w] = r
           /\ \A v \in Workers : v # w => worker'[v] = worker[v]
           /\ Busy' = IF r.at = "idle" THEN Busy \ {w} ELSE Busy \cup {w}
           /\ IsChange(Working', Working, w)
           /\ Working'[w] = IndicesOf(r.batch) /\ Working[w] = IndicesOf(worker[w].batch)
           /\ DOMAIN Working = Workers /\ DOMAIN Working' = Workers
  <1>1. worker \in [Workers -> Consumers]
    BY DEF TypeOK
  <1>2. Workers' = Workers
    BY DEF Workers
  <1>3. /\ worker' \in [Workers -> Consumers] /\ worker'[w] = r
        /\ \A v \in Workers : v # w => worker'[v] = worker[v]
    BY <1>1
  <1>4. Busy' = IF r.at = "idle" THEN Busy \ {w} ELSE Busy \cup {w}
    <2>1. \A v \in Workers : v \in Busy' <=> IF v = w THEN r.at # "idle" ELSE v \in Busy
      BY <1>2, <1>3 DEF Busy
    <2>2. Busy \subseteq Workers /\ Busy' \subseteq Workers
      BY <1>2 DEF Busy
    <2> QED
      BY <2>1, <2>2
  <1>5. /\ DOMAIN Working = Workers /\ DOMAIN Working' = Workers
        /\ \A v \in Workers : Working[v] = IndicesOf(worker[v].batch)
        /\ \A v \in Workers : Working'[v] = IndicesOf(worker'[v].batch)
    BY <1>2 DEF Working
  <1>6. \A v \in Workers : v # w => Working'[v] = Working[v]
    BY <1>3, <1>5
  <1> QED
    BY <1>3, <1>4, <1>5, <1>6 DEF IsChange

\* There is no line in an empty batch
LEMMA NoIndices == IndicesOf(<<>>) = {}
  BY DEF IndicesOf, ToSet

\* The first micro-batch is taken, and kept until it is put
LEMMA TakeStep ==
    ASSUME IInv, NEW w \in Workers, worker[w].at = "idle", queueIn # <<>>, queueIn' = Tail(queueIn),
           NEW r \in Consumers, worker' = [worker EXCEPT ![w] = r],
           \/ /\ r.at # "idle" /\ r.batch = Head(queueIn)
              /\ r.at = "put" => Outcome(r.batch, r.items)
              /\ unfinishedIn' = unfinishedIn
           \/ /\ r = Idle /\ unfinishedIn' = unfinishedIn - 1
              /\ \A i \in IndicesOf(Head(queueIn)) : ~Reported(i),
           UNCHANGED <<setup, main, next, queueOut, unfinishedOut, finalizer, written>>
    PROVE  IInv'
  <1>1. TypeOK /\ Counted /\ Stages /\ Origin /\ Stock /\ Separate /\ Covered
    BY DEF IInv
  <1>2. /\ Length' = Length /\ Workers' = Workers
        /\ \A i : (Reported(i)' <=> Reported(i)) /\ BatchOf(i)' = BatchOf(i) /\ Line(i)' = Line(i)
        /\ \A batch : Read(batch)' <=> Read(batch)
        /\ \A a : Sound(a)' <=> Sound(a)
    BY <1>1, StillSame DEF Still
  <1>3. /\ worker' \in [Workers -> Consumers] /\ worker'[w] = r
        /\ \A v \in Workers : v # w => worker'[v] = worker[v]
        /\ Busy' = IF r.at = "idle" THEN Busy \ {w} ELSE Busy \cup {w}
        /\ IsChange(Working', Working, w)
        /\ Working'[w] = IndicesOf(r.batch) /\ Working[w] = IndicesOf(worker[w].batch)
        /\ DOMAIN Working = Workers /\ DOMAIN Working' = Workers
    BY <1>1, ChangedIs
  <1>4. queueIn \in Seq(Batches)
    BY <1>1 DEF TypeOK
  <1>5. /\ Head(queueIn) \in Batches /\ Head(queueIn) = queueIn[1] /\ 1 \in DOMAIN queueIn
        /\ queueIn' \in Seq(Batches) /\ Len(queueIn) \in Nat /\ Len(queueIn) > 0
        /\ Len(queueIn') = Len(queueIn) - 1
        /\ DOMAIN queueIn = 1..Len(queueIn) /\ DOMAIN queueIn' = 1..(Len(queueIn) - 1)
        /\ \A k \in 1..(Len(queueIn) - 1) : queueIn'[k] = queueIn[k + 1] /\ k + 1 \in DOMAIN queueIn
    BY <1>4, QueueTail
  <1>6. TypeOK'
    BY <1>1, <1>2, <1>3, <1>5 DEF TypeOK
  <1>7. w \notin Busy /\ IsFiniteSet(Busy) /\ Cardinality(Busy) \in Nat
    BY <1>1, BusyIs DEF Busy
  <1>8. Counted'
    <2>1. unfinishedIn = Len(queueIn) + Cardinality(Busy) /\ unfinishedOut = Len(queueOut)
      BY <1>1 DEF Counted
    <2>2. CASE r.at # "idle"
      <3>1. Cardinality(Busy') = Cardinality(Busy) + 1
        BY <1>3, <1>7, <2>2, FS_AddElement
      <3>2. unfinishedIn' = unfinishedIn
        BY <2>2 DEF Idle
      <3>3. unfinishedIn' = Len(queueIn') + Cardinality(Busy')
        BY <1>5, <1>7, <2>1, <3>1, <3>2
      <3> QED
        BY <2>1, <3>3 DEF Counted
    <2>3. CASE r.at = "idle"
      <3>1. Busy' = Busy
        BY <1>3, <1>7, <2>3
      <3>2. unfinishedIn' = unfinishedIn - 1
        BY <2>3
      <3>3. unfinishedIn' = Len(queueIn') + Cardinality(Busy')
        BY <1>5, <1>7, <2>1, <3>1, <3>2
      <3> QED
        BY <2>1, <3>3 DEF Counted
    <2> QED
      BY <2>2, <2>3
  <1>9. Stages'
    BY <1>1, <1>2 DEF Stages
  <1>10. Read(Head(queueIn))
    BY <1>1, <1>5 DEF Origin
  <1>11. Origin'
    <2>1. (\A k \in DOMAIN queueIn : Read(queueIn[k]))'
      <3>1. \A k \in DOMAIN queueIn : Read(queueIn[k])
        BY <1>1 DEF Origin
      <3>2. \A k \in 1..(Len(queueIn) - 1) : \E b : b = queueIn'[k] /\ Read(b)
        BY <1>5, <3>1
      <3> QED
        BY <1>2, <1>5, <3>2
    <2>2. (\A v \in Workers :
             /\ worker[v].at = "idle" => worker[v].batch = <<>>
             /\ worker[v].at # "idle" => Read(worker[v].batch)
             /\ worker[v].at = "put" => Outcome(worker[v].batch, worker[v].items))'
      <3>1. \A v \in Workers :
             /\ worker[v].at = "idle" => worker[v].batch = <<>>
             /\ worker[v].at # "idle" => Read(worker[v].batch)
             /\ worker[v].at = "put" => Outcome(worker[v].batch, worker[v].items)
        BY <1>1 DEF Origin
      <3>2. /\ r.at = "idle" => r.batch = <<>>
            /\ r.at # "idle" => Read(r.batch)
            /\ r.at = "put" => Outcome(r.batch, r.items)
        BY <1>10 DEF Idle
      <3> QED
        BY <1>2, <1>3, <3>1, <3>2
    <2>3. (\A k \in DOMAIN queueOut : OneEach(queueOut[k]) /\ \A a \in queueOut[k] : Sound(a))'
      BY <1>1, <1>2 DEF Origin
    <2> QED
      BY <2>1, <2>2, <2>3 DEF Origin
  <1>12. Stock'
    BY <1>1, <1>2 DEF Stock
  <1>13. Finished' = Finished /\ Done' = Done
    BY DEF Finished, Done
  <1>14. IsTail(Queued', Queued) /\ Queued[1] = IndicesOf(Head(queueIn))
    <2>1. DOMAIN Queued = 1..Len(queueIn) /\ DOMAIN Queued' = 1..(Len(queueIn) - 1)
      BY <1>5 DEF Queued
    <2>2. \A k \in 1..Len(queueIn) : Queued[k] = IndicesOf(queueIn[k])
      BY <1>5 DEF Queued
    <2>3. \A k \in 1..(Len(queueIn) - 1) : Queued'[k] = IndicesOf(queueIn'[k])
      BY <1>5 DEF Queued
    <2>4. \A k \in 1..(Len(queueIn) - 1) : Queued'[k] = Queued[k + 1]
      BY <1>5, <2>2, <2>3
    <2> QED
      BY <1>5, <2>1, <2>2, <2>4 DEF IsTail
  <1>15. Separate'
    <2>1. Working'[w] \subseteq Queued[1]
      BY <1>3, <1>14, NoIndices DEF Idle
    <2>2. Separated(Queued', Working', Finished, Done)
      BY <1>1, <1>3, <1>14, <2>1, Taken DEF Separate
    <2> QED
      BY <1>13, <2>2 DEF Separate
  <1>16. Covered'
    <2> SUFFICES ASSUME setup.faults \cap {"answer", "write"} = {},
                        NEW i \in 0..next - 1, Reported(i)
                 PROVE  Held(i, Queued', Working', Finished', Done')
      BY <1>2 DEF Covered
    <2>1. Held(i, Queued, Working, Finished, Done)
      BY <1>1 DEF Covered
    <2>2. 1 \in DOMAIN Queued /\ \A y \in DOMAIN Queued : y = 1 \/ \E x \in DOMAIN Queued' : Queued'[x] = Queued[y]
      BY <1>14, TailFrom
    <2>3. CASE i \in Queued[1]
      <3>1. r.at # "idle" /\ r.batch = Head(queueIn)
        BY <1>14, <2>3
      <3>2. i \in Working'[w]
        BY <1>3, <1>14, <2>3, <3>1
      <3> QED
        BY <1>3, <3>2 DEF Held
    <2>4. CASE \E k \in DOMAIN Queued : i \in Queued[k] /\ k # 1
      BY <2>2, <2>4 DEF Held
    <2>5. CASE \E v \in DOMAIN Working : i \in Working[v]
      <3>1. PICK v \in Workers : i \in Working[v]
        BY <1>3, <2>5
      <3>2. Working[w] = {}
        BY <1>1, <1>3, NoIndices DEF Origin
      <3>3. v # w /\ Working'[v] = Working[v]
        BY <1>3, <3>1, <3>2 DEF IsChange
      <3> QED
        BY <1>3, <3>1, <3>3 DEF Held
    <2>6. CASE (\E k \in DOMAIN Finished : i \in Finished[k]) \/ i \in Done
      BY <1>13, <2>6 DEF Held
    <2> QED
      BY <2>1, <2>3, <2>4, <2>5, <2>6 DEF Held
  <1> QED
    BY <1>6, <1>8, <1>9, <1>11, <1>12, <1>15, <1>16 DEF IInv

\* An idle consumer has no batch
LEMMA IdleIs == Idle \in Consumers /\ Idle.at = "idle" /\ Idle.batch = <<>> /\ Idle.items = {}
  BY DEF Idle, Consumers

\* The items of a batch, and where they were worked out
LEMMA ItemsOf ==
    ASSUME NEW batch \in Batches
    PROVE  /\ Invalid(batch) \subseteq Items
           /\ (Answers(batch) \cup Invalid(batch)) \subseteq Items
           /\ (Errors(batch) \cup Invalid(batch)) \subseteq Items
           /\ AnswersTo[batch] = Answers(batch) /\ ErrorsTo[batch] = Errors(batch)
  BY DEF Items, AnswersTo, ErrorsTo

\* A consumer takes a batch, and drops it if it cannot be sent
LEMMA GetStep ==
    ASSUME IInv, NEW w \in Workers, Get(w)
    PROVE  IInv'
  <1>1. TypeOK /\ Origin /\ worker \in [Workers -> Consumers] /\ queueIn \in Seq(Batches)
    BY DEF IInv, TypeOK
  <1>2. PICK B : B = Head(queueIn)
    OBVIOUS
  <1>3. /\ worker[w].at = "idle" /\ queueIn # <<>> /\ queueIn' = Tail(queueIn)
        /\ UNCHANGED <<setup, main, next, queueOut, unfinishedOut, finalizer, written>>
        /\ \/ B \notin Preprocessed /\ Vanish(w)
           \/ /\ B \in Preprocessed /\ Of(B, "invalid") = B
              /\ worker' = [worker EXCEPT ![w] =
                              [Idle EXCEPT !.at = "put", !.batch = B, !.items = Invalid(B)]]
              /\ UNCHANGED unfinishedIn
           \/ /\ B \in Preprocessed /\ Of(B, "invalid") # B
              /\ IF setup.retries = 0
                 THEN Vanish(w)
                 ELSE /\ worker' = [worker EXCEPT ![w] = [Idle EXCEPT !.at = "send", !.batch = B]]
                      /\ UNCHANGED unfinishedIn
    BY <1>2 DEF Get
  <1>4. B \in Batches /\ IsBatch(B) /\ \A i \in IndicesOf(B) : BatchOf(i) = B
    <2>1. 1 \in DOMAIN queueIn /\ B = queueIn[1]
      BY <1>1, <1>2, <1>3, QueueTail
    <2>2. Read(B)
      BY <1>1, <2>1 DEF Origin
    <2> QED
      BY <1>1, <2>2, ReadIs
  <1>5. CASE Vanish(w) /\ \A i \in IndicesOf(B) : ~Reported(i)
    <2>1. worker' = [worker EXCEPT ![w] = Idle] /\ unfinishedIn' = unfinishedIn - 1
      BY <1>5 DEF Vanish
    <2> QED
      BY <1>2, <1>3, <1>5, <2>1, IdleIs, TakeStep
  <1>6. CASE B \notin Preprocessed /\ Vanish(w)
    <2>1. \A i \in IndicesOf(B) : ~Reported(i)
      BY <1>4, <1>6 DEF Reported
    <2> QED
      BY <1>5, <1>6, <2>1
  <1>7. CASE /\ Of(B, "invalid") = B
             /\ worker' = [worker EXCEPT ![w] =
                              [Idle EXCEPT !.at = "put", !.batch = B, !.items = Invalid(B)]]
             /\ UNCHANGED unfinishedIn
    <2>1. PICK r : r = [Idle EXCEPT !.at = "put", !.batch = B, !.items = Invalid(B)]
      OBVIOUS
    <2>2. r = [at |-> "put", batch |-> B, tries |-> 0, items |-> Invalid(B)]
      BY <2>1 DEF Idle
    <2>3. r \in Consumers /\ r.at # "idle" /\ r.batch = B /\ r.items = Invalid(B)
      BY <1>4, <2>2, ItemsOf DEF Consumers
    <2>4. Outcome(r.batch, r.items)
      BY <1>4, <1>7, <2>3, InvalidIsOutcome
    <2> QED
      BY <1>2, <1>3, <1>7, <2>1, <2>3, <2>4, TakeStep
  <1>8. CASE /\ B \in Preprocessed /\ Of(B, "invalid") # B
             /\ setup.retries = 0 /\ Vanish(w)
    <2>1. Requests(B) # <<>>
      BY <1>4, <1>8, AllInvalid DEF Preprocessed
    <2>2. ~(setup.retries > 0)
      BY <1>8
    <2>3. \A i \in IndicesOf(B) : ~Reported(i)
      BY <1>4, <2>1, <2>2 DEF Reported
    <2> QED
      BY <1>5, <1>8, <2>3
  <1>9. CASE /\ worker' = [worker EXCEPT ![w] = [Idle EXCEPT !.at = "send", !.batch = B]]
             /\ UNCHANGED unfinishedIn
    <2>1. PICK r : r = [Idle EXCEPT !.at = "send", !.batch = B]
      OBVIOUS
    <2>2. r = [at |-> "send", batch |-> B, tries |-> 0, items |-> {}]
      BY <2>1 DEF Idle
    <2>3. r \in Consumers /\ r.at # "idle" /\ r.batch = B /\ r.at # "put"
      BY <1>4, <2>2 DEF Consumers
    <2> QED
      BY <1>2, <1>3, <1>9, <2>1, <2>3, TakeStep
  <1> QED
    BY <1>3, <1>6, <1>7, <1>8, <1>9

\* A consumer goes on with its micro-batch
LEMMA WorkStep ==
    ASSUME IInv, NEW w \in Workers, worker[w].at = "send",
           NEW r \in Consumers, worker' = [worker EXCEPT ![w] = r],
           r.at # "idle", r.batch = worker[w].batch, r.at = "put" => Outcome(r.batch, r.items),
           UNCHANGED <<setup, main, next, queues, finalizer, written>>
    PROVE  IInv'
  <1>1. TypeOK /\ Counted /\ Stages /\ Origin /\ Stock /\ Separate /\ Covered
    BY DEF IInv
  <1>2. /\ Length' = Length /\ Workers' = Workers
        /\ \A i : (Reported(i)' <=> Reported(i)) /\ BatchOf(i)' = BatchOf(i) /\ Line(i)' = Line(i)
        /\ \A batch : Read(batch)' <=> Read(batch)
        /\ \A a : Sound(a)' <=> Sound(a)
    BY <1>1, StillSame DEF Still
  <1>3. /\ worker' \in [Workers -> Consumers] /\ worker'[w] = r
        /\ \A v \in Workers : v # w => worker'[v] = worker[v]
        /\ Busy' = IF r.at = "idle" THEN Busy \ {w} ELSE Busy \cup {w}
        /\ IsChange(Working', Working, w)
        /\ Working'[w] = IndicesOf(r.batch) /\ Working[w] = IndicesOf(worker[w].batch)
        /\ DOMAIN Working = Workers /\ DOMAIN Working' = Workers
    BY <1>1, ChangedIs
  <1>4. /\ queueIn' = queueIn /\ queueOut' = queueOut
        /\ unfinishedIn' = unfinishedIn /\ unfinishedOut' = unfinishedOut
    BY DEF queues
  <1>5. TypeOK'
    BY <1>1, <1>2, <1>3, <1>4 DEF TypeOK
  <1>6. Busy' = Busy
    BY <1>3 DEF Busy
  <1>7. Counted'
    BY <1>1, <1>4, <1>6 DEF Counted
  <1>8. Stages'
    BY <1>1, <1>2, <1>4, <1>6 DEF Stages
  <1>9. Origin'
    <2>1. \A v \in Workers :
             /\ worker[v].at = "idle" => worker[v].batch = <<>>
             /\ worker[v].at # "idle" => Read(worker[v].batch)
             /\ worker[v].at = "put" => Outcome(worker[v].batch, worker[v].items)
      BY <1>1 DEF Origin
    <2>2. r.at # "idle" /\ Read(r.batch) /\ (r.at = "put" => Outcome(r.batch, r.items))
      BY <2>1
    <2>3. (\A v \in Workers :
             /\ worker[v].at = "idle" => worker[v].batch = <<>>
             /\ worker[v].at # "idle" => Read(worker[v].batch)
             /\ worker[v].at = "put" => Outcome(worker[v].batch, worker[v].items))'
      BY <1>2, <1>3, <2>1, <2>2
    <2>4. (\A k \in DOMAIN queueIn : Read(queueIn[k]))'
      BY <1>1, <1>2, <1>4 DEF Origin
    <2>5. (\A k \in DOMAIN queueOut : OneEach(queueOut[k]) /\ \A a \in queueOut[k] : Sound(a))'
      BY <1>1, <1>2, <1>4 DEF Origin
    <2> QED
      BY <2>3, <2>4, <2>5 DEF Origin
  <1>10. Stock'
    BY <1>1, <1>2 DEF Stock
  <1>11. Queued' = Queued /\ Finished' = Finished /\ Done' = Done
    BY <1>4 DEF Queued, Finished, Done
  <1>12. \A v \in Workers : Working'[v] = Working[v]
    BY <1>3 DEF IsChange
  <1>13. Separate'
    <2>1. Separated(Queued, Working', Finished, Done)
      BY <1>1, <1>3, <1>12, Dropped DEF Separate
    <2> QED
      BY <1>11, <2>1 DEF Separate
  <1>14. Covered'
    BY <1>1, <1>2, <1>3, <1>11, <1>12 DEF Covered, Held
  <1> QED
    BY <1>5, <1>7, <1>8, <1>9, <1>10, <1>13, <1>14 DEF IInv

\* An outcome is what a consumer may put
LEMMA ToPutStep ==
    ASSUME IInv, NEW w \in Workers, worker[w].at = "send", NEW items \in SUBSET Items,
           Outcome(worker[w].batch, items), ToPut(w, items),
           UNCHANGED <<setup, main, next, queues, finalizer, written>>
    PROVE  IInv'
  <1>1. worker \in [Workers -> Consumers]
    BY DEF IInv, TypeOK
  <1>2. PICK r : r = [worker[w] EXCEPT !.at = "put", !.items = items]
    OBVIOUS
  <1>3. worker' = [worker EXCEPT ![w] = r]
    BY <1>1, <1>2 DEF ToPut
  <1>4. worker[w] \in Consumers
    BY <1>1
  <1>5. r \in Consumers /\ r.at = "put" /\ r.batch = worker[w].batch /\ r.items = items
    BY <1>2, <1>4 DEF Consumers
  <1> QED
    BY <1>3, <1>5, WorkStep

\* What is sent is a batch that was read
LEMMA AtSend ==
    ASSUME IInv, NEW w \in Workers, worker[w].at = "send"
    PROVE  /\ worker[w] \in Consumers /\ worker[w].batch \in Batches /\ IsBatch(worker[w].batch)
           /\ Read(worker[w].batch)
  <1>1. TypeOK /\ worker[w] \in Consumers /\ Read(worker[w].batch)
    BY DEF IInv, TypeOK, Origin
  <1> QED
    BY <1>1, ReadIs

\* A request fails, and is tried again or ends in errors
LEMMA InferFailsStep ==
    ASSUME IInv, NEW w \in Workers, InferFails(w)
    PROVE  IInv'
  <1>1. PICK B : B = worker[w].batch
    OBVIOUS
  <1>2. /\ worker[w].at = "send"
        /\ UNCHANGED <<setup, main, next, queues, finalizer, written>>
        /\ \/ ToPut(w, ErrorsTo[B] \cup Invalid(B))
           \/ worker' = [worker EXCEPT ![w].tries = @ + 1]
    BY <1>1 DEF InferFails
  <1>3. worker[w] \in Consumers /\ B \in Batches /\ IsBatch(B)
    BY <1>1, <1>2, AtSend
  <1>4. CASE ToPut(w, ErrorsTo[B] \cup Invalid(B))
    <2>1. ErrorsTo[B] \cup Invalid(B) \in SUBSET Items /\ ErrorsTo[B] = Errors(B)
      BY <1>3, ItemsOf
    <2>2. Outcome(B, ErrorsTo[B] \cup Invalid(B))
      BY <1>3, <2>1, ErrorsAre, ResultsMakeOutcome
    <2> QED
      BY <1>1, <1>2, <1>4, <2>1, <2>2, ToPutStep
  <1>5. CASE worker' = [worker EXCEPT ![w].tries = @ + 1]
    <2>1. PICK r : r = [worker[w] EXCEPT !.tries = @ + 1]
      OBVIOUS
    <2>2. worker' = [worker EXCEPT ![w] = r]
      BY <1>5, <2>1 DEF IInv, TypeOK
    <2>3. r \in Consumers /\ r.at = "send" /\ r.batch = B
      BY <1>1, <1>2, <1>3, <2>1 DEF Consumers
    <2> QED
      BY <1>1, <1>2, <2>2, <2>3, WorkStep
  <1> QED
    BY <1>2, <1>4, <1>5

\* The server answers
LEMMA InferReturnsStep ==
    ASSUME IInv, NEW w \in Workers, InferReturns(w)
    PROVE  IInv'
  <1>1. PICK B : B = worker[w].batch
    OBVIOUS
  <1>2. /\ worker[w].at = "send"
        /\ UNCHANGED <<setup, main, next, queues, finalizer, written>>
        /\ ToPut(w, AnswersTo[B] \cup Invalid(B))
    BY <1>1 DEF InferReturns
  <1>3. B \in Batches /\ IsBatch(B)
    BY <1>1, <1>2, AtSend
  <1>4. AnswersTo[B] \cup Invalid(B) \in SUBSET Items /\ AnswersTo[B] = Answers(B)
    BY <1>3, ItemsOf
  <1>5. Outcome(B, AnswersTo[B] \cup Invalid(B))
    BY <1>3, <1>4, AnswersAre, ResultsMakeOutcome
  <1> QED
    BY <1>1, <1>2, <1>4, <1>5, ToPutStep

\* The count of batches goes down with that of the consumers at work
LEMMA OneLess ==
    ASSUME TypeOK, Counted, NEW w \in Workers, worker[w].at # "idle", Busy' = Busy \ {w},
           unfinishedIn' = unfinishedIn - 1, queueIn' = queueIn
    PROVE  unfinishedIn' = Len(queueIn') + Cardinality(Busy')
  <1>1. w \in Busy
    BY DEF Busy
  <1>2. IsFiniteSet(Busy) /\ Cardinality(Busy) \in Nat
    BY BusyIs
  <1>3. Cardinality(Busy') = Cardinality(Busy) - 1
    BY <1>1, <1>2, FS_RemoveElement
  <1>4. Len(queueIn) \in Nat /\ unfinishedIn = Len(queueIn) + Cardinality(Busy)
    BY DEF TypeOK, Counted
  <1> QED
    BY <1>2, <1>3, <1>4

\* An answer that cannot be taken apart: its lines vanish
LEMMA PostprocessRaisesStep ==
    ASSUME IInv, NEW w \in Workers, PostprocessRaises(w)
    PROVE  IInv'
  <1>1. TypeOK /\ Counted /\ Stages /\ Origin /\ Stock /\ Separate /\ Covered
    BY DEF IInv
  <1>2. /\ "answer" \in setup.faults /\ worker[w].at = "send"
        /\ worker' = [worker EXCEPT ![w] = Idle] /\ unfinishedIn' = unfinishedIn - 1
        /\ UNCHANGED <<setup, main, next, queueIn, queueOut, unfinishedOut, finalizer, written>>
    BY DEF PostprocessRaises, Vanish
  <1>3. /\ Length' = Length /\ Workers' = Workers
        /\ \A i : (Reported(i)' <=> Reported(i)) /\ BatchOf(i)' = BatchOf(i) /\ Line(i)' = Line(i)
        /\ \A batch : Read(batch)' <=> Read(batch)
        /\ \A a : Sound(a)' <=> Sound(a)
    BY <1>1, <1>2, StillSame DEF Still
  <1>4. /\ worker' \in [Workers -> Consumers] /\ worker'[w] = Idle
        /\ \A v \in Workers : v # w => worker'[v] = worker[v]
        /\ Busy' = Busy \ {w}
        /\ IsChange(Working', Working, w)
        /\ Working'[w] = IndicesOf(<<>>)
        /\ DOMAIN Working = Workers /\ DOMAIN Working' = Workers
    BY <1>1, <1>2, IdleIs, ChangedIs
  <1>5. TypeOK'
    BY <1>1, <1>2, <1>3, <1>4 DEF TypeOK
  <1>6. Counted'
    BY <1>1, <1>2, <1>4, OneLess DEF Counted
  <1>7. Stages'
    BY <1>1, <1>2, <1>3, <1>4 DEF Stages
  <1>8. Origin'
    <2>1. \A v \in Workers :
             /\ worker[v].at = "idle" => worker[v].batch = <<>>
             /\ worker[v].at # "idle" => Read(worker[v].batch)
             /\ worker[v].at = "put" => Outcome(worker[v].batch, worker[v].items)
      BY <1>1 DEF Origin
    <2>2. (\A v \in Workers :
             /\ worker[v].at = "idle" => worker[v].batch = <<>>
             /\ worker[v].at # "idle" => Read(worker[v].batch)
             /\ worker[v].at = "put" => Outcome(worker[v].batch, worker[v].items))'
      BY <1>3, <1>4, <2>1, IdleIs
    <2>3. (\A k \in DOMAIN queueIn : Read(queueIn[k]))'
      BY <1>1, <1>2, <1>3 DEF Origin
    <2>4. (\A k \in DOMAIN queueOut : OneEach(queueOut[k]) /\ \A a \in queueOut[k] : Sound(a))'
      BY <1>1, <1>2, <1>3 DEF Origin
    <2> QED
      BY <2>2, <2>3, <2>4 DEF Origin
  <1>9. Stock'
    BY <1>1, <1>2, <1>3 DEF Stock
  <1>10. Queued' = Queued /\ Finished' = Finished /\ Done' = Done
    BY <1>2 DEF Queued, Finished, Done
  <1>11. Separate'
    <2>1. \A v \in Workers : Working'[v] \subseteq Working[v]
      BY <1>4, NoIndices DEF IsChange
    <2>2. Separated(Queued, Working', Finished, Done)
      BY <1>1, <1>4, <2>1, Dropped DEF Separate
    <2> QED
      BY <1>10, <2>2 DEF Separate
  <1>12. Covered'
    BY <1>2 DEF Covered
  <1> QED
    BY <1>5, <1>6, <1>7, <1>8, <1>9, <1>11, <1>12 DEF IInv

\* A consumer hands on what it has
LEMMA PutStep ==
    ASSUME IInv, NEW w \in Workers, Put(w)
    PROVE  IInv'
  <1>1. TypeOK /\ Counted /\ Stages /\ Origin /\ Stock /\ Separate /\ Covered
    BY DEF IInv
  <1>2. PICK B, X : B = worker[w].batch /\ X = worker[w].items
    OBVIOUS
  <1>3. /\ worker[w].at = "put" /\ queueOut' = Append(queueOut, X)
        /\ unfinishedOut' = unfinishedOut + 1 /\ unfinishedIn' = unfinishedIn - 1
        /\ worker' = [worker EXCEPT ![w] = Idle]
        /\ UNCHANGED <<setup, main, next, queueIn, finalizer, written>>
    BY <1>2 DEF Put
  <1>4. /\ Length' = Length /\ Workers' = Workers
        /\ \A i : (Reported(i)' <=> Reported(i)) /\ BatchOf(i)' = BatchOf(i) /\ Line(i)' = Line(i)
        /\ \A batch : Read(batch)' <=> Read(batch)
        /\ \A a : Sound(a)' <=> Sound(a)
    BY <1>1, <1>3, StillSame DEF Still
  <1>5. /\ worker' \in [Workers -> Consumers] /\ worker'[w] = Idle
        /\ \A v \in Workers : v # w => worker'[v] = worker[v]
        /\ Busy' = Busy \ {w}
        /\ IsChange(Working', Working, w)
        /\ Working'[w] = IndicesOf(<<>>) /\ Working[w] = IndicesOf(B)
        /\ DOMAIN Working = Workers /\ DOMAIN Working' = Workers
    BY <1>1, <1>2, <1>3, IdleIs, ChangedIs
  <1>6. queueOut \in Seq(SUBSET Items) /\ X \in SUBSET Items
    <2>1. worker[w] \in Consumers
      BY <1>1 DEF TypeOK
    <2> QED
      BY <1>1, <1>2, <2>1 DEF TypeOK, Consumers
  <1>7. /\ queueOut' \in Seq(SUBSET Items) /\ Len(queueOut) \in Nat
        /\ Len(queueOut') = Len(queueOut) + 1
        /\ DOMAIN queueOut = 1..Len(queueOut) /\ DOMAIN queueOut' = 1..(Len(queueOut) + 1)
        /\ \A k \in 1..Len(queueOut) : queueOut'[k] = queueOut[k]
        /\ queueOut'[Len(queueOut) + 1] = X
        /\ \A k \in DOMAIN queueOut' : queueOut'[k] = X \/ (k \in DOMAIN queueOut /\ queueOut'[k] = queueOut[k])
    BY <1>3, <1>6, QueueAppend
  <1>8. Read(B) /\ Outcome(B, X)
    BY <1>1, <1>2, <1>3 DEF Origin
  <1>9. /\ OneEach(X) /\ \A a \in X : Sound(a)
        /\ Numbered(X) \subseteq IndicesOf(B)
        /\ \A i \in IndicesOf(B) : Reported(i) => i \in Numbered(X)
    BY <1>1, <1>8, OutcomeSound
  <1>10. TypeOK'
    BY <1>1, <1>3, <1>4, <1>5, <1>7 DEF TypeOK
  <1>11. Counted'
    <2>1. unfinishedIn' = Len(queueIn') + Cardinality(Busy')
      BY <1>1, <1>3, <1>5, OneLess
    <2>2. unfinishedOut' = Len(queueOut')
      BY <1>1, <1>3, <1>7 DEF Counted
    <2> QED
      BY <2>1, <2>2 DEF Counted
  <1>12. Stages'
    <2>1. w \in Busy
      BY <1>3 DEF Busy
    <2>2. main \notin {"joinOut", "done", "raised"}
      BY <1>1, <2>1 DEF Stages
    <2> QED
      BY <1>1, <1>3, <1>4, <2>2 DEF Stages
  <1>13. Origin'
    <2>1. \A v \in Workers :
             /\ worker[v].at = "idle" => worker[v].batch = <<>>
             /\ worker[v].at # "idle" => Read(worker[v].batch)
             /\ worker[v].at = "put" => Outcome(worker[v].batch, worker[v].items)
      BY <1>1 DEF Origin
    <2>2. (\A v \in Workers :
             /\ worker[v].at = "idle" => worker[v].batch = <<>>
             /\ worker[v].at # "idle" => Read(worker[v].batch)
             /\ worker[v].at = "put" => Outcome(worker[v].batch, worker[v].items))'
      BY <1>4, <1>5, <2>1, IdleIs
    <2>3. (\A k \in DOMAIN queueIn : Read(queueIn[k]))'
      BY <1>1, <1>3, <1>4 DEF Origin
    <2>4. (\A k \in DOMAIN queueOut : OneEach(queueOut[k]) /\ \A a \in queueOut[k] : Sound(a))'
      <3>1. \A k \in DOMAIN queueOut : OneEach(queueOut[k]) /\ \A a \in queueOut[k] : Sound(a)
        BY <1>1 DEF Origin
      <3>2. \A k \in DOMAIN queueOut' : \E y : y = queueOut'[k] /\ OneEach(y) /\ \A a \in y : Sound(a)
        BY <1>7, <1>9, <3>1
      <3> QED
        BY <1>4, <3>2
    <2> QED
      BY <2>2, <2>3, <2>4 DEF Origin
  <1>14. Stock'
    BY <1>1, <1>3, <1>4 DEF Stock
  <1>15. Queued' = Queued /\ Done' = Done
    BY <1>3 DEF Queued, Done
  <1>16. IsAppend(Finished', Finished, Numbered(X))
    <2>1. /\ DOMAIN Finished = 1..Len(queueOut) /\ DOMAIN Finished' = 1..(Len(queueOut) + 1)
          /\ Len(queueOut) \in Nat
      BY <1>7 DEF Finished
    <2>2. \A k \in 1..Len(queueOut) : Finished[k] = Numbered(queueOut[k])
      BY <1>7 DEF Finished
    <2>3. \A k \in 1..(Len(queueOut) + 1) : Finished'[k] = Numbered(queueOut'[k])
      BY <1>7 DEF Finished
    <2>4. \A k \in 1..Len(queueOut) : Finished'[k] = Finished[k]
      <3>1. \A k \in 1..Len(queueOut) : k \in 1..(Len(queueOut) + 1)
        BY <2>1
      <3> QED
        BY <1>7, <2>2, <2>3, <3>1
    <2>5. Finished'[Len(queueOut) + 1] = Numbered(X)
      BY <1>7, <2>1, <2>3
    <2> QED
      BY <2>1, <2>4, <2>5 DEF IsAppend
  <1>17. Working'[w] = {} /\ Numbered(X) \subseteq Working[w]
    BY <1>5, <1>9, NoIndices
  <1>18. Separate'
    <2>1. Separated(Queued, Working', Finished', Done)
      BY <1>1, <1>5, <1>16, <1>17, Passed DEF Separate
    <2> QED
      BY <1>15, <2>1 DEF Separate
  <1>19. Covered'
    <2> SUFFICES ASSUME setup.faults \cap {"answer", "write"} = {},
                        NEW i \in 0..next - 1, Reported(i)
                 PROVE  Held(i, Queued', Working', Finished', Done')
      BY <1>3, <1>4 DEF Covered
    <2>1. Held(i, Queued, Working, Finished, Done)
      BY <1>1 DEF Covered
    <2>2. /\ \A x \in DOMAIN Finished : x \in DOMAIN Finished' /\ Finished'[x] = Finished[x]
          /\ \E x \in DOMAIN Finished' : Finished'[x] = Numbered(X)
      BY <1>16, AppendFrom
    <2>3. CASE i \in Working[w]
      <3>1. i \in Numbered(X)
        BY <1>5, <1>9, <2>3
      <3> QED
        BY <2>2, <3>1 DEF Held
    <2>4. CASE \E v \in DOMAIN Working : v # w /\ i \in Working[v]
      BY <1>5, <2>4 DEF Held, IsChange
    <2>5. CASE (\E k \in DOMAIN Queued : i \in Queued[k]) \/ (\E k \in DOMAIN Finished : i \in Finished[k])
               \/ i \in Done
      BY <1>15, <2>2, <2>5 DEF Held
    <2> QED
      BY <2>1, <2>3, <2>4, <2>5 DEF Held
  <1> QED
    BY <1>10, <1>11, <1>12, <1>13, <1>14, <1>18, <1>19 DEF IInv

\* Adding items to the output that are not in it yet
LEMMA BagAdd ==
    ASSUME NEW bag, NEW S, BagToSet(bag) \cap S = {}, \A a \in BagToSet(bag) : bag[a] = 1
    PROVE  /\ BagToSet(bag (+) SetToBag(S)) = BagToSet(bag) \cup S
           /\ \A a \in BagToSet(bag) \cup S : (bag (+) SetToBag(S))[a] = 1
  <1>1. \A a \in S : SetToBag(S)[a] = 1
    BY DEF SetToBag
  <1>2. DOMAIN SetToBag(S) = S
    BY DEF SetToBag
  <1>3. BagToSet(bag) = DOMAIN bag
    BY DEF BagToSet
  <1>4. PICK other : other = SetToBag(S)
    OBVIOUS
  <1>5. bag (+) other = [e \in DOMAIN bag \cup DOMAIN other |->
                            (IF e \in DOMAIN bag THEN bag[e] ELSE 0)
                                + (IF e \in DOMAIN other THEN other[e] ELSE 0)]
    BY DEF (+)
  <1>6. BagToSet(bag (+) other) = DOMAIN bag \cup S
    BY <1>2, <1>4, <1>5 DEF BagToSet
  <1>7. \A a \in DOMAIN bag \cup S : (bag (+) other)[a] = 1
    BY <1>1, <1>2, <1>3, <1>4, <1>5
  <1> QED
    BY <1>3, <1>4, <1>6, <1>7

\* The finalizer writes a batch of items, or what can be written of it
LEMMA WriteStep ==
    ASSUME IInv, Write
    PROVE  IInv'
  <1>1. TypeOK /\ Counted /\ Stages /\ Origin /\ Stock /\ Separate /\ Covered
    BY DEF IInv
  <1>2. PICK X : X = Head(queueOut)
    OBVIOUS
  <1>3. PICK lost \in SUBSET X :
           /\ "write" \in setup.faults \/ lost = {}
           /\ written' = written (+) SetToBag(X \ lost)
    BY <1>2 DEF Write
  <1>4. PICK K : K = X \ lost
    OBVIOUS
  <1>5. /\ queueOut # <<>> /\ queueOut' = Tail(queueOut) /\ unfinishedOut' = unfinishedOut - 1
        /\ UNCHANGED <<setup, main, next, queueIn, unfinishedIn, worker, finalizer>>
    BY DEF Write
  <1>6. /\ Length' = Length /\ Workers' = Workers
        /\ \A i : (Reported(i)' <=> Reported(i)) /\ BatchOf(i)' = BatchOf(i) /\ Line(i)' = Line(i)
        /\ \A batch : Read(batch)' <=> Read(batch)
        /\ \A a : Sound(a)' <=> Sound(a)
    BY <1>1, <1>5, StillSame DEF Still
  <1>7. queueOut \in Seq(SUBSET Items)
    BY <1>1 DEF TypeOK
  <1>8. /\ X = queueOut[1] /\ 1 \in DOMAIN queueOut
        /\ queueOut' \in Seq(SUBSET Items) /\ Len(queueOut) \in Nat /\ Len(queueOut) > 0
        /\ Len(queueOut') = Len(queueOut) - 1
        /\ DOMAIN queueOut = 1..Len(queueOut) /\ DOMAIN queueOut' = 1..(Len(queueOut) - 1)
        /\ \A k \in 1..(Len(queueOut) - 1) : queueOut'[k] = queueOut[k + 1] /\ k + 1 \in DOMAIN queueOut
    BY <1>2, <1>5, <1>7, QueueTail
  <1>9. TypeOK'
    BY <1>1, <1>5, <1>6, <1>8 DEF TypeOK
  <1>10. Busy' = Busy
    BY <1>5, <1>6 DEF Busy
  <1>11. Counted'
    BY <1>1, <1>5, <1>8, <1>10 DEF Counted
  <1>12. Stages'
    <2>1. main \notin {"done", "raised"}
      BY <1>1, <1>5 DEF Stages
    <2> QED
      BY <1>1, <1>5, <1>6, <1>10, <2>1 DEF Stages
  <1>13. \A k \in DOMAIN queueOut : OneEach(queueOut[k]) /\ \A a \in queueOut[k] : Sound(a)
    BY <1>1 DEF Origin
  <1>14. OneEach(X) /\ \A a \in X : Sound(a)
    BY <1>8, <1>13
  <1>15. Origin'
    <2>1. (\A k \in DOMAIN queueIn : Read(queueIn[k]))'
      BY <1>1, <1>5, <1>6 DEF Origin
    <2>2. (\A v \in Workers :
             /\ worker[v].at = "idle" => worker[v].batch = <<>>
             /\ worker[v].at # "idle" => Read(worker[v].batch)
             /\ worker[v].at = "put" => Outcome(worker[v].batch, worker[v].items))'
      BY <1>1, <1>5, <1>6 DEF Origin
    <2>3. (\A k \in DOMAIN queueOut : OneEach(queueOut[k]) /\ \A a \in queueOut[k] : Sound(a))'
      <3>1. \A k \in DOMAIN queueOut' : \E y : y = queueOut'[k] /\ OneEach(y) /\ \A a \in y : Sound(a)
        BY <1>8, <1>13
      <3> QED
        BY <1>6, <3>1
    <2> QED
      BY <2>1, <2>2, <2>3 DEF Origin
  <1>16. Finished[1] = Numbered(X) /\ 1 \in DOMAIN Finished /\ IsTail(Finished', Finished)
    <2>1. DOMAIN Finished = 1..Len(queueOut) /\ DOMAIN Finished' = 1..(Len(queueOut) - 1)
      BY <1>8 DEF Finished
    <2>2. \A k \in 1..Len(queueOut) : Finished[k] = Numbered(queueOut[k])
      BY <1>8 DEF Finished
    <2>3. \A k \in 1..(Len(queueOut) - 1) : Finished'[k] = Numbered(queueOut'[k])
      BY <1>8 DEF Finished
    <2>4. \A k \in 1..(Len(queueOut) - 1) : Finished'[k] = Finished[k + 1]
      BY <1>8, <2>2, <2>3
    <2> QED
      BY <1>8, <2>1, <2>2, <2>4 DEF IsTail
  <1>17. /\ \A a \in BagToSet(written) : Sound(a) /\ written[a] = 1
         /\ OneEach(BagToSet(written))
    BY <1>1 DEF Stock
  <1>18. \A a \in BagToSet(written) : \A b \in X : a.index # b.index
    <2>1. Numbered(X) \cap Done = {}
      BY <1>1, <1>16 DEF Separate, Separated, Clear
    <2> QED
      BY <2>1 DEF Numbered, Done
  <1>19. /\ BagToSet(written') = BagToSet(written) \cup K
         /\ \A a \in BagToSet(written) \cup K : written'[a] = 1
    <2>1. BagToSet(written) \cap K = {}
      BY <1>4, <1>18
    <2> QED
      BY <1>3, <1>4, <1>17, <2>1, BagAdd
  <1>20. Stock'
    <2>1. OneEach(BagToSet(written) \cup K)
      BY <1>4, <1>14, <1>17, <1>18 DEF OneEach
    <2>2. \A a \in BagToSet(written) \cup K : Sound(a)
      BY <1>4, <1>14, <1>17
    <2>3. (\A a \in BagToSet(written) : Sound(a) /\ written[a] = 1)'
      BY <1>6, <1>19, <2>2
    <2> QED
      BY <1>19, <2>1, <2>3 DEF Stock
  <1>21. Queued' = Queued /\ Working' = Working
    BY <1>5, <1>6 DEF Queued, Working
  <1>22. Done' = Done \cup Numbered(K)
    BY <1>19 DEF Done, Numbered
  <1>23. Separate'
    <2>1. Done' \subseteq Done \cup Finished[1]
      BY <1>4, <1>16, <1>22 DEF Numbered
    <2>2. Separated(Queued, Working, Finished', Done')
      BY <1>1, <1>16, <2>1, Stored DEF Separate
    <2> QED
      BY <1>21, <2>2 DEF Separate
  <1>24. Covered'
    <2> SUFFICES ASSUME setup.faults \cap {"answer", "write"} = {},
                        NEW i \in 0..next - 1, Reported(i)
                 PROVE  Held(i, Queued', Working', Finished', Done')
      BY <1>5, <1>6 DEF Covered
    <2>1. Held(i, Queued, Working, Finished, Done)
      BY <1>1 DEF Covered
    <2>2. \A y \in DOMAIN Finished : y = 1 \/ \E x \in DOMAIN Finished' : Finished'[x] = Finished[y]
      BY <1>16, TailFrom
    <2>3. CASE i \in Finished[1]
      <3>1. K = X
        BY <1>3, <1>4
      <3>2. i \in Done'
        BY <1>16, <1>22, <2>3, <3>1
      <3> QED
        BY <3>2 DEF Held
    <2>4. CASE \E k \in DOMAIN Finished : k # 1 /\ i \in Finished[k]
      BY <2>2, <2>4 DEF Held
    <2>5. CASE (\E k \in DOMAIN Queued : i \in Queued[k]) \/ (\E v \in DOMAIN Working : i \in Working[v])
               \/ i \in Done
      BY <1>21, <1>22, <2>5 DEF Held
    <2> QED
      BY <2>1, <2>3, <2>4, <2>5 DEF Held
  <1> QED
    BY <1>9, <1>11, <1>12, <1>15, <1>20, <1>23, <1>24 DEF IInv

\* Every step keeps the invariant
LEMMA StepHolds == IInv /\ [Next]_vars => IInv'
  <1> SUFFICES ASSUME IInv, [Next]_vars PROVE IInv'
    OBVIOUS
  <1>1. CASE Main
    BY <1>1, ProduceStep, EndOfFileStep, JoinInStep, JoinOutStep DEF Main
  <1>2. ASSUME NEW w \in Workers, Consume(w) PROVE IInv'
    BY <1>2, GetStep, InferFailsStep, InferReturnsStep, PostprocessRaisesStep, PutStep DEF Consume
  <1>3. CASE Finalize
    BY <1>3, OpenStep, WriteStep DEF Finalize
  <1>4. CASE UNCHANGED vars
    BY <1>4, Stutter
  <1> QED
    BY <1>1, <1>2, <1>3, <1>4 DEF Next

\* The invariant holds for every set of command lines
LEMMA IInvHolds == Spec => []IInv
  BY InitHolds, StepHolds, PTL DEF Spec

\* Items in the output are right and, by Stock, one for each line
LEMMA WrittenOnceFrom == IInv => WrittenOnce
  <1> SUFFICES ASSUME IInv, NEW item \in BagToSet(written)
               PROVE  /\ written[item] = 1
                      /\ \A other \in BagToSet(written) : other.index = item.index => other = item
                      /\ item.index \in 0..Length - 1
                      /\ item.kind = "invalid" <=> Line(item.index).kind = "invalid"
    BY DEF WrittenOnce
  <1>1. TypeOK /\ Stock
    BY DEF IInv
  <1>2. Sound(item) /\ written[item] = 1
    BY <1>1 DEF Stock
  <1>3. \A other \in BagToSet(written) : other.index = item.index => other = item
    BY <1>1 DEF Stock, OneEach
  <1>4. item.index \in 0..Length - 1
    <2>1. item.index \in 0..next - 1 /\ next \in Nat /\ Length \in Nat /\ next <= Length
      BY <1>1, <1>2, SetupIs DEF Sound
    <2> QED
      BY <2>1
  <1> QED
    BY <1>2, <1>3, <1>4 DEF Sound

\* However the coroutines interleave and whatever fails, no line of the file has two
\* lines in the output, and only those that are no requests are reported to be invalid
THEOREM EveryLineWrittenOnce == Spec => []WrittenOnce
  BY IInvHolds, WrittenOnceFrom, PTL

\* When all is done the queues are empty and the consumers idle: what is covered is
\* written
LEMMA NothingVanishesFrom == IInv => NothingVanishes
  <1> SUFFICES ASSUME IInv, main = "done", setup.faults \cap {"answer", "write"} = {},
                      NEW i \in 0..Length - 1, Reported(i)
               PROVE  \E item \in BagToSet(written) : item.index = i
    BY DEF NothingVanishes
  <1>1. TypeOK /\ Stages /\ Origin /\ Covered
    BY DEF IInv
  <1>2. next = Length /\ queueIn = <<>> /\ Busy = {} /\ queueOut = <<>>
    BY <1>1 DEF Stages
  <1>3. Held(i, Queued, Working, Finished, Done)
    BY <1>1, <1>2 DEF Covered
  <1>4. DOMAIN Queued = {} /\ DOMAIN Finished = {}
    BY <1>2 DEF Queued, Finished
  <1>5. \A w \in DOMAIN Working : Working[w] = {}
    BY <1>1, <1>2, NoIndices DEF Working, Busy, Origin
  <1>6. i \in Done
    BY <1>3, <1>4, <1>5 DEF Held
  <1> QED
    BY <1>6 DEF Done, Numbered

\* When the command has ended and responses could be taken apart and written, every
\* line has its line in the output, but for those that are known to be lost
THEOREM NothingVanishesEver == Spec => []NothingVanishes
  BY IInvHolds, NothingVanishesFrom, PTL

----------------------------------------------------------------------------
(* Merging and splitting requests of the same shape *)

\* No two requests of a batch have the same id, wherever they are
DistinctPlaces(R) == \A j, k \in DOMAIN R : R[j].id = R[k].id => j = k

\* No two inputs of the same name
InputsDiffer(r) == \A j, k \in DOMAIN r.inputs : r.inputs[j].name = r.inputs[k].name => j = k

\* The input with a name
LEMMA InputIs ==
    ASSUME NEW I, NEW r \in RequestsOver(I), InputsDiffer(r), NEW name, Has(r, name)
    PROVE  /\ \E j \in DOMAIN r.inputs : InputOf(r, name) = r.inputs[j]
           /\ InputOf(r, name) \in I /\ InputOf(r, name) \in ToSet(r.inputs)
           /\ InputOf(r, name).name = name
           /\ \A j \in DOMAIN r.inputs : r.inputs[j].name = name => r.inputs[j] = InputOf(r, name)
  <1> DEFINE places == {j \in DOMAIN r.inputs : r.inputs[j].name = name}
  <1>1. PICK s : s = r.inputs
    OBVIOUS
  <1>2. s \in Seq(I)
    BY <1>1 DEF RequestsOver
  <1>3. places \subseteq DOMAIN s /\ places # {}
    BY <1>1 DEF Has
  <1>4. InputOf(r, name) = Last(At(s, places))
    BY <1>1 DEF InputOf
  <1>5. \A j \in places : j \in DOMAIN s /\ s[j].name = name
    BY <1>1
  <1>6. \A j \in DOMAIN s : s[j].name = name => j \in places
    BY <1>1
  <1> HIDE DEF places
  <1>7. PICK i \in places : Last(At(s, places)) = s[i]
    BY <1>2, <1>3, AtLast
  <1>8. i \in DOMAIN s /\ s[i].name = name /\ s[i] \in I
    BY <1>2, <1>5, <1>7
  <1>9. \A j \in DOMAIN s : s[j].name = name => j = i
    BY <1>1, <1>8 DEF InputsDiffer
  <1>10. s[i] \in ToSet(s)
    BY <1>8 DEF ToSet
  <1> QED
    BY <1>1, <1>4, <1>7, <1>8, <1>9, <1>10

\* What uniform requests have in common
LEMMA Alike ==
    ASSUME NEW I, NEW R \in Seq(RequestsOver(I)), Uniform(R), NEW r \in ToSet(R), NEW s \in ToSet(R)
    PROVE  /\ r \in RequestsOver(I) /\ InputsDiffer(r)
           /\ \A j, k \in DOMAIN r.inputs : r.inputs[j].size = r.inputs[k].size
           /\ \A name : Has(r, name) =>
                 /\ Has(s, name) /\ InputOf(s, name).elem = InputOf(r, name).elem
                 /\ Len(InputOf(r, name).data) = InputOf(r, name).size * InputOf(r, name).elem
  <1>1. \A q \in ToSet(R) : q \in RequestsOver(I) /\ InputsDiffer(q)
    BY DEF Uniform, InputsDiffer, ToSet
  <1>2. ASSUME NEW name, Has(r, name)
        PROVE  /\ Has(s, name) /\ InputOf(s, name).elem = InputOf(r, name).elem
               /\ Len(InputOf(r, name).data) = InputOf(r, name).size * InputOf(r, name).elem
    <2>1. PICK j \in DOMAIN r.inputs : InputOf(r, name) = r.inputs[j] /\ r.inputs[j].name = name
      BY <1>1, <1>2, InputIs
    <2>2. PICK k \in DOMAIN s.inputs :
             s.inputs[k].name = r.inputs[j].name /\ s.inputs[k].elem = r.inputs[j].elem
      BY DEF Uniform
    <2>3. Has(s, name)
      BY <2>1, <2>2 DEF Has
    <2>4. InputOf(s, name) = s.inputs[k]
      BY <1>1, <2>1, <2>2, <2>3, InputIs
    <2>5. Len(r.inputs[j].data) = r.inputs[j].size * r.inputs[j].elem
      BY DEF Uniform
    <2> QED
      BY <2>1, <2>2, <2>3, <2>4, <2>5
  <1> QED
    BY <1>1, <1>2 DEF Uniform

\* If the requests have the same heads, all of them have each head
LEMMA HavingAll ==
    ASSUME NEW I, NEW R \in Seq(RequestsOver(I)), Uniform(R), NEW r \in ToSet(R), NEW name, Has(r, name)
    PROVE  Having(R, name) = R
  <1>1. \A i \in DOMAIN R : Has(R[i], name)
    <2>1. \A i \in DOMAIN R : R[i] \in ToSet(R)
      BY DEF ToSet
    <2> QED
      BY <2>1, Alike
  <1>2. {i \in DOMAIN R : Has(R[i], name)} = DOMAIN R
    BY <1>1
  <1> QED
    BY <1>2, AtAll DEF Having

\* The keys of what begins with different elements, and has no others, are its beginning
LEMMA KeysOfPrefix ==
    ASSUME NEW T, NEW s \in Seq(T), NEW m \in 0..Len(s),
           \A j, k \in 1..m : s[j] = s[k] => j = k,
           \A k \in 1..Len(s) : \E j \in 1..m : s[k] = s[j]
    PROVE  Keys(s) = [k \in 1..m |-> s[k]]
  <1>1. Len(s) \in Nat /\ m \in Nat /\ m <= Len(s) /\ DOMAIN s = 1..Len(s)
    OBVIOUS
  <1> DEFINE places == {i \in DOMAIN s : \A j \in 1..i - 1 : s[j] # s[i]}
  <1>2. ASSUME NEW i \in 1..m PROVE i \in places
    <2>1. i \in DOMAIN s
      BY <1>1
    <2>2. \A j \in 1..i - 1 : j \in 1..m /\ j # i
      BY <1>1
    <2> QED
      BY <2>1, <2>2
  <1>3. ASSUME NEW i \in places PROVE i \in 1..m
    <2>1. i \in 1..Len(s) /\ \A j \in 1..i - 1 : s[j] # s[i]
      BY <1>1
    <2>2. PICK j \in 1..m : s[i] = s[j]
      BY <2>1
    <2>3. ~(j \in 1..i - 1)
      BY <2>1, <2>2
    <2>4. i <= j
      BY <1>1, <2>1, <2>3
    <2> QED
      BY <1>1, <2>1, <2>4
  <1> HIDE DEF places
  <1>4. places = 1..m
    BY <1>2, <1>3
  <1>5. Keys(s) = At(s, places)
    BY DEF Keys, places
  <1> QED
    BY <1>4, <1>5, AtPrefix

\* Flattening starts with its first segment
LEMMA FlattenFirst ==
    ASSUME NEW T, NEW n \in Nat, NEW segs \in [1..n -> Seq(T)]
    PROVE  n > 0 => /\ FlattenSeq(segs) \in Seq(T) /\ Len(segs[1]) <= Len(FlattenSeq(segs))
                    /\ \A i \in 1..Len(segs[1]) : FlattenSeq(segs)[i] = segs[1][i]
  <1>0. PICK flat : flat = FlattenSeq(segs)
    OBVIOUS
  <1>1. PICK sizes : sizes = [k \in 1..n |-> Len(segs[k])]
    OBVIOUS
  <1>2. sizes \in [1..n -> Nat] /\ \A k \in 1..n : sizes[k] = Len(segs[k])
    BY <1>1
  <1>3. PICK off : Totals(off, sizes, n)
    BY <1>2, TotalsExist
  <1>4. /\ flat \in Seq(T) /\ Len(flat) = off[n]
        /\ \A k \in 1..n : \A i \in 1..Len(segs[k]) : flat[off[k - 1] + i] = segs[k][i]
    <2>1. SizesAre(sizes, segs, n) /\ Parts(segs, n, T)
      BY <1>2 DEF SizesAre, Parts
    <2>2. Laid(flat, segs, off, n, T)
      BY <1>0, <1>3, <2>1, FlattenIs
    <2> QED
      BY <2>2 DEF Laid
  <1> SUFFICES ASSUME n > 0
               PROVE  /\ flat \in Seq(T) /\ Len(segs[1]) <= Len(flat)
                      /\ \A i \in 1..Len(segs[1]) : flat[i] = segs[1][i]
    BY <1>0
  <1>5. 1 \in 1..n /\ n \in 0..n /\ 1 \in 0..n /\ 1 - 1 = 0
    OBVIOUS
  <1>6. off[0] = 0 /\ off[1] = off[1 - 1] + sizes[1]
    BY <1>3, <1>5 DEF Totals
  <1>7. sizes[1] = Len(segs[1]) /\ Len(segs[1]) \in Nat
    BY <1>2, <1>5
  <1>8. \A i \in 1..Len(segs[1]) : flat[i] = segs[1][i]
    <2>1. \A i \in 1..Len(segs[1]) : flat[off[1 - 1] + i] = segs[1][i]
      BY <1>4, <1>5
    <2>2. \A i \in 1..Len(segs[1]) : off[1 - 1] + i = i
      BY <1>5, <1>6
    <2> QED
      BY <2>1, <2>2
  <1>9. off[1] = Len(segs[1])
    BY <1>5, <1>6, <1>7
  <1>10. off[1] <= off[n]
    BY <1>2, <1>3, <1>5, TotalsGrow
  <1> QED
    BY <1>4, <1>8, <1>9, <1>10

\* The minibatch sizes are those of all requests, in their order
LEMMA OrderAll ==
    ASSUME NEW I, NEW R \in Seq(RequestsOver(I)), Uniform(R), DistinctPlaces(R),
           NEW r \in ToSet(R), r.inputs # <<>>
    PROVE  Order(R) = R
  <1>1. PICK heads : heads = Heads(R)
    OBVIOUS
  <1>2. /\ heads \in Seq(NamesOf(I))
        /\ \A name : name \in ToSet(heads) <=> \E q \in ToSet(R) : Has(q, name)
    BY <1>1, HeadsAre
  <1>3. DOMAIN heads = 1..Len(heads) /\ Len(heads) \in Nat /\ DOMAIN R = 1..Len(R) /\ Len(R) \in Nat
    BY <1>2
  <1>4. Len(heads) > 0
    <2>1. r.inputs \in Seq(I)
      <3>1. r \in RequestsOver(I)
        BY DEF ToSet
      <3> QED
        BY <3>1 DEF RequestsOver
    <2>2. 1 \in DOMAIN r.inputs
      BY <2>1
    <2>3. Has(r, r.inputs[1].name)
      BY <2>2 DEF Has
    <2>4. r.inputs[1].name \in ToSet(heads)
      BY <1>2, <2>3
    <2> QED
      BY <1>3, <2>4 DEF ToSet
  <1>5. PICK segs : segs = [h \in DOMAIN heads |-> Having(R, heads[h])]
    OBVIOUS
  <1>6. \A h \in 1..Len(heads) : segs[h] = R
    <2>1. ASSUME NEW h \in 1..Len(heads) PROVE Having(R, heads[h]) = R
      <3>1. heads[h] \in ToSet(heads)
        BY <1>3 DEF ToSet
      <3>2. PICK q \in ToSet(R) : Has(q, heads[h])
        BY <1>2, <3>1
      <3> QED
        BY <3>2, HavingAll
    <2> QED
      BY <1>3, <1>5, <2>1
  <1>7. segs \in [1..Len(heads) -> Seq(RequestsOver(I))]
    BY <1>3, <1>4, <1>5, <1>6
  <1>16. segs[1] = R
    BY <1>3, <1>4, <1>6
  <1>8. PICK flat : flat = FlattenSeq(segs)
    OBVIOUS
  <1>9. /\ flat \in Seq(RequestsOver(I)) /\ Len(R) <= Len(flat)
        /\ \A i \in 1..Len(R) : flat[i] = R[i]
    <2>1. PICK n \in Nat : n = Len(heads) /\ n > 0
      BY <1>3, <1>4
    <2>2. segs \in [1..n -> Seq(RequestsOver(I))]
      BY <1>7, <2>1
    <2>3. /\ FlattenSeq(segs) \in Seq(RequestsOver(I)) /\ Len(segs[1]) <= Len(FlattenSeq(segs))
          /\ \A i \in 1..Len(segs[1]) : FlattenSeq(segs)[i] = segs[1][i]
      BY <2>1, <2>2, FlattenFirst
    <2> QED
      BY <1>8, <1>16, <2>3
  <1>10. ToSet(flat) = UNION {ToSet(segs[k]) : k \in 1..Len(heads)}
    <2>1. flat \in Seq(RequestsOver(I)) /\ ToSet(flat) = UNION {ToSet(segs[k]) : k \in 1..Len(heads)}
      BY <1>3, <1>7, <1>8, FlattenElements
    <2> QED
      BY <2>1
  <1>11. \A k \in 1..Len(flat) : \E j \in 1..Len(R) : flat[k] = flat[j]
    <2> SUFFICES ASSUME NEW k \in 1..Len(flat) PROVE \E j \in 1..Len(R) : flat[k] = flat[j]
      OBVIOUS
    <2>1. flat[k] \in ToSet(flat)
      BY <1>9 DEF ToSet
    <2>2. PICK h \in 1..Len(heads) : flat[k] \in ToSet(segs[h])
      BY <1>10, <2>1
    <2>3. flat[k] \in ToSet(R)
      BY <1>6, <2>2
    <2>4. PICK j \in 1..Len(R) : flat[k] = R[j]
      BY <1>3, <2>3 DEF ToSet
    <2> QED
      BY <1>9, <2>4
  <1>12. \A j, k \in 1..Len(R) : flat[j] = flat[k] => j = k
    BY <1>3, <1>9 DEF DistinctPlaces
  <1>13. Len(R) \in 0..Len(flat)
    BY <1>3, <1>9
  <1>14. Keys(flat) = [k \in 1..Len(R) |-> flat[k]]
    BY <1>9, <1>11, <1>12, <1>13, KeysOfPrefix
  <1>15. [k \in 1..Len(R) |-> flat[k]] = R
    BY <1>3, <1>9
  <1> QED
    BY <1>1, <1>5, <1>8, <1>14, <1>15 DEF Order

\* An element tells the line, the input and the place it comes from
Points == Nat \X STRING \X Nat

\* Inputs have a shape and some data
Shaped(I) == \A i \in I : i.size \in Nat /\ i.elem \in Nat /\ i.data \in Seq(Points)

\* Inputs that are made are such
LEMMA MadeShaped ==
    ASSUME NEW batch, IsBatch(batch)
    PROVE  Shaped(Made(batch))
  <1> SUFFICES ASSUME NEW i \in Made(batch)
               PROVE  i.size \in Nat /\ i.elem \in Nat /\ i.data \in Seq(Points)
    BY DEF Shaped
  <1>1. PICK x \in ToSet(batch) : i \in ToSet(Request(x).inputs)
    BY DEF Made
  <1>2. x.index \in Nat /\ x.line \in Lines
    <2>1. x \in Rows
      BY DEF IsBatch, ToSet
    <2> QED
      BY <2>1 DEF Rows
  <1>3. PICK s : s = x.line.inputs
    OBVIOUS
  <1>4. s \in Seq(Inputs)
    BY <1>2, <1>3 DEF Lines
  <1>5. PICK t : t = Request(x).inputs
    OBVIOUS
  <1>6. t = [j \in DOMAIN s |->
              [name |-> s[j].name, size |-> s[j].size, elem |-> s[j].elem,
               type |-> s[j].type,
               data |-> [k \in 1..s[j].length |-> <<x.index, s[j].name, k>>],
               param |-> IF s[j].param THEN Parameter(Text(x.index)) ELSE NoParameter]]
    BY <1>3, <1>5 DEF Request
  <1>7. PICK j \in DOMAIN t : i = t[j]
    BY <1>1, <1>5 DEF ToSet
  <1>8. j \in DOMAIN s
    BY <1>6
  <1>9. s[j].size \in Nat /\ s[j].elem \in Nat /\ s[j].length \in Nat /\ s[j].name \in STRING
    <2>1. s[j] \in Inputs
      BY <1>4, <1>8
    <2> QED
      BY <2>1 DEF Inputs
  <1>10. PICK n \in Nat : n = s[j].length
    BY <1>9
  <1>11. PICK d : d = [k \in 1..n |-> <<x.index, s[j].name, k>>]
    OBVIOUS
  <1>12. i = [name |-> s[j].name, size |-> s[j].size, elem |-> s[j].elem,
              type |-> s[j].type, data |-> d,
              param |-> IF s[j].param THEN Parameter(Text(x.index)) ELSE NoParameter]
    BY <1>6, <1>7, <1>8, <1>10, <1>11
  <1>13. d \in Seq(Points)
    <2>1. \A k \in 1..n : <<x.index, s[j].name, k>> \in Points
      BY <1>2, <1>9 DEF Points
    <2> QED
      BY <1>11, <2>1
  <1> QED
    BY <1>9, <1>10, <1>12, <1>13

\* The slices of t are the parts
Sliced(t, segs, off, sizes, n) == \A k \in 1..n : Slice(t, off[k - 1], sizes[k]) = segs[k]

\* Slicing at the running totals takes a whole apart into its parts
LEMMA SliceIs ==
    ASSUME NEW T, NEW n \in Nat, NEW segs, Parts(segs, n, T),
           NEW sizes, SizesAre(sizes, segs, n), NEW off, Totals(off, sizes, n)
    PROVE  Sliced(FlattenSeq(segs), segs, off, sizes, n)
  <1>1. PICK flat : flat = FlattenSeq(segs)
    OBVIOUS
  <1>2. /\ flat \in Seq(T) /\ Len(flat) = off[n]
        /\ \A k \in 1..n : \A i \in 1..Len(segs[k]) : flat[off[k - 1] + i] = segs[k][i]
    <2>1. Laid(flat, segs, off, n, T)
      BY <1>1, FlattenIs
    <2> QED
      BY <2>1 DEF Laid
  <1> SUFFICES ASSUME NEW k \in 1..n PROVE Slice(flat, off[k - 1], sizes[k]) = segs[k]
    BY <1>1 DEF Sliced
  <1>3. sizes \in [1..n -> Nat] /\ sizes[k] = Len(segs[k]) /\ segs[k] \in Seq(T)
    BY DEF SizesAre, Parts
  <1>4. PICK a \in Nat, c \in Nat, L \in Nat :
           /\ a = off[k - 1] /\ c = sizes[k] /\ L = off[n]
           /\ a + c = off[k] /\ off[k] <= L
    <2>1. k - 1 \in 0..n /\ k \in 0..n /\ n \in 0..n
      OBVIOUS
    <2>2. off[k - 1] \in Nat /\ off[k] \in Nat /\ off[n] \in Nat /\ off[k] = off[k - 1] + sizes[k]
      BY <2>1 DEF Totals
    <2>3. off[k] <= off[n]
      BY <1>3, <2>1, TotalsGrow
    <2> QED
      BY <1>3, <2>2, <2>3
  <1>5. a + c <= L /\ Len(flat) = L
    BY <1>2, <1>4
  <1>6. Slice(flat, a, c) = SubSeq(flat, a + 1, a + c)
    BY <1>5 DEF Slice
  <1>7. \A i \in 1..c : flat[a + i] = segs[k][i]
    BY <1>2, <1>3, <1>4
  <1>8. \A i \in (a + 1)..(a + c) : flat[i] \in T
    <2>1. \A i \in (a + 1)..(a + c) : i \in 1..Len(flat)
      BY <1>5
    <2> QED
      BY <1>2, <2>1
  <1>9. PICK u : u = SubSeq(flat, a + 1, a + c)
    OBVIOUS
  <1>10. /\ u \in Seq(T)
         /\ Len(u) = IF a + 1 <= a + c THEN (a + c) - (a + 1) + 1 ELSE 0
         /\ \A i \in 1..(a + c) - (a + 1) + 1 : u[i] = flat[(a + 1) + i - 1]
    <2>1. a + 1 \in Int /\ a + c \in Int
      OBVIOUS
    <2> QED
      BY <1>8, <1>9, <2>1, SubSeqProperties
  <1>11. Len(u) = c
    BY <1>10
  <1>12. \A i \in 1..c : u[i] = flat[a + i]
    <2>1. \A i \in 1..c : i \in 1..(a + c) - (a + 1) + 1 /\ (a + 1) + i - 1 = a + i
      OBVIOUS
    <2> QED
      BY <1>10, <2>1
  <1>13. u = segs[k]
    <2>1. DOMAIN u = 1..c /\ u = [i \in 1..c |-> u[i]]
      BY <1>10, <1>11
    <2>2. segs[k] = [i \in 1..c |-> segs[k][i]]
      BY <1>3, <1>4
    <2> QED
      BY <1>7, <1>12, <2>1, <2>2
  <1> QED
    BY <1>4, <1>6, <1>9, <1>13

\* What is before a minibatch is a running total
LEMMA BeforeIs ==
    ASSUME NEW n \in Nat, NEW q \in [1..n -> Nat], NEW off, Totals(off, q, n), NEW k \in 1..n,
           NEW sizes, \A j \in 1..n : sizes[j].size = q[j]
    PROVE  Before(sizes, k) = off[k - 1]
  <1>1. PICK m \in Nat : m = k - 1 /\ m <= n
    OBVIOUS
  <1>2. PICK p : p = [j \in 1..m |-> sizes[j].size]
    OBVIOUS
  <1>3. PICK o : o = [j \in 0..m |-> off[j]]
    OBVIOUS
  <1>4. \A j \in 1..m : j \in 1..n /\ j \in 0..m /\ j - 1 \in 0..m
    BY <1>1
  <1>5. p \in [1..m -> Nat] /\ \A j \in 1..m : p[j] = q[j]
    BY <1>2, <1>4
  <1>6. Totals(o, p, m)
    <2>1. off \in [0..n -> Nat] /\ off[0] = 0 /\ \A j \in 1..n : off[j] = off[j - 1] + q[j]
      BY DEF Totals
    <2>2. \A j \in 0..m : j \in 0..n
      BY <1>1
    <2>5. 0 \in 0..m
      BY <1>1
    <2>6. \A j \in 0..m : off[j] \in Nat
      BY <2>1, <2>2
    <2>7. o \in [0..m -> Nat]
      BY <1>3, <2>6
    <2>8. o[0] = 0
      BY <1>3, <2>1, <2>5
    <2>3. o \in [0..m -> Nat] /\ o[0] = 0
      BY <2>7, <2>8
    <2>4. \A j \in 1..m : o[j] = o[j - 1] + p[j]
      BY <1>3, <1>4, <1>5, <2>1
    <2> QED
      BY <2>3, <2>4 DEF Totals
  <1>7. SumOf(p) = o[m]
    BY <1>5, <1>6, SumIs
  <1>8. o[m] = off[k - 1]
    BY <1>1, <1>3
  <1>9. Before(sizes, k) = SumOf(p)
    BY <1>1, <1>2 DEF Before
  <1> QED
    BY <1>7, <1>8, <1>9

\* Every minibatch has the rows of its request
LEMMA SizesAll ==
    ASSUME NEW I, NEW R \in Seq(RequestsOver(I)), Uniform(R), DistinctPlaces(R),
           NEW k \in DOMAIN R, NEW name, Has(R[k], name)
    PROVE  /\ DOMAIN MinibatchSizes(R) = DOMAIN R
           /\ MinibatchSizes(R)[k].id = R[k].id
           /\ MinibatchSizes(R)[k].size = InputOf(R[k], name).size
  <1>1. PICK heads : heads = Heads(R)
    OBVIOUS
  <1>2. heads \in Seq(NamesOf(I)) /\ \A h : h \in ToSet(heads) <=> \E q \in ToSet(R) : Has(q, h)
    BY <1>1, HeadsAre
  <1>3. PICK r : r = R[k]
    OBVIOUS
  <1>4. r \in ToSet(R) /\ Has(r, name)
    BY <1>3 DEF ToSet
  <1>5. r \in RequestsOver(I) /\ InputsDiffer(r)
        /\ \A i, j \in DOMAIN r.inputs : r.inputs[i].size = r.inputs[j].size
    BY <1>4, Alike
  <1>6. r.inputs # <<>>
    BY <1>4 DEF Has
  <1>7. Order(R) = R
    BY <1>4, <1>6, OrderAll
  <1> DEFINE places == {h \in DOMAIN heads : Has(r, heads[h])}
             last == Last(At(heads, places))
  <1>8. MinibatchSizes(R)[k].size = InputOf(r, last).size
    <2>1. PICK order : order = Order(R)
      OBVIOUS
    <2>2. MinibatchSizes(R) = [l \in DOMAIN order |->
             [id |-> order[l].id,
              size |-> InputOf(order[l], Last(At(heads, {h \in DOMAIN heads : Has(order[l], heads[h])}))).size]]
      BY <1>1, <2>1 DEF MinibatchSizes, Order
    <2>3. order = R /\ order[k] = r /\ k \in DOMAIN order
      BY <1>3, <1>7, <2>1
    <2> QED
      BY <2>2, <2>3
  <1>9. Has(r, last)
    <2>1. name \in ToSet(heads)
      BY <1>2, <1>4
    <2>2. places \subseteq DOMAIN heads /\ places # {}
      BY <1>4, <2>1 DEF ToSet
    <2>3. \A h \in places : Has(r, heads[h])
      OBVIOUS
    <2> HIDE DEF places
    <2>4. PICK h \in places : Last(At(heads, places)) = heads[h]
      BY <1>2, <2>2, AtLast
    <2> QED
      BY <2>3, <2>4
  <1> HIDE DEF last, places
  <1>10. InputOf(r, last).size = InputOf(r, name).size
    <2>1. PICK i \in DOMAIN r.inputs : InputOf(r, last) = r.inputs[i]
      BY <1>5, <1>9, InputIs
    <2>2. PICK j \in DOMAIN r.inputs : InputOf(r, name) = r.inputs[j]
      BY <1>4, <1>5, InputIs
    <2> QED
      BY <1>5, <2>1, <2>2
  <1>11. DOMAIN MinibatchSizes(R) = DOMAIN R /\ MinibatchSizes(R)[k].id = R[k].id
    BY <1>7, SizesOf
  <1> QED
    BY <1>3, <1>8, <1>10, <1>11

\* Rows of e elements each
LEMMA Distribute ==
    ASSUME NEW a \in Nat, NEW b \in Nat, NEW e \in Nat
    PROVE  (a + b) * e = a * e + b * e /\ a * e \in Nat
  OBVIOUS

\* Running totals of rows, and of the elements in them
LEMMA TotalsTimes ==
    ASSUME NEW n \in Nat, NEW q \in [1..n -> Nat], NEW off, Totals(off, q, n), NEW e \in Nat,
           NEW lens, \A k \in 1..n : lens[k] = q[k] * e,
           NEW o, o = [k \in 0..n |-> off[k] * e]
    PROVE  Totals(o, lens, n)
  <1>1. off \in [0..n -> Nat] /\ off[0] = 0 /\ \A k \in 1..n : off[k] = off[k - 1] + q[k]
    BY DEF Totals
  <1>2. \A k \in 0..n : off[k] * e \in Nat
    BY <1>1, Distribute
  <1>3. o \in [0..n -> Nat]
    BY <1>2
  <1>4. o[0] = 0
    <2>1. 0 \in 0..n /\ 0 * e = 0
      OBVIOUS
    <2> QED
      BY <1>1, <2>1
  <1>5. ASSUME NEW k \in 1..n PROVE o[k] = o[k - 1] + lens[k]
    <2>1. k \in 0..n /\ k - 1 \in 0..n
      OBVIOUS
    <2>2. PICK a \in Nat, b \in Nat : a = off[k - 1] /\ b = q[k] /\ off[k] = a + b
      BY <1>1, <2>1
    <2>3. o[k] = (a + b) * e /\ o[k - 1] = a * e /\ lens[k] = b * e
      BY <2>1, <2>2
    <2> QED
      BY <2>3, Distribute
  <1> QED
    BY <1>3, <1>4, <1>5 DEF Totals

\* Of the merged data of a head everyone gets back its own
LEMMA SplitOwn ==
    ASSUME NEW I, Shaped(I), NEW R \in Seq(RequestsOver(I)), Uniform(R), DistinctPlaces(R),
           NEW k \in DOMAIN R, NEW name, Has(R[k], name)
    PROVE  SplitData(MergeRequestInputs(R, name), MinibatchSizes(R), k) = InputOf(R[k], name).data
  <1>1. PICK n \in Nat : n = Len(R)
    OBVIOUS
  <1>2. DOMAIN R = 1..n /\ k \in 1..n
    BY <1>1
  <1>3. PICK sizes : sizes = MinibatchSizes(R)
    OBVIOUS
  <1>4. PICK inp : inp = [i \in 1..n |-> InputOf(R[i], name)]
    OBVIOUS
  <1>5. \A i \in 1..n : R[i] \in ToSet(R)
    BY <1>2 DEF ToSet
  <1>6. \A i \in 1..n : Has(R[i], name) /\ R[i] \in RequestsOver(I) /\ InputsDiffer(R[i])
    BY <1>2, <1>5, Alike
  <1>7. PICK e : e = inp[1].elem
    OBVIOUS
  <1>8. \A i \in 1..n : inp[i] = InputOf(R[i], name) /\ inp[i] \in I
    BY <1>4, <1>6, InputIs
  <1>9. 1 \in 1..n
    BY <1>2
  <1>10. \A i \in 1..n : inp[i].elem = e
    BY <1>5, <1>6, <1>7, <1>8, <1>9, Alike
  <1>11. \A i \in 1..n : /\ inp[i].size \in Nat /\ inp[i].data \in Seq(Points)
                         /\ Len(inp[i].data) = inp[i].size * e
    <2>1. \A i \in 1..n : inp[i].size \in Nat /\ inp[i].data \in Seq(Points)
      BY <1>8 DEF Shaped
    <2>2. \A i \in 1..n : Len(inp[i].data) = inp[i].size * inp[i].elem
      BY <1>5, <1>6, <1>8, Alike
    <2> QED
      BY <1>10, <2>1, <2>2
  <1>12. e \in Nat
    BY <1>7, <1>8, <1>9 DEF Shaped
  <1>13. \A i \in 1..n : sizes[i].size = inp[i].size
    BY <1>2, <1>3, <1>6, <1>8, SizesAll
  <1>14. PICK segs \in [1..n -> Seq(Points)] : segs = [i \in 1..n |-> inp[i].data]
    BY <1>11
  <1>15. Parts(segs, n, Points)
    BY DEF Parts
  <1>16. \A i \in 1..n : segs[i] = inp[i].data
    BY <1>14
  <1>17. PICK m : m = MergeRequestInputs(R, name)
    OBVIOUS
  <1>18. m.data = FlattenSeq(segs) /\ m.elem = e
    <2>1. Having(R, name) = R
      BY <1>2, <1>5, HavingAll
    <2>2. PICK inputs : inputs = [i \in DOMAIN R |-> InputOf(R[i], name)]
      OBVIOUS
    <2>3. m.data = FlattenSeq([i \in DOMAIN inputs |-> inputs[i].data]) /\ m.elem = Head(inputs).elem
      BY <1>17, <2>1, <2>2 DEF MergeRequestInputs
    <2>4. inputs = inp /\ DOMAIN inputs = 1..n
      BY <1>2, <1>4, <2>2
    <2>5. Head(inputs) = inp[1]
      <3>1. inp \in [1..n -> I]
        BY <1>4, <1>8
      <3>2. inp \in Seq(I) /\ Len(inp) = n
        BY <3>1
      <3>3. n # 0
        BY <1>9
      <3>4. inp # <<>>
        BY <3>2, <3>3
      <3> QED
        BY <2>4, <3>2, <3>4
    <2>6. m.data = FlattenSeq([i \in 1..n |-> inp[i].data])
      BY <2>3, <2>4
    <2> QED
      BY <1>7, <1>14, <2>3, <2>5, <2>6
  <1>19. PICK q : q = [i \in 1..n |-> inp[i].size]
    OBVIOUS
  <1>20. q \in [1..n -> Nat] /\ \A i \in 1..n : q[i] = inp[i].size /\ sizes[i].size = q[i]
    BY <1>11, <1>13, <1>19
  <1>21. PICK off : Totals(off, q, n)
    BY <1>20, TotalsExist
  <1>22. PICK lens : lens = [i \in 1..n |-> q[i] * e]
    OBVIOUS
  <1>23. \A i \in 1..n : lens[i] = q[i] * e
    BY <1>22
  <1>24. PICK o : o = [i \in 0..n |-> off[i] * e]
    OBVIOUS
  <1>25. Totals(o, lens, n)
    BY <1>12, <1>20, <1>21, <1>23, <1>24, TotalsTimes
  <1>26. SizesAre(lens, segs, n)
    <2>1. \A i \in 1..n : q[i] * e \in Nat
      BY <1>12, <1>20, Distribute
    <2>2. lens \in [1..n -> Nat]
      BY <1>22, <2>1
    <2>3. \A i \in 1..n : lens[i] = Len(segs[i])
      BY <1>11, <1>16, <1>20, <1>23
    <2> QED
      BY <2>2, <2>3 DEF SizesAre
  <1>27. Slice(FlattenSeq(segs), o[k - 1], lens[k]) = segs[k]
    <2>1. Sliced(FlattenSeq(segs), segs, o, lens, n)
      BY <1>15, <1>25, <1>26, SliceIs
    <2> QED
      BY <1>2, <2>1 DEF Sliced
  <1>28. Before(sizes, k) = off[k - 1]
    BY <1>2, <1>20, <1>21, BeforeIs
  <1>29. k - 1 \in 0..n
    BY <1>2
  <1>30. SplitData(m, sizes, k) = Slice(FlattenSeq(segs), off[k - 1] * e, q[k] * e)
    BY <1>2, <1>18, <1>20, <1>28 DEF SplitData
  <1>31. o[k - 1] = off[k - 1] * e /\ lens[k] = q[k] * e
    BY <1>2, <1>23, <1>24, <1>29
  <1>32. segs[k] = InputOf(R[k], name).data
    BY <1>2, <1>8, <1>16
  <1> QED
    BY <1>3, <1>17, <1>27, <1>30, <1>31, <1>32

\* The outputs a request gets are its own inputs
LEMMA OutputsOwn ==
    ASSUME NEW I, Shaped(I), NEW R \in Seq(RequestsOver(I)), Uniform(R), DistinctPlaces(R),
           NEW a \in ToSet(SplitResponse(R, MergeRequests(R)))
    PROVE  \E r \in ToSet(R) :
              /\ a.id = r.id
              /\ DOMAIN a.outputs = DOMAIN Heads(R)
              /\ \A j \in DOMAIN Heads(R) :
                    /\ Has(r, Heads(R)[j])
                    /\ a.outputs[j].name = Heads(R)[j]
                    /\ a.outputs[j].size = InputOf(r, Heads(R)[j]).size
                    /\ a.outputs[j].data = InputOf(r, Heads(R)[j]).data
              /\ r.inputs # <<>>
  <1>1. PICK heads : heads = Heads(R)
    OBVIOUS
  <1>2. heads \in Seq(NamesOf(I)) /\ \A h : h \in ToSet(heads) <=> \E q \in ToSet(R) : Has(q, h)
    BY <1>1, HeadsAre
  <1>3. PICK merged : merged = MergeRequests(R)
    OBVIOUS
  <1>4. DOMAIN merged = DOMAIN heads /\ \A j \in DOMAIN heads : merged[j] = MergeRequestInputs(R, heads[j])
    BY <1>1, <1>3 DEF MergeRequests
  <1>5. PICK sizes : sizes = MinibatchSizes(R)
    OBVIOUS
  <1>6. PICK split : split = SplitResponse(R, merged)
    OBVIOUS
  <1>7. PICK k \in DOMAIN split : a = split[k]
    BY <1>3, <1>6 DEF ToSet
  <1>8. k \in DOMAIN sizes
    BY <1>5, <1>6 DEF SplitResponse
  <1>9. PICK outputs : outputs = a.outputs
    OBVIOUS
  <1>10. /\ a.id = sizes[k].id
         /\ outputs = [j \in DOMAIN merged |->
                          [name |-> merged[j].name,
                           size |-> sizes[k].size,
                           data |-> SplitData(merged[j], sizes, k),
                           params |-> SplitParameters(merged[j], sizes, k)]]
    BY <1>5, <1>6, <1>7, <1>8, <1>9 DEF SplitResponse
  <1>11. /\ DOMAIN outputs = DOMAIN heads
         /\ \A j \in DOMAIN heads : /\ outputs[j].name = merged[j].name /\ outputs[j].size = sizes[k].size
                                    /\ outputs[j].data = SplitData(merged[j], sizes, k)
    BY <1>4, <1>10
  <1>12. k \in DOMAIN Order(R) /\ Order(R)[k] \in ToSet(Order(R))
    BY <1>5, <1>8, SizesOf DEF ToSet
  <1>13. Order(R)[k] \in ToSet(R) /\ Order(R)[k].inputs # <<>>
    BY <1>12, OrderIs
  <1>14. Order(R) = R
    BY <1>13, OrderAll
  <1>15. PICK r : r = R[k]
    OBVIOUS
  <1>16. k \in DOMAIN R /\ r \in ToSet(R) /\ r.inputs # <<>>
    BY <1>12, <1>13, <1>14, <1>15
  <1>17. a.id = r.id
    BY <1>5, <1>10, <1>14, <1>15, <1>16, SizesOf
  <1>18. ASSUME NEW j \in DOMAIN heads
         PROVE  /\ Has(r, heads[j])
                /\ outputs[j].name = heads[j]
                /\ outputs[j].size = InputOf(r, heads[j]).size
                /\ outputs[j].data = InputOf(r, heads[j]).data
    <2>1. heads[j] \in ToSet(heads)
      BY DEF ToSet
    <2>2. PICK q \in ToSet(R) : Has(q, heads[j])
      BY <1>2, <2>1
    <2>3. Has(r, heads[j])
      BY <1>16, <2>2, Alike
    <2>4. merged[j] = MergeRequestInputs(R, heads[j])
      BY <1>4
    <2>5. merged[j].name = heads[j]
      BY <2>4 DEF MergeRequestInputs
    <2>6. SplitData(merged[j], sizes, k) = InputOf(r, heads[j]).data
      BY <1>5, <1>15, <1>16, <2>3, <2>4, SplitOwn
    <2>7. sizes[k].size = InputOf(r, heads[j]).size
      BY <1>5, <1>15, <1>16, <2>3, SizesAll
    <2> QED
      BY <1>11, <2>3, <2>5, <2>6, <2>7
  <1> QED
    BY <1>1, <1>9, <1>11, <1>16, <1>17, <1>18

\* A merged input whose data are of one type and as many as its shape says
Fits(m, type) == Len(m.data) = m.size * m.elem /\ m.type = type /\ m.types = {type}

\* The inputs of that name are of that type
OfType(R, name, type) ==
    \A r \in ToSet(R) : \A j \in DOMAIN r.inputs :
        r.inputs[j].name = name => r.inputs[j].type = type

\* The data of requests of the same shape fit the merged shape
LEMMA MergedFits ==
    ASSUME NEW I, Shaped(I), NEW R \in Seq(RequestsOver(I)), Uniform(R),
           NEW r \in ToSet(R), NEW name, Has(r, name),
           NEW type, OfType(R, name, type)
    PROVE  Fits(MergeRequestInputs(R, name), type)
  <1>1. PICK n \in Nat : n = Len(R)
    OBVIOUS
  <1>2. DOMAIN R = 1..n
    BY <1>1
  <1>3. \A i \in 1..n : R[i] \in ToSet(R)
    BY <1>2 DEF ToSet
  <1>4. \A i \in 1..n : Has(R[i], name) /\ R[i] \in RequestsOver(I) /\ InputsDiffer(R[i])
    BY <1>3, Alike
  <1>5. 1 \in 1..n
    <2>1. PICK k \in DOMAIN R : r = R[k]
      BY DEF ToSet
    <2> QED
      BY <1>2, <2>1
  <1>6. PICK inp : inp = [i \in 1..n |-> InputOf(R[i], name)]
    OBVIOUS
  <1>7. \A i \in 1..n : inp[i] = InputOf(R[i], name) /\ inp[i] \in I
    BY <1>4, <1>6, InputIs
  <1>8. PICK e : e = inp[1].elem
    OBVIOUS
  <1>9. e \in Nat
    BY <1>5, <1>7, <1>8 DEF Shaped
  <1>10. \A i \in 1..n : inp[i].size \in Nat /\ inp[i].data \in Seq(Points)
    BY <1>7 DEF Shaped
  <1>11. \A i \in 1..n : inp[i].elem = e
    BY <1>3, <1>4, <1>5, <1>7, <1>8, Alike
  <1>12. \A i \in 1..n : Len(inp[i].data) = inp[i].size * inp[i].elem
    BY <1>3, <1>4, <1>7, Alike
  <1>13. \A i \in 1..n : inp[i].type = type
    <2> SUFFICES ASSUME NEW i \in 1..n PROVE inp[i].type = type
      OBVIOUS
    <2>1. PICK j \in DOMAIN R[i].inputs : InputOf(R[i], name) = R[i].inputs[j]
      BY <1>4, InputIs
    <2>2. R[i].inputs[j].name = name
      BY <1>4, <2>1, InputIs
    <2> QED
      BY <1>3, <1>7, <2>1, <2>2 DEF OfType
  <1>14. PICK q \in [1..n -> Nat] : q = [i \in 1..n |-> inp[i].size]
    BY <1>10
  <1>15. PICK segs \in [1..n -> Seq(Points)] : segs = [i \in 1..n |-> inp[i].data]
    BY <1>10
  <1>16. PICK m : m = MergeRequestInputs(R, name)
    OBVIOUS
  <1>17. /\ m.size = SumOf(q) /\ m.data = FlattenSeq(segs) /\ m.elem = e
         /\ m.type = type /\ m.types = {type}
    <2>1. Having(R, name) = R
      BY <1>3, <1>4, HavingAll
    <2>2. PICK inputs : inputs = [i \in DOMAIN R |-> InputOf(R[i], name)]
      OBVIOUS
    <2>3. m = [name |-> name,
               size |-> SumOf([i \in DOMAIN inputs |-> inputs[i].size]),
               elem |-> Head(inputs).elem,
               type |-> Head(inputs).type,
               types |-> {inputs[i].type : i \in DOMAIN inputs},
               data |-> FlattenSeq([i \in DOMAIN inputs |-> inputs[i].data]),
               param |-> MergeInputParameters([i \in DOMAIN inputs |-> inputs[i].param])]
      BY <1>16, <2>1, <2>2 DEF MergeRequestInputs
    <2>4. inputs = inp /\ DOMAIN inputs = 1..n
      BY <1>2, <1>6, <2>2
    <2>5. Head(inputs) = inp[1]
      <3>1. inp \in [1..n -> I]
        BY <1>6, <1>7
      <3>2. inp \in Seq(I) /\ Len(inp) = n
        BY <3>1
      <3>3. n # 0
        BY <1>5
      <3>4. inp # <<>>
        BY <3>2, <3>3
      <3> QED
        BY <2>4, <3>2, <3>4
    <2>6. [i \in DOMAIN inputs |-> inputs[i].size] = q
      BY <1>14, <2>4
    <2>7. [i \in DOMAIN inputs |-> inputs[i].data] = segs
      BY <1>15, <2>4
    <2>8. m.size = SumOf(q) /\ m.data = FlattenSeq(segs)
      BY <2>3, <2>6, <2>7
    <2>9. m.elem = e /\ m.type = type
      BY <1>5, <1>8, <1>13, <2>3, <2>5
    <2>10. m.types = {type}
      <3>1. m.types = {inputs[i].type : i \in DOMAIN inputs}
        BY <2>3
      <3> QED
        BY <1>5, <1>13, <2>4, <3>1
    <2> QED
      BY <2>8, <2>9, <2>10
  <1>18. PICK off : Totals(off, q, n)
    BY TotalsExist
  <1>19. PICK lens : lens = [i \in 1..n |-> q[i] * e]
    OBVIOUS
  <1>20. \A i \in 1..n : lens[i] = q[i] * e
    BY <1>19
  <1>21. PICK o : o = [i \in 0..n |-> off[i] * e]
    OBVIOUS
  <1>22. Totals(o, lens, n)
    BY <1>9, <1>18, <1>20, <1>21, TotalsTimes
  <1>23. SizesAre(lens, segs, n)
    <2>1. \A i \in 1..n : q[i] * e \in Nat
      BY <1>9, Distribute
    <2>2. lens \in [1..n -> Nat]
      BY <1>19, <2>1
    <2>3. \A i \in 1..n : Len(segs[i]) = inp[i].size * inp[i].elem
      BY <1>12, <1>15
    <2>4. \A i \in 1..n : q[i] = inp[i].size
      BY <1>14
    <2>5. \A i \in 1..n : lens[i] = Len(segs[i])
      BY <1>11, <1>20, <2>3, <2>4
    <2> QED
      BY <2>2, <2>5 DEF SizesAre
  <1>24. Len(FlattenSeq(segs)) = o[n]
    <2>1. Parts(segs, n, Points)
      BY DEF Parts
    <2>2. Laid(FlattenSeq(segs), segs, o, n, Points)
      BY <1>22, <1>23, <2>1, FlattenIs
    <2> QED
      BY <2>2 DEF Laid
  <1>25. o[n] = off[n] * e
    BY <1>21
  <1>26. SumOf(q) = off[n]
    BY <1>18, SumIs
  <1> QED
    BY <1>16, <1>17, <1>24, <1>25, <1>26 DEF Fits

\* What is compared of inputs and outputs
Contents(s) == {<<o.name, o.size, o.data>> : o \in ToSet(s)}

\* An answer has the rows of the request it belongs to
LEMMA AnswerOwn ==
    ASSUME NEW batch, IsBatch(batch), NEW item \in Answers(batch), Uniform(Requests(batch)),
           NEW own \in ToSet(Requests(batch)), own.index = item.index
    PROVE  Contents(item.outputs) = Contents(own.inputs)
  <1>1. PICK R : R = Requests(batch)
    OBVIOUS
  <1>2. PICK I : I = Made(batch)
    OBVIOUS
  <1>3. /\ R \in Seq(RequestsOver(I)) /\ DistinctIds(R) /\ DistinctIndices(R) /\ Shaped(I)
        /\ Uniform(R) /\ own \in ToSet(R)
    BY <1>1, <1>2, RequestsTyped, MadeShaped
  <1>4. DistinctPlaces(R)
    BY <1>1, RequestsAre DEF DistinctPlaces
  <1>5. PICK heads : heads = Heads(R)
    OBVIOUS
  <1>6. heads \in Seq(NamesOf(I)) /\ \A h : h \in ToSet(heads) <=> \E q \in ToSet(R) : Has(q, h)
    BY <1>3, <1>5, HeadsAre
  <1>7. PICK S : S = ToSet(SplitResponse(R, MergeRequests(R)))
    OBVIOUS
  <1> DEFINE out(o) == [j \in DOMAIN o |-> [name |-> o[j].name, size |-> o[j].size, data |-> o[j].data]]
             indexOf(id) == (CHOOSE r \in ToSet(R) : r.id = id).index
  <1>8. Answers(batch) = {[index |-> indexOf(a.id), kind |-> "answer", outputs |-> out(a.outputs)] : a \in S}
    BY <1>1, <1>7 DEF Answers, Infer, Item
  <1>9. \A r \in ToSet(R) : indexOf(r.id) = r.index
    <2> SUFFICES ASSUME NEW r \in ToSet(R) PROVE indexOf(r.id) = r.index
      OBVIOUS
    <2>1. \A q \in ToSet(R) : q.id = r.id => q = r
      BY <1>3 DEF DistinctIds
    <2> QED
      BY <2>1
  <1> HIDE DEF indexOf
  <1>10. PICK a \in S : item = [index |-> indexOf(a.id), kind |-> "answer", outputs |-> out(a.outputs)]
    BY <1>8
  <1>11. PICK t, u : t = a.outputs /\ u = item.outputs
    OBVIOUS
  <1>12. u = [j \in DOMAIN t |-> [name |-> t[j].name, size |-> t[j].size, data |-> t[j].data]]
    BY <1>10, <1>11
  <1> HIDE DEF out
  <1>13. PICK r \in ToSet(R) :
              /\ a.id = r.id
              /\ DOMAIN t = DOMAIN heads
              /\ \A j \in DOMAIN heads :
                    /\ Has(r, heads[j])
                    /\ t[j].name = heads[j]
                    /\ t[j].size = InputOf(r, heads[j]).size
                    /\ t[j].data = InputOf(r, heads[j]).data
    <2>1. a \in ToSet(SplitResponse(R, MergeRequests(R)))
      BY <1>7
    <2> QED
      BY <1>3, <1>4, <1>5, <1>11, <2>1, OutputsOwn
  <1>14. r = own
    <2>1. item.index = r.index
      BY <1>9, <1>10, <1>13
    <2> QED
      BY <1>3, <2>1 DEF DistinctIndices
  <1>15. r \in RequestsOver(I) /\ InputsDiffer(r)
    BY <1>3, Alike
  <1>16. PICK s : s = own.inputs
    OBVIOUS
  <1>17. \A j \in DOMAIN u : u[j].name = t[j].name /\ u[j].size = t[j].size /\ u[j].data = t[j].data
    BY <1>12
  <1>18. DOMAIN u = DOMAIN heads
    BY <1>12, <1>13
  <1>19. ASSUME NEW o \in ToSet(u)
         PROVE  \E i \in ToSet(s) : o.name = i.name /\ o.size = i.size /\ o.data = i.data
    <2>1. PICK j \in DOMAIN heads : o = u[j]
      BY <1>18 DEF ToSet
    <2>2. Has(r, heads[j])
      BY <1>13
    <2>3. InputOf(r, heads[j]) \in ToSet(s) /\ InputOf(r, heads[j]).name = heads[j]
      BY <1>14, <1>15, <1>16, <2>2, InputIs
    <2>4. /\ o.name = heads[j] /\ o.size = InputOf(r, heads[j]).size
          /\ o.data = InputOf(r, heads[j]).data
      BY <1>13, <1>17, <1>18, <2>1
    <2> QED
      BY <2>3, <2>4
  <1>20. ASSUME NEW i \in ToSet(s)
         PROVE  \E o \in ToSet(u) : o.name = i.name /\ o.size = i.size /\ o.data = i.data
    <2>1. PICK l \in DOMAIN s : i = s[l]
      BY DEF ToSet
    <2>2. Has(r, i.name)
      BY <1>14, <1>16, <2>1 DEF Has
    <2>3. i = InputOf(r, i.name)
      BY <1>14, <1>15, <1>16, <2>1, <2>2, InputIs
    <2>4. i.name \in ToSet(heads)
      BY <1>6, <2>2
    <2>5. PICK j \in DOMAIN heads : heads[j] = i.name
      BY <2>4 DEF ToSet
    <2>6. u[j] \in ToSet(u)
      BY <1>18 DEF ToSet
    <2>7. u[j].name = i.name /\ u[j].size = i.size /\ u[j].data = i.data
      BY <1>13, <1>17, <1>18, <2>3, <2>5
    <2> QED
      BY <2>6, <2>7
  <1>21. Contents(u) \subseteq Contents(s)
    BY <1>19 DEF Contents
  <1>22. Contents(s) \subseteq Contents(u)
    BY <1>20 DEF Contents
  <1> QED
    BY <1>11, <1>16, <1>21, <1>22

\* Every answer written is one of the batch its line is in
LEMMA OwnAnswerFrom == IInv => OwnAnswer
  <1> SUFFICES ASSUME IInv, NEW item \in BagToSet(written), item.kind = "answer",
                      Uniform(Requests(BatchOf(item.index)))
               PROVE  LET own == CHOOSE r \in ToSet(Requests(BatchOf(item.index))) : r.index = item.index
                      IN  Contents(item.outputs) = Contents(own.inputs)
    BY DEF OwnAnswer, Contents, Infer
  <1>1. TypeOK /\ Sound(item)
    BY DEF IInv, Stock
  <1>2. item.index \in 0..Length - 1
    <2>1. item.index \in 0..next - 1 /\ next \in Nat /\ Length \in Nat /\ next <= Length
      BY <1>1, SetupIs DEF Sound
    <2> QED
      BY <2>1
  <1>3. PICK B : B = BatchOf(item.index)
    OBVIOUS
  <1>4. IsBatch(B) /\ item \in Answers(B)
    BY <1>1, <1>2, <1>3, BatchesHere DEF Sound
  <1>5. \E r \in ToSet(Requests(B)) : r.index = item.index
    BY <1>4, AnswersAre DEF Results
  <1> DEFINE own == CHOOSE r \in ToSet(Requests(B)) : r.index = item.index
  <1>6. own \in ToSet(Requests(B)) /\ own.index = item.index
    BY <1>5
  <1> HIDE DEF own
  <1>7. Contents(item.outputs) = Contents(own.inputs)
    BY <1>3, <1>4, <1>6, AnswerOwn
  <1> QED
    BY <1>3, <1>7 DEF own

\* The rows that a line gets are the server's answer to its own request, for every
\* file, batch size and number of consumers
THEOREM EveryAnswerOwn == Spec => []OwnAnswer
  BY IInvHolds, OwnAnswerFrom, PTL

\* No batch of lines that are JSON, have the same inputs of the same shape and type, and data
\* that fit it, is dropped before it is sent: that type has to be convertible, for each input
THEOREM UniformConverts ==
    ASSUME NEW batch \in Batches, Of(batch, "garbled") = <<>>, Uniform(Requests(batch)),
           NEW typeOf,
           \A r \in ToSet(Requests(batch)) : \A j \in DOMAIN r.inputs :
              LET type == typeOf[r.inputs[j].name]
              IN  r.inputs[j].type = type /\ <<type, {type}>> \in Convertible
    PROVE  batch \in Preprocessed
  <1>1. IsBatch(batch)
    BY AnyBatch
  <1>2. PICK R : R = Requests(batch)
    OBVIOUS
  <1>3. PICK I : I = Made(batch)
    OBVIOUS
  <1>4. R \in Seq(RequestsOver(I)) /\ Shaped(I) /\ Uniform(R)
    BY <1>1, <1>2, <1>3, RequestsTyped, MadeShaped
  <1>5. PICK heads : heads = Heads(R)
    OBVIOUS
  <1>6. ASSUME NEW m \in ToSet(MergeRequests(R))
        PROVE  Len(m.data) = m.size * m.elem /\ <<m.type, m.types>> \in Convertible
    <2>1. PICK h \in DOMAIN heads : m = MergeRequestInputs(R, heads[h])
      BY <1>5, <1>6 DEF MergeRequests, ToSet
    <2>2. PICK name : name = heads[h]
      OBVIOUS
    <2>3. name \in ToSet(heads)
      BY <2>2 DEF ToSet
    <2>4. PICK r \in ToSet(R) : Has(r, name)
      BY <1>4, <1>5, <2>3, HeadsAre
    <2>5. PICK type : type = typeOf[name]
      OBVIOUS
    <2>6. \A q \in ToSet(R) : \A j \in DOMAIN q.inputs : q.inputs[j].name = name =>
             q.inputs[j].type = type /\ <<type, {type}>> \in Convertible
      BY <1>2, <2>5
    <2>7. <<type, {type}>> \in Convertible
      BY <2>4, <2>6 DEF Has
    <2>8. OfType(R, name, type)
      BY <2>6 DEF OfType
    <2>9. Fits(m, type)
      BY <1>4, <2>1, <2>2, <2>4, <2>8, MergedFits
    <2> QED
      BY <2>7, <2>9 DEF Fits
  <1>7. Converts(MergeRequests(R))
    BY <1>6 DEF Converts
  <1> QED
    BY <1>2, <1>7 DEF Preprocessed

\* The texts of the lines
Texts == {Text(i) : i \in Nat}

\* Every input is one row with a parameter of its own
OneRow(R) ==
    \A r \in ToSet(R) : \A j \in DOMAIN r.inputs :
        r.inputs[j].size = 1 /\ r.inputs[j].param = Parameter(Text(r.index))

\* The parameter of an input is the text of its line
LEMMA ParameterIs ==
    ASSUME NEW batch, IsBatch(batch), NEW r \in ToSet(Requests(batch)), NEW j \in DOMAIN r.inputs,
           r.inputs[j].param.is = "one"
    PROVE  r.inputs[j].param = Parameter(Text(r.index))
  <1>1. PICK x \in ToSet(batch) : r.index = x.index /\ r = Request(x)
    BY RequestsTyped
  <1>2. PICK s, t : s = x.line.inputs /\ t = r.inputs
    OBVIOUS
  <1>3. t = [l \in DOMAIN s |->
              [name |-> s[l].name, size |-> s[l].size, elem |-> s[l].elem,
               type |-> s[l].type,
               data |-> [k \in 1..s[l].length |-> <<x.index, s[l].name, k>>],
               param |-> IF s[l].param THEN Parameter(Text(x.index)) ELSE NoParameter]]
    BY <1>1, <1>2 DEF Request
  <1>4. t[j].param = IF s[j].param THEN Parameter(Text(x.index)) ELSE NoParameter
    BY <1>2, <1>3
  <1>5. NoParameter.is = "none"
    BY DEF NoParameter
  <1> QED
    BY <1>1, <1>2, <1>4, <1>5

\* The strings of two or more requests are collected in a list
LEMMA ParametersMerge ==
    ASSUME NEW n \in Nat, n > 1, NEW segs \in [1..n -> Seq(Texts)],
           NEW P, NEW params \in [1..n -> P],
           \A i \in 1..n : params[i].is # "none" /\ params[i].values = segs[i]
    PROVE  /\ MergeInputParameters(params).is = "list"
           /\ MergeInputParameters(params).values = FlattenSeq(segs)
  <1>1. params \in Seq(P) /\ Len(params) = n /\ DOMAIN params = 1..n
    OBVIOUS
  <1>2. {i \in DOMAIN params : params[i].is # "none"} = DOMAIN params
    BY <1>1
  <1>3. Given(params) = params
    BY <1>1, <1>2, AtAll DEF Given
  <1>4. Len(params) # 0 /\ Len(params) # 1
    BY <1>1
  <1>5. PICK v : v = [i \in DOMAIN params |-> params[i].values]
    OBVIOUS
  <1>6. MergeInputParameters(params) = [is |-> "list", values |-> FlattenSeq(v)]
    BY <1>3, <1>4, <1>5 DEF MergeInputParameters
  <1>7. v = segs
    BY <1>1, <1>5
  <1> QED
    BY <1>6, <1>7

\* Of the merged parameters of a head everyone gets back its own
LEMMA SplitParametersOwn ==
    ASSUME NEW I, NEW R \in Seq(RequestsOver(I)), Uniform(R), DistinctPlaces(R), OneRow(R),
           Len(R) > 1, NEW k \in DOMAIN R, NEW name, Has(R[k], name)
    PROVE  SplitParameters(MergeRequestInputs(R, name), MinibatchSizes(R), k) = <<Text(R[k].index)>>
  <1>1. PICK n \in Nat : n = Len(R) /\ n > 1
    OBVIOUS
  <1>2. DOMAIN R = 1..n /\ k \in 1..n
    BY <1>1
  <1>3. PICK sizes : sizes = MinibatchSizes(R)
    OBVIOUS
  <1>4. \A i \in 1..n : R[i] \in ToSet(R)
    BY <1>2 DEF ToSet
  <1>5. \A i \in 1..n : Has(R[i], name) /\ R[i] \in RequestsOver(I) /\ InputsDiffer(R[i])
    BY <1>2, <1>4, Alike
  <1>6. PICK inp : inp = [i \in 1..n |-> InputOf(R[i], name)]
    OBVIOUS
  <1>7. \A i \in 1..n : inp[i] = InputOf(R[i], name) /\ inp[i].size = 1
                        /\ inp[i].param = Parameter(Text(R[i].index))
    <2> SUFFICES ASSUME NEW i \in 1..n
                 PROVE  inp[i] = InputOf(R[i], name) /\ inp[i].size = 1
                        /\ inp[i].param = Parameter(Text(R[i].index))
      OBVIOUS
    <2>1. PICK j \in DOMAIN R[i].inputs : InputOf(R[i], name) = R[i].inputs[j]
      BY <1>5, InputIs
    <2> QED
      BY <1>4, <1>6, <2>1 DEF OneRow
  <1>8. \A i \in 1..n : sizes[i].size = 1
    BY <1>2, <1>3, <1>5, <1>7, SizesAll
  <1>9. \A i \in 1..n : <<Text(R[i].index)>> \in Seq(Texts)
    <2>1. \A i \in 1..n : R[i].index \in Nat
      BY <1>5 DEF RequestsOver
    <2>2. \A i \in 1..n : Text(R[i].index) \in Texts
      BY <2>1 DEF Texts
    <2> QED
      BY <2>2
  <1>10. PICK segs \in [1..n -> Seq(Texts)] : segs = [i \in 1..n |-> <<Text(R[i].index)>>]
    BY <1>9
  <1>11. Parts(segs, n, Texts)
    BY DEF Parts
  <1>12. PICK m : m = MergeRequestInputs(R, name)
    OBVIOUS
  <1>13. m.param.is = "list" /\ m.param.values = FlattenSeq(segs)
    <2>1. Having(R, name) = R
      BY <1>2, <1>4, HavingAll
    <2>2. PICK inputs : inputs = [i \in DOMAIN R |-> InputOf(R[i], name)]
      OBVIOUS
    <2>3. m.param = MergeInputParameters([i \in DOMAIN inputs |-> inputs[i].param])
      BY <1>12, <2>1, <2>2 DEF MergeRequestInputs
    <2>4. inputs = inp /\ DOMAIN inputs = 1..n
      BY <1>2, <1>6, <2>2
    <2>5. PICK P : P = {Parameter(Text(R[i].index)) : i \in 1..n}
      OBVIOUS
    <2>6. PICK params \in [1..n -> P] : params = [i \in 1..n |-> Parameter(Text(R[i].index))]
      BY <2>5
    <2>7. \A i \in 1..n : inputs[i].param = Parameter(Text(R[i].index))
      BY <1>7, <2>4
    <2>8. [i \in DOMAIN inputs |-> inputs[i].param] = params
      BY <2>4, <2>6, <2>7
    <2>9. m.param = MergeInputParameters(params)
      BY <2>3, <2>8
    <2>10. \A i \in 1..n : params[i].is # "none" /\ params[i].values = segs[i]
      BY <1>10, <2>6 DEF Parameter
    <2>11. n > 1
      BY <1>1
    <2> QED
      BY <2>9, <2>10, <2>11, ParametersMerge
  <1>14. Values(m.param) = FlattenSeq(segs)
    BY <1>13 DEF Values
  <1>15. PICK q : q = [i \in 1..n |-> 1]
    OBVIOUS
  <1>16. q \in [1..n -> Nat] /\ \A i \in 1..n : q[i] = 1
    BY <1>15
  <1>17. q \in [1..n -> Nat] /\ \A i \in 1..n : sizes[i].size = q[i]
    BY <1>8, <1>16
  <1>18. PICK off : Totals(off, q, n)
    BY <1>16, TotalsExist
  <1>19. SizesAre(q, segs, n)
    BY <1>10, <1>16 DEF SizesAre
  <1>20. \A j \in 1..n : Slice(FlattenSeq(segs), off[j - 1], q[j]) = segs[j]
    <2>1. Sliced(FlattenSeq(segs), segs, off, q, n)
      BY <1>11, <1>18, <1>19, SliceIs
    <2> QED
      BY <2>1 DEF Sliced
  <1>21. Before(sizes, k) = off[k - 1]
    BY <1>2, <1>17, <1>18, BeforeIs
  <1>22. SplitParameters(m, sizes, k) = Slice(FlattenSeq(segs), off[k - 1], q[k])
    BY <1>2, <1>14, <1>16, <1>17, <1>21 DEF SplitParameters
  <1>23. segs[k] = <<Text(R[k].index)>>
    BY <1>2, <1>10
  <1> QED
    BY <1>2, <1>3, <1>12, <1>20, <1>22, <1>23

\* Every answer has the parameters of its own request
LEMMA ParametersOwn ==
    ASSUME NEW I, NEW R \in Seq(RequestsOver(I)), Uniform(R), DistinctPlaces(R), OneRow(R),
           Len(R) > 1, NEW a \in ToSet(SplitResponse(R, MergeRequests(R))),
           NEW r \in ToSet(R), a.id = r.id, NEW j \in DOMAIN a.outputs
    PROVE  a.outputs[j].params = <<Text(r.index)>>
  <1>1. PICK heads : heads = Heads(R)
    OBVIOUS
  <1>2. heads \in Seq(NamesOf(I)) /\ \A h : h \in ToSet(heads) <=> \E q \in ToSet(R) : Has(q, h)
    BY <1>1, HeadsAre
  <1>3. PICK merged : merged = MergeRequests(R)
    OBVIOUS
  <1>4. DOMAIN merged = DOMAIN heads /\ \A h \in DOMAIN heads : merged[h] = MergeRequestInputs(R, heads[h])
    BY <1>1, <1>3 DEF MergeRequests
  <1>5. PICK sizes : sizes = MinibatchSizes(R)
    OBVIOUS
  <1>6. PICK split : split = SplitResponse(R, merged)
    OBVIOUS
  <1>7. PICK k \in DOMAIN split : a = split[k]
    BY <1>3, <1>6 DEF ToSet
  <1>8. k \in DOMAIN sizes
    BY <1>5, <1>6 DEF SplitResponse
  <1>9. PICK outputs : outputs = a.outputs
    OBVIOUS
  <1>10. /\ a.id = sizes[k].id
         /\ outputs = [h \in DOMAIN merged |->
                          [name |-> merged[h].name,
                           size |-> sizes[k].size,
                           data |-> SplitData(merged[h], sizes, k),
                           params |-> SplitParameters(merged[h], sizes, k)]]
    BY <1>5, <1>6, <1>7, <1>8, <1>9 DEF SplitResponse
  <1>11. j \in DOMAIN heads /\ outputs[j].params = SplitParameters(merged[j], sizes, k)
    BY <1>4, <1>9, <1>10
  <1>12. k \in DOMAIN Order(R) /\ Order(R)[k] \in ToSet(Order(R))
    BY <1>5, <1>8, SizesOf DEF ToSet
  <1>13. Order(R)[k] \in ToSet(R) /\ Order(R)[k].inputs # <<>>
    BY <1>12, OrderIs
  <1>14. Order(R) = R
    BY <1>13, OrderAll
  <1>15. k \in DOMAIN R /\ R[k] \in ToSet(R) /\ a.id = R[k].id
    BY <1>5, <1>10, <1>12, <1>13, <1>14, SizesOf
  <1>16. R[k] = r
    BY <1>15 DEF DistinctPlaces, ToSet
  <1>17. Has(R[k], heads[j])
    <2>1. heads[j] \in ToSet(heads)
      BY <1>11 DEF ToSet
    <2>2. PICK q \in ToSet(R) : Has(q, heads[j])
      BY <1>2, <2>1
    <2> QED
      BY <1>15, <2>2, Alike
  <1>18. SplitParameters(merged[j], sizes, k) = <<Text(R[k].index)>>
    BY <1>4, <1>5, <1>11, <1>15, <1>17, SplitParametersOwn
  <1> QED
    BY <1>9, <1>11, <1>16, <1>18

\* The batch that a consumer works on is one that was read
LEMMA OwnParametersFrom == IInv => OwnParameters
  <1> SUFFICES ASSUME IInv, NEW w \in Workers, NEW R, R = Requests(worker[w].batch),
                      Len(R) > 1, Uniform(R),
                      \A r \in ToSet(R) : \A j \in DOMAIN r.inputs :
                          r.inputs[j].size = 1 /\ r.inputs[j].param.is = "one",
                      NEW a \in ToSet(SplitResponse(R, MergeRequests(R))),
                      NEW r \in ToSet(R), a.id = r.id, NEW j \in DOMAIN a.outputs
               PROVE  a.outputs[j].params = <<Text(r.index)>>
    BY DEF OwnParameters
  <1>1. PICK batch : batch = worker[w].batch
    OBVIOUS
  <1>2. IsBatch(batch)
    <2>1. TypeOK /\ (worker[w].at = "idle" => batch = <<>>) /\ (worker[w].at # "idle" => Read(batch))
      BY <1>1 DEF IInv, Origin
    <2>2. IsBatch(<<>>)
      BY DEF IsBatch, ToSet
    <2> QED
      BY <2>1, <2>2, ReadIs
  <1>3. R \in Seq(RequestsOver(Made(batch)))
    BY <1>1, <1>2, RequestsTyped
  <1>4. DistinctPlaces(R)
    BY <1>1, <1>2, RequestsAre DEF DistinctPlaces
  <1>5. OneRow(R)
    BY <1>1, <1>2, ParameterIs DEF OneRow
  <1> QED
    BY <1>3, <1>4, <1>5, ParametersOwn

\* If a model hands the parameters of its inputs on, every request gets back its own,
\* wherever the batch comes from
THEOREM EveryParameterOwn == Spec => []OwnParameters
  BY IInvHolds, OwnParametersFrom, PTL
================================================================================
