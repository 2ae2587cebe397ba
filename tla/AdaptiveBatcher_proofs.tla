----------------------- MODULE AdaptiveBatcher_proofs -----------------------
(* Theorems about AdaptiveBatcher for every set of requests, every batch size *)
(* and, where the statement names no instance, every combination of faults.   *)
EXTENDS AdaptiveBatcher, SequenceTheorems, FiniteSetTheorems, TLAPS

----------------------------------------------------------------------------
(* Lemmas about sequences used as queues: the set of their elements, and that *)
(* no element occurs twice, after each operation on them                      *)

\* A sequence without its i-th element: what SubSeq and \o make of it
LEMMA RemoveAtProperties ==
    ASSUME NEW S, NEW s \in Seq(S), NEW i \in DOMAIN s
    PROVE  /\ RemoveAt(s, i) \in Seq(S)
           /\ Len(RemoveAt(s, i)) = Len(s) - 1
           /\ \A j \in 1..(Len(s) - 1) :
                RemoveAt(s, i)[j] = IF j < i THEN s[j] ELSE s[j + 1]
  <1> DEFINE front == SubSeq(s, 1, i - 1)
             back == SubSeq(s, i + 1, Len(s))
  <1>1. i \in 1..Len(s) /\ Len(s) \in Nat
    OBVIOUS
  <1>2. /\ front \in Seq(S) /\ Len(front) = i - 1
        /\ \A j \in 1..(i - 1) : front[j] = s[j]
    <2>1. \A j \in 1..(i - 1) : s[j] \in S
      BY <1>1
    <2> QED
      BY <1>1, <2>1, SubSeqProperties, SMTT(30)
  <1>3. /\ back \in Seq(S) /\ Len(back) = Len(s) - i
        /\ \A j \in 1..(Len(s) - i) : back[j] = s[i + j]
    <2>1. \A j \in (i + 1)..Len(s) : s[j] \in S
      BY <1>1
    <2>2. i + 1 \in Int /\ Len(s) \in Int
      BY <1>1
    <2> HIDE DEF back
    <2>3. /\ back \in Seq(S)
          /\ Len(back) = IF i + 1 <= Len(s) THEN Len(s) - (i + 1) + 1 ELSE 0
          /\ \A j \in 1..(Len(s) - (i + 1) + 1) : back[j] = s[(i + 1) + j - 1]
      BY <2>1, <2>2, SubSeqProperties DEF back
    <2> QED
      BY <1>1, <2>3
  <1> DEFINE whole == front \o back
  <1> HIDE DEF front, back
  <1>4. /\ whole \in Seq(S)
        /\ Len(whole) = Len(front) + Len(back)
        /\ \A j \in 1..(Len(front) + Len(back)) :
              whole[j] = IF j <= Len(front) THEN front[j] ELSE back[j - Len(front)]
    BY <1>2, <1>3, ConcatProperties
  <1> HIDE DEF whole
  <1>5. Len(front) + Len(back) = Len(s) - 1
    BY <1>1, <1>2, <1>3
  <1>6. \A j \in 1..(Len(s) - 1) :
            whole[j] = IF j <= i - 1 THEN front[j] ELSE back[j - (i - 1)]
    BY <1>2, <1>4, <1>5
  <1>7. \A j \in 1..(Len(s) - 1) : whole[j] = IF j < i THEN s[j] ELSE s[j + 1]
    <2>1. SUFFICES ASSUME NEW j \in 1..(Len(s) - 1)
                   PROVE  whole[j] = IF j < i THEN s[j] ELSE s[j + 1]
      OBVIOUS
    <2>2. CASE j < i
      BY <1>1, <1>2, <1>6, <2>2
    <2>3. CASE ~(j < i)
      <3>1. j - (i - 1) \in 1..(Len(s) - i) /\ i + (j - (i - 1)) = j + 1
        BY <1>1, <2>3
      <3>2. whole[j] = back[j - (i - 1)]
        BY <1>1, <1>6, <2>3
      <3> QED
        BY <1>3, <2>3, <3>1, <3>2
    <2> QED
      BY <2>2, <2>3
  <1>8. RemoveAt(s, i) = whole
    BY DEF RemoveAt, whole, front, back
  <1> QED
    BY <1>4, <1>5, <1>7, <1>8

\* What a sequence holds once e is put at its end
LEMMA ToSetAppend ==
    ASSUME NEW S, NEW s \in Seq(S), NEW e \in S
    PROVE  /\ ToSet(Append(s, e)) = ToSet(s) \cup {e}
           /\ IsInjective(s) /\ e \notin ToSet(s) => IsInjective(Append(s, e))
  <1> DEFINE t == Append(s, e)
  <1>1. /\ t \in Seq(S) /\ Len(t) = Len(s) + 1 /\ Len(s) \in Nat
        /\ \A i \in 1..Len(s) : t[i] = s[i]
        /\ t[Len(s) + 1] = e
    BY AppendProperties
  <1> HIDE DEF t
  <1>2. ToSet(t) = ToSet(s) \cup {e}
    BY <1>1 DEF ToSet
  <1>3. IsInjective(s) /\ e \notin ToSet(s) => IsInjective(t)
    BY <1>1 DEF ToSet, IsInjective
  <1> QED
    BY <1>2, <1>3 DEF t

\* What two sequences hold, one after the other
LEMMA ToSetConcat ==
    ASSUME NEW S, NEW s \in Seq(S), NEW t \in Seq(S)
    PROVE  ToSet(s \o t) = ToSet(s) \cup ToSet(t)
  <1> DEFINE u == s \o t
  <1>1. /\ u \in Seq(S) /\ Len(u) = Len(s) + Len(t) /\ Len(s) \in Nat /\ Len(t) \in Nat
        /\ \A i \in 1..(Len(s) + Len(t)) :
              u[i] = IF i <= Len(s) THEN s[i] ELSE t[i - Len(s)]
    BY ConcatProperties
  <1> HIDE DEF u
  <1>2. ASSUME NEW i \in DOMAIN u PROVE u[i] \in ToSet(s) \cup ToSet(t)
    BY <1>1 DEF ToSet
  <1>3. ASSUME NEW i \in DOMAIN s PROVE s[i] \in ToSet(u)
    BY <1>1 DEF ToSet
  <1>4. ASSUME NEW i \in DOMAIN t PROVE t[i] \in ToSet(u)
    <2>1. Len(s) + i \in DOMAIN u /\ u[Len(s) + i] = t[i]
      BY <1>1
    <2> QED
      BY <2>1 DEF ToSet
  <1>5. ToSet(u) = ToSet(s) \cup ToSet(t)
    BY <1>2, <1>3, <1>4 DEF ToSet
  <1> QED
    BY <1>5 DEF u

\* What it holds once its head is gone
LEMMA ToSetTail ==
    ASSUME NEW S, NEW s \in Seq(S), s # <<>>
    PROVE  /\ Head(s) \in S
           /\ ToSet(s) = ToSet(Tail(s)) \cup {Head(s)}
           /\ IsInjective(s) => IsInjective(Tail(s)) /\ Head(s) \notin ToSet(Tail(s))
  <1> DEFINE t == Tail(s)
  <1>1. /\ t \in Seq(S) /\ Len(t) = Len(s) - 1 /\ Len(s) \in Nat \ {0}
        /\ \A i \in 1..Len(t) : t[i] = s[i + 1]
        /\ Head(s) = s[1] /\ Head(s) \in S
    BY HeadTailProperties, EmptySeq
  <1> HIDE DEF t
  <1>2. \A i \in 1..Len(s) : i = 1 \/ (i - 1 \in 1..Len(t) /\ s[i] = t[i - 1])
    BY <1>1
  <1>3. ToSet(s) = ToSet(t) \cup {s[1]}
    <2>1. ASSUME NEW i \in DOMAIN s PROVE s[i] \in ToSet(t) \cup {s[1]}
      BY <1>1, <1>2 DEF ToSet
    <2>2. ASSUME NEW i \in DOMAIN t PROVE t[i] \in ToSet(s)
      BY <1>1 DEF ToSet
    <2>3. s[1] \in ToSet(s)
      BY <1>1 DEF ToSet
    <2> QED
      BY <2>1, <2>2, <2>3 DEF ToSet
  <1>4. ASSUME IsInjective(s) PROVE IsInjective(t) /\ s[1] \notin ToSet(t)
    <2>1. ASSUME NEW i \in DOMAIN t, NEW j \in DOMAIN t, t[i] = t[j] PROVE i = j
      <3>1. /\ i \in 1..Len(t) /\ j \in 1..Len(t) /\ DOMAIN s = 1..Len(s)
            /\ i + 1 \in 1..Len(s) /\ j + 1 \in 1..Len(s)
        BY <1>1
      <3>2. s[i + 1] = s[j + 1]
        BY <1>1, <2>1, <3>1
      <3>3. i + 1 = j + 1
        BY <1>4, <3>1, <3>2 DEF IsInjective
      <3> QED
        BY <3>1, <3>3
    <2>2. ASSUME NEW i \in DOMAIN t PROVE t[i] # s[1]
      BY <1>1, <1>4 DEF IsInjective
    <2> QED
      BY <2>1, <2>2 DEF IsInjective, ToSet
  <1> QED
    BY <1>1, <1>3, <1>4 DEF t

\* What it holds once one of its elements is taken out
LEMMA ToSetRemoveAt ==
    ASSUME NEW S, NEW s \in Seq(S), NEW i \in DOMAIN s, IsInjective(s)
    PROVE  /\ ToSet(RemoveAt(s, i)) = ToSet(s) \ {s[i]}
           /\ IsInjective(RemoveAt(s, i))
  <1> DEFINE t == RemoveAt(s, i)
  <1>1. /\ t \in Seq(S) /\ Len(t) = Len(s) - 1 /\ Len(s) \in Nat /\ i \in 1..Len(s)
        /\ \A j \in 1..(Len(s) - 1) : t[j] = IF j < i THEN s[j] ELSE s[j + 1]
    BY RemoveAtProperties
  <1> HIDE DEF t
  <1>2. ASSUME NEW j \in 1..Len(s), j # i PROVE s[j] \in ToSet(t)
    <2>1. CASE j < i
      BY <1>1, <1>2, <2>1 DEF ToSet
    <2>2. CASE j > i
      <3>1. j - 1 \in 1..Len(t) /\ t[j - 1] = s[j]
        BY <1>1, <2>2
      <3> QED
        BY <1>1, <3>1 DEF ToSet
    <2> QED
      BY <1>1, <1>2, <2>1, <2>2
  <1>3. ASSUME NEW j \in 1..Len(t) PROVE t[j] \in ToSet(s) \ {s[i]}
    BY <1>1 DEF ToSet, IsInjective
  <1>4. ToSet(t) = ToSet(s) \ {s[i]}
    BY <1>1, <1>2, <1>3 DEF ToSet
  <1>5. ASSUME NEW j \in DOMAIN t, NEW k \in DOMAIN t, t[j] = t[k] PROVE j = k
    <2> DEFINE at(m) == IF m < i THEN m ELSE m + 1
    <2>1. /\ j \in 1..(Len(s) - 1) /\ k \in 1..(Len(s) - 1)
          /\ DOMAIN s = 1..Len(s) /\ i \in 1..Len(s)
      BY <1>1
    <2>2. at(j) \in DOMAIN s /\ at(k) \in DOMAIN s
      BY <2>1
    <2>3. s[at(j)] = s[at(k)]
      BY <1>1, <1>5, <2>1
    <2> HIDE DEF at
    <2>4. at(j) = at(k)
      BY <2>2, <2>3 DEF IsInjective
    <2> QED
      BY <2>1, <2>4 DEF at
  <1> QED
    BY <1>4, <1>5 DEF t, IsInjective

\* What it holds once its first n elements are gone
LEMMA ToSetSubSeq ==
    ASSUME NEW S, NEW s \in Seq(S), NEW n \in Nat, IsInjective(s)
    PROVE  /\ SubSeq(s, n + 1, Len(s)) \in Seq(S)
           /\ ToSet(SubSeq(s, n + 1, Len(s))) =
                ToSet(s) \ {s[i] : i \in {j \in DOMAIN s : j <= n}}
           /\ IsInjective(SubSeq(s, n + 1, Len(s)))
  <1> DEFINE t == SubSeq(s, n + 1, Len(s))
  <1>1. Len(s) \in Nat /\ n + 1 \in Int /\ Len(s) \in Int
        /\ \A i \in (n + 1)..Len(s) : s[i] \in S
    OBVIOUS
  <1>2. /\ t \in Seq(S)
        /\ Len(t) = IF n + 1 <= Len(s) THEN Len(s) - (n + 1) + 1 ELSE 0
        /\ \A i \in 1..(Len(s) - (n + 1) + 1) : t[i] = s[(n + 1) + i - 1]
    BY <1>1, SubSeqProperties
  <1> HIDE DEF t
  <1>3. \A i \in 1..Len(t) : n + i \in 1..Len(s) /\ t[i] = s[n + i]
    BY <1>1, <1>2
  <1>4. ASSUME NEW i \in 1..Len(s), i > n PROVE s[i] \in ToSet(t)
    <2>1. i - n \in 1..Len(t) /\ t[i - n] = s[i]
      BY <1>1, <1>2, <1>4
    <2> QED
      BY <1>2, <2>1 DEF ToSet
  <1> DEFINE first == {s[i] : i \in {j \in DOMAIN s : j <= n}}
  <1>5. ASSUME NEW i \in 1..Len(t) PROVE t[i] \in ToSet(s) \ first
    BY <1>1, <1>2, <1>3 DEF ToSet, IsInjective
  <1>6. ToSet(t) = ToSet(s) \ first
    <2>1. ASSUME NEW e \in ToSet(t) PROVE e \in ToSet(s) \ first
      BY <1>2, <1>5 DEF ToSet
    <2>2. ASSUME NEW e \in ToSet(s) \ first PROVE e \in ToSet(t)
      <3>1. PICK i \in 1..Len(s) : e = s[i]
        BY DEF ToSet
      <3>2. i > n
        BY <1>1, <3>1
      <3> QED
        BY <1>4, <3>1, <3>2
    <2> QED
      BY <2>1, <2>2
  <1>7. ASSUME NEW i \in DOMAIN t, NEW j \in DOMAIN t, t[i] = t[j] PROVE i = j
    <2>1. i \in 1..Len(t) /\ j \in 1..Len(t)
      BY <1>2
    <2>2. n + i \in DOMAIN s /\ n + j \in DOMAIN s /\ s[n + i] = s[n + j]
      BY <1>1, <1>3, <1>7, <2>1
    <2>3. n + i = n + j
      BY <2>2 DEF IsInjective
    <2> QED
      BY <2>1, <2>3
  <1>8. IsInjective(t)
    BY <1>7 DEF IsInjective
  <1> QED
    BY <1>2, <1>6, <1>8 DEF t


----------------------------------------------------------------------------
(* Lemmas about the operators the actions are built from *)

\* Waking putters keeps the types of the queue's wait list and of pc
LEMMA WakePuttersType ==
    ASSUME TypeOK, NEW n \in Nat, WakePutters(n)
    PROVE  /\ putters' \in Seq(Requests)
           /\ pc' \in [Requests -> {"idle", "putting", "woken", "waiting", "done"}]
  <1>1. \A i \in (n + 1)..Len(putters) : putters[i] \in Requests
    BY DEF TypeOK
  <1>2. SubSeq(putters, n + 1, Len(putters)) \in Seq(Requests)
    BY <1>1, SubSeqProperties DEF TypeOK
  <1> QED
    BY <1>2 DEF TypeOK, WakePutters

\* A loop over futures leaves every future in one of its states
LEMMA SettleType ==
    ASSUME TypeOK, NEW ids, SetException(ids)
    PROVE  future' \in [Requests -> {"none", "pending", "result", "exception", "cancelled"}]
  BY DEF TypeOK, SetException

\* Such a loop settles only what is open, and all of it if all of it is open
LEMMA SettledOpen ==
    ASSUME NEW ids, NEW n \in Nat, DOMAIN ids = 1..n
    PROVE  /\ SettledBy(ids) \subseteq ToSet(ids)
           /\ \A r \in SettledBy(ids) : Open(r)
           /\ (\A i \in DOMAIN ids : Open(ids[i])) => SettledBy(ids) = ToSet(ids)
  <1>1. \A i \in DOMAIN ids : i \in 1..i /\ 1..i \subseteq DOMAIN ids
    OBVIOUS
  <1>2. SettledBy(ids) \subseteq ToSet(ids) /\ \A r \in SettledBy(ids) : Open(r)
    BY <1>1 DEF SettledBy, ToSet
  <1>3. ASSUME \A i \in DOMAIN ids : Open(ids[i]) PROVE SettledBy(ids) = ToSet(ids)
    <2>1. \A i \in DOMAIN ids : \A k \in 1..i : Open(ids[k])
      BY <1>1, <1>3
    <2> QED
      BY <2>1 DEF SettledBy, ToSet
  <1> QED
    BY <1>2, <1>3

\* What the model's answer, or its failure, does to the futures of a batch: nothing but
\* open ones of the batch are settled.  If all are open, the whole batch fails, or every
\* request that was not left out has its result.
Returned(b, answered, blamed, left) ==
    /\ PredictCallback(b, answered, blamed) /\ leftOut' = leftOut \cup left
    /\ left \subseteq ToSet(b) /\ ("omit" \in faults \/ left = {})
    /\ \A r \in answered \cup blamed : r \in ToSet(b) /\ Open(r)
    /\ (\A r \in ToSet(b) : Open(r)) =>
          \/ answered = ToSet(b) \ left /\ blamed = {}
          \/ answered = {} /\ left = {} /\ blamed = ToSet(b) /\ "predict" \in faults

LEMMA PredictReturns ==
    ASSUME TypeOK, NEW b \in inflight, PredictSucceeds(b) \/ PredictFails(b)
    PROVE  \E answered, blamed, left : Returned(b, answered, blamed, left)
  <1>1. Len(b) \in Nat /\ DOMAIN b = 1..Len(b)
    BY DEF TypeOK
  <1>2. CASE PredictFails(b)
    <2>1. \A i \in DOMAIN b : b[i] \in ToSet(b)
      BY DEF ToSet
    <2>2. Returned(b, {}, SettledBy(b), {})
      BY <1>1, <1>2, <2>1, SettledOpen DEF Returned, PredictFails
    <2> QED
      BY <2>2
  <1>3. CASE PredictSucceeds(b)
    <2>1. PICK ids \in Responses(b) :
            LET answered == SettledBy(ids)
                blamed == IF answered = ToSet(ids) THEN {}
                          ELSE {b[i] : i \in {j \in DOMAIN b :
                                  \A k \in 1..j : Open(b[k]) /\ b[k] \notin answered}}
            IN  /\ PredictCallback(b, answered, blamed)
                /\ leftOut' = leftOut \cup (ToSet(b) \ ToSet(ids))
      BY <1>3 DEF PredictSucceeds
    <2> DEFINE answered == SettledBy(ids)
               met == {b[i] : i \in {j \in DOMAIN b :
                         \A k \in 1..j : Open(b[k]) /\ b[k] \notin answered}}
               blamed == IF answered = ToSet(ids) THEN {} ELSE met
               left == ToSet(b) \ ToSet(ids)
    <2>2. /\ PredictCallback(b, answered, blamed)
          /\ leftOut' = leftOut \cup left
      BY <2>1
    <2>3. PICK n \in 0..Len(b) : ids \in [1..n -> ToSet(b)]
      BY DEF Responses
    <2>4. n \in Nat /\ DOMAIN ids = 1..n /\ ToSet(ids) \subseteq ToSet(b)
      BY <1>1, <2>3 DEF ToSet
    <2>5. /\ answered \subseteq ToSet(ids)
          /\ \A r \in answered : Open(r)
          /\ (\A i \in DOMAIN ids : Open(ids[i])) => answered = ToSet(ids)
      BY <2>4, SettledOpen
    <2>6. "omit" \in faults \/ left = {}
      BY <2>4 DEF Responses
    <2>7. \A r \in met : r \in ToSet(b) /\ Open(r)
      <3>1. \A i \in DOMAIN b : i \in 1..i
        BY <1>1
      <3> QED
        BY <3>1 DEF ToSet
    <2>8. (\A r \in ToSet(b) : Open(r)) => answered = ToSet(ids)
      <3>1. \A i \in DOMAIN ids : ids[i] \in ToSet(b)
        BY <2>3, <2>4
      <3> QED
        BY <2>5, <3>1
    <2> HIDE DEF answered, met
    <2>9. Returned(b, answered, blamed, left)
      BY <2>2, <2>4, <2>5, <2>6, <2>7, <2>8 DEF Returned
    <2> QED
      BY <2>9
  <1> QED
    BY <1>2, <1>3

\* What is left when one get takes the head of the queue into the batch
LEMMA GetRequestType ==
    ASSUME TypeOK, Len(toBatch) < MaxBatchSize, GetRequest
    PROVE  /\ requests' \in Seq(Requests) /\ Len(requests') <= MaxBatchSize
           /\ toBatch' \in Seq(Requests) /\ Len(toBatch') <= MaxBatchSize
           /\ putters' \in Seq(Requests)
           /\ pc' \in [Requests -> {"idle", "putting", "woken", "waiting", "done"}]
  <1>1. requests \in Seq(Requests) /\ requests # <<>> /\ Len(requests) \in Nat
    BY DEF TypeOK, GetRequest
  <1>2. /\ Head(requests) \in Requests /\ Tail(requests) \in Seq(Requests)
        /\ Len(Tail(requests)) = Len(requests) - 1
    BY <1>1, HeadTailProperties
  <1>3. /\ putters' \in Seq(Requests)
        /\ pc' \in [Requests -> {"idle", "putting", "woken", "waiting", "done"}]
    BY WakePuttersType DEF GetRequest
  <1> QED
    BY <1>1, <1>2, <1>3, BatchSizeAssumption DEF TypeOK, GetRequest

\* A request that enters the queue through a free slot
LEMMA QueueRequestType ==
    ASSUME TypeOK, NEW r \in Requests, ~Full, QueueRequest(r), UNCHANGED putters
    PROVE  TypeOK'
  <1>1. Len(requests) \in Nat /\ Len(requests) < MaxBatchSize
    BY BatchSizeAssumption DEF TypeOK, Full
  <1>2. requests' \in Seq(Requests) /\ Len(requests') <= MaxBatchSize
    BY <1>1, AppendProperties, BatchSizeAssumption DEF TypeOK, QueueRequest
  <1> QED
    BY <1>2 DEF TypeOK, QueueRequest, StartBatcherIfNeeded

LEMMA WaitForRoomType ==
    ASSUME TypeOK, NEW r \in Requests, WaitForRoom(r)
    PROVE  TypeOK'
  BY DEF TypeOK, WaitForRoom, batcherVars

\* A closed batch is dispatched, or lost with the task that built it
LEMMA CloseBatchType ==
    ASSUME TypeOK, CloseBatch, Len(toBatch) # 0
    PROVE  TypeOK'
  <1>1. toBatch \in Seq(Requests) /\ Len(toBatch) \in 1..MaxBatchSize
    BY BatchSizeAssumption DEF TypeOK
  <1>2. CASE DispatchBatch
    <2>1. \A b \in inflight' : b \in Seq(Requests) /\ Len(b) \in 1..MaxBatchSize
      BY <1>1, <1>2 DEF TypeOK, DispatchBatch
    <2> QED
      BY <1>2, <2>1, BatchSizeAssumption DEF TypeOK, CloseBatch, DispatchBatch
  <1>3. CASE MergeFails
    BY <1>1, <1>3, BatchSizeAssumption DEF TypeOK, CloseBatch, MergeFails
  <1> QED
    BY <1>2, <1>3 DEF CloseBatch

----------------------------------------------------------------------------
(* Type correctness.  A batch closed by the timer is not empty and one that   *)
(* waits has room, which TypeOK does not say.                                 *)

WaitsWithBatch == batchingTask = "blocked" => Len(toBatch) \in 1..(MaxBatchSize - 1)

TypeInv == TypeOK /\ WaitsWithBatch

\* The elements of the queue, of the batches and of the registered responses
LEMMA PlacesType ==
    ASSUME TypeInv
    PROVE  /\ ToSet(requests) \subseteq Requests /\ ToSet(toBatch) \subseteq Requests
           /\ ToSet(asyncResponses) \subseteq Requests /\ ToSet(putters) \subseteq Requests
           /\ \A b \in inflight : ToSet(b) \subseteq Requests
  BY DEF TypeInv, TypeOK, ToSet

LEMMA InitTypeInv == Init => TypeInv
  <1> SUFFICES ASSUME Init PROVE TypeInv
    OBVIOUS
  <1>1. <<>> \in Seq(Requests) /\ Len(<<>>) = 0
    BY EmptySeq
  <1>2. /\ requests \in Seq(Requests) /\ Len(requests) <= MaxBatchSize
        /\ toBatch \in Seq(Requests) /\ Len(toBatch) <= MaxBatchSize
    BY <1>1, BatchSizeAssumption DEF Init
  <1> QED
    BY <1>1, <1>2 DEF Init, TypeInv, TypeOK, WaitsWithBatch

LEMMA NextTypeInv == TypeInv /\ [Next]_vars => TypeInv'
  <1> SUFFICES ASSUME TypeInv, [Next]_vars PROVE TypeInv'
    OBVIOUS
  <1> USE DEF TypeInv
  <1>1. ASSUME NEW r \in Requests, Predict(r) PROVE TypeInv'
    <2>1. TypeOK'
      BY <1>1, QueueRequestType, WaitForRoomType DEF Predict
    <2> QED
      BY <1>1, <2>1 DEF Predict, QueueRequest, WaitForRoom, StartBatcherIfNeeded,
                        WaitsWithBatch, batcherVars
  <1>2. ASSUME NEW r \in Requests, ResumePut(r) PROVE TypeInv'
    <2>1. TypeOK'
      BY <1>2, QueueRequestType, WaitForRoomType DEF ResumePut
    <2> QED
      BY <1>2, <2>1 DEF ResumePut, QueueRequest, WaitForRoom, StartBatcherIfNeeded,
                        WaitsWithBatch, batcherVars
  <1>3. ASSUME NEW r \in Requests, WaitResponse(r) PROVE TypeInv'
    <2>1. asyncResponses' \in Seq(Requests)
      BY <1>3, RemoveAtProperties DEF WaitResponse, TypeOK
    <2> QED
      BY <1>3, <2>1 DEF WaitResponse, TypeOK, WaitsWithBatch, batcherVars
  <1>4. ASSUME NEW r \in Requests, Cancel(r) PROVE TypeInv'
    <2>1. CASE CancelPut(r)
      <3>1. putters' \in Seq(Requests)
        BY <2>1, RemoveAtProperties DEF CancelPut, TypeOK
      <3> QED
        BY <2>1, <3>1 DEF CancelPut, TypeOK, WaitsWithBatch, batcherVars
    <2>2. CASE CancelWoken(r)
      <3>1. putters' \in Seq(Requests)
        <4>1. \A i \in 2..Len(putters) : putters[i] \in Requests
          BY DEF TypeOK
        <4>2. SubSeq(putters, 2, Len(putters)) \in Seq(Requests)
          BY <4>1, SubSeqProperties DEF TypeOK
        <4> QED
          BY <2>2, <4>2 DEF CancelWoken, TypeOK
      <3>2. pc' \in [Requests -> {"idle", "putting", "woken", "waiting", "done"}]
        BY <2>2 DEF CancelWoken, TypeOK
      <3> QED
        BY <2>2, <3>1, <3>2 DEF CancelWoken, TypeOK, WaitsWithBatch, batcherVars
    <2>3. CASE CancelWait(r)
      BY <2>3 DEF CancelWait, TypeOK, WaitsWithBatch, batcherVars
    <2> QED
      BY <1>4, <2>1, <2>2, <2>3 DEF Cancel
  <1>5. CASE Batcher
    <2>1. CASE RunBatcher
      BY <2>1 DEF RunBatcher, TypeOK, WaitsWithBatch
    <2>2. CASE TakeQueued
      BY <2>2, GetRequestType DEF TakeQueued, GetRequest, TypeOK, WaitsWithBatch
    <2>3. CASE AwaitRequest
      <3>1. Len(toBatch) # 0
        BY <2>3, EmptySeq DEF AwaitRequest, TypeOK
      <3> QED
        BY <2>3, <3>1, BatchSizeAssumption DEF AwaitRequest, TypeOK, WaitsWithBatch
    <2>4. CASE TakeAwaited
      <3>1. Len(toBatch) < MaxBatchSize
        BY <2>4, BatchSizeAssumption DEF TakeAwaited, WaitsWithBatch, TypeOK
      <3> QED
        BY <2>4, <3>1, GetRequestType DEF TakeAwaited, GetRequest, TypeOK, WaitsWithBatch
    <2>5. CASE CloseFullBatch
      <3>1. TypeOK'
        BY <2>5, CloseBatchType, BatchSizeAssumption DEF CloseFullBatch
      <3> QED
        BY <2>5, <3>1
        DEF CloseFullBatch, CloseBatch, DispatchBatch, MergeFails, WaitsWithBatch
    <2>6. CASE Timeout
      <3>1. TypeOK'
        BY <2>6, CloseBatchType, BatchSizeAssumption DEF Timeout, WaitsWithBatch
      <3> QED
        BY <2>6, <3>1 DEF Timeout, CloseBatch, DispatchBatch, MergeFails, WaitsWithBatch
    <2>7. CASE FinishBatcher
      BY <2>7 DEF FinishBatcher, TypeOK, WaitsWithBatch
    <2> QED
      BY <1>5, <2>1, <2>2, <2>3, <2>4, <2>5, <2>6, <2>7 DEF Batcher
  <1>6. ASSUME NEW b \in inflight, PredictSucceeds(b) \/ PredictFails(b) PROVE TypeInv'
    <2>1. PICK answered, blamed, left : Returned(b, answered, blamed, left)
      BY <1>6, PredictReturns
    <2>2. future' \in [Requests -> {"none", "pending", "result", "exception", "cancelled"}]
      BY <2>1 DEF Returned, PredictCallback, TypeOK
    <2>3. leftOut' \subseteq Requests
      BY <2>1, PlacesType DEF Returned, TypeOK
    <2> QED
      BY <2>1, <2>2, <2>3 DEF Returned, PredictCallback, TypeOK, WaitsWithBatch
  <1>7. CASE BatchingTaskCallback
    <2>1. future' \in [Requests -> {"none", "pending", "result", "exception", "cancelled"}]
      BY <1>7, SettleType DEF BatchingTaskCallback, ClearQueue
    <2>2. CASE requests' = <<>> /\ WakePutters(Len(requests))
      <3>1. Len(requests) \in Nat
        BY DEF TypeOK
      <3>2. /\ putters' \in Seq(Requests)
            /\ pc' \in [Requests -> {"idle", "putting", "woken", "waiting", "done"}]
        BY <2>2, <3>1, WakePuttersType
      <3>3. requests' \in Seq(Requests) /\ Len(requests') <= MaxBatchSize
        BY <2>2, BatchSizeAssumption
      <3> QED
        BY <1>7, <2>1, <3>2, <3>3 DEF BatchingTaskCallback, TypeOK, WaitsWithBatch
    <2>3. CASE UNCHANGED <<requests, putters, pc>>
      BY <1>7, <2>1, <2>3 DEF BatchingTaskCallback, TypeOK, WaitsWithBatch
    <2> QED
      BY <1>7, <2>2, <2>3 DEF BatchingTaskCallback, ClearQueue
  <1>8. CASE UNCHANGED vars
    BY <1>8 DEF vars, TypeOK, WaitsWithBatch
  <1> QED
    BY <1>1, <1>2, <1>3, <1>4, <1>5, <1>6, <1>7, <1>8 DEF Next

\* Whatever is cancelled or raises, the queue and the batches stay within
\* max_batch_size and no empty batch reaches the model
THEOREM TypeCorrect == Spec => []TypeOK
  <1>1. TypeInv => TypeOK
    BY DEF TypeInv
  <1> QED
    BY <1>1, InitTypeInv, NextTypeInv, PTL DEF Spec
----------------------------------------------------------------------------
(* A queued request has a live batching task.  QueueIsServed is inductive     *)
(* once it is known that no task ever failed.                                 *)

ServedInv == TypeInv /\ QueueIsServed /\ ~failed

LEMMA InitServedInv == Init => ServedInv
  BY InitTypeInv DEF Init, ServedInv, QueueIsServed

\* Nothing changes what may go wrong
LEMMA FaultsFixed == [Next]_vars => faults' = faults
  BY DEF Next, vars, Predict, ResumePut, QueueRequest, WaitForRoom, StartBatcherIfNeeded,
         batcherVars, WaitResponse, Cancel, CancelPut, CancelWoken, CancelWait, Batcher,
         RunBatcher, TakeQueued, GetRequest, AwaitRequest, TakeAwaited, CloseFullBatch,
         Timeout, CloseBatch, FinishBatcher, PredictSucceeds, PredictFails,
         PredictCallback, BatchingTaskCallback

LEMMA NextServedInv ==
    ASSUME Merges
    PROVE  ServedInv /\ [Next]_vars => ServedInv'
  <1> SUFFICES ASSUME ServedInv, [Next]_vars PROVE ServedInv'
    OBVIOUS
  <1>1. TypeInv'
    BY NextTypeInv DEF ServedInv
  <1> USE DEF ServedInv, QueueIsServed
  <1>2. ASSUME NEW r \in Requests, Predict(r) \/ ResumePut(r) PROVE ServedInv'
    BY <1>1, <1>2 DEF Predict, ResumePut, QueueRequest, WaitForRoom,
                      StartBatcherIfNeeded, batcherVars
  <1>3. ASSUME NEW r \in Requests, WaitResponse(r) PROVE ServedInv'
    BY <1>1, <1>3 DEF WaitResponse, batcherVars
  <1>4. ASSUME NEW r \in Requests, Cancel(r) PROVE ServedInv'
    BY <1>1, <1>4 DEF Cancel, CancelPut, CancelWoken, CancelWait, batcherVars
  <1>5. CASE Batcher
    <2>1. CASE RunBatcher
      BY <1>1, <2>1 DEF RunBatcher
    <2>2. CASE TakeQueued
      BY <1>1, <2>2 DEF TakeQueued, GetRequest
    <2>3. CASE AwaitRequest
      BY <1>1, <2>3 DEF AwaitRequest
    <2>4. CASE TakeAwaited
      BY <1>1, <2>4 DEF TakeAwaited, GetRequest
    <2>5. CASE CloseFullBatch \/ Timeout
      BY <1>1, <2>5 DEF CloseFullBatch, Timeout, CloseBatch, DispatchBatch, MergeFails,
                          Merges
    <2>6. CASE FinishBatcher
      BY <1>1, <2>6 DEF FinishBatcher
    <2> QED
      BY <1>5, <2>1, <2>2, <2>3, <2>4, <2>5, <2>6 DEF Batcher
  <1>6. ASSUME NEW b \in inflight, PredictSucceeds(b) \/ PredictFails(b) PROVE ServedInv'
    BY <1>1, <1>6 DEF PredictSucceeds, PredictFails, PredictCallback
  <1>7. CASE BatchingTaskCallback
    BY <1>7 DEF BatchingTaskCallback
  <1>8. CASE UNCHANGED vars
    BY <1>1, <1>8 DEF vars
  <1> QED
    BY <1>2, <1>3, <1>4, <1>5, <1>6, <1>7, <1>8 DEF Next

\* Whatever is cancelled and whichever predictions fail, no request waits in the
\* queue or in a batch without a batching task that will look at it
THEOREM QueueServed == Spec => []QueueIsServed
  <1> DEFINE Inv == Merges => ServedInv
  <1>1. Init => Inv
    BY InitServedInv
  <1>2. Inv /\ [Next]_vars => Inv'
    BY NextServedInv, FaultsFixed DEF Merges
  <1>3. Inv => QueueIsServed
    BY DEF ServedInv, QueueIsServed
  <1> QED
    BY <1>1, <1>2, <1>3, PTL DEF Spec

----------------------------------------------------------------------------
(* No request is lost.  That a waiting client's request is held somewhere is  *)
(* not inductive: settling a batch must not meet a future that is gone or     *)
(* done, so whatever is held must be registered and pending, in one place     *)
(* only, and that needs clients to be in one place of the queue's wait list   *)
(* and of the registered responses.                                           *)

WaitListInv ==
    /\ IsInjective(putters)
    /\ \A r \in ToSet(putters) : pc[r] = "putting"

RegisteredInv ==
    /\ IsInjective(asyncResponses)
    /\ \A r \in ToSet(asyncResponses) : pc[r] = "waiting"

PlacesInv ==
    /\ IsInjective(requests) /\ IsInjective(toBatch)
    /\ ToSet(requests) \cap ToSet(toBatch) = {}
    /\ \A b \in inflight : ToSet(b) \cap (ToSet(requests) \cup ToSet(toBatch)) = {}
    /\ \A b, c \in inflight : b # c => ToSet(b) \cap ToSet(c) = {}

HeldAreOpen == \A r \in Requests : Held(r) => Open(r)

HeldInv ==
    /\ TypeInv /\ ~failed
    /\ WaitListInv /\ RegisteredInv /\ PlacesInv /\ HeldAreOpen
    /\ NobodyStranded

\* Waking putters moves none of them into or out of the waiting clients
LEMMA WakePuttersKeeps ==
    ASSUME TypeInv, WaitListInv, NEW n \in Nat, WakePutters(n)
    PROVE  WaitListInv' /\ \A r \in Requests : pc'[r] = "waiting" <=> pc[r] = "waiting"
  <1> USE DEF TypeInv, TypeOK
  <1>1. /\ ToSet(putters') = ToSet(putters) \ FirstPutters(n)
        /\ IsInjective(putters')
    BY ToSetSubSeq DEF WakePutters, WaitListInv, FirstPutters
  <1>2. ToSet(putters) \subseteq Requests
    BY DEF ToSet
  <1>3. \A r \in ToSet(putters') : pc'[r] = "putting"
    BY <1>1, <1>2 DEF WakePutters, WaitListInv
  <1>4. FirstPutters(n) \subseteq ToSet(putters)
    BY DEF FirstPutters, ToSet
  <1>5. \A r \in Requests : pc'[r] = "waiting" <=> pc[r] = "waiting"
    BY <1>4 DEF WakePutters, WaitListInv
  <1> QED
    BY <1>1, <1>3, <1>5 DEF WaitListInv

\* A client that arrives joins the queue
LEMMA QueueRequestHeld ==
    ASSUME HeldInv, TypeInv', NEW r \in Requests, pc[r] \in {"idle", "woken"},
           QueueRequest(r), UNCHANGED putters
    PROVE  HeldInv'
  <1> USE DEF HeldInv
  <1>1. /\ requests \in Seq(Requests) /\ asyncResponses \in Seq(Requests)
        /\ pc \in [Requests -> {"idle", "putting", "woken", "waiting", "done"}]
        /\ future \in [Requests -> {"none", "pending", "result", "exception", "cancelled"}]
    BY DEF TypeInv, TypeOK
  <1>2. r \notin ToSet(asyncResponses) /\ r \notin ToSet(putters)
    BY DEF RegisteredInv, WaitListInv
  <1>3. ~Held(r)
    BY <1>2 DEF HeldAreOpen, Open
  <1>4. /\ ToSet(requests') = ToSet(requests) \cup {r}
        /\ IsInjective(requests')
    BY <1>1, <1>3, ToSetAppend DEF QueueRequest, Held, PlacesInv
  <1>5. /\ ToSet(asyncResponses') = ToSet(asyncResponses) \cup {r}
        /\ IsInjective(asyncResponses')
    BY <1>1, <1>2, ToSetAppend DEF QueueRequest, RegisteredInv
  <1>6. WaitListInv'
    BY <1>1, <1>2, PlacesType DEF QueueRequest, WaitListInv
  <1>7. RegisteredInv'
    BY <1>1, <1>5, PlacesType DEF QueueRequest, RegisteredInv
  <1>8. PlacesInv'
    BY <1>3, <1>4 DEF QueueRequest, PlacesInv, Held
  <1>9. \A q \in Requests : Held(q)' <=> Held(q) \/ q = r
    BY <1>4 DEF QueueRequest, Held
  <1>10. \A q \in Requests : q # r => (Open(q)' <=> Open(q))
    BY <1>1, <1>5 DEF QueueRequest, Open
  <1>11. Open(r)'
    BY <1>1, <1>5 DEF QueueRequest, Open
  <1>12. HeldAreOpen'
    BY <1>9, <1>10, <1>11 DEF HeldAreOpen
  <1>13. NobodyStranded'
    BY <1>1, <1>9 DEF QueueRequest, NobodyStranded
  <1> QED
    BY <1>6, <1>7, <1>8, <1>12, <1>13 DEF QueueRequest

\* A client that finds the queue full joins the wait list
LEMMA WaitForRoomHeld ==
    ASSUME HeldInv, TypeInv', NEW r \in Requests, pc[r] \in {"idle", "woken"},
           WaitForRoom(r)
    PROVE  HeldInv'
  <1> USE DEF HeldInv
  <1>1. /\ putters \in Seq(Requests)
        /\ pc \in [Requests -> {"idle", "putting", "woken", "waiting", "done"}]
    BY DEF TypeInv, TypeOK
  <1>2. r \notin ToSet(asyncResponses) /\ r \notin ToSet(putters)
    BY DEF RegisteredInv, WaitListInv
  <1>3. /\ ToSet(putters') = ToSet(putters) \cup {r}
        /\ IsInjective(putters')
    BY <1>1, <1>2, ToSetAppend DEF WaitForRoom, WaitListInv
  <1>4. WaitListInv'
    BY <1>1, <1>3, PlacesType DEF WaitForRoom, WaitListInv
  <1>5. RegisteredInv'
    BY <1>1, <1>2, PlacesType DEF WaitForRoom, RegisteredInv
  <1>6. PlacesInv' /\ HeldAreOpen' /\ NobodyStranded'
    BY <1>1 DEF WaitForRoom, PlacesInv, HeldAreOpen, NobodyStranded, Held, Open,
                batcherVars
  <1> QED
    BY <1>4, <1>5, <1>6 DEF WaitForRoom, batcherVars

\* One request moves from the queue into the batch
LEMMA GetRequestHeld ==
    ASSUME HeldInv, TypeInv', GetRequest
    PROVE  HeldInv'
  <1> USE DEF HeldInv
  <1>1. /\ requests \in Seq(Requests) /\ requests # <<>> /\ toBatch \in Seq(Requests)
        /\ pc \in [Requests -> {"idle", "putting", "woken", "waiting", "done"}]
    BY DEF TypeInv, TypeOK, GetRequest
  <1> DEFINE h == Head(requests)
  <1>2. /\ h \in Requests
        /\ ToSet(requests) = ToSet(requests') \cup {h}
        /\ h \notin ToSet(requests') /\ IsInjective(requests')
    BY <1>1, ToSetTail DEF GetRequest, PlacesInv
  <1> HIDE DEF h
  <1>3. ToSet(toBatch') = ToSet(toBatch) \cup {h} /\ IsInjective(toBatch')
    BY <1>1, <1>2, ToSetAppend DEF GetRequest, PlacesInv, h
  <1>4. WaitListInv' /\ \A r \in Requests : pc'[r] = "waiting" <=> pc[r] = "waiting"
    BY WakePuttersKeeps DEF GetRequest
  <1>5. RegisteredInv'
    BY <1>4, PlacesType DEF GetRequest, RegisteredInv
  <1>6. PlacesInv'
    BY <1>2, <1>3 DEF GetRequest, PlacesInv
  <1>7. \A r \in Requests : (Held(r)' <=> Held(r)) /\ (Open(r)' <=> Open(r))
    BY <1>2, <1>3 DEF GetRequest, Held, Open
  <1>8. HeldAreOpen' /\ NobodyStranded'
    BY <1>4, <1>7 DEF GetRequest, HeldAreOpen, NobodyStranded
  <1> QED
    BY <1>4, <1>5, <1>6, <1>8 DEF GetRequest

\* A client whose future is done leaves; its request is held nowhere any more
LEMMA WaitResponseHeld ==
    ASSUME HeldInv, TypeInv', NEW r \in Requests, WaitResponse(r)
    PROVE  HeldInv'
  <1> USE DEF HeldInv
  <1>1. /\ asyncResponses \in Seq(Requests)
        /\ pc \in [Requests -> {"idle", "putting", "woken", "waiting", "done"}]
    BY DEF TypeInv, TypeOK
  <1>2. /\ ToSet(asyncResponses') = ToSet(asyncResponses) \ {r}
        /\ IsInjective(asyncResponses')
    BY <1>1, ToSetRemoveAt DEF WaitResponse, RegisteredInv
  <1>3. ~Held(r)
    BY DEF WaitResponse, HeldAreOpen, Open
  <1>4. WaitListInv'
    BY <1>1, PlacesType DEF WaitResponse, WaitListInv
  <1>5. RegisteredInv'
    BY <1>1, <1>2, PlacesType DEF WaitResponse, RegisteredInv
  <1>6. PlacesInv'
    BY DEF WaitResponse, PlacesInv, batcherVars
  <1>7. HeldAreOpen' /\ NobodyStranded'
    BY <1>1, <1>2, <1>3
    DEF WaitResponse, HeldAreOpen, NobodyStranded, Held, Open, batcherVars
  <1> QED
    BY <1>4, <1>5, <1>6, <1>7 DEF WaitResponse, batcherVars

\* A closed batch joins the batches in flight
LEMMA DispatchBatchHeld ==
    ASSUME HeldInv, TypeInv', CloseBatch, DispatchBatch
    PROVE  HeldInv'
  <1> USE DEF HeldInv
  <1>1. ToSet(toBatch') = {} /\ IsInjective(toBatch')
    BY DEF CloseBatch, ToSet, IsInjective
  <1>2. \A r \in Requests : (Held(r)' <=> Held(r)) /\ (Open(r)' <=> Open(r))
    BY <1>1 DEF CloseBatch, DispatchBatch, Held, Open
  <1>3. PlacesInv'
    BY <1>1 DEF CloseBatch, DispatchBatch, PlacesInv
  <1>4. WaitListInv' /\ RegisteredInv' /\ HeldAreOpen' /\ NobodyStranded'
    BY <1>2 DEF CloseBatch, WaitListInv, RegisteredInv, HeldAreOpen, NobodyStranded
  <1> QED
    BY <1>3, <1>4 DEF DispatchBatch

\* The model's answer settles the futures of its batch, all but those it leaves out, and
\* no other
LEMMA PredictCallbackHeld ==
    ASSUME HeldInv, TypeInv', NEW b \in inflight, PredictSucceeds(b) \/ PredictFails(b)
    PROVE  HeldInv'
  <1> USE DEF HeldInv
  <1>1. PICK answered, blamed, left : Returned(b, answered, blamed, left)
    BY PredictReturns DEF TypeInv
  <1>2. PredictCallback(b, answered, blamed) /\ leftOut' = leftOut \cup left
    BY <1>1 DEF Returned
  <1>3. \A r \in ToSet(b) : Open(r)
    BY PlacesType DEF HeldAreOpen, Held
  <1>4. answered \cup blamed \cup left = ToSet(b)
    BY <1>1, <1>3 DEF Returned
  <1>5. \A r \in Requests :
          /\ r \notin ToSet(b) => future'[r] = future[r]
          /\ r \in ToSet(b) => future'[r] # "pending" \/ r \in leftOut'
    BY <1>2, <1>4 DEF PredictCallback
  <1>6. PlacesInv'
    BY <1>2 DEF PredictCallback, PlacesInv
  <1>7. \A r \in Requests : Held(r)' <=> Held(r) /\ r \notin ToSet(b)
    BY <1>2 DEF PredictCallback, PlacesInv, Held
  <1>8. HeldAreOpen'
    BY <1>2, <1>5, <1>7 DEF PredictCallback, HeldAreOpen, Open
  <1>9. NobodyStranded'
    BY <1>2, <1>5, <1>7 DEF PredictCallback, NobodyStranded
  <1>10. WaitListInv' /\ RegisteredInv'
    BY <1>2 DEF PredictCallback, WaitListInv, RegisteredInv
  <1> QED
    BY <1>2, <1>6, <1>8, <1>9, <1>10 DEF PredictCallback

LEMMA InitHeldInv == Init => HeldInv
  <1> SUFFICES ASSUME Init PROVE HeldInv
    OBVIOUS
  <1>1. ToSet(<<>>) = {} /\ IsInjective(<<>>)
    BY DEF ToSet, IsInjective
  <1> QED
    BY <1>1, InitTypeInv DEF Init, HeldInv, WaitListInv, RegisteredInv, PlacesInv,
                             HeldAreOpen, Held, NobodyStranded

LEMMA NextHeldInv ==
    ASSUME Undisturbed
    PROVE  HeldInv /\ [Next]_vars => HeldInv'
  <1> SUFFICES ASSUME HeldInv, [Next]_vars PROVE HeldInv'
    OBVIOUS
  <1>1. TypeInv'
    BY NextTypeInv DEF HeldInv
  <1>2. ASSUME NEW r \in Requests, Predict(r) \/ ResumePut(r) PROVE HeldInv'
    BY <1>1, <1>2, QueueRequestHeld, WaitForRoomHeld DEF Predict, ResumePut
  <1>3. ASSUME NEW r \in Requests, WaitResponse(r) PROVE HeldInv'
    BY <1>1, <1>3, WaitResponseHeld
  <1>4. ASSUME NEW r \in Requests, Cancel(r) PROVE HeldInv'
    BY <1>4 DEF Cancel, Undisturbed
  <1>5. CASE RunBatcher \/ AwaitRequest \/ FinishBatcher
    BY <1>1, <1>5 DEF RunBatcher, AwaitRequest, FinishBatcher, HeldInv, WaitListInv,
        RegisteredInv, PlacesInv, HeldAreOpen, Held, Open, NobodyStranded
  <1>6. CASE TakeQueued \/ TakeAwaited
    BY <1>1, <1>6, GetRequestHeld DEF TakeQueued, TakeAwaited
  <1>7. CASE CloseFullBatch \/ Timeout
    BY <1>1, <1>7, DispatchBatchHeld DEF CloseFullBatch, Timeout, CloseBatch, MergeFails,
                                         Undisturbed, Merges
  <1>8. ASSUME NEW b \in inflight, PredictSucceeds(b) \/ PredictFails(b) PROVE HeldInv'
    BY <1>1, <1>8, PredictCallbackHeld
  <1>9. CASE BatchingTaskCallback
    BY <1>9 DEF BatchingTaskCallback, HeldInv
  <1>10. CASE UNCHANGED vars
    BY <1>1, <1>10 DEF vars, HeldInv, WaitListInv, RegisteredInv, PlacesInv, HeldAreOpen,
                       Held, Open, NobodyStranded
  <1> QED
    BY <1>2, <1>3, <1>4, <1>5, <1>6, <1>7, <1>8, <1>9, <1>10 DEF Next, Batcher

\* As long as clients stay and batches can be merged, a waiting client's request is in the
\* queue, in the batch or with the model, or the answer to its batch had nothing for it: for
\* every number of clients, every batch size, whatever predictions fail or leave out
THEOREM NothingStranded == Spec => []NoStrandedRequest
  <1> DEFINE Inv == Undisturbed => HeldInv
  <1>1. Init => Inv
    BY InitHeldInv
  <1>2. Inv /\ [Next]_vars => Inv'
    BY NextHeldInv, FaultsFixed DEF Undisturbed, Merges
  <1>3. Inv => NoStrandedRequest
    BY DEF HeldInv, NoStrandedRequest
  <1> QED
    BY <1>1, <1>2, <1>3, PTL DEF Spec

----------------------------------------------------------------------------
(* No request is predicted twice, with all faults: clients that leave, and    *)
(* batches that die with their task.  A client enters the queue at most once  *)
(* because what is held stands for clients that have entered it before; and   *)
(* wakeups only reach those that have not.                                    *)

HeldHaveEntered == \A r \in Requests : Held(r) => pc[r] \in {"waiting", "done"}

BatchesOnce == \A b \in inflight : IsInjective(b)

OnceInv == TypeInv /\ WaitListInv /\ PlacesInv /\ BatchesOnce /\ HeldHaveEntered

\* The first n elements of a queue, counted
LEMMA CountFirst ==
    ASSUME NEW S, NEW s \in Seq(S), IsInjective(s), NEW n \in 0..Len(s),
           NEW first, first = {s[i] : i \in {j \in DOMAIN s : j <= n}}
    PROVE  IsFiniteSet(first) /\ Cardinality(first) = n
  <1> DEFINE f == [i \in 1..n |-> s[i]]
  <1>1. Len(s) \in Nat /\ n \in Nat /\ {j \in DOMAIN s : j <= n} = 1..n
        /\ 1..n \subseteq DOMAIN s
    OBVIOUS
  <1>2. f \in Surjection(1..n, first)
    BY <1>1 DEF Surjection
  <1>3. f \in Injection(1..n, first)
    BY <1>1 DEF Injection, IsInjective
  <1>4. IsFiniteSet(1..n) /\ Cardinality(1..n) = n
    BY <1>1, FS_Interval
  <1>5. IsFiniteSet(first) /\ Cardinality(first) = Cardinality(1..n)
    BY <1>2, <1>3, <1>4, FS_Surjection
  <1> QED
    BY <1>4, <1>5

LEMMA CountAll ==
    ASSUME NEW S, NEW s \in Seq(S), IsInjective(s)
    PROVE  IsFiniteSet(ToSet(s)) /\ Cardinality(ToSet(s)) = Len(s)
  <1>1. Len(s) \in Nat /\ DOMAIN s = 1..Len(s)
    OBVIOUS
  <1>2. Len(s) \in 0..Len(s)
    BY <1>1
  <1>3. \A j \in DOMAIN s : j <= Len(s)
    BY <1>1
  <1>4. ToSet(s) = {s[i] : i \in {j \in DOMAIN s : j <= Len(s)}}
    BY <1>3 DEF ToSet
  <1> QED
    BY <1>2, <1>4, CountFirst

\* Waking putters touches nobody who has entered the queue
LEMMA WakePuttersOnce ==
    ASSUME OnceInv, NEW n \in Nat, WakePutters(n)
    PROVE  /\ WaitListInv'
           /\ \A r \in Requests : pc[r] \in {"waiting", "done"} => pc'[r] = pc[r]
  <1>1. WaitListInv'
    BY WakePuttersKeeps DEF OnceInv
  <1>2. FirstPutters(n) \subseteq ToSet(putters)
    BY DEF FirstPutters, ToSet
  <1>3. \A r \in FirstPutters(n) : pc[r] = "putting"
    BY <1>2 DEF OnceInv, WaitListInv
  <1> QED
    BY <1>1, <1>3 DEF WakePutters

LEMMA QueueRequestOnce ==
    ASSUME OnceInv, TypeInv', NEW r \in Requests, pc[r] \in {"idle", "woken"},
           QueueRequest(r), UNCHANGED putters
    PROVE  OnceInv'
  <1> USE DEF OnceInv
  <1>1. requests \in Seq(Requests) /\ pc' = [pc EXCEPT ![r] = "waiting"]
        /\ pc \in [Requests -> {"idle", "putting", "woken", "waiting", "done"}]
    BY DEF TypeInv, TypeOK, QueueRequest
  <1>2. ~Held(r) /\ r \notin ToSet(putters)
    BY DEF HeldHaveEntered, WaitListInv
  <1>3. ToSet(requests') = ToSet(requests) \cup {r} /\ IsInjective(requests')
    BY <1>1, <1>2, ToSetAppend DEF QueueRequest, Held, PlacesInv
  <1>4. WaitListInv'
    BY <1>1, <1>2, PlacesType DEF WaitListInv
  <1>5. PlacesInv' /\ BatchesOnce'
    BY <1>2, <1>3 DEF QueueRequest, PlacesInv, BatchesOnce, Held
  <1>6. HeldHaveEntered'
    BY <1>1, <1>3 DEF QueueRequest, HeldHaveEntered, Held
  <1> QED
    BY <1>4, <1>5, <1>6

LEMMA WaitForRoomOnce ==
    ASSUME OnceInv, TypeInv', NEW r \in Requests, pc[r] \in {"idle", "woken"},
           WaitForRoom(r)
    PROVE  OnceInv'
  <1> USE DEF OnceInv
  <1>1. putters \in Seq(Requests) /\ pc' = [pc EXCEPT ![r] = "putting"]
        /\ pc \in [Requests -> {"idle", "putting", "woken", "waiting", "done"}]
        /\ UNCHANGED <<requests, toBatch, inflight>>
    BY DEF TypeInv, TypeOK, WaitForRoom, batcherVars
  <1>2. ~Held(r) /\ r \notin ToSet(putters)
    BY DEF HeldHaveEntered, WaitListInv
  <1>3. ToSet(putters') = ToSet(putters) \cup {r} /\ IsInjective(putters')
    BY <1>1, <1>2, ToSetAppend DEF WaitForRoom, WaitListInv
  <1>4. WaitListInv'
    BY <1>1, <1>3, PlacesType DEF WaitListInv
  <1>5. PlacesInv' /\ BatchesOnce'
    BY <1>1 DEF PlacesInv, BatchesOnce
  <1>6. HeldHaveEntered'
    BY <1>1, <1>2 DEF HeldHaveEntered, Held
  <1> QED
    BY <1>4, <1>5, <1>6

LEMMA GetRequestOnce ==
    ASSUME OnceInv, TypeInv', GetRequest
    PROVE  OnceInv'
  <1> USE DEF OnceInv
  <1>1. requests \in Seq(Requests) /\ requests # <<>> /\ toBatch \in Seq(Requests)
    BY DEF TypeInv, TypeOK, GetRequest
  <1> DEFINE h == Head(requests)
  <1>2. /\ h \in Requests
        /\ ToSet(requests) = ToSet(requests') \cup {h}
        /\ h \notin ToSet(requests') /\ IsInjective(requests')
    BY <1>1, ToSetTail DEF GetRequest, PlacesInv
  <1> HIDE DEF h
  <1>3. ToSet(toBatch') = ToSet(toBatch) \cup {h} /\ IsInjective(toBatch')
    BY <1>1, <1>2, ToSetAppend DEF GetRequest, PlacesInv, h
  <1>4. /\ WaitListInv'
        /\ \A r \in Requests : pc[r] \in {"waiting", "done"} => pc'[r] = pc[r]
    BY WakePuttersOnce DEF GetRequest
  <1>5. PlacesInv' /\ BatchesOnce'
    BY <1>2, <1>3 DEF GetRequest, PlacesInv, BatchesOnce
  <1>6. \A r \in Requests : Held(r)' <=> Held(r)
    BY <1>2, <1>3 DEF GetRequest, Held
  <1>7. HeldHaveEntered'
    BY <1>4, <1>6 DEF HeldHaveEntered
  <1> QED
    BY <1>4, <1>5, <1>7

LEMMA CloseBatchOnce ==
    ASSUME OnceInv, TypeInv', CloseBatch
    PROVE  OnceInv'
  <1> USE DEF OnceInv
  <1>1. ToSet(toBatch') = {} /\ IsInjective(toBatch')
    BY DEF CloseBatch, ToSet, IsInjective
  <1>2. UNCHANGED <<pc, requests, putters>> /\ inflight' \in {inflight, inflight \cup {toBatch}}
    BY DEF CloseBatch, DispatchBatch, MergeFails
  <1>3. \A r \in Requests : Held(r)' => Held(r)
    BY <1>1, <1>2 DEF Held
  <1>4. PlacesInv' /\ BatchesOnce'
    BY <1>1, <1>2 DEF PlacesInv, BatchesOnce
  <1>5. WaitListInv' /\ HeldHaveEntered'
    BY <1>2, <1>3 DEF WaitListInv, HeldHaveEntered
  <1> QED
    BY <1>4, <1>5

\* A client that leaves is not one that waits for room any more, and its request stays
\* where it was
LEMMA CancelOnce ==
    ASSUME OnceInv, TypeInv', NEW r \in Requests, Cancel(r)
    PROVE  OnceInv'
  <1> USE DEF OnceInv
  <1>1. /\ putters \in Seq(Requests) /\ Len(putters) \in Nat
        /\ pc \in [Requests -> {"idle", "putting", "woken", "waiting", "done"}]
        /\ ToSet(putters) \subseteq Requests
    BY PlacesType DEF TypeInv, TypeOK
  <1>2. UNCHANGED <<requests, toBatch, inflight>>
    BY DEF Cancel, CancelPut, CancelWoken, CancelWait, batcherVars
  <1>3. PlacesInv' /\ BatchesOnce' /\ \A q \in Requests : Held(q)' <=> Held(q)
    BY <1>2 DEF PlacesInv, BatchesOnce, Held
  <1>4. CASE CancelPut(r)
    <2>1. /\ ToSet(putters') = ToSet(putters) \ {r} /\ IsInjective(putters')
      BY <1>1, <1>4, ToSetRemoveAt DEF CancelPut, WaitListInv
    <2>2. WaitListInv'
      BY <1>1, <1>4, <2>1 DEF CancelPut, WaitListInv
    <2>3. HeldHaveEntered'
      BY <1>1, <1>3, <1>4 DEF CancelPut, HeldHaveEntered
    <2> QED
      BY <1>3, <2>2, <2>3
  <1>5. CASE CancelWoken(r)
    <2>1. FirstPutters(1) \subseteq ToSet(putters)
      BY DEF FirstPutters, ToSet
    <2>2. /\ ToSet(putters') \subseteq ToSet(putters) /\ IsInjective(putters')
          /\ ~Full => ToSet(putters') \cap FirstPutters(1) = {}
      <3>1. CASE Full
        BY <1>5, <3>1 DEF CancelWoken, WaitListInv
      <3>2. CASE ~Full
        <4>1. putters' = SubSeq(putters, 1 + 1, Len(putters))
          BY <1>5, <3>2 DEF CancelWoken
        <4>2. ToSet(putters') = ToSet(putters) \ FirstPutters(1) /\ IsInjective(putters')
          BY <1>1, <4>1, ToSetSubSeq DEF WaitListInv, FirstPutters
        <4> QED
          BY <4>2
      <3> QED
        BY <3>1, <3>2
    <2>3. r \notin ToSet(putters)
      BY <1>5 DEF CancelWoken, WaitListInv
    <2>4. \A q \in ToSet(putters') : pc'[q] = pc[q]
      BY <1>1, <1>5, <2>2, <2>3 DEF CancelWoken
    <2>5. WaitListInv'
      BY <2>2, <2>4 DEF WaitListInv
    <2>6. \A q \in Requests : pc[q] \in {"waiting", "done"} => pc'[q] = pc[q]
      <3>1. \A q \in FirstPutters(1) : pc[q] = "putting"
        BY <2>1 DEF WaitListInv
      <3> QED
        BY <1>5, <3>1 DEF CancelWoken
    <2> QED
      BY <1>3, <2>5, <2>6 DEF HeldHaveEntered
  <1>6. CASE CancelWait(r)
    BY <1>3, <1>6 DEF CancelWait, WaitListInv, HeldHaveEntered
  <1> QED
    BY <1>4, <1>5, <1>6 DEF Cancel

LEMMA CallbackOnce ==
    ASSUME OnceInv, TypeInv', BatchingTaskCallback
    PROVE  OnceInv'
  <1> USE DEF OnceInv
  <1>1. UNCHANGED <<toBatch, inflight>>
    BY DEF BatchingTaskCallback
  <1>2. CASE UNCHANGED <<requests, putters, pc>>
    BY <1>1, <1>2 DEF WaitListInv, PlacesInv, BatchesOnce, HeldHaveEntered, Held
  <1>3. CASE requests' = <<>> /\ WakePutters(Len(requests))
    <2>1. Len(requests) \in Nat
      BY DEF TypeInv, TypeOK
    <2>2. /\ WaitListInv'
          /\ \A r \in Requests : pc[r] \in {"waiting", "done"} => pc'[r] = pc[r]
      BY <1>3, <2>1, WakePuttersOnce
    <2>3. ToSet(requests') = {} /\ IsInjective(requests')
      BY <1>3 DEF ToSet, IsInjective
    <2>4. PlacesInv' /\ BatchesOnce' /\ \A r \in Requests : Held(r)' => Held(r)
      BY <1>1, <2>3 DEF PlacesInv, BatchesOnce, Held
    <2> QED
      BY <2>2, <2>4 DEF HeldHaveEntered
  <1> QED
    BY <1>2, <1>3 DEF BatchingTaskCallback, ClearQueue

LEMMA InitOnceInv == Init => OnceInv
  <1> SUFFICES ASSUME Init PROVE OnceInv
    OBVIOUS
  <1>1. ToSet(<<>>) = {} /\ IsInjective(<<>>)
    BY DEF ToSet, IsInjective
  <1> QED
    BY <1>1, InitTypeInv DEF Init, OnceInv, WaitListInv, PlacesInv, BatchesOnce, HeldHaveEntered, Held

LEMMA NextOnceInv == OnceInv /\ [Next]_vars => OnceInv'
  <1> SUFFICES ASSUME OnceInv, [Next]_vars PROVE OnceInv'
    OBVIOUS
  <1>1. TypeInv'
    BY NextTypeInv DEF OnceInv
  <1>2. ASSUME NEW r \in Requests, Predict(r) \/ ResumePut(r) PROVE OnceInv'
    BY <1>1, <1>2, QueueRequestOnce, WaitForRoomOnce DEF Predict, ResumePut
  <1>3. ASSUME NEW r \in Requests, WaitResponse(r) PROVE OnceInv'
    <2>1. pc[r] = "waiting" /\ pc' = [pc EXCEPT ![r] = "done"]
          /\ UNCHANGED <<requests, putters, toBatch, inflight>>
      BY <1>3 DEF WaitResponse, batcherVars
    <2>2. pc \in [Requests -> {"idle", "putting", "woken", "waiting", "done"}]
          /\ ToSet(putters) \subseteq Requests
      BY PlacesType DEF OnceInv, TypeInv, TypeOK
    <2>3. WaitListInv'
      BY <2>1, <2>2 DEF OnceInv, WaitListInv
    <2>4. PlacesInv' /\ BatchesOnce' /\ HeldHaveEntered'
      BY <2>1, <2>2 DEF OnceInv, PlacesInv, BatchesOnce, HeldHaveEntered, Held
    <2> QED
      BY <1>1, <2>3, <2>4 DEF OnceInv
  <1>4. ASSUME NEW r \in Requests, Cancel(r) PROVE OnceInv'
    BY <1>1, <1>4, CancelOnce
  <1>5. CASE RunBatcher \/ AwaitRequest \/ FinishBatcher \/ UNCHANGED vars
    BY <1>1, <1>5 DEF RunBatcher, AwaitRequest, FinishBatcher, vars, OnceInv, WaitListInv,
        PlacesInv, BatchesOnce, HeldHaveEntered, Held
  <1>6. CASE TakeQueued \/ TakeAwaited
    BY <1>1, <1>6, GetRequestOnce DEF TakeQueued, TakeAwaited
  <1>7. CASE CloseFullBatch \/ Timeout
    BY <1>1, <1>7, CloseBatchOnce DEF CloseFullBatch, Timeout
  <1>8. ASSUME NEW b \in inflight, PredictSucceeds(b) \/ PredictFails(b) PROVE OnceInv'
    <2>1. inflight' = inflight \ {b} /\ UNCHANGED <<pc, requests, putters, toBatch>>
      BY <1>8 DEF PredictSucceeds, PredictFails, PredictCallback
    <2> QED
      BY <1>1, <2>1 DEF OnceInv, WaitListInv, PlacesInv, BatchesOnce, HeldHaveEntered, Held
  <1>9. CASE BatchingTaskCallback
    BY <1>1, <1>9, CallbackOnce
  <1> QED
    BY <1>2, <1>3, <1>4, <1>5, <1>6, <1>7, <1>8, <1>9 DEF Next, Batcher

\* A request is in the queue, in the batch or with the model, in one of them and once,
\* whatever is cancelled and whatever fails: no request is ever predicted twice
THEOREM HeldAtMostOnce == Spec => []HeldOnce
  <1>1. OnceInv => HeldOnce
    <2> SUFFICES ASSUME OnceInv PROVE HeldOnce
      OBVIOUS
    <2> DEFINE places == {requests, toBatch} \cup inflight
    <2>1. \A p \in places : p \in Seq(Requests) /\ IsInjective(p)
      BY DEF OnceInv, TypeInv, TypeOK, PlacesInv, BatchesOnce
    <2>2. \A p \in places : Cardinality(ToSet(p)) = Len(p)
      BY <2>1, CountAll
    <2>3. \A p, q \in places : p # q => ToSet(p) \cap ToSet(q) = {}
      BY DEF OnceInv, PlacesInv
    <2>4. requests = toBatch => requests = <<>>
      <3>1. ASSUME requests \in Seq(Requests), requests # <<>>
            PROVE  ToSet(requests) # {}
        <4>1. 1 \in DOMAIN requests
          BY <3>1
        <4> QED
          BY <4>1 DEF ToSet
      <3> QED
        BY <2>1, <3>1 DEF OnceInv, PlacesInv
    <2>5. {requests, toBatch} \cap inflight = {}
      <3>1. \A b \in inflight : ToSet(b) # {}
        <4> SUFFICES ASSUME NEW b \in inflight PROVE ToSet(b) # {}
          OBVIOUS
        <4>1. b \in Seq(Requests) /\ Len(b) \in 1..MaxBatchSize
          BY DEF OnceInv, TypeInv, TypeOK
        <4>2. 1 \in DOMAIN b
          BY <4>1, BatchSizeAssumption
        <4> QED
          BY <4>2 DEF ToSet
      <3> QED
        BY <3>1 DEF OnceInv, PlacesInv
    <2> QED
      BY <2>2, <2>3, <2>4, <2>5 DEF HeldOnce
  <1> QED
    BY <1>1, InitOnceInv, NextOnceInv, PTL DEF Spec

----------------------------------------------------------------------------
(* No putter waits while the queue has a slot it was not told about, with all *)
(* faults.  Who was woken and has not run yet is counted: every step that     *)
(* frees a slot wakes one more, and every step that uses up a wakeup fills    *)
(* one, or finds the queue full.                                              *)

Woken == {r \in Requests : pc[r] = "woken"}

RoomInv == OnceInv /\ IsFiniteSet(Woken) /\ NoLostWakeup

\* get_nowait of n requests wakes n putters, or all there are
LEMMA WakePuttersCount ==
    ASSUME OnceInv, IsFiniteSet(Woken), NEW n \in Nat, WakePutters(n)
    PROVE  /\ IsFiniteSet(Woken')
           /\ putters' # <<>> =>
                 putters # <<>> /\ Cardinality(Woken') = Cardinality(Woken) + n
  <1> DEFINE m == IF n <= Len(putters) THEN n ELSE Len(putters)
             first == FirstPutters(n)
  <1>1. /\ putters \in Seq(Requests) /\ Len(putters) \in Nat
        /\ pc \in [Requests -> {"idle", "putting", "woken", "waiting", "done"}]
    BY DEF OnceInv, TypeInv, TypeOK
  <1>2. m \in 0..Len(putters)
    BY <1>1
  <1>3. \A j \in DOMAIN putters : j <= n <=> j <= m
    BY <1>1
  <1>4. first = {putters[i] : i \in {j \in DOMAIN putters : j <= m}}
    BY <1>3 DEF FirstPutters
  <1>5. IsFiniteSet(first) /\ Cardinality(first) = m
    <2> HIDE DEF m, first
    <2> QED
      BY <1>1, <1>2, <1>4, CountFirst DEF OnceInv, WaitListInv
  <1>6. \A r \in first : r \in Requests /\ pc[r] = "putting"
    BY <1>1 DEF OnceInv, WaitListInv, FirstPutters, ToSet
  <1>7. Woken' = Woken \cup first /\ Woken \cap first = {}
    BY <1>1, <1>6 DEF WakePutters, Woken
  <1>8. /\ IsFiniteSet(Woken \cup first)
        /\ Cardinality(Woken \cup first) = Cardinality(Woken) + m - Cardinality({})
    BY <1>5, <1>7, FS_Union
  <1>9. Cardinality({}) = 0 /\ Cardinality(Woken) \in Nat
    BY FS_EmptySet, FS_CardinalityType
  <1>10. ASSUME putters' # <<>> PROVE putters # <<>> /\ m = n
    <2>1. putters' = SubSeq(putters, n + 1, Len(putters))
      BY DEF WakePutters
    <2>2. n < Len(putters)
      BY <1>1, <1>10, <2>1
    <2> QED
      BY <1>1, <2>2
  <1> QED
    BY <1>7, <1>8, <1>9, <1>10

\* A client enters the queue: on the slot it was woken for, or before those who were
LEMMA QueueRequestRoom ==
    ASSUME RoomInv, OnceInv', NEW r \in Requests, pc[r] \in {"idle", "woken"},
           QueueRequest(r), UNCHANGED putters
    PROVE  RoomInv'
  <1>1. /\ requests \in Seq(Requests) /\ Len(requests) \in Nat /\ MaxBatchSize \in Nat
        /\ pc \in [Requests -> {"idle", "putting", "woken", "waiting", "done"}]
    BY BatchSizeAssumption DEF RoomInv, OnceInv, TypeInv, TypeOK
  <1>2. Woken' = Woken \ {r} /\ Len(requests') = Len(requests) + 1
    BY <1>1 DEF QueueRequest, Woken
  <1>3. /\ IsFiniteSet(Woken \ {r})
        /\ Cardinality(Woken \ {r}) =
              IF r \in Woken THEN Cardinality(Woken) - 1 ELSE Cardinality(Woken)
    BY FS_RemoveElement DEF RoomInv
  <1>4. Cardinality(Woken) \in Nat
    BY FS_CardinalityType DEF RoomInv
  <1>5. putters # <<>> => Len(requests) + Cardinality(Woken) >= MaxBatchSize
    BY DEF RoomInv, NoLostWakeup, Woken
  <1>6. Cardinality(Woken') \in {Cardinality(Woken), Cardinality(Woken) - 1}
    BY <1>2, <1>3
  <1>7. putters # <<>> => Len(requests') + Cardinality(Woken') >= MaxBatchSize
    BY <1>1, <1>2, <1>4, <1>5, <1>6
  <1> QED
    BY <1>2, <1>3, <1>7 DEF RoomInv, NoLostWakeup, Woken

\* A step that leaves a full queue alone and wakes nobody
LEMMA FullRoom ==
    ASSUME RoomInv, OnceInv', Full, requests' = requests, Woken' \subseteq Woken
    PROVE  RoomInv'
  <1>1. IsFiniteSet(Woken') /\ Cardinality(Woken') \in Nat
    BY FS_Subset, FS_CardinalityType DEF RoomInv
  <1>2. Len(requests) \in Nat /\ MaxBatchSize \in Nat /\ Len(requests) >= MaxBatchSize
    BY BatchSizeAssumption DEF RoomInv, OnceInv, TypeInv, TypeOK, Full
  <1>3. Len(requests') + Cardinality(Woken') >= MaxBatchSize
    BY <1>1, <1>2
  <1> QED
    BY <1>1, <1>3 DEF RoomInv, NoLostWakeup, Woken

\* A step that neither takes nor gives a slot or a wakeup
LEMMA SameRoom ==
    ASSUME RoomInv, OnceInv', requests' = requests, Woken' = Woken,
           putters' # <<>> => putters # <<>>
    PROVE  RoomInv'
  BY DEF RoomInv, NoLostWakeup, Woken

\* A client takes the place of the one that was woken and leaves
LEMMA CancelWokenRoom ==
    ASSUME RoomInv, OnceInv', NEW r \in Requests, CancelWoken(r)
    PROVE  RoomInv'
  <1>1. /\ putters \in Seq(Requests) /\ Len(putters) \in Nat
        /\ pc \in [Requests -> {"idle", "putting", "woken", "waiting", "done"}]
        /\ requests' = requests /\ pc[r] = "woken"
    BY DEF RoomInv, OnceInv, TypeInv, TypeOK, CancelWoken
  <1>2. CASE Full
    <2>1. Woken' \subseteq Woken
      BY <1>1, <1>2 DEF CancelWoken, Woken
    <2> QED
      BY <1>1, <1>2, <2>1, FullRoom
  <1>3. CASE ~Full
    <2> DEFINE first == FirstPutters(1)
    <2>1. /\ putters' = SubSeq(putters, 2, Len(putters))
          /\ pc' = [q \in Requests |-> IF q = r THEN "done"
                                       ELSE IF q \in first THEN "woken" ELSE pc[q]]
      BY <1>3 DEF CancelWoken
    <2>2. \A q \in first : q \in Requests /\ pc[q] = "putting"
      BY <1>1 DEF RoomInv, OnceInv, WaitListInv, FirstPutters, ToSet
    <2>3. Woken' = (Woken \ {r}) \cup first
      BY <1>1, <2>1, <2>2 DEF Woken
    <2>4. CASE putters = <<>>
      <3>1. first = {}
        BY <2>4 DEF FirstPutters
      <3>2. putters' = <<>>
        BY <2>1, <2>4
      <3>3. IsFiniteSet(Woken')
        BY <2>3, <3>1, FS_RemoveElement DEF RoomInv
      <3> QED
        BY <3>2, <3>3 DEF RoomInv, NoLostWakeup
    <2>5. CASE putters # <<>>
      <3>1. {j \in DOMAIN putters : j <= 1} = {1}
        BY <1>1, <2>5
      <3>2. first = {putters[1]}
        BY <3>1 DEF FirstPutters
      <3> DEFINE q == putters[1]
      <3>3. q \notin Woken
        BY <2>2, <3>2 DEF Woken
      <3>4. IsFiniteSet(Woken \ {r}) /\ Cardinality(Woken \ {r}) = Cardinality(Woken) - 1
        BY <1>1, FS_RemoveElement DEF RoomInv, Woken
      <3>5. /\ IsFiniteSet((Woken \ {r}) \cup {q})
            /\ Cardinality((Woken \ {r}) \cup {q}) = Cardinality(Woken \ {r}) + 1
        BY <3>3, <3>4, FS_AddElement
      <3>6. Cardinality(Woken) \in Nat
        BY FS_CardinalityType DEF RoomInv
      <3>7. Woken' = (Woken \ {r}) \cup {q}
        BY <2>3, <3>2
      <3>8. Cardinality((Woken \ {r}) \cup {q}) = Cardinality(Woken)
        BY <3>4, <3>5, <3>6
      <3>9. IsFiniteSet(Woken') /\ Cardinality(Woken') = Cardinality(Woken)
        BY <3>5, <3>7, <3>8
      <3> QED
        BY <1>1, <2>5, <3>9 DEF RoomInv, NoLostWakeup, Woken
    <2> QED
      BY <2>4, <2>5
  <1> QED
    BY <1>2, <1>3

LEMMA CancelRoom ==
    ASSUME RoomInv, OnceInv', NEW r \in Requests, Cancel(r)
    PROVE  RoomInv'
  <1>1. /\ putters \in Seq(Requests)
        /\ pc \in [Requests -> {"idle", "putting", "woken", "waiting", "done"}]
    BY DEF RoomInv, OnceInv, TypeInv, TypeOK
  <1>2. CASE CancelPut(r)
    <2>1. Woken' = Woken /\ requests' = requests
      BY <1>1, <1>2 DEF CancelPut, Woken
    <2>2. putters # <<>>
      BY <1>1, <1>2 DEF CancelPut
    <2> QED
      BY <2>1, <2>2, SameRoom
  <1>3. CASE CancelWait(r)
    <2>1. Woken' = Woken /\ requests' = requests /\ putters' = putters
      BY <1>3 DEF CancelWait, Woken
    <2> QED
      BY <2>1, SameRoom
  <1> QED
    BY <1>2, <1>3, CancelWokenRoom DEF Cancel

LEMMA InitRoomInv == Init => RoomInv
  <1> SUFFICES ASSUME Init PROVE RoomInv
    OBVIOUS
  <1>1. Woken = {}
    BY DEF Init, Woken
  <1> QED
    BY <1>1, InitOnceInv, FS_EmptySet DEF Init, RoomInv, NoLostWakeup

LEMMA NextRoomInv == RoomInv /\ [Next]_vars => RoomInv'
  <1> SUFFICES ASSUME RoomInv, [Next]_vars PROVE RoomInv'
    OBVIOUS
  <1>1. OnceInv'
    BY NextOnceInv DEF RoomInv
  <1>2. /\ requests \in Seq(Requests) /\ Len(requests) \in Nat
        /\ putters \in Seq(Requests) /\ MaxBatchSize \in Nat
        /\ pc \in [Requests -> {"idle", "putting", "woken", "waiting", "done"}]
        /\ Cardinality(Woken) \in Nat
    BY BatchSizeAssumption, FS_CardinalityType DEF RoomInv, OnceInv, TypeInv, TypeOK
  <1>3. ASSUME NEW r \in Requests, Predict(r) \/ ResumePut(r) PROVE RoomInv'
    <2>1. CASE Full
      <3>1. WaitForRoom(r)
        BY <1>3, <2>1 DEF Predict, ResumePut
      <3>2. requests' = requests /\ Woken' \subseteq Woken
        BY <1>2, <3>1 DEF WaitForRoom, Woken
      <3> QED
        BY <1>1, <2>1, <3>2, FullRoom
    <2>2. CASE ~Full
      BY <1>1, <1>3, <2>2, QueueRequestRoom DEF Predict, ResumePut
    <2> QED
      BY <2>1, <2>2
  <1>4. ASSUME NEW r \in Requests, WaitResponse(r) PROVE RoomInv'
    <2>1. Woken' = Woken /\ requests' = requests /\ putters' = putters
      BY <1>2, <1>4 DEF WaitResponse, Woken
    <2> QED
      BY <1>1, <2>1, SameRoom
  <1>5. ASSUME NEW r \in Requests, Cancel(r) PROVE RoomInv'
    BY <1>1, <1>5, CancelRoom
  <1>6. CASE TakeQueued \/ TakeAwaited
    <2>1. GetRequest
      BY <1>6 DEF TakeQueued, TakeAwaited
    <2>2. Len(requests') = Len(requests) - 1 /\ WakePutters(1)
      BY <1>2, <2>1 DEF GetRequest
    <2>3. /\ IsFiniteSet(Woken')
          /\ putters' # <<>> =>
                putters # <<>> /\ Cardinality(Woken') = Cardinality(Woken) + 1
      BY <2>2, WakePuttersCount DEF RoomInv
    <2>4. putters' # <<>> => Len(requests') + Cardinality(Woken') >= MaxBatchSize
      BY <1>2, <2>2, <2>3 DEF RoomInv, NoLostWakeup, Woken
    <2> QED
      BY <1>1, <2>3, <2>4 DEF RoomInv, NoLostWakeup, Woken
  <1>7. CASE BatchingTaskCallback
    <2>1. CASE UNCHANGED <<requests, putters, pc>>
      BY <1>1, <2>1, SameRoom DEF Woken
    <2>2. CASE requests' = <<>> /\ WakePutters(Len(requests))
      <3>1. /\ IsFiniteSet(Woken')
            /\ putters' # <<>> =>
                  /\ putters # <<>>
                  /\ Cardinality(Woken') = Cardinality(Woken) + Len(requests)
        BY <1>2, <2>2, WakePuttersCount DEF RoomInv
      <3>2. putters' # <<>> => Len(requests') + Cardinality(Woken') >= MaxBatchSize
        <4>1. Len(requests') = 0
          BY <2>2
        <4> QED
          BY <1>2, <3>1, <4>1 DEF RoomInv, NoLostWakeup, Woken
      <3> QED
        BY <1>1, <3>1, <3>2 DEF RoomInv, NoLostWakeup, Woken
    <2> QED
      BY <1>7, <2>1, <2>2 DEF BatchingTaskCallback, ClearQueue
  <1>8. CASE UNCHANGED <<pc, requests, putters>>
    BY <1>1, <1>8, SameRoom DEF Woken
  <1>9. CASE RunBatcher \/ AwaitRequest \/ CloseFullBatch \/ Timeout \/ FinishBatcher
    BY <1>8, <1>9 DEF RunBatcher, AwaitRequest, CloseFullBatch, Timeout, CloseBatch,
                      FinishBatcher
  <1>10. ASSUME NEW b \in inflight, PredictSucceeds(b) \/ PredictFails(b) PROVE RoomInv'
    BY <1>8, <1>10 DEF PredictSucceeds, PredictFails, PredictCallback
  <1>11. CASE UNCHANGED vars
    BY <1>8, <1>11 DEF vars
  <1> QED
    BY <1>3, <1>4, <1>5, <1>6, <1>7, <1>9, <1>10, <1>11 DEF Next, Batcher

\* A slot of the queue that a get, a client that leaves or _clear_queue frees always has
\* a client on its way to it, as long as one waits: none is left behind in the wait list
THEOREM RoomIsTaken == Spec => []NoLostWakeup
  <1>1. RoomInv => NoLostWakeup
    BY DEF RoomInv
  <1> QED
    BY <1>1, InitRoomInv, NextRoomInv, PTL DEF Spec

----------------------------------------------------------------------------
(* Arrival order, and what becomes of a request that leaves the queue, with   *)
(* all faults.  The registered responses are the record of who arrived when:  *)
(* a client is registered once, while it waits, and nobody whose future is    *)
(* pending is missing from them.                                              *)

PendingRegistered == \A r \in Requests : future[r] = "pending" => r \in ToSet(asyncResponses)

OrderInv == OnceInv /\ RegisteredInv /\ PendingRegistered /\ ArrivalOrder

\* Who is before whom, when an element is put at the end, or taken from the front or
\* from anywhere
LEMMA BeforeMembers ==
    ASSUME NEW s, NEW x, NEW y, Before(s, x, y)
    PROVE  x \in ToSet(s) /\ y \in ToSet(s)
  BY DEF Before, ToSet

LEMMA BeforeAppend ==
    ASSUME NEW S, NEW s \in Seq(S), NEW e \in S, NEW x, NEW y, Before(Append(s, e), x, y)
    PROVE  Before(s, x, y) \/ (y = e /\ x \in ToSet(s))
  <1> DEFINE t == Append(s, e)
  <1>1. /\ Len(t) = Len(s) + 1 /\ Len(s) \in Nat /\ t \in Seq(S)
        /\ \A i \in 1..Len(s) : t[i] = s[i]
        /\ t[Len(s) + 1] = e
    BY AppendProperties
  <1> HIDE DEF t
  <1>2. PICK i \in DOMAIN t, j \in DOMAIN t : i < j /\ t[i] = x /\ t[j] = y
    BY DEF Before, t
  <1>3. i \in 1..Len(s) /\ t[i] = s[i]
    BY <1>1, <1>2
  <1>4. CASE j = Len(s) + 1
    BY <1>1, <1>2, <1>3, <1>4 DEF ToSet
  <1>5. CASE j # Len(s) + 1
    <2>1. j \in 1..Len(s) /\ t[j] = s[j]
      BY <1>1, <1>2, <1>5
    <2> QED
      BY <1>1, <1>2, <1>3, <2>1 DEF Before
  <1> QED
    BY <1>4, <1>5

LEMMA BeforeTail ==
    ASSUME NEW S, NEW s \in Seq(S), s # <<>>
    PROVE  /\ \A x, y : Before(Tail(s), x, y) => Before(s, x, y)
           /\ \A y \in ToSet(Tail(s)) : Before(s, Head(s), y)
  <1> DEFINE t == Tail(s)
  <1>1. /\ t \in Seq(S) /\ Len(t) = Len(s) - 1 /\ Len(s) \in Nat \ {0}
        /\ \A i \in 1..Len(t) : t[i] = s[i + 1]
        /\ Head(s) = s[1]
    BY HeadTailProperties, EmptySeq
  <1> HIDE DEF t
  <1>2. ASSUME NEW x, NEW y, Before(t, x, y) PROVE Before(s, x, y)
    <2>1. PICK i \in DOMAIN t, j \in DOMAIN t : i < j /\ t[i] = x /\ t[j] = y
      BY <1>2 DEF Before
    <2>2. /\ i + 1 \in DOMAIN s /\ j + 1 \in DOMAIN s /\ i + 1 < j + 1
          /\ s[i + 1] = x /\ s[j + 1] = y
      BY <1>1, <2>1
    <2> QED
      BY <2>2 DEF Before
  <1>3. ASSUME NEW y \in ToSet(t) PROVE Before(s, Head(s), y)
    <2>1. PICK j \in DOMAIN t : t[j] = y
      BY DEF ToSet
    <2>2. 1 \in DOMAIN s /\ j + 1 \in DOMAIN s /\ 1 < j + 1 /\ s[j + 1] = y
      BY <1>1, <2>1
    <2> QED
      BY <1>1, <2>2 DEF Before
  <1> QED
    BY <1>2, <1>3 DEF t

LEMMA BeforeRemoveAt ==
    ASSUME NEW S, NEW s \in Seq(S), NEW n \in DOMAIN s, NEW x, NEW y,
           Before(RemoveAt(s, n), x, y)
    PROVE  Before(s, x, y)
  <1> DEFINE t == RemoveAt(s, n)
             at(m) == IF m < n THEN m ELSE m + 1
  <1>1. /\ t \in Seq(S) /\ Len(t) = Len(s) - 1 /\ Len(s) \in Nat /\ n \in 1..Len(s)
        /\ \A j \in 1..(Len(s) - 1) : t[j] = IF j < n THEN s[j] ELSE s[j + 1]
    BY RemoveAtProperties
  <1> HIDE DEF t
  <1>2. PICK i \in DOMAIN t, j \in DOMAIN t : i < j /\ t[i] = x /\ t[j] = y
    BY DEF Before, t
  <1>3. i \in 1..(Len(s) - 1) /\ j \in 1..(Len(s) - 1)
    BY <1>1, <1>2
  <1>4. at(i) \in DOMAIN s /\ at(j) \in DOMAIN s /\ at(i) < at(j)
    BY <1>1, <1>2, <1>3
  <1>5. s[at(i)] = x /\ s[at(j)] = y
    BY <1>1, <1>2, <1>3
  <1> HIDE DEF at
  <1> QED
    BY <1>4, <1>5 DEF Before

\* Whoever arrives comes after all who are registered, and is held behind them
LEMMA QueueRequestOrder ==
    ASSUME OrderInv, OnceInv', NEW r \in Requests, pc[r] \in {"idle", "woken"},
           QueueRequest(r)
    PROVE  OrderInv'
  <1>1. /\ requests \in Seq(Requests) /\ asyncResponses \in Seq(Requests)
        /\ pc \in [Requests -> {"idle", "putting", "woken", "waiting", "done"}]
        /\ future \in [Requests -> {"none", "pending", "result", "exception", "cancelled"}]
    BY DEF OrderInv, OnceInv, TypeInv, TypeOK
  <1>2. r \notin ToSet(asyncResponses) /\ ~Held(r)
    BY DEF OrderInv, OnceInv, RegisteredInv, HeldHaveEntered
  <1>3. ToSet(asyncResponses') = ToSet(asyncResponses) \cup {r} /\ IsInjective(asyncResponses')
    BY <1>1, <1>2, ToSetAppend DEF QueueRequest, OrderInv, RegisteredInv
  <1>4. ToSet(requests') = ToSet(requests) \cup {r}
    BY <1>1, ToSetAppend DEF QueueRequest
  <1>5. ToSet(asyncResponses) \subseteq Requests
    BY PlacesType DEF OrderInv, OnceInv
  <1>6. RegisteredInv'
    BY <1>1, <1>3, <1>5 DEF QueueRequest, OrderInv, RegisteredInv
  <1>7. PendingRegistered'
    BY <1>1, <1>3 DEF QueueRequest, OrderInv, PendingRegistered
  <1>8. ASSUME NEW x, NEW y, Before(requests', x, y)
        PROVE  Before(requests, x, y) \/ (y = r /\ x \in ToSet(requests))
    BY <1>1, <1>8, BeforeAppend DEF QueueRequest
  <1>9. ASSUME NEW q, NEW p, Before(asyncResponses', q, p)
        PROVE  Before(asyncResponses, q, p) \/ (p = r /\ q \in ToSet(asyncResponses))
    BY <1>1, <1>9, BeforeAppend DEF QueueRequest
  <1>10. \A s \in {requests, toBatch} \cup inflight : r \notin ToSet(s)
    BY <1>2 DEF Held
  <1>11. ASSUME NEW q \in ToSet(asyncResponses'), NEW p \in ToSet(asyncResponses'),
                Before(asyncResponses', q, p)
         PROVE  /\ p \in ToSet(toBatch) => q \notin ToSet(requests')
                /\ \A b \in inflight : p \in ToSet(b) =>
                        q \notin ToSet(requests') \cup ToSet(toBatch)
                /\ \A s \in {requests', toBatch} \cup inflight : ~Before(s, p, q)
    <2>1. CASE p = r /\ q \in ToSet(asyncResponses)
      <3>1. ~Before(requests', p, q)
        BY <1>2, <1>8, <1>10, <2>1, BeforeMembers
      <3>2. \A s \in {toBatch} \cup inflight : ~Before(s, p, q)
        BY <1>10, <2>1, BeforeMembers
      <3> QED
        BY <1>10, <2>1, <3>1, <3>2
    <2>2. CASE Before(asyncResponses, q, p)
      <3>1. q \in ToSet(asyncResponses) /\ p \in ToSet(asyncResponses)
        BY <2>2, BeforeMembers
      <3>2. /\ p \in ToSet(toBatch) => q \notin ToSet(requests)
            /\ \A b \in inflight : p \in ToSet(b) =>
                    q \notin ToSet(requests) \cup ToSet(toBatch)
            /\ \A s \in {requests, toBatch} \cup inflight : ~Before(s, p, q)
        BY <2>2, <3>1 DEF OrderInv, ArrivalOrder
      <3>3. q # r
        BY <1>2, <3>1
      <3>4. ~Before(requests', p, q)
        BY <1>8, <3>2, <3>3
      <3> QED
        BY <1>4, <3>2, <3>3, <3>4
    <2> QED
      BY <1>9, <1>11, <2>1, <2>2
  <1>12. ArrivalOrder'
    BY <1>11 DEF QueueRequest, ArrivalOrder
  <1> QED
    BY <1>6, <1>7, <1>12 DEF OrderInv

\* The oldest request of the queue becomes the newest of the batch
LEMMA GetRequestOrder ==
    ASSUME OrderInv, OnceInv', GetRequest
    PROVE  OrderInv'
  <1>1. requests \in Seq(Requests) /\ requests # <<>> /\ toBatch \in Seq(Requests)
    BY DEF OrderInv, OnceInv, TypeInv, TypeOK, GetRequest
  <1> DEFINE h == Head(requests)
  <1>2. h \in Requests /\ ToSet(requests) = ToSet(requests') \cup {h}
    BY <1>1, ToSetTail DEF GetRequest
  <1>3. /\ \A x, y : Before(requests', x, y) => Before(requests, x, y)
        /\ \A y \in ToSet(requests') : Before(requests, h, y)
    BY <1>1, BeforeTail DEF GetRequest
  <1> HIDE DEF h
  <1>4. ToSet(toBatch') = ToSet(toBatch) \cup {h}
    BY <1>1, <1>2, ToSetAppend DEF GetRequest, h
  <1>5. ASSUME NEW x, NEW y, Before(toBatch', x, y)
        PROVE  Before(toBatch, x, y) \/ (y = h /\ x \in ToSet(toBatch))
    BY <1>1, <1>2, <1>5, BeforeAppend DEF GetRequest, h
  <1>6. UNCHANGED <<asyncResponses, future, inflight>>
    BY DEF GetRequest
  <1>7. \A r \in Requests : pc[r] \in {"waiting", "done"} => pc'[r] = pc[r]
    BY WakePuttersOnce DEF GetRequest, OrderInv
  <1>8. RegisteredInv' /\ PendingRegistered'
    BY <1>6, <1>7, PlacesType DEF OrderInv, OnceInv, RegisteredInv, PendingRegistered
  <1>9. ASSUME NEW q \in ToSet(asyncResponses), NEW r \in ToSet(asyncResponses),
               Before(asyncResponses, q, r)
        PROVE  /\ r \in ToSet(toBatch') => q \notin ToSet(requests')
               /\ \A b \in inflight : r \in ToSet(b) =>
                       q \notin ToSet(requests') \cup ToSet(toBatch')
               /\ \A s \in {requests', toBatch'} \cup inflight : ~Before(s, r, q)
    <2>1. /\ r \in ToSet(toBatch) => q \notin ToSet(requests)
          /\ \A b \in inflight : r \in ToSet(b) =>
                  q \notin ToSet(requests) \cup ToSet(toBatch)
          /\ \A s \in {requests, toBatch} \cup inflight : ~Before(s, r, q)
      BY <1>9 DEF OrderInv, ArrivalOrder
    <2>2. r \in ToSet(toBatch') => q \notin ToSet(requests')
      BY <1>2, <1>3, <1>4, <2>1
    <2>3. ~Before(toBatch', r, q)
      BY <1>2, <1>5, <2>1
    <2>4. ~Before(requests', r, q)
      BY <1>3, <2>1
    <2> QED
      BY <1>2, <1>4, <2>1, <2>2, <2>3, <2>4
  <1>10. ArrivalOrder'
    BY <1>6, <1>9 DEF ArrivalOrder
  <1> QED
    BY <1>8, <1>10 DEF OrderInv

\* A batch that is handed over leaves nothing in front of what stays
LEMMA CloseBatchOrder ==
    ASSUME OrderInv, OnceInv', CloseBatch
    PROVE  OrderInv'
  <1>1. ToSet(toBatch') = {} /\ toBatch' = <<>>
    BY DEF CloseBatch, ToSet
  <1>2. /\ UNCHANGED <<pc, future, asyncResponses, requests>>
        /\ inflight' \in {inflight, inflight \cup {toBatch}}
    BY DEF CloseBatch, DispatchBatch, MergeFails
  <1>3. RegisteredInv' /\ PendingRegistered'
    BY <1>2 DEF OrderInv, RegisteredInv, PendingRegistered
  <1>4. \A x, y : ~Before(toBatch', x, y)
    BY <1>1, BeforeMembers
  <1>5. ArrivalOrder'
    BY <1>1, <1>2, <1>4 DEF OrderInv, ArrivalOrder
  <1> QED
    BY <1>3, <1>5 DEF OrderInv

\* A client that was answered, or left, is forgotten
LEMMA WaitResponseOrder ==
    ASSUME OrderInv, OnceInv', NEW r \in Requests, WaitResponse(r)
    PROVE  OrderInv'
  <1>1. /\ asyncResponses \in Seq(Requests) /\ future[r] # "pending"
        /\ pc \in [Requests -> {"idle", "putting", "woken", "waiting", "done"}]
        /\ pc' = [pc EXCEPT ![r] = "done"]
        /\ UNCHANGED <<future, requests, toBatch, inflight>>
    BY DEF OrderInv, OnceInv, TypeInv, TypeOK, WaitResponse, batcherVars
  <1>2. PICK n \in DOMAIN asyncResponses :
            asyncResponses[n] = r /\ asyncResponses' = RemoveAt(asyncResponses, n)
    BY DEF WaitResponse
  <1>3. /\ ToSet(asyncResponses') = ToSet(asyncResponses) \ {r}
        /\ IsInjective(asyncResponses')
    BY <1>1, <1>2, ToSetRemoveAt DEF OrderInv, RegisteredInv
  <1>4. RegisteredInv' /\ PendingRegistered'
    BY <1>1, <1>3, PlacesType
    DEF OrderInv, OnceInv, RegisteredInv, PendingRegistered
  <1>5. \A p, q : Before(asyncResponses', p, q) => Before(asyncResponses, p, q)
    BY <1>1, <1>2, BeforeRemoveAt
  <1>6. ArrivalOrder'
    BY <1>1, <1>3, <1>5 DEF OrderInv, ArrivalOrder
  <1> QED
    BY <1>4, <1>6 DEF OrderInv

\* Steps that change neither the responses nor what is held, or hold less
LEMMA SameOrder ==
    ASSUME OrderInv, OnceInv', UNCHANGED <<asyncResponses, requests, toBatch>>,
           inflight' \subseteq inflight,
           \A r \in Requests : pc[r] = "waiting" => pc'[r] = "waiting",
           \A r \in Requests : future'[r] = "pending" => future[r] = "pending"
    PROVE  OrderInv'
  <1>1. RegisteredInv' /\ PendingRegistered'
    BY PlacesType DEF OrderInv, OnceInv, RegisteredInv, PendingRegistered
  <1>2. ArrivalOrder'
    BY DEF OrderInv, ArrivalOrder
  <1> QED
    BY <1>1, <1>2 DEF OrderInv

LEMMA CancelOrder ==
    ASSUME OrderInv, OnceInv', NEW r \in Requests, Cancel(r)
    PROVE  OrderInv'
  <1>1. /\ pc \in [Requests -> {"idle", "putting", "woken", "waiting", "done"}]
        /\ future \in [Requests -> {"none", "pending", "result", "exception", "cancelled"}]
        /\ \A q \in FirstPutters(1) : pc[q] = "putting"
    BY DEF OrderInv, OnceInv, TypeInv, TypeOK, WaitListInv, FirstPutters, ToSet
  <1>2. /\ UNCHANGED <<asyncResponses, requests, toBatch, inflight>>
        /\ future' = [future EXCEPT ![r] = "cancelled"]
    BY DEF Cancel, CancelPut, CancelWoken, CancelWait, batcherVars
  <1>3. \A q \in Requests : pc[q] = "waiting" => pc'[q] = "waiting"
    BY <1>1 DEF Cancel, CancelPut, CancelWoken, CancelWait
  <1> QED
    BY <1>1, <1>2, <1>3, SameOrder

\* Futures are only ever settled by a callback, and the queue is emptied at most
LEMMA SettleOrder ==
    ASSUME NEW ids, SetException(ids)
    PROVE  \A r \in Requests : future'[r] = "pending" => future[r] = "pending"
  BY DEF SetException

LEMMA CallbackOrder ==
    ASSUME OrderInv, OnceInv', BatchingTaskCallback
    PROVE  OrderInv'
  <1>1. /\ UNCHANGED <<asyncResponses, toBatch, inflight>>
        /\ \A r \in Requests : future'[r] = "pending" => future[r] = "pending"
    BY SettleOrder DEF BatchingTaskCallback, ClearQueue
  <1>2. CASE UNCHANGED <<requests, putters, pc>>
    BY <1>1, <1>2, SameOrder
  <1>3. CASE requests' = <<>> /\ WakePutters(Len(requests))
    <2>1. Len(requests) \in Nat
      BY DEF OrderInv, OnceInv, TypeInv, TypeOK
    <2>2. \A r \in Requests : pc[r] \in {"waiting", "done"} => pc'[r] = pc[r]
      BY <1>3, <2>1, WakePuttersOnce DEF OrderInv
    <2>3. RegisteredInv' /\ PendingRegistered'
      BY <1>1, <2>2, PlacesType
      DEF OrderInv, OnceInv, RegisteredInv, PendingRegistered
    <2>4. ToSet(requests') = {}
      BY <1>3 DEF ToSet
    <2>5. \A x, y : ~Before(requests', x, y)
      BY <2>4, BeforeMembers
    <2>6. ArrivalOrder'
      BY <1>1, <2>4, <2>5 DEF OrderInv, ArrivalOrder
    <2> QED
      BY <2>3, <2>6 DEF OrderInv
  <1> QED
    BY <1>2, <1>3 DEF BatchingTaskCallback, ClearQueue

LEMMA InitOrderInv == Init => OrderInv
  <1> SUFFICES ASSUME Init PROVE OrderInv
    OBVIOUS
  <1>1. ToSet(<<>>) = {} /\ IsInjective(<<>>)
    BY DEF ToSet, IsInjective
  <1> QED
    BY <1>1, InitOnceInv
    DEF Init, OrderInv, RegisteredInv, PendingRegistered, ArrivalOrder

LEMMA NextOrderInv == OrderInv /\ [Next]_vars => OrderInv'
  <1> SUFFICES ASSUME OrderInv, [Next]_vars PROVE OrderInv'
    OBVIOUS
  <1>1. OnceInv'
    BY NextOnceInv DEF OrderInv
  <1>2. ASSUME NEW r \in Requests, Predict(r) \/ ResumePut(r) PROVE OrderInv'
    <2>1. CASE WaitForRoom(r)
      <3>1. /\ UNCHANGED <<asyncResponses, requests, toBatch, inflight, future>>
            /\ pc' = [pc EXCEPT ![r] = "putting"] /\ pc[r] # "waiting"
        BY <1>2, <2>1 DEF WaitForRoom, batcherVars, Predict, ResumePut
      <3>2. pc \in [Requests -> {"idle", "putting", "woken", "waiting", "done"}]
        BY DEF OrderInv, OnceInv, TypeInv, TypeOK
      <3>3. \A q \in Requests : pc[q] = "waiting" => pc'[q] = "waiting"
        BY <3>1, <3>2
      <3> QED
        BY <1>1, <3>1, <3>3, SameOrder
    <2>2. CASE QueueRequest(r)
      BY <1>1, <1>2, <2>2, QueueRequestOrder DEF Predict, ResumePut
    <2> QED
      BY <1>2, <2>1, <2>2 DEF Predict, ResumePut
  <1>3. ASSUME NEW r \in Requests, WaitResponse(r) PROVE OrderInv'
    BY <1>1, <1>3, WaitResponseOrder
  <1>4. ASSUME NEW r \in Requests, Cancel(r) PROVE OrderInv'
    BY <1>1, <1>4, CancelOrder
  <1>5. CASE TakeQueued \/ TakeAwaited
    BY <1>1, <1>5, GetRequestOrder DEF TakeQueued, TakeAwaited
  <1>6. CASE CloseFullBatch \/ Timeout
    BY <1>1, <1>6, CloseBatchOrder DEF CloseFullBatch, Timeout
  <1>7. CASE UNCHANGED <<pc, future, asyncResponses, requests, toBatch, inflight>>
    BY <1>1, <1>7, SameOrder
  <1>8. CASE RunBatcher \/ AwaitRequest \/ FinishBatcher \/ UNCHANGED vars
    BY <1>7, <1>8 DEF RunBatcher, AwaitRequest, FinishBatcher, vars
  <1>9. ASSUME NEW b \in inflight, PredictSucceeds(b) \/ PredictFails(b) PROVE OrderInv'
    <2>1. /\ inflight' \subseteq inflight /\ UNCHANGED <<pc, asyncResponses, requests, toBatch>>
          /\ \A r \in Requests : future'[r] = "pending" => future[r] = "pending"
      BY <1>9 DEF PredictSucceeds, PredictFails, PredictCallback
    <2> QED
      BY <1>1, <2>1, SameOrder
  <1>10. CASE BatchingTaskCallback
    BY <1>1, <1>10, CallbackOrder
  <1> QED
    BY <1>2, <1>3, <1>4, <1>5, <1>6, <1>8, <1>9, <1>10 DEF Next, Batcher

\* Over timeouts, restarts of the task, delayed putters and clients that leave, batches
\* are cut from the order of arrival
THEOREM ServedInOrder == Spec => []ArrivalOrder
  <1>1. OrderInv => ArrivalOrder
    BY DEF OrderInv
  <1> QED
    BY <1>1, InitOrderInv, NextOrderInv, PTL DEF Spec

\* A request leaves the queue for a batch, or with an answer: _clear_queue empties the
\* queue only when it could settle every registered future, and whoever is queued and
\* pending is registered
THEOREM ClearedMeansAnswered == Spec => DroppedMeansAnswered
  <1> DEFINE Kept == \A r \in ToSet(requests) :
                        r \in ToSet(requests' \o toBatch') \/ future'[r] # "pending"
  <1>1. OrderInv /\ OrderInv' /\ [Next]_vars => [Kept]_vars
    <2> SUFFICES ASSUME OrderInv, OrderInv', [Next]_vars PROVE Kept
      OBVIOUS
    <2>1. /\ requests \in Seq(Requests) /\ toBatch \in Seq(Requests)
          /\ requests' \in Seq(Requests) /\ toBatch' \in Seq(Requests)
      BY DEF OrderInv, OnceInv, TypeInv, TypeOK
    <2>2. ToSet(requests' \o toBatch') = ToSet(requests') \cup ToSet(toBatch')
      BY <2>1, ToSetConcat
    <2>3. ASSUME ToSet(requests) \subseteq ToSet(requests') \cup ToSet(toBatch') PROVE Kept
      BY <2>2, <2>3
    <2>4. ASSUME NEW r \in Requests, Predict(r) \/ ResumePut(r) PROVE Kept
      <3>1. requests' = requests \/ requests' = Append(requests, r)
        BY <2>4 DEF Predict, ResumePut, QueueRequest, WaitForRoom
      <3>2. ToSet(Append(requests, r)) = ToSet(requests) \cup {r}
        BY <2>1, ToSetAppend
      <3>3. ToSet(requests) \subseteq ToSet(requests')
        BY <3>1, <3>2
      <3> QED
        BY <2>3, <3>3
    <2>5. CASE TakeQueued \/ TakeAwaited
      <3>1. GetRequest
        BY <2>5 DEF TakeQueued, TakeAwaited
      <3>2. /\ requests # <<>> /\ Head(requests) \in Requests
            /\ ToSet(requests) = ToSet(requests') \cup {Head(requests)}
        BY <2>1, <3>1, ToSetTail DEF GetRequest
      <3>3. ToSet(toBatch') = ToSet(toBatch) \cup {Head(requests)}
        BY <2>1, <3>1, <3>2, ToSetAppend DEF GetRequest
      <3> QED
        BY <2>3, <3>2, <3>3
    <2>6. CASE BatchingTaskCallback
      <3>1. CASE requests' = requests
        BY <2>3, <3>1
      <3>2. CASE requests' # requests
        <4>1. /\ SetException(asyncResponses)
              /\ ToSet(asyncResponses) = SettledBy(asyncResponses)
          BY <2>6, <3>2 DEF BatchingTaskCallback, ClearQueue
        <4>2. \A r \in Requests : r \in ToSet(asyncResponses) => future'[r] = "exception"
          BY <4>1 DEF SetException
        <4>3. \A r \in Requests : future'[r] # "pending"
          BY <4>1, <4>2, SettleOrder DEF OrderInv, PendingRegistered
        <4>4. ToSet(requests) \subseteq Requests
          BY PlacesType DEF OrderInv, OnceInv
        <4> QED
          BY <4>3, <4>4
      <3> QED
        BY <3>1, <3>2
    <2>7. CASE requests' = requests
      BY <2>3, <2>7
    <2>8. \/ requests' = requests \/ TakeQueued \/ TakeAwaited \/ BatchingTaskCallback
          \/ \E r \in Requests : Predict(r) \/ ResumePut(r)
      BY DEF Next, vars, WaitResponse, Cancel, CancelPut, CancelWoken, CancelWait, Batcher,
             RunBatcher, AwaitRequest, CloseFullBatch, Timeout, CloseBatch, FinishBatcher,
             PredictSucceeds, PredictFails, PredictCallback
    <2> QED
      BY <2>4, <2>5, <2>6, <2>7, <2>8
  <1> QED
    BY <1>1, InitOrderInv, NextOrderInv, PTL DEF Spec, DroppedMeansAnswered
----------------------------------------------------------------------------
(* The batcher implements BatchedInference, step by step, whatever is cancelled *)
(* or raises; that every request is answered in the end is left to TLC.  A step *)
(* of the service is an arrival, the end of a batch, a client that leaves, or   *)
(* _clear_queue; everything else is invisible to it.  A request that was left   *)
(* out is held nowhere, so that no later batch settles it.                      *)

NotYetAsked == \A r \in Requests : pc[r] \in {"idle", "putting", "woken"} => future[r] = "none"

LeftBehind == \A r \in leftOut : pc[r] \in {"waiting", "done"} /\ ~Held(r)

FailedByMerge == failed => ~Merges

ServiceInv ==
    /\ OrderInv /\ NotYetAsked /\ LeftBehind /\ FailedByMerge
    /\ Undisturbed => HeldInv

LEMMA ServiceTypes ==
    ASSUME ServiceInv
    PROVE  /\ pc \in [Requests -> {"idle", "putting", "woken", "waiting", "done"}]
           /\ future \in [Requests -> {"none", "pending", "result", "exception", "cancelled"}]
           /\ leftOut \subseteq Requests
           /\ TypeOK /\ TypeInv /\ OnceInv
  BY DEF ServiceInv, OrderInv, OnceInv, TypeInv, TypeOK

\* A request whose future can be settled waits, and the service has accepted it
LEMMA OpenAccepted ==
    ASSUME ServiceInv, NEW r \in Requests, Open(r)
    PROVE  /\ pc[r] = "waiting" /\ future[r] = "pending"
           /\ clientStatus[r] \in {"accepted", "unanswered"}
           /\ r \notin leftOut => clientStatus[r] = "accepted"
  <1>1. pc[r] = "waiting" /\ future[r] = "pending"
    BY DEF ServiceInv, OrderInv, RegisteredInv, Open
  <1> QED
    BY <1>1 DEF clientStatus

\* Steps that the clients do not see
LEMMA SameStatus ==
    ASSUME leftOut' = leftOut,
           \A r \in Requests : pc'[r] = "idle" <=> pc[r] = "idle",
           \A r \in Requests : \/ future'[r] = future[r]
                               \/ {future[r], future'[r]} \subseteq {"none", "pending"}
    PROVE  clientStatus' = clientStatus
  <1>1. ASSUME NEW r \in Requests
        PROVE  /\ pc'[r] = "idle" <=> pc[r] = "idle"
               /\ future'[r] = future[r] \/ {future[r], future'[r]} \subseteq {"none", "pending"}
    OBVIOUS
  <1>2. \A r \in Requests :
            (IF pc'[r] = "idle" THEN "idle"
             ELSE IF future'[r] \notin {"none", "pending"} THEN future'[r]
             ELSE IF r \in leftOut' THEN "unanswered" ELSE "accepted")
          = (IF pc[r] = "idle" THEN "idle"
             ELSE IF future[r] \notin {"none", "pending"} THEN future[r]
             ELSE IF r \in leftOut THEN "unanswered" ELSE "accepted")
    BY <1>1
  <1> QED
    BY <1>2 DEF clientStatus

\* A wakeup is invisible, and reaches only clients that have no future yet
LEMMA WakePuttersService ==
    ASSUME ServiceInv, NEW n \in Nat, WakePutters(n)
    PROVE  \A r \in Requests :
              /\ pc'[r] = "idle" <=> pc[r] = "idle"
              /\ pc'[r] \in {"idle", "putting", "woken"} =>
                     pc[r] \in {"idle", "putting", "woken"}
              /\ pc[r] \in {"waiting", "done"} => pc'[r] = pc[r]
  <1>1. \A r \in FirstPutters(n) : pc[r] = "putting"
    BY ServiceTypes DEF OnceInv, WaitListInv, FirstPutters, ToSet
  <1> QED
    BY <1>1, ServiceTypes DEF WakePutters

\* What a step does to those that were left behind when nobody enters the queue
LEMMA SameLeft ==
    ASSUME ServiceInv, leftOut' = leftOut, UNCHANGED faults, failed' => failed,
           \A r \in Requests : pc[r] \in {"waiting", "done"} => pc'[r] \in {"waiting", "done"},
           \A r \in Requests : Held(r)' => Held(r)
    PROVE  LeftBehind' /\ FailedByMerge'
  <1>1. leftOut \subseteq Requests
    BY ServiceTypes
  <1> QED
    BY <1>1 DEF ServiceInv, LeftBehind, FailedByMerge, Merges

\* A request that arrives, or comes back for room, waits for room or for its future
LEMMA PutService ==
    ASSUME ServiceInv, NEW r \in Requests, pc[r] \in {"idle", "woken"},
           \/ WaitForRoom(r)
           \/ QueueRequest(r) /\ UNCHANGED putters
    PROVE  /\ NotYetAsked' /\ LeftBehind' /\ FailedByMerge'
           /\ leftOut' = leftOut /\ r \notin leftOut
           /\ pc'[r] # "idle" /\ {future[r], future'[r]} \subseteq {"none", "pending"}
           /\ \A q \in Requests : q # r => pc'[q] = pc[q] /\ future'[q] = future[q]
  <1>1. /\ pc \in [Requests -> {"idle", "putting", "woken", "waiting", "done"}]
        /\ future \in [Requests -> {"none", "pending", "result", "exception", "cancelled"}]
        /\ future[r] = "none" /\ requests \in Seq(Requests)
    BY ServiceTypes DEF ServiceInv, NotYetAsked, TypeOK
  <1>2. /\ pc'[r] \in {"putting", "waiting"}
        /\ pc'[r] = "putting" => future'[r] = "none"
        /\ future'[r] \in {"none", "pending"}
        /\ \A q \in Requests : q # r => pc'[q] = pc[q] /\ future'[q] = future[q]
        /\ UNCHANGED <<leftOut, toBatch, inflight, failed, faults>>
        /\ (requests' = requests \/ requests' = Append(requests, r))
    BY <1>1 DEF WaitForRoom, QueueRequest, batcherVars
  <1>3. \A q \in Requests : pc'[q] \in {"idle", "putting", "woken"} => future'[q] = "none"
    BY <1>2 DEF ServiceInv, NotYetAsked
  <1>4. r \notin leftOut
    BY DEF ServiceInv, LeftBehind
  <1>5. ToSet(requests') \subseteq ToSet(requests) \cup {r}
    <2>1. ToSet(Append(requests, r)) = ToSet(requests) \cup {r}
      BY <1>1, ToSetAppend
    <2> QED
      BY <1>2, <2>1
  <1>6. LeftBehind'
    <2>1. SUFFICES ASSUME NEW q \in leftOut
                   PROVE  pc'[q] \in {"waiting", "done"} /\ ~Held(q)'
      BY <1>2 DEF LeftBehind
    <2>2. q # r /\ q \in Requests /\ pc[q] \in {"waiting", "done"} /\ ~Held(q)
      BY <1>4, ServiceTypes DEF ServiceInv, LeftBehind
    <2> QED
      BY <1>2, <1>5, <2>2 DEF Held
  <1>7. FailedByMerge'
    BY <1>2 DEF ServiceInv, FailedByMerge, Merges
  <1> QED
    BY <1>1, <1>2, <1>3, <1>4, <1>6, <1>7 DEF NotYetAsked

\* A batch that comes back: those it settles or leaves out share its fate
LEMMA ReturnedService ==
    ASSUME ServiceInv, NEW b \in inflight, PredictSucceeds(b) \/ PredictFails(b)
    PROVE  NotYetAsked' /\ LeftBehind' /\ FailedByMerge' /\ [Service!Next]_clientStatus
  <1>1. PICK answered, blamed, left : Returned(b, answered, blamed, left)
    BY PredictReturns, ServiceTypes
  <1>2. /\ PredictCallback(b, answered, blamed) /\ leftOut' = leftOut \cup left
        /\ left \subseteq ToSet(b) /\ ("omit" \in faults \/ left = {})
        /\ \A r \in answered \cup blamed : r \in ToSet(b) /\ Open(r)
    BY <1>1 DEF Returned
  <1>3. /\ pc' = pc /\ UNCHANGED <<requests, toBatch, failed, faults>> /\ inflight' = inflight \ {b}
        /\ \A r \in Requests : future'[r] = IF r \in answered THEN "result"
                                          ELSE IF r \in blamed THEN "exception" ELSE future[r]
    BY <1>2 DEF PredictCallback
  <1>4. /\ b \in Seq(Requests) /\ Len(b) \in 1..MaxBatchSize /\ ToSet(b) \subseteq Requests
        /\ IsInjective(b)
    BY PlacesType, ServiceTypes DEF OnceInv, TypeInv, TypeOK, BatchesOnce
  <1>5. \A r \in ToSet(b) : pc[r] \in {"waiting", "done"} /\ r \notin leftOut
    BY <1>4, ServiceTypes DEF ServiceInv, OnceInv, HeldHaveEntered, LeftBehind, Held
  <1>6. \A r \in answered \cup blamed :
            pc[r] = "waiting" /\ future[r] = "pending" /\ clientStatus[r] = "accepted"
    BY <1>2, <1>4, <1>5, OpenAccepted
  <1>7. NotYetAsked'
    <2>1. \A q \in Requests : pc[q] \in {"idle", "putting", "woken"} =>
                                  q \notin answered \cup blamed
      BY <1>6
    <2> QED
      BY <1>3, <2>1 DEF ServiceInv, NotYetAsked
  <1>8. LeftBehind'
    <2>1. SUFFICES ASSUME NEW q \in leftOut \cup left
                   PROVE  pc[q] \in {"waiting", "done"} /\ ~Held(q)'
      BY <1>2, <1>3 DEF LeftBehind
    <2>2. CASE q \in leftOut
      BY <1>3, <2>2 DEF ServiceInv, LeftBehind, Held
    <2>3. CASE q \in left
      <3>1. q \in ToSet(b)
        BY <1>2, <2>3
      <3>2. ~Held(q)'
        BY <1>3, <3>1, ServiceTypes DEF OnceInv, PlacesInv, Held
      <3> QED
        BY <1>5, <3>1, <3>2
    <2> QED
      BY <2>1, <2>2, <2>3
  <1>9. FailedByMerge'
    BY <1>3 DEF ServiceInv, FailedByMerge, Merges
  <1> DEFINE batch == {r \in ToSet(b) : clientStatus[r] = "accepted"
                                         /\ r \in answered \cup blamed \cup left}
             outcome == [r \in batch |-> IF r \in answered THEN "result"
                                         ELSE IF r \in blamed THEN "exception"
                                         ELSE "unanswered"]
  <1>10. clientStatus' =
            [r \in Requests |-> IF r \in batch THEN outcome[r] ELSE clientStatus[r]]
    <2>1. ASSUME NEW r \in Requests
          PROVE  clientStatus'[r] = IF r \in batch THEN outcome[r] ELSE clientStatus[r]
      <3>1. clientStatus'[r] = IF pc[r] = "idle" THEN "idle"
                               ELSE IF future'[r] \notin {"none", "pending"} THEN future'[r]
                               ELSE IF r \in leftOut \cup left THEN "unanswered" ELSE "accepted"
        BY <1>2, <1>3 DEF clientStatus
      <3>2. clientStatus[r] = IF pc[r] = "idle" THEN "idle"
                              ELSE IF future[r] \notin {"none", "pending"} THEN future[r]
                              ELSE IF r \in leftOut THEN "unanswered" ELSE "accepted"
        BY DEF clientStatus
      <3>3. CASE r \in answered \cup blamed
        BY <1>2, <1>3, <1>6, <3>1, <3>3
      <3>4. CASE r \notin answered \cup blamed /\ r \in left
        <4>1. r \in ToSet(b) /\ pc[r] # "idle" /\ r \notin leftOut /\ future'[r] = future[r]
          BY <1>2, <1>3, <1>5, <3>4
        <4>2. future[r] \in {"none", "pending", "result", "exception", "cancelled"}
          BY ServiceTypes
        <4>3. CASE future[r] \in {"none", "pending"}
          BY <3>1, <3>2, <3>4, <4>1, <4>3
        <4>4. CASE future[r] \in {"result", "exception", "cancelled"}
          BY <3>1, <3>2, <3>4, <4>1, <4>4
        <4> QED
          BY <4>2, <4>3, <4>4
      <3>5. CASE r \notin answered \cup blamed \cup left
        BY <1>3, <3>1, <3>2, <3>5
      <3> QED
        BY <3>3, <3>4, <3>5
    <2> QED
      BY <2>1 DEF clientStatus
  <1>11. CASE batch = {}
    <2>1. clientStatus' = clientStatus
      BY <1>10, <1>11 DEF clientStatus
    <2> QED
      BY <1>7, <1>8, <1>9, <2>1
  <1>12. CASE batch # {}
    <2>1. IsFiniteSet(ToSet(b)) /\ Cardinality(ToSet(b)) <= MaxBatchSize
      BY <1>4, CountAll, BatchSizeAssumption
    <2>2. Cardinality(batch) <= MaxBatchSize
      <3>1. Cardinality(batch) <= Cardinality(ToSet(b)) /\ IsFiniteSet(batch)
        BY <2>1, FS_Subset
      <3>2. Cardinality(batch) \in Nat /\ Cardinality(ToSet(b)) \in Nat
        BY <2>1, <3>1, FS_CardinalityType
      <3> QED
        BY <2>1, <3>1, <3>2, BatchSizeAssumption
    <2>3. outcome \in [batch -> {"result", "exception", "unanswered"}] /\ DOMAIN outcome = batch
      OBVIOUS
    <2>4. "omit" \in faults \/ \A r \in batch : outcome[r] # "unanswered"
      BY <1>2
    <2>5. ASSUME Undisturbed
          PROVE  \/ \A r \in batch : outcome[r] # "exception"
                 \/ "predict" \in faults /\ \A r \in batch : outcome[r] = "exception"
      <3>1. \A r \in ToSet(b) : Open(r)
        BY <1>4, <2>5 DEF ServiceInv, HeldInv, HeldAreOpen, Held
      <3>2. \/ answered = ToSet(b) \ left /\ blamed = {}
            \/ answered = {} /\ left = {} /\ blamed = ToSet(b) /\ "predict" \in faults
        BY <1>1, <3>1 DEF Returned
      <3> QED
        BY <3>2
    <2>6. Undisturbed <=> Service!Undisturbed
      BY DEF Undisturbed, Merges, Service!Undisturbed
    <2> HIDE DEF outcome
    <2>7. Service!SharedFate(outcome)
      BY <2>3, <2>4, <2>5, <2>6 DEF Service!SharedFate
    <2>8. Service!Cardinality(batch) = Cardinality(batch)
      BY DEF Service!Cardinality, Cardinality
    <2>9. batch \subseteq Requests /\ \A r \in batch : clientStatus[r] = "accepted"
      BY <1>4
    <2> HIDE DEF batch
    <2>10. Service!Answer(batch)
      BY <1>10, <1>12, <2>2, <2>3, <2>7, <2>8, <2>9 DEF Service!Answer
    <2> QED
      BY <1>7, <1>8, <1>9, <2>9, <2>10 DEF Service!Next
  <1> QED
    BY <1>11, <1>12

\* A client that leaves is gone for the service, wherever it was
LEMMA CancelService ==
    ASSUME ServiceInv, NEW r \in Requests, Cancel(r)
    PROVE  NotYetAsked' /\ LeftBehind' /\ FailedByMerge' /\ [Service!Next]_clientStatus
  <1>1. /\ pc \in [Requests -> {"idle", "putting", "woken", "waiting", "done"}]
        /\ future \in [Requests -> {"none", "pending", "result", "exception", "cancelled"}]
        /\ \A q \in FirstPutters(1) : pc[q] = "putting"
    BY ServiceTypes DEF OnceInv, WaitListInv, FirstPutters, ToSet
  <1>2. /\ UNCHANGED <<leftOut, failed, faults, requests, toBatch, inflight>>
        /\ "cancel" \in faults
        /\ future' = [future EXCEPT ![r] = "cancelled"]
    BY DEF Cancel, CancelPut, CancelWoken, CancelWait, batcherVars
  <1>3. /\ pc[r] # "idle" /\ pc'[r] \in {"waiting", "done"}
        /\ \A q \in Requests :
              /\ pc'[q] = "idle" <=> pc[q] = "idle"
              /\ pc'[q] \in {"idle", "putting", "woken"} => pc[q] \in {"idle", "putting", "woken"}
              /\ pc[q] \in {"waiting", "done"} => pc'[q] \in {"waiting", "done"}
    BY <1>1 DEF Cancel, CancelPut, CancelWoken, CancelWait
  <1>4. NotYetAsked'
    BY <1>1, <1>2, <1>3 DEF ServiceInv, NotYetAsked
  <1>5. LeftBehind' /\ FailedByMerge'
    <2>1. \A q \in Requests : Held(q)' => Held(q)
      BY <1>2 DEF Held
    <2> QED
      BY <1>2, <1>3, <2>1, SameLeft
  <1>6. clientStatus' = [clientStatus EXCEPT ![r] = "cancelled"]
    BY <1>1, <1>2, <1>3 DEF clientStatus
  <1>7. clientStatus[r] # "idle"
    <2>1. future[r] # "idle"
      BY <1>1
    <2> QED
      BY <1>3, <2>1 DEF clientStatus
  <1> QED
    BY <1>2, <1>4, <1>5, <1>6, <1>7 DEF Service!Next, Service!Leave

\* The exception of a batch that could not be built reaches whoever is still open
LEMMA CallbackService ==
    ASSUME ServiceInv, BatchingTaskCallback
    PROVE  NotYetAsked' /\ LeftBehind' /\ FailedByMerge' /\ [Service!Next]_clientStatus
  <1>1. /\ SetException(asyncResponses) /\ ~Merges /\ failed' = FALSE
        /\ UNCHANGED <<leftOut, faults, toBatch, inflight>>
        /\ \/ requests' = <<>> /\ WakePutters(Len(requests))
           \/ UNCHANGED <<requests, pc>>
    BY DEF BatchingTaskCallback, ClearQueue, ServiceInv, FailedByMerge
  <1>2. asyncResponses \in Seq(Requests) /\ Len(asyncResponses) \in Nat /\ Len(requests) \in Nat
    BY ServiceTypes DEF TypeOK
  <1> DEFINE clients == SettledBy(asyncResponses)
  <1>3. clients \subseteq Requests /\ \A r \in clients : Open(r)
    <2>1. DOMAIN asyncResponses = 1..Len(asyncResponses)
      BY <1>2
    <2>2. clients \subseteq ToSet(asyncResponses) /\ \A r \in clients : Open(r)
      BY <1>2, <2>1, SettledOpen
    <2> QED
      BY <2>2, PlacesType, ServiceTypes
  <1>4. \A r \in Requests : future'[r] = IF r \in clients THEN "exception" ELSE future[r]
    BY <1>1 DEF SetException
  <1> HIDE DEF clients
  <1>5. \A r \in clients : pc[r] = "waiting" /\ clientStatus[r] \in {"accepted", "unanswered"}
    BY <1>3, OpenAccepted
  <1>6. \A r \in Requests :
          /\ pc'[r] = "idle" <=> pc[r] = "idle"
          /\ pc'[r] \in {"idle", "putting", "woken"} => pc[r] \in {"idle", "putting", "woken"}
          /\ pc[r] \in {"waiting", "done"} => pc'[r] = pc[r]
    BY <1>1, <1>2, WakePuttersService
  <1>7. NotYetAsked'
    BY <1>4, <1>5, <1>6 DEF ServiceInv, NotYetAsked
  <1>8. LeftBehind' /\ FailedByMerge'
    <2>1. ToSet(<<>>) = {}
      BY DEF ToSet
    <2>2. \A q \in Requests : Held(q)' => Held(q)
      BY <1>1, <2>1 DEF Held
    <2> QED
      BY <1>1, <1>6, <2>2, SameLeft
  <1>9. clientStatus' =
            [r \in Requests |-> IF r \in clients THEN "exception" ELSE clientStatus[r]]
    BY <1>1, <1>4, <1>5, <1>6 DEF clientStatus
  <1>10. Service!FailAll(clients)
    BY <1>1, <1>5, <1>9 DEF Service!FailAll, Merges
  <1> QED
    BY <1>3, <1>7, <1>8, <1>10 DEF Service!Next

\* What a step is to the service
LEMMA NextService ==
    ASSUME ServiceInv, [Next]_vars
    PROVE  NotYetAsked' /\ LeftBehind' /\ FailedByMerge' /\ [Service!Next]_clientStatus
  <1>1. faults' = faults
    BY FaultsFixed
  <1>2. /\ pc \in [Requests -> {"idle", "putting", "woken", "waiting", "done"}]
        /\ future \in [Requests -> {"none", "pending", "result", "exception", "cancelled"}]
        /\ requests \in Seq(Requests) /\ toBatch \in Seq(Requests)
    BY ServiceTypes DEF TypeOK
  <1>3. ASSUME future' = future, leftOut' = leftOut, failed' => failed \/ ~Merges,
               \A r \in Requests : pc'[r] = "idle" <=> pc[r] = "idle",
               \A r \in Requests : pc'[r] \in {"idle", "putting", "woken"} =>
                                       pc[r] \in {"idle", "putting", "woken"},
               \A r \in Requests : pc[r] \in {"waiting", "done"} => pc'[r] \in {"waiting", "done"},
               \A r \in Requests : Held(r)' => Held(r)
        PROVE  NotYetAsked' /\ LeftBehind' /\ FailedByMerge' /\ [Service!Next]_clientStatus
    <2>1. clientStatus' = clientStatus
      BY <1>3, SameStatus
    <2>2. NotYetAsked'
      BY <1>3 DEF ServiceInv, NotYetAsked
    <2>3. LeftBehind'
      BY <1>3, ServiceTypes DEF ServiceInv, LeftBehind
    <2>4. FailedByMerge'
      BY <1>1, <1>3 DEF ServiceInv, FailedByMerge, Merges
    <2> QED
      BY <2>1, <2>2, <2>3, <2>4
  <1>4. ASSUME NEW r \in Requests, Predict(r)
        PROVE  NotYetAsked' /\ LeftBehind' /\ FailedByMerge' /\ [Service!Next]_clientStatus
    <2>1. /\ pc[r] = "idle" /\ NotYetAsked' /\ LeftBehind' /\ FailedByMerge'
          /\ leftOut' = leftOut /\ r \notin leftOut
          /\ pc'[r] # "idle" /\ {future[r], future'[r]} \subseteq {"none", "pending"}
          /\ \A q \in Requests : q # r => pc'[q] = pc[q] /\ future'[q] = future[q]
      BY <1>4, PutService DEF Predict
    <2>2. clientStatus[r] = "idle"
      BY <2>1 DEF clientStatus
    <2>3. clientStatus' = [clientStatus EXCEPT ![r] = "accepted"]
      BY <2>1 DEF clientStatus
    <2> QED
      BY <2>1, <2>2, <2>3 DEF Service!Next, Service!Accept
  <1>5. ASSUME NEW r \in Requests, ResumePut(r)
        PROVE  NotYetAsked' /\ LeftBehind' /\ FailedByMerge' /\ [Service!Next]_clientStatus
    <2>1. /\ pc[r] = "woken" /\ NotYetAsked' /\ LeftBehind' /\ FailedByMerge'
          /\ leftOut' = leftOut
          /\ pc'[r] # "idle" /\ {future[r], future'[r]} \subseteq {"none", "pending"}
          /\ \A q \in Requests : q # r => pc'[q] = pc[q] /\ future'[q] = future[q]
      BY <1>5, PutService DEF ResumePut
    <2>2. clientStatus' = clientStatus
      <3>1. \A q \in Requests : pc'[q] = "idle" <=> pc[q] = "idle"
        BY <2>1
      <3>2. \A q \in Requests : \/ future'[q] = future[q]
                                \/ {future[q], future'[q]} \subseteq {"none", "pending"}
        BY <2>1
      <3> QED
        BY <2>1, <3>1, <3>2, SameStatus
    <2> QED
      BY <2>1, <2>2
  <1>6. ASSUME NEW r \in Requests, WaitResponse(r)
        PROVE  NotYetAsked' /\ LeftBehind' /\ FailedByMerge' /\ [Service!Next]_clientStatus
    <2>1. /\ pc[r] = "waiting" /\ pc' = [pc EXCEPT ![r] = "done"]
          /\ UNCHANGED <<future, leftOut, failed, requests, toBatch, inflight>>
      BY <1>6 DEF WaitResponse, batcherVars
    <2>2. \A q \in Requests : pc'[q] = pc[q] \/ (pc'[q] = "done" /\ pc[q] = "waiting")
      BY <1>2, <2>1
    <2>3. \A q \in Requests : Held(q)' => Held(q)
      BY <2>1 DEF Held
    <2> QED
      BY <1>3, <2>1, <2>2, <2>3
  <1>7. ASSUME NEW r \in Requests, Cancel(r)
        PROVE  NotYetAsked' /\ LeftBehind' /\ FailedByMerge' /\ [Service!Next]_clientStatus
    BY <1>7, CancelService
  <1>8. CASE TakeQueued \/ TakeAwaited
    <2>1. /\ UNCHANGED <<future, leftOut, failed, inflight>> /\ WakePutters(1) /\ GetRequest
      BY <1>8 DEF TakeQueued, TakeAwaited, GetRequest
    <2>2. /\ ToSet(requests) = ToSet(requests') \cup {Head(requests)}
          /\ ToSet(toBatch') = ToSet(toBatch) \cup {Head(requests)}
      BY <1>2, <2>1, ToSetTail, ToSetAppend DEF GetRequest
    <2>3. \A q \in Requests : Held(q)' => Held(q)
      BY <2>1, <2>2 DEF Held
    <2>4. \A r \in Requests :
              /\ pc'[r] = "idle" <=> pc[r] = "idle"
              /\ pc'[r] \in {"idle", "putting", "woken"} => pc[r] \in {"idle", "putting", "woken"}
              /\ pc[r] \in {"waiting", "done"} => pc'[r] = pc[r]
      BY <2>1, WakePuttersService
    <2> QED
      BY <1>3, <2>1, <2>3, <2>4
  <1>9. CASE CloseFullBatch \/ Timeout
    <2>1. /\ UNCHANGED <<pc, future, leftOut, requests>>
          /\ toBatch' = <<>> /\ inflight' \subseteq inflight \cup {toBatch}
          /\ failed' => failed \/ ~Merges
      BY <1>9 DEF CloseFullBatch, Timeout, CloseBatch, DispatchBatch, MergeFails, Merges
    <2>2. ToSet(<<>>) = {}
      BY DEF ToSet
    <2>3. \A q \in Requests : Held(q)' => Held(q)
      BY <2>1, <2>2 DEF Held
    <2> QED
      BY <1>3, <2>1, <2>3
  <1>10. CASE RunBatcher \/ AwaitRequest \/ FinishBatcher \/ UNCHANGED vars
    <2>1. UNCHANGED <<pc, future, leftOut, failed, requests, toBatch, inflight>>
      BY <1>10 DEF RunBatcher, AwaitRequest, FinishBatcher, vars
    <2>2. \A q \in Requests : Held(q)' => Held(q)
      BY <2>1 DEF Held
    <2> QED
      BY <1>3, <2>1, <2>2
  <1>11. ASSUME NEW b \in inflight, PredictSucceeds(b) \/ PredictFails(b)
         PROVE  NotYetAsked' /\ LeftBehind' /\ FailedByMerge' /\ [Service!Next]_clientStatus
    BY <1>11, ReturnedService
  <1>12. CASE BatchingTaskCallback
    BY <1>12, CallbackService
  <1> QED
    BY <1>4, <1>5, <1>6, <1>7, <1>8, <1>9, <1>10, <1>11, <1>12 DEF Next, Batcher

\* Nobody is settled unasked, no outcome turns into another, and the outcomes of a batch
\* belong to at most max_batch_size clients: the batcher's queue, timer and tasks are a
\* batching service as its clients may expect it, whatever they cancel and whatever raises
THEOREM ImplementsServiceSteps == Spec => Service!Safety
  <1>1. Init => ServiceInv /\ Service!Init
    <2> SUFFICES ASSUME Init PROVE ServiceInv /\ Service!Init
      OBVIOUS
    <2>1. ServiceInv
      BY InitHeldInv, InitOrderInv
      DEF Init, ServiceInv, NotYetAsked, LeftBehind, FailedByMerge
    <2>2. clientStatus = [r \in Requests |-> "idle"]
      BY DEF Init, clientStatus
    <2> QED
      BY <2>1, <2>2 DEF Service!Init
  <1>2. ServiceInv /\ [Next]_vars => ServiceInv' /\ [Service!Next]_clientStatus
    <2> SUFFICES ASSUME ServiceInv, [Next]_vars
                 PROVE  ServiceInv' /\ [Service!Next]_clientStatus
      OBVIOUS
    <2>1. NotYetAsked' /\ LeftBehind' /\ FailedByMerge' /\ [Service!Next]_clientStatus
      BY NextService
    <2>2. OrderInv'
      BY NextOrderInv DEF ServiceInv
    <2>3. Undisturbed' => HeldInv'
      BY NextHeldInv, FaultsFixed DEF ServiceInv, Undisturbed, Merges
    <2> QED
      BY <2>1, <2>2, <2>3 DEF ServiceInv
  <1> QED
    BY <1>1, <1>2, PTL DEF Spec, Service!Safety

----------------------------------------------------------------------------
(* The clock of the same loop                                                 *)

CONSTANTS MaxBatchTime, LastTick
VARIABLES now, queued, taken, mode, start, timeout, deadline

Window == INSTANCE BatchWindow

\* What is left of the timeout never reaches beyond the window that was opened at start
WindowInv ==
    /\ Window!WindowAssumption /\ Window!TypeOK
    /\ mode # "idle" => now >= start /\ now <= start + MaxBatchTime
    /\ mode = "running" => timeout <= MaxBatchTime - (now - start)
    /\ mode = "waiting" => /\ taken < MaxBatchSize
                           /\ timeout <= MaxBatchTime
                           /\ deadline <= start + MaxBatchTime

\* The invariant holds before the first request, and every step keeps it
LEMMA WindowInit == Window!WindowAssumption /\ Window!Init => WindowInv
  BY DEF Window!WindowAssumption, Window!Init, WindowInv, Window!TypeOK

\* An open batch only loses time
LEMMA WindowStep == WindowInv /\ [Window!Next]_(Window!vars) => WindowInv'
  <1> SUFFICES ASSUME WindowInv, [Window!Next]_(Window!vars)
               PROVE  WindowInv'
    OBVIOUS
  <1> USE DEF Window!WindowAssumption, WindowInv, Window!TypeOK
  <1>1. CASE Window!Arrive
    BY <1>1 DEF Window!Arrive
  <1>2. CASE Window!OpenBatch
    BY <1>2 DEF Window!OpenBatch
  <1>3. CASE Window!Take
    BY <1>3 DEF Window!Take, Window!UpdateRemaining
  <1>4. CASE Window!Await
    BY <1>4 DEF Window!Await
  <1>5. CASE Window!CloseFullBatch
    BY <1>5 DEF Window!CloseFullBatch
  <1>6. CASE Window!Timeout
    BY <1>6 DEF Window!Timeout
  <1>7. CASE Window!Tick
    BY <1>7 DEF Window!Tick
  <1>8. CASE UNCHANGED Window!vars
    BY <1>8 DEF Window!vars
  <1> QED
    BY <1>1, <1>2, <1>3, <1>4, <1>5, <1>6, <1>7, <1>8 DEF Window!Next

\* No batch waits longer than max_batch_time, for every size, window and clock
THEOREM WindowBounded == Window!WindowAssumption /\ Window!Spec => []Window!NeverLate
  <1>1. WindowInv => Window!NeverLate
    BY DEF Window!WindowAssumption, WindowInv, Window!TypeOK, Window!NeverLate
  <1> QED
    BY <1>1, WindowInit, WindowStep, PTL DEF Window!Spec
=============================================================================
