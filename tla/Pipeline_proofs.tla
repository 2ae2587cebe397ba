-------------------------- MODULE Pipeline_proofs --------------------------
(* For every number of requests and of stages, every limit and every size of the   *)
(* batches: the drop limit of the pipeline is kept (DropLimitKept), the times of a *)
(* request survive their way (TimesSurvive) and are its own (OwnTimes).  A batch   *)
(* that is dropped shows its late request for good only because nobody else drops  *)
(* or serves one of its requests, which PlaceInv says; what a request knows after  *)
(* each stage, and what a batch carries for it meanwhile, is TimesInv.             *)
EXTENDS Pipeline, SequenceTheorems, FiniteSetTheorems, WellFoundedInduction, TLAPS

Places == {"idle", "queue", "router", "answered", "dropped", "failed"}

IsBatch(b) ==
    /\ DOMAIN b = {"stage", "ids", "arrival", "returned", "node", "times"}
    /\ b.stage \in Stages
    /\ b.ids \in Seq(Requests)
    /\ \A e \in b.node : e.serving \in Nat /\ e.serving <= now

(* Of the times only those are typed by which requests are dropped *)
TypeInv ==
    /\ now \in Nat
    /\ at \in [Requests -> Places]
    /\ stage \in [Requests -> 0..NumStages]
    /\ arrival \in [Requests -> Nat]
    /\ waiting \in [Stages -> Seq(Requests)]
    /\ mates \in [Stages -> [Requests -> SUBSET Requests]]
    /\ passage = [r \in Requests |-> passage[r]]
    /\ \A b \in batches : IsBatch(b)

Queued(r, s) == at[r] = "queue" /\ stage[r] = s

(* A request is in at most one place, once: in the batcher of the stage it was sent to, *)
(* or in one batch, that of its mates                                                  *)
PlaceInv ==
    /\ \A s \in Stages :
          IsInjective(waiting[s]) /\ \A r \in ToSet(waiting[s]) : Queued(r, s)
    /\ \A b \in batches : \A r \in ToSet(b.ids) :
          /\ Queued(r, b.stage) /\ r \notin ToSet(waiting[b.stage])
          /\ mates[b.stage][r] = ToSet(b.ids)
    /\ \A b, c \in batches : b # c => ToSet(b.ids) \cap ToSet(c.ids) = {}

(* AnsweredInTime, from the first stage on and for requests in a queue as well *)
InTime(r) ==
    /\ at[r] = "idle" => passage[r] = {}
    /\ at[r] \notin {"dropped", "failed"} =>
          \A e \in passage[r] : e.unit # Router => e.serving - arrival[r] < DropLimit

TimeInv == \A r \in Requests : InTime(r) /\ DroppedWithLate(r)

DropInv == TypeInv /\ PlaceInv /\ TimeInv

----------------------------------------------------------------------------
(* Sequences of requests *)

\* What a sequence holds once e is put at its end
LEMMA ToSetAppend ==
    ASSUME NEW S, NEW s \in Seq(S), NEW e \in S
    PROVE  /\ ToSet(Append(s, e)) = ToSet(s) \cup {e}
           /\ IsInjective(s) /\ e \notin ToSet(s) => IsInjective(Append(s, e))
  <1> DEFINE t == Append(s, e)
  <1>1. /\ t \in Seq(S) /\ Len(t) = Len(s) + 1 /\ Len(s) \in Nat
        /\ \A i \in 1..Len(s) : t[i] = s[i]
        /\ t[Len(s) + 1] = e
    BY AppendProperties
  <1> HIDE DEF t
  <1>2. ToSet(t) = ToSet(s) \cup {e}
    BY <1>1 DEF ToSet
  <1>3. IsInjective(s) /\ e \notin ToSet(s) => IsInjective(t)
    BY <1>1 DEF ToSet, IsInjective
  <1> QED
    BY <1>2, <1>3 DEF t

\* What it holds once its first n elements are gone
LEMMA ToSetSubSeq ==
    ASSUME NEW S, NEW s \in Seq(S), NEW n \in Nat, IsInjective(s)
    PROVE  /\ SubSeq(s, n + 1, Len(s)) \in Seq(S)
           /\ ToSet(SubSeq(s, n + 1, Len(s))) =
                ToSet(s) \ {s[i] : i \in {j \in DOMAIN s : j <= n}}
           /\ IsInjective(SubSeq(s, n + 1, Len(s)))
  <1> DEFINE t == SubSeq(s, n + 1, Len(s))
  <1>1. Len(s) \in Nat /\ n + 1 \in Int /\ Len(s) \in Int
        /\ \A i \in (n + 1)..Len(s) : s[i] \in S
    OBVIOUS
  <1>2. /\ t \in Seq(S)
        /\ Len(t) = IF n + 1 <= Len(s) THEN Len(s) - (n + 1) + 1 ELSE 0
        /\ \A i \in 1..(Len(s) - (n + 1) + 1) : t[i] = s[(n + 1) + i - 1]
    BY <1>1, SubSeqProperties
  <1> HIDE DEF t
  <1>3. \A i \in 1..Len(t) : n + i \in 1..Len(s) /\ t[i] = s[n + i]
    BY <1>1, <1>2
  <1>4. ASSUME NEW i \in 1..Len(s), i > n PROVE s[i] \in ToSet(t)
    <2>1. i - n \in 1..Len(t) /\ t[i - n] = s[i]
      BY <1>1, <1>2, <1>4
    <2> QED
      BY <1>2, <2>1 DEF ToSet
  <1> DEFINE first == {s[i] : i \in {j \in DOMAIN s : j <= n}}
  <1>5. ASSUME NEW i \in 1..Len(t) PROVE t[i] \in ToSet(s) \ first
    BY <1>1, <1>2, <1>3 DEF ToSet, IsInjective
  <1>6. ToSet(t) = ToSet(s) \ first
    <2>1. ASSUME NEW e \in ToSet(t) PROVE e \in ToSet(s) \ first
      BY <1>2, <1>5 DEF ToSet
    <2>2. ASSUME NEW e \in ToSet(s) \ first PROVE e \in ToSet(t)
      <3>1. PICK i \in 1..Len(s) : e = s[i]
        BY DEF ToSet
      <3>2. i > n
        BY <1>1, <3>1
      <3> QED
        BY <1>4, <3>1, <3>2
    <2> QED
      BY <2>1, <2>2
  <1>7. ASSUME NEW i \in DOMAIN t, NEW j \in DOMAIN t, t[i] = t[j] PROVE i = j
    <2>1. i \in 1..Len(t) /\ j \in 1..Len(t)
      BY <1>2
    <2>2. n + i \in DOMAIN s /\ n + j \in DOMAIN s /\ s[n + i] = s[n + j]
      BY <1>1, <1>3, <1>7, <2>1
    <2>3. n + i = n + j
      BY <2>2 DEF IsInjective
    <2> QED
      BY <2>1, <2>3
  <1>8. IsInjective(t)
    BY <1>7 DEF IsInjective
  <1> QED
    BY <1>2, <1>6, <1>8 DEF t

\* The first n of a queue, which become a batch, and the others
LEMMA Split ==
    ASSUME NEW s \in Seq(Requests), NEW n \in 1..Len(s), IsInjective(s)
    PROVE  /\ SubSeq(s, 1, n) \in Seq(Requests)
           /\ SubSeq(s, n + 1, Len(s)) \in Seq(Requests)
           /\ IsInjective(SubSeq(s, n + 1, Len(s)))
           /\ ToSet(SubSeq(s, 1, n)) \subseteq ToSet(s)
           /\ ToSet(SubSeq(s, n + 1, Len(s))) = ToSet(s) \ ToSet(SubSeq(s, 1, n))
  <1> DEFINE t == SubSeq(s, 1, n)
  <1>1. Len(s) \in Nat /\ n \in Nat /\ 1 \in Int /\ n \in Int
        /\ \A i \in 1..n : s[i] \in Requests
    OBVIOUS
  <1>2. /\ t \in Seq(Requests)
        /\ Len(t) = n
        /\ \A i \in 1..n : t[i] = s[i]
    <2>1. /\ t \in Seq(Requests)
          /\ Len(t) = IF 1 <= n THEN n - 1 + 1 ELSE 0
          /\ \A i \in 1..(n - 1 + 1) : t[i] = s[1 + i - 1]
      BY <1>1, SubSeqProperties
    <2> QED
      BY <1>1, <2>1
  <1> HIDE DEF t
  <1>3. ToSet(t) = {s[i] : i \in {j \in DOMAIN s : j <= n}}
    <2>1. DOMAIN t = 1..n /\ {j \in DOMAIN s : j <= n} = 1..n
      BY <1>1, <1>2
    <2> QED
      BY <1>2, <2>1 DEF ToSet
  <1>4. ToSet(t) \subseteq ToSet(s)
    BY <1>3 DEF ToSet
  <1>5. /\ SubSeq(s, n + 1, Len(s)) \in Seq(Requests)
        /\ ToSet(SubSeq(s, n + 1, Len(s))) = ToSet(s) \ ToSet(t)
        /\ IsInjective(SubSeq(s, n + 1, Len(s)))
    <2>1. /\ SubSeq(s, n + 1, Len(s)) \in Seq(Requests)
          /\ ToSet(SubSeq(s, n + 1, Len(s))) =
               ToSet(s) \ {s[i] : i \in {j \in DOMAIN s : j <= n}}
          /\ IsInjective(SubSeq(s, n + 1, Len(s)))
      BY <1>1, ToSetSubSeq
    <2> QED
      BY <1>3, <2>1
  <1> QED
    BY <1>2, <1>4, <1>5 DEF t

----------------------------------------------------------------------------
(* What all steps have in common *)

\* Nobody undoes a drop: what makes it due stays as it is
LEMMA DropsLast ==
    ASSUME TypeInv, NEW r \in Requests, at[r] = "dropped", DroppedWithLate(r),
           now' \in Nat, now' >= now,
           \A q \in Requests : at[q] = "dropped" => at'[q] = "dropped" /\ arrival'[q] = arrival[q],
           \A s \in Stages : mates'[s][r] = mates[s][r]
    PROVE  DroppedWithLate(r)'
  <1>1. PICK q \in {r} \cup UNION {mates[s][r] : s \in Stages} :
            at[q] = "dropped" /\ now - arrival[q] >= DropLimit
    BY DEF DroppedWithLate
  <1>2. q \in Requests /\ now \in Nat /\ arrival[q] \in Nat /\ DropLimit \in Nat
    BY <1>1, PipelineAssumption DEF TypeInv
  <1>3. at'[q] = "dropped" /\ now' - arrival'[q] >= DropLimit
    BY <1>1, <1>2
  <1>4. q \in {r} \cup UNION {mates'[s][r] : s \in Stages}
    BY <1>1
  <1> QED
    BY <1>3, <1>4 DEF DroppedWithLate

\* The requests of a batch leave it together.  Where they go to is all that the drop
\* limit needs to know of the end of a batch
LEMMA BatchLeaves ==
    ASSUME DropInv, NEW b \in batches, NEW w \in {"dropped", "failed", "router"},
           at' = [r \in Requests |-> IF r \in ToSet(b.ids) THEN w ELSE at[r]],
           batches' = batches \ {b},
           UNCHANGED <<now, stage, arrival, waiting, mates>>
    PROVE  /\ passage' = [r \in Requests |-> passage'[r]] => TypeInv'
           /\ PlaceInv'
           /\ (w = "dropped" => BatchLate(b.ids)) => \A r \in Requests : DroppedWithLate(r)'
  <1> USE DEF DropInv
  <1>1. /\ IsBatch(b) /\ b.stage \in Stages /\ b.ids \in Seq(Requests)
        /\ ToSet(b.ids) \subseteq Requests
        /\ \A r \in ToSet(b.ids) : at[r] = "queue"
    BY DEF TypeInv, IsBatch, PlaceInv, Queued, ToSet
  <1>2. ASSUME passage' = [r \in Requests |-> passage'[r]] PROVE TypeInv'
    <2>1. at' \in [Requests -> Places]
      BY DEF TypeInv, Places
    <2> QED
      BY <1>2, <2>1 DEF TypeInv, IsBatch
  <1>3. PlaceInv'
    <2>1. ASSUME NEW s \in Stages, NEW r \in ToSet(waiting[s]) PROVE Queued(r, s)'
      BY <1>1 DEF PlaceInv, Queued, TypeInv, ToSet
    <2>2. ASSUME NEW c \in batches', NEW r \in ToSet(c.ids) PROVE Queued(r, c.stage)'
      <3>1. c \in batches /\ r \notin ToSet(b.ids) /\ Queued(r, c.stage)
        BY <2>2 DEF PlaceInv
      <3>2. r \in Requests
        BY <3>1, <2>2 DEF TypeInv, IsBatch, ToSet
      <3> QED
        BY <3>1, <3>2 DEF Queued
    <2> QED
      BY <2>1, <2>2 DEF PlaceInv
  <1>4. ASSUME w = "dropped" => BatchLate(b.ids), NEW r \in Requests, at'[r] = "dropped"
        PROVE  DroppedWithLate(r)'
    <2>1. CASE r \notin ToSet(b.ids)
      <3>1. at[r] = "dropped" /\ DroppedWithLate(r) /\ TypeInv
        BY <1>4, <2>1 DEF TimeInv
      <3>2. now' \in Nat /\ now' >= now
        BY DEF TypeInv
      <3>3. \A q \in Requests : at[q] = "dropped" => at'[q] = "dropped"
        BY <1>1
      <3> QED
        BY <3>1, <3>2, <3>3, DropsLast
    <2>2. CASE r \in ToSet(b.ids)
      <3>1. PICK q \in ToSet(b.ids) : now - arrival[q] >= DropLimit
        BY <1>4, <2>2 DEF BatchLate, Late
      <3>2. at'[q] = "dropped" /\ q \in mates'[b.stage][r]
        BY <1>1, <1>4, <2>2 DEF PlaceInv
      <3> QED
        BY <1>1, <3>1, <3>2 DEF DroppedWithLate
    <2> QED
      BY <2>1, <2>2
  <1> QED
    BY <1>2, <1>3, <1>4 DEF DroppedWithLate

----------------------------------------------------------------------------
(* The router *)

LEMMA DropInit == Init => DropInv
  <1> SUFFICES ASSUME Init PROVE DropInv
    OBVIOUS
  <1>1. TypeInv
    BY PipelineAssumption DEF Init, TypeInv, Places
  <1>2. \A s \in Stages : IsInjective(waiting[s]) /\ ToSet(waiting[s]) = {}
    BY DEF Init, IsInjective, ToSet
  <1>3. PlaceInv
    BY <1>2 DEF Init, PlaceInv
  <1>4. TimeInv
    BY DEF Init, TimeInv, InTime, DroppedWithLate
  <1> QED
    BY <1>1, <1>3, <1>4 DEF DropInv

\* A request goes to the end of a queue
LEMMA SendPlaces ==
    ASSUME DropInv, NEW r \in Requests, NEW s \in Stages, at[r] \in {"idle", "router"},
           Send(r, s), UNCHANGED <<batches, mates>>
    PROVE  /\ at' \in [Requests -> Places]
           /\ stage' \in [Requests -> 0..NumStages]
           /\ waiting' \in [Stages -> Seq(Requests)]
           /\ PlaceInv'
  <1> USE DEF DropInv
  <1>1. /\ at' \in [Requests -> Places]
        /\ stage' \in [Requests -> 0..NumStages]
        /\ waiting' \in [Stages -> Seq(Requests)]
    BY PipelineAssumption DEF Send, TypeInv, Places, Stages
  <1>2. r \notin ToSet(waiting[s]) /\ \A b \in batches : r \notin ToSet(b.ids)
    BY DEF PlaceInv, Queued
  <1>3. /\ ToSet(waiting'[s]) = ToSet(waiting[s]) \cup {r}
        /\ IsInjective(waiting'[s])
    <2>1. waiting[s] \in Seq(Requests) /\ waiting'[s] = Append(waiting[s], r)
      BY DEF Send, TypeInv
    <2> QED
      BY <1>2, <2>1, ToSetAppend DEF PlaceInv
  <1>4. Queued(r, s)'
    BY DEF Send, Queued, TypeInv
  <1>5. \A q \in Requests : q # r => at'[q] = at[q] /\ stage'[q] = stage[q]
    BY DEF Send, TypeInv
  <1>6. ASSUME NEW u \in Stages
        PROVE  IsInjective(waiting'[u]) /\ \A q \in ToSet(waiting'[u]) : Queued(q, u)'
    <2>1. CASE u # s
      <3>1. waiting'[u] = waiting[u]
        BY <2>1 DEF Send, TypeInv
      <3>2. \A q \in ToSet(waiting[u]) : q \in Requests /\ q # r
        <4>1. \A q \in ToSet(waiting[u]) : q \in Requests
          BY DEF TypeInv, ToSet
        <4>2. \A q \in ToSet(waiting[u]) : at[q] = "queue"
          BY DEF PlaceInv, Queued
        <4> QED
          BY <4>1, <4>2
      <3> QED
        BY <1>5, <3>1, <3>2 DEF PlaceInv, Queued
    <2>2. CASE u = s
      <3>1. \A q \in ToSet(waiting[s]) : q \in Requests /\ q # r
        BY <1>2 DEF TypeInv, ToSet
      <3> QED
        BY <1>3, <1>4, <1>5, <2>2, <3>1 DEF PlaceInv, Queued
    <2> QED
      BY <2>1, <2>2
  <1>7. ASSUME NEW b \in batches, NEW q \in ToSet(b.ids)
        PROVE  /\ Queued(q, b.stage)' /\ q \notin ToSet(waiting'[b.stage])
               /\ mates'[b.stage][q] = ToSet(b.ids)
    <2>1. q \in Requests /\ q # r /\ b.stage \in Stages
      BY <1>2 DEF TypeInv, IsBatch, ToSet
    <2>2. q \notin ToSet(waiting'[b.stage])
      <3>1. CASE b.stage = s
        BY <1>3, <2>1, <3>1 DEF PlaceInv
      <3>2. CASE b.stage # s
        BY <2>1, <3>2 DEF PlaceInv, Send, TypeInv
      <3> QED
        BY <3>1, <3>2
    <2> QED
      BY <1>5, <2>1, <2>2 DEF PlaceInv, Queued
  <1>8. PlaceInv'
    BY <1>6, <1>7 DEF PlaceInv
  <1> QED
    BY <1>1, <1>8

LEMMA PredictKeeps ==
    ASSUME DropInv, NEW r \in Requests, Predict(r)
    PROVE  DropInv'
  <1> USE DEF DropInv
  <1>1. 1 \in Stages /\ at[r] = "idle" /\ Send(r, 1)
    BY PipelineAssumption DEF Predict, Stages
  <1>2. TypeInv' /\ PlaceInv'
    <2>1. /\ at' \in [Requests -> Places]
          /\ stage' \in [Requests -> 0..NumStages]
          /\ waiting' \in [Stages -> Seq(Requests)]
          /\ PlaceInv'
      BY <1>1, SendPlaces DEF Predict
    <2>2. TypeInv'
      BY <2>1 DEF Predict, TypeInv, IsBatch
    <2> QED
      BY <2>1, <2>2
  <1>3. ASSUME NEW q \in Requests PROVE InTime(q)'
    BY <1>1 DEF Predict, Send, TimeInv, InTime, TypeInv
  <1>4. ASSUME NEW q \in Requests PROVE DroppedWithLate(q)'
    <2>1. CASE at[q] = "dropped"
      <3>1. TypeInv /\ DroppedWithLate(q) /\ now' \in Nat /\ now' >= now
        BY DEF TimeInv, Predict, TypeInv
      <3>2. \A u \in Requests : at[u] = "dropped" => at'[u] = "dropped" /\ arrival'[u] = arrival[u]
        BY <1>1 DEF Predict, Send, TypeInv
      <3>3. \A s \in Stages : mates'[s][q] = mates[s][q]
        BY DEF Predict
      <3> QED
        BY <2>1, <3>1, <3>2, <3>3, DropsLast
    <2>2. CASE at[q] # "dropped"
      BY <1>1, <2>2 DEF Send, TypeInv, DroppedWithLate
    <2> QED
      BY <2>1, <2>2
  <1> QED
    BY <1>2, <1>3, <1>4 DEF TimeInv

LEMMA NextStageKeeps ==
    ASSUME DropInv, NEW r \in Requests, NextStage(r)
    PROVE  DropInv'
  <1> USE DEF DropInv
  <1>1. at[r] = "router" /\ stage[r] # NumStages
    BY DEF NextStage
  <1>2. CASE Late(r)
    <2>1. at' = [at EXCEPT ![r] = "dropped"] /\ UNCHANGED <<stage, waiting>>
      BY <1>2 DEF NextStage
    <2>2. \A q \in Requests : q # r => at'[q] = at[q]
      BY <2>1 DEF TypeInv
    <2>3. TypeInv'
      BY <2>1 DEF NextStage, TypeInv, IsBatch, Places
    <2>4. \A q \in Requests, s \in Stages : Queued(q, s) => Queued(q, s)'
      BY <1>1, <2>1, <2>2 DEF Queued
    <2>5. PlaceInv'
      <3>1. /\ \A s \in Stages : \A q \in ToSet(waiting[s]) : q \in Requests
            /\ \A b \in batches : b.stage \in Stages /\ \A q \in ToSet(b.ids) : q \in Requests
        BY DEF TypeInv, IsBatch, ToSet
      <3> QED
        BY <2>1, <2>4, <3>1 DEF PlaceInv, NextStage
    <2>6. ASSUME NEW q \in Requests PROVE InTime(q)'
      BY <2>1 DEF NextStage, TimeInv, InTime, TypeInv
    <2>7. ASSUME NEW q \in Requests, at'[q] = "dropped" PROVE DroppedWithLate(q)'
      <3>1. CASE q = r
        BY <1>2, <2>7, <3>1 DEF NextStage, Late, DroppedWithLate
      <3>2. CASE q # r
        <4>1. /\ TypeInv /\ DroppedWithLate(q) /\ now' \in Nat /\ now' >= now
              /\ at[q] = "dropped"
          BY <2>2, <2>7, <3>2 DEF TimeInv, NextStage, TypeInv
        <4>2. /\ \A u \in Requests :
                    at[u] = "dropped" => at'[u] = "dropped" /\ arrival'[u] = arrival[u]
              /\ \A s \in Stages : mates'[s][q] = mates[s][q]
          BY <1>1, <2>2 DEF NextStage
        <4> QED
          BY <4>1, <4>2, DropsLast
      <3> QED
        BY <3>1, <3>2
    <2> QED
      BY <2>3, <2>5, <2>6, <2>7 DEF TimeInv, DroppedWithLate
  <1>3. CASE ~Late(r)
    <2>1. Send(r, stage[r] + 1) /\ stage[r] + 1 \in Stages
      BY <1>1, <1>3, PipelineAssumption DEF NextStage, TypeInv, Stages
    <2>2. TypeInv' /\ PlaceInv'
      <3>1. /\ at' \in [Requests -> Places]
            /\ stage' \in [Requests -> 0..NumStages]
            /\ waiting' \in [Stages -> Seq(Requests)]
            /\ PlaceInv'
        BY <1>1, <2>1, SendPlaces DEF NextStage
      <3>2. TypeInv'
        BY <3>1 DEF NextStage, TypeInv, IsBatch
      <3> QED
        BY <3>1, <3>2
    <2>3. ASSUME NEW q \in Requests PROVE InTime(q)'
      BY <1>1, <2>1 DEF NextStage, Send, TimeInv, InTime, TypeInv
    <2>4. ASSUME NEW q \in Requests PROVE DroppedWithLate(q)'
      <3>1. CASE at[q] = "dropped"
        <4>1. TypeInv /\ DroppedWithLate(q) /\ now' \in Nat /\ now' >= now
          BY DEF TimeInv, NextStage, TypeInv
        <4>2. /\ \A u \in Requests :
                    at[u] = "dropped" => at'[u] = "dropped" /\ arrival'[u] = arrival[u]
              /\ \A s \in Stages : mates'[s][q] = mates[s][q]
          BY <1>1, <2>1 DEF NextStage, Send, TypeInv
        <4> QED
          BY <3>1, <4>1, <4>2, DropsLast
      <3>2. CASE at[q] # "dropped"
        BY <2>1, <3>2 DEF Send, TypeInv, DroppedWithLate
      <3> QED
        BY <3>1, <3>2
    <2> QED
      BY <2>2, <2>3, <2>4 DEF TimeInv
  <1> QED
    BY <1>2, <1>3

LEMMA AnswerKeeps ==
    ASSUME DropInv, NEW r \in Requests, Answer(r)
    PROVE  DropInv'
  <1> USE DEF DropInv
  <1>1. PICK w \in {"answered", "failed"} : at' = [at EXCEPT ![r] = w]
    BY DEF Answer
  <1>2. /\ at[r] = "router"
        /\ passage' = [passage EXCEPT ![r] = @ \cup Times(Router, arrival[r])]
        /\ UNCHANGED <<setup, now, stage, arrival, waiting, batches, mates>>
    BY DEF Answer
  <1>3. \A q \in Requests : q # r => at'[q] = at[q]
    BY <1>1 DEF TypeInv
  <1>4. TypeInv'
    <2>1. at' \in [Requests -> Places]
      BY <1>1 DEF TypeInv, Places
    <2>2. passage' = [q \in Requests |-> passage'[q]]
      BY <1>2 DEF TypeInv
    <2> QED
      BY <1>2, <2>1, <2>2 DEF TypeInv, IsBatch
  <1>5. PlaceInv'
    <2>1. \A q \in Requests, s \in Stages : Queued(q, s) => Queued(q, s)'
      BY <1>2, <1>3 DEF Queued
    <2>2. /\ \A s \in Stages : \A q \in ToSet(waiting[s]) : q \in Requests
          /\ \A b \in batches : b.stage \in Stages /\ \A q \in ToSet(b.ids) : q \in Requests
      BY DEF TypeInv, IsBatch, ToSet
    <2> QED
      BY <1>2, <2>1, <2>2 DEF PlaceInv
  <1>6. ASSUME NEW q \in Requests PROVE InTime(q)'
    <2>1. CASE q # r
      BY <1>2, <1>3, <2>1 DEF TimeInv, InTime, TypeInv
    <2>2. CASE q = r
      <3>1. at'[r] # "idle" /\ passage'[r] = passage[r] \cup Times(Router, arrival[r])
        BY <1>1, <1>2 DEF TypeInv
      <3>2. \A e \in Times(Router, arrival[r]) : e.unit = Router
        BY DEF Times
      <3>3. \A e \in passage[r] : e.unit # Router => e.serving - arrival[r] < DropLimit
        BY <1>2 DEF TimeInv, InTime
      <3> QED
        BY <1>2, <2>2, <3>1, <3>2, <3>3 DEF InTime
    <2> QED
      BY <2>1, <2>2
  <1>7. ASSUME NEW q \in Requests, at'[q] = "dropped" PROVE DroppedWithLate(q)'
    <2>1. /\ TypeInv /\ DroppedWithLate(q) /\ now' \in Nat /\ now' >= now
          /\ at[q] = "dropped"
      BY <1>1, <1>2, <1>3, <1>7 DEF TimeInv, TypeInv
    <2>2. /\ \A u \in Requests :
                at[u] = "dropped" => at'[u] = "dropped" /\ arrival'[u] = arrival[u]
          /\ \A s \in Stages : mates'[s][q] = mates[s][q]
      BY <1>2, <1>3
    <2> QED
      BY <2>1, <2>2, DropsLast
  <1> QED
    BY <1>4, <1>5, <1>6, <1>7 DEF TimeInv, DroppedWithLate

----------------------------------------------------------------------------
(* The queues and nodes *)

\* The requests of a new batch: they are of this stage, and of no batch yet
LEMMA NewBatch ==
    ASSUME DropInv, NEW s \in Stages, NEW n \in 1..Len(waiting[s]),
           NEW ids, ids = SubSeq(waiting[s], 1, n)
    PROVE  /\ ids \in Seq(Requests)
           /\ ToSet(ids) \subseteq Requests
           /\ \A r \in ToSet(ids) : Queued(r, s) /\ r \in ToSet(waiting[s])
           /\ \A b \in batches : ToSet(b.ids) \cap ToSet(ids) = {}
           /\ LET rest == SubSeq(waiting[s], n + 1, Len(waiting[s])) IN
                 rest \in Seq(Requests) /\ IsInjective(rest)
                   /\ ToSet(rest) = ToSet(waiting[s]) \ ToSet(ids)
  <1> USE DEF DropInv
  <1>1. waiting[s] \in Seq(Requests) /\ IsInjective(waiting[s])
    BY DEF TypeInv, PlaceInv
  <1>2. /\ ids \in Seq(Requests) /\ ToSet(ids) \subseteq ToSet(waiting[s])
        /\ LET rest == SubSeq(waiting[s], n + 1, Len(waiting[s])) IN
              rest \in Seq(Requests) /\ IsInjective(rest)
                /\ ToSet(rest) = ToSet(waiting[s]) \ ToSet(ids)
    BY <1>1, Split
  <1>3. ToSet(ids) \subseteq Requests
    BY <1>2 DEF ToSet
  <1>4. \A r \in ToSet(ids) : Queued(r, s) /\ r \in ToSet(waiting[s])
    BY <1>2 DEF PlaceInv
  <1>5. ASSUME NEW b \in batches, NEW r \in ToSet(b.ids) PROVE r \notin ToSet(ids)
    <2>1. Queued(r, b.stage) /\ r \notin ToSet(waiting[b.stage])
      BY DEF PlaceInv
    <2> QED
      BY <1>4, <2>1 DEF Queued
  <1> QED
    BY <1>2, <1>3, <1>4, <1>5

LEMMA QueuePredictKeeps ==
    ASSUME DropInv, NEW s \in Stages, NEW n \in 1..Len(waiting[s]), QueuePredict(s, n)
    PROVE  DropInv'
  <1> USE DEF DropInv
  <1> DEFINE ids == SubSeq(waiting[s], 1, n)
             rest == SubSeq(waiting[s], n + 1, Len(waiting[s]))
             batch == [stage |-> s, ids |-> ids, arrival |-> now, returned |-> FALSE,
                       node |-> {}, times |-> Wrapped(ids)]
  <1>1. /\ ids \in Seq(Requests)
        /\ ToSet(ids) \subseteq Requests
        /\ \A r \in ToSet(ids) : Queued(r, s) /\ r \in ToSet(waiting[s])
        /\ \A b \in batches : ToSet(b.ids) \cap ToSet(ids) = {}
        /\ rest \in Seq(Requests) /\ IsInjective(rest)
        /\ ToSet(rest) = ToSet(waiting[s]) \ ToSet(ids)
    BY NewBatch
  <1>2. /\ waiting' = [waiting EXCEPT ![s] = rest]
        /\ mates' = [mates EXCEPT ![s] =
                        [r \in Requests |-> IF r \in ToSet(ids) THEN ToSet(ids) ELSE @[r]]]
        /\ UNCHANGED <<setup, now, stage, arrival, passage>>
        /\ \/ /\ BatchLate(ids) /\ UNCHANGED batches
              /\ at' = [r \in Requests |-> IF r \in ToSet(ids) THEN "dropped" ELSE at[r]]
           \/ /\ ~BatchLate(ids) /\ UNCHANGED at
              /\ batches' = batches \cup {batch}
    BY DEF QueuePredict, Respond
  <1> HIDE DEF ids, rest
  <1>3. /\ \A r \in Requests : r \notin ToSet(ids) =>
              at'[r] = at[r] /\ mates'[s][r] = mates[s][r]
        /\ \A r \in ToSet(ids) : mates'[s][r] = ToSet(ids)
        /\ \A u \in Stages : u # s => waiting'[u] = waiting[u] /\ mates'[u] = mates[u]
        /\ waiting'[s] = rest
        /\ at' \in [Requests -> Places]
    BY <1>1, <1>2 DEF TypeInv, Places
  <1>4. TypeInv'
    <2>1. waiting' \in [Stages -> Seq(Requests)]
      BY <1>1, <1>2 DEF TypeInv
    <2>2. mates' \in [Stages -> [Requests -> SUBSET Requests]]
      BY <1>1, <1>2 DEF TypeInv
    <2>3. IsBatch(batch)
      BY <1>1 DEF IsBatch
    <2>4. \A b \in batches' : IsBatch(b)'
      BY <1>2, <2>3 DEF TypeInv, IsBatch
    <2> QED
      BY <1>2, <1>3, <2>1, <2>2, <2>4 DEF TypeInv
  <1>5. PlaceInv'
    <2>1. ASSUME NEW u \in Stages
          PROVE  IsInjective(waiting'[u]) /\ \A r \in ToSet(waiting'[u]) : Queued(r, u)'
      <3>1. ASSUME NEW r \in ToSet(waiting'[u])
            PROVE  r \in Requests /\ r \in ToSet(waiting[u]) /\ r \notin ToSet(ids)
        <4>1. r \in ToSet(waiting[u])
          BY <1>1, <1>3, <3>1
        <4>2. r \in Requests /\ Queued(r, u)
          BY <4>1 DEF TypeInv, ToSet, PlaceInv
        <4>3. r \notin ToSet(ids)
          BY <1>1, <1>3, <3>1, <4>2 DEF Queued
        <4> QED
          BY <4>1, <4>2, <4>3
      <3>2. \A r \in ToSet(waiting'[u]) : Queued(r, u)'
        BY <1>2, <1>3, <3>1 DEF PlaceInv, Queued
      <3>3. IsInjective(waiting'[u])
        BY <1>1, <1>3 DEF PlaceInv
      <3> QED
        BY <3>2, <3>3
    <2>2. ASSUME NEW b \in batches, NEW r \in ToSet(b.ids)
          PROVE  /\ Queued(r, b.stage)' /\ r \notin ToSet(waiting'[b.stage])
                 /\ mates'[b.stage][r] = ToSet(b.ids)
      <3>1. r \in Requests /\ b.stage \in Stages /\ r \notin ToSet(ids)
        <4>1. r \in Requests /\ b.stage \in Stages
          BY DEF TypeInv, IsBatch, ToSet
        <4> QED
          BY <1>1, <4>1
      <3>2. /\ Queued(r, b.stage) /\ r \notin ToSet(waiting[b.stage])
            /\ mates[b.stage][r] = ToSet(b.ids)
        BY DEF PlaceInv
      <3>3. Queued(r, b.stage)'
        BY <1>2, <1>3, <3>1, <3>2 DEF Queued
      <3>4. r \notin ToSet(waiting'[b.stage]) /\ mates'[b.stage][r] = ToSet(b.ids)
        BY <1>1, <1>3, <3>1, <3>2
      <3> QED
        BY <3>3, <3>4
    <2>3. CASE UNCHANGED batches
      BY <2>1, <2>2, <2>3 DEF PlaceInv
    <2>4. CASE batches' = batches \cup {batch} /\ UNCHANGED at
      <3>1. ASSUME NEW r \in ToSet(ids)
            PROVE  /\ Queued(r, s)' /\ r \notin ToSet(waiting'[s])
                   /\ mates'[s][r] = ToSet(ids)
        BY <1>1, <1>2, <1>3, <2>4 DEF Queued
      <3>2. batch.stage = s /\ batch.ids = ids
        OBVIOUS
      <3>3. \A b, c \in batches' : b # c => ToSet(b.ids) \cap ToSet(c.ids) = {}
        BY <1>1, <2>4, <3>2 DEF PlaceInv
      <3>4. ASSUME NEW b \in batches', NEW r \in ToSet(b.ids)
            PROVE  /\ Queued(r, b.stage)' /\ r \notin ToSet(waiting'[b.stage])
                   /\ mates'[b.stage][r] = ToSet(b.ids)
        BY <2>2, <2>4, <3>1, <3>2
      <3> QED
        BY <2>1, <3>3, <3>4 DEF PlaceInv
    <2> QED
      BY <1>2, <2>3, <2>4
  <1>6. ASSUME NEW r \in Requests PROVE InTime(r)'
    <2>1. CASE r \in ToSet(ids)
      <3>1. at[r] = "queue" /\ at'[r] # "idle"
        BY <1>1, <1>2, <2>1 DEF Queued
      <3> QED
        BY <1>2, <3>1 DEF TimeInv, InTime
    <2>2. CASE r \notin ToSet(ids)
      BY <1>2, <1>3, <2>2 DEF TimeInv, InTime
    <2> QED
      BY <2>1, <2>2
  <1>7. ASSUME NEW r \in Requests, at'[r] = "dropped" PROVE DroppedWithLate(r)'
    <2>1. CASE r \in ToSet(ids)
      <3>1. /\ BatchLate(ids)
            /\ at' = [q \in Requests |-> IF q \in ToSet(ids) THEN "dropped" ELSE at[q]]
        BY <1>1, <1>2, <1>7, <2>1 DEF Queued
      <3>2. PICK q \in ToSet(ids) : now - arrival[q] >= DropLimit
        BY <3>1 DEF BatchLate, Late
      <3>3. at'[q] = "dropped" /\ q \in mates'[s][r]
        BY <1>1, <1>3, <2>1, <3>1
      <3> QED
        BY <1>2, <3>2, <3>3 DEF DroppedWithLate
    <2>2. CASE r \notin ToSet(ids)
      <3>1. /\ TypeInv /\ DroppedWithLate(r) /\ now' \in Nat /\ now' >= now
            /\ at[r] = "dropped"
        BY <1>2, <1>3, <1>7, <2>2 DEF TimeInv, TypeInv
      <3>2. /\ \A q \in Requests :
                  at[q] = "dropped" => at'[q] = "dropped" /\ arrival'[q] = arrival[q]
            /\ \A u \in Stages : mates'[u][r] = mates[u][r]
        BY <1>1, <1>2, <1>3, <2>2 DEF Queued
      <3> QED
        BY <3>1, <3>2, DropsLast
    <2> QED
      BY <2>1, <2>2
  <1> QED
    BY <1>4, <1>5, <1>6, <1>7 DEF TimeInv, DroppedWithLate

\* At the end of a batch passage grows at most by times up to now, of the requests that
\* the router goes on with: BatchLate has just been asked of them
LEMMA QueueReturnsKeeps ==
    ASSUME DropInv, NEW b \in batches, QueueReturns(b)
    PROVE  DropInv'
  <1> USE DEF DropInv
  <1> DEFINE own == Times(QueueOf(b.stage), b.arrival)
  <1>1. PICK w \in {"dropped", "failed", "router"} :
            /\ at' = [r \in Requests |-> IF r \in ToSet(b.ids) THEN w ELSE at[r]]
            /\ w = "dropped" <=> BatchLate(b.ids)
    BY DEF QueueReturns, Respond
  <1>2. /\ batches' = batches \ {b}
        /\ passage' = [r \in Requests |-> IF r \in ToSet(b.ids)
                                          THEN passage[r] \cup own \cup b.node
                                          ELSE passage[r]]
        /\ UNCHANGED <<now, stage, arrival, waiting, mates>>
    BY DEF QueueReturns
  <1> HIDE DEF own
  <1>3. TypeInv' /\ PlaceInv' /\ \A r \in Requests : DroppedWithLate(r)'
    <2>1. passage' = [r \in Requests |-> passage'[r]]
      BY <1>2
    <2> QED
      BY <1>1, <1>2, <2>1, BatchLeaves
  <1>4. ASSUME NEW r \in Requests PROVE InTime(r)'
    <2>1. CASE r \notin ToSet(b.ids)
      BY <1>1, <1>2, <2>1 DEF TimeInv, InTime
    <2>2. CASE r \in ToSet(b.ids) /\ w # "router"
      BY <1>1, <2>2 DEF InTime
    <2>3. CASE r \in ToSet(b.ids) /\ w = "router"
      <3>1. now - arrival[r] < DropLimit
        <4>1. ~(now - arrival[r] >= DropLimit)
          BY <1>1, <2>3 DEF BatchLate, Late
        <4> QED
          BY <4>1, PipelineAssumption DEF TypeInv
      <3>2. \A e \in own \cup b.node : e.serving \in Nat /\ e.serving <= now
        BY DEF own, Times, TypeInv, IsBatch
      <3>3. \A e \in own \cup b.node : e.serving - arrival[r] < DropLimit
        BY <3>1, <3>2, PipelineAssumption DEF TypeInv
      <3>4. at[r] = "queue" /\ at'[r] = "router"
        BY <1>1, <2>3 DEF PlaceInv, Queued
      <3>5. \A e \in passage[r] : e.unit # Router => e.serving - arrival[r] < DropLimit
        BY <3>4 DEF TimeInv, InTime
      <3>6. passage'[r] = passage[r] \cup own \cup b.node
        BY <1>2, <2>3
      <3> QED
        BY <1>2, <3>3, <3>4, <3>5, <3>6 DEF InTime
    <2> QED
      BY <2>1, <2>2, <2>3
  <1> QED
    BY <1>3, <1>4 DEF TimeInv

\* A batch that is taken out by an error drops nobody
LEMMA FailKeeps ==
    ASSUME DropInv, NEW b \in batches, Fail(b),
           UNCHANGED <<setup, now, stage, arrival, waiting, passage, mates>>
    PROVE  DropInv'
  <1> USE DEF DropInv
  <1>1. /\ at' = [r \in Requests |-> IF r \in ToSet(b.ids) THEN "failed" ELSE at[r]]
        /\ batches' = batches \ {b}
    BY DEF Fail, Respond
  <1>2. TypeInv' /\ PlaceInv' /\ \A r \in Requests : DroppedWithLate(r)'
    <2>1. passage' = [r \in Requests |-> passage'[r]]
      BY DEF TypeInv
    <2> QED
      BY <1>1, <2>1, BatchLeaves
  <1>3. \A r \in Requests : InTime(r)'
    BY <1>1 DEF TimeInv, InTime
  <1> QED
    BY <1>2, <1>3 DEF TimeInv

LEMMA NodePredictKeeps ==
    ASSUME DropInv, NEW b \in batches, NodePredict(b)
    PROVE  DropInv'
  <1> USE DEF DropInv
  <1>1. CASE Fail(b)
    BY <1>1, FailKeeps DEF NodePredict
  <1>2. ASSUME NEW own, NEW t, \A e \in own : e.serving = now,
               batches' = (batches \ {b}) \cup
                   {[b EXCEPT !.returned = TRUE, !.node = own, !.times = t]},
               UNCHANGED <<at, times>>
        PROVE  DropInv'
    <2> DEFINE c == [b EXCEPT !.returned = TRUE, !.node = own, !.times = t]
    <2>1. UNCHANGED <<setup, now, stage, arrival, waiting, passage, mates>>
      BY DEF NodePredict
    <2>2. c.stage = b.stage /\ c.ids = b.ids /\ IsBatch(c)
      <3>1. IsBatch(b) /\ now \in Nat
        BY DEF TypeInv
      <3>2. /\ DOMAIN c = DOMAIN b /\ c.stage = b.stage /\ c.ids = b.ids
            /\ c.node = own
        BY <3>1 DEF IsBatch
      <3> QED
        BY <1>2, <3>1, <3>2 DEF IsBatch
    <2> HIDE DEF c
    <2>3. \A d \in batches' : \E a \in batches :
              d.stage = a.stage /\ d.ids = a.ids /\ (a = b <=> d = c) /\ (d # c => d = a)
      BY <1>2, <2>2 DEF c
    <2>4. TypeInv'
      BY <1>2, <2>1, <2>2 DEF TypeInv, IsBatch, c
    <2>5. PlaceInv'
      <3>1. \A s \in Stages :
               IsInjective(waiting'[s]) /\ \A r \in ToSet(waiting'[s]) : Queued(r, s)'
        BY <1>2, <2>1 DEF PlaceInv, Queued
      <3>2. \A d \in batches' : \A r \in ToSet(d.ids) :
               /\ Queued(r, d.stage)' /\ r \notin ToSet(waiting'[d.stage])
               /\ mates'[d.stage][r] = ToSet(d.ids)
        BY <1>2, <2>1, <2>3 DEF PlaceInv, Queued
      <3>3. \A d, e \in batches' : d # e => ToSet(d.ids) \cap ToSet(e.ids) = {}
        BY <2>3 DEF PlaceInv
      <3> QED
        BY <3>1, <3>2, <3>3 DEF PlaceInv
    <2>6. TimeInv'
      BY <1>2, <2>1 DEF TimeInv, InTime, DroppedWithLate
    <2> QED
      BY <2>4, <2>5, <2>6
  <1> QED
    <2>1. CASE ~Fail(b)
      <3>1. PICK arrived \in b.arrival..now :
               LET own == Times(NodeOf(b.stage), arrived)
                   t == NodeTimes(b.times, Len(b.ids), Dict(own))
               IN  batches' = (batches \ {b}) \cup
                      {[b EXCEPT !.returned = TRUE, !.node = own, !.times = t]}
                     /\ UNCHANGED <<at, times>>
        BY <2>1 DEF NodePredict
      <3>2. \A e \in Times(NodeOf(b.stage), arrived) : e.serving = now
        BY DEF Times
      <3> QED
        BY <1>2, <3>1, <3>2
    <2> QED
      BY <1>1, <2>1

----------------------------------------------------------------------------
LEMMA DropStep == DropInv /\ [Next]_vars => DropInv'
  <1> SUFFICES ASSUME DropInv, [Next]_vars PROVE DropInv'
    OBVIOUS
  <1>1. ASSUME NEW r \in Requests, RouterStep(r) PROVE DropInv'
    BY <1>1, PredictKeeps, NextStageKeeps, AnswerKeeps DEF RouterStep
  <1>2. ASSUME NEW s \in Stages, QueueStep(s) PROVE DropInv'
    BY <1>2, QueuePredictKeeps DEF QueueStep
  <1>3. ASSUME NEW b \in batches, BatchStep(b) PROVE DropInv'
    BY <1>3, NodePredictKeeps, FailKeeps, QueueReturnsKeeps DEF BatchStep, NodeRaises
  <1>4. CASE Tick
    <2>1. /\ now \in Nat /\ now' = now + 1
          /\ UNCHANGED <<at, stage, arrival, waiting, batches, passage, mates>>
      BY <1>4 DEF Tick, DropInv, TypeInv
    <2>2. TypeInv' /\ PlaceInv' /\ \A r \in Requests : InTime(r)'
      <3>1. TypeInv'
        BY <2>1 DEF DropInv, TypeInv, IsBatch
      <3>2. PlaceInv' /\ \A r \in Requests : InTime(r)'
        BY <2>1 DEF DropInv, PlaceInv, Queued, TimeInv, InTime
      <3> QED
        BY <3>1, <3>2
    <2>3. ASSUME NEW r \in Requests, at'[r] = "dropped" PROVE DroppedWithLate(r)'
      <3>1. TypeInv /\ DroppedWithLate(r) /\ now' \in Nat /\ now' >= now /\ at[r] = "dropped"
        BY <2>1, <2>3 DEF DropInv, TimeInv
      <3> QED
        BY <2>1, <3>1, DropsLast
    <2> QED
      BY <2>2, <2>3 DEF DropInv, TimeInv, DroppedWithLate
  <1>5. CASE UNCHANGED vars
    <2>1. UNCHANGED <<setup, now, at, stage, arrival, waiting, batches, passage, mates>>
      BY <1>5 DEF vars
    <2>2. TypeInv'
      BY <2>1 DEF DropInv, TypeInv, IsBatch
    <2>3. PlaceInv'
      BY <2>1 DEF DropInv, PlaceInv, Queued
    <2>4. TimeInv'
      BY <2>1 DEF DropInv, TimeInv, InTime, DroppedWithLate
    <2> QED
      BY <2>2, <2>3, <2>4 DEF DropInv
  <1> QED
    BY <1>1, <1>2, <1>3, <1>4, <1>5 DEF Next

\* The limit decides who is dropped, with the oldest request of its batch, and who is
\* answered (pipelines/queue/models.py:137 and :192, pipelines/router/models.py:138)
THEOREM DropLimitHolds == Spec => []DropLimitKept
  <1>1. DropInv => DropLimitKept
    BY DEF DropInv, TimeInv, InTime, DropLimitKept, AnsweredInTime
  <1> QED
    BY <1>1, DropInit, DropStep, PTL DEF Spec

----------------------------------------------------------------------------
(* The times.  A request takes a dict with it, encoded like this *)

Enc(entries) == Str(List(<<Str(Dict(entries))>>))

\* The entries of what is encoded
Entries(v) == IF v = None THEN {} ELSE Eval(Item(Eval(v), 1))[2]

LEMMA EncodingIs ==
    ASSUME NEW d
    PROVE  /\ Eval(Item(Eval(Enc(d)), 1)) = Dict(d)
           /\ Enc(d) # None /\ Entries(Enc(d)) = d /\ Entries(None) = {}
           /\ Dict(d)[2] = d /\ Dict(d) # Error /\ Enc(d) # Error
  <1>1. Enc(d)[1] = "str" /\ None[1] = "none" /\ Error[1] = "error" /\ Dict(d)[1] = "dict"
    BY DEF Enc, Str, None, Error, Dict
  <1>2. Eval(Item(Eval(Enc(d)), 1)) = Dict(d)
    BY DEF Enc, Str, List, Eval, Item
  <1>3. Dict(d)[2] = d
    BY DEF Dict
  <1> QED
    BY <1>1, <1>2, <1>3 DEF Entries

LEMMA UpdateIs ==
    ASSUME NEW d, NEW e
    PROVE  Update(Dict(d), Dict(e)) = Dict({x \in d : x.unit \notin Units(e)} \cup e)
  BY DEF Update, Dict

----------------------------------------------------------------------------
(* The fold over a batch: a recursive function on the subsets of its indices *)

FoldRec(q, base, g, S) ==
    g = [s \in SUBSET S |-> IF s = {} THEN base ELSE Update(g[s \ {Max(s)}], q[Max(s)])]

\* Induction goes by a least counterexample: of numbers, and of sets of indices
LEMMA LeastNumber ==
    ASSUME NEW T, T \subseteq Nat, T # {}
    PROVE  \E m \in T : \A k \in T : m <= k
  <1> DEFINE Less == {ss \in Nat \X Nat : ss[1] < ss[2]}
  <1>1. IsWellFoundedOn(Less, Nat)
    BY NatLessThanWellFounded, Zenon DEF OpToRel
  <1> HIDE DEF Less
  <1>2. PICK m \in T : \A k \in T : ~(<<k, m>> \in Less)
    BY <1>1, WFMin
  <1>3. ASSUME NEW k \in T PROVE m <= k
    <2>1. k \in Nat /\ m \in Nat
      OBVIOUS
    <2>2. ~(k < m)
      BY <1>2, <2>1 DEF Less
    <2> QED
      BY <2>1, <2>2
  <1> QED
    BY <1>3

LEMMA LeastSet ==
    ASSUME NEW S, IsFiniteSet(S), NEW F, F \subseteq SUBSET S, F # {}
    PROVE  \E T \in F : \A U \in F : U \subseteq T => U = T
  <1>1. F \subseteq FiniteSubsetsOf(S)
    BY FS_FiniteSubsetsOfFinite
  <1>2. PICK T \in F : \A U \in F : ~(<<U, T>> \in StrictSubsetOrdering(S))
    BY <1>1, FS_StrictSubsetOrderingWellFounded, WFMin
  <1> QED
    BY <1>2 DEF StrictSubsetOrdering

\* A set of indices has a greatest one
LEMMA MaxIs ==
    ASSUME NEW n \in Nat, NEW s, s \subseteq 1..n, s # {}
    PROVE  Max(s) \in s /\ \A k \in s : k <= Max(s)
  <1> DEFINE T == {n - k : k \in s}
  <1>1. T \subseteq Nat /\ T # {}
    OBVIOUS
  <1>2. PICK m \in T : \A k \in T : m <= k
    <2> HIDE DEF T
    <2> QED
      BY <1>1, LeastNumber
  <1>3. PICK x \in s : m = n - x
    BY <1>2
  <1>4. ASSUME NEW y \in s PROVE x >= y
    <2>1. n - y \in T /\ x \in 1..n /\ y \in 1..n
      OBVIOUS
    <2> QED
      BY <1>2, <1>3, <2>1
  <1>5. Max(s) \in s /\ \A y \in s : Max(s) >= y
    BY <1>4 DEF Max
  <1> QED
    BY <1>5

\* Opaque where the provers should not know that S is a set of numbers
Upto(n, S) == S \subseteq 1..n

\* There is one such function for every batch, and only one
LEMMA FoldRecUnique ==
    ASSUME NEW n \in Nat, NEW S, Upto(n, S), NEW q, NEW base, NEW g, NEW h,
           FoldRec(q, base, g, S), FoldRec(q, base, h, S)
    PROVE  g = h
  <1> DEFINE F == {s \in SUBSET S : g[s] # h[s]}
  <1>1. SUFFICES F = {}
    BY DEF FoldRec
  <1>2. SUFFICES ASSUME F # {} PROVE FALSE
    OBVIOUS
  <1>3. PICK s \in F : \A u \in F : u \subseteq s => u = s
    <2>1. IsFiniteSet(S)
      <3>1. S \subseteq 1..n
        BY DEF Upto
      <3>2. IsFiniteSet(1..n)
        BY FS_Interval
      <3> QED
        BY <3>1, <3>2, FS_Subset
    <2>2. F \subseteq SUBSET S
      OBVIOUS
    <2> HIDE DEF F
    <2> QED
      BY <1>2, <2>1, <2>2, LeastSet
  <1>4. s # {}
    BY <1>3 DEF FoldRec
  <1> DEFINE y == Max(s)
  <1>5. y \in s
    <2>1. s \subseteq 1..n
      BY <1>3 DEF Upto
    <2> QED
      BY <1>4, <2>1, MaxIs
  <1> HIDE DEF y
  <1>6. g[s \ {y}] = h[s \ {y}]
    BY <1>3, <1>5
  <1>7. /\ g[s] = Update(g[s \ {y}], q[y])
        /\ h[s] = Update(h[s \ {y}], q[y])
    BY <1>3, <1>4 DEF FoldRec, y
  <1> QED
    BY <1>3, <1>6, <1>7

LEMMA FoldRecExists ==
    ASSUME NEW n \in Nat, NEW q, NEW base
    PROVE  \E g : FoldRec(q, base, g, 1..n)
  <1> DEFINE S == 1..n
             F == {T \in SUBSET S : ~\E g : FoldRec(q, base, g, T)}
  <1>1. SUFFICES F = {}
    OBVIOUS
  <1>2. SUFFICES ASSUME F # {} PROVE FALSE
    OBVIOUS
  <1>3. PICK T \in F : \A U \in F : U \subseteq T => U = T
    <2>1. IsFiniteSet(S)
      BY FS_Interval
    <2>2. F \subseteq SUBSET S
      OBVIOUS
    <2> HIDE DEF F, S
    <2> QED
      BY <1>2, <2>1, <2>2, LeastSet
  <1> DEFINE G(U) == CHOOSE g : FoldRec(q, base, g, U)
             x == Max(T)
             h == [s \in SUBSET T |->
                      IF s # T THEN G(s)[s]
                      ELSE IF T = {} THEN base ELSE Update(G(T \ {x})[T \ {x}], q[x])]
  <1>4. ASSUME NEW U \in SUBSET T, U # T
        PROVE  FoldRec(q, base, G(U), U)
    <2>1. U \notin F
      BY <1>3, <1>4
    <2>2. \E g : FoldRec(q, base, g, U)
      BY <2>1, <1>3
    <2> QED
      BY <2>2
  <1> HIDE DEF G
  <1>5. ASSUME NEW U \in SUBSET T, U # T, NEW V \in SUBSET U
        PROVE  G(U)[V] = G(V)[V]
    <2> DEFINE r == [s \in SUBSET V |-> G(U)[s]]
    <2>1. FoldRec(q, base, G(U), U) /\ FoldRec(q, base, G(V), V)
      BY <1>4, <1>5
    <2>2. FoldRec(q, base, r, V)
      <3>1. ASSUME NEW s \in SUBSET V
            PROVE  r[s] = IF s = {} THEN base ELSE Update(r[s \ {Max(s)}], q[Max(s)])
        <4>1. s \in SUBSET U /\ s \ {Max(s)} \in SUBSET V
          BY <3>1
        <4>2. G(U)[s] = IF s = {} THEN base ELSE Update(G(U)[s \ {Max(s)}], q[Max(s)])
          BY <4>1, <2>1 DEF FoldRec
        <4> QED
          BY <4>1, <4>2
      <3> QED
        BY <3>1 DEF FoldRec
    <2>3. Upto(n, V)
      BY <1>3, <1>5 DEF Upto
    <2> HIDE DEF r
    <2>4. r = G(V)
      BY <2>1, <2>2, <2>3, FoldRecUnique
    <2> QED
      BY <2>4 DEF r
  <1>6. ASSUME NEW s \in SUBSET T
        PROVE  h[s] = IF s = {} THEN base ELSE Update(h[s \ {Max(s)}], q[Max(s)])
    <2>1. CASE s = {}
      <3>1. CASE s = T
        BY <2>1, <3>1
      <3>2. CASE s # T
        <4>1. FoldRec(q, base, G(s), s)
          BY <1>4, <3>2
        <4>2. G(s)[s] = base
          BY <4>1, <2>1 DEF FoldRec
        <4> QED
          BY <2>1, <3>2, <4>2
      <3> QED
        BY <3>1, <3>2
    <2>2. CASE s # {}
      <3> DEFINE y == Max(s)
                 u == s \ {y}
      <3>1. y \in s
        BY <1>3, <2>2, MaxIs
      <3>2. u \in SUBSET T /\ u # T /\ u # s /\ u \in SUBSET s
        BY <3>1
      <3>3. h[u] = G(u)[u]
        BY <3>2
      <3>4. CASE s = T
        BY <2>2, <3>2, <3>3, <3>4
      <3>5. CASE s # T
        <4>1. G(s)[s] = Update(G(s)[u], q[y])
          <5>1. FoldRec(q, base, G(s), s)
            BY <1>4, <3>5
          <5> QED
            BY <5>1, <2>2 DEF FoldRec
        <4>2. G(s)[u] = G(u)[u]
          BY <1>5, <3>2, <3>5
        <4> QED
          BY <2>2, <3>3, <3>5, <4>1, <4>2
      <3> QED
        BY <3>4, <3>5
    <2> QED
      BY <2>1, <2>2
  <1>7. FoldRec(q, base, h, T)
    <2>1. h = [s \in SUBSET T |-> h[s]]
      OBVIOUS
    <2> HIDE DEF h
    <2> QED
      BY <1>6, <2>1 DEF FoldRec
  <1> QED
    BY <1>3, <1>7

\* Dicts with the same units replace each other: the last one remains, besides what is
\* of another unit
LEMMA FoldKeepsLast ==
    ASSUME NEW n \in Nat, n # 0, NEW d, NEW U, NEW own, \A e \in own : e.unit \notin U,
           \A i \in 1..n : Units(d[i]) = U,
           NEW q, q = [i \in 1..n |-> Dict(d[i])]
    PROVE  FoldLeft(Update, Dict(own), q) = Dict(own \cup d[n])
  <1> DEFINE base == Dict(own)
             iter == CHOOSE g : FoldRec(q, base, g, 1..n)
  <1>1. FoldRec(q, base, iter, 1..n)
    BY FoldRecExists
  <1>2. DOMAIN q = 1..n
    OBVIOUS
  <1>3. FoldLeft(Update, base, q) = iter[1..n]
    BY <1>2 DEF FoldLeft, MapThenFoldSet, FoldRec
  <1> HIDE DEF iter
  <1> DEFINE Good(k) == iter[1..k] = Dict(IF k = 0 THEN own ELSE own \cup d[k])
             T == {k \in 0..n : ~Good(k)}
  <1>4. SUFFICES ASSUME T # {} PROVE FALSE
    <2>1. CASE T = {}
      <3>1. n \in 0..n
        OBVIOUS
      <3>2. Good(n)
        BY <2>1, <3>1
      <3> QED
        BY <1>3, <3>2
    <2> QED
      BY <2>1
  <1>5. PICK k \in T : \A j \in T : k <= j
    <2>1. T \subseteq Nat
      OBVIOUS
    <2> HIDE DEF T
    <2> QED
      BY <1>4, <2>1, LeastNumber
  <1>6. k \in 0..n
    BY <1>5
  <1>7. CASE k = 0
    <2>1. 1..k = {}
      BY <1>7
    <2>2. iter[{}] = base
      BY <1>1 DEF FoldRec
    <2> QED
      BY <1>5, <1>7, <2>1, <2>2
  <1>8. CASE k # 0
    <2>1. k \in 1..n /\ k - 1 \in 0..n /\ ~(k <= k - 1)
      BY <1>6, <1>8
    <2>2. Good(k - 1)
      BY <1>5, <2>1
    <2>3. 1..k # {} /\ 1..k \in SUBSET (1..n) /\ (1..k) \ {k} = 1..k - 1
      BY <2>1
    <2>4. Max(1..k) = k
      <3>1. 1..k \subseteq 1..n /\ 1..k # {} /\ k \in 1..k
        BY <2>1
      <3>2. Max(1..k) \in 1..k /\ \A j \in 1..k : j <= Max(1..k)
        BY <3>1, MaxIs
      <3> DEFINE m == Max(1..k)
      <3>3. m \in 1..k /\ k <= m
        BY <3>1, <3>2
      <3> HIDE DEF m
      <3>4. m = k
        BY <2>1, <3>3
      <3> QED
        BY <3>4 DEF m
    <2>5. iter[1..k] = Update(iter[1..k - 1], q[k])
      BY <1>1, <2>3, <2>4 DEF FoldRec
    <2> DEFINE before == IF k - 1 = 0 THEN own ELSE own \cup d[k - 1]
    <2>6. iter[1..k] = Dict({e \in before : e.unit \notin Units(d[k])} \cup d[k])
      BY <2>1, <2>2, <2>5, UpdateIs
    <2>7. {e \in before : e.unit \notin Units(d[k])} = own
      <3>1. Units(d[k]) = U /\ (k - 1 # 0 => Units(d[k - 1]) = U)
        BY <2>1
      <3>2. k - 1 # 0 => \A e \in d[k - 1] : e.unit \in U
        BY <3>1 DEF Units
      <3> QED
        BY <3>1, <3>2
    <2> QED
      BY <1>5, <1>8, <2>6, <2>7
  <1> QED
    BY <1>7, <1>8

\* What a node says to a batch of requests that bring d[i] with them
NodeText(n, E) == Str(List([i \in 1..n |-> Str(Dict(E))]))

\* What it is sent with them
Sent(n, d) == Str(List([i \in 1..n |-> Enc(d[i])]))

\* In the first stage there is nothing but the entry of the node
LEMMA FirstNodeTimes ==
    ASSUME NEW n, NEW own
    PROVE  NodeTimes(None, n, Dict(own)) = NodeText(n, own)
  BY EncodingIs DEF NodeTimes, NodeText

LEMMA NodeTextIsText ==
    ASSUME NEW n, NEW E
    PROVE  NodeText(n, E) # Error
  <1>1. NodeText(n, E)[1] = "str" /\ Error[1] = "error"
    BY DEF NodeText, Str, Error
  <1> QED
    BY <1>1

\* In the later stages the dicts of all requests have the same units: the last one remains
LEMMA LaterNodeTimes ==
    ASSUME NEW n \in Nat, n # 0, NEW own, NEW d, NEW U,
           \A e \in own : e.unit \notin U, \A i \in 1..n : Units(d[i]) = U
    PROVE  NodeTimes(Sent(n, d), n, Dict(own)) = NodeText(n, own \cup d[n])
  <1> DEFINE t == Sent(n, d)
             q == [i \in 1..n |-> Dict(d[i])]
  <1>1. t # None
    <2>1. t[1] = "str" /\ None[1] = "none"
      BY DEF Sent, Str, None
    <2> QED
      BY <2>1
  <1>2. ASSUME NEW i \in 1..n PROVE Previous(t, i) = Dict(d[i])
    <2>1. Item(Eval(t), i) = Enc(d[i])
      BY DEF Sent, Eval, Item, Str, List
    <2> QED
      BY <2>1, EncodingIs DEF Previous
  <1>3. [i \in 1..n |-> Previous(t, i)] = q
    BY <1>2
  <1>4. SharedTimes(t, n, Dict(own)) = FoldLeft(Update, Dict(own), q)
    BY <1>3 DEF SharedTimes
  <1> HIDE DEF t
  <1>5. SharedTimes(t, n, Dict(own)) = Dict(own \cup d[n])
    BY <1>4, FoldKeepsLast
  <1>6. NodeTimes(t, n, Dict(own)) = NodeText(n, own \cup d[n])
    BY <1>1, <1>5, EncodingIs DEF NodeTimes, NodeText
  <1> QED
    BY <1>6 DEF t

\* What the queue makes of it, for each of them
LEMMA QueueTimesAre ==
    ASSUME NEW n \in Nat, n # 0, NEW size \in Nat, n <= size, NEW i \in 1..n, NEW E, NEW own,
           \A e \in E : e.unit \notin Units(own)
    PROVE  QueueTimes(NodeText(n, E), i, n, size, own) = Enc(E \cup own)
  <1> DEFINE t == NodeText(n, E)
             v == Received(t, n, size)
             l == List([j \in 1..n |-> Str(Dict(E))])
  <1>1. t = Str(l) /\ Eval(t) = l /\ IsList(l) /\ ~IsList(t) /\ Item(l, i) = Str(Dict(E))
    BY DEF NodeText, Str, List, Eval, IsList, Item
  <1>2. Eval(Str(Dict(E))) = Dict(E)
    BY DEF Eval, Str
  <1> HIDE DEF t, l
  <1>3. Served(v, i, own) = Update(Dict(E), Dict(own)) /\ (IsList(v) <=> size > 1)
    <2>1. CASE n = 1 /\ size = 1
      BY <1>1, <1>2, <2>1 DEF Received, Served
    <2>2. CASE ~(n = 1 /\ size = 1)
      BY <1>1, <1>2, <2>2 DEF Received, Served
    <2> QED
      BY <2>1, <2>2
  <1>4. Update(Dict(E), Dict(own)) = Dict(E \cup own)
    <2>1. {e \in E : e.unit \notin Units(own)} = E
      OBVIOUS
    <2> QED
      BY <2>1, UpdateIs
  <1>5. Str(Served(v, i, own))[2] = Dict(E \cup own)
    BY <1>3, <1>4 DEF Str
  <1>6. QueueTimes(t, i, n, size, own) = Str(List(<<Str(Dict(E \cup own))>>))
    <2> DEFINE text == Str(Served(v, i, own))
    <2>1. text[2] # Error /\ text = Str(Dict(E \cup own))
      BY <1>3, <1>4, <1>5, EncodingIs
    <2>2. QueueTimes(t, i, n, size, own) =
            IF text[2] = Error \/ (size > 1) # IsList(v) THEN Error ELSE Str(List(<<text>>))
      BY DEF QueueTimes
    <2> HIDE DEF text, v
    <2>3. (size > 1) = IsList(v)
      BY <1>3 DEF IsList
    <2> QED
      BY <2>1, <2>2, <2>3
  <1> QED
    BY <1>6 DEF Enc, t
----------------------------------------------------------------------------
(* What a request knows of its way after k stages: of every unit of these stages one *)
(* entry, in the order of the stages                                                *)

Known(r) == Entries(times[r])

UnitsTo(k) == {QueueOf(s) : s \in 1..k} \cup {NodeOf(s) : s \in 1..k}

Dated(d, t) == \A e \in d : e.arrival \in Nat /\ e.serving \in Nat /\ e.serving <= t

InOrder(d) ==
    \A e, f \in d : e.unit[1] = "queue" =>
        /\ f.unit = NodeOf(e.unit[2]) => e.arrival <= f.arrival /\ f.serving <= e.serving
        /\ f.unit[1] = "queue" /\ e.unit[2] < f.unit[2] => e.serving <= f.arrival

OneEach(d) == \A e, f \in d : e.unit = f.unit => e = f

Complete(d, k) == Units(d) = UnitsTo(k) /\ OneEach(d) /\ InOrder(d) /\ Dated(d, now)

\* Of every stage somebody's entries, and its own if it was alone ever since
OfStage(d, s) == {e \in d : e.unit \in {QueueOf(s), NodeOf(s)}}

Owned(r, d, k) ==
    \A s \in 1..k : \E q \in Requests :
        /\ OfStage(d, s) \subseteq passage[q]
        /\ (\A later \in s + 1..k : Alone(r, later)) => q = r

Carries(r, k) ==
    /\ times[r] = IF k = 0 THEN None ELSE Enc(Known(r))
    /\ Complete(Known(r), k)
    /\ Owned(r, Known(r), k)

Delivered(r) ==
    /\ Whole(Trace(r))
    /\ \A e \in Trace(r) : e.unit = Router => e \in passage[r]
    /\ Owned(r, Trace(r), NumStages)

RequestOK(r) ==
    /\ at[r] = "idle" => times[r] = None
    /\ at[r] = "queue" => stage[r] \in Stages /\ Carries(r, stage[r] - 1)
    /\ at[r] = "router" => stage[r] \in Stages /\ Carries(r, stage[r])
    /\ at[r] = "answered" => Delivered(r)
    /\ at[r] = "failed" => setup.fails

(* What a batch carries: before the node what its requests know, after it one dict for *)
(* all of them, with the entry of the node and what the last of them knows            *)

LastOf(ids) == ids[Len(ids)]

Brought(b) == IF b.stage = 1 THEN None ELSE Str(List([i \in 1..Len(b.ids) |-> times[b.ids[i]]]))

Returned(b) ==
    /\ \E a \in b.arrival..now : \E t \in a..now :
          b.node = {[unit |-> NodeOf(b.stage), arrival |-> a, serving |-> t]}
    /\ b.times = NodeText(Len(b.ids), b.node \cup Known(LastOf(b.ids)))

BatchOK(b) ==
    /\ b.ids # <<>> /\ Len(b.ids) <= setup.size[b.stage]
    /\ b.arrival \in Nat /\ b.arrival <= now
    /\ \A r \in ToSet(b.ids) : Dated(Known(r), b.arrival)
    /\ IF b.returned THEN Returned(b) ELSE b.times = Brought(b)

TimesInv ==
    /\ setup \in Setups /\ times = [r \in Requests |-> times[r]]
    /\ \A r \in Requests : RequestOK(r)
    /\ \A b \in batches : BatchOK(b)

----------------------------------------------------------------------------
LEMMA UnitsDiffer ==
    /\ Router[1] = "router"
    /\ \A s : /\ QueueOf(s)[1] = "queue" /\ QueueOf(s)[2] = s
              /\ NodeOf(s)[1] = "node" /\ NodeOf(s)[2] = s
  BY DEF Router, QueueOf, NodeOf

\* The entries that a stage adds to those of the stages before
Entry(unit, from, until) == {[unit |-> unit, arrival |-> from, serving |-> until]}

AfterStage(d, k, b, a, t, u) == (Entry(NodeOf(k), a, t) \cup d) \cup Entry(QueueOf(k), b, u)

LEMMA StageAdds ==
    ASSUME NEW k \in Nat \ {0}, NEW d, Units(d) = UnitsTo(k - 1), OneEach(d), InOrder(d),
           NEW b \in Nat, NEW a \in Nat, NEW t \in Nat, NEW u \in Nat,
           b <= a, a <= t, t <= u, Dated(d, b)
    PROVE  LET node == Entry(NodeOf(k), a, t)
               own == Entry(QueueOf(k), b, u)
               D == AfterStage(d, k, b, a, t, u)
           IN  /\ Units(D) = UnitsTo(k) /\ OneEach(D) /\ InOrder(D) /\ Dated(D, u)
               /\ \A e \in node \cup d : e.unit \notin Units(own)
               /\ \A e \in node : e.unit \notin UnitsTo(k - 1)
               /\ OfStage(D, k) = node \cup own
               /\ \A s \in 1..k - 1 : OfStage(D, s) = OfStage(d, s)
  <1> DEFINE node == Entry(NodeOf(k), a, t)
             own == Entry(QueueOf(k), b, u)
             D == AfterStage(d, k, b, a, t, u)
             N == [unit |-> NodeOf(k), arrival |-> a, serving |-> t]
             Q == [unit |-> QueueOf(k), arrival |-> b, serving |-> u]
  <1>1. /\ N.unit = NodeOf(k) /\ N.arrival = a /\ N.serving = t
        /\ Q.unit = QueueOf(k) /\ Q.arrival = b /\ Q.serving = u
        /\ node = {N} /\ own = {Q} /\ Units(own) = {QueueOf(k)}
        /\ D = (node \cup d) \cup own
    BY DEF Units, Entry, AfterStage
  <1> HIDE DEF N, Q, node, own, D
  <1>2. /\ N.unit[1] = "node" /\ N.unit[2] = k
        /\ Q.unit[1] = "queue" /\ Q.unit[2] = k
    BY <1>1, UnitsDiffer
  <1>3. 1..k = (1..k - 1) \cup {k} /\ k \notin 1..k - 1
    OBVIOUS
  <1>4. \A e \in d : /\ e.unit \in UnitsTo(k - 1)
                     /\ \E s \in 1..k - 1 : e.unit = QueueOf(s) \/ e.unit = NodeOf(s)
                     /\ e.unit[2] \in 1..k - 1 /\ e.unit[1] \in {"queue", "node"}
    <2>1. \A e \in d : e.unit \in UnitsTo(k - 1)
      BY DEF Units
    <2>2. \A x \in UnitsTo(k - 1) : \E s \in 1..k - 1 : x = QueueOf(s) \/ x = NodeOf(s)
      BY DEF UnitsTo
    <2> QED
      BY <2>1, <2>2, UnitsDiffer
  <1>5. Units(D) = UnitsTo(k)
    <2>1. Units(D) = Units(d) \cup {NodeOf(k), QueueOf(k)}
      BY <1>1 DEF Units
    <2>2. UnitsTo(k) = UnitsTo(k - 1) \cup {NodeOf(k), QueueOf(k)}
      BY <1>3 DEF UnitsTo
    <2> QED
      BY <2>1, <2>2
  <1>6. OneEach(D)
    <2>1. \A e \in d : e.unit # N.unit /\ e.unit # Q.unit
      BY <1>2, <1>3, <1>4
    <2>2. N.unit # Q.unit
      BY <1>2
    <2> QED
      BY <1>1, <2>1, <2>2 DEF OneEach
  <1>7. Dated(D, u)
    <2>1. \A e \in d : e.serving \in Nat /\ e.serving <= b => e.serving <= u
      OBVIOUS
    <2> QED
      BY <1>1, <2>1 DEF Dated
  <1>8. InOrder(D)
    <2> SUFFICES ASSUME NEW e \in D, NEW f \in D, e.unit[1] = "queue"
                 PROVE  /\ f.unit = NodeOf(e.unit[2]) =>
                              e.arrival <= f.arrival /\ f.serving <= e.serving
                        /\ f.unit[1] = "queue" /\ e.unit[2] < f.unit[2] =>
                              e.serving <= f.arrival
      BY DEF InOrder
    <2>1. e \in d \/ e = Q
      BY <1>1, <1>2
    <2>2. f \in d \/ f = Q \/ f = N
      BY <1>1
    <2>3. CASE e \in d /\ f \in d
      BY <2>3 DEF InOrder
    <2>4. CASE e \in d /\ f = N
      BY <1>2, <1>3, <1>4, <2>4, UnitsDiffer
    <2>5. CASE e \in d /\ f = Q
      <3>1. e.serving <= b
        BY <2>5 DEF Dated
      <3> QED
        BY <1>1, <1>2, <2>5, <3>1, UnitsDiffer
    <2>6. CASE e = Q /\ f \in d
      <3>1. f.unit[2] \in 1..k - 1 /\ ~(k < f.unit[2])
        BY <1>4, <2>6
      <3> QED
        BY <1>2, <1>3, <2>6, <3>1, UnitsDiffer
    <2>7. CASE e = Q /\ f = Q
      BY <1>2, <2>7, UnitsDiffer
    <2>8. CASE e = Q /\ f = N
      BY <1>1, <1>2, <2>8
    <2> QED
      BY <2>1, <2>2, <2>3, <2>4, <2>5, <2>6, <2>7, <2>8
  <1>9. \A e \in node \cup d : e.unit \notin Units(own)
    <2>1. \A e \in d : e.unit # QueueOf(k)
      BY <1>3, <1>4, UnitsDiffer
    <2>2. N.unit # QueueOf(k)
      BY <1>2, UnitsDiffer
    <2> QED
      BY <1>1, <2>1, <2>2
  <1>10. \A e \in node : e.unit \notin UnitsTo(k - 1)
    <2>1. \A x \in UnitsTo(k - 1) : x[2] \in 1..k - 1
      BY UnitsDiffer DEF UnitsTo
    <2> QED
      BY <1>1, <1>2, <1>3, <2>1
  <1>11. OfStage(D, k) = node \cup own
    <2>1. \A e \in d : e.unit \notin {QueueOf(k), NodeOf(k)}
      BY <1>3, <1>4, UnitsDiffer
    <2>2. \A e \in node \cup own : e.unit \in {QueueOf(k), NodeOf(k)}
      BY <1>1
    <2> QED
      BY <1>1, <2>1, <2>2 DEF OfStage
  <1>12. ASSUME NEW s \in 1..k - 1 PROVE OfStage(D, s) = OfStage(d, s)
    <2>1. \A e \in node \cup own : e.unit \notin {QueueOf(s), NodeOf(s)}
      BY <1>1, <1>2, <1>3, UnitsDiffer
    <2> QED
      BY <1>1, <2>1 DEF OfStage
  <1> QED
    BY <1>5, <1>6, <1>7, <1>8, <1>9, <1>10, <1>11, <1>12 DEF node, own, D

\* The answer has an entry for every unit
LEMMA WholeIs ==
    ASSUME NEW d, Units(d) = UnitsTo(NumStages), OneEach(d), InOrder(d),
           NEW e, e.unit = Router, NEW D, D = d \cup {e}
    PROVE  Whole(D) /\ \A s \in Stages : OfStage(D, s) = OfStage(d, s)
  <1>1. \A x \in d : x.unit[1] \in {"queue", "node"} /\ x.unit # Router
    <2>1. \A x \in UnitsTo(NumStages) : x[1] \in {"queue", "node"}
      BY UnitsDiffer DEF UnitsTo
    <2>2. \A x \in d : x.unit \in UnitsTo(NumStages)
      BY DEF Units
    <2> QED
      BY <2>1, <2>2, UnitsDiffer
  <1>2. e.unit[1] = "router" /\ \A s : e.unit # QueueOf(s) /\ e.unit # NodeOf(s)
    BY UnitsDiffer
  <1>3. Units(D) = AllUnits
    <2>1. Units(D) = Units(d) \cup {Router}
      BY DEF Units
    <2> QED
      BY <2>1 DEF UnitsTo, AllUnits, Stages
  <1>4. OneEach(D)
    BY <1>1 DEF OneEach
  <1>5. Cardinality(D) = Cardinality(AllUnits)
    <2>1. IsFiniteSet(AllUnits)
      <3>1. IsFiniteSet(Stages)
        BY FS_Interval, PipelineAssumption DEF Stages
      <3>2. IsFiniteSet({QueueOf(s) : s \in Stages})
        <4> DEFINE T == {QueueOf(s) : s \in Stages}
        <4>1. [s \in Stages |-> QueueOf(s)] \in Surjection(Stages, T)
          BY DEF Surjection
        <4> HIDE DEF T
        <4>2. IsFiniteSet(T)
          BY <3>1, <4>1, FS_Surjection
        <4> QED
          BY <4>2 DEF T
      <3>3. IsFiniteSet({NodeOf(s) : s \in Stages})
        <4> DEFINE T == {NodeOf(s) : s \in Stages}
        <4>1. [s \in Stages |-> NodeOf(s)] \in Surjection(Stages, T)
          BY DEF Surjection
        <4> HIDE DEF T
        <4>2. IsFiniteSet(T)
          BY <3>1, <4>1, FS_Surjection
        <4> QED
          BY <4>2 DEF T
      <3>4. IsFiniteSet({Router})
        BY FS_Singleton
      <3> QED
        BY <3>2, <3>3, <3>4, FS_Union DEF AllUnits
    <2> DEFINE entry == [x \in AllUnits |-> CHOOSE f \in D : f.unit = x]
    <2>2. \A x \in AllUnits : entry[x] \in D /\ entry[x].unit = x
      BY <1>3 DEF Units
    <2>3. \A f \in D : f.unit \in AllUnits /\ entry[f.unit] = f
      BY <1>3, <1>4, <2>2 DEF Units, OneEach
    <2>4. entry \in [AllUnits -> D]
      BY <2>2
    <2> HIDE DEF entry
    <2>5. entry \in Injection(AllUnits, D)
      BY <2>2, <2>4 DEF Injection, IsInjective
    <2>6. entry \in Surjection(AllUnits, D)
      BY <2>3, <2>4 DEF Surjection
    <2> QED
      BY <2>1, <2>5, <2>6, FS_Bijection DEF Bijection, ExistsBijection
  <1>6. Whole(D)
    <2> SUFFICES ASSUME NEW x \in D, NEW y \in D, x.unit[1] = "queue"
                 PROVE  /\ y.unit = NodeOf(x.unit[2]) =>
                              x.arrival <= y.arrival /\ y.serving <= x.serving
                        /\ y.unit[1] = "queue" /\ x.unit[2] < y.unit[2] =>
                              x.serving <= y.arrival
      BY <1>3, <1>5 DEF Whole
    <2>1. x \in d
      BY <1>2
    <2>2. CASE y \in d
      BY <2>1, <2>2 DEF InOrder
    <2>3. CASE y = e
      BY <1>2, <2>3
    <2> QED
      BY <2>2, <2>3
  <1>7. \A s \in Stages : OfStage(D, s) = OfStage(d, s)
    BY <1>2 DEF OfStage
  <1> QED
    BY <1>6, <1>7

----------------------------------------------------------------------------
(* What all steps have in common *)

\* What a request knows stays true when the times of others are written down
LEMMA CarriesOn ==
    ASSUME NEW r \in Requests, NEW k \in 0..NumStages, Carries(r, k),
           times'[r] = times[r], now \in Nat, now' \in Nat, now' >= now,
           \A q \in Requests : passage[q] \subseteq passage'[q],
           \A s \in 1..k : mates'[s][r] = mates[s][r]
    PROVE  Carries(r, k)'
  <1>1. PICK d : d = Known(r)
    OBVIOUS
  <1>2. Known(r)' = d
    BY <1>1 DEF Known
  <1>3. Complete(d, k)'
    <2>1. Complete(d, k)
      BY <1>1 DEF Carries
    <2>2. \A e \in d : e.serving \in Nat /\ e.serving <= now => e.serving <= now'
      OBVIOUS
    <2> QED
      BY <2>1, <2>2 DEF Complete, Dated
  <1>4. ASSUME NEW s \in 1..k
        PROVE  \E q \in Requests : /\ OfStage(d, s) \subseteq passage'[q]
                                   /\ (\A later \in s + 1..k : mates'[later][r] = {r}) => q = r
    <2>1. PICK q \in Requests : /\ OfStage(d, s) \subseteq passage[q]
                                /\ (\A later \in s + 1..k : mates[later][r] = {r}) => q = r
      BY <1>1 DEF Carries, Owned, Alone
    <2>2. \A later \in s + 1..k : later \in 1..k
      OBVIOUS
    <2> QED
      BY <2>1, <2>2
  <1>5. times'[r] = IF k = 0 THEN None ELSE Enc(d)
    BY <1>1 DEF Carries
  <1>6. Owned(r, d, k)'
    BY <1>4 DEF Owned, Alone
  <1> QED
    BY <1>2, <1>3, <1>5, <1>6 DEF Carries

\* A step that is about others
LEMMA RequestKeeps ==
    ASSUME TypeInv, NEW r \in Requests, RequestOK(r),
           at'[r] = at[r], stage'[r] = stage[r], times'[r] = times[r], setup' = setup,
           now' \in Nat, now' >= now,
           \A q \in Requests : passage[q] \subseteq passage'[q],
           \A s \in Stages : mates'[s][r] = mates[s][r] \/ Queued(r, s)
    PROVE  RequestOK(r)'
  <1>1. NumStages \in Nat /\ now \in Nat
    BY PipelineAssumption DEF TypeInv
  <1>2. CASE at[r] = "queue"
    <2>1. stage[r] \in 1..NumStages /\ Carries(r, stage[r] - 1)
      BY <1>2 DEF RequestOK, Stages
    <2>2. stage[r] - 1 \in 0..NumStages
      BY <1>1, <2>1
    <2>3. \A s \in 1..stage[r] - 1 : mates'[s][r] = mates[s][r]
      <3>1. \A s \in 1..stage[r] - 1 : s \in Stages /\ s # stage[r]
        BY <1>1, <2>1 DEF Stages
      <3> QED
        BY <3>1 DEF Queued
    <2>4. PICK k : k = stage[r] - 1
      OBVIOUS
    <2>5. Carries(r, k)'
      BY <1>1, <2>1, <2>2, <2>3, <2>4, CarriesOn
    <2>6. Carries(r, stage[r] - 1)'
      BY <2>4, <2>5 DEF Carries, Owned
    <2> QED
      BY <1>2, <2>1, <2>6 DEF RequestOK, Stages
  <1>3. CASE at[r] = "router"
    <2>1. stage[r] \in 1..NumStages /\ Carries(r, stage[r])
      BY <1>3 DEF RequestOK, Stages
    <2>2. \A s \in 1..stage[r] : mates'[s][r] = mates[s][r]
      <3>1. \A s \in 1..stage[r] : s \in Stages
        BY <1>1, <2>1 DEF Stages
      <3> QED
        BY <1>3, <3>1 DEF Queued
    <2>3. PICK k : k = stage[r]
      OBVIOUS
    <2>4. k \in 0..NumStages
      BY <1>1, <2>1, <2>3
    <2>5. Carries(r, k)'
      BY <1>1, <2>1, <2>2, <2>3, <2>4, CarriesOn
    <2>6. Carries(r, stage[r])'
      BY <2>3, <2>5 DEF Carries, Owned
    <2> QED
      BY <1>3, <2>1, <2>6 DEF RequestOK, Stages
  <1>4. CASE at[r] = "answered"
    <2>1. PICK d : d = Trace(r) /\ d = Trace(r)'
      BY DEF Trace
    <2>2. Whole(d) /\ (\A e \in d : e.unit = Router => e \in passage[r]) /\ Owned(r, d, NumStages)
      BY <1>4, <2>1 DEF RequestOK, Delivered
    <2>3. \A s \in 1..NumStages : mates'[s][r] = mates[s][r]
      BY <1>4 DEF Queued, Stages
    <2>4. ASSUME NEW s \in 1..NumStages
          PROVE  \E q \in Requests :
                    /\ OfStage(d, s) \subseteq passage'[q]
                    /\ (\A later \in s + 1..NumStages : mates'[later][r] = {r}) => q = r
      <3>1. PICK q \in Requests :
               /\ OfStage(d, s) \subseteq passage[q]
               /\ (\A later \in s + 1..NumStages : mates[later][r] = {r}) => q = r
        BY <2>2 DEF Owned, Alone
      <3>2. \A later \in s + 1..NumStages : later \in 1..NumStages
        BY <1>1
      <3> QED
        BY <2>3, <3>1, <3>2
    <2>5. Owned(r, d, NumStages)'
      BY <2>4 DEF Owned, Alone
    <2>6. Delivered(r)'
      BY <2>1, <2>2, <2>5 DEF Delivered
    <2> QED
      BY <1>4, <2>6 DEF RequestOK
  <1>5. CASE at[r] \notin {"queue", "router", "answered"}
    BY <1>5 DEF RequestOK
  <1> QED
    BY <1>2, <1>3, <1>4, <1>5

\* A batch whose requests keep what they know
LEMMA BatchKeeps ==
    ASSUME TypeInv, NEW b \in batches, BatchOK(b),
           setup' = setup, now' \in Nat, now' >= now,
           \A r \in ToSet(b.ids) : times'[r] = times[r]
    PROVE  BatchOK(b)'
  <1>1. /\ IsBatch(b) /\ b.ids # <<>> /\ b.arrival \in Nat /\ now \in Nat
        /\ Len(b.ids) \in Nat \ {0}
    BY DEF TypeInv, IsBatch, BatchOK
  <1>2. \A i \in 1..Len(b.ids) : b.ids[i] \in ToSet(b.ids)
    BY <1>1 DEF IsBatch, ToSet
  <1>3. \A r \in ToSet(b.ids) : Known(r)' = Known(r)
    BY DEF Known
  <1>4. LastOf(b.ids) \in ToSet(b.ids)
    BY <1>1, <1>2 DEF LastOf
  <1>5. \A r \in ToSet(b.ids) : Dated(Known(r), b.arrival)'
    <2>1. \A r \in ToSet(b.ids) : \A e \in Known(r) :
             e.arrival \in Nat /\ e.serving \in Nat /\ e.serving <= b.arrival
      BY DEF BatchOK, Dated
    <2> QED
      BY <1>3, <2>1 DEF Dated
  <1>6. ~b.returned => b.times = Brought(b)'
    <2>1. ~b.returned => b.times = Brought(b)
      BY DEF BatchOK
    <2>2. [i \in 1..Len(b.ids) |-> times'[b.ids[i]]] = [i \in 1..Len(b.ids) |-> times[b.ids[i]]]
      BY <1>2
    <2> QED
      BY <2>1, <2>2 DEF Brought
  <1>7. b.returned => Returned(b)'
    <2> SUFFICES ASSUME b.returned PROVE Returned(b)'
      OBVIOUS
    <2>1. PICK a \in b.arrival..now : \E t \in a..now :
             b.node = {[unit |-> NodeOf(b.stage), arrival |-> a, serving |-> t]}
      BY DEF BatchOK, Returned
    <2>2. PICK t \in a..now :
             b.node = {[unit |-> NodeOf(b.stage), arrival |-> a, serving |-> t]}
      BY <2>1
    <2>3. a \in b.arrival..now' /\ t \in a..now'
      BY <1>1
    <2>4. b.times = NodeText(Len(b.ids), b.node \cup Known(LastOf(b.ids))')
      BY <1>3, <1>4 DEF BatchOK, Returned
    <2> QED
      BY <2>2, <2>3, <2>4 DEF Returned
  <1> QED
    BY <1>1, <1>5, <1>6, <1>7 DEF BatchOK

----------------------------------------------------------------------------
(* The router *)

SurviveInv == DropInv /\ TimesInv

LEMMA SurviveInit == Init => TimesInv
  BY DEF Init, TimesInv, RequestOK

LEMMA PredictSurvives ==
    ASSUME SurviveInv, NEW r \in Requests, Predict(r)
    PROVE  TimesInv'
  <1> USE DEF SurviveInv
  <1>1. /\ TypeInv /\ at[r] = "idle" /\ 1 \in Stages /\ now' \in Nat /\ now' >= now
        /\ UNCHANGED <<setup, now, times, batches, passage, mates>>
        /\ at' = [at EXCEPT ![r] = "queue"] /\ stage' = [stage EXCEPT ![r] = 1]
    BY PipelineAssumption DEF DropInv, TypeInv, Predict, Send, Stages
  <1>2. RequestOK(r)'
    <2>1. at'[r] = "queue" /\ stage'[r] = 1 /\ times'[r] = None
      BY <1>1 DEF TypeInv, TimesInv, RequestOK
    <2>2. Known(r)' = {}
      BY <2>1, EncodingIs DEF Known
    <2>3. Complete({}, 0)'
      BY DEF Complete, Units, UnitsTo, OneEach, InOrder, Dated
    <2>4. Carries(r, 0)'
      BY <2>1, <2>2, <2>3 DEF Carries, Owned, Complete
    <2> QED
      BY <1>1, <2>1, <2>4 DEF RequestOK, Carries, Owned, Complete
  <1>3. ASSUME NEW q \in Requests, q # r PROVE RequestOK(q)'
    <2>1. at'[q] = at[q] /\ stage'[q] = stage[q] /\ RequestOK(q)
      BY <1>1, <1>3 DEF TypeInv, TimesInv
    <2> QED
      BY <1>1, <2>1, RequestKeeps
  <1>4. ASSUME NEW b \in batches PROVE BatchOK(b)'
    BY <1>1, BatchKeeps DEF TimesInv
  <1> QED
    BY <1>1, <1>2, <1>3, <1>4 DEF TimesInv

LEMMA NextStageSurvives ==
    ASSUME SurviveInv, NEW r \in Requests, NextStage(r)
    PROVE  TimesInv'
  <1> USE DEF SurviveInv
  <1>1. /\ TypeInv /\ at[r] = "router" /\ stage[r] # NumStages
        /\ now' \in Nat /\ now' >= now
        /\ UNCHANGED <<setup, now, times, batches, passage, mates>>
    BY DEF DropInv, TypeInv, NextStage
  <1>2. /\ \/ at' = [at EXCEPT ![r] = "dropped"] /\ UNCHANGED stage
           \/ /\ at' = [at EXCEPT ![r] = "queue"]
              /\ stage' = [stage EXCEPT ![r] = stage[r] + 1]
    BY DEF NextStage, Send
  <1>3. RequestOK(r)'
    <2>1. CASE at' = [at EXCEPT ![r] = "dropped"]
      <3>1. at'[r] = "dropped"
        BY <1>1, <2>1 DEF TypeInv
      <3> QED
        BY <3>1 DEF RequestOK
    <2>2. CASE at' = [at EXCEPT ![r] = "queue"] /\ stage' = [stage EXCEPT ![r] = stage[r] + 1]
      <3>1. at'[r] = "queue" /\ stage'[r] = stage[r] + 1
        BY <1>1, <2>2 DEF TypeInv
      <3>2. stage[r] \in Stages /\ Carries(r, stage[r])
        BY <1>1 DEF TimesInv, RequestOK
      <3>3. PICK k : k = stage[r]
        OBVIOUS
      <3>4. k \in 0..NumStages /\ stage'[r] - 1 = k /\ stage'[r] \in Stages /\ now \in Nat
        <4>1. k \in 1..NumStages /\ k # NumStages /\ stage'[r] = k + 1
          BY <1>1, <3>1, <3>2, <3>3 DEF Stages
        <4>2. NumStages \in Nat /\ now \in Nat
          BY <1>1, PipelineAssumption DEF TypeInv
        <4>3. k \in 0..NumStages /\ (k + 1) - 1 = k /\ k + 1 \in 1..NumStages
          BY <4>1, <4>2
        <4> QED
          BY <4>1, <4>2, <4>3 DEF Stages
      <3>5. Carries(r, k)'
        BY <1>1, <3>2, <3>3, <3>4, CarriesOn
      <3>6. Carries(r, stage[r] - 1)'
        BY <3>4, <3>5 DEF Carries, Owned, Complete
      <3> QED
        BY <3>1, <3>4, <3>6 DEF RequestOK, Stages
    <2> QED
      BY <1>2, <2>1, <2>2
  <1>4. ASSUME NEW q \in Requests, q # r PROVE RequestOK(q)'
    <2>1. at'[q] = at[q] /\ stage'[q] = stage[q] /\ RequestOK(q)
      BY <1>2, <1>4 DEF DropInv, TypeInv, TimesInv
    <2> QED
      BY <1>1, <2>1, RequestKeeps
  <1>5. ASSUME NEW b \in batches PROVE BatchOK(b)'
    BY <1>1, BatchKeeps DEF TimesInv
  <1> QED
    BY <1>1, <1>3, <1>4, <1>5 DEF TimesInv

\* The router adds its own entry, which no stage has written
LEMMA AnswerSurvives ==
    ASSUME SurviveInv, NEW r \in Requests, Answer(r)
    PROVE  TimesInv'
  <1> USE DEF SurviveInv
  <1> DEFINE own == Times(Router, arrival[r])
             d == Known(r)
             v == Update(Eval(Item(Eval(times[r]), 1)), Dict(own))
  <1>1. /\ TypeInv /\ at[r] = "router" /\ stage[r] = NumStages
        /\ now' \in Nat /\ now' >= now
        /\ UNCHANGED <<setup, now, stage, batches, mates>>
        /\ at' = [at EXCEPT ![r] = IF v = Error THEN "failed" ELSE "answered"]
        /\ times' = [times EXCEPT ![r] = Str(List(<<Str(v)>>))]
        /\ passage' = [passage EXCEPT ![r] = @ \cup own]
    BY DEF DropInv, TypeInv, Answer
  <1>2. /\ Carries(r, NumStages) /\ NumStages \in Nat \ {0}
        /\ times[r] = Enc(d) /\ Complete(d, NumStages) /\ Owned(r, d, NumStages)
    <2>1. Carries(r, NumStages)
      BY <1>1 DEF TimesInv, RequestOK
    <2> QED
      BY <2>1, PipelineAssumption DEF Carries
  <1>3. own = {[unit |-> Router, arrival |-> arrival[r], serving |-> now]}
    BY DEF Times
  <1> DEFINE e == [unit |-> Router, arrival |-> arrival[r], serving |-> now]
             D == d \cup {e}
  <1>4. e.unit = Router /\ own = {e} /\ Units(own) = {Router}
    BY <1>3 DEF Units
  <1> HIDE DEF e, own
  <1>5. v = Dict(D) /\ v # Error
    <2>1. Eval(Item(Eval(times[r]), 1)) = Dict(d)
      BY <1>2, EncodingIs
    <2>2. v = Dict({x \in d : x.unit \notin Units(own)} \cup own)
      BY <2>1, UpdateIs
    <2>3. \A x \in d : x.unit # Router
      <3>1. \A x \in UnitsTo(NumStages) : x[1] # "router"
        BY UnitsDiffer DEF UnitsTo
      <3>2. \A x \in d : x.unit \in UnitsTo(NumStages)
        BY <1>2 DEF Complete, Units
      <3> QED
        BY <3>1, <3>2, UnitsDiffer
    <2>4. {x \in d : x.unit \notin Units(own)} = d
      BY <1>4, <2>3
    <2> QED
      BY <1>4, <2>2, <2>4, EncodingIs
  <1> HIDE DEF v
  <1>6. RequestOK(r)'
    <2>1. at'[r] = "answered" /\ times'[r] = Enc(D) /\ passage'[r] = passage[r] \cup {e}
      <3>1. times = [q \in Requests |-> times[q]] /\ passage = [q \in Requests |-> passage[q]]
        BY DEF TimesInv, TypeInv, DropInv
      <3> QED
        BY <1>1, <1>4, <1>5, <3>1 DEF TypeInv, Enc
    <2>2. Trace(r)' = D
      BY <2>1, EncodingIs DEF Trace
    <2>3. PICK dd, ee : dd = d /\ ee = e
      OBVIOUS
    <2>4. PICK DD : DD = D
      OBVIOUS
    <2>5. Whole(DD) /\ \A s \in Stages : OfStage(DD, s) = OfStage(dd, s)
      <3>1. Units(dd) = UnitsTo(NumStages) /\ OneEach(dd) /\ InOrder(dd)
        BY <1>2, <2>3 DEF Complete
      <3>2. ee.unit = Router /\ DD = dd \cup {ee}
        BY <1>4, <2>3, <2>4
      <3> QED
        BY <3>1, <3>2, WholeIs
    <2>6. \A x \in DD : x.unit = Router => x \in passage'[r]
      <3>1. \A x \in d : x.unit # Router
        <4>1. \A x \in UnitsTo(NumStages) : x[1] # "router"
          BY UnitsDiffer DEF UnitsTo
        <4>2. \A x \in d : x.unit \in UnitsTo(NumStages)
          BY <1>2 DEF Complete, Units
        <4> QED
          BY <4>1, <4>2, UnitsDiffer
      <3> QED
        BY <2>1, <2>4, <3>1
    <2>7. \A q \in Requests : passage[q] \subseteq passage'[q]
      BY <1>1 DEF TypeInv
    <2>8. ASSUME NEW s \in 1..NumStages
          PROVE  \E q \in Requests :
                    /\ OfStage(DD, s) \subseteq passage'[q]
                    /\ (\A later \in s + 1..NumStages : mates'[later][r] = {r}) => q = r
      <3>1. PICK q \in Requests :
               /\ OfStage(dd, s) \subseteq passage[q]
               /\ (\A later \in s + 1..NumStages : mates[later][r] = {r}) => q = r
        BY <1>2, <2>3 DEF Owned, Alone
      <3>2. OfStage(DD, s) = OfStage(dd, s)
        BY <2>5 DEF Stages
      <3> QED
        BY <1>1, <2>7, <3>1, <3>2
    <2>9. Owned(r, DD, NumStages)'
      BY <2>8 DEF Owned, Alone
    <2>10. Trace(r)' = DD
      BY <2>2, <2>4
    <2>11. Delivered(r)'
      BY <2>5, <2>6, <2>9, <2>10 DEF Delivered
    <2> QED
      BY <2>1, <2>11 DEF RequestOK
  <1>7. ASSUME NEW q \in Requests, q # r PROVE RequestOK(q)'
    <2>1. at'[q] = at[q] /\ stage'[q] = stage[q] /\ times'[q] = times[q] /\ RequestOK(q)
      BY <1>1, <1>7 DEF TypeInv, TimesInv
    <2>2. \A u \in Requests : passage[u] \subseteq passage'[u]
      BY <1>1 DEF TypeInv
    <2> QED
      BY <1>1, <2>1, <2>2, RequestKeeps
  <1>8. ASSUME NEW b \in batches PROVE BatchOK(b)'
    <2>1. \A q \in ToSet(b.ids) : q # r
      BY <1>1 DEF DropInv, PlaceInv, Queued
    <2>2. \A q \in ToSet(b.ids) : times'[q] = times[q]
      <3>1. \A q \in ToSet(b.ids) : q \in Requests
        BY <1>1 DEF TypeInv, IsBatch, ToSet
      <3> QED
        BY <1>1, <2>1, <3>1 DEF TimesInv
    <2> QED
      BY <1>1, <2>2, BatchKeeps DEF TimesInv
  <1>9. times' = [q \in Requests |-> times'[q]]
    BY <1>1 DEF TimesInv
  <1> QED
    BY <1>1, <1>6, <1>7, <1>8, <1>9 DEF TimesInv

----------------------------------------------------------------------------
(* The queues and the nodes *)

\* The requests of a batch
LEMMA Members ==
    ASSUME SurviveInv, NEW b \in batches
    PROVE  /\ b.stage \in 1..NumStages /\ NumStages \in Nat /\ now \in Nat
           /\ Len(b.ids) \in Nat \ {0} /\ DOMAIN b.ids = 1..Len(b.ids)
           /\ \A i \in 1..Len(b.ids) : b.ids[i] \in ToSet(b.ids)
           /\ \A r \in ToSet(b.ids) :
                 /\ r \in Requests /\ at[r] = "queue" /\ stage[r] = b.stage
                 /\ \E i \in 1..Len(b.ids) : r = b.ids[i]
                 /\ Carries(r, b.stage - 1)
                 /\ mates[b.stage][r] = ToSet(b.ids)
           /\ LastOf(b.ids) \in ToSet(b.ids)
           /\ setup.size[b.stage] \in Nat \ {0} /\ Len(b.ids) <= setup.size[b.stage]
  <1> USE DEF SurviveInv
  <1>1. TypeInv /\ PlaceInv /\ IsBatch(b) /\ BatchOK(b)
    BY DEF DropInv, TypeInv, TimesInv
  <1>2. b.stage \in 1..NumStages /\ NumStages \in Nat /\ now \in Nat
    BY <1>1, PipelineAssumption DEF TypeInv, IsBatch, Stages
  <1>3. /\ Len(b.ids) \in Nat \ {0} /\ DOMAIN b.ids = 1..Len(b.ids)
        /\ b.ids \in Seq(Requests)
    BY <1>1 DEF IsBatch, BatchOK
  <1>4. \A i \in 1..Len(b.ids) : b.ids[i] \in ToSet(b.ids)
    BY <1>3 DEF ToSet
  <1>5. ASSUME NEW r \in ToSet(b.ids)
        PROVE  /\ r \in Requests /\ at[r] = "queue" /\ stage[r] = b.stage
               /\ \E i \in 1..Len(b.ids) : r = b.ids[i]
               /\ Carries(r, b.stage - 1)
               /\ mates[b.stage][r] = ToSet(b.ids)
    <2>1. r \in Requests /\ \E i \in 1..Len(b.ids) : r = b.ids[i]
      BY <1>3 DEF ToSet
    <2>2. at[r] = "queue" /\ stage[r] = b.stage /\ mates[b.stage][r] = ToSet(b.ids)
      BY <1>1 DEF PlaceInv, Queued
    <2>3. Carries(r, b.stage - 1)
      BY <2>1, <2>2 DEF TimesInv, RequestOK
    <2> QED
      BY <2>1, <2>2, <2>3
  <1>6. LastOf(b.ids) \in ToSet(b.ids)
    BY <1>3, <1>4 DEF LastOf
  <1>7. setup.size[b.stage] \in Nat \ {0} /\ Len(b.ids) <= setup.size[b.stage]
    BY <1>1, <1>2, PipelineAssumption DEF TimesInv, BatchOK, Stages
  <1> QED
    BY <1>2, <1>3, <1>4, <1>5, <1>6, <1>7

LEMMA QueuePredictSurvives ==
    ASSUME SurviveInv, NEW s \in Stages, NEW n \in 1..Len(waiting[s]), QueuePredict(s, n)
    PROVE  TimesInv'
  <1> USE DEF SurviveInv
  <1> DEFINE ids == SubSeq(waiting[s], 1, n)
             batch == [stage |-> s, ids |-> ids, arrival |-> now, returned |-> FALSE,
                       node |-> {}, times |-> Wrapped(ids)]
  <1> PICK c : c = batch
    OBVIOUS
  <1>1. /\ TypeInv /\ now' \in Nat /\ now' >= now /\ now \in Nat
        /\ UNCHANGED <<setup, now, stage, times, passage>>
        /\ mates' = [mates EXCEPT ![s] =
                        [r \in Requests |-> IF r \in ToSet(ids) THEN ToSet(ids) ELSE @[r]]]
        /\ n <= setup.size[s]
        /\ \/ /\ UNCHANGED batches
              /\ at' = [r \in Requests |-> IF r \in ToSet(ids) THEN "dropped" ELSE at[r]]
           \/ /\ UNCHANGED at
              /\ batches' = batches \cup {c}
    <2>1. TypeInv /\ now \in Nat
      BY DEF DropInv, TypeInv
    <2>2. /\ UNCHANGED <<setup, now, stage, times, passage>>
          /\ mates' = [mates EXCEPT ![s] =
                          [r \in Requests |-> IF r \in ToSet(ids) THEN ToSet(ids) ELSE @[r]]]
          /\ n \in 1..setup.size[s]
      BY DEF QueuePredict, Respond
    <2>3. setup.size[s] \in Nat
      BY PipelineAssumption DEF TimesInv
    <2>4. \/ /\ UNCHANGED batches
             /\ at' = [r \in Requests |-> IF r \in ToSet(ids) THEN "dropped" ELSE at[r]]
          \/ /\ UNCHANGED at
             /\ batches' = batches \cup {batch}
      BY DEF QueuePredict, Respond
    <2> QED
      BY <2>1, <2>2, <2>3, <2>4
  <1>2. /\ ids \in Seq(Requests) /\ ToSet(ids) \subseteq Requests
        /\ \A r \in ToSet(ids) : Queued(r, s)
    BY NewBatch
  <1>3. Len(ids) = n /\ n \in Nat \ {0} /\ DOMAIN ids = 1..n
    <2>1. waiting[s] \in Seq(Requests) /\ n \in Int /\ 1 \in Int /\ n >= 1
          /\ \A i \in 1..n : waiting[s][i] \in Requests
      BY <1>1 DEF TypeInv
    <2>2. Len(ids) = n
      BY <2>1, SubSeqProperties
    <2> QED
      BY <1>2, <2>1, <2>2
  <1> HIDE DEF ids
  <1>4. \A r \in Requests, u \in Stages : mates'[u][r] = mates[u][r] \/ Queued(r, u)
    BY <1>1, <1>2 DEF TypeInv
  <1>5. ASSUME NEW r \in Requests PROVE RequestOK(r)'
    <2>1. CASE at'[r] = at[r]
      BY <1>1, <1>4, <2>1, RequestKeeps DEF TimesInv
    <2>2. CASE at'[r] = "dropped"
      BY <2>2 DEF RequestOK
    <2> QED
      BY <1>1, <2>1, <2>2
  <1>6. ASSUME NEW b \in batches PROVE BatchOK(b)'
    BY <1>1, BatchKeeps DEF TimesInv
  <1>7. BatchOK(c)'
    <2>1. /\ c.stage = s /\ c.ids = ids /\ c.arrival = now
          /\ c.returned = FALSE /\ c.times = Wrapped(ids)
      OBVIOUS
    <2> HIDE DEF batch
    <2>2. \A i \in 1..n : ids[i] \in ToSet(ids)
      BY <1>3 DEF ToSet
    <2>3. ASSUME NEW r \in ToSet(ids) PROVE Carries(r, s - 1)
      BY <1>2 DEF Queued, TimesInv, RequestOK
    <2>5. ASSUME NEW r \in ToSet(ids)
          PROVE  Dated(Known(r), now) /\ (times[r] = None <=> s = 1)
      <3>1. /\ Complete(Known(r), s - 1) /\ s \in Int
            /\ times[r] = IF s - 1 = 0 THEN None ELSE Enc(Known(r))
        BY <2>3, PipelineAssumption DEF Carries, Stages
      <3>2. Enc(Known(r)) # None
        BY EncodingIs
      <3> QED
        BY <3>1, <3>2 DEF Complete
    <2>6. Wrapped(ids) = IF s = 1 THEN None
                         ELSE Str(List([i \in 1..n |-> times[ids[i]]]))
      <3>1. ids[1] \in ToSet(ids)
        BY <1>3, <2>2
      <3>2. CASE n = 1
        <4>1. [i \in 1..n |-> times[ids[i]]] = <<times[ids[1]]>>
          BY <3>2
        <4> QED
          BY <1>3, <2>5, <3>1, <3>2, <4>1 DEF Wrapped, Merged
      <3>3. CASE n # 1
        BY <1>3, <2>5, <3>1, <3>3 DEF Wrapped, Merged
      <3> QED
        BY <3>2, <3>3
    <2>7. c.times = Brought(c)'
      BY <1>1, <1>3, <2>1, <2>6 DEF Brought
    <2>8. \A r \in ToSet(ids) : Dated(Known(r), now)'
      <3>1. \A r \in ToSet(ids) : Known(r)' = Known(r)
        BY <1>1 DEF Known
      <3>2. \A r \in ToSet(ids) : \A e \in Known(r) :
               e.arrival \in Nat /\ e.serving \in Nat /\ e.serving <= now
        BY <2>5 DEF Dated
      <3> QED
        BY <1>1, <3>1, <3>2 DEF Dated
    <2>9. ids # <<>> /\ Len(ids) <= setup.size[s]
      BY <1>1, <1>3
    <2>10. \A r \in ToSet(ids) : \A e \in Known(r)' :
              e.arrival \in Nat /\ e.serving \in Nat /\ e.serving <= now
      BY <1>1, <2>8 DEF Dated
    <2> QED
      BY <1>1, <2>1, <2>7, <2>9, <2>10 DEF BatchOK, Dated
  <1>8. \A b \in batches' : BatchOK(b)'
    <2> HIDE DEF batch
    <2> QED
      BY <1>1, <1>6, <1>7
  <1> QED
    BY <1>1, <1>5, <1>8 DEF TimesInv

\* A batch ends for its requests only, in a place where nothing is said of their times
LEMMA OthersSurvive ==
    ASSUME SurviveInv, NEW b \in batches,
           UNCHANGED <<setup, now, stage, mates>>, batches' = batches \ {b},
           \A q \in Requests : passage[q] \subseteq passage'[q],
           times' = [r \in Requests |-> times'[r]],
           \A r \in Requests : r \notin ToSet(b.ids) => at'[r] = at[r] /\ times'[r] = times[r],
           \A r \in ToSet(b.ids) : RequestOK(r)'
    PROVE  TimesInv'
  <1> USE DEF SurviveInv
  <1>1. TypeInv /\ now' \in Nat /\ now' >= now
    BY DEF DropInv, TypeInv
  <1>2. ASSUME NEW r \in Requests PROVE RequestOK(r)'
    <2>1. CASE r \in ToSet(b.ids)
      BY <2>1
    <2>2. CASE r \notin ToSet(b.ids)
      BY <1>1, <2>2, RequestKeeps DEF TimesInv
    <2> QED
      BY <2>1, <2>2
  <1>3. ASSUME NEW c \in batches' PROVE BatchOK(c)'
    <2>1. c \in batches /\ c # b
      OBVIOUS
    <2>2. ToSet(c.ids) \cap ToSet(b.ids) = {}
      BY <2>1 DEF DropInv, PlaceInv
    <2>3. \A r \in ToSet(c.ids) : r \in Requests
      BY <2>1, Members
    <2>4. \A r \in ToSet(c.ids) : times'[r] = times[r]
      BY <2>2, <2>3
    <2> QED
      BY <1>1, <2>1, <2>4, BatchKeeps DEF TimesInv
  <1> QED
    BY <1>2, <1>3 DEF TimesInv

LEMMA FailSurvives ==
    ASSUME SurviveInv, NEW b \in batches, Fail(b), setup.fails,
           UNCHANGED <<setup, now, stage, arrival, waiting, passage, mates>>
    PROVE  TimesInv'
  <1>1. /\ batches' = batches \ {b} /\ UNCHANGED times
        /\ at' = [r \in Requests |-> IF r \in ToSet(b.ids) THEN "failed" ELSE at[r]]
    BY DEF Fail, Respond
  <1>2. \A r \in ToSet(b.ids) : at'[r] = "failed"
    BY <1>1, Members
  <1>3. \A r \in ToSet(b.ids) : RequestOK(r)'
    BY <1>2 DEF RequestOK
  <1>4. times' = [r \in Requests |-> times'[r]]
    BY <1>1 DEF SurviveInv, TimesInv
  <1> QED
    BY <1>1, <1>3, <1>4, OthersSurvive

\* A node can read what the requests bring, and adds its entry to what the last one knows
LEMMA NodeSays ==
    ASSUME SurviveInv, NEW b \in batches, ~b.returned, NEW own, Units(own) = {NodeOf(b.stage)}
    PROVE  /\ NodeTimes(b.times, Len(b.ids), Dict(own)) =
                 NodeText(Len(b.ids), own \cup Known(LastOf(b.ids)))
           /\ NodeTimes(b.times, Len(b.ids), Dict(own)) # Error
  <1> DEFINE n == Len(b.ids)
             d == [i \in 1..n |-> Known(b.ids[i])]
             U == UnitsTo(b.stage - 1)
  <1>1. n \in Nat /\ n # 0 /\ b.stage \in 1..NumStages /\ NumStages \in Nat
    BY Members
  <1>2. b.times = Brought(b)
    BY DEF SurviveInv, TimesInv, BatchOK
  <1>3. d[n] = Known(LastOf(b.ids))
    BY <1>1 DEF LastOf
  <1>4. \A i \in 1..n : /\ Units(d[i]) = U
                        /\ times[b.ids[i]] = IF b.stage - 1 = 0 THEN None ELSE Enc(d[i])
    BY Members DEF Carries, Complete
  <1>5. CASE b.stage = 1
    <2>1. b.times = None
      BY <1>2, <1>5 DEF Brought
    <2>2. Known(LastOf(b.ids)) = {}
      <3>1. times[LastOf(b.ids)] = None
        <4>1. Carries(LastOf(b.ids), b.stage - 1) /\ b.stage - 1 = 0
          BY <1>5, Members
        <4> QED
          BY <4>1 DEF Carries
      <3> QED
        BY <3>1, EncodingIs DEF Known
    <2>3. own \cup Known(LastOf(b.ids)) = own
      BY <2>2
    <2>4. NodeTimes(b.times, n, Dict(own)) = NodeText(n, own)
      <3> HIDE DEF n
      <3> QED
        BY <2>1, FirstNodeTimes
    <2>5. NodeText(n, own) # Error
      BY NodeTextIsText
    <2> QED
      BY <2>3, <2>4, <2>5
  <1>6. CASE b.stage # 1
    <2>1. b.times = Sent(n, d)
      <3>1. b.times = Str(List([i \in 1..n |-> times[b.ids[i]]]))
        BY <1>2, <1>6 DEF Brought
      <3>2. \A i \in 1..n : times[b.ids[i]] = Enc(d[i])
        BY <1>1, <1>4, <1>6
      <3>3. [i \in 1..n |-> times[b.ids[i]]] = [i \in 1..n |-> Enc(d[i])]
        BY <3>2
      <3> QED
        BY <3>1, <3>3 DEF Sent
    <2>2. \A e \in own : e.unit \notin U
      <3>1. \A e \in own : e.unit[1] = "node" /\ e.unit[2] = b.stage
        BY UnitsDiffer DEF Units
      <3>2. \A x \in U : x[2] \in 1..b.stage - 1
        BY UnitsDiffer DEF UnitsTo
      <3>3. b.stage \notin 1..b.stage - 1
        BY <1>1
      <3> QED
        BY <3>1, <3>2, <3>3
    <2>3. \A i \in 1..n : Units(d[i]) = U
      BY <1>4
    <2> HIDE DEF n, d, U
    <2>4. NodeTimes(Sent(n, d), n, Dict(own)) = NodeText(n, own \cup d[n])
      BY <1>1, <2>2, <2>3, LaterNodeTimes
    <2> QED
      BY <1>3, <2>1, <2>4, NodeTextIsText DEF n
  <1> QED
    BY <1>5, <1>6

LEMMA NodePredictSurvives ==
    ASSUME SurviveInv, NEW b \in batches, NodePredict(b)
    PROVE  TimesInv'
  <1> USE DEF SurviveInv
  <1>1. /\ TypeInv /\ now' \in Nat /\ now' >= now /\ now \in Nat /\ BatchOK(b) /\ IsBatch(b)
        /\ ~b.returned
        /\ UNCHANGED <<setup, now, stage, passage, mates>>
    BY DEF DropInv, TypeInv, NodePredict, TimesInv
  <1>2. PICK arrived \in b.arrival..now :
           LET own == Times(NodeOf(b.stage), arrived)
               t == NodeTimes(b.times, Len(b.ids), Dict(own))
           IN  IF t = Error THEN Fail(b)
               ELSE /\ batches' = (batches \ {b}) \cup
                          {[b EXCEPT !.returned = TRUE, !.node = own, !.times = t]}
                    /\ UNCHANGED <<at, times>>
    BY DEF NodePredict
  <1>3. PICK own : own = Times(NodeOf(b.stage), arrived)
    OBVIOUS
  <1>4. PICK t : t = NodeTimes(b.times, Len(b.ids), Dict(own))
    OBVIOUS
  <1>5. own = {[unit |-> NodeOf(b.stage), arrival |-> arrived, serving |-> now]}
    BY <1>3 DEF Times
  <1>6. Units(own) = {NodeOf(b.stage)}
    BY <1>5 DEF Units
  <1>7. t = NodeText(Len(b.ids), own \cup Known(LastOf(b.ids))) /\ t # Error
    BY <1>1, <1>4, <1>6, NodeSays
  <1>8. PICK c : c = [b EXCEPT !.returned = TRUE, !.node = own, !.times = t]
    OBVIOUS
  <1>9. batches' = (batches \ {b}) \cup {c} /\ UNCHANGED <<at, times>>
    BY <1>2, <1>3, <1>4, <1>7, <1>8
  <1>10. /\ c.stage = b.stage /\ c.ids = b.ids /\ c.arrival = b.arrival
         /\ c.returned = TRUE /\ c.node = own /\ c.times = t
    BY <1>1, <1>8 DEF IsBatch
  <1>11. BatchOK(c)'
    <2>1. BatchOK(b)'
      BY <1>1, <1>9, BatchKeeps
    <2>2. Known(LastOf(b.ids))' = Known(LastOf(b.ids))
      BY <1>9 DEF Known
    <2>3. Returned(c)'
      <3>1. arrived \in b.arrival..now' /\ now \in arrived..now'
        BY <1>1 DEF BatchOK
      <3>2. \E a \in b.arrival..now' : \E x \in a..now' :
               own = {[unit |-> NodeOf(b.stage), arrival |-> a, serving |-> x]}
        BY <1>5, <3>1
      <3> QED
        BY <1>7, <1>10, <2>2, <3>2 DEF Returned
    <2> QED
      BY <1>10, <2>1, <2>3 DEF BatchOK
  <1>12. ASSUME NEW r \in Requests PROVE RequestOK(r)'
    BY <1>1, <1>9, RequestKeeps DEF TimesInv
  <1>13. ASSUME NEW x \in batches' PROVE BatchOK(x)'
    <2>1. CASE x = c
      BY <1>11, <2>1
    <2>2. CASE x # c
      BY <1>1, <1>9, <2>2, BatchKeeps DEF TimesInv
    <2> QED
      BY <2>1, <2>2
  <1> QED
    BY <1>1, <1>9, <1>12, <1>13 DEF TimesInv

\* The queue adds its entry: of every request the whole batch's entries are its own, and
\* of the stages before, those of the last request
LEMMA QueueReturnsSurvives ==
    ASSUME SurviveInv, NEW b \in batches, QueueReturns(b)
    PROVE  TimesInv'
  <1> USE DEF SurviveInv
  <1> DEFINE n == Len(b.ids)
             k == b.stage
             last == LastOf(b.ids)
             own == Times(QueueOf(k), b.arrival)
             d == Known(last)
             D == (b.node \cup d) \cup own
             result == [i \in 1..n |-> QueueTimes(b.times, i, n, setup.size[k], own)]
  <1>1. /\ TypeInv /\ BatchOK(b) /\ b.returned /\ Returned(b)
        /\ times = [r \in Requests |-> times[r]]
    BY DEF DropInv, TimesInv, BatchOK, QueueReturns
  <1>2. /\ k \in 1..NumStages /\ NumStages \in Nat /\ now \in Nat /\ n \in Nat \ {0}
        /\ last \in ToSet(b.ids) /\ last \in Requests
        /\ setup.size[k] \in Nat \ {0} /\ n <= setup.size[k]
        /\ \A r \in ToSet(b.ids) : /\ r \in Requests /\ \E i \in 1..n : b.ids[i] = r
                                   /\ at[r] = "queue" /\ stage[r] = k
                                   /\ mates[k][r] = ToSet(b.ids)
    BY Members
  <1>3. Carries(last, k - 1) /\ Dated(d, b.arrival) /\ b.arrival \in Nat
    BY <1>1, <1>2, Members DEF BatchOK
  <1>4. PICK a \in b.arrival..now : \E t \in a..now :
           b.node = {[unit |-> NodeOf(k), arrival |-> a, serving |-> t]}
    BY <1>1 DEF Returned
  <1>5. PICK t \in a..now : b.node = {[unit |-> NodeOf(k), arrival |-> a, serving |-> t]}
    BY <1>4
  <1>6. own = {[unit |-> QueueOf(k), arrival |-> b.arrival, serving |-> now]}
    BY DEF Times
  <1>7. PICK oo, dd, DD, u, arr : oo = own /\ dd = d /\ DD = D /\ u = now /\ arr = b.arrival
    OBVIOUS
  <1>8. /\ Units(DD) = UnitsTo(k) /\ OneEach(DD) /\ InOrder(DD) /\ Dated(DD, u)
        /\ \A e \in b.node \cup dd : e.unit \notin Units(oo)
        /\ OfStage(DD, k) = b.node \cup oo
        /\ \A s \in 1..k - 1 : OfStage(DD, s) = OfStage(dd, s)
    <2>1. Units(dd) = UnitsTo(k - 1) /\ OneEach(dd) /\ InOrder(dd) /\ Dated(dd, arr)
      BY <1>3, <1>7 DEF Carries, Complete
    <2>2. /\ arr \in Nat /\ a \in Nat /\ t \in Nat /\ u \in Nat
          /\ arr <= a /\ a <= t /\ t <= u /\ k \in Nat \ {0}
      BY <1>2, <1>3, <1>4, <1>5, <1>7
    <2>3. /\ b.node = Entry(NodeOf(k), a, t) /\ oo = Entry(QueueOf(k), arr, u)
          /\ DD = AfterStage(dd, k, arr, a, t, u)
      BY <1>5, <1>6, <1>7 DEF Entry, AfterStage
    <2> HIDE DEF k
    <2> QED
      BY <2>1, <2>2, <2>3, StageAdds
  <1>9. ASSUME NEW i \in 1..n PROVE result[i] = Enc(DD)
    <2>1. b.times = NodeText(n, b.node \cup dd)
      BY <1>1, <1>7 DEF Returned
    <2>2. result[i] = QueueTimes(NodeText(n, b.node \cup dd), i, n, setup.size[k], oo)
      BY <1>7, <2>1
    <2>3. QueueTimes(NodeText(n, b.node \cup dd), i, n, setup.size[k], oo) =
             Enc((b.node \cup dd) \cup oo)
      <3> HIDE DEF n
      <3> QED
        BY <1>2, <1>8, QueueTimesAre
    <2> QED
      BY <1>7, <2>2, <2>3
  <1>10. Enc(DD) # Error
    BY EncodingIs
  <1>11. /\ batches' = batches \ {b}
         /\ passage' = [r \in Requests |-> IF r \in ToSet(b.ids)
                                           THEN passage[r] \cup own \cup b.node
                                           ELSE passage[r]]
         /\ UNCHANGED <<setup, now, stage, mates>>
         /\ \/ Respond(b.ids, "dropped")
            \/ \E i \in 1..n : result[i] = Error
            \/ /\ at' = [r \in Requests |-> IF r \in ToSet(b.ids) THEN "router" ELSE at[r]]
               /\ times' = [r \in Requests |-> IF r \in ToSet(b.ids)
                                               THEN result[CHOOSE i \in 1..n : b.ids[i] = r]
                                               ELSE times[r]]
    BY DEF QueueReturns
  <1> HIDE DEF result, n, D, d, own
  <1>12. \A q \in Requests : passage[q] \subseteq passage'[q]
    BY <1>11
  <1>13. CASE Respond(b.ids, "dropped")
    <2>1. /\ UNCHANGED times
          /\ at' = [r \in Requests |-> IF r \in ToSet(b.ids) THEN "dropped" ELSE at[r]]
      BY <1>13 DEF Respond
    <2>2. \A r \in ToSet(b.ids) : RequestOK(r)'
      BY <1>2, <2>1 DEF RequestOK
    <2>3. times' = [r \in Requests |-> times'[r]]
      BY <1>1, <2>1
    <2> QED
      BY <1>11, <1>12, <2>1, <2>2, <2>3, OthersSurvive
  <1>14. CASE \E i \in 1..n : result[i] = Error
    BY <1>9, <1>10, <1>14
  <1>15. CASE /\ at' = [r \in Requests |-> IF r \in ToSet(b.ids) THEN "router" ELSE at[r]]
              /\ times' = [r \in Requests |-> IF r \in ToSet(b.ids)
                                              THEN result[CHOOSE i \in 1..n : b.ids[i] = r]
                                              ELSE times[r]]
    <2>1. ASSUME NEW r \in ToSet(b.ids) PROVE RequestOK(r)'
      <3>1. at'[r] = "router" /\ times'[r] = Enc(DD) /\ stage'[r] = k
        <4>1. \E i \in 1..n : b.ids[i] = r
          BY <1>2
        <4>2. (CHOOSE i \in 1..n : b.ids[i] = r) \in 1..n
          BY <4>1
        <4> QED
          BY <1>2, <1>9, <1>11, <1>15, <4>2
      <3>2. Known(r)' = DD
        BY <3>1, EncodingIs DEF Known
      <3>3. Complete(DD, k)'
        BY <1>7, <1>8, <1>11 DEF Complete, Dated
      <3>4. ASSUME NEW s \in 1..k
            PROVE  \E q \in Requests :
                      /\ OfStage(DD, s) \subseteq passage'[q]
                      /\ (\A later \in s + 1..k : mates'[later][r] = {r}) => q = r
        <4>1. CASE s = k
          <5>1. passage'[r] = passage[r] \cup own \cup b.node /\ r \in Requests
            BY <1>2, <1>11
          <5> QED
            BY <1>7, <1>8, <4>1, <5>1
        <4>2. CASE s # k
          <5>1. s \in 1..k - 1 /\ k \in s + 1..k
            BY <1>2, <4>2
          <5>2. PICK q \in Requests :
                   /\ OfStage(dd, s) \subseteq passage[q]
                   /\ (\A later \in s + 1..k - 1 : mates[later][last] = {last}) => q = last
            <6>1. Owned(last, dd, k - 1)
              BY <1>3, <1>7 DEF Carries, d
            <6> QED
              BY <5>1, <6>1 DEF Owned, Alone
          <5>3. OfStage(DD, s) \subseteq passage'[q]
            BY <1>8, <1>12, <5>1, <5>2
          <5>4. ASSUME \A later \in s + 1..k : mates'[later][r] = {r} PROVE q = r
            <6>1. ToSet(b.ids) = {r}
              BY <1>2, <1>11, <5>1, <5>4
            <6>2. last = r
              BY <1>2, <6>1
            <6>3. \A later \in s + 1..k - 1 : later \in s + 1..k
              BY <1>2
            <6> QED
              BY <1>11, <5>2, <5>4, <6>2, <6>3
          <5> QED
            BY <5>3, <5>4
        <4> QED
          BY <4>1, <4>2
      <3>5. Owned(r, DD, k)'
        BY <3>4 DEF Owned, Alone
      <3>6. Carries(r, k)'
        BY <1>2, <3>1, <3>2, <3>3, <3>5 DEF Carries
      <3> QED
        BY <1>2, <3>1, <3>6 DEF RequestOK, Carries, Stages
    <2>2. times' = [r \in Requests |-> times'[r]]
      BY <1>15
    <2>3. \A r \in Requests : r \notin ToSet(b.ids) => at'[r] = at[r] /\ times'[r] = times[r]
      BY <1>15
    <2> QED
      BY <1>11, <1>12, <2>1, <2>2, <2>3, OthersSurvive
  <1> QED
    BY <1>11, <1>13, <1>14, <1>15

----------------------------------------------------------------------------
LEMMA SurviveStep == SurviveInv /\ [Next]_vars => SurviveInv'
  <1> SUFFICES ASSUME SurviveInv, [Next]_vars PROVE TimesInv'
    BY DropStep DEF SurviveInv
  <1>1. ASSUME NEW r \in Requests, RouterStep(r) PROVE TimesInv'
    BY <1>1, PredictSurvives, NextStageSurvives, AnswerSurvives DEF RouterStep
  <1>2. ASSUME NEW s \in Stages, QueueStep(s) PROVE TimesInv'
    BY <1>2, QueuePredictSurvives DEF QueueStep
  <1>3. ASSUME NEW b \in batches, BatchStep(b) PROVE TimesInv'
    BY <1>3, NodePredictSurvives, FailSurvives, QueueReturnsSurvives DEF BatchStep, NodeRaises
  <1>4. CASE Tick \/ UNCHANGED vars
    <2>1. /\ now \in Nat /\ now' \in Nat /\ now' >= now /\ TypeInv
          /\ UNCHANGED <<setup, at, stage, times, batches, passage, mates>>
      BY <1>4 DEF Tick, vars, SurviveInv, DropInv, TypeInv
    <2>2. ASSUME NEW r \in Requests PROVE RequestOK(r)'
      BY <2>1, RequestKeeps DEF SurviveInv, TimesInv
    <2>3. ASSUME NEW b \in batches PROVE BatchOK(b)'
      BY <2>1, BatchKeeps DEF SurviveInv, TimesInv
    <2> QED
      BY <2>1, <2>2, <2>3 DEF SurviveInv, TimesInv
  <1> QED
    BY <1>1, <1>2, <1>3, <1>4 DEF Next

\* The times of a request survive their way through queues that batch and queues that do
\* not (pipelines/queue/models.py:162): whatever the sizes of the batches, they can be
\* read at every hop and are complete in the end
THEOREM TimesReachTheClient == Spec => []TimesSurvive
  <1>1. SurviveInv => TimesSurvive
    BY DEF SurviveInv, TimesInv, RequestOK, Delivered, TimesSurvive
  <1>2. Init => SurviveInv
    BY DropInit, SurviveInit DEF SurviveInv
  <1> QED
    BY <1>1, <1>2, SurviveStep, PTL DEF Spec

\* The times of a stage are those of a request that passed it, and of this one unless it
\* was batched with others later; those of the router are always its own
THEOREM TimesAreItsOwn == Spec => []OwnTimes
  <1>1. SurviveInv => OwnTimes
    <2> SUFFICES ASSUME SurviveInv, NEW r \in Requests, at[r] = "answered"
                 PROVE  /\ \A e \in Trace(r) : e.unit = Router => e \in passage[r]
                        /\ \A s \in Stages : \E q \in Requests :
                              /\ {e \in Trace(r) : e.unit \in {QueueOf(s), NodeOf(s)}}
                                    \subseteq passage[q]
                              /\ (\A later \in s + 1..NumStages : Alone(r, later)) => q = r
      BY DEF OwnTimes
    <2>1. Delivered(r)
      BY DEF SurviveInv, TimesInv, RequestOK
    <2> QED
      BY <2>1 DEF Delivered, Owned, OfStage, Stages
  <1>2. Init => SurviveInv
    BY DropInit, SurviveInit DEF SurviveInv
  <1> QED
    BY <1>1, <1>2, SurviveStep, PTL DEF Spec
=============================================================================
