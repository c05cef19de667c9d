-------------------------- MODULE SharedOpsProofs --------------------------
(***************************************************************************)
(* Lemmas about the two modules of operators that several components       *)
(* share: what the operators of BreakerOps return, for all thresholds, and *)
(* what those of AlertStore return, for all capacities and all kinds of    *)
(* entries.                                                                *)
(***************************************************************************)
EXTENDS BreakerOps, AlertStore, SequenceTheorems, FiniteSetTheorems, TLAPS

USE FailureThresholdAssumption, SuccessThresholdAssumption, TimeoutAssumption,
    MaxEntriesAssumption

----------------------------------------------------------------------------
(***************************************************************************)
(* Breakers.  OnSuccess needs a counter below its threshold, which is what *)
(* the modules that hold a breaker keep as an invariant.                   *)
(***************************************************************************)
\* A new breaker is well formed (circuit_breaker.py:39-47).
LEMMA NewBreakerType == NewBreaker \in Breaker
  BY DEF NewBreaker, Breaker, CircuitState, NoFailure

\* The guard keeps a breaker well formed (circuit_breaker.py:74-86).
LEMMA AdmitType ==
  ASSUME NEW b \in Breaker
  PROVE  Admit(b) \in Breaker
  BY DEF Admit, Breaker, CircuitState

\* A recorded success keeps a breaker well formed (circuit_breaker.py:88-95).
LEMMA OnSuccessType ==
  ASSUME NEW b \in Breaker, b.successCount < SuccessThreshold
  PROVE  OnSuccess(b) \in Breaker
  BY DEF OnSuccess, Breaker, CircuitState

\* A recorded failure keeps a breaker well formed (circuit_breaker.py:97-105).
LEMMA OnFailureType ==
  ASSUME NEW b \in Breaker
  PROVE  OnFailure(b) \in Breaker
  BY DEF OnFailure, Breaker, CircuitState

\* So does the passing of time.
LEMMA ElapseType ==
  ASSUME NEW b \in Breaker
  PROVE  Elapse(b) \in Breaker
  BY DEF Elapse, Breaker, NoFailure

----------------------------------------------------------------------------
(***************************************************************************)
(* Stores.  An entry that is moved to the end leaves the order of the      *)
(* others as it was.                                                       *)
(***************************************************************************)

\* No two entries of a store have the same id.
Distinct(s) == \A i, j \in DOMAIN s : s[i].id = s[j].id => i = j

\* An element is taken out of a sequence.
LEMMA RemoveAtType ==
  ASSUME NEW E, NEW s \in Seq(E), NEW p \in 1 .. Len(s)
  PROVE  /\ RemoveAt(s, p) \in Seq(E)
         /\ Len(RemoveAt(s, p)) = Len(s) - 1
         /\ \A j \in 1 .. Len(s) - 1 :
              RemoveAt(s, p)[j] = s[IF j < p THEN j ELSE j + 1]
<1> DEFINE n == Len(s)
           left == SubSeq(s, 1, p - 1)
           right == SubSeq(s, p + 1, n)
<1>1. n \in Nat /\ p \in 1 .. n
    BY LenProperties
<1>2. \A i \in 1 .. n : s[i] \in E
    BY ElementOfSeq
<1>3. /\ left \in Seq(E) /\ Len(left) = p - 1
      /\ \A i \in 1 .. p - 1 : left[i] = s[i]
  <2>1. 1 \in 1 .. n + 1 /\ p - 1 \in 1 - 1 .. n
      BY <1>1
  <2>2. QED BY <1>1, <1>2, <2>1, SubSeqProperties
<1>4. /\ right \in Seq(E) /\ Len(right) = n - p
      /\ \A i \in 1 .. n - p : right[i] = s[p + i]
  <2>1. p + 1 \in 1 .. n + 1 /\ n \in (p + 1) - 1 .. n
      BY <1>1
  <2>2. QED BY <1>1, <1>2, <2>1, SubSeqProperties
<1>5. RemoveAt(s, p) = left \o right
    BY DEF RemoveAt
<1> HIDE DEF left, right, n
<1>6. /\ left \o right \in Seq(E) /\ Len(left \o right) = n - 1
      /\ \A i \in 1 .. n - 1 :
           (left \o right)[i] = IF i <= p - 1 THEN left[i] ELSE right[i - (p - 1)]
  <2>1. /\ left \o right \in Seq(E) /\ Len(left \o right) = Len(left) + Len(right)
        /\ \A i \in 1 .. Len(left) + Len(right) :
             (left \o right)[i] = IF i <= Len(left) THEN left[i] ELSE right[i - Len(left)]
      BY <1>3, <1>4, ConcatProperties
  <2>2. Len(left) = p - 1 /\ Len(left) + Len(right) = n - 1
      BY <1>1, <1>3, <1>4
  <2>3. QED BY <2>1, <2>2
<1>7. \A j \in 1 .. n - 1 : (left \o right)[j] = s[IF j < p THEN j ELSE j + 1]
    BY <1>1, <1>3, <1>4, <1>6
<1>8. QED BY <1>5, <1>6, <1>7 DEF n

\* A stored id has a place and an entry (alert_cache.py:111-122).
LEMMA PlaceOfStored ==
  ASSUME NEW E, NEW s \in Seq(E), NEW id \in StoredIds(s)
  PROVE  /\ PlaceOf(s, id) \in 1 .. Len(s) /\ s[PlaceOf(s, id)].id = id
         /\ EntryOf(s, id) \in E /\ EntryOf(s, id).id = id
<1>1. DOMAIN s = 1 .. Len(s)
    BY LenProperties
<1>2. \E i \in DOMAIN s : s[i].id = id
    BY DEF StoredIds
<1>3. PlaceOf(s, id) \in DOMAIN s /\ s[PlaceOf(s, id)].id = id
    BY <1>2 DEF PlaceOf
<1>4. QED BY <1>1, <1>3, ElementOfSeq DEF EntryOf

\* An id that is present is taken out (alert_cache.py:140-143).
LEMMA WithoutStored ==
  ASSUME NEW E, NEW s \in Seq(E), NEW id \in StoredIds(s)
  PROVE  /\ Without(s, id) \in Seq(E) /\ Len(Without(s, id)) = Len(s) - 1
         /\ Len(s) - 1 \in Nat
         /\ \A j \in 1 .. Len(s) - 1 :
              Without(s, id)[j] = s[IF j < PlaceOf(s, id) THEN j ELSE j + 1]
<1>1. PlaceOf(s, id) \in 1 .. Len(s) /\ Len(s) \in Nat
    BY PlaceOfStored, LenProperties
<1>2. Len(s) - 1 \in Nat
    BY <1>1
<1>3. QED BY <1>1, <1>2, RemoveAtType DEF Without

\* A hit keeps the store a store of the same size (alert_cache.py:111-122).
LEMMA GetType ==
  ASSUME NEW E, NEW s \in Seq(E), NEW id
  PROVE  Get(s, id) \in Seq(E) /\ Len(Get(s, id)) = Len(s)
<1>1. CASE id \in StoredIds(s)
  <2>1. Without(s, id) \in Seq(E) /\ Len(Without(s, id)) = Len(s) - 1 /\ Len(s) - 1 \in Nat
      BY <1>1, WithoutStored
  <2>2. EntryOf(s, id) \in E
      BY <1>1, PlaceOfStored
  <2>3. Get(s, id) = Append(Without(s, id), EntryOf(s, id))
      BY <1>1 DEF Get
  <2>4. Len(Append(Without(s, id), EntryOf(s, id))) = (Len(s) - 1) + 1
        /\ Append(Without(s, id), EntryOf(s, id)) \in Seq(E)
      BY <2>1, <2>2, AppendProperties
  <2>5. Len(s) \in Nat
      BY LenProperties
  <2>6. QED BY <2>3, <2>4, <2>5
<1>2. CASE id \notin StoredIds(s)
    BY <1>2 DEF Get
<1>3. QED BY <1>1, <1>2

\* What a put of a new id evicts is the oldest entry of a full store, and
\* nothing else (alert_cache.py:131-138).
LEMMA PutNew ==
  ASSUME NEW E, NEW s \in Seq(E), Len(s) <= MaxEntries, NEW e \in E, e.id \notin StoredIds(s)
  PROVE  /\ Put(s, e) \in Seq(E)
         /\ Len(s) < MaxEntries => Put(s, e) = Append(s, e)
         /\ Len(s) = MaxEntries =>
              /\ Len(Put(s, e)) = MaxEntries
              /\ \A j \in 1 .. MaxEntries :
                   Put(s, e)[j] = IF j = MaxEntries THEN e ELSE s[j + 1]
<1> DEFINE l == Append(s, e)
<1>1. /\ l \in Seq(E) /\ Len(s) \in Nat /\ Len(l) = Len(s) + 1
      /\ \A i \in 1 .. Len(s) : l[i] = s[i]
      /\ l[Len(s) + 1] = e
    BY AppendProperties, LenProperties
<1>2. Put(s, e) = IF Len(l) > MaxEntries
                  THEN SubSeq(l, Len(l) - MaxEntries + 1, Len(l)) ELSE l
    BY DEF Put, Evict
<1> HIDE DEF l
<1>3. CASE Len(s) < MaxEntries
  <2>1. ~(Len(l) > MaxEntries)
      BY <1>1, <1>3
  <2>2. QED BY <1>1, <1>2, <1>3, <2>1 DEF l
<1>4. CASE Len(s) = MaxEntries
  <2>1. /\ Len(l) > MaxEntries /\ Len(l) - MaxEntries + 1 = 2
        /\ Len(l) = MaxEntries + 1
        /\ 2 \in 1 .. Len(l) + 1 /\ Len(l) \in 2 - 1 .. Len(l)
      BY <1>1, <1>4
  <2>2. Put(s, e) = SubSeq(l, 2, Len(l))
      BY <1>2, <2>1
  <2>3. \A i \in 2 .. Len(l) : l[i] \in E
      BY <1>1, ElementOfSeq
  <2>4. /\ SubSeq(l, 2, Len(l)) \in Seq(E)
        /\ Len(SubSeq(l, 2, Len(l))) = (Len(l) - 2) + 1
        /\ \A i \in 1 .. (Len(l) - 2) + 1 : SubSeq(l, 2, Len(l))[i] = l[2 + i - 1]
      BY <1>1, <2>1, <2>3, SubSeqProperties
  <2>5. \A j \in 1 .. MaxEntries :
          Put(s, e)[j] = IF j = MaxEntries THEN e ELSE s[j + 1]
      BY <1>1, <1>4, <2>1, <2>2, <2>4
  <2>6. QED BY <1>4, <2>1, <2>2, <2>4, <2>5
<1>5. QED BY <1>1, <1>3, <1>4

\* A put keeps the store within its capacity (alert_cache.py:124-138).
LEMMA PutType ==
  ASSUME NEW E, NEW s \in Seq(E), Len(s) <= MaxEntries, NEW e \in E
  PROVE  Put(s, e) \in Seq(E) /\ Len(Put(s, e)) <= MaxEntries
<1>1. Len(s) \in Nat
    BY LenProperties
<1>2. CASE e.id \in StoredIds(s)
  <2>1. /\ Without(s, e.id) \in Seq(E) /\ Len(Without(s, e.id)) = Len(s) - 1
      BY <1>2, WithoutStored
  <2>2. /\ Append(Without(s, e.id), e) \in Seq(E)
        /\ Len(Append(Without(s, e.id), e)) = (Len(s) - 1) + 1
      BY <2>1, AppendProperties
  <2>3. QED BY <1>1, <1>2, <2>2 DEF Put
<1>3. CASE e.id \notin StoredIds(s)
  <2>1. CASE Len(s) < MaxEntries
    <3>1. Put(s, e) = Append(s, e)
        BY <1>3, <2>1, PutNew
    <3>2. Append(s, e) \in Seq(E) /\ Len(Append(s, e)) = Len(s) + 1
        BY AppendProperties
    <3>3. QED BY <1>1, <2>1, <3>1, <3>2
  <2>2. CASE Len(s) = MaxEntries
    <3>1. Put(s, e) \in Seq(E) /\ Len(Put(s, e)) = MaxEntries
        BY <1>3, <2>2, PutNew
    <3>2. QED BY <3>1
  <2>3. QED BY <1>1, <2>1, <2>2
<1>4. QED BY <1>2, <1>3

=============================================================================
