-------------------------- MODULE TokenBucketProofs --------------------------
(***************************************************************************)
(* The bucket never admits more than the configured limit, for all rates,  *)
(* bursts, clients and steps of the clock.                                 *)
(***************************************************************************)
EXTENDS TokenBucket, TLAPS

USE UnitAssumption, BurstAssumption, RateAssumption, ClockStepsAssumption,
    BoundsAssumption

----------------------------------------------------------------------------
(***************************************************************************)
(* NeverOverLimit is not inductive: it says nothing of the tokens that a   *)
(* later request may take.  Covered does: unless the credit is full, it    *)
(* covers the tokens in the bucket and all that the time since the last    *)
(* refill could still bring at the configured rate.  Time that ran         *)
(* backwards brings nothing.                                               *)
(***************************************************************************)
Pending == AtLeast(sinceRefill, 0)

Covered == credit = Burst \/ tokens + Base * Pending <= credit

IInv == TypeOK /\ NeverOverLimit /\ Covered

\* A product grows with its first factor.
LEMMA ProductMonotone ==
  ASSUME NEW a \in Int, NEW b \in Int, NEW k \in Nat, a <= b
  PROVE  k * a <= k * b
  <1>1. b - a \in Nat
    OBVIOUS
  <1>2. k * (b - a) >= 0
    BY <1>1
  <1>3. k * (b - a) = k * b - k * a
    OBVIOUS
  <1>4. QED BY <1>2, <1>3

\* The rates the notifications set stay between the floor and the base.
LEMMA FasterInRange ==
  ASSUME TypeOK PROVE Faster \in Floor .. Base
  BY DEF TypeOK, Faster, AtMost

LEMMA SlowerInRange ==
  ASSUME TypeOK PROVE Slower \in Floor .. Base
  BY DEF TypeOK, Slower, AtLeast

\* A refill takes no more than the pending time covers.
LEMMA RefilledCovered ==
  ASSUME IInv
  PROVE  /\ Refilled \in Int
         /\ Refilled <= Burst
         /\ credit # Burst => Refilled <= credit
  <1> USE DEF IInv, TypeOK
  <1>1. sinceRefill * rate \in Int /\ Base * Pending \in Int /\ rate \in Nat
    BY DEF Pending, AtLeast
  <1>2. sinceRefill * rate <= Base * Pending
    <2>1. CASE sinceRefill >= 0
      <3>1. sinceRefill * rate <= sinceRefill * Base
        BY <2>1, ProductMonotone
      <3>2. sinceRefill * Base = Base * Pending
        BY <2>1 DEF Pending, AtLeast
      <3>3. QED BY <1>1, <3>1, <3>2
    <2>2. CASE sinceRefill < 0
      <3>1. rate * sinceRefill <= rate * 0
        BY <1>1, <2>2, ProductMonotone
      <3>2. Base * Pending = 0
        BY <2>2 DEF Pending, AtLeast
      <3>3. QED BY <1>1, <3>1, <3>2
    <2>3. QED BY <2>1, <2>2
  <1>3. QED
    BY <1>1, <1>2 DEF Refilled, AtMost, Covered

\* Earning for k ticks keeps the credit above any tokens and pending time
\* that it covered before, when the pending time grows by at most k.
LEMMA EarnCovers ==
  ASSUME IInv, NEW k \in Nat, Earn(k),
         tokens' = tokens, sinceRefill' \in Int,
         sinceRefill' <= Pending + k
  PROVE  /\ credit' \in Int /\ credit' <= Burst /\ credit' >= 0
         /\ Covered'
  <1> USE DEF IInv, TypeOK
  <1>1. Base * k \in Nat /\ Pending \in Nat /\ Pending' \in Nat
    BY DEF Pending, AtLeast
  <1>2. credit' \in Int /\ credit' <= Burst /\ credit' >= 0
    BY <1>1 DEF Earn, AtMost, NeverOverLimit
  <1>3. Covered'
    <2>1. CASE credit' = Burst
      BY <2>1 DEF Covered
    <2>2. CASE credit' # Burst
      <3>1. credit' = credit + Base * k /\ credit # Burst
        BY <1>1, <2>2 DEF Earn, AtMost
      <3>2. Pending' <= Pending + k
        BY <1>1 DEF Pending, AtLeast
      <3>3. Base * Pending' <= Base * (Pending + k)
        <4>1. Pending' \in Int /\ Pending + k \in Int
          BY <1>1
        <4>2. QED BY ONLY <3>2, <4>1, ProductMonotone, RateAssumption
      <3>4. Base * (Pending + k) = Base * Pending + Base * k
        BY <1>1
      <3>5. Base * Pending \in Int /\ Base * Pending' \in Int
        BY <1>1
      <3>6. tokens + Base * Pending' <= credit + Base * k
        <4>1. tokens + Base * Pending <= credit
          BY <3>1 DEF Covered
        <4>2. tokens \in Int /\ credit \in Int /\ Base * k \in Int
          BY <1>1
        <4>3. QED BY ONLY <3>3, <3>4, <3>5, <4>1, <4>2
      <3>7. QED
        BY <3>1, <3>6 DEF Covered
    <2>3. QED BY <2>1, <2>2
  <1>4. QED BY <1>2, <1>3

\* The bucket starts full, and so does the credit.
LEMMA InitIInv == Init => IInv
  <1> SUFFICES ASSUME Init PROVE IInv
    OBVIOUS
  <1>1. tokens \in Int /\ sinceRefill \in Int /\ rate \in Floor .. Base
        /\ steps \in 0 .. MaxSteps /\ tokens <= Burst
        /\ credit \in Int /\ credit <= Burst
    BY DEF Init
  <1>2. running \subseteq Clients /\ pressed \in BOOLEAN
    BY DEF Init
  <1>3. NeverOverLimit /\ Covered
    BY DEF Init, NeverOverLimit, Covered
  <1>4. QED BY <1>1, <1>2, <1>3 DEF IInv, TypeOK

\* Every step preserves the invariant.
LEMMA NextIInv == IInv /\ [Next]_vars => IInv'
<1> SUFFICES ASSUME IInv, [Next]_vars PROVE IInv'
    OBVIOUS
<1>1. ASSUME NEW c \in Clients, Acquire(c) PROVE IInv'
  <2>1. Refilled \in Int /\ Refilled <= Burst /\ (credit # Burst => Refilled <= credit)
    BY RefilledCovered
  <2>2. TypeOK'
    BY <1>1, <2>1 DEF Acquire, IInv, TypeOK
  <2>3. tokens' \in Nat /\ tokens' <= credit' /\ Pending' = 0
    BY <1>1, <2>1 DEF Acquire, IInv, TypeOK, Pending, AtLeast
  <2>4. NeverOverLimit'
    BY <2>2, <2>3 DEF NeverOverLimit, TypeOK
  <2>5. tokens' + Base * Pending' = tokens'
    <3>1. tokens' \in Int /\ Base * 0 = 0
      BY <2>3
    <3>2. Base * Pending' = 0
      BY <2>3, <3>1, Zenon
    <3>3. QED BY <3>1, <3>2
  <2>6. Covered'
    BY <2>3, <2>5 DEF Covered
  <2>7. QED BY <2>2, <2>4, <2>6 DEF IInv
<1>2. ASSUME NEW c \in Clients, Refuse(c) PROVE IInv'
  <2>1. Refilled \in Int /\ Refilled <= Burst /\ (credit # Burst => Refilled <= credit)
    BY RefilledCovered
  <2>2. TypeOK' /\ NeverOverLimit'
    BY <1>2, <2>1 DEF Refuse, IInv, TypeOK, NeverOverLimit
  <2>3. Pending' = 0 /\ tokens' = Refilled /\ credit' = credit
    BY <1>2 DEF Refuse, Pending, AtLeast
  <2>4. Covered'
    BY <2>1, <2>3, <2>2 DEF Covered, TypeOK
  <2>5. QED BY <2>2, <2>4 DEF IInv
<1>3. ASSUME NEW c \in Clients, Succeed(c) PROVE IInv'
  BY <1>3, FasterInRange
     DEF Succeed, Finish, IInv, TypeOK, NeverOverLimit, Covered, Pending
<1>4. ASSUME NEW c \in Clients, RateLimited(c) PROVE IInv'
  BY <1>4, SlowerInRange
     DEF RateLimited, Finish, IInv, TypeOK, NeverOverLimit, Covered, Pending
<1>5. ASSUME NEW c \in Clients, Fail(c) PROVE IInv'
  BY <1>5 DEF Fail, Finish, bucket, IInv, TypeOK, NeverOverLimit, Covered, Pending
<1>6. CASE Tick
  <2>1. sinceRefill' \in Int /\ sinceRefill' <= Pending + 1
    BY <1>6 DEF Tick, IInv, TypeOK, Pending, AtLeast
  <2>2. credit' \in Int /\ credit' <= Burst /\ credit' >= 0 /\ Covered'
    BY <1>6, <2>1, EarnCovers DEF Tick
  <2>3. QED
    BY <1>6, <2>1, <2>2 DEF Tick, IInv, TypeOK, NeverOverLimit
<1>7. ASSUME NEW s \in ClockSteps, StepClock(s) PROVE IInv'
  <2> DEFINE length == IF s < 0 THEN -s ELSE s
  <2>1. length \in Nat /\ sinceRefill' \in Int /\ sinceRefill' <= Pending + length
    BY <1>7 DEF StepClock, IInv, TypeOK, Pending, AtLeast
  <2>2. tokens' = tokens /\ Earn(length)
    BY <1>7 DEF StepClock
  <2>3. credit' \in Int /\ credit' <= Burst /\ credit' >= 0 /\ Covered'
    BY <2>1, <2>2, EarnCovers
  <2>4. QED
    BY <1>7, <2>1, <2>3 DEF StepClock, IInv, TypeOK, NeverOverLimit
<1>8. CASE PressureChanges \/ UNCHANGED vars
  BY <1>8 DEF PressureChanges, vars, bucket, IInv, TypeOK, NeverOverLimit, Covered,
              Pending
<1>9. QED
  BY <1>1, <1>2, <1>3, <1>4, <1>5, <1>6, <1>7, <1>8 DEF Next

THEOREM Invariance == Spec => []IInv
  BY InitIInv, NextIInv, PTL DEF Spec

\* Type correctness of the bucket and its clients, for any number of them: the
\* adapted rate never leaves its range (rate_limiter.py:62-75).
THEOREM BucketTypeCorrect == Spec => []TypeOK
  <1>1. IInv => TypeOK
    BY DEF IInv
  <1>2. QED BY <1>1, Invariance, PTL

\* Over every stretch of time the bucket admits at most its burst plus what the
\* configured rate allows (rate_limiter.py:50-99).
THEOREM LimitRespected == Spec => []NeverOverLimit
  <1>1. IInv => NeverOverLimit
    BY DEF IInv
  <1>2. QED BY <1>1, Invariance, PTL

=============================================================================
