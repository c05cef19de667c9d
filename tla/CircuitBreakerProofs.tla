------------------------ MODULE CircuitBreakerProofs ------------------------
(***************************************************************************)
(* Type correctness, the counter invariant and the refinement of           *)
(* BreakerContract, for every set of callers and all thresholds.           *)
(***************************************************************************)
EXTENDS CircuitBreaker, SharedOpsProofs, TLAPS

USE FailureThresholdAssumption, SuccessThresholdAssumption, TimeoutAssumption

----------------------------------------------------------------------------
(***************************************************************************)
(* TypeOK alone is not inductive: successCount stays in its range only     *)
(* because it is below the threshold before each success.  IInv joins the  *)
(* two.                                                                    *)
(***************************************************************************)
IInv == TypeOK /\ BreakerInv

\* The initial state satisfies the invariant.
LEMMA InitIInv == Init => IInv
  BY NewBreakerType
     DEF Init, IInv, TypeOK, BreakerInv, CallStates, NewBreaker

\* Every step of the breaker, its callers and the environment preserves it.
LEMMA NextIInv == IInv /\ [Next]_vars => IInv'
<1> SUFFICES ASSUME IInv, [Next]_vars PROVE IInv'
    OBVIOUS
<1> USE DEF IInv, TypeOK
<1>1. ASSUME NEW c \in Callers, Enter(c) PROVE IInv'
  <2>1. breaker' \in Breaker
    BY <1>1, AdmitType DEF Enter
  <2>2. breaker'.state \in Running
    BY <1>1 DEF Enter, Admit, Running, Breaker, CircuitState
  <2>3. TypeOK'
    BY <1>1, <2>1, <2>2 DEF Enter, TrackOpening, CallStates
  <2>4. BreakerInv'
    BY <1>1 DEF Enter, TrackOpening, Admit, Admits, BreakerInv,
                Breaker, CircuitState, NoFailure
  <2>5. QED BY <2>3, <2>4
<1>2. ASSUME NEW c \in Callers, Reject(c) PROVE IInv'
    BY <1>2 DEF Reject, CallStates, BreakerInv
<1>3. ASSUME NEW c \in Callers, GiveUp(c) PROVE IInv'
    BY <1>3 DEF GiveUp, CallStates, BreakerInv
<1>4. ASSUME NEW c \in Callers, Succeed(c) PROVE IInv'
  <2>1. breaker' \in Breaker
    BY <1>4, OnSuccessType DEF Succeed, BreakerInv
  <2>2. TypeOK'
    BY <1>4, <2>1 DEF Succeed, Finish, TrackOpening, CallStates
  <2>3. BreakerInv'
    BY <1>4 DEF Succeed, Finish, TrackOpening, OnSuccess, BreakerInv,
                Breaker, CircuitState, NoFailure
  <2>4. QED BY <2>2, <2>3
<1>5. ASSUME NEW c \in Callers, Fail(c) PROVE IInv'
  <2>1. breaker' \in Breaker
    BY <1>5, OnFailureType DEF Fail
  <2>2. TypeOK'
    BY <1>5, <2>1 DEF Fail, Finish, TrackOpening, CallStates
  <2>3. BreakerInv'
    BY <1>5 DEF Fail, Finish, TrackOpening, OnFailure, BreakerInv,
                Breaker, CircuitState, NoFailure
  <2>4. QED BY <2>2, <2>3
<1>6. ASSUME NEW c \in Callers, Cancel(c) PROVE IInv'
    BY <1>6 DEF Cancel, Finish, TrackOpening, CallStates, BreakerInv
<1>7. ASSUME Tick PROVE IInv'
  <2>1. breaker' \in Breaker
    BY <1>7, ElapseType DEF Tick
  <2>2. TypeOK'
    BY <1>7, <2>1 DEF Tick
  <2>3. BreakerInv'
    BY <1>7 DEF Tick, Elapse, BreakerInv, Breaker, NoFailure
  <2>4. QED BY <2>2, <2>3
<1>8. ASSUME ServiceFails \/ ServiceRecovers PROVE IInv'
    BY <1>8 DEF ServiceFails, ServiceRecovers, BreakerInv
<1>9. ASSUME UNCHANGED vars PROVE IInv'
    BY <1>9 DEF vars, BreakerInv
<1>10. QED
    BY <1>1, <1>2, <1>3, <1>4, <1>5, <1>6, <1>7, <1>8, <1>9 DEF Next

\* The invariant holds in every reachable state.
THEOREM Invariance == Spec => []IInv
  BY InitIInv, NextIInv, PTL DEF Spec

\* Type correctness of the breaker and its callers, for any number of them.
THEOREM TypeCorrect == Spec => []TypeOK
<1>1. IInv => TypeOK
    BY DEF IInv
<1>2. QED BY Invariance, <1>1, PTL

\* The counters match the state however calls overlap (BreakerInv).
THEOREM CountersMatchState == Spec => []BreakerInv
<1>1. IInv => BreakerInv
    BY DEF IInv
<1>2. QED BY Invariance, <1>1, PTL

----------------------------------------------------------------------------
(***************************************************************************)
(* Refinement of BreakerContract.  Each step of the detailed breaker is a  *)
(* step of the contract or leaves the mapped state unchanged: calls that   *)
(* start, are rejected or are cancelled are invisible, and so is a failure *)
(* that ends while the circuit is open.                                    *)
(***************************************************************************)
Mapped == <<breaker.state, OutcomesInARow, openFor>>

\* The initial state is the contract's.
LEMMA InitContract == Init => Contract!Init
  BY DEF Init, Contract!Init, NewBreaker, OutcomesInARow

\* An admission is a probe of the contract, or invisible.
LEMMA EnterContract ==
  ASSUME IInv, NEW c \in Callers, Enter(c)
  PROVE  Contract!Probe \/ UNCHANGED Mapped
<1> USE DEF IInv, TypeOK, Breaker, CircuitState
<1>1. CASE breaker.state = "OPEN"
  <2>1. openFor = Timeout /\ breaker'.state = "HALF_OPEN" /\ openFor' = 0
    BY <1>1, TimeoutAssumption
       DEF Enter, Admits, Admit, ShouldAttemptReset, TrackOpening, BreakerInv
  <2>2. OutcomesInARow' = 0
    BY <1>1 DEF Enter, Admit, OutcomesInARow, BreakerInv
  <2>3. QED BY <1>1, <2>1, <2>2 DEF Contract!Probe, Contract!EnterPhase
<1>2. CASE breaker.state # "OPEN"
    BY <1>2 DEF Enter, Admit, TrackOpening, OutcomesInARow, Mapped
<1>3. QED BY <1>1, <1>2

\* A recorded success forgives earlier failures, counts towards recovery,
\* recovers, or (while open) is invisible.
LEMMA SuccessContract ==
  ASSUME IInv, NEW c \in Callers, Succeed(c)
  PROVE  \/ Contract!Forgive \/ Contract!CountSuccess \/ Contract!Recover
         \/ UNCHANGED Mapped
<1> USE DEF IInv, TypeOK, Breaker, CircuitState
<1>1. CASE breaker.state = "CLOSED"
    BY <1>1 DEF Succeed, Finish, TrackOpening, OnSuccess, OutcomesInARow,
                Contract!Forgive
<1>2. CASE breaker.state = "OPEN"
    BY <1>2 DEF Succeed, Finish, TrackOpening, OnSuccess, OutcomesInARow, Mapped
<1>3. CASE breaker.state = "HALF_OPEN" /\ breaker.successCount + 1 < SuccessThreshold
    BY <1>3 DEF Succeed, Finish, TrackOpening, OnSuccess, OutcomesInARow,
                Contract!CountSuccess
<1>4. CASE breaker.state = "HALF_OPEN" /\ breaker.successCount + 1 >= SuccessThreshold
  <2>1. OutcomesInARow + 1 = SuccessThreshold
    BY <1>4, SuccessThresholdAssumption DEF OutcomesInARow, BreakerInv
  <2>2. breaker'.state = "CLOSED" /\ OutcomesInARow' = 0 /\ openFor' = 0
    BY <1>4 DEF Succeed, Finish, TrackOpening, OnSuccess, OutcomesInARow
  <2>3. QED BY <1>4, <2>1, <2>2 DEF Contract!Recover, Contract!EnterPhase
<1>5. QED
    BY <1>1, <1>2, <1>3, <1>4, SuccessThresholdAssumption

\* A recorded failure counts towards the trip, trips, relapses, or (while
\* open) is invisible.
LEMMA FailureContract ==
  ASSUME IInv, NEW c \in Callers, Fail(c)
  PROVE  \/ Contract!CountFailure \/ Contract!Trip \/ Contract!Relapse
         \/ UNCHANGED Mapped
<1> USE DEF IInv, TypeOK, Breaker, CircuitState
<1>1. CASE breaker.state = "CLOSED" /\ breaker.failureCount + 1 < FailureThreshold
    BY <1>1 DEF Fail, Finish, TrackOpening, OnFailure, OutcomesInARow,
                Contract!CountFailure
<1>2. CASE breaker.state = "CLOSED" /\ breaker.failureCount + 1 >= FailureThreshold
  <2>1. OutcomesInARow + 1 = FailureThreshold
    BY <1>2, FailureThresholdAssumption DEF OutcomesInARow, BreakerInv
  <2>2. breaker'.state = "OPEN" /\ OutcomesInARow' = 0 /\ openFor' = 0
    BY <1>2 DEF Fail, Finish, TrackOpening, OnFailure, OutcomesInARow
  <2>3. QED BY <1>2, <2>1, <2>2 DEF Contract!Trip, Contract!EnterPhase
<1>3. CASE breaker.state = "OPEN"
    BY <1>3 DEF Fail, Finish, TrackOpening, OnFailure, OutcomesInARow, Mapped
<1>4. CASE breaker.state = "HALF_OPEN"
  <2>1. breaker'.state = "OPEN" /\ OutcomesInARow' = 0 /\ openFor' = 0
    BY <1>4 DEF Fail, Finish, TrackOpening, OnFailure, OutcomesInARow
  <2>2. QED BY <1>4, <2>1 DEF Contract!Relapse, Contract!EnterPhase
<1>5. QED
    BY <1>1, <1>2, <1>3, <1>4, FailureThresholdAssumption

\* A tick is a tick of the contract while the circuit is open.
LEMMA TickContract ==
  ASSUME IInv, Tick
  PROVE  Contract!Wait \/ UNCHANGED Mapped
  BY DEF IInv, TypeOK, Breaker, CircuitState, Tick, Elapse, OutcomesInARow,
         Contract!Wait, Mapped

\* Every step is a step of the contract or a stutter.
LEMMA NextContract == IInv /\ [Next]_vars => [Contract!Next]_(Contract!vars)
<1> SUFFICES ASSUME IInv, [Next]_vars
             PROVE  Contract!Next \/ UNCHANGED Mapped
    BY DEF Contract!vars, Mapped
<1>1. ASSUME NEW c \in Callers, Enter(c) PROVE Contract!Next \/ UNCHANGED Mapped
    BY <1>1, EnterContract DEF Contract!Next
<1>2. ASSUME NEW c \in Callers, Succeed(c) PROVE Contract!Next \/ UNCHANGED Mapped
    BY <1>2, SuccessContract DEF Contract!Next
<1>3. ASSUME NEW c \in Callers, Fail(c) PROVE Contract!Next \/ UNCHANGED Mapped
    BY <1>3, FailureContract DEF Contract!Next
<1>4. CASE Tick
    BY <1>4, TickContract DEF Contract!Next
<1>5. ASSUME NEW c \in Callers, Reject(c) \/ GiveUp(c) \/ Cancel(c)
      PROVE  UNCHANGED Mapped
    BY <1>5 DEF Reject, GiveUp, Cancel, Finish, TrackOpening, OutcomesInARow, Mapped
<1>6. CASE ServiceFails \/ ServiceRecovers \/ UNCHANGED vars
    BY <1>6 DEF ServiceFails, ServiceRecovers, vars, OutcomesInARow, Mapped
<1>7. QED
    BY <1>1, <1>2, <1>3, <1>4, <1>5, <1>6 DEF Next

\* The breaker implements BreakerContract, for any number of callers whose
\* calls overlap in any way: no early trip, no early probe, no early recovery.
THEOREM BreakerImplementsContract == Spec => ImplementsContract
  BY InitContract, NextContract, Invariance, PTL
     DEF Spec, Contract!Spec, ImplementsContract

=============================================================================
