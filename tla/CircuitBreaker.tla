--------------------------- MODULE CircuitBreaker ---------------------------
(***************************************************************************)
(* One circuit breaker shared by several callers, threads or coroutines.   *)
(* The guard and the bookkeeping after a call are atomic (the class's      *)
(* lock); between them the protected call runs with no lock, so calls      *)
(* overlap and a call may end long after the state that admitted it is     *)
(* gone.                                                                   *)
(***************************************************************************)
EXTENDS BreakerOps

CONSTANT Callers

VARIABLES breaker,   \* the object's fields, see BreakerOps
          call,      \* where each caller stands, see CallStates
          up,        \* the protected service answers (environment)
          openFor    \* history: ticks since the circuit opened, up to Timeout

vars == <<breaker, call, up, openFor>>

\* A caller whose call is running remembers the state that admitted it.
Running    == {"CLOSED", "HALF_OPEN"}
CallStates == {"idle", "rejected"} \cup Running

TypeOK ==
  /\ breaker \in Breaker
  /\ call \in [Callers -> CallStates]
  /\ up \in BOOLEAN
  /\ openFor \in 0 .. Timeout

Init ==
  /\ breaker = NewBreaker
  /\ call = [c \in Callers |-> "idle"]
  /\ up = TRUE
  /\ openFor = 0

\* The history variable restarts whenever the state changes.
TrackOpening ==
  openFor' = IF breaker'.state = breaker.state THEN openFor ELSE 0

----------------------------------------------------------------------------
\* call / async_call pass _guard_open and start fn.
Enter(c) ==
  /\ call[c] = "idle"
  /\ Admits(breaker)
  /\ breaker' = Admit(breaker)
  /\ call' = [call EXCEPT ![c] = breaker'.state]
  /\ TrackOpening
  /\ UNCHANGED up

\* _guard_open raises RuntimeError.
Reject(c) ==
  /\ call[c] = "idle"
  /\ ~Admits(breaker)
  /\ call' = [call EXCEPT ![c] = "rejected"]
  /\ UNCHANGED <<breaker, up, openFor>>

\* The caller has dealt with the RuntimeError.
GiveUp(c) ==
  /\ call[c] = "rejected"
  /\ call' = [call EXCEPT ![c] = "idle"]
  /\ UNCHANGED <<breaker, up, openFor>>

Finish(c) ==
  /\ call[c] \in Running
  /\ call' = [call EXCEPT ![c] = "idle"]
  /\ TrackOpening
  /\ UNCHANGED up

Succeed(c) == up /\ breaker' = OnSuccess(breaker) /\ Finish(c)

Fail(c) == ~up /\ breaker' = OnFailure(breaker) /\ Finish(c)

\* async_call's task is cancelled: CancelledError is no Exception, so neither
\* outcome is recorded.
Cancel(c) == UNCHANGED breaker /\ Finish(c)

Tick ==
  /\ breaker' = Elapse(breaker)
  /\ openFor' = IF breaker.state = "OPEN" /\ openFor < Timeout
                THEN openFor + 1 ELSE openFor
  /\ UNCHANGED <<call, up>>

\* The environment: outages start and end at any time.
ServiceFails    == up  /\ up' = FALSE /\ UNCHANGED <<breaker, call, openFor>>
ServiceRecovers == ~up /\ up' = TRUE  /\ UNCHANGED <<breaker, call, openFor>>

Next ==
  \/ \E c \in Callers : \/ Enter(c) \/ Reject(c) \/ GiveUp(c)
                        \/ Succeed(c) \/ Fail(c) \/ Cancel(c)
  \/ Tick \/ ServiceFails \/ ServiceRecovers

Spec == Init /\ [][Next]_vars

----------------------------------------------------------------------------
(***************************************************************************)
(* Fairness.  Time passes; every protected call has a client timeout (5 to *)
(* 10 s), so it ends; a caller that keeps calling is not cancelled every   *)
(* single time (SF); and, an assumption on the load and not on the code,   *)
(* callers keep calling.                                                   *)
(***************************************************************************)
CallsEnd   == \A c \in Callers : SF_vars(Succeed(c)) /\ SF_vars(Fail(c))
SteadyLoad == \A c \in Callers : /\ WF_vars(Enter(c) \/ Reject(c))
                                 /\ WF_vars(GiveUp(c))

FairSpec == Spec /\ WF_vars(Tick) /\ CallsEnd /\ SteadyLoad

----------------------------------------------------------------------------
(***************************************************************************)
(* Properties.                                                             *)
(***************************************************************************)

\* The counters always match the state: a closed circuit is short of the
\* failure threshold (circuit_breaker.py:101), successes are held only while
\* probing and only below their threshold (92-94, 100), a circuit that ever
\* opened has a failure time, and that time is never older than the opening.
BreakerInv ==
  /\ breaker.state = "CLOSED" => breaker.failureCount < FailureThreshold
  /\ breaker.state # "HALF_OPEN" => breaker.successCount = 0
  /\ breaker.successCount < SuccessThreshold
  /\ breaker.state # "CLOSED" => breaker.sinceFailure # NoFailure
  /\ breaker.state = "OPEN" => breaker.sinceFailure <= openFor
  /\ breaker.state # "OPEN" => openFor = 0

\* The contract's run of equal outcomes is the counter the state looks at.
OutcomesInARow ==
  CASE breaker.state = "CLOSED"    -> breaker.failureCount
    [] breaker.state = "OPEN"      -> 0
    [] breaker.state = "HALF_OPEN" -> breaker.successCount

Contract ==
  INSTANCE BreakerContract WITH phase <- breaker.state, run <- OutcomesInARow

\* However calls overlap, the breaker keeps the promises of BreakerContract:
\* no trip short of the threshold, no admission before a full timeout has
\* passed since the trip, no recovery without the required successes in a row.
ImplementsContract == Contract!Spec

\* Once an outage is over for good, the circuit closes for good
\* (OPEN, HALF_OPEN, CLOSED: circuit_breaker.py:74-95).
RecoversAfterOutage == <>[]up => <>[](breaker.state = "CLOSED")

\* While the service stays down the circuit leaves CLOSED for good and every
\* probe puts it back to OPEN (circuit_breaker.py:97-102).
OutageOpensCircuit ==
  <>[]~up => /\ <>[](breaker.state # "CLOSED")
             /\ []<>(breaker.state = "OPEN")

=============================================================================
