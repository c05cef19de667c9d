----------------------------- MODULE BreakerOps -----------------------------
(***************************************************************************)
(* The circuit breaker of modules/routing/circuit_breaker.py as operators  *)
(* on one record, for the modules whose state holds one or more breakers.  *)
(* Each operator is one critical section of the class: every access is     *)
(* under its lock, and the protected call runs outside it.                 *)
(*                                                                         *)
(* Two unbounded quantities are saturated, which loses nothing: the code   *)
(* only compares failure_count with failure_threshold, and the age of      *)
(* last_failure_time with timeout_seconds.  total_calls and                *)
(* rejected_calls feed a statistics page and no decision; they are left    *)
(* out.                                                                    *)
(***************************************************************************)
EXTENDS Integers

CONSTANTS FailureThreshold,  \* config.failure_threshold
          SuccessThreshold,  \* config.success_threshold
          Timeout            \* config.timeout_seconds, in clock ticks

ASSUME FailureThresholdAssumption == FailureThreshold \in Nat \ {0}
ASSUME SuccessThresholdAssumption == SuccessThreshold \in Nat \ {0}
ASSUME TimeoutAssumption == Timeout \in Nat

CircuitState == {"CLOSED", "OPEN", "HALF_OPEN"}

NoFailure == -1              \* last_failure_time is None

\* sinceFailure is the age of last_failure_time on the monotonic clock.
Breaker == [state : CircuitState,
            failureCount : 0 .. FailureThreshold,
            successCount : 0 .. SuccessThreshold,
            sinceFailure : {NoFailure} \cup 0 .. Timeout]

NewBreaker == [state |-> "CLOSED", failureCount |-> 0, successCount |-> 0,
               sinceFailure |-> NoFailure]

ShouldAttemptReset(b) == b.sinceFailure \in {NoFailure, Timeout}

\* _guard_open raises unless this holds.
Admits(b) == b.state = "OPEN" => ShouldAttemptReset(b)

\* _guard_open for a call it admits.
Admit(b) == IF b.state = "OPEN" THEN [b EXCEPT !.state = "HALF_OPEN"] ELSE b

----------------------------------------------------------------------------
\* Mutant: successes are counted but never close the circuit.
OnSuccessNeverCloses(b) ==
  [b EXCEPT !.failureCount = 0,
            !.successCount = IF b.state = "HALF_OPEN" THEN @ + 1 ELSE @]

\* Mutant: one success short of the threshold closes the circuit.
OnSuccessEarly(b) ==
  IF b.state = "HALF_OPEN" /\ b.successCount + 2 >= SuccessThreshold
  THEN [b EXCEPT !.failureCount = 0, !.successCount = 0, !.state = "CLOSED"]
  ELSE [b EXCEPT !.failureCount = 0]

\* Mutant: successes while probing are not counted.
OnSuccessUncounted(b) == [b EXCEPT !.failureCount = 0]

OnSuccess(b) ==
  LET probing == b.state = "HALF_OPEN"
      proven  == IF probing THEN b.successCount + 1 ELSE b.successCount
      closes  == probing /\ proven >= SuccessThreshold
  IN  [state        |-> IF closes THEN "CLOSED" ELSE b.state,
       failureCount |-> 0,
       successCount |-> IF closes THEN 0 ELSE proven,
       sinceFailure |-> b.sinceFailure]

\* Mutant: a failure forgets to reset the count of consecutive successes.
OnFailureKeepsSuccesses(b) ==
  LET failures == b.failureCount + 1 IN
  [b EXCEPT !.failureCount = IF failures > FailureThreshold THEN @ ELSE failures,
            !.sinceFailure = 0,
            !.state = IF @ = "HALF_OPEN" \/ failures >= FailureThreshold
                      THEN "OPEN" ELSE @]

\* Mutant: a failed probe leaves the circuit half open.
OnFailureKeepsProbing(b) ==
  LET failures == b.failureCount + 1 IN
  [b EXCEPT !.failureCount = IF failures > FailureThreshold THEN @ ELSE failures,
            !.successCount = 0,
            !.sinceFailure = 0,
            !.state = IF @ = "CLOSED" /\ failures >= FailureThreshold
                      THEN "OPEN" ELSE @]

OnFailure(b) ==
  LET failures == b.failureCount + 1
      trips    == b.state = "HALF_OPEN" \/ failures >= FailureThreshold
  IN  [state        |-> IF trips THEN "OPEN" ELSE b.state,
       failureCount |-> IF failures > FailureThreshold
                        THEN FailureThreshold ELSE failures,
       successCount |-> 0,
       sinceFailure |-> 0]

\* One tick of time.monotonic().
Elapse(b) ==
  [b EXCEPT !.sinceFailure = IF @ \in {NoFailure, Timeout} THEN @ ELSE @ + 1]

=============================================================================
