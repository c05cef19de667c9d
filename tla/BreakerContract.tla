--------------------------- MODULE BreakerContract ---------------------------
(***************************************************************************)
(* What a circuit breaker promises to the service behind it, whoever makes *)
(* the calls and however they overlap:                                     *)
(*   - it trips only on FailureThreshold failures in a row;                *)
(*   - once tripped it lets nothing through for the whole Timeout, and     *)
(*     then goes through a probing phase;                                  *)
(*   - it returns to normal only from probing, after SuccessThreshold      *)
(*     successes in a row, and falls back on the first failure.            *)
(* "In a row" is in the order in which calls end.  The docstrings at       *)
(* circuit_breaker.py:4, 15-18 and 22-25 are the source of these promises. *)
(***************************************************************************)
EXTENDS Naturals

CONSTANTS FailureThreshold, SuccessThreshold, Timeout

VARIABLES phase,    \* "CLOSED", "OPEN" or "HALF_OPEN"
          run,      \* failures in a row (CLOSED), successes in a row (HALF_OPEN)
          openFor   \* ticks since the trip, up to Timeout, while OPEN

vars == <<phase, run, openFor>>

Init == phase = "CLOSED" /\ run = 0 /\ openFor = 0

EnterPhase(p) == phase' = p /\ run' = 0 /\ openFor' = 0

CountFailure ==
  /\ phase = "CLOSED"
  /\ run + 1 < FailureThreshold
  /\ run' = run + 1
  /\ UNCHANGED <<phase, openFor>>

Forgive ==
  /\ phase = "CLOSED"
  /\ run' = 0
  /\ UNCHANGED <<phase, openFor>>

Trip ==
  /\ phase = "CLOSED"
  /\ run + 1 = FailureThreshold
  /\ EnterPhase("OPEN")

Wait ==
  /\ phase = "OPEN"
  /\ openFor < Timeout
  /\ openFor' = openFor + 1
  /\ UNCHANGED <<phase, run>>

Probe ==
  /\ phase = "OPEN"
  /\ openFor = Timeout
  /\ EnterPhase("HALF_OPEN")

CountSuccess ==
  /\ phase = "HALF_OPEN"
  /\ run + 1 < SuccessThreshold
  /\ run' = run + 1
  /\ UNCHANGED <<phase, openFor>>

Recover ==
  /\ phase = "HALF_OPEN"
  /\ run + 1 = SuccessThreshold
  /\ EnterPhase("CLOSED")

Relapse ==
  /\ phase = "HALF_OPEN"
  /\ EnterPhase("OPEN")

Next == \/ CountFailure \/ Forgive \/ Trip \/ Wait
        \/ Probe \/ CountSuccess \/ Recover \/ Relapse

Spec == Init /\ [][Next]_vars

=============================================================================
