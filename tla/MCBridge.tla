------------------------------ MODULE MCBridge ------------------------------
(* TLC instances of Bridge; the cfg files give the constants.              *)
EXTENDS Bridge, TLC

CONSTANTS r1, r2

OneSlot == {r1}
TwoSlots == {r1, r2}

\* Two valid alerts, and one that fails validation.
FloodWarning == [id |-> "flood", areas |-> "coast", valid |-> TRUE]
FireWarning  == [id |-> "fire",  areas |-> "hills", valid |-> TRUE]
Malformed    == [id |-> "flood", areas |-> "none",  valid |-> FALSE]

TwoAlerts == {FloodWarning, FireWarning}
AlertsAndMalformed == TwoAlerts \cup {Malformed}

\* answer and delivered are read by no action and by no property of the safety
\* run, so states that differ in them alone are one there.
SafetyView == <<seen, store, audit, breaker, task, ipawsUp, crashes, posted,
                openFor>>

SlotSymmetry == Permutations(TwoSlots)

=============================================================================
