--------------------------- MODULE MCAlertRouter ---------------------------
(* TLC instances of AlertRouter; the cfg files give the constants.         *)
EXTENDS AlertRouter, TLC

CONSTANTS d1, d2

OneSlot == {d1}
TwoSlots == {d1, d2}

\* One alert for each pair of channels that decide can choose.
Severe == [public |-> TRUE, severity |-> 3]
Moderate == [public |-> TRUE, severity |-> 2]
Private == [public |-> FALSE, severity |-> 4]
Unknown == [public |-> TRUE, severity |-> 0]

ToBoth == {Severe}
AllKinds == {Severe, Moderate, Private, Unknown}

SlotSymmetry == Permutations(TwoSlots)

=============================================================================
