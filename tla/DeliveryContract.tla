-------------------------- MODULE DeliveryContract --------------------------
(***************************************************************************)
(* What a delivery engine with retries promises for each submission,       *)
(* whoever makes the attempts and however late their outcomes come: it     *)
(* stays pending until an attempt succeeds, MaxRetries attempts in a row   *)
(* have failed, or its id is submitted anew; and what it came to is final. *)
(* The docstrings at retry_engine.py:1-6 and 55-62 are the source of these *)
(* promises, except that an id may be submitted anew.                      *)
(***************************************************************************)
EXTENDS Naturals, Sequences

CONSTANT MaxRetries

VARIABLES phase,  \* of each submission, in their order
          tries   \* attempts that failed, of each submission

vars == <<phase, tries>>

Init == phase = <<>> /\ tries = <<>>

\* A submission; it may take the place of a pending one.
Open ==
  /\ \/ phase' = Append(phase, "pending")
     \/ \E s \in DOMAIN phase :
          /\ phase[s] = "pending"
          /\ phase' = Append([phase EXCEPT ![s] = "replaced"], "pending")
  /\ tries' = Append(tries, 0)

Close(s, outcome) == phase[s] = "pending" /\ phase' = [phase EXCEPT ![s] = outcome]

Deliver(s) == Close(s, "delivered") /\ UNCHANGED tries

Failed(s) == tries' = [tries EXCEPT ![s] = @ + 1]

TryAgain(s) ==
  /\ phase[s] = "pending" /\ tries[s] + 1 < MaxRetries
  /\ Failed(s)
  /\ UNCHANGED phase

Bury(s) ==
  /\ tries[s] + 1 = MaxRetries
  /\ Close(s, "dead") /\ Failed(s)

Next == Open \/ \E s \in DOMAIN phase : Deliver(s) \/ TryAgain(s) \/ Bury(s)

Spec == Init /\ [][Next]_vars

=============================================================================
