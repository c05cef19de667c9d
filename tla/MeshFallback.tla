---------------------------- MODULE MeshFallback ----------------------------
(***************************************************************************)
(* MeshBridgeClient's fallback decision (modules/routing/mesh_bridge.py):  *)
(* a window of the latest delivery rates, and whether their recent mean    *)
(* calls for the mesh.  Nothing in src/ reports a rate yet; mesh_status    *)
(* only asks.                                                              *)
(*                                                                         *)
(* Rates are whole numbers of some small unit and their sums exact, where  *)
(* the code adds, divides and compares floats.  The two agree unless the   *)
(* mean is at the threshold or next to it: there (within MeanSlack, by the *)
(* sums) the code's answer is RoundedBelow, any function of the rates in   *)
(* their order.  The mean of 0.6, 0.8, 1.0 is below 0.80 to the code, that *)
(* of 0.6, 1.0, 0.8 is not.                                                *)
(***************************************************************************)
EXTENDS Integers, Sequences, FiniteSets, SequencesExt

CONSTANTS Rates,       \* rates that are reported
          Window,      \* 20 rates are kept
          Recent,      \* 5 of them count
          Least,       \* 3 are needed
          Threshold,   \* DELIVERY_FAILURE_THRESHOLD
          MeanSlack,   \* how close sums must be for rounding to decide
          RoundedBelow(_),  \* what it decides
          MaxReports   \* bound of this model: calls of record_delivery_rate

ASSUME FallbackAssumption ==
  /\ Rates \subseteq Nat /\ Threshold \in Nat /\ MaxReports \in Nat
  /\ MeanSlack \in Nat
  /\ Recent \in 1 .. Window /\ Window \in Nat /\ Least \in 1 .. Window

VARIABLES rates,    \* _delivery_rates
          reported  \* history: every rate there has been

fallbackVars == <<rates, reported>>

FallbackTypeOK ==
  /\ rates \in Seq(Rates) /\ Len(rates) <= Window
  /\ reported \in Seq(Rates)

FallbackInit == rates = <<>> /\ reported = <<>>

\* Mutant: the rate that comes in is the one that goes.
DropNewest(all) == IF Len(all) > Window THEN Front(all) ELSE all

\* self._delivery_rates.pop(0) when there are too many
DropOldest(all) == IF Len(all) > Window THEN Tail(all) ELSE all

RecordDeliveryRate(r) ==
  /\ Len(reported) < MaxReports
  /\ rates' = DropOldest(Append(rates, r))
  /\ reported' = Append(reported, r)

Recently(all) ==
  IF Len(all) < Recent THEN all ELSE SubSeq(all, Len(all) - Recent + 1, Len(all))

SumOf(seq) == FoldSeq(LAMBDA r, sum : r + sum, 0, seq)

\* How far the recent mean is from the threshold, times the number of rates.
Gap == SumOf(Recently(rates)) - Threshold * Len(Recently(rates))

\* should_activate_mesh
ShouldActivateMesh ==
  /\ Len(rates) >= Least
  /\ IF Gap \in -MeanSlack .. MeanSlack THEN RoundedBelow(Recently(rates)) ELSE Gap < 0

FallbackNext == \E r \in Rates : RecordDeliveryRate(r)

FallbackSpec == FallbackInit /\ [][FallbackNext]_fallbackVars

----------------------------------------------------------------------------
\* The decision follows what was reported last, whatever the window has
\* dropped and however short the history: a mean of the reports that count
\* clearly below the threshold calls for the mesh, one clearly above it does
\* not, and too few reports never do.  So Recent bad reports always bring the
\* mesh in, and as many good ones always end it (mesh_bridge.py:96-107).
DecisionFollowsReports ==
  LET n == Len(reported)
      counted == {i \in DOMAIN reported : i > n - Recent}
      total == FoldFunctionOnSet(LAMBDA r, sum : r + sum, 0, reported, counted)
      gap == total - Threshold * Cardinality(counted) IN
  /\ ShouldActivateMesh => n >= Least
  /\ n >= Least /\ gap \notin -MeanSlack .. MeanSlack => (ShouldActivateMesh <=> gap < 0)
  /\ n >= Least /\ (\A i \in counted : reported[i] < Threshold - MeanSlack)
       => ShouldActivateMesh
  /\ (\A i \in counted : reported[i] > Threshold + MeanSlack) => ~ShouldActivateMesh

=============================================================================
