-------------------------------- MODULE Keep --------------------------------
(***************************************************************************)
(* Loops that go through a list and skip what they do not want.            *)
(***************************************************************************)
EXTENDS Sequences, SequencesExt

\* [x for x in seq if x is wanted]
Keep(seq, wanted) ==
  FoldLeft(LAMBDA kept, x : IF x \in wanted THEN Append(kept, x) ELSE kept, <<>>, seq)

=============================================================================
