--------------------------- MODULE MCTokenBucket ---------------------------
(* TLC instances of TokenBucket; the cfg files give the constants.         *)
EXTENDS TokenBucket

CONSTANTS c1, c2

TwoClients == {c1, c2}

\* The wall clock is set back by two ticks, or forward by one.
BackAndForth == {-2, 1}

=============================================================================
