-------------------------- MODULE MCCircuitBreaker --------------------------
(* TLC instances of CircuitBreaker; the cfg files give the constants.      *)
EXTENDS CircuitBreaker

CONSTANTS c1, c2, c3

ThreeCallers == {c1, c2, c3}

=============================================================================
