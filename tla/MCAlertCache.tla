---------------------------- MODULE MCAlertCache ----------------------------
(* TLC instances of AlertCache; the cfg files give the constants.          *)
EXTENDS AlertCache, TLC

CONSTANTS a, b, c, t1, t2

Alerts == {a, b, c}
TwoThreads == {t1, t2}

CacheSymmetry == Permutations(Alerts) \cup Permutations(TwoThreads)

=============================================================================
