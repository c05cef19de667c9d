----------------------------- MODULE MCWebhooks -----------------------------
(* TLC instances of Webhooks; the cfg files give the constants.            *)
EXTENDS Webhooks

CONSTANTS t1, t2, d1, d2

TwoThreads == {t1, t2}
OneDispatch == {d1}
TwoDispatches == {d1, d2}
AllIds == Ids
LastTwo == {2, 3}
NoBadUrls == {}
SecondUrlBad == {2}

=============================================================================
