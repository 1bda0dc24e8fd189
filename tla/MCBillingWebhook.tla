--------------------------- MODULE MCBillingWebhook ---------------------------
(* Instances of BillingWebhook for TLC. *)
EXTENDS BillingWebhook, TLC

CONSTANTS s1, s2, w1, w2

OneSub     == {s1}
TwoSubs    == {s1, s2}
TwoWorkers == {w1, w2}
BillingSymmetry == Permutations(TwoWorkers) \cup Permutations(TwoSubs)
=============================================================================
