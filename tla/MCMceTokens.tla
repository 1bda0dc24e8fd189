----------------------------- MODULE MCMceTokens -----------------------------
(* Instances of MceTokens for TLC. *)
EXTENDS MceTokens, TLC

CONSTANTS api, worker, c1, c2

TwoProcs    == {api, worker}
OnlyApi     == {api}
TwoCallers  == {c1, c2}
ThreeAndTwo == api :> 3 @@ worker :> 2
=============================================================================
