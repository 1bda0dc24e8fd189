----------------------- MODULE MCSharedQueryDefinition -----------------------
(* Instances of SharedQueryDefinition: the concurrent runs of one user.       *)
EXTENDS SharedQueryDefinition, TLC

CONSTANTS r1, r2

TwoRuns == {r1, r2}
OneHasTwoAttempts == (r1 :> 2) @@ (r2 :> 1)
=============================================================================
