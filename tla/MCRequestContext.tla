--------------------------- MODULE MCRequestContext ---------------------------
(* Instances of RequestContext for TLC. *)
EXTENDS RequestContext, TLC

CONSTANTS r1, r2, r3, k1, k2, t1, t2

TwoRequests   == {r1, r2}
ThreeRequests == {r1, r2, r3}
TwoConns      == {k1, k2}
TwoTenants    == {t1, t2}
TwoOfOne      == (r1 :> t1) @@ (r2 :> t2) @@ (r3 :> t1)
OneEach       == (r1 :> t1) @@ (r2 :> t2)
NoFaults      == {}
Failures      == {"db", "queue", "vanish"}
Symmetry      == Permutations(TwoConns) \cup Permutations({r1, r3})
=============================================================================
