--------------------------- MODULE MCTenantMembers ---------------------------
(* Instances of TenantMembers for TLC. *)
EXTENDS TenantMembers, TLC

CONSTANTS p1, p2, p3, c1, c2, c3

TwoPeople   == {p1, p2}
ThreePeople == {p1, p2, p3}
TwoCalls    == {c1, c2}
ThreeCalls  == {c1, c2, c3}
Symmetry    == Permutations(ThreePeople) \cup Permutations(TwoCalls)
Symmetry2   == Permutations(TwoPeople) \cup Permutations(ThreeCalls)
=============================================================================
