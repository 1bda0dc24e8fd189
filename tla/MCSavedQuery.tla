---------------------------- MODULE MCSavedQuery ----------------------------
(* Small instances of SavedQuery for TLC. *)
EXTENDS SavedQuery, TLC

CONSTANTS e1, e2, opening, typed1, typed2

TwoEditors == {e1, e2}
ThreeTexts == {opening, typed1, typed2}
Symmetric  == Permutations({e1, e2}) \cup Permutations({typed1, typed2})
=============================================================================
