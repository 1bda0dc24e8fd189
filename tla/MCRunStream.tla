----------------------------- MODULE MCRunStream -----------------------------
(* Instances of RunStream for TLC. *)
EXTENDS RunStream

CONSTANTS c1, c2

OneTab  == {c1}
TwoTabs == {c1, c2}
=============================================================================
