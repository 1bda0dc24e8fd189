--------------------------- MODULE MCShellQueryRun ---------------------------
(* Small instances of ShellQueryRun for TLC. *)
EXTENDS ShellQueryRun, TLC

CONSTANTS r1, r2, r3

OneRun    == {r1}
ThreeRuns == {r1, r2, r3}
NoRuns    == {}
RunSymmetry == Permutations(ThreeRuns)
=============================================================================
