---------------------------- MODULE MCSiemDelivery ----------------------------
(* SiemDelivery with two or three interchangeable events. *)
EXTENDS SiemDelivery, TLC

NoFaults  == {}
AllFaults == {"dns", "lost", "db", "crash"}
Symmetry  == Permutations(Events)
=============================================================================
