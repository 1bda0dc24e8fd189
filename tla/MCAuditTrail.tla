----------------------------- MODULE MCAuditTrail -----------------------------
(* Two audited requests on two connections, for TLC. *)
EXTENDS AuditTrail, TLC

CONSTANTS r1, r2, k1, k2, t1

TwoRequests == {r1, r2}
TwoConns    == {k1, k2}
Contexts    == {t1}
AllOfOne    == [r \in TwoRequests |-> t1]
Failures    == {"db", "queue"}
Losses      == {"lost", "crash"}
=============================================================================
