------------------------------ MODULE AuditTrail ------------------------------
(* The audited actions of one tenant, from their requests to its SIEM webhook: *)
(* RequestContext and SiemDelivery together.  The log of a request reads the   *)
(* configuration and queues a job, while an administrator saves or deletes that *)
(* configuration and the worker's jobs count their failures in it.  Events are  *)
(* the requests of that tenant.                                                *)
EXTENDS RequestContext, SiemDelivery

TrailInit == Init /\ SiemInit

(* An enabled configuration is worth a job; none, or one that is disabled, is not. *)
Looks(r) ==
    /\ Lookup(r)
    /\ IF r \in Events /\ log'[r] = "enqueue" THEN Find(r) ELSE UNCHANGED webhook
    /\ r \in Events /\ unwanted' # unwanted => ~enabled

Queues(r) ==
    /\ Enqueue(r)
    /\ IF r \in Events THEN Queue(r) ELSE UNCHANGED webhook

(* What else happens to a request does not concern the webhook, *)
Serves(r) ==
    /\ \/ Arrive(r) \/ Leave(r) \/ Granted(r) \/ SetMid(r) \/ Clear(r) \/ Release(r)
       \/ SetUser(r) \/ Statement(r) \/ WantTransaction(r) \/ Commit(r) \/ Rollback(r)
       \/ Answer(r) \/ Refuse(r) \/ Insert(r) \/ LogCommit(r) \/ LogRollback(r)
       \/ LogFails(r) \/ CommitFails(r) \/ EnqueueFails(r)
    /\ UNCHANGED webhook

(* and nothing of the delivery concerns the requests. *)
Delivers ==
    /\ Save \/ Delete \/ \E r \in Events : Process(r) \/ Stall(r)
    /\ UNCHANGED vars

trail == <<vars, webhook>>

TrailNext == Delivers \/ \E r \in Requests : Looks(r) \/ Queues(r) \/ Serves(r)

TrailSpec == TrailInit /\ [][TrailNext]_trail
-----------------------------------------------------------------------------
Touched == late \cup disturbed \cup unlucky

(* What the endpoint was told is in the tenant's own log or about to be stored *)
(* there, unless the log met one of the three causes.                          *)
ToldIsRecorded ==
    \A r \in Events \ Touched : taken[r] > 0 => r \in entries \/ log[r] = "commit"

(* An audited action whose log has ended is recorded; and when its job is at  *)
(* rest, the endpoint took it, or each attempt or the stalls were used up, or  *)
(* no webhook was enabled - but for the three causes.                          *)
AuditedIsTold ==
    \A r \in Events \ Touched :
        log[r] = "done" =>
            /\ r \in entries
            /\ \/ job[r] \notin {"new", "found", "done", "failed"}
               \/ job[r] = "done" /\ taken[r] > 0
               \/ job[r] = "failed" /\ (tries[r] = Attempts \/ stalls[r] > MaxStalls)
               \/ job[r] = "new" /\ r \in unwanted
=============================================================================
