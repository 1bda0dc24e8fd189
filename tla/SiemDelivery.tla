----------------------------- MODULE SiemDelivery -----------------------------
(* The delivery of one tenant's audit events to its SIEM webhook.             *)
(*                                                                            *)
(* The API queues a job per event, with the URL it finds in the enabled       *)
(* configuration.  The worker posts it, and counts failures in that row until *)
(* it disables it; several jobs run at once.  An administrator saves the      *)
(* configuration, which enables it, or deletes it, which disables it.         *)
EXTENDS Naturals, FiniteSets

CONSTANTS
    Events,     \* audited events
    Threshold,  \* AUTO_DISABLE_THRESHOLD: 10
    Attempts,   \* of a job: 5
    MaxStalls,  \* BullMQ's maxStalledCount: 1
    MaxSaves,   \* bound: how often the configuration is saved
    SiemFaults  \* of "dns", "lost", "db" and "crash"

ASSUME NumbersAssumption ==
    /\ Threshold \in Nat \ {0} /\ Attempts \in Nat \ {0}
    /\ MaxStalls \in Nat /\ MaxSaves \in Nat \ {0}
ASSUME EventsAssumption == IsFiniteSet(Events)

VARIABLES
    url,        \* webhook_url: which save it is from; 0 when there is no row
    enabled,
    failures,   \* consecutive_failures
    deleted,    \* whether the administrator's last act was a deletion
    job,        \* how far each event is
    target,     \* the URL in its job
    tries,      \* its failed attempts
    stalls,
    taken,      \* how often its endpoint accepted it
    unheard,    \* history: ... in an attempt that failed all the same
    streak,     \* history: failed posts to url since its last accepted one or its save
    since,      \* history: failed posts since the configuration was saved
    spoilt,     \* history: whether a count since the save was lost or wiped
    hasty,      \* history: whether a job disabled a configuration with fewer of them
    afterEnd    \* history: whether an event was posted after a deletion

config   == <<url, enabled, failures, deleted>>
delivery == <<job, target, tries, stalls>>
past     == <<taken, unheard, streak, since, spoilt, hasty, afterEnd>>
webhook  == <<url, enabled, failures, deleted, job, target, tries, stalls,
              taken, unheard, streak, since, spoilt, hasty, afterEnd>>

SiemInit ==
    /\ url = 0 /\ enabled = FALSE /\ failures = 0 /\ deleted = FALSE
    /\ job = [e \in Events |-> "new"]
    /\ target = [e \in Events |-> 0]
    /\ tries = [e \in Events |-> 0] /\ stalls = [e \in Events |-> 0]
    /\ taken = [e \in Events |-> 0] /\ unheard = [e \in Events |-> 0]
    /\ streak = 0 /\ since = 0 /\ spoilt = FALSE /\ hasty = FALSE /\ afterEnd = FALSE

Step(e, from, to) == job[e] = from /\ job' = [job EXCEPT ![e] = to]
Active == {"resolve", "post", "reset", "count", "disable"}
-----------------------------------------------------------------------------
(* SiemService, AuditService *)

(* An upsert: the counter and the reasons of the row stay. *)
Save ==
    /\ url < MaxSaves
    /\ url' = url + 1 /\ enabled' = TRUE /\ deleted' = FALSE
    /\ streak' = 0 /\ since' = 0 /\ spoilt' = FALSE
    /\ UNCHANGED <<failures, delivery, taken, unheard, hasty, afterEnd>>

Delete ==
    /\ url # 0
    /\ enabled' = FALSE /\ deleted' = TRUE
    /\ UNCHANGED <<url, failures, delivery, past>>

(* The audit log reads the configuration, and queues the job afterwards. *)
Find(e) ==
    /\ enabled
    /\ Step(e, "new", "found")
    /\ target' = [target EXCEPT ![e] = url]
    /\ UNCHANGED <<config, tries, stalls, past>>

Queue(e) ==
    /\ Step(e, "found", "waiting")
    /\ UNCHANGED <<config, target, tries, stalls, past>>
-----------------------------------------------------------------------------
(* SiemWebhookProcessor.process *)

Mutant_OneTryMore(e) ==
    /\ tries' = [tries EXCEPT ![e] = @ + 1]
    /\ job' = [job EXCEPT ![e] = IF tries[e] < Attempts THEN "waiting" ELSE "failed"]

Mutant_NeverGivenUp(e) ==
    /\ tries' = [tries EXCEPT ![e] = IF @ + 1 < Attempts THEN @ + 1 ELSE 0]
    /\ job' = [job EXCEPT ![e] = "waiting"]

(* An attempt fails; the job waits for its backoff, or is given up. *)
Fail(e) ==
    /\ tries' = [tries EXCEPT ![e] = @ + 1]
    /\ job' = [job EXCEPT ![e] = IF tries[e] + 1 < Attempts THEN "waiting" ELSE "failed"]

Pickup(e) ==
    /\ Step(e, "waiting", "resolve")
    /\ UNCHANGED <<config, target, tries, stalls, past>>

Resolve(e) ==
    /\ Step(e, "resolve", "post")
    /\ UNCHANGED <<config, target, tries, stalls, past>>

(* The secret or the host name is of no use: thrown before the try, not counted. *)
ResolveThrows(e) ==
    /\ "dns" \in SiemFaults /\ job[e] = "resolve"
    /\ Fail(e)
    /\ UNCHANGED <<config, target, stalls, past>>

Posts(e) == afterEnd' = (afterEnd \/ (deleted /\ target[e] = url))

Accepted(e) ==
    /\ Step(e, "post", "reset")
    /\ taken' = [taken EXCEPT ![e] = @ + 1]
    /\ streak' = IF target[e] = url THEN 0 ELSE streak
    /\ Posts(e)
    /\ UNCHANGED <<config, target, tries, stalls, unheard, since, spoilt, hasty>>

(* Refused, unreachable, timed out, or accepted without an answer in time. *)
Refused(e) ==
    /\ Step(e, "post", "count")
    /\ \E lost \in {0} \cup (IF "lost" \in SiemFaults THEN {1} ELSE {}) :
          /\ taken' = [taken EXCEPT ![e] = @ + lost]
          /\ unheard' = [unheard EXCEPT ![e] = @ + lost]
    /\ streak' = IF target[e] = url THEN streak + 1 ELSE streak
    /\ since' = since + 1
    /\ Posts(e)
    /\ UNCHANGED <<config, target, tries, stalls, spoilt, hasty>>

Mutant_ResetAgain(e) ==
    /\ Step(e, "reset", "waiting")
    /\ failures' = 0
    /\ spoilt' = (spoilt \/ streak > 0)
    /\ UNCHANGED <<url, enabled, deleted, target, tries, stalls, taken, unheard,
                   streak, since, hasty, afterEnd>>

(* Posts that failed since the accepted one are forgotten with the older ones. *)
Reset(e) ==
    /\ Step(e, "reset", "done")
    /\ failures' = 0
    /\ spoilt' = (spoilt \/ streak > 0)
    /\ UNCHANGED <<url, enabled, deleted, target, tries, stalls, taken, unheard,
                   streak, since, hasty, afterEnd>>

(* Still in the try: what fails now counts as a failed delivery. *)
ResetThrows(e) ==
    /\ "db" \in SiemFaults
    /\ Step(e, "reset", "count")
    /\ unheard' = [unheard EXCEPT ![e] = @ + 1]
    /\ UNCHANGED <<config, target, tries, stalls, taken, streak, since, spoilt, hasty,
                   afterEnd>>

Mutant_OneMore(e) ==
    /\ job[e] = "count"
    /\ failures' = failures + 1
    /\ IF failures' > Threshold
       THEN Step(e, "count", "disable") /\ UNCHANGED tries
       ELSE Fail(e)
    /\ hasty' = (hasty \/ (failures' >= Threshold /\ since < Threshold))
    /\ UNCHANGED <<url, enabled, deleted, target, stalls, taken, unheard, streak,
                   since, spoilt, afterEnd>>

(* The counter is that of the row, whichever URL the post went to. *)
Count(e) ==
    /\ job[e] = "count"
    /\ failures' = failures + 1
    /\ IF failures' >= Threshold
       THEN Step(e, "count", "disable") /\ UNCHANGED tries
       ELSE Fail(e)
    /\ hasty' = (hasty \/ (failures' >= Threshold /\ since < Threshold))
    /\ UNCHANGED <<url, enabled, deleted, target, stalls, taken, unheard, streak,
                   since, spoilt, afterEnd>>

Disable(e) ==
    /\ job[e] = "disable"
    /\ enabled' = FALSE
    /\ Fail(e)
    /\ UNCHANGED <<url, failures, deleted, target, stalls, past>>

CountThrows(e) ==
    /\ "db" \in SiemFaults /\ job[e] \in {"count", "disable"}
    /\ Fail(e)
    /\ spoilt' = TRUE
    /\ UNCHANGED <<config, target, stalls, taken, unheard, streak, since, hasty, afterEnd>>

(* The worker dies; BullMQ finds the job stalled. *)
Stall(e) ==
    /\ "crash" \in SiemFaults /\ job[e] \in Active
    /\ stalls' = [stalls EXCEPT ![e] = @ + 1]
    /\ job' = [job EXCEPT ![e] = IF stalls[e] < MaxStalls THEN "waiting" ELSE "failed"]
    /\ unheard' = [unheard EXCEPT ![e] = IF job[e] = "reset" THEN @ + 1 ELSE @]
    /\ spoilt' = (spoilt \/ job[e] \in {"count", "disable"})
    /\ UNCHANGED <<config, target, tries, taken, streak, since, hasty, afterEnd>>
-----------------------------------------------------------------------------
Process(e) ==
    \/ Pickup(e) \/ Resolve(e) \/ ResolveThrows(e)
    \/ Accepted(e) \/ Refused(e) \/ Reset(e) \/ ResetThrows(e)
    \/ Count(e) \/ Disable(e) \/ CountThrows(e)

Work(e) == Queue(e) \/ Process(e)

SiemNext == Save \/ Delete \/ \E e \in Events : Find(e) \/ Work(e) \/ Stall(e)

SiemSpec == SiemInit /\ [][SiemNext]_webhook

(* Workers go on; a post ends at its timeout. *)
FairSiemSpec == SiemSpec /\ \A e \in Events : WF_webhook(Work(e))
-----------------------------------------------------------------------------
SiemTypeOK ==
    /\ url \in 0..MaxSaves /\ enabled \in BOOLEAN /\ failures \in Nat
    /\ deleted \in BOOLEAN
    /\ job \in [Events -> {"new", "found", "waiting", "done", "failed"} \cup Active]
    /\ target \in [Events -> 0..MaxSaves]
    /\ tries \in [Events -> 0..Attempts] /\ stalls \in [Events -> 0..MaxStalls + 1]
    /\ taken \in [Events -> Nat] /\ unheard \in [Events -> Nat]
    /\ streak \in Nat /\ since \in Nat
    /\ spoilt \in BOOLEAN /\ hasty \in BOOLEAN /\ afterEnd \in BOOLEAN

(* An endpoint gets an event again only for an acceptance that the worker did   *)
(* not hear of, or could not store.                                            *)
RepeatedOnlyUnheard ==
    \A e \in Events :
        /\ taken[e] <= unheard[e] + 1
        /\ job[e] = "done" => taken[e] = unheard[e] + 1

(* An endpoint that refuses without a break is disabled, however the counts of *)
(* its jobs and an accepted post before them interleave, as soon as none of    *)
(* them is counting - unless a count was lost, or wiped by a late reset.       *)
FailingIsDisabled ==
    streak >= Threshold /\ (\A e \in Events : job[e] \notin {"count", "disable"})
        => ~enabled \/ spoilt

(* An endpoint gets an event no more often than the job can be tried: once for *)
(* each of its attempts and each time it is found stalled.                     *)
DuplicatesBounded == \A e \in Events : taken[e] <= Attempts + MaxStalls

(* Every event that was found worth a job is delivered or given up. *)
EveryEventSettles ==
    \A e \in Events : job[e] = "found" ~> job[e] \in {"done", "failed"}
-----------------------------------------------------------------------------
(* What the tests and the user interface say. *)

(* siem-webhook.processor.unit.test.ts:162: not disabled before 10 failures. *)
DisabledAfterThreshold == ~hasty

(* SiemWebhookConfig.tsx:349: a deletion stops the forwarding of events. *)
DeletionStops == ~afterEnd
=============================================================================
