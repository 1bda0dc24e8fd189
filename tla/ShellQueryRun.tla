---------------------------- MODULE ShellQueryRun ----------------------------
(* The life of a shell query run across the API (createRun, cancelRun), the  *)
(* database row, the BullMQ queue and the worker's two jobs: "execute", which *)
(* starts the query in Marketing Cloud (MCE), and "poll", which watches it    *)
(* until the run can be marked ready or failed.                               *)
(*                                                                            *)
(* A handler is cut at every await whose effect another actor can see, so pc  *)
(* names the call a job is about to make.  Each call may throw: Faults says   *)
(* which kinds of failure a model lets happen.                                *)
EXTENDS Naturals, FiniteSets

CONSTANTS
    Runs,               \* the runs one user may ask for
    TargetRuns,         \* those with targetDeCustomerKey (run to target)
    CancelRuns,         \* those the user may cancel
    MaxActive,          \* createRun: 10
    MaxCreators,        \* createRun requests of the user in flight at a time
    ExecuteAttempts,    \* attempts of the execute job: 2
    PollAttempts,       \* attempts of the poll job: 3, the queue's default
    MaxStalls,          \* BullMQ's maxStalledCount: 1
    MaxPollCount,       \* POLL_CONFIG.MAX_POLL_COUNT: 120
    RowsetMaxAttempts,  \* POLL_CONFIG.ROWSET_READY_MAX_ATTEMPTS: 6
    Confirmations,      \* POLL_CONFIG.NOT_RUNNING_CONFIRMATIONS: 2
    MaxPerforms,        \* bound: how often a run's query is sent to MCE
    Faults              \* the kinds of failure that may happen

FaultKinds == {"crash", "db", "redis", "mce", "api"}

ASSUME RunsAssumption ==
    TargetRuns \subseteq Runs /\ CancelRuns \subseteq Runs /\ IsFiniteSet(Runs)
ASSUME LimitsAssumption ==
    /\ MaxActive \in Nat \ {0} /\ MaxCreators \in Nat \ {0}
    /\ ExecuteAttempts \in Nat \ {0} /\ PollAttempts \in Nat \ {0}
    /\ MaxStalls \in Nat /\ MaxPollCount \in Nat /\ MaxPerforms \in Nat \ {0}
    /\ RowsetMaxAttempts \in Nat \ {0}
    /\ Confirmations \in Nat /\ Confirmations >= 2
ASSUME FaultsAssumption == Faults \subseteq FaultKinds

VARIABLES
    status,    \* shell_query_runs.status ("absent": no row yet)
    event,     \* the cached last SSE event of the run
    api,       \* how far createRun is
    cancel,    \* how far a cancelRun is
    pc,        \* pc[k][r]: where job k of run r is
    tries,     \* attemptsMade: attempts of a job that failed
    stalls,    \* stalledCounter: times a job lost its worker
    data,      \* data of the poll job
    clock,     \* time since pollStartedAt, against the code's thresholds
    performs,  \* times MCE was told to perform the run's query
    resends,   \* those among them the HTTP retry of the bridge repeated
    task,      \* task[r][i]: MCE's i-th task of the run
    streak     \* consecutive "not running" answers MCE gave of a running task

vars == <<status, event, api, cancel, pc, tries, stalls, data, clock,
          performs, resends, task, streak>>

Statuses == {"absent", "queued", "running", "ready", "failed", "canceled"}
Live     == {"queued", "running"}
Terminal == {"ready", "failed", "canceled"}
Events   == {"none", "progress", "ready", "failed", "canceled"}
Kinds    == {"execute", "poll"}
Tasks    == 1 .. MaxPerforms

(* The calls of each handler and of the failed-job hook, by what they talk to *)
DbSteps    == {"check", "mark", "record", "setFailed", "setReady", "cleanup"}
PublishSteps == {"announce", "sayCanceled", "prepare", "sayFailing",
                 "sayFetching", "sayReady"}
RedisSteps == PublishSteps \cup {"enqueue", "delay"}
MceSteps   == {"prepare", "perform", "ask"}
HandlerSteps == DbSteps \cup RedisSteps \cup MceSteps \cup {"ack"}
HookSteps    == {"failing", "sayFailed", "sayUnsaved"}
Ended        == {"completed", "detached", "failed", "unsaved"}
PCs == {"none", "waiting"} \cup HandlerSteps \cup HookSteps \cup Ended

Attempts(k) == IF k = "execute" THEN ExecuteAttempts ELSE PollAttempts
Active      == {r \in Runs : status[r] \in Live}
Creating    == {r \in Runs : api[r] = "counted"}

PollData == [task : 0 .. MaxPerforms, pollCount : Nat, notRunning : Nat,
             rowset : Nat]

Init ==
    /\ status = [r \in Runs |-> "absent"]
    /\ event = [r \in Runs |-> "none"]
    /\ api = [r \in Runs |-> "idle"]
    /\ cancel = [r \in Runs |-> "idle"]
    /\ pc = [k \in Kinds |-> [r \in Runs |-> "none"]]
    /\ tries = [k \in Kinds |-> [r \in Runs |-> 0]]
    /\ stalls = [k \in Kinds |-> [r \in Runs |-> 0]]
    /\ data = [r \in Runs |-> [task |-> 0, pollCount |-> 0, notRunning |-> 0,
                               rowset |-> 0]]
    /\ clock = [r \in Runs |-> "fresh"]
    /\ performs = [r \in Runs |-> 0]
    /\ resends = [r \in Runs |-> 0]
    /\ task = [r \in Runs |-> [i \in Tasks |-> "none"]]
    /\ streak = [r \in Runs |-> 0]

(* Abbreviations for frames: the variables of the API, of the queue's        *)
(* bookkeeping and of Marketing Cloud.                                        *)
apiVars   == <<api, cancel>>
queueVars == <<tries, stalls>>
mceVars   == <<performs, resends, task, streak>>

Goto(k, r, p) == pc' = [pc EXCEPT ![k][r] = p]
GotoBoth(r, p, q) ==
    pc' = [k \in Kinds |->
             [pc[k] EXCEPT ![r] = IF k = "execute" THEN p ELSE q]]
-----------------------------------------------------------------------------
(* The API: createRun counts, inserts and enqueues in three statements of no *)
(* common transaction; cancelRun reads and then writes.                      *)

(* Here and below, a definition with a Mutant_ prefix is a plausible slip in *)
(* the one it precedes, kept to show which property notices it.              *)
Mutant_AdmitOneTooMany(r) ==
    /\ api[r] = "idle"
    /\ Cardinality(Creating) < MaxCreators
    /\ Cardinality(Active) <= MaxActive
    /\ api' = [api EXCEPT ![r] = "counted"]
    /\ UNCHANGED <<status, event, cancel, pc, queueVars, data, clock, mceVars>>

AdmitRun(r) ==
    /\ api[r] = "idle"
    /\ Cardinality(Creating) < MaxCreators
    /\ Cardinality(Active) < MaxActive
    /\ api' = [api EXCEPT ![r] = "counted"]
    /\ UNCHANGED <<status, event, cancel, pc, queueVars, data, clock, mceVars>>

RejectRun(r) ==
    /\ api[r] = "idle"
    /\ Cardinality(Active) >= MaxActive
    /\ api' = [api EXCEPT ![r] = "rejected"]
    /\ UNCHANGED <<status, event, cancel, pc, queueVars, data, clock, mceVars>>

InsertRun(r) ==
    /\ api[r] = "counted"
    /\ api' = [api EXCEPT ![r] = "inserted"]
    /\ status' = [status EXCEPT ![r] = "queued"]
    /\ UNCHANGED <<event, cancel, pc, queueVars, data, clock, mceVars>>

InsertFails(r) ==
    /\ api[r] = "counted"
    /\ Faults \cap {"db", "api"} # {}
    /\ api' = [api EXCEPT ![r] = "rejected"]
    /\ UNCHANGED <<status, event, cancel, pc, queueVars, data, clock, mceVars>>

EnqueueExecute(r) ==
    /\ api[r] = "inserted"
    /\ api' = [api EXCEPT ![r] = "done"]
    /\ Goto("execute", r, "waiting")
    /\ UNCHANGED <<status, event, cancel, queueVars, data, clock, mceVars>>

(* queue.add throws, or the API process dies before it: nothing undoes the   *)
(* insert.                                                                   *)
EnqueueFails(r) ==
    /\ api[r] = "inserted"
    /\ Faults \cap {"redis", "api"} # {}
    /\ api' = [api EXCEPT ![r] = "abandoned"]
    /\ UNCHANGED <<status, event, cancel, pc, queueVars, data, clock, mceVars>>

CancelRead(r) ==
    /\ r \in CancelRuns
    /\ cancel[r] = "idle"
    /\ status[r] \in Live
    /\ cancel' = [cancel EXCEPT ![r] = "marking"]
    /\ UNCHANGED <<status, event, api, pc, queueVars, data, clock, mceVars>>

(* markCanceled's WHERE names the run but not the status just read. *)
CancelMark(r) ==
    /\ cancel[r] = "marking"
    /\ cancel' = [cancel EXCEPT ![r] = "idle"]
    /\ status' = [status EXCEPT ![r] = "canceled"]
    /\ UNCHANGED <<event, api, pc, queueVars, data, clock, mceVars>>

CancelFails(r) ==
    /\ cancel[r] = "marking"
    /\ Faults \cap {"db", "api"} # {}
    /\ cancel' = [cancel EXCEPT ![r] = "idle"]
    /\ UNCHANGED <<status, event, api, pc, queueVars, data, clock, mceVars>>
-----------------------------------------------------------------------------
(* updateStatus never leaves a terminal status; publishStatusEvent caches.   *)

Mutant_UpdateAnyStatus(r, s) == status' = [status EXCEPT ![r] = s]

Mutant_UpdateQueuedOnly(r, s) ==
    status' = [status EXCEPT ![r] = IF @ = "queued" THEN s ELSE @]

UpdateStatus(r, s) ==
    status' = [status EXCEPT ![r] = IF @ \in Terminal THEN @ ELSE s]

Publish(r, e) == event' = [event EXCEPT ![r] = e]

(* The event the handler is about to publish at each publishing call. *)
EventAt == [p \in PublishSteps |->
              CASE p = "sayCanceled" -> "canceled"
                [] p = "sayFailing"  -> "failed"
                [] p = "sayReady"    -> "ready"
                [] OTHER             -> "progress"]

(* BullMQ hands a waiting job to a worker.  A job that stalled too often is  *)
(* failed at once instead, unrecoverably.                                    *)
Pickup(k, r) ==
    /\ pc[k][r] = "waiting"
    /\ stalls[k][r] <= MaxStalls
    /\ Goto(k, r, "check")
    /\ UNCHANGED <<status, event, apiVars, queueVars, data, clock, mceVars>>

GiveUp(k, r) ==
    /\ pc[k][r] = "waiting"
    /\ stalls[k][r] > MaxStalls
    /\ Goto(k, r, "failing")
    /\ tries' = [tries EXCEPT ![k][r] = @ + 1]
    /\ UNCHANGED <<status, event, apiVars, stalls, data, clock, mceVars>>

(* The worker dies, or loses the job's lock: the job goes back to waiting. *)
Stall(k, r) ==
    /\ "crash" \in Faults
    /\ pc[k][r] \in HandlerSteps
    /\ Goto(k, r, "waiting")
    /\ stalls' = [stalls EXCEPT ![k][r] = @ + 1]
    /\ UNCHANGED <<status, event, apiVars, tries, data, clock, mceVars>>

Mutant_NoHookOnLastAttempt(k, r, terminal) ==
    /\ tries' = [tries EXCEPT ![k][r] = @ + 1]
    /\ Goto(k, r, IF terminal \/ tries[k][r] + 1 >= Attempts(k)
                    THEN "failed" ELSE "waiting")
    /\ UNCHANGED <<apiVars, stalls, clock>>

Mutant_AttemptNotCounted(k, r, terminal) ==
    /\ Goto(k, r, IF terminal THEN "failing" ELSE "waiting")
    /\ UNCHANGED <<apiVars, tries, stalls, clock>>

(* The handler throws: an attempt is spent, and the last one, or an          *)
(* unrecoverable error, ends the job and runs the hook.                      *)
FailAttempt(k, r, terminal) ==
    /\ tries' = [tries EXCEPT ![k][r] = @ + 1]
    /\ Goto(k, r, IF terminal \/ tries[k][r] + 1 >= Attempts(k)
                    THEN "failing" ELSE "waiting")
    /\ UNCHANGED <<apiVars, stalls, clock>>

(* A call to MCE, too, takes a database connection first. *)
DbThrows(k, r) ==
    /\ "db" \in Faults
    /\ pc[k][r] \in DbSteps \cup MceSteps
    /\ FailAttempt(k, r, FALSE)
    /\ UNCHANGED <<status, event, data, mceVars>>

(* Promise.all of PUBLISH and SET: the event may be cached all the same. *)
PublishThrows(k, r) ==
    /\ "redis" \in Faults
    /\ pc[k][r] \in PublishSteps
    /\ FailAttempt(k, r, FALSE)
    /\ \/ UNCHANGED event
       \/ Publish(r, EventAt[pc[k][r]])
    /\ UNCHANGED <<status, data, mceVars>>

(* MCE refuses: validation, schema, permission, SOAP failure, bad request... *)
(* The execute job also ends this way when its SQL cannot be decrypted.      *)
Refuse(k, r) ==
    /\ pc[k][r] \in {"prepare", "perform", "ask"}
    /\ FailAttempt(k, r, TRUE)
    /\ UNCHANGED <<status, event, data, mceVars>>

DecryptFails(r) ==
    /\ pc["execute"][r] = "check"
    /\ FailAttempt("execute", r, TRUE)
    /\ UNCHANGED <<status, event, data, mceVars>>

MceThrows(k, r) ==
    /\ "mce" \in Faults
    /\ pc[k][r] \in MceSteps
    /\ FailAttempt(k, r, FALSE)
    /\ UNCHANGED <<status, event, data, mceVars>>
-----------------------------------------------------------------------------
(* The execute job. *)

StartTask(r) ==
    /\ performs[r] < MaxPerforms
    /\ performs' = [performs EXCEPT ![r] = @ + 1]
    /\ task' = [task EXCEPT ![r][performs[r] + 1] = "running"]

ExecuteCheck(r) ==
    /\ pc["execute"][r] = "check"
    /\ Goto("execute", r,
            IF status[r] = "canceled" THEN "sayCanceled" ELSE "mark")
    /\ UNCHANGED <<status, event, apiVars, queueVars, data, clock, mceVars>>

ExecuteSayCanceled(r) ==
    /\ pc["execute"][r] = "sayCanceled"
    /\ Publish(r, "canceled")
    /\ Goto("execute", r, "ack")
    /\ UNCHANGED <<status, apiVars, queueVars, data, clock, mceVars>>

Mutant_RunningNotMarked(r) ==
    /\ pc["execute"][r] = "mark"
    /\ Goto("execute", r, "announce")
    /\ UNCHANGED <<status, event, apiVars, queueVars, data, clock, mceVars>>

ExecuteMark(r) ==
    /\ pc["execute"][r] = "mark"
    /\ UpdateStatus(r, "running")
    /\ Goto("execute", r, "announce")
    /\ UNCHANGED <<event, apiVars, queueVars, data, clock, mceVars>>

ExecuteAnnounce(r) ==
    /\ pc["execute"][r] = "announce"
    /\ Publish(r, "progress")
    /\ Goto("execute", r, "prepare")
    /\ UNCHANGED <<status, apiVars, queueVars, data, clock, mceVars>>

(* The strategy up to its last call: validation, schema, folder, target,     *)
(* query definition, with a progress event before each part.                 *)
ExecutePrepare(r) ==
    /\ pc["execute"][r] = "prepare"
    /\ Publish(r, "progress")
    /\ Goto("execute", r, "perform")
    /\ UNCHANGED <<status, apiVars, queueVars, data, clock, mceVars>>

ExecutePerform(r) ==
    /\ pc["execute"][r] = "perform"
    /\ StartTask(r)
    /\ Goto("execute", r, "record")
    /\ UNCHANGED <<status, event, apiVars, queueVars, data, clock, resends,
                   streak>>

(* The answer is lost and the bridge sends the request again, within the     *)
(* same attempt...                                                           *)
Resend(r) ==
    /\ "mce" \in Faults
    /\ pc["execute"][r] = "perform"
    /\ StartTask(r)
    /\ resends' = [resends EXCEPT ![r] = @ + 1]
    /\ UNCHANGED <<status, event, apiVars, pc, queueVars, data, clock, streak>>

(* ... or gives up: the attempt fails although the task is running.  The     *)
(* same if the answer carries no task id, a terminal error.                  *)
PerformUnanswered(r) ==
    /\ "mce" \in Faults
    /\ pc["execute"][r] = "perform"
    /\ StartTask(r)
    /\ \E terminal \in BOOLEAN : FailAttempt("execute", r, terminal)
    /\ UNCHANGED <<status, event, data, resends, streak>>

(* taskId, queryDefinitionId and pollStartedAt go to the run's row, which no *)
(* job reads back.                                                           *)
ExecuteRecord(r) ==
    /\ pc["execute"][r] = "record"
    /\ Goto("execute", r, "enqueue")
    /\ UNCHANGED <<status, event, apiVars, queueVars, data, clock, mceVars>>

Mutant_ExecuteRequeued(r) ==
    IF pc["poll"][r] = "none"
      THEN /\ data' = [data EXCEPT ![r].task = performs[r]]
           /\ GotoBoth(r, "waiting", "waiting")
      ELSE /\ Goto("execute", r, "ack")
           /\ UNCHANGED data

(* queue.add of poll-<runId>: without effect when the job is there already. *)
AddPoll(r) ==
    IF pc["poll"][r] = "none"
      THEN /\ data' = [data EXCEPT ![r].task = performs[r]]
           /\ GotoBoth(r, "ack", "waiting")
      ELSE /\ Goto("execute", r, "ack")
           /\ UNCHANGED data

EnqueuePoll(r) ==
    /\ pc["execute"][r] = "enqueue"
    /\ AddPoll(r)
    /\ UNCHANGED <<status, event, apiVars, queueVars, clock, mceVars>>

(* The add throws, with the poll job added or not. *)
EnqueuePollThrows(r) ==
    LET retry == IF tries["execute"][r] + 1 >= ExecuteAttempts
                   THEN "failing" ELSE "waiting"
    IN /\ "redis" \in Faults
       /\ pc["execute"][r] = "enqueue"
       /\ tries' = [tries EXCEPT !["execute"][r] = @ + 1]
       /\ \/ /\ Goto("execute", r, retry)
             /\ UNCHANGED data
          \/ /\ pc["poll"][r] = "none"
             /\ GotoBoth(r, retry, "waiting")
             /\ data' = [data EXCEPT ![r].task = performs[r]]
       /\ UNCHANGED <<status, event, apiVars, stalls, clock, mceVars>>

(* The handler returned; BullMQ moves the job to completed. *)
Acknowledge(r) ==
    /\ pc["execute"][r] = "ack"
    /\ Goto("execute", r, "completed")
    /\ UNCHANGED <<status, event, apiVars, queueVars, data, clock, mceVars>>
-----------------------------------------------------------------------------
(* The poll job. *)

Mutant_CanceledPollWaits(r) ==
    /\ pc["poll"][r] = "check"
    /\ Goto("poll", r,
            IF status[r] = "canceled" THEN "delay"
            ELSE IF clock[r] = "expired" \/ data[r].pollCount >= MaxPollCount
                   THEN "setFailed" ELSE "ask")
    /\ UNCHANGED <<status, event, apiVars, queueVars, data, clock, mceVars>>

PollCheck(r) ==
    /\ pc["poll"][r] = "check"
    /\ Goto("poll", r,
            IF status[r] = "canceled" THEN "sayCanceled"
            ELSE IF clock[r] = "expired" \/ data[r].pollCount >= MaxPollCount
                   THEN "setFailed" ELSE "ask")
    /\ UNCHANGED <<status, event, apiVars, queueVars, data, clock, mceVars>>

PollSayCanceled(r) ==
    /\ pc["poll"][r] = "sayCanceled"
    /\ Publish(r, "canceled")
    /\ Goto("poll", r, "cleanup")
    /\ UNCHANGED <<status, apiVars, queueVars, data, clock, mceVars>>

Watched(r) == task[r][data[r].task]

(* SOAP reports an error of the task. *)
AskErrored(r) ==
    /\ pc["poll"][r] = "ask"
    /\ Watched(r) = "error"
    /\ Goto("poll", r, "setFailed")
    /\ UNCHANGED <<status, event, apiVars, queueVars, data, clock, mceVars>>

(* The row probe finds rows: some task has written them, unless the data     *)
(* extension is the user's own, which may hold rows from before.             *)
AskRowsFound(r) ==
    /\ pc["poll"][r] = "ask"
    /\ r \in TargetRuns \/ \E i \in Tasks : task[r][i] = "done"
    /\ Goto("poll", r, "sayFetching")
    /\ UNCHANGED <<status, event, apiVars, queueVars, data, clock, mceVars>>

(* handleCompletionWithRowsetCheck.  Only the job itself can be rescheduled: *)
(* called with a copy of it (genuine is FALSE), which has lost updateData,   *)
(* it returns and the job completes.                                         *)
RowsetReady(r) ==
    /\ Goto("poll", r, "sayFetching")
    /\ UNCHANGED data

RowsetNotReady(r, genuine) ==
    IF data[r].rowset + 1 >= RowsetMaxAttempts
      THEN /\ Goto("poll", r, "setFailed")
           /\ UNCHANGED data
      ELSE IF genuine
        THEN /\ data' = [data EXCEPT ![r].rowset = @ + 1]
             /\ Goto("poll", r, "delay")
        ELSE /\ Goto("poll", r, "detached")
             /\ UNCHANGED data

AskComplete(r) ==
    /\ pc["poll"][r] = "ask"
    /\ Watched(r) = "done"
    /\ RowsetReady(r) \/ RowsetNotReady(r, TRUE)
    /\ UNCHANGED <<status, event, apiVars, queueVars, clock, mceVars>>

Mutant_PollNotCounted(r, confirmations) ==
    /\ data' = [data EXCEPT ![r].notRunning = confirmations]
    /\ Goto("poll", r, "delay")

PollAgain(r, confirmations) ==
    /\ data' = [data EXCEPT ![r] =
                   [task |-> @.task, pollCount |-> @.pollCount + 1,
                    notRunning |-> confirmations, rowset |-> @.rowset]]
    /\ Goto("poll", r, "delay")

(* Neither stuck nor a completed date: isRunning is not asked. *)
AskProcessing(r) ==
    /\ pc["poll"][r] = "ask"
    /\ clock[r] = "fresh"
    /\ PollAgain(r, data[r].notRunning)
    /\ UNCHANGED <<status, event, apiVars, queueVars, clock, mceVars>>

Mutant_ConfirmationsKept(r) ==
    /\ pc["poll"][r] = "ask"
    /\ PollAgain(r, data[r].notRunning)
    /\ streak' = [streak EXCEPT ![r] = 0]
    /\ UNCHANGED <<status, event, apiVars, queueVars, clock, performs, resends,
                   task>>

(* isRunning is true, or could not be told: the confirmations start over. *)
AskRunning(r) ==
    /\ pc["poll"][r] = "ask"
    /\ PollAgain(r, 0)
    /\ streak' = [streak EXCEPT ![r] = 0]
    /\ UNCHANGED <<status, event, apiVars, queueVars, clock, performs, resends,
                   task>>

(* isRunning is false.  MCE may say so of a running task, but never as often *)
(* in a row as the code wants it confirmed.                                  *)
AnswerNotRunning(r) ==
    IF Watched(r) = "running"
      THEN /\ streak[r] + 1 < Confirmations
           /\ streak' = [streak EXCEPT ![r] = @ + 1]
      ELSE UNCHANGED streak

(* The first such answer counts as one confirmation, a later one as one more *)
(* unless it comes too soon; enough of them lead to the rowset check.        *)
AskNotRunning(r) ==
    /\ pc["poll"][r] = "ask"
    /\ AnswerNotRunning(r)
    /\ \/ /\ data[r].notRunning = 0
          /\ PollAgain(r, 1)
       \/ /\ data[r].notRunning > 0
          /\ PollAgain(r, data[r].notRunning)
       \/ /\ data[r].notRunning > 0
          /\ data[r].notRunning + 1 < Confirmations
          /\ PollAgain(r, data[r].notRunning + 1)
       \/ /\ data[r].notRunning > 0
          /\ data[r].notRunning + 1 >= Confirmations
          /\ RowsetReady(r) \/ RowsetNotReady(r, FALSE)
    /\ UNCHANGED <<status, event, apiVars, queueVars, clock, performs, resends,
                   task>>

(* updateData throws, or the worker dies before it: MCE has answered, the    *)
(* answer is lost.                                                           *)
AnswerLost(r) ==
    /\ pc["poll"][r] = "ask"
    /\ streak' = [streak EXCEPT ![r] = 0]
    /\ \/ /\ "redis" \in Faults
          /\ FailAttempt("poll", r, FALSE)
       \/ /\ "crash" \in Faults
          /\ Goto("poll", r, "waiting")
          /\ stalls' = [stalls EXCEPT !["poll"][r] = @ + 1]
          /\ UNCHANGED <<apiVars, tries, clock>>
    /\ UNCHANGED <<status, event, data, performs, resends, task>>

DelayThrows(r) ==
    /\ "redis" \in Faults
    /\ pc["poll"][r] = "delay"
    /\ FailAttempt("poll", r, FALSE)
    /\ UNCHANGED <<status, event, data, mceVars>>

(* moveToDelayed: the job waits again, no attempt is spent. *)
Delay(r) ==
    /\ pc["poll"][r] = "delay"
    /\ Goto("poll", r, "waiting")
    /\ UNCHANGED <<status, event, apiVars, queueVars, data, clock, mceVars>>

(* markFailed *)
SetFailed(r) ==
    /\ pc["poll"][r] = "setFailed"
    /\ UpdateStatus(r, "failed")
    /\ Goto("poll", r, "sayFailing")
    /\ UNCHANGED <<event, apiVars, queueVars, data, clock, mceVars>>

SayFailing(r) ==
    /\ pc["poll"][r] = "sayFailing"
    /\ Publish(r, "failed")
    /\ Goto("poll", r, "cleanup")
    /\ UNCHANGED <<status, apiVars, queueVars, data, clock, mceVars>>

Mutant_ReadyAnnouncedFirst(r) ==
    /\ pc["poll"][r] = "sayFetching"
    /\ Publish(r, "ready")
    /\ Goto("poll", r, "setReady")
    /\ UNCHANGED <<status, apiVars, queueVars, data, clock, mceVars>>

(* markReady *)
SayFetching(r) ==
    /\ pc["poll"][r] = "sayFetching"
    /\ Publish(r, "progress")
    /\ Goto("poll", r, "setReady")
    /\ UNCHANGED <<status, apiVars, queueVars, data, clock, mceVars>>

SetReady(r) ==
    /\ pc["poll"][r] = "setReady"
    /\ UpdateStatus(r, "ready")
    /\ Goto("poll", r, "sayReady")
    /\ UNCHANGED <<event, apiVars, queueVars, data, clock, mceVars>>

SayReady(r) ==
    /\ pc["poll"][r] = "sayReady"
    /\ Publish(r, "ready")
    /\ Goto("poll", r, "cleanup")
    /\ UNCHANGED <<status, apiVars, queueVars, data, clock, mceVars>>

(* The query definition is deleted, errors swallowed; the job completes. *)
Cleanup(r) ==
    /\ pc["poll"][r] = "cleanup"
    /\ Goto("poll", r, "completed")
    /\ UNCHANGED <<status, event, apiVars, queueVars, data, clock, mceVars>>
-----------------------------------------------------------------------------
(* The failed-job hook: status, then event, each error swallowed.  It runs   *)
(* once: nobody runs it again when the worker dies in it.                    *)

HookStatus(k, r) ==
    /\ pc[k][r] = "failing"
    /\ UpdateStatus(r, "failed")
    /\ Goto(k, r, "sayFailed")
    /\ UNCHANGED <<event, apiVars, queueVars, data, clock, mceVars>>

HookStatusThrows(k, r) ==
    /\ "db" \in Faults
    /\ pc[k][r] = "failing"
    /\ Goto(k, r, "sayUnsaved")
    /\ UNCHANGED <<status, event, apiVars, queueVars, data, clock, mceVars>>

HookEvent(k, r) ==
    /\ pc[k][r] \in {"sayFailed", "sayUnsaved"}
    /\ \/ Publish(r, "failed")
       \/ "redis" \in Faults /\ UNCHANGED event
    /\ Goto(k, r, IF pc[k][r] = "sayFailed" THEN "failed" ELSE "unsaved")
    /\ UNCHANGED <<status, apiVars, queueVars, data, clock, mceVars>>

HookDies(k, r) ==
    /\ "crash" \in Faults
    /\ pc[k][r] \in HookSteps
    /\ Goto(k, r, IF pc[k][r] = "sayFailed" THEN "failed" ELSE "unsaved")
    /\ UNCHANGED <<status, event, apiVars, queueVars, data, clock, mceVars>>
-----------------------------------------------------------------------------
(* The environment: MCE's tasks end, time passes. *)

TaskEnds(r, i) ==
    /\ task[r][i] = "running"
    /\ \E outcome \in {"done", "error"} : task' = [task EXCEPT ![r][i] = outcome]
    /\ UNCHANGED <<status, event, apiVars, pc, queueVars, data, clock, performs,
                   resends, streak>>

Tick(r) ==
    /\ pc["poll"][r] # "none"
    /\ \/ clock[r] = "fresh" /\ clock' = [clock EXCEPT ![r] = "stuck"]
       \/ clock[r] = "stuck" /\ clock' = [clock EXCEPT ![r] = "expired"]
    /\ UNCHANGED <<status, event, apiVars, pc, queueVars, data, mceVars>>

CreateStep(r) == AdmitRun(r) \/ RejectRun(r) \/ InsertRun(r) \/ EnqueueExecute(r)

CancelStep(r) == CancelRead(r) \/ CancelMark(r)

ExecuteStep(r) ==
    \/ ExecuteCheck(r) \/ ExecuteSayCanceled(r) \/ ExecuteMark(r)
    \/ ExecuteAnnounce(r) \/ ExecutePrepare(r) \/ ExecutePerform(r)
    \/ ExecuteRecord(r) \/ EnqueuePoll(r) \/ Acknowledge(r)

PollStep(r) ==
    \/ PollCheck(r) \/ PollSayCanceled(r)
    \/ AskErrored(r) \/ AskRowsFound(r) \/ AskComplete(r) \/ AskProcessing(r)
    \/ AskRunning(r) \/ AskNotRunning(r) \/ Delay(r)
    \/ SetFailed(r) \/ SayFailing(r)
    \/ SayFetching(r) \/ SetReady(r) \/ SayReady(r) \/ Cleanup(r)

QueueStep(k, r) ==
    Pickup(k, r) \/ GiveUp(k, r) \/ HookStatus(k, r) \/ HookEvent(k, r)

Fault(r) ==
    \/ InsertFails(r) \/ EnqueueFails(r) \/ CancelFails(r)
    \/ DecryptFails(r) \/ Resend(r)
    \/ PerformUnanswered(r) \/ EnqueuePollThrows(r) \/ AnswerLost(r)
    \/ DelayThrows(r)
    \/ \E k \in Kinds : \/ Stall(k, r) \/ DbThrows(k, r) \/ PublishThrows(k, r)
                        \/ MceThrows(k, r) \/ Refuse(k, r)
                        \/ HookStatusThrows(k, r) \/ HookDies(k, r)

Environment(r) == Tick(r) \/ \E i \in Tasks : TaskEnds(r, i)

Next == \E r \in Runs :
            \/ CreateStep(r) \/ CancelStep(r) \/ ExecuteStep(r) \/ PollStep(r)
            \/ \E k \in Kinds : QueueStep(k, r)
            \/ Fault(r) \/ Environment(r)

Spec == Init /\ [][Next]_vars

(* The API finishes a request it has begun; a worker that holds a job goes   *)
(* on with it and a free one takes the next; the hook runs to its end.       *)
(* Nothing is assumed of MCE's tasks, of the user or of the faults.          *)
Fairness == \A r \in Runs :
              /\ WF_vars(InsertRun(r) \/ EnqueueExecute(r))
              /\ WF_vars(CancelMark(r))
              /\ WF_vars(ExecuteStep(r))
              /\ WF_vars(PollStep(r))
              /\ \A k \in Kinds : WF_vars(QueueStep(k, r))

FairSpec == Spec /\ Fairness
-----------------------------------------------------------------------------
(* Properties *)

TypeOK ==
    /\ status \in [Runs -> Statuses]
    /\ event \in [Runs -> Events]
    /\ api \in [Runs -> {"idle", "counted", "inserted", "done", "rejected",
                         "abandoned"}]
    /\ cancel \in [Runs -> {"idle", "marking"}]
    /\ pc \in [Kinds -> [Runs -> PCs]]
    /\ tries \in [Kinds -> [Runs -> Nat]]
    /\ stalls \in [Kinds -> [Runs -> Nat]]
    /\ data \in [Runs -> PollData]
    /\ clock \in [Runs -> {"fresh", "stuck", "expired"}]
    /\ performs \in [Runs -> 0 .. MaxPerforms]
    /\ resends \in [Runs -> Nat]
    /\ task \in [Runs -> [Tasks -> {"none", "running", "done", "error"}]]
    /\ streak \in [Runs -> Nat]

Busy(k, r) == pc[k][r] \in {"waiting"} \cup HandlerSteps \cup HookSteps

Custodian(r) == api[r] = "inserted" \/ \E k \in Kinds : Busy(k, r)

(* The ways the code is known to let go of a run that is not over: createRun *)
(* dies between the insert and the enqueue, the hook of a failed job does not *)
(* get its status stored, the rowset check completes a copy of the poll job.  *)
Dropped(r) == \/ api[r] = "abandoned"
              \/ \E k \in Kinds : pc[k][r] = "unsaved"
              \/ pc["poll"][r] = "detached"

(* A run that counts against the user's limit is in somebody's hands: the    *)
(* request that creates it, or a job that still waits, runs or reports its   *)
(* failure - in spite of crashes, retries, stalls and cancellations, and     *)
(* apart from the three ways of Dropped.                                     *)
LiveRunHasCustodian == \A r \in Active : Custodian(r) \/ Dropped(r)

(* "Up to 10 concurrent runs across all tabs": the limit is checked and used *)
(* in two steps, so requests in flight can pass it together, but no more of  *)
(* them than there are.                                                      *)
ActiveBounded == Cardinality(Active) <= MaxActive - 1 + MaxCreators

(* The worker's updates never leave a terminal status; only a cancelRun that *)
(* read the status before it became terminal can.                            *)
OutcomeKept ==
    [][\A r \in Runs : status[r] \in Terminal /\ status'[r] # status[r]
          => status'[r] = "canceled" /\ cancel[r] = "marking"]_vars

(* The query of a run is sent to MCE once, and once more at most for every   *)
(* failed attempt, every stall of the execute job and every repeated request.*)
PerformsArePaid ==
    \A r \in Runs :
        performs[r] <= 1 + tries["execute"][r] + stalls["execute"][r] + resends[r]

(* The stream announces no outcome before the row has one: "ready" and       *)
(* "failed" come after a terminal status was stored (or the hook failed to   *)
(* store it), "canceled" only for a canceled run.                            *)
OutcomeNotAnnouncedEarly ==
    \A r \in Runs :
        /\ event[r] = "ready" => status[r] \in Terminal
        /\ event[r] = "canceled" => status[r] = "canceled"
        /\ event[r] = "failed" =>
             \/ status[r] \in Terminal
             \/ \E k \in Kinds : pc[k][r] \in {"sayUnsaved", "unsaved"}

(* A run to a temporary data extension is ready only if a task of its query  *)
(* is over: the confirmations filter out MCE's transient "not running".      *)
(* Needs that no answer of MCE is lost between reading and storing it.       *)
TaskOver(r) == \E i \in Tasks : task[r][i] \in {"done", "error"}
ReadyHasEvidence ==
    \A r \in Runs \ TargetRuns : status[r] = "ready" => TaskOver(r)

(* Without crashes, database or Redis failures and cancellations, the        *)
(* outcome the stream announces is the one the row holds.                    *)
OutcomeEventIsTrue ==
    \A r \in Runs : event[r] \in Terminal => event[r] = status[r]

(* The outcome is the last thing the stream tells of a run, as those who     *)
(* follow it rely on (RunStream: Final): no late job publishes progress, or  *)
(* another outcome, after it.  Needs what OutcomeEventIsTrue needs.          *)
OutcomeEventIsLast ==
    [][\A r \in Runs : event[r] \in Terminal => event'[r] = event[r]]_vars

(* Without crashes, Redis failures and cancellations, the query is only sent *)
(* while the run is running: never again once it is over.                    *)
PerformedWhileRunning ==
    [][\A r \in Runs : performs'[r] # performs[r] => status[r] = "running"]_vars

(* Every run that was accepted gets an outcome, or is dropped. *)
EveryRunSettles ==
    \A r \in Runs : status[r] \in Live ~> status[r] \in Terminal \/ Dropped(r)

(* Once a run is canceled, both its jobs come to rest for good. *)
CanceledRunGoesQuiet ==
    \A r \in Runs : status[r] = "canceled"
                       ~> [](\A k \in Kinds : ~Busy(k, r))

-----------------------------------------------------------------------------
(* What the documents say of a run and the code does not keep. *)

(* A rowset that is not queryable yet is asked for again, and the run ends   *)
(* ready or failed: a poll job does not return while its run is running.     *)
PollEndsWithItsRun ==
    \A r \in Runs : pc["poll"][r] \in {"completed", "detached"}
                       => status[r] \in Terminal

-----------------------------------------------------------------------------
(* The inductive invariant behind the safety properties: what the position   *)
(* of a run's request and of its two jobs says about its row, its stream and *)
(* the requests to MCE.                                                      *)

ExecutePCs == {"none", "waiting", "check", "sayCanceled", "mark", "announce",
               "prepare", "perform", "record", "enqueue", "ack", "completed",
               "failing", "sayFailed", "sayUnsaved", "failed", "unsaved"}
PollPCs == {"none", "waiting", "check", "sayCanceled", "ask", "setFailed",
            "sayFailing", "sayFetching", "setReady", "sayReady", "cleanup",
            "delay", "completed", "detached", "failing", "sayFailed",
            "sayUnsaved", "failed", "unsaved"}

PlacesInv(r) ==
    /\ pc["execute"][r] \in ExecutePCs
    /\ pc["poll"][r] \in PollPCs
    /\ api[r] = "done" <=> pc["execute"][r] # "none"
    /\ pc["execute"][r] = "none" => pc["poll"][r] = "none" /\ performs[r] = 0

RowInv(r) ==
    /\ status[r] = "absent" <=> api[r] \in {"idle", "counted", "rejected"}
    /\ cancel[r] = "marking" => status[r] # "absent"
    /\ pc["execute"][r] \in {"announce", "prepare", "perform", "record", "enqueue"}
         => status[r] # "queued"
    /\ pc["poll"][r] # "none" => status[r] # "queued"
    /\ \A k \in Kinds : pc[k][r] = "sayCanceled" => status[r] = "canceled"
    /\ \A k \in Kinds : pc[k][r] \in {"sayFailed", "failed"} => status[r] \in Terminal
    /\ pc["execute"][r] \in {"ack", "completed"}
         => status[r] \in Terminal \/ pc["poll"][r] # "none"
    /\ pc["poll"][r] \in {"sayFailing", "sayReady", "cleanup", "completed"}
         => status[r] \in Terminal

SendInv(r) ==
    /\ pc["execute"][r] \in {"record", "enqueue"} => performs[r] > 0
    /\ pc["poll"][r] # "none" => performs[r] > 0
    /\ performs[r] <= tries["execute"][r] + stalls["execute"][r] + resends[r]
         + IF pc["execute"][r] \in {"record", "enqueue", "ack", "completed"}
             THEN 1 ELSE 0

EventInv(r) ==
    /\ event[r] = "ready" => status[r] \in Terminal
    /\ event[r] = "canceled" => status[r] = "canceled"
    /\ event[r] = "failed" =>
         \/ status[r] \in Terminal
         \/ \E k \in Kinds : pc[k][r] \in {"sayUnsaved", "unsaved"}

RunInv(r) == PlacesInv(r) /\ RowInv(r) /\ SendInv(r) /\ EventInv(r)

(* Holds in every state, and is kept by every step. *)
RunsInv == \A r \in Runs : RunInv(r)

-----------------------------------------------------------------------------
(* The run's row and the requests to MCE behave as RunLifecycle promises. *)
Lifecycle == INSTANCE RunLifecycle WITH phase <- status, sent <- performs
ImplementsLifecycle == Lifecycle!Spec
=============================================================================
