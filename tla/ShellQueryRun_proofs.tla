------------------------- MODULE ShellQueryRun_proofs -------------------------
(* What holds of ShellQueryRun for any number of runs, any limits and any    *)
(* combination of failures.                                                   *)
EXTENDS ShellQueryRun, FiniteSetTheorems, TLAPS

(* The disjuncts of Next, grouped as the proofs go through them. *)
JobNext(k, r) ==
    \/ QueueStep(k, r) \/ Stall(k, r) \/ HookStatusThrows(k, r) \/ HookDies(k, r)
    \/ DbThrows(k, r) \/ PublishThrows(k, r) \/ MceThrows(k, r) \/ Refuse(k, r)

NextOf(r) ==
    \/ CreateStep(r) \/ CancelStep(r) \/ InsertFails(r) \/ EnqueueFails(r)
    \/ CancelFails(r)
    \/ ExecuteStep(r) \/ Resend(r) \/ PerformUnanswered(r) \/ EnqueuePollThrows(r)
    \/ PollStep(r) \/ AnswerLost(r) \/ Environment(r)
    \/ DecryptFails(r) \/ DelayThrows(r)
    \/ \E k \in Kinds : JobNext(k, r)

LEMMA NextCases == Next => \E r \in Runs : NextOf(r)
<1> SUFFICES ASSUME NEW r \in Runs,
                    \/ CreateStep(r) \/ CancelStep(r) \/ ExecuteStep(r) \/ PollStep(r)
                    \/ \E k \in Kinds : QueueStep(k, r)
                    \/ Fault(r) \/ Environment(r)
             PROVE  NextOf(r)
  BY DEF Next
<1>1. CASE Fault(r)
  BY <1>1 DEF Fault, NextOf, JobNext
<1>2. CASE ~Fault(r)
  BY <1>2 DEF NextOf, JobNext
<1> QED  BY <1>1, <1>2
-----------------------------------------------------------------------------
(* Type correctness *)

LEMMA GotoType ==
    ASSUME pc \in [Kinds -> [Runs -> PCs]],
           NEW k \in Kinds, NEW r \in Runs, NEW p \in PCs, Goto(k, r, p)
    PROVE  /\ pc' \in [Kinds -> [Runs -> PCs]]
           /\ pc'[k][r] = p
           /\ \A j \in Kinds, q \in Runs :
                 j # k \/ q # r => pc'[j][q] = pc[j][q]
  BY DEF Goto

LEMMA GotoBothType ==
    ASSUME pc \in [Kinds -> [Runs -> PCs]],
           NEW r \in Runs, NEW p \in PCs, NEW q \in PCs, GotoBoth(r, p, q)
    PROVE  /\ pc' \in [Kinds -> [Runs -> PCs]]
           /\ pc'["execute"][r] = p /\ pc'["poll"][r] = q
           /\ \A k \in Kinds, s \in Runs : s # r => pc'[k][s] = pc[k][s]
  BY DEF GotoBoth, Kinds

LEMMA CountType ==
    ASSUME NEW f \in [Kinds -> [Runs -> Nat]], NEW k \in Kinds, NEW r \in Runs
    PROVE  [f EXCEPT ![k][r] = @ + 1] \in [Kinds -> [Runs -> Nat]]
<1>1. f[k][r] + 1 \in Nat
  OBVIOUS
<1> QED  BY <1>1

LEMMA FailAttemptType ==
    ASSUME TypeOK, NEW k \in Kinds, NEW r \in Runs, NEW terminal \in BOOLEAN,
           FailAttempt(k, r, terminal)
    PROVE  /\ pc' \in [Kinds -> [Runs -> PCs]]
           /\ tries' \in [Kinds -> [Runs -> Nat]]
           /\ UNCHANGED <<apiVars, stalls, clock>>
<1>1. tries' \in [Kinds -> [Runs -> Nat]] /\ UNCHANGED <<apiVars, stalls, clock>>
  BY CountType DEF FailAttempt, TypeOK
<1>2. \E p \in PCs : Goto(k, r, p)
  BY DEF FailAttempt, PCs, HookSteps
<1> QED  BY <1>1, <1>2, GotoType DEF TypeOK

LEMMA StartTaskType ==
    ASSUME TypeOK, NEW r \in Runs, StartTask(r)
    PROVE  /\ performs' \in [Runs -> 0 .. MaxPerforms]
           /\ task' \in [Runs -> [Tasks -> {"none", "running", "done", "error"}]]
<1>1. performs[r] \in 0 .. MaxPerforms /\ performs[r] < MaxPerforms /\ MaxPerforms \in Nat
  BY LimitsAssumption DEF TypeOK, StartTask
<1>2. performs[r] + 1 \in 0 .. MaxPerforms /\ performs[r] + 1 \in Tasks
  BY <1>1 DEF Tasks
<1> QED  BY <1>2 DEF StartTask, TypeOK

LEMMA TypeInit == Init => TypeOK
<1> SUFFICES ASSUME Init PROVE TypeOK
  OBVIOUS
<1>1. 0 \in 0 .. MaxPerforms /\ "none" \in PCs
  BY LimitsAssumption DEF PCs
<1>2. data \in [Runs -> PollData]
  BY <1>1 DEF Init, PollData
<1> QED  BY <1>1, <1>2 DEF Init, TypeOK, Statuses, Events

(* The steps of the API, of the queue and of the failed-job hook. *)
LEMMA TypeCreate ==
    ASSUME TypeOK, NEW r \in Runs,
           CreateStep(r) \/ CancelStep(r) \/ InsertFails(r) \/ EnqueueFails(r)
             \/ CancelFails(r)
    PROVE  TypeOK'
<1> USE DEF TypeOK, apiVars, queueVars, mceVars, Statuses
<1>1. CASE EnqueueExecute(r)
  <2>1. pc' \in [Kinds -> [Runs -> PCs]]
    BY <1>1, GotoType DEF EnqueueExecute, Kinds, PCs
  <2> QED  BY <1>1, <2>1 DEF EnqueueExecute
<1>2. CASE AdmitRun(r) \/ RejectRun(r) \/ InsertRun(r)
  BY <1>2 DEF AdmitRun, RejectRun, InsertRun
<1>3. CASE CancelStep(r) \/ CancelFails(r)
  BY <1>3 DEF CancelStep, CancelRead, CancelMark, CancelFails
<1>4. CASE InsertFails(r) \/ EnqueueFails(r)
  BY <1>4 DEF InsertFails, EnqueueFails
<1> QED  BY <1>1, <1>2, <1>3, <1>4 DEF CreateStep

LEMMA TypeQueue ==
    ASSUME TypeOK, NEW k \in Kinds, NEW r \in Runs,
           QueueStep(k, r) \/ Stall(k, r) \/ HookStatusThrows(k, r) \/ HookDies(k, r)
    PROVE  TypeOK'
<1> USE DEF TypeOK, apiVars, queueVars, mceVars
<1>1. CASE Pickup(k, r)
  <2>1. pc' \in [Kinds -> [Runs -> PCs]]
    BY <1>1, GotoType DEF Pickup, PCs, HandlerSteps, DbSteps
  <2> QED  BY <1>1, <2>1 DEF Pickup
<1>2. CASE GiveUp(k, r)
  <2>1. pc' \in [Kinds -> [Runs -> PCs]]
    BY <1>2, GotoType DEF GiveUp, PCs, HookSteps
  <2> QED  BY <1>2, <2>1, CountType DEF GiveUp
<1>3. CASE Stall(k, r)
  <2>1. pc' \in [Kinds -> [Runs -> PCs]]
    BY <1>3, GotoType DEF Stall, PCs
  <2> QED  BY <1>3, <2>1, CountType DEF Stall
<1>4. CASE HookStatus(k, r)
  <2>1. pc' \in [Kinds -> [Runs -> PCs]]
    BY <1>4, GotoType DEF HookStatus, PCs, HookSteps
  <2> QED  BY <1>4, <2>1 DEF HookStatus, UpdateStatus, Statuses
<1>5. CASE HookStatusThrows(k, r)
  <2>1. pc' \in [Kinds -> [Runs -> PCs]]
    BY <1>5, GotoType DEF HookStatusThrows, PCs, HookSteps
  <2> QED  BY <1>5, <2>1 DEF HookStatusThrows
<1>6. CASE HookEvent(k, r) \/ HookDies(k, r)
  <2>1. pc' \in [Kinds -> [Runs -> PCs]]
    BY <1>6, GotoType DEF HookEvent, HookDies, PCs, Ended
  <2> QED  BY <1>6, <2>1 DEF HookEvent, HookDies, Publish, Events
<1> QED  BY <1>1, <1>2, <1>3, <1>4, <1>5, <1>6 DEF QueueStep

(* A call that throws. *)
LEMMA TypeThrow ==
    ASSUME TypeOK, NEW k \in Kinds, NEW r \in Runs,
           DbThrows(k, r) \/ PublishThrows(k, r) \/ MceThrows(k, r) \/ Refuse(k, r)
             \/ DecryptFails(r) \/ DelayThrows(r)
    PROVE  TypeOK'
<1> USE DEF apiVars, queueVars, mceVars
<1>1. CASE DbThrows(k, r)
  BY <1>1, FailAttemptType DEF DbThrows, TypeOK
<1>2. CASE PublishThrows(k, r)
  <2>1. EventAt[pc[k][r]] \in Events
    BY <1>2 DEF PublishThrows, EventAt, Events
  <2> QED  BY <1>2, <2>1, FailAttemptType DEF PublishThrows, Publish, TypeOK
<1>3. CASE MceThrows(k, r) \/ Refuse(k, r)
  BY <1>3, FailAttemptType DEF MceThrows, Refuse, TypeOK
<1>4. CASE DecryptFails(r) \/ DelayThrows(r)
  <2>1. "execute" \in Kinds /\ "poll" \in Kinds
    BY DEF Kinds
  <2> QED  BY <1>4, <2>1, FailAttemptType DEF DecryptFails, DelayThrows, TypeOK
<1> QED  BY <1>1, <1>2, <1>3, <1>4

LEMMA PollDataType ==
    ASSUME TypeOK, NEW r \in Runs, NEW n \in Nat
    PROVE  /\ [data EXCEPT ![r] =
                  [task |-> @.task, pollCount |-> @.pollCount + 1,
                   notRunning |-> n, rowset |-> @.rowset]] \in [Runs -> PollData]
           /\ [data EXCEPT ![r].rowset = @ + 1] \in [Runs -> PollData]
           /\ [data EXCEPT ![r].task = performs[r]] \in [Runs -> PollData]
<1>1. data[r] \in PollData /\ performs[r] \in 0 .. MaxPerforms
  BY DEF TypeOK
<1>2. /\ [data[r] EXCEPT !.rowset = @ + 1] \in PollData
      /\ [data[r] EXCEPT !.task = performs[r]] \in PollData
      /\ [task |-> data[r].task, pollCount |-> data[r].pollCount + 1,
          notRunning |-> n, rowset |-> data[r].rowset] \in PollData
  <2> HIDE DEF TypeOK
  <2>1. \A d \in PollData : [d EXCEPT !.rowset = @ + 1] \in PollData
    BY DEF PollData
  <2>2. \A d \in PollData, t \in 0 .. MaxPerforms : [d EXCEPT !.task = t] \in PollData
    BY DEF PollData
  <2> QED  BY <1>1, <2>1, <2>2 DEF PollData
<1> QED  BY <1>2 DEF TypeOK

(* The execute job. *)
LEMMA TypeExecute ==
    ASSUME TypeOK, NEW r \in Runs,
           ExecuteStep(r) \/ Resend(r) \/ PerformUnanswered(r) \/ EnqueuePollThrows(r)
    PROVE  TypeOK'
<1> USE DEF apiVars, queueVars, mceVars
<1>0. "execute" \in Kinds /\ "poll" \in Kinds
  BY DEF Kinds
<1>1. CASE ExecuteCheck(r) \/ ExecuteSayCanceled(r) \/ ExecuteAnnounce(r)
           \/ ExecutePrepare(r) \/ ExecuteRecord(r) \/ Acknowledge(r)
           \/ ExecuteMark(r)
  <2>1. pc' \in [Kinds -> [Runs -> PCs]]
    <3>1. \E p \in PCs : Goto("execute", r, p)
      BY <1>1 DEF ExecuteCheck, ExecuteSayCanceled, ExecuteAnnounce, ExecutePrepare,
           ExecuteRecord, Acknowledge, ExecuteMark, PCs, HandlerSteps, DbSteps,
           RedisSteps, PublishSteps, MceSteps, Ended
    <3> QED  BY <3>1, <1>0, GotoType DEF TypeOK
  <2>2. CASE ExecuteMark(r)
    BY <2>1, <2>2 DEF ExecuteMark, UpdateStatus, TypeOK, Statuses
  <2>3. CASE ~ExecuteMark(r)
    BY <1>1, <2>1, <2>3 DEF ExecuteCheck, ExecuteSayCanceled, ExecuteAnnounce,
         ExecutePrepare, ExecuteRecord, Acknowledge, Publish, Events, TypeOK
  <2> QED  BY <2>2, <2>3
<1>2. CASE ExecutePerform(r)
  <2>1. pc' \in [Kinds -> [Runs -> PCs]]
    BY <1>2, <1>0, GotoType DEF ExecutePerform, TypeOK, PCs, HandlerSteps, DbSteps
  <2> QED  BY <1>2, <2>1, StartTaskType DEF ExecutePerform, TypeOK
<1>3. CASE Resend(r)
  BY <1>3, StartTaskType DEF Resend, TypeOK
<1>4. CASE PerformUnanswered(r)
  BY <1>4, <1>0, StartTaskType, FailAttemptType DEF PerformUnanswered, TypeOK
<1>5. CASE EnqueuePoll(r)
  <2>1. data' \in [Runs -> PollData]
    BY <1>5, PollDataType DEF EnqueuePoll, AddPoll, TypeOK
  <2>2. pc' \in [Kinds -> [Runs -> PCs]]
    <3>1. "waiting" \in PCs /\ "ack" \in PCs
      BY DEF PCs, HandlerSteps
    <3> QED  BY <1>5, <1>0, <3>1, GotoType, GotoBothType
           DEF EnqueuePoll, AddPoll, TypeOK
  <2> QED  BY <1>5, <2>1, <2>2 DEF EnqueuePoll, TypeOK
<1>6. CASE EnqueuePollThrows(r)
  <2>1. "waiting" \in PCs /\ "failing" \in PCs
    BY DEF PCs, HookSteps
  <2>2. pc' \in [Kinds -> [Runs -> PCs]]
    <3>1. PICK p \in PCs : Goto("execute", r, p) \/ GotoBoth(r, p, "waiting")
      BY <1>6, <2>1 DEF EnqueuePollThrows
    <3>2. CASE Goto("execute", r, p)
      BY <1>0, <3>2, GotoType DEF TypeOK
    <3>3. CASE GotoBoth(r, p, "waiting")
      BY <2>1, <3>3, GotoBothType DEF TypeOK
    <3> QED  BY <3>1, <3>2, <3>3
  <2>3. data' \in [Runs -> PollData]
    <3>1. data' = data \/ data' = [data EXCEPT ![r].task = performs[r]]
      BY <1>6 DEF EnqueuePollThrows
    <3>2. [data EXCEPT ![r].task = performs[r]] \in [Runs -> PollData]
      BY PollDataType
    <3> QED  BY <3>1, <3>2 DEF TypeOK
  <2>4. tries' \in [Kinds -> [Runs -> Nat]]
    <3>1. tries' = [tries EXCEPT !["execute"][r] = @ + 1]
      BY <1>6 DEF EnqueuePollThrows
    <3> QED  BY <3>1, <1>0, CountType DEF TypeOK
  <2>5. UNCHANGED <<status, event, api, cancel, stalls, clock, performs, resends,
                    task, streak>>
    BY <1>6 DEF EnqueuePollThrows
  <2> QED  BY <2>2, <2>3, <2>4, <2>5 DEF TypeOK
<1> QED  BY <1>1, <1>2, <1>3, <1>4, <1>5, <1>6 DEF ExecuteStep

(* The poll job and its environment. *)
LEMMA RowsetType ==
    ASSUME TypeOK, NEW r \in Runs, NEW genuine \in BOOLEAN,
           RowsetReady(r) \/ RowsetNotReady(r, genuine)
    PROVE  /\ pc' \in [Kinds -> [Runs -> PCs]]
           /\ data' \in [Runs -> PollData]
<1>1. \E p \in PCs : Goto("poll", r, p)
  BY DEF RowsetReady, RowsetNotReady, PCs, HandlerSteps, DbSteps, RedisSteps,
         PublishSteps, Ended
<1>2. data' \in [Runs -> PollData]
  BY PollDataType DEF RowsetReady, RowsetNotReady, TypeOK
<1> QED  BY <1>1, <1>2, GotoType DEF TypeOK, Kinds

LEMMA PollAgainType ==
    ASSUME TypeOK, NEW r \in Runs, NEW n \in Nat, PollAgain(r, n)
    PROVE  /\ pc' \in [Kinds -> [Runs -> PCs]]
           /\ data' \in [Runs -> PollData]
<1>1. Goto("poll", r, "delay") /\ "delay" \in PCs
  BY DEF PollAgain, PCs, HandlerSteps, RedisSteps
<1>2. data' \in [Runs -> PollData]
  BY PollDataType DEF PollAgain
<1> QED  BY <1>1, <1>2, GotoType DEF TypeOK, Kinds

LEMMA TypePoll ==
    ASSUME TypeOK, NEW r \in Runs, PollStep(r) \/ AnswerLost(r) \/ Environment(r)
    PROVE  TypeOK'
<1> USE DEF apiVars, queueVars, mceVars
<1>1. CASE PollCheck(r) \/ PollSayCanceled(r) \/ AskErrored(r) \/ AskRowsFound(r)
           \/ Delay(r) \/ SetFailed(r) \/ SayFailing(r) \/ SayFetching(r)
           \/ SetReady(r) \/ SayReady(r) \/ Cleanup(r)
  <2>1. \E p \in PCs : Goto("poll", r, p)
    BY <1>1 DEF PollCheck, PollSayCanceled, AskErrored, AskRowsFound, Delay,
         SetFailed, SayFailing, SayFetching, SetReady, SayReady, Cleanup,
         PCs, HandlerSteps, DbSteps, RedisSteps, PublishSteps, MceSteps, Ended
  <2>2. pc' \in [Kinds -> [Runs -> PCs]]
    BY <2>1, GotoType DEF TypeOK, Kinds
  <2>3. CASE SetFailed(r) \/ SetReady(r)
    BY <2>2, <2>3 DEF SetFailed, SetReady, UpdateStatus, TypeOK, Statuses
  <2>4. CASE PollSayCanceled(r) \/ SayFailing(r) \/ SayFetching(r) \/ SayReady(r)
    BY <2>2, <2>4 DEF PollSayCanceled, SayFailing, SayFetching, SayReady, Publish,
                      TypeOK, Events
  <2>5. CASE PollCheck(r) \/ AskErrored(r) \/ AskRowsFound(r) \/ Delay(r) \/ Cleanup(r)
    BY <2>2, <2>5 DEF PollCheck, AskErrored, AskRowsFound, Delay, Cleanup, TypeOK
  <2> QED  BY <1>1, <2>3, <2>4, <2>5
<1>2. CASE AskComplete(r)
  BY <1>2, RowsetType DEF AskComplete, TypeOK
<1>3. CASE AskProcessing(r)
  <2>1. data[r].notRunning \in Nat
    BY DEF TypeOK, PollData
  <2> QED  BY <1>3, <2>1, PollAgainType DEF AskProcessing, TypeOK
<1>4. CASE AskRunning(r)
  BY <1>4, PollAgainType DEF AskRunning, TypeOK
<1>5. CASE AskNotRunning(r)
  <2>1. data[r].notRunning \in Nat
    BY DEF TypeOK, PollData
  <2>2. pc' \in [Kinds -> [Runs -> PCs]] /\ data' \in [Runs -> PollData]
    <3>1. CASE \E n \in Nat : PollAgain(r, n)
      BY <3>1, PollAgainType
    <3>2. CASE RowsetReady(r) \/ RowsetNotReady(r, FALSE)
      BY <3>2, RowsetType
    <3>3. 1 \in Nat /\ data[r].notRunning + 1 \in Nat
      BY <2>1
    <3> QED  BY <1>5, <2>1, <3>1, <3>2, <3>3 DEF AskNotRunning
  <2>3. streak' \in [Runs -> Nat]
    <3>1. AnswerNotRunning(r)
      BY <1>5 DEF AskNotRunning
    <3>2. streak' = streak \/ streak' = [streak EXCEPT ![r] = @ + 1]
      BY <3>1 DEF AnswerNotRunning
    <3> QED  BY <3>2 DEF TypeOK
  <2> QED  BY <1>5, <2>2, <2>3 DEF AskNotRunning, TypeOK
<1>6. CASE AnswerLost(r)
  <2>1. "poll" \in Kinds /\ "waiting" \in PCs
    BY DEF Kinds, PCs
  <2>2. CASE FailAttempt("poll", r, FALSE)
    BY <1>6, <2>1, <2>2, FailAttemptType DEF AnswerLost, TypeOK
  <2>3. CASE /\ Goto("poll", r, "waiting")
             /\ stalls' = [stalls EXCEPT !["poll"][r] = @ + 1]
             /\ UNCHANGED <<apiVars, tries, clock>>
    <3>1. pc' \in [Kinds -> [Runs -> PCs]]
      BY <2>1, <2>3, GotoType DEF TypeOK
    <3>2. stalls' \in [Kinds -> [Runs -> Nat]]
      BY <2>1, <2>3, CountType DEF TypeOK
    <3>3. streak' \in [Runs -> Nat] /\ UNCHANGED <<status, event, data, performs,
                                                   resends, task>>
      BY <1>6 DEF AnswerLost, TypeOK
    <3> QED  BY <2>3, <3>1, <3>2, <3>3 DEF TypeOK
  <2> QED  BY <1>6, <2>2, <2>3 DEF AnswerLost
<1>7. CASE Environment(r)
  <2>1. CASE Tick(r)
    BY <2>1 DEF Tick, TypeOK
  <2>2. ASSUME NEW i \in Tasks, TaskEnds(r, i)
        PROVE  TypeOK'
    BY <2>2 DEF TaskEnds, TypeOK
  <2> QED  BY <1>7, <2>1, <2>2 DEF Environment
<1> QED  BY <1>1, <1>2, <1>3, <1>4, <1>5, <1>6, <1>7 DEF PollStep

(* Every variable keeps to its type, whatever fails and however often. *)
THEOREM TypeCorrect == Spec => []TypeOK
<1>1. Init => TypeOK
  BY TypeInit
<1>2. TypeOK /\ [Next]_vars => TypeOK'
  <2> SUFFICES ASSUME TypeOK, [Next]_vars PROVE TypeOK'
    OBVIOUS
  <2>1. CASE UNCHANGED vars
    BY <2>1 DEF TypeOK, vars
  <2>2. CASE Next
    <3>1. PICK r \in Runs : NextOf(r)
      BY <2>2, NextCases
    <3>2. CASE CreateStep(r) \/ CancelStep(r) \/ InsertFails(r) \/ EnqueueFails(r)
                 \/ CancelFails(r)
      BY <3>2, TypeCreate
    <3>3. CASE ExecuteStep(r) \/ Resend(r) \/ PerformUnanswered(r)
                 \/ EnqueuePollThrows(r)
      BY <3>3, TypeExecute
    <3>4. CASE PollStep(r) \/ AnswerLost(r) \/ Environment(r)
      BY <3>4, TypePoll
    <3>5. ASSUME NEW k \in Kinds, JobNext(k, r)
          PROVE  TypeOK'
      BY <3>5, TypeQueue, TypeThrow DEF JobNext
    <3>6. CASE DecryptFails(r) \/ DelayThrows(r)
      BY <3>6, TypeThrow DEF Kinds
    <3> QED  BY <3>1, <3>2, <3>3, <3>4, <3>5, <3>6 DEF NextOf
  <2> QED  BY <2>1, <2>2
<1> QED  BY <1>1, <1>2, PTL DEF Spec
-----------------------------------------------------------------------------
(* A step of one run leaves the other runs alone. *)

Untouched(q) ==
    /\ status'[q] = status[q] /\ event'[q] = event[q]
    /\ api'[q] = api[q] /\ cancel'[q] = cancel[q]
    /\ \A k \in Kinds : /\ pc'[k][q] = pc[k][q]
                        /\ tries'[k][q] = tries[k][q]
                        /\ stalls'[k][q] = stalls[k][q]
    /\ data'[q] = data[q] /\ performs'[q] = performs[q]
    /\ resends'[q] = resends[q] /\ task'[q] = task[q] /\ streak'[q] = streak[q]

LEMMA GotoAt ==
    ASSUME TypeOK, NEW r \in Runs, NEW p
    PROVE  /\ Goto("execute", r, p) => /\ pc'["execute"][r] = p
                                      /\ pc'["poll"][r] = pc["poll"][r]
           /\ Goto("poll", r, p) => /\ pc'["poll"][r] = p
                                   /\ pc'["execute"][r] = pc["execute"][r]
           /\ \A k \in Kinds, q \in Runs \ {r} :
                 Goto(k, r, p) => \A j \in Kinds : pc'[j][q] = pc[j][q]
  BY DEF Goto, TypeOK, Kinds

LEMMA GotoFrame ==
    ASSUME TypeOK, NEW k \in Kinds, NEW r \in Runs, NEW p, Goto(k, r, p),
           NEW q \in Runs \ {r}
    PROVE  \A j \in Kinds : pc'[j][q] = pc[j][q]
  BY DEF Goto, TypeOK

LEMMA GotoBothAt ==
    ASSUME TypeOK, NEW r \in Runs, NEW p, NEW q, GotoBoth(r, p, q)
    PROVE  /\ pc'["execute"][r] = p /\ pc'["poll"][r] = q
           /\ \A s \in Runs \ {r}, k \in Kinds : pc'[k][s] = pc[k][s]
  BY DEF GotoBoth, TypeOK, Kinds

LEMMA CountAt ==
    ASSUME NEW f \in [Kinds -> [Runs -> Nat]], NEW k \in Kinds, NEW r \in Runs,
           NEW g, g = [f EXCEPT ![k][r] = @ + 1]
    PROVE  /\ g[k][r] = f[k][r] + 1
           /\ \A j \in Kinds, q \in Runs : j # k \/ q # r => g[j][q] = f[j][q]
  OBVIOUS

LEMMA FailAttemptAt ==
    ASSUME TypeOK, NEW k \in Kinds, NEW r \in Runs, NEW terminal \in BOOLEAN,
           FailAttempt(k, r, terminal)
    PROVE  /\ pc'[k][r] \in {"failing", "waiting"}
           /\ tries'[k][r] = tries[k][r] + 1
           /\ \A j \in Kinds, q \in Runs :
                 j # k \/ q # r => /\ pc'[j][q] = pc[j][q]
                                  /\ tries'[j][q] = tries[j][q]
           /\ UNCHANGED <<api, cancel, stalls, clock>>
<1>1. tries' = [tries EXCEPT ![k][r] = @ + 1]
  BY DEF FailAttempt
<1>2. PICK p \in {"failing", "waiting"} : Goto(k, r, p)
  BY DEF FailAttempt
<1>3. p \in PCs
  BY <1>2 DEF PCs, HookSteps
<1>4. tries \in [Kinds -> [Runs -> Nat]]
  BY DEF TypeOK
<1>5. /\ tries'[k][r] = tries[k][r] + 1
      /\ \A j \in Kinds, q \in Runs : j # k \/ q # r => tries'[j][q] = tries[j][q]
  BY <1>1, <1>4, CountAt
<1>6. /\ pc'[k][r] = p
      /\ \A j \in Kinds, q \in Runs : j # k \/ q # r => pc'[j][q] = pc[j][q]
  BY <1>2, <1>3, GotoType DEF TypeOK
<1>7. UNCHANGED <<api, cancel, stalls, clock>>
  BY DEF FailAttempt, apiVars
<1> QED  BY <1>5, <1>6, <1>7, <1>2

LEMMA FailFrame ==
    ASSUME TypeOK, NEW k \in Kinds, NEW r \in Runs, NEW terminal \in BOOLEAN,
           FailAttempt(k, r, terminal), NEW q \in Runs \ {r}
    PROVE  /\ \A j \in Kinds : pc'[j][q] = pc[j][q] /\ tries'[j][q] = tries[j][q]
           /\ UNCHANGED <<api, cancel, stalls, clock>>
  BY FailAttemptAt

LEMMA StartTaskAt ==
    ASSUME TypeOK, NEW r \in Runs, StartTask(r)
    PROVE  /\ performs'[r] = performs[r] + 1
           /\ \A q \in Runs \ {r} : performs'[q] = performs[q] /\ task'[q] = task[q]
  BY DEF StartTask, TypeOK

LEMMA CreateFrame ==
    ASSUME TypeOK, NEW r \in Runs, NEW q \in Runs \ {r},
           CreateStep(r) \/ CancelStep(r) \/ InsertFails(r) \/ EnqueueFails(r)
             \/ CancelFails(r)
    PROVE  Untouched(q)
<1>1. CASE EnqueueExecute(r)
  BY <1>1, GotoAt DEF EnqueueExecute, Untouched, TypeOK, Kinds, queueVars, mceVars
<1>2. CASE ~EnqueueExecute(r)
  BY <1>2 DEF CreateStep, CancelStep, InsertFails, EnqueueFails, CancelFails,
              AdmitRun, RejectRun, InsertRun, CancelRead, CancelMark,
              Untouched, TypeOK, queueVars, mceVars
<1> QED  BY <1>1, <1>2

LEMMA QueueFrame ==
    ASSUME TypeOK, NEW k \in Kinds, NEW r \in Runs, NEW q \in Runs \ {r},
           JobNext(k, r) \/ DecryptFails(r) \/ DelayThrows(r)
    PROVE  Untouched(q)
<1> USE DEF Untouched, apiVars, queueVars, mceVars
<1>0. tries \in [Kinds -> [Runs -> Nat]] /\ stalls \in [Kinds -> [Runs -> Nat]]
  BY DEF TypeOK
<1>1. CASE Pickup(k, r)
  <2>1. Goto(k, r, "check") /\ UNCHANGED <<tries, stalls>>
    BY <1>1 DEF Pickup
  <2> QED  BY <1>1, <2>1, GotoFrame DEF Pickup
<1>2. CASE GiveUp(k, r)
  <2>1. /\ Goto(k, r, "failing") /\ UNCHANGED stalls
        /\ tries' = [tries EXCEPT ![k][r] = @ + 1]
    BY <1>2 DEF GiveUp
  <2> QED  BY <1>0, <1>2, <2>1, GotoFrame, CountAt DEF GiveUp
<1>3. CASE Stall(k, r)
  <2>1. /\ Goto(k, r, "waiting") /\ UNCHANGED tries
        /\ stalls' = [stalls EXCEPT ![k][r] = @ + 1]
    BY <1>3 DEF Stall
  <2> QED  BY <1>0, <1>3, <2>1, GotoFrame, CountAt DEF Stall
<1>4. CASE HookStatus(k, r)
  BY <1>4, GotoFrame DEF HookStatus, UpdateStatus, TypeOK
<1>5. CASE HookStatusThrows(k, r) \/ HookEvent(k, r) \/ HookDies(k, r)
  <2>1. PICK p : Goto(k, r, p)
    BY <1>5 DEF HookStatusThrows, HookEvent, HookDies
  <2>2. event'[q] = event[q]
    BY <1>5 DEF HookStatusThrows, HookEvent, HookDies, Publish, TypeOK
  <2> QED  BY <1>5, <2>1, <2>2, GotoFrame DEF HookStatusThrows, HookEvent, HookDies
<1>6. CASE DbThrows(k, r) \/ MceThrows(k, r) \/ Refuse(k, r) \/ PublishThrows(k, r)
  <2>1. PICK terminal \in BOOLEAN : FailAttempt(k, r, terminal)
    BY <1>6 DEF DbThrows, MceThrows, Refuse, PublishThrows
  <2>2. event'[q] = event[q]
    BY <1>6 DEF DbThrows, MceThrows, Refuse, PublishThrows, Publish, TypeOK
  <2>3. UNCHANGED <<status, data, performs, resends, task, streak>>
    BY <1>6 DEF DbThrows, MceThrows, Refuse, PublishThrows
  <2> QED  BY <2>1, <2>2, <2>3, FailFrame
<1>7. CASE DecryptFails(r) \/ DelayThrows(r)
  BY <1>7, FailFrame DEF DecryptFails, DelayThrows, Kinds
<1> QED  BY <1>1, <1>2, <1>3, <1>4, <1>5, <1>6, <1>7 DEF JobNext, QueueStep

LEMMA ExecuteFrame ==
    ASSUME TypeOK, NEW r \in Runs, NEW q \in Runs \ {r},
           ExecuteStep(r) \/ Resend(r) \/ PerformUnanswered(r) \/ EnqueuePollThrows(r)
    PROVE  Untouched(q)
<1> USE DEF Untouched, apiVars, queueVars, mceVars
<1>0. "execute" \in Kinds /\ tries \in [Kinds -> [Runs -> Nat]]
  BY DEF Kinds, TypeOK
<1>1. CASE ExecuteCheck(r) \/ ExecuteRecord(r) \/ Acknowledge(r)
  BY <1>0, <1>1, GotoAt DEF ExecuteCheck, ExecuteRecord, Acknowledge
<1>2. CASE ExecuteSayCanceled(r) \/ ExecuteAnnounce(r) \/ ExecutePrepare(r)
  BY <1>0, <1>2, GotoAt DEF ExecuteSayCanceled, ExecuteAnnounce, ExecutePrepare,
                            Publish, TypeOK
<1>3. CASE ExecuteMark(r)
  BY <1>0, <1>3, GotoAt DEF ExecuteMark, UpdateStatus, TypeOK
<1>4. CASE ExecutePerform(r)
  BY <1>0, <1>4, GotoAt, StartTaskAt DEF ExecutePerform
<1>5. CASE Resend(r)
  BY <1>5, StartTaskAt DEF Resend, TypeOK
<1>6. CASE PerformUnanswered(r)
  BY <1>0, <1>6, StartTaskAt, FailAttemptAt DEF PerformUnanswered
<1>7. CASE EnqueuePoll(r)
  BY <1>0, <1>7, GotoAt, GotoBothAt DEF EnqueuePoll, AddPoll, TypeOK
<1>8. CASE EnqueuePollThrows(r)
  <2>1. \A k \in Kinds : pc'[k][q] = pc[k][q]
    BY <1>0, <1>8, GotoAt, GotoBothAt DEF EnqueuePollThrows
  <2>2. data'[q] = data[q]
    BY <1>8 DEF EnqueuePollThrows, TypeOK
  <2>3. tries' = [tries EXCEPT !["execute"][r] = @ + 1]
    BY <1>8 DEF EnqueuePollThrows
  <2>4. \A k \in Kinds : tries'[k][q] = tries[k][q]
    BY <1>0, <2>3, CountAt
  <2>5. UNCHANGED <<status, event, api, cancel, stalls, clock, performs, resends,
                    task, streak>>
    BY <1>8 DEF EnqueuePollThrows
  <2> QED  BY <2>1, <2>2, <2>4, <2>5
<1> QED  BY <1>1, <1>2, <1>3, <1>4, <1>5, <1>6, <1>7, <1>8 DEF ExecuteStep

LEMMA PollFrame ==
    ASSUME TypeOK, NEW r \in Runs, NEW q \in Runs \ {r},
           PollStep(r) \/ AnswerLost(r) \/ Environment(r)
    PROVE  Untouched(q)
<1> USE DEF Untouched, apiVars, queueVars, mceVars
<1>0. "poll" \in Kinds /\ stalls \in [Kinds -> [Runs -> Nat]]
  BY DEF Kinds, TypeOK
<1>1. CASE PollCheck(r) \/ AskErrored(r) \/ AskRowsFound(r) \/ Delay(r) \/ Cleanup(r)
  BY <1>0, <1>1, GotoAt DEF PollCheck, AskErrored, AskRowsFound, Delay, Cleanup
<1>2. CASE PollSayCanceled(r) \/ SayFailing(r) \/ SayFetching(r) \/ SayReady(r)
  BY <1>0, <1>2, GotoAt DEF PollSayCanceled, SayFailing, SayFetching, SayReady,
                            Publish, TypeOK
<1>3. CASE SetFailed(r) \/ SetReady(r)
  BY <1>0, <1>3, GotoAt DEF SetFailed, SetReady, UpdateStatus, TypeOK
<1>4. CASE AskComplete(r) \/ AskProcessing(r)
  BY <1>0, <1>4, GotoAt DEF AskComplete, AskProcessing, RowsetReady, RowsetNotReady,
                            PollAgain, TypeOK
<1>5. CASE AskRunning(r)
  BY <1>0, <1>5, GotoAt DEF AskRunning, PollAgain, TypeOK
<1>6. CASE AskNotRunning(r)
  <2>1. streak'[q] = streak[q]
    BY <1>6 DEF AskNotRunning, AnswerNotRunning, TypeOK
  <2>2. data'[q] = data[q] /\ \A k \in Kinds : pc'[k][q] = pc[k][q]
    BY <1>0, <1>6, GotoAt DEF AskNotRunning, RowsetReady, RowsetNotReady,
                              PollAgain, TypeOK
  <2> QED  BY <1>6, <2>1, <2>2 DEF AskNotRunning
<1>7. CASE AnswerLost(r)
  <2>1. CASE FailAttempt("poll", r, FALSE)
    BY <1>0, <1>7, <2>1, FailFrame DEF AnswerLost, TypeOK
  <2>2. CASE /\ Goto("poll", r, "waiting")
             /\ stalls' = [stalls EXCEPT !["poll"][r] = @ + 1]
             /\ UNCHANGED <<apiVars, tries, clock>>
    <3>1. \A k \in Kinds : pc'[k][q] = pc[k][q] /\ stalls'[k][q] = stalls[k][q]
      BY <1>0, <2>2, GotoFrame, CountAt
    <3>2. streak'[q] = streak[q]
      BY <1>7 DEF AnswerLost, TypeOK
    <3> QED  BY <1>7, <2>2, <3>1, <3>2 DEF AnswerLost
  <2> QED  BY <1>7, <2>1, <2>2 DEF AnswerLost
<1>8. CASE Environment(r)
  BY <1>8 DEF Environment, Tick, TaskEnds, TypeOK
<1> QED  BY <1>1, <1>2, <1>3, <1>4, <1>5, <1>6, <1>7, <1>8 DEF PollStep

LEMMA StepFrame ==
    ASSUME TypeOK, NEW r \in Runs, NextOf(r), NEW q \in Runs \ {r}
    PROVE  Untouched(q)
  BY CreateFrame, QueueFrame, ExecuteFrame, PollFrame DEF NextOf, Kinds

-----------------------------------------------------------------------------
(* Every step keeps the invariant of the run it is a step of. *)

LEMMA InitInv == Init => RunsInv
  BY DEF Init, RunsInv, RunInv, PlacesInv, RowInv, SendInv, EventInv, Kinds,
         ExecutePCs, PollPCs, Terminal

LEMMA UntouchedInv ==
    ASSUME NEW q \in Runs, RunInv(q), Untouched(q)
    PROVE  RunInv(q)'
  BY DEF Untouched, RunInv, PlacesInv, RowInv, SendInv, EventInv, Kinds

LEMMA UpdateStatusAt ==
    ASSUME TypeOK, NEW r \in Runs, NEW s, UpdateStatus(r, s)
    PROVE  status'[r] = IF status[r] \in Terminal THEN status[r] ELSE s
  BY DEF UpdateStatus, TypeOK

LEMMA PublishAt ==
    ASSUME TypeOK, NEW r \in Runs, NEW e, Publish(r, e)
    PROVE  event'[r] = e
  BY DEF Publish, TypeOK

LEMMA CreateKeeps ==
    ASSUME TypeOK, NEW r \in Runs, RunInv(r),
           CreateStep(r) \/ CancelStep(r) \/ InsertFails(r) \/ EnqueueFails(r)
             \/ CancelFails(r)
    PROVE  RunInv(r)'
<1> USE DEF RunInv, PlacesInv, RowInv, SendInv, EventInv, Kinds, Terminal,
            queueVars, mceVars
<1>1. CASE AdmitRun(r) \/ RejectRun(r) \/ InsertFails(r) \/ EnqueueFails(r)
  <2>1. /\ api[r] \in {"idle", "counted", "inserted"}
        /\ api'[r] \in {"counted", "rejected", "abandoned"}
        /\ api[r] = "inserted" <=> api'[r] = "abandoned"
        /\ UNCHANGED <<status, event, cancel, pc, tries, stalls, performs, resends>>
    BY <1>1 DEF AdmitRun, RejectRun, InsertFails, EnqueueFails, TypeOK
  <2> QED  BY <2>1
<1>2. CASE InsertRun(r)
  BY <1>2 DEF InsertRun, TypeOK
<1>3. CASE EnqueueExecute(r)
  <2>1. /\ api[r] = "inserted" /\ api'[r] = "done"
        /\ pc'["execute"][r] = "waiting" /\ pc'["poll"][r] = pc["poll"][r]
        /\ UNCHANGED <<status, event, cancel, tries, stalls, performs, resends>>
    BY <1>3, GotoAt DEF EnqueueExecute, TypeOK
  <2> QED  BY <2>1 DEF ExecutePCs
<1>4. CASE CancelStep(r) \/ CancelFails(r)
  <2>1. /\ status'[r] = status[r] \/ status'[r] = "canceled"
        /\ UNCHANGED <<event, api, pc, tries, stalls, performs, resends>>
    BY <1>4 DEF CancelStep, CancelRead, CancelMark, CancelFails, TypeOK
  <2>2. status[r] # status'[r] => status[r] # "absent"
    BY <1>4 DEF CancelStep, CancelRead, CancelMark, CancelFails, TypeOK
  <2>3. cancel'[r] = "marking" => status'[r] # "absent"
    BY <1>4 DEF CancelStep, CancelRead, CancelMark, CancelFails, TypeOK, Live
  <2> QED  BY <2>1, <2>2, <2>3
<1> QED  BY <1>1, <1>2, <1>3, <1>4 DEF CreateStep

LEMMA GotoSelf ==
    ASSUME TypeOK, NEW k \in Kinds, NEW r \in Runs, NEW p, Goto(k, r, p)
    PROVE  /\ pc'[k][r] = p
           /\ \A j \in Kinds \ {k} : pc'[j][r] = pc[j][r]
  BY DEF Goto, TypeOK

LEMMA QueueKeeps ==
    ASSUME TypeOK, NEW k \in Kinds, NEW r \in Runs, RunInv(r),
           QueueStep(k, r) \/ Stall(k, r) \/ HookStatusThrows(k, r) \/ HookDies(k, r)
    PROVE  RunInv(r)'
<1> USE DEF RunInv, PlacesInv, RowInv, SendInv, EventInv, Kinds, Terminal,
            apiVars, queueVars, mceVars
<1>0. /\ tries \in [Kinds -> [Runs -> Nat]] /\ stalls \in [Kinds -> [Runs -> Nat]]
      /\ performs[r] \in Nat /\ resends[r] \in Nat
  BY LimitsAssumption DEF TypeOK
<1>1. CASE Pickup(k, r)
  <2>1. /\ pc[k][r] = "waiting" /\ Goto(k, r, "check")
        /\ UNCHANGED <<status, event, api, cancel, tries, stalls, performs, resends>>
    BY <1>1 DEF Pickup
  <2> QED  BY <2>1, GotoSelf DEF ExecutePCs, PollPCs
<1>2. CASE GiveUp(k, r)
  <2>1. /\ pc[k][r] = "waiting" /\ Goto(k, r, "failing")
        /\ tries' = [tries EXCEPT ![k][r] = @ + 1]
        /\ UNCHANGED <<status, event, api, cancel, stalls, performs, resends>>
    BY <1>2 DEF GiveUp
  <2>2. /\ tries'["execute"][r] \in Nat
        /\ tries'["execute"][r] >= tries["execute"][r]
    BY <1>0, <2>1, CountAt
  <2> QED  BY <1>0, <2>1, <2>2, GotoSelf DEF ExecutePCs, PollPCs
<1>3. CASE Stall(k, r)
  <2>1. /\ pc[k][r] \in HandlerSteps /\ Goto(k, r, "waiting")
        /\ stalls' = [stalls EXCEPT ![k][r] = @ + 1]
        /\ UNCHANGED <<status, event, api, cancel, tries, performs, resends>>
    BY <1>3 DEF Stall
  <2>2. stalls'[k][r] = stalls[k][r] + 1
        /\ \A j \in Kinds \ {k} : stalls'[j][r] = stalls[j][r]
    BY <1>0, <2>1, CountAt
  <2>3. stalls["execute"][r] \in Nat /\ tries["execute"][r] \in Nat
    BY <1>0
  <2> QED  BY <1>0, <2>1, <2>2, <2>3, GotoSelf
           DEF ExecutePCs, PollPCs, HandlerSteps, DbSteps, RedisSteps,
               PublishSteps, MceSteps
<1>4. CASE HookStatus(k, r)
  <2>1. /\ pc[k][r] = "failing" /\ Goto(k, r, "sayFailed")
        /\ UpdateStatus(r, "failed")
        /\ UNCHANGED <<event, api, cancel, tries, stalls, performs, resends>>
    BY <1>4 DEF HookStatus
  <2> QED  BY <2>1, GotoSelf, UpdateStatusAt DEF ExecutePCs, PollPCs
<1>5. CASE HookStatusThrows(k, r)
  <2>1. /\ pc[k][r] = "failing" /\ Goto(k, r, "sayUnsaved")
        /\ UNCHANGED <<status, event, api, cancel, tries, stalls, performs, resends>>
    BY <1>5 DEF HookStatusThrows
  <2> QED  BY <2>1, GotoSelf DEF ExecutePCs, PollPCs
<1>6. CASE HookEvent(k, r) \/ HookDies(k, r)
  <2>1. /\ pc[k][r] \in HookSteps
        /\ pc[k][r] = "sayFailed" => Goto(k, r, "failed")
        /\ pc[k][r] # "sayFailed" => Goto(k, r, "unsaved")
        /\ UNCHANGED <<status, api, cancel, tries, stalls, performs, resends>>
    BY <1>6 DEF HookEvent, HookDies, HookSteps
  <2>2. \/ event'[r] = event[r]
        \/ event'[r] = "failed" /\ pc[k][r] \in {"sayFailed", "sayUnsaved"}
    BY <1>6 DEF HookEvent, HookDies, Publish, TypeOK
  <2> QED  BY <2>1, <2>2, GotoSelf DEF ExecutePCs, PollPCs, HookSteps
<1> QED  BY <1>1, <1>2, <1>3, <1>4, <1>5, <1>6 DEF QueueStep

LEMMA ThrowKeeps ==
    ASSUME TypeOK, NEW k \in Kinds, NEW r \in Runs, RunInv(r),
           DbThrows(k, r) \/ PublishThrows(k, r) \/ MceThrows(k, r) \/ Refuse(k, r)
             \/ DecryptFails(r) \/ DelayThrows(r)
    PROVE  RunInv(r)'
<1> USE DEF RunInv, PlacesInv, RowInv, SendInv, EventInv, Kinds, Terminal, mceVars
<1>0. /\ tries["execute"][r] \in Nat /\ stalls["execute"][r] \in Nat
      /\ performs[r] \in Nat /\ resends[r] \in Nat
  BY LimitsAssumption DEF TypeOK
<1>1. PICK j \in Kinds, terminal \in BOOLEAN : /\ FailAttempt(j, r, terminal)
                                               /\ pc[j][r] \in HandlerSteps
  BY DEF DbThrows, PublishThrows, MceThrows, Refuse, DecryptFails, DelayThrows,
         HandlerSteps, RedisSteps, DbSteps, MceSteps
<1>2. UNCHANGED <<status, performs, resends>>
  BY DEF DbThrows, PublishThrows, MceThrows, Refuse, DecryptFails, DelayThrows
<1>3. \/ event'[r] = event[r]
      \/ /\ PublishThrows(k, r)
         /\ event'[r] = EventAt[pc[k][r]]
         /\ pc[k][r] \in PublishSteps
  BY DEF DbThrows, PublishThrows, MceThrows, Refuse, DecryptFails, DelayThrows,
         Publish, TypeOK
<1>4. /\ event'[r] = "ready" => status[r] \in Terminal
      /\ event'[r] = "canceled" => status[r] = "canceled"
      /\ event'[r] = "failed" =>
           \/ status[r] \in Terminal
           \/ \E i \in Kinds : pc[i][r] \in {"sayUnsaved", "unsaved"}
  <2>1. CASE event'[r] = event[r]
    BY <2>1
  <2>2. CASE /\ event'[r] = EventAt[pc[k][r]]
             /\ pc[k][r] \in PublishSteps
    BY <2>2 DEF EventAt, PublishSteps, ExecutePCs
  <2> QED  BY <1>3, <2>1, <2>2
<1>5. /\ pc'[j][r] \in {"failing", "waiting"}
      /\ tries'[j][r] = tries[j][r] + 1
      /\ \A i \in Kinds \ {j} : pc'[i][r] = pc[i][r] /\ tries'[i][r] = tries[i][r]
      /\ UNCHANGED <<api, cancel, stalls>>
  BY <1>1, FailAttemptAt
<1> QED  BY <1>0, <1>1, <1>2, <1>4, <1>5
         DEF ExecutePCs, PollPCs, HandlerSteps, DbSteps, RedisSteps, PublishSteps,
             MceSteps

LEMMA ExecuteKeeps ==
    ASSUME TypeOK, NEW r \in Runs, RunInv(r),
           ExecuteStep(r) \/ Resend(r) \/ PerformUnanswered(r) \/ EnqueuePollThrows(r)
    PROVE  RunInv(r)'
<1> USE DEF RunInv, PlacesInv, RowInv, SendInv, EventInv, Kinds, Terminal,
            ExecutePCs, apiVars, queueVars, mceVars
<1>0. /\ tries["execute"][r] \in Nat /\ stalls["execute"][r] \in Nat
      /\ performs[r] \in Nat /\ resends[r] \in Nat
  BY LimitsAssumption DEF TypeOK
<1>1. CASE ExecuteCheck(r) \/ ExecuteRecord(r) \/ Acknowledge(r)
  <2>1. PICK p : /\ Goto("execute", r, p)
                 /\ \/ pc["execute"][r] = "check" /\ p = "mark"
                    \/ /\ pc["execute"][r] = "check" /\ p = "sayCanceled"
                       /\ status[r] = "canceled"
                    \/ pc["execute"][r] = "record" /\ p = "enqueue"
                    \/ pc["execute"][r] = "ack" /\ p = "completed"
    BY <1>1 DEF ExecuteCheck, ExecuteRecord, Acknowledge
  <2>2. UNCHANGED <<status, event, api, cancel, tries, stalls, performs, resends>>
    BY <1>1 DEF ExecuteCheck, ExecuteRecord, Acknowledge
  <2> QED  BY <1>0, <2>1, <2>2, GotoAt
<1>2. CASE ExecuteSayCanceled(r) \/ ExecuteAnnounce(r) \/ ExecutePrepare(r)
  <2>1. PICK p, e :
          /\ Goto("execute", r, p) /\ Publish(r, e)
          /\ \/ pc["execute"][r] = "sayCanceled" /\ p = "ack" /\ e = "canceled"
             \/ pc["execute"][r] = "announce" /\ p = "prepare" /\ e = "progress"
             \/ pc["execute"][r] = "prepare" /\ p = "perform" /\ e = "progress"
    BY <1>2 DEF ExecuteSayCanceled, ExecuteAnnounce, ExecutePrepare
  <2>2. UNCHANGED <<status, api, cancel, tries, stalls, performs, resends>>
    BY <1>2 DEF ExecuteSayCanceled, ExecuteAnnounce, ExecutePrepare
  <2>3. event'[r] = e
    BY <2>1, PublishAt
  <2> QED  BY <1>0, <2>1, <2>2, <2>3, GotoAt
<1>3. CASE ExecuteMark(r)
  <2>1. /\ pc["execute"][r] = "mark" /\ Goto("execute", r, "announce")
        /\ UpdateStatus(r, "running")
        /\ UNCHANGED <<event, api, cancel, tries, stalls, performs, resends>>
    BY <1>3 DEF ExecuteMark
  <2>2. status'[r] = IF status[r] \in Terminal THEN status[r] ELSE "running"
    BY <2>1, UpdateStatusAt
  <2>3. pc'["execute"][r] = "announce" /\ pc'["poll"][r] = pc["poll"][r]
    BY <2>1, GotoAt
  <2> QED  BY <1>0, <2>1, <2>2, <2>3
<1>4. CASE ExecutePerform(r)
  <2>1. /\ pc["execute"][r] = "perform" /\ Goto("execute", r, "record")
        /\ StartTask(r)
        /\ UNCHANGED <<status, event, api, cancel, tries, stalls, resends>>
    BY <1>4 DEF ExecutePerform
  <2>2. performs'[r] = performs[r] + 1
    BY <2>1, StartTaskAt
  <2>3. pc'["execute"][r] = "record" /\ pc'["poll"][r] = pc["poll"][r]
    BY <2>1, GotoAt
  <2> QED  BY <1>0, <2>1, <2>2, <2>3
<1>5. CASE Resend(r)
  <2>1. /\ pc["execute"][r] = "perform" /\ StartTask(r)
        /\ resends'[r] = resends[r] + 1
        /\ UNCHANGED <<status, event, api, cancel, pc, tries, stalls>>
    BY <1>5 DEF Resend, TypeOK
  <2>2. performs'[r] = performs[r] + 1
    BY <2>1, StartTaskAt
  <2> QED  BY <1>0, <2>1, <2>2
<1>6. CASE PerformUnanswered(r)
  <2>1. /\ pc["execute"][r] = "perform" /\ StartTask(r)
        /\ UNCHANGED <<status, event, resends>>
    BY <1>6 DEF PerformUnanswered
  <2>2. PICK terminal \in BOOLEAN : FailAttempt("execute", r, terminal)
    BY <1>6 DEF PerformUnanswered
  <2>3. performs'[r] = performs[r] + 1
    BY <2>1, StartTaskAt
  <2>4. /\ pc'["execute"][r] \in {"failing", "waiting"}
        /\ pc'["poll"][r] = pc["poll"][r]
        /\ tries'["execute"][r] = tries["execute"][r] + 1
        /\ UNCHANGED <<api, cancel, stalls>>
    BY <2>2, FailAttemptAt
  <2> QED  BY <1>0, <2>1, <2>3, <2>4
<1>7. CASE EnqueuePoll(r)
  <2>1. /\ pc["execute"][r] = "enqueue"
        /\ UNCHANGED <<status, event, api, cancel, tries, stalls, performs, resends>>
    BY <1>7 DEF EnqueuePoll
  <2>2. /\ pc'["execute"][r] = "ack"
        /\ pc'["poll"][r] = IF pc["poll"][r] = "none" THEN "waiting" ELSE pc["poll"][r]
    BY <1>7, GotoAt, GotoBothAt DEF EnqueuePoll, AddPoll
  <2> QED  BY <1>0, <2>1, <2>2 DEF PollPCs
<1>8. CASE EnqueuePollThrows(r)
  <2>1. /\ pc["execute"][r] = "enqueue"
        /\ tries' = [tries EXCEPT !["execute"][r] = @ + 1]
        /\ UNCHANGED <<status, event, api, cancel, stalls, performs, resends>>
    BY <1>8 DEF EnqueuePollThrows
  <2>2. /\ pc'["execute"][r] \in {"failing", "waiting"}
        /\ \/ pc'["poll"][r] = pc["poll"][r]
           \/ pc["poll"][r] = "none" /\ pc'["poll"][r] = "waiting"
    BY <1>8, GotoAt, GotoBothAt DEF EnqueuePollThrows
  <2>3. tries'["execute"][r] = tries["execute"][r] + 1
    BY <2>1, CountAt DEF TypeOK
  <2> QED  BY <1>0, <2>1, <2>2, <2>3 DEF PollPCs
<1> QED  BY <1>1, <1>2, <1>3, <1>4, <1>5, <1>6, <1>7, <1>8 DEF ExecuteStep

LEMMA PollKeeps ==
    ASSUME TypeOK, NEW r \in Runs, RunInv(r),
           PollStep(r) \/ AnswerLost(r) \/ Environment(r)
    PROVE  RunInv(r)'
<1> USE DEF RunInv, PlacesInv, RowInv, SendInv, EventInv, Kinds, Terminal,
            PollPCs, apiVars, queueVars, mceVars
<1>0. /\ tries["execute"][r] \in Nat /\ stalls["execute"][r] \in Nat
      /\ performs[r] \in Nat /\ resends[r] \in Nat
  BY LimitsAssumption DEF TypeOK
<1>1. CASE PollCheck(r)
  <2>1. PICK p \in {"sayCanceled", "setFailed", "ask"} :
          Goto("poll", r, p) /\ (p = "sayCanceled" => status[r] = "canceled")
    BY <1>1 DEF PollCheck
  <2>2. /\ pc["poll"][r] = "check"
        /\ UNCHANGED <<status, event, api, cancel, tries, stalls, performs, resends>>
    BY <1>1 DEF PollCheck
  <2> QED  BY <1>0, <2>1, <2>2, GotoAt
<1>2. CASE \/ AskErrored(r) \/ AskRowsFound(r) \/ AskComplete(r) \/ AskProcessing(r)
           \/ AskRunning(r) \/ AskNotRunning(r)
  <2>1. PICK p \in {"setFailed", "sayFetching", "delay", "detached"} :
          Goto("poll", r, p)
    BY <1>2 DEF AskErrored, AskRowsFound, AskComplete, AskProcessing, AskRunning,
                AskNotRunning, PollAgain, RowsetReady, RowsetNotReady
  <2>2. /\ pc["poll"][r] = "ask"
        /\ UNCHANGED <<status, event, api, cancel, tries, stalls, performs, resends>>
    BY <1>2 DEF AskErrored, AskRowsFound, AskComplete, AskProcessing, AskRunning,
                AskNotRunning
  <2> QED  BY <1>0, <2>1, <2>2, GotoAt
<1>3. CASE Delay(r) \/ Cleanup(r)
  <2>1. PICK p : /\ Goto("poll", r, p)
                 /\ \/ pc["poll"][r] = "delay" /\ p = "waiting"
                    \/ pc["poll"][r] = "cleanup" /\ p = "completed"
    BY <1>3 DEF Delay, Cleanup
  <2>2. UNCHANGED <<status, event, api, cancel, tries, stalls, performs, resends>>
    BY <1>3 DEF Delay, Cleanup
  <2> QED  BY <1>0, <2>1, <2>2, GotoAt
<1>4. CASE PollSayCanceled(r) \/ SayFailing(r) \/ SayFetching(r) \/ SayReady(r)
  <2>1. PICK p, e :
          /\ Goto("poll", r, p) /\ Publish(r, e)
          /\ \/ pc["poll"][r] = "sayCanceled" /\ p = "cleanup" /\ e = "canceled"
             \/ pc["poll"][r] = "sayFailing" /\ p = "cleanup" /\ e = "failed"
             \/ pc["poll"][r] = "sayFetching" /\ p = "setReady" /\ e = "progress"
             \/ pc["poll"][r] = "sayReady" /\ p = "cleanup" /\ e = "ready"
    BY <1>4 DEF PollSayCanceled, SayFailing, SayFetching, SayReady
  <2>2. UNCHANGED <<status, api, cancel, tries, stalls, performs, resends>>
    BY <1>4 DEF PollSayCanceled, SayFailing, SayFetching, SayReady
  <2>3. event'[r] = e
    BY <2>1, PublishAt
  <2> QED  BY <1>0, <2>1, <2>2, <2>3, GotoAt
<1>5. CASE SetFailed(r) \/ SetReady(r)
  <2>1. PICK p, s :
          /\ Goto("poll", r, p) /\ UpdateStatus(r, s)
          /\ \/ pc["poll"][r] = "setFailed" /\ p = "sayFailing" /\ s = "failed"
             \/ pc["poll"][r] = "setReady" /\ p = "sayReady" /\ s = "ready"
    BY <1>5 DEF SetFailed, SetReady
  <2>2. UNCHANGED <<event, api, cancel, tries, stalls, performs, resends>>
    BY <1>5 DEF SetFailed, SetReady
  <2>3. status'[r] = IF status[r] \in Terminal THEN status[r] ELSE s
    BY <2>1, UpdateStatusAt
  <2>4. pc'["poll"][r] = p /\ pc'["execute"][r] = pc["execute"][r]
    BY <2>1, GotoAt
  <2> QED  BY <1>0, <2>1, <2>2, <2>3, <2>4
<1>6. CASE AnswerLost(r)
  <2>1. /\ pc["poll"][r] = "ask"
        /\ UNCHANGED <<status, event, performs, resends>>
    BY <1>6 DEF AnswerLost
  <2>2. /\ pc'["poll"][r] \in {"failing", "waiting"}
        /\ pc'["execute"][r] = pc["execute"][r]
        /\ tries'["execute"][r] = tries["execute"][r]
        /\ stalls'["execute"][r] = stalls["execute"][r]
        /\ UNCHANGED <<api, cancel>>
    <3>1. CASE FailAttempt("poll", r, FALSE)
      BY <3>1, FailAttemptAt
    <3>2. CASE /\ Goto("poll", r, "waiting")
               /\ stalls' = [stalls EXCEPT !["poll"][r] = @ + 1]
               /\ UNCHANGED <<apiVars, tries, clock>>
      <4>1. stalls'["execute"][r] = stalls["execute"][r]
        BY <3>2, CountAt DEF TypeOK
      <4> QED  BY <3>2, <4>1, GotoAt
    <3> QED  BY <1>6, <3>1, <3>2 DEF AnswerLost
  <2> QED  BY <1>0, <2>1, <2>2
<1>7. CASE Environment(r)
  <2>1. UNCHANGED <<status, event, api, cancel, pc, tries, stalls, performs, resends>>
    BY <1>7 DEF Environment, Tick, TaskEnds
  <2> QED  BY <2>1
<1> QED  BY <1>1, <1>2, <1>3, <1>4, <1>5, <1>6, <1>7 DEF PollStep

LEMMA StepKeeps ==
    ASSUME TypeOK, NEW r \in Runs, NextOf(r), RunInv(r)
    PROVE  RunInv(r)'
<1>1. ASSUME NEW k \in Kinds, JobNext(k, r)
      PROVE  RunInv(r)'
  BY <1>1, QueueKeeps, ThrowKeeps DEF JobNext
<1>2. CASE DecryptFails(r) \/ DelayThrows(r)
  BY <1>2, ThrowKeeps DEF Kinds
<1> QED  BY <1>1, <1>2, CreateKeeps, ExecuteKeeps, PollKeeps DEF NextOf

(* The inductive invariant holds in every reachable state. *)
THEOREM RunsInvariant == Spec => []RunsInv
<1>1. Init => RunsInv
  BY InitInv
<1>2. TypeOK /\ RunsInv /\ [Next]_vars => RunsInv'
  <2> SUFFICES ASSUME TypeOK, RunsInv, [Next]_vars, NEW q \in Runs
               PROVE  RunInv(q)'
    BY DEF RunsInv
  <2>0. RunInv(q)
    BY DEF RunsInv
  <2>1. CASE UNCHANGED vars
    <3>1. Untouched(q)
      BY <2>1 DEF vars, Untouched
    <3> QED  BY <2>0, <3>1, UntouchedInv
  <2>2. CASE Next
    <3>1. PICK r \in Runs : NextOf(r)
      BY <2>2, NextCases
    <3>2. CASE q = r
      BY <2>0, <3>1, <3>2, StepKeeps
    <3>3. CASE q # r
      BY <2>0, <3>1, <3>3, StepFrame, UntouchedInv
    <3> QED  BY <3>2, <3>3
  <2> QED  BY <2>1, <2>2
<1> QED  BY <1>1, <1>2, TypeCorrect, PTL DEF Spec

-----------------------------------------------------------------------------
(* What follows from the invariant in a single state. *)

(* A run that counts against the user's limit has a request or a job that    *)
(* will settle it, or was let go in one of the three ways of Dropped.        *)
THEOREM Custody == Spec => []LiveRunHasCustodian
<1>1. TypeOK /\ RunsInv => LiveRunHasCustodian
  <2> SUFFICES ASSUME TypeOK, NEW r \in Runs, RunInv(r), status[r] \in Live
               PROVE  Custodian(r) \/ Dropped(r)
    BY DEF RunsInv, LiveRunHasCustodian, Active
  <2> USE DEF RunInv, PlacesInv, RowInv, Live, Terminal, Kinds, Custodian, Dropped,
              Busy
  <2>1. CASE pc["execute"][r] = "none"
    <3>1. api[r] \in {"inserted", "abandoned"}
      BY <2>1 DEF TypeOK
    <3> QED  BY <3>1
  <2>2. CASE pc["execute"][r] \in {"completed", "failed", "unsaved"}
    BY <2>2 DEF PollPCs, HandlerSteps, DbSteps, RedisSteps, PublishSteps, MceSteps,
                HookSteps
  <2>3. CASE pc["execute"][r] \notin {"none", "completed", "failed", "unsaved"}
    BY <2>3 DEF ExecutePCs, HandlerSteps, DbSteps, RedisSteps, PublishSteps,
                MceSteps, HookSteps
  <2> QED  BY <2>1, <2>2, <2>3
<1> QED  BY <1>1, RunsInvariant, TypeCorrect, PTL

(* The query is sent to MCE no more often than failed attempts, stalls and   *)
(* repeated requests account for.                                            *)
THEOREM PerformsPaid == Spec => []PerformsArePaid
<1>1. TypeOK /\ RunsInv => PerformsArePaid
  <2> SUFFICES ASSUME TypeOK, NEW r \in Runs, RunInv(r)
               PROVE  performs[r] <= 1 + tries["execute"][r] + stalls["execute"][r]
                                       + resends[r]
    BY DEF RunsInv, PerformsArePaid
  <2>1. /\ tries["execute"][r] \in Nat /\ stalls["execute"][r] \in Nat
        /\ performs[r] \in Nat /\ resends[r] \in Nat
    BY LimitsAssumption DEF TypeOK, Kinds
  <2> QED  BY <2>1 DEF RunInv, SendInv
<1> QED  BY <1>1, RunsInvariant, TypeCorrect, PTL

(* The stream never announces an outcome the row does not have yet. *)
THEOREM NotAnnouncedEarly == Spec => []OutcomeNotAnnouncedEarly
<1>1. RunsInv => OutcomeNotAnnouncedEarly
  BY DEF RunsInv, RunInv, EventInv, OutcomeNotAnnouncedEarly
<1> QED  BY <1>1, RunsInvariant, PTL
-----------------------------------------------------------------------------
(* What a step does to the row and to the count of requests. *)

Recorded(r) ==
    \/ InsertRun(r) \/ CancelMark(r)
    \/ pc["execute"][r] # "none" /\ UpdateStatus(r, "running")
    \/ (\E k \in Kinds : pc[k][r] # "none") /\ UpdateStatus(r, "failed")
    \/ pc["poll"][r] = "setReady" /\ UpdateStatus(r, "ready")

Sent(r) ==
    /\ pc["execute"][r] = "perform"
    /\ performs' = [performs EXCEPT ![r] = @ + 1]

LEMMA StatusStep ==
    ASSUME NEW r \in Runs, NextOf(r)
    PROVE  \/ UNCHANGED <<status, performs>>
           \/ Recorded(r) /\ UNCHANGED performs
           \/ Sent(r) /\ UNCHANGED status
<1> USE DEF Recorded, Sent, apiVars, queueVars, mceVars
<1>1. CASE CreateStep(r) \/ CancelStep(r) \/ InsertFails(r) \/ EnqueueFails(r)
             \/ CancelFails(r)
  BY <1>1 DEF CreateStep, CancelStep, InsertFails, EnqueueFails, CancelFails,
              AdmitRun, RejectRun, InsertRun, EnqueueExecute, CancelRead, CancelMark
<1>2. CASE ExecuteStep(r) \/ Resend(r) \/ PerformUnanswered(r) \/ EnqueuePollThrows(r)
  BY <1>2 DEF ExecuteStep, Resend, PerformUnanswered, EnqueuePollThrows, ExecuteCheck,
              ExecuteSayCanceled, ExecuteMark, ExecuteAnnounce, ExecutePrepare,
              ExecutePerform, ExecuteRecord, EnqueuePoll, Acknowledge, StartTask
<1>3. CASE PollStep(r) \/ AnswerLost(r) \/ Environment(r)
  <2>1. CASE SetFailed(r) \/ SetReady(r)
    BY <2>1 DEF SetFailed, SetReady, Kinds
  <2>2. CASE ~(SetFailed(r) \/ SetReady(r))
    BY <1>3, <2>2
       DEF PollStep, AnswerLost, Environment, PollCheck, PollSayCanceled, AskErrored,
           AskRowsFound, AskComplete, AskProcessing, AskRunning, AskNotRunning, Delay,
           SayFailing, SayFetching, SayReady, Cleanup, Tick, TaskEnds
  <2> QED  BY <2>1, <2>2
<1>4. CASE DecryptFails(r) \/ DelayThrows(r)
  BY <1>4 DEF DecryptFails, DelayThrows
<1>5. ASSUME NEW k \in Kinds, JobNext(k, r)
      PROVE  UNCHANGED <<status, performs>> \/ (Recorded(r) /\ UNCHANGED performs)
  BY <1>5 DEF JobNext, QueueStep, Pickup, GiveUp, HookStatus, HookEvent, Stall,
              HookStatusThrows, HookDies, DbThrows, PublishThrows, MceThrows, Refuse
<1> QED  BY <1>1, <1>2, <1>3, <1>4, <1>5 DEF NextOf

(* A terminal status is only ever replaced by "canceled", and only by a      *)
(* cancelRun that is between its read and its write.                         *)
THEOREM OutcomeIsKept == Spec => OutcomeKept
<1>1. TypeOK /\ RunsInv /\ [Next]_vars =>
        [\A r \in Runs : status[r] \in Terminal /\ status'[r] # status[r]
            => status'[r] = "canceled" /\ cancel[r] = "marking"]_vars
  <2> SUFFICES ASSUME TypeOK, RunsInv, Next, NEW q \in Runs,
                      status[q] \in Terminal, status'[q] # status[q]
               PROVE  status'[q] = "canceled" /\ cancel[q] = "marking"
    OBVIOUS
  <2>1. PICK r \in Runs : NextOf(r)
    BY NextCases
  <2>2. q = r
    BY <2>1, StepFrame DEF Untouched
  <2>3. api[r] # "counted"
    BY <2>2 DEF RunsInv, RunInv, RowInv, Terminal
  <2> QED  BY <2>1, <2>2, <2>3, StatusStep
       DEF Recorded, InsertRun, CancelMark, UpdateStatus, TypeOK
<1> QED  BY <1>1, TypeCorrect, RunsInvariant, PTL DEF Spec, OutcomeKept

-----------------------------------------------------------------------------
(* Refinement: with the queue, the workers and the stream hidden, the rows   *)
(* and the requests to MCE behave as RunLifecycle says.                      *)
THEOREM Implementation == Spec => ImplementsLifecycle
<1> USE DEF Lifecycle!Init, Lifecycle!Next, Lifecycle!vars, Lifecycle!Submit,
            Lifecycle!Begin, Lifecycle!Send, Lifecycle!Finish, Lifecycle!Fail,
            Lifecycle!Cancel, Lifecycle!Live
<1>1. Init => Lifecycle!Init
  BY DEF Init
<1>2. TypeOK /\ RunsInv /\ [Next]_vars => [Lifecycle!Next]_Lifecycle!vars
  <2> SUFFICES ASSUME TypeOK, RunsInv, Next
               PROVE  Lifecycle!Next \/ UNCHANGED <<status, performs>>
    BY DEF vars
  <2>1. PICK r \in Runs : NextOf(r)
    BY NextCases
  <2>2. /\ api[r] = "counted" => status[r] = "absent"
        /\ cancel[r] = "marking" => status[r] # "absent"
        /\ \A k \in Kinds : pc[k][r] # "none" => status[r] # "absent"
        /\ pc["poll"][r] # "none" => performs[r] > 0 /\ status[r] # "queued"
        /\ pc["execute"][r] = "perform" => status[r] \notin {"absent", "queued"}
    BY DEF RunsInv, RunInv, PlacesInv, RowInv, SendInv, Kinds
  <2>3. CASE Sent(r) /\ UNCHANGED status
    BY <2>2, <2>3 DEF Sent
  <2>4. CASE Recorded(r) /\ UNCHANGED performs
    <3>1. CASE InsertRun(r) \/ CancelMark(r)
      BY <2>2, <2>4, <3>1 DEF InsertRun, CancelMark
    <3>2. ASSUME NEW s, UpdateStatus(r, s)
          PROVE  \/ status[r] \in Terminal /\ UNCHANGED status
                 \/ status[r] \notin Terminal /\ status' = [status EXCEPT ![r] = s]
      BY <3>2 DEF UpdateStatus, TypeOK
    <3>3. CASE pc["execute"][r] # "none" /\ UpdateStatus(r, "running")
      <4>1. status[r] # "absent"
        BY <2>2, <3>3 DEF Kinds
      <4>2. CASE status[r] = "running"
        <5>1. status' = [status EXCEPT ![r] = "running"]
          BY <3>2, <3>3, <4>2 DEF Terminal
        <5>2. UNCHANGED status
          BY <4>2, <5>1 DEF TypeOK
        <5> QED  BY <2>4, <5>2
      <4>3. CASE status[r] = "queued"
        BY <2>4, <3>2, <3>3, <4>3 DEF Terminal
      <4>4. CASE status[r] \in Terminal
        BY <2>4, <3>2, <3>3, <4>4
      <4> QED  BY <4>1, <4>2, <4>3, <4>4 DEF TypeOK, Statuses, Terminal
    <3>4. CASE (\E k \in Kinds : pc[k][r] # "none") /\ UpdateStatus(r, "failed")
      <4>1. status[r] # "absent"
        BY <2>2, <3>4
      <4>2. status[r] \in Terminal \/ status[r] \in {"queued", "running"}
        BY <4>1 DEF TypeOK, Statuses, Terminal
      <4> QED  BY <2>4, <3>2, <3>4, <4>2
    <3>5. CASE pc["poll"][r] = "setReady" /\ UpdateStatus(r, "ready")
      <4>1. status[r] \in Terminal \/ status[r] = "running"
        BY <2>2, <3>5 DEF TypeOK, Statuses, Terminal, Kinds
      <4> QED  BY <2>2, <2>4, <3>2, <3>5, <4>1
    <3> QED  BY <2>4, <3>1, <3>3, <3>4, <3>5 DEF Recorded
  <2> QED  BY <2>1, <2>3, <2>4, StatusStep
<1> QED  BY <1>1, <1>2, TypeCorrect, RunsInvariant, PTL
         DEF Spec, ImplementsLifecycle, Lifecycle!Spec

-----------------------------------------------------------------------------
(* The limit of concurrent runs: a request that has counted and not inserted *)
(* yet is counted with the runs it is about to add to.                       *)

AdmissionInv ==
    /\ Cardinality(Creating) <= MaxCreators
    /\ Cardinality(Active) + Cardinality(Creating) <= MaxActive - 1 + MaxCreators

LEMMA RunSetsFinite ==
    /\ IsFiniteSet(Active) /\ IsFiniteSet(Creating)
    /\ Cardinality(Active) \in Nat /\ Cardinality(Creating) \in Nat
  BY RunsAssumption, FS_Subset, FS_CardinalityType DEF Active, Creating

(* Only a count or an insert adds to the two sets. *)
LEMMA AdmissionStep ==
    ASSUME TypeOK, NEW r \in Runs, NextOf(r), RunInv(r)
    PROVE  \/ AdmitRun(r) \/ InsertRun(r)
           \/ Active' \subseteq Active /\ Creating' \subseteq Creating
<1> SUFFICES ASSUME ~AdmitRun(r), ~InsertRun(r)
             PROVE  Active' \subseteq Active /\ Creating' \subseteq Creating
  OBVIOUS
<1>1. api'[r] = "counted" => api[r] = "counted"
  <2> USE DEF apiVars, queueVars, mceVars
  <2>1. CASE CreateStep(r) \/ CancelStep(r) \/ InsertFails(r) \/ EnqueueFails(r)
               \/ CancelFails(r)
    BY <2>1 DEF CreateStep, CancelStep, InsertFails, EnqueueFails, CancelFails,
                RejectRun, EnqueueExecute, CancelRead, CancelMark, TypeOK
  <2>2. CASE ExecuteStep(r) \/ Resend(r) \/ PerformUnanswered(r) \/ EnqueuePollThrows(r)
    BY <2>2 DEF ExecuteStep, Resend, PerformUnanswered, EnqueuePollThrows,
                ExecuteCheck, ExecuteSayCanceled, ExecuteMark, ExecuteAnnounce,
                ExecutePrepare, ExecutePerform, ExecuteRecord, EnqueuePoll,
                Acknowledge, FailAttempt
  <2>3. CASE PollStep(r) \/ Environment(r)
    BY <2>3 DEF PollStep, Environment, PollCheck, PollSayCanceled, AskErrored,
                AskRowsFound, AskComplete, AskProcessing, AskRunning, AskNotRunning,
                Delay, SetFailed, SetReady, SayFailing, SayFetching, SayReady,
                Cleanup, Tick, TaskEnds
  <2>4. CASE DecryptFails(r) \/ DelayThrows(r) \/ AnswerLost(r)
    BY <2>4 DEF DecryptFails, DelayThrows, AnswerLost, FailAttempt
  <2>5. ASSUME NEW k \in Kinds, JobNext(k, r)
        PROVE  UNCHANGED api
    BY <2>5 DEF JobNext, QueueStep, Pickup, GiveUp, HookStatus, HookEvent, Stall,
                HookStatusThrows, HookDies, DbThrows, PublishThrows, MceThrows,
                Refuse, FailAttempt
  <2> QED  BY <2>1, <2>2, <2>3, <2>4, <2>5 DEF NextOf
<1>2. status'[r] \in Live => status[r] \in Live
  <2>1. \A k \in Kinds : pc[k][r] # "none" => status[r] # "absent"
    BY DEF RunInv, PlacesInv, RowInv, Kinds
  <2>2. status[r] # "absent" /\ status[r] \notin Terminal => status[r] \in Live
    BY DEF TypeOK, Statuses, Terminal, Live
  <2>3. UNCHANGED status \/ Recorded(r)
    BY StatusStep
  <2> QED  BY <2>1, <2>2, <2>3
           DEF Recorded, CancelMark, UpdateStatus, TypeOK, Kinds, Terminal, Live
<1>3. \A q \in Runs \ {r} : status'[q] = status[q] /\ api'[q] = api[q]
  BY StepFrame DEF Untouched
<1> QED  BY <1>1, <1>2, <1>3 DEF Active, Creating

LEMMA AdmissionKept ==
    ASSUME TypeOK, RunsInv, AdmissionInv, Next
    PROVE  AdmissionInv'
<1>1. PICK r \in Runs : NextOf(r)
  BY NextCases
<1>2. /\ MaxActive \in Nat /\ MaxCreators \in Nat
      /\ Cardinality(Active) \in Nat /\ Cardinality(Creating) \in Nat
      /\ IsFiniteSet(Active) /\ IsFiniteSet(Creating)
  BY LimitsAssumption, RunSetsFinite
<1>3. CASE AdmitRun(r)
  <2>1. Active' = Active /\ Creating' = Creating \cup {r} /\ r \notin Creating
    BY <1>3 DEF AdmitRun, Active, Creating, TypeOK
  <2>2. /\ Cardinality(Creating') = Cardinality(Creating) + 1
        /\ Cardinality(Active') = Cardinality(Active)
    BY <1>2, <2>1, FS_AddElement
  <2>3. Cardinality(Creating) < MaxCreators /\ Cardinality(Active) < MaxActive
    BY <1>3 DEF AdmitRun
  <2> QED  BY <1>2, <2>2, <2>3 DEF AdmissionInv
<1>4. CASE InsertRun(r)
  <2>1. r \in Creating /\ r \notin Active
    BY <1>4 DEF InsertRun, Creating, Active, RunsInv, RunInv, RowInv, Live
  <2>2. Active' = Active \cup {r} /\ Creating' = Creating \ {r}
    BY <1>4, <2>1 DEF InsertRun, Creating, Active, TypeOK, Live
  <2>3. /\ Cardinality(Active') = Cardinality(Active) + 1
        /\ Cardinality(Creating') = Cardinality(Creating) - 1
    BY <1>2, <2>1, <2>2, FS_AddElement, FS_RemoveElement
  <2> QED  BY <1>2, <2>3 DEF AdmissionInv
<1>5. CASE Active' \subseteq Active /\ Creating' \subseteq Creating
  <2>1. /\ Cardinality(Active') <= Cardinality(Active)
        /\ Cardinality(Creating') <= Cardinality(Creating)
        /\ Cardinality(Active') \in Nat /\ Cardinality(Creating') \in Nat
    BY <1>2, <1>5, FS_Subset, FS_CardinalityType
  <2> QED  BY <1>2, <2>1 DEF AdmissionInv
<1>6. RunInv(r)
  BY DEF RunsInv
<1> QED  BY <1>1, <1>3, <1>4, <1>5, <1>6, AdmissionStep

(* However the requests interleave, the runs of a user exceed the limit by   *)
(* less than the requests that were in flight together.                      *)
THEOREM ActiveRunsBounded == Spec => []ActiveBounded
<1>1. Init => AdmissionInv
  <2> SUFFICES ASSUME Init PROVE AdmissionInv
    OBVIOUS
  <2>1. Active = {} /\ Creating = {}
    BY DEF Init, Active, Creating, Live
  <2> QED  BY <2>1, FS_EmptySet, LimitsAssumption DEF AdmissionInv
<1>2. AdmissionInv => ActiveBounded
  BY RunSetsFinite, LimitsAssumption DEF AdmissionInv, ActiveBounded
<1>3. TypeOK /\ RunsInv /\ AdmissionInv /\ [Next]_vars => AdmissionInv'
  <2>1. ASSUME UNCHANGED vars, AdmissionInv PROVE AdmissionInv'
    BY <2>1 DEF vars, AdmissionInv, Active, Creating
  <2> QED  BY <2>1, AdmissionKept
<1> QED  BY <1>1, <1>2, <1>3, TypeCorrect, RunsInvariant, PTL DEF Spec

-----------------------------------------------------------------------------
(* The confirmations: as long as no answer of MCE gets lost, the count of    *)
(* confirmations in the job is no more than what MCE has said in a row.      *)

Finishing(r) == pc["poll"][r] \in {"sayFetching", "setReady", "sayReady"}

EvidenceInv(r) ==
    /\ \A i \in Tasks : i <= performs[r] <=> task[r][i] # "none"
    /\ pc["poll"][r] # "none" => data[r].task \in 1 .. performs[r]
    /\ streak[r] < Confirmations
    /\ r \notin TargetRuns =>
         /\ data[r].notRunning <= streak[r] \/ TaskOver(r)
         /\ Finishing(r) \/ status[r] = "ready" => TaskOver(r)

LEMMA EvidenceUntouched ==
    ASSUME NEW q \in Runs, EvidenceInv(q), Untouched(q)
    PROVE  EvidenceInv(q)'
  BY DEF EvidenceInv, Untouched, TaskOver, Finishing, Kinds

(* A step that neither asks MCE nor adds the poll job. *)
LEMMA EvidenceQuiet ==
    ASSUME NEW r \in Runs, EvidenceInv(r),
           data'[r] = data[r], task'[r] = task[r], performs'[r] = performs[r],
           streak'[r] = streak[r],
           pc'["poll"][r] # "none" => pc["poll"][r] # "none",
           Finishing(r)' => Finishing(r),
           status'[r] = "ready" => status[r] = "ready" \/ Finishing(r)
    PROVE  EvidenceInv(r)'
  BY DEF EvidenceInv, TaskOver

LEMMA EvidenceCreate ==
    ASSUME TypeOK, NEW r \in Runs, EvidenceInv(r),
           CreateStep(r) \/ CancelStep(r) \/ InsertFails(r) \/ EnqueueFails(r)
             \/ CancelFails(r)
    PROVE  EvidenceInv(r)'
<1> USE DEF queueVars, mceVars
<1>1. pc'["poll"][r] = pc["poll"][r]
  <2>1. CASE EnqueueExecute(r)
    BY <2>1, GotoAt DEF EnqueueExecute
  <2>2. CASE ~EnqueueExecute(r)
    BY <2>2 DEF CreateStep, CancelStep, InsertFails, EnqueueFails, CancelFails,
                AdmitRun, RejectRun, InsertRun, CancelRead, CancelMark
  <2> QED  BY <2>1, <2>2
<1>2. UNCHANGED <<data, task, performs, streak>>
  BY DEF CreateStep, CancelStep, InsertFails, EnqueueFails, CancelFails, AdmitRun,
         RejectRun, InsertRun, EnqueueExecute, CancelRead, CancelMark
<1>3. status'[r] = "ready" => status[r] = "ready"
  BY DEF CreateStep, CancelStep, InsertFails, EnqueueFails, CancelFails, AdmitRun,
         RejectRun, InsertRun, EnqueueExecute, CancelRead, CancelMark, TypeOK
<1> QED  BY <1>1, <1>2, <1>3, EvidenceQuiet DEF Finishing

LEMMA EvidenceQueue ==
    ASSUME TypeOK, NEW k \in Kinds, NEW r \in Runs, EvidenceInv(r), RunInv(r),
           JobNext(k, r) \/ DecryptFails(r) \/ DelayThrows(r)
    PROVE  EvidenceInv(r)'
<1> USE DEF queueVars, mceVars
<1>1. UNCHANGED <<data, task, performs, streak>>
  BY DEF JobNext, QueueStep, Pickup, GiveUp, HookStatus, HookEvent, Stall,
         HookStatusThrows, HookDies, DbThrows, PublishThrows, MceThrows, Refuse,
         DecryptFails, DelayThrows
<1>2. status'[r] = "ready" => status[r] = "ready"
  <2>1. UNCHANGED status \/ UpdateStatus(r, "failed")
    BY DEF JobNext, QueueStep, Pickup, GiveUp, HookStatus, HookEvent, Stall,
           HookStatusThrows, HookDies, DbThrows, PublishThrows, MceThrows, Refuse,
           DecryptFails, DelayThrows
  <2> QED  BY <2>1, UpdateStatusAt
<1>3. PICK j \in Kinds, p \in {"check", "failing", "waiting", "sayFailed",
                               "sayUnsaved", "failed", "unsaved"} :
        Goto(j, r, p) /\ pc[j][r] # "none"
  <2>1. CASE QueueStep(k, r) \/ HookStatusThrows(k, r) \/ HookDies(k, r)
    BY <2>1 DEF QueueStep, Pickup, GiveUp, HookStatus, HookEvent, HookStatusThrows,
                HookDies, HookSteps
  <2>2. CASE Stall(k, r) \/ DbThrows(k, r) \/ PublishThrows(k, r) \/ MceThrows(k, r)
               \/ Refuse(k, r)
    BY <2>2 DEF Stall, DbThrows, PublishThrows, MceThrows, Refuse, FailAttempt,
                HandlerSteps, DbSteps, PublishSteps, RedisSteps, MceSteps
  <2>3. CASE DecryptFails(r) \/ DelayThrows(r)
    BY <2>3 DEF DecryptFails, DelayThrows, FailAttempt, Kinds
  <2> QED  BY <2>1, <2>2, <2>3 DEF JobNext
<1>4. pc'["poll"][r] = pc["poll"][r] \/ (pc["poll"][r] # "none" /\ pc'["poll"][r] = p)
  BY <1>3, GotoAt DEF Kinds
<1> QED  BY <1>1, <1>2, <1>4, EvidenceQuiet DEF Finishing

LEMMA EvidenceExecute ==
    ASSUME TypeOK, NEW r \in Runs, EvidenceInv(r), RunInv(r),
           ExecuteStep(r) \/ Resend(r) \/ PerformUnanswered(r) \/ EnqueuePollThrows(r)
    PROVE  EvidenceInv(r)'
<1> USE DEF queueVars, mceVars
<1>0. "execute" \in Kinds /\ performs[r] \in Nat /\ MaxPerforms \in Nat
  BY LimitsAssumption DEF Kinds, TypeOK
<1>1. CASE ExecuteCheck(r) \/ ExecuteRecord(r) \/ Acknowledge(r)
             \/ ExecuteSayCanceled(r) \/ ExecuteAnnounce(r) \/ ExecutePrepare(r)
             \/ ExecuteMark(r)
  <2>1. PICK p : Goto("execute", r, p)
    BY <1>1 DEF ExecuteCheck, ExecuteRecord, Acknowledge, ExecuteSayCanceled,
                ExecuteAnnounce, ExecutePrepare, ExecuteMark
  <2>2. UNCHANGED <<data, task, performs, streak>>
    BY <1>1 DEF ExecuteCheck, ExecuteRecord, Acknowledge, ExecuteSayCanceled,
                ExecuteAnnounce, ExecutePrepare, ExecuteMark
  <2>3. status'[r] = "ready" => status[r] = "ready"
    BY <1>1, UpdateStatusAt
       DEF ExecuteCheck, ExecuteRecord, Acknowledge, ExecuteSayCanceled,
           ExecuteAnnounce, ExecutePrepare, ExecuteMark
  <2> QED  BY <2>1, <2>2, <2>3, GotoAt, EvidenceQuiet DEF Finishing
<1>2. CASE ExecutePerform(r) \/ Resend(r) \/ PerformUnanswered(r)
  <2>1. StartTask(r) /\ UNCHANGED <<status, data, streak>>
    BY <1>2 DEF ExecutePerform, Resend, PerformUnanswered
  <2>2. pc'["poll"][r] = pc["poll"][r]
    BY <1>0, <1>2, GotoAt, FailAttemptAt DEF ExecutePerform, Resend, PerformUnanswered,
                                             Kinds
  <2>3. /\ performs[r] < MaxPerforms /\ performs'[r] = performs[r] + 1
        /\ task'[r] = [task[r] EXCEPT ![performs[r] + 1] = "running"]
    BY <2>1 DEF StartTask, TypeOK
  <2>4. \A i \in Tasks : task'[r][i] = IF i = performs[r] + 1 THEN "running"
                                       ELSE task[r][i]
    BY <2>3 DEF TypeOK
  <2>5. performs[r] + 1 \in Tasks
    BY <1>0, <2>3 DEF Tasks
  <2>6. TaskOver(r) => TaskOver(r)'
    <3>1. ASSUME NEW i \in Tasks, task[r][i] \in {"done", "error"}
          PROVE  TaskOver(r)'
      <4>1. i # performs[r] + 1
        BY <1>0, <3>1 DEF EvidenceInv
      <4> QED  BY <2>4, <3>1, <4>1 DEF TaskOver
    <3> QED  BY <3>1 DEF TaskOver
  <2>7. \A i \in Tasks : i <= performs'[r] <=> task'[r][i] # "none"
    BY <1>0, <2>3, <2>4 DEF EvidenceInv, Tasks
  <2> QED  BY <1>0, <2>1, <2>2, <2>3, <2>6, <2>7 DEF EvidenceInv, Finishing
<1>3. CASE EnqueuePoll(r) \/ EnqueuePollThrows(r)
  <2>1. /\ UNCHANGED <<status, performs, task, streak>>
        /\ pc["execute"][r] = "enqueue"
    BY <1>3 DEF EnqueuePoll, EnqueuePollThrows
  <2>2. \/ pc'["poll"][r] = pc["poll"][r] /\ UNCHANGED data
        \/ /\ pc["poll"][r] = "none" /\ pc'["poll"][r] = "waiting"
           /\ data' = [data EXCEPT ![r].task = performs[r]]
    BY <1>3, GotoAt, GotoBothAt DEF EnqueuePoll, AddPoll, EnqueuePollThrows
  <2>3. CASE pc'["poll"][r] = pc["poll"][r] /\ UNCHANGED data
    BY <2>1, <2>3, EvidenceQuiet DEF Finishing
  <2>4. CASE /\ pc["poll"][r] = "none" /\ pc'["poll"][r] = "waiting"
             /\ data' = [data EXCEPT ![r].task = performs[r]]
    <3>1. performs[r] > 0
      BY <2>1 DEF RunInv, SendInv
    <3>2. /\ data'[r].task = performs[r]
          /\ data'[r].notRunning = data[r].notRunning
      BY <2>4 DEF TypeOK, PollData
    <3> QED  BY <1>0, <2>1, <2>4, <3>1, <3>2 DEF EvidenceInv, TaskOver, Finishing
  <2> QED  BY <2>2, <2>3, <2>4
<1> QED  BY <1>1, <1>2, <1>3 DEF ExecuteStep

LEMMA EvidencePoll ==
    ASSUME TypeOK, Faults \cap {"redis", "crash"} = {},
           NEW r \in Runs, EvidenceInv(r), RunInv(r),
           PollStep(r) \/ AnswerLost(r) \/ Environment(r)
    PROVE  EvidenceInv(r)'
<1> USE DEF apiVars, queueVars, mceVars
<1>0. /\ performs[r] \in Nat /\ streak[r] \in Nat /\ data[r].notRunning \in Nat
      /\ Confirmations \in Nat /\ MaxPerforms \in Nat
  BY LimitsAssumption DEF TypeOK, PollData
<1>1. CASE PollCheck(r) \/ PollSayCanceled(r) \/ AskErrored(r) \/ Delay(r)
           \/ SetFailed(r) \/ SayFailing(r) \/ SayFetching(r) \/ SetReady(r)
           \/ SayReady(r) \/ Cleanup(r)
  <2>1. PICK p : /\ Goto("poll", r, p) /\ pc["poll"][r] # "none"
                 /\ p \in {"sayFetching", "setReady", "sayReady"} => Finishing(r)
    BY <1>1 DEF PollCheck, PollSayCanceled, AskErrored, Delay, SetFailed, SayFailing,
                SayFetching, SetReady, SayReady, Cleanup, Finishing
  <2>2. UNCHANGED <<data, task, performs, streak>>
    BY <1>1 DEF PollCheck, PollSayCanceled, AskErrored, Delay, SetFailed, SayFailing,
                SayFetching, SetReady, SayReady, Cleanup
  <2>3. status'[r] = "ready" => status[r] = "ready" \/ Finishing(r)
    BY <1>1, UpdateStatusAt
       DEF PollCheck, PollSayCanceled, AskErrored, Delay, SetFailed, SayFailing,
           SayFetching, SetReady, SayReady, Cleanup, Finishing
  <2>4. pc'["poll"][r] = p
    BY <2>1, GotoAt
  <2> QED  BY <2>1, <2>2, <2>3, <2>4, EvidenceQuiet DEF Finishing
<1>2. CASE AskRowsFound(r)
  <2>1. /\ Goto("poll", r, "sayFetching") /\ pc["poll"][r] = "ask"
        /\ r \in TargetRuns \/ TaskOver(r)
        /\ UNCHANGED <<status, data, task, performs, streak>>
    BY <1>2 DEF AskRowsFound, TaskOver
  <2> QED  BY <2>1, GotoAt DEF EvidenceInv, TaskOver, Finishing
<1>3. CASE AskComplete(r)
  <2>1. PICK p : Goto("poll", r, p)
    BY <1>3 DEF AskComplete, RowsetReady, RowsetNotReady
  <2>2. pc["poll"][r] = "ask" /\ UNCHANGED <<status, task, performs, streak>>
    BY <1>3 DEF AskComplete
  <2>3. data[r].task \in Tasks /\ task[r][data[r].task] = "done"
    BY <1>0, <1>3, <2>2 DEF AskComplete, Watched, EvidenceInv, Tasks, TypeOK
  <2>4. data'[r].task = data[r].task
    BY <1>3 DEF AskComplete, RowsetReady, RowsetNotReady, TypeOK, PollData
  <2>5. TaskOver(r)
    BY <2>3 DEF TaskOver
  <2> QED  BY <2>2, <2>4, <2>5 DEF EvidenceInv, TaskOver
<1>4. CASE AskProcessing(r)
  <2>1. /\ pc["poll"][r] = "ask" /\ Goto("poll", r, "delay")
        /\ UNCHANGED <<status, task, performs, streak>>
    BY <1>4 DEF AskProcessing, PollAgain
  <2>2. data'[r].task = data[r].task /\ data'[r].notRunning = data[r].notRunning
    BY <1>4 DEF AskProcessing, PollAgain, TypeOK
  <2> QED  BY <2>1, <2>2, GotoAt DEF EvidenceInv, TaskOver, Finishing
<1>5. CASE AskRunning(r)
  <2>1. /\ pc["poll"][r] = "ask" /\ Goto("poll", r, "delay")
        /\ UNCHANGED <<status, task, performs>>
    BY <1>5 DEF AskRunning, PollAgain
  <2>2. data'[r].task = data[r].task /\ data'[r].notRunning = 0
    BY <1>5 DEF AskRunning, PollAgain, TypeOK
  <2>3. streak'[r] = 0
    BY <1>5 DEF AskRunning, TypeOK
  <2> QED  BY <2>1, <2>2, <2>3, GotoAt, LimitsAssumption
           DEF EvidenceInv, TaskOver, Finishing
<1>6. CASE AskNotRunning(r)
  <2>1. pc["poll"][r] = "ask" /\ UNCHANGED <<status, task, performs>>
    BY <1>6 DEF AskNotRunning
  <2>2. data[r].task \in Tasks /\ Watched(r) # "none"
    BY <1>0, <2>1 DEF EvidenceInv, Watched, Tasks, TypeOK
  <2>3. CASE Watched(r) = "running"
    <3>1. streak[r] + 1 < Confirmations /\ streak'[r] = streak[r] + 1
      BY <1>6, <2>3 DEF AskNotRunning, AnswerNotRunning, TypeOK
    <3>2. CASE \E n \in Nat : PollAgain(r, n) /\ n <= data[r].notRunning + 1
      <4>1. PICK n \in Nat : PollAgain(r, n) /\ n <= data[r].notRunning + 1
        BY <3>2
      <4>2. data'[r].task = data[r].task /\ data'[r].notRunning = n
        BY <4>1 DEF PollAgain, TypeOK
      <4>3. pc'["poll"][r] = "delay"
        BY <4>1, GotoAt DEF PollAgain
      <4> QED  BY <1>0, <2>1, <3>1, <4>1, <4>2, <4>3
               DEF EvidenceInv, TaskOver, Finishing
    <3>3. CASE /\ data[r].notRunning + 1 >= Confirmations
               /\ RowsetReady(r) \/ RowsetNotReady(r, FALSE)
      <4>1. r \notin TargetRuns => TaskOver(r)
        BY <1>0, <3>1, <3>3 DEF EvidenceInv
      <4>2. data' = data
        BY <3>3 DEF RowsetReady, RowsetNotReady
      <4> QED  BY <1>0, <2>1, <3>1, <4>1, <4>2 DEF EvidenceInv, TaskOver
    <3>4. \/ PollAgain(r, 1) \/ PollAgain(r, data[r].notRunning)
          \/ PollAgain(r, data[r].notRunning + 1)
          \/ /\ data[r].notRunning + 1 >= Confirmations
             /\ RowsetReady(r) \/ RowsetNotReady(r, FALSE)
      BY <1>6 DEF AskNotRunning
    <3>5. /\ 1 \in Nat /\ data[r].notRunning + 1 \in Nat
          /\ 1 <= data[r].notRunning + 1
          /\ data[r].notRunning <= data[r].notRunning + 1
          /\ data[r].notRunning + 1 <= data[r].notRunning + 1
      BY <1>0
    <3> QED  BY <1>0, <3>2, <3>3, <3>4, <3>5
  <2>4. CASE Watched(r) # "running"
    <3>1. Watched(r) \in {"done", "error"}
      BY <2>2, <2>4 DEF Watched, TypeOK
    <3>2. TaskOver(r)
      BY <2>2, <3>1 DEF TaskOver, Watched
    <3>3. streak' = streak
      BY <1>6, <2>4 DEF AskNotRunning, AnswerNotRunning
    <3>4. data'[r].task = data[r].task
      BY <1>6 DEF AskNotRunning, PollAgain, RowsetReady, RowsetNotReady, TypeOK
    <3> QED  BY <2>1, <3>2, <3>3, <3>4 DEF EvidenceInv, TaskOver
  <2> QED  BY <2>3, <2>4
<1>7. CASE AnswerLost(r)
  BY <1>7 DEF AnswerLost
<1>8. CASE Environment(r)
  <2>1. UNCHANGED <<status, pc, data, performs, streak>>
    BY <1>8 DEF Environment, Tick, TaskEnds
  <2>2. \A i \in Tasks : \/ task'[r][i] = task[r][i]
                         \/ /\ task[r][i] = "running"
                            /\ task'[r][i] \in {"done", "error"}
    BY <1>8 DEF Environment, Tick, TaskEnds, TypeOK
  <2> QED  BY <2>1, <2>2 DEF EvidenceInv, TaskOver, Finishing
<1> QED  BY <1>1, <1>2, <1>3, <1>4, <1>5, <1>6, <1>7, <1>8 DEF PollStep

(* Without Redis failures and crashes, however the answers of MCE and other  *)
(* failures come, a run to a temporary data extension is only ever ready     *)
(* when a task of its query is over.                                         *)
THEOREM ReadyOnEvidence ==
    ASSUME Faults \cap {"redis", "crash"} = {}
    PROVE  Spec => []ReadyHasEvidence
<1> DEFINE IInv == \A r \in Runs : EvidenceInv(r)
<1>1. Init => IInv
  BY LimitsAssumption DEF Init, EvidenceInv, TaskOver, Finishing, Kinds, Tasks
<1>2. IInv => ReadyHasEvidence
  BY DEF EvidenceInv, ReadyHasEvidence
<1>3. TypeOK /\ RunsInv /\ IInv /\ [Next]_vars => IInv'
  <2> SUFFICES ASSUME TypeOK, RunsInv, IInv, [Next]_vars, NEW q \in Runs
               PROVE  EvidenceInv(q)'
    OBVIOUS
  <2>1. CASE UNCHANGED vars
    <3>1. Untouched(q)
      BY <2>1 DEF vars, Untouched
    <3> QED  BY <3>1, EvidenceUntouched
  <2>2. CASE Next
    <3>1. PICK r \in Runs : NextOf(r)
      BY <2>2, NextCases
    <3>2. CASE q = r
      <4>1. EvidenceInv(r) /\ RunInv(r)
        BY DEF RunsInv
      <4> QED  BY <3>1, <3>2, <4>1, EvidenceCreate, EvidenceQueue, EvidenceExecute,
                  EvidencePoll DEF NextOf, Kinds
    <3>3. CASE q # r
      BY <3>1, <3>3, StepFrame, EvidenceUntouched
    <3> QED  BY <3>2, <3>3
  <2> QED  BY <2>1, <2>2
<1> HIDE DEF IInv
<1> QED  BY <1>1, <1>2, <1>3, TypeCorrect, RunsInvariant, PTL DEF Spec

-----------------------------------------------------------------------------
(* One execute job, one attempt at a time: while a run's query may still be  *)
(* sent, nobody else can have ended the run, as long as nothing hands the    *)
(* job out again after it has handed over to the poll job.                   *)

BeforePoll == {"none", "waiting", "check", "mark", "announce", "prepare",
               "perform", "record", "enqueue"}

SoleInv(r) ==
    /\ cancel[r] = "idle" /\ status[r] # "canceled"
    /\ pc["execute"][r] \in BeforePoll
         => pc["poll"][r] = "none" /\ status[r] \notin Terminal

LEMMA SoleUntouched ==
    ASSUME NEW q \in Runs, SoleInv(q), Untouched(q)
    PROVE  SoleInv(q)'
  BY DEF SoleInv, Untouched, Kinds

LEMMA SoleCreate ==
    ASSUME TypeOK, CancelRuns = {}, NEW r \in Runs, SoleInv(r), RunInv(r),
           CreateStep(r) \/ CancelStep(r) \/ InsertFails(r) \/ EnqueueFails(r)
             \/ CancelFails(r)
    PROVE  SoleInv(r)'
<1>1. CASE AdmitRun(r) \/ RejectRun(r) \/ InsertFails(r) \/ EnqueueFails(r)
  BY <1>1 DEF AdmitRun, RejectRun, InsertFails, EnqueueFails, SoleInv
<1>2. CASE InsertRun(r)
  BY <1>2 DEF InsertRun, SoleInv, TypeOK, Terminal
<1>3. CASE EnqueueExecute(r)
  <2>1. pc["execute"][r] = "none"
    BY <1>3 DEF EnqueueExecute, RunInv, PlacesInv
  <2> QED  BY <1>3, <2>1, GotoAt DEF EnqueueExecute, SoleInv, BeforePoll
<1>4. CASE CancelStep(r) \/ CancelFails(r)
  BY <1>4 DEF CancelStep, CancelRead, CancelMark, CancelFails, SoleInv
<1> QED  BY <1>1, <1>2, <1>3, <1>4 DEF CreateStep

(* The steps of the queue and the calls that throw, without Redis failures   *)
(* and crashes: a job that waits again was still before its last call.       *)
LEMMA QuietJobStep ==
    ASSUME TypeOK, Faults \cap {"redis", "crash"} = {}, NEW k \in Kinds, NEW r \in Runs,
           JobNext(k, r) \/ DecryptFails(r) \/ DelayThrows(r), ~HookStatus(k, r)
    PROVE  /\ UNCHANGED <<status, cancel>>
           /\ \E j \in Kinds, p \in {"check", "waiting", "failing", "sayUnsaved",
                                     "failed", "unsaved"} :
                /\ Goto(j, r, p)
                /\ p = "check" => pc[j][r] = "waiting"
                /\ p \in {"waiting", "failing"} =>
                     pc[j][r] \in {"waiting"} \cup DbSteps \cup MceSteps
                /\ p \in {"sayUnsaved", "failed", "unsaved"} => pc[j][r] \in HookSteps
<1>1. UNCHANGED <<status, cancel>>
  BY DEF JobNext, QueueStep, Pickup, GiveUp, HookEvent, Stall, HookStatusThrows,
         HookDies, DbThrows, PublishThrows, MceThrows, Refuse, DecryptFails,
         DelayThrows, FailAttempt, apiVars
<1>2. CASE Pickup(k, r) \/ GiveUp(k, r)
  BY <1>1, <1>2 DEF Pickup, GiveUp
<1>3. CASE HookEvent(k, r) \/ HookStatusThrows(k, r)
  BY <1>1, <1>3 DEF HookEvent, HookStatusThrows, HookSteps
<1>4. CASE DbThrows(k, r) \/ MceThrows(k, r) \/ Refuse(k, r)
  BY <1>1, <1>4 DEF DbThrows, MceThrows, Refuse, FailAttempt, MceSteps
<1>5. CASE DecryptFails(r)
  BY <1>1, <1>5 DEF DecryptFails, FailAttempt, DbSteps, Kinds
<1>6. ~(Stall(k, r) \/ PublishThrows(k, r) \/ HookDies(k, r) \/ DelayThrows(r))
  BY DEF Stall, PublishThrows, HookDies, DelayThrows
<1> QED  BY <1>2, <1>3, <1>4, <1>5, <1>6 DEF JobNext, QueueStep

LEMMA SoleJob ==
    ASSUME TypeOK, Faults \cap {"redis", "crash"} = {}, NEW k \in Kinds, NEW r \in Runs,
           SoleInv(r), RunInv(r), JobNext(k, r) \/ DecryptFails(r) \/ DelayThrows(r)
    PROVE  SoleInv(r)'
<1>1. CASE HookStatus(k, r)
  <2>1. status'[r] # "canceled" /\ cancel'[r] = "idle"
    BY <1>1, UpdateStatusAt DEF HookStatus, SoleInv, Terminal, apiVars
  <2>2. pc'["execute"][r] \notin BeforePoll
    BY <1>1, GotoAt DEF HookStatus, SoleInv, BeforePoll, Kinds
  <2> QED  BY <2>1, <2>2 DEF SoleInv
<1>2. CASE ~HookStatus(k, r)
  <2>1. UNCHANGED <<status, cancel>>
    BY <1>2, QuietJobStep
  <2>2. PICK j \in Kinds, p \in {"check", "waiting", "failing", "sayUnsaved", "failed",
                                 "unsaved"} :
            /\ Goto(j, r, p)
            /\ p = "check" => pc[j][r] = "waiting"
            /\ p \in {"waiting", "failing"} =>
                 pc[j][r] \in {"waiting"} \cup DbSteps \cup MceSteps
            /\ p \in {"sayUnsaved", "failed", "unsaved"} => pc[j][r] \in HookSteps
    BY <1>2, QuietJobStep
  <2>3. CASE j = "execute"
    <3>1. pc'["execute"][r] = p /\ pc'["poll"][r] = pc["poll"][r]
      BY <2>2, <2>3, GotoAt
    <3>2. p \in BeforePoll => pc["execute"][r] \in BeforePoll
      BY <2>2, <2>3 DEF BeforePoll, DbSteps, MceSteps, RunInv, PlacesInv, ExecutePCs
    <3> QED  BY <2>1, <3>1, <3>2 DEF SoleInv
  <2>4. CASE j = "poll"
    <3>1. pc'["execute"][r] = pc["execute"][r] /\ pc["poll"][r] # "none"
      BY <2>2, <2>4, GotoAt DEF DbSteps, MceSteps, HookSteps
    <3> QED  BY <2>1, <3>1 DEF SoleInv
  <2> QED  BY <2>3, <2>4 DEF Kinds
<1> QED  BY <1>1, <1>2

LEMMA SoleExecute ==
    ASSUME TypeOK, Faults \cap {"redis", "crash"} = {}, NEW r \in Runs,
           SoleInv(r), RunInv(r),
           ExecuteStep(r) \/ Resend(r) \/ PerformUnanswered(r) \/ EnqueuePollThrows(r)
    PROVE  SoleInv(r)'
<1> USE DEF SoleInv, BeforePoll, apiVars, queueVars, mceVars
<1>1. CASE ExecuteCheck(r) \/ ExecuteAnnounce(r) \/ ExecutePrepare(r)
             \/ ExecuteRecord(r) \/ Acknowledge(r) \/ ExecuteSayCanceled(r)
             \/ ExecutePerform(r)
  BY <1>1, GotoAt DEF ExecuteCheck, ExecuteAnnounce, ExecutePrepare, ExecuteRecord,
                      Acknowledge, ExecuteSayCanceled, ExecutePerform
<1>2. CASE ExecuteMark(r)
  BY <1>2, GotoAt, UpdateStatusAt DEF ExecuteMark, Terminal
<1>3. CASE Resend(r)
  BY <1>3 DEF Resend
<1>4. CASE PerformUnanswered(r)
  <2>1. /\ pc["execute"][r] = "perform" /\ UNCHANGED status
        /\ \E terminal \in BOOLEAN : FailAttempt("execute", r, terminal)
    BY <1>4 DEF PerformUnanswered
  <2>2. pc'["poll"][r] = pc["poll"][r] /\ UNCHANGED cancel
    BY <2>1, FailAttemptAt DEF Kinds
  <2> QED  BY <2>1, <2>2
<1>5. CASE EnqueuePoll(r)
  BY <1>5, GotoAt, GotoBothAt DEF EnqueuePoll, AddPoll
<1>6. ~EnqueuePollThrows(r)
  BY DEF EnqueuePollThrows
<1> QED  BY <1>1, <1>2, <1>3, <1>4, <1>5, <1>6 DEF ExecuteStep

LEMMA SolePoll ==
    ASSUME TypeOK, Faults \cap {"redis", "crash"} = {}, NEW r \in Runs,
           SoleInv(r), RunInv(r), PollStep(r) \/ AnswerLost(r) \/ Environment(r)
    PROVE  SoleInv(r)'
<1> USE DEF apiVars, queueVars, mceVars
<1>1. CASE Environment(r)
  BY <1>1 DEF Environment, Tick, TaskEnds, SoleInv
<1>2. ~AnswerLost(r)
  BY DEF AnswerLost
<1>3. CASE PollStep(r)
  <2>1. PICK p : Goto("poll", r, p) /\ pc["poll"][r] # "none" /\ UNCHANGED cancel
    BY <1>3 DEF PollStep, PollCheck, PollSayCanceled, AskErrored, AskRowsFound,
                AskComplete, AskProcessing, AskRunning, AskNotRunning, Delay, SetFailed,
                SayFailing, SayFetching, SetReady, SayReady, Cleanup, PollAgain,
                RowsetReady, RowsetNotReady
  <2>2. pc'["execute"][r] = pc["execute"][r]
    BY <2>1, GotoAt
  <2>3. UNCHANGED status \/ UpdateStatus(r, "failed") \/ UpdateStatus(r, "ready")
    BY <1>3 DEF PollStep, PollCheck, PollSayCanceled, AskErrored, AskRowsFound,
                AskComplete, AskProcessing, AskRunning, AskNotRunning, Delay, SetFailed,
                SayFailing, SayFetching, SetReady, SayReady, Cleanup
  <2>4. status'[r] # "canceled"
    BY <2>3, UpdateStatusAt DEF SoleInv
  <2> QED  BY <2>1, <2>2, <2>4 DEF SoleInv
<1> QED  BY <1>1, <1>2, <1>3

LEMMA SoleInvariant ==
    ASSUME Faults \cap {"redis", "crash"} = {}, CancelRuns = {}
    PROVE  Spec => [](\A r \in Runs : SoleInv(r))
<1> DEFINE IInv == \A r \in Runs : SoleInv(r)
<1>1. Init => IInv
  BY DEF Init, SoleInv, Kinds, Terminal
<1>2. TypeOK /\ RunsInv /\ IInv /\ [Next]_vars => IInv'
  <2> SUFFICES ASSUME TypeOK, RunsInv, IInv, [Next]_vars, NEW q \in Runs
               PROVE  SoleInv(q)'
    OBVIOUS
  <2>1. CASE UNCHANGED vars
    <3>1. Untouched(q)
      BY <2>1 DEF vars, Untouched
    <3> QED  BY <3>1, SoleUntouched
  <2>2. CASE Next
    <3>1. PICK r \in Runs : NextOf(r)
      BY <2>2, NextCases
    <3>2. CASE q = r
      <4>1. SoleInv(r) /\ RunInv(r)
        BY DEF RunsInv
      <4> QED  BY <3>1, <3>2, <4>1, SoleCreate, SoleJob, SoleExecute, SolePoll
               DEF NextOf, Kinds
    <3>3. CASE q # r
      BY <3>1, <3>3, StepFrame, SoleUntouched
    <3> QED  BY <3>2, <3>3
  <2> QED  BY <2>1, <2>2
<1> HIDE DEF IInv
<1>3. Spec => []IInv
  BY <1>1, <1>2, TypeCorrect, RunsInvariant, PTL DEF Spec
<1> QED  BY <1>3 DEF IInv

(* Without Redis failures, crashes and cancellations - however MCE, the      *)
(* database and the API fail - a run's query is sent only while its row says *)
(* that it runs: never again once the run is over.                           *)
THEOREM PerformsWhileRunning ==
    ASSUME Faults \cap {"redis", "crash"} = {}, CancelRuns = {}
    PROVE  Spec => PerformedWhileRunning
<1> DEFINE IInv == \A r \in Runs : SoleInv(r)
<1>1. TypeOK /\ RunsInv /\ IInv /\ [Next]_vars =>
        [\A r \in Runs : performs'[r] # performs[r] => status[r] = "running"]_vars
  <2> SUFFICES ASSUME TypeOK, RunsInv, IInv, Next, NEW q \in Runs,
                      performs'[q] # performs[q]
               PROVE  status[q] = "running"
    OBVIOUS
  <2>1. PICK r \in Runs : NextOf(r)
    BY NextCases
  <2>2. q = r
    BY <2>1, StepFrame DEF Untouched
  <2>3. pc["execute"][q] = "perform"
    BY <2>1, <2>2, StatusStep DEF Sent
  <2>4. status[q] \notin Terminal /\ status[q] # "queued" /\ status[q] # "absent"
    BY <2>3 DEF SoleInv, BeforePoll, RunsInv, RunInv, RowInv, PlacesInv
  <2> QED  BY <2>4 DEF TypeOK, Statuses, Terminal
<1>2. Spec => []IInv
  BY SoleInvariant
<1> HIDE DEF IInv
<1> QED  BY <1>1, <1>2, TypeCorrect, RunsInvariant, PTL DEF Spec, PerformedWhileRunning

-----------------------------------------------------------------------------
(* The announced outcome.  If, besides, the database never fails, a job that *)
(* is about to store an outcome finds the row without one, and one that is   *)
(* about to announce an outcome finds its own in the row.                    *)

Settling == {"waiting", "check", "ask", "delay", "setFailed", "sayFetching",
             "setReady", "failing"}

TruthInv(r) ==
    /\ event[r] \in Terminal => event[r] = status[r]
    /\ pc["execute"][r] = "failing" =>
         pc["poll"][r] = "none" /\ status[r] \notin Terminal
    /\ pc["execute"][r] = "sayFailed" =>
         pc["poll"][r] = "none" /\ status[r] = "failed"
    /\ pc["poll"][r] \in Settling =>
         pc["execute"][r] \in {"ack", "completed"} /\ status[r] \notin Terminal
    /\ pc["poll"][r] \in {"sayFailing", "sayFailed"} => status[r] = "failed"
    /\ pc["poll"][r] = "sayReady" => status[r] = "ready"
    /\ \A k \in Kinds : pc[k][r] \notin {"sayUnsaved", "unsaved"}

LEMMA TruthUntouched ==
    ASSUME NEW q \in Runs, TruthInv(q), Untouched(q)
    PROVE  TruthInv(q)'
  BY DEF TruthInv, Untouched, Kinds

LEMMA TruthCreate ==
    ASSUME TypeOK, CancelRuns = {}, NEW r \in Runs, TruthInv(r), SoleInv(r), RunInv(r),
           CreateStep(r) \/ CancelStep(r) \/ InsertFails(r) \/ EnqueueFails(r)
             \/ CancelFails(r)
    PROVE  TruthInv(r)'
<1> USE DEF queueVars, mceVars
<1>1. CASE AdmitRun(r) \/ RejectRun(r) \/ InsertFails(r) \/ EnqueueFails(r)
  BY <1>1 DEF AdmitRun, RejectRun, InsertFails, EnqueueFails, TruthInv
<1>2. CASE InsertRun(r)
  <2>1. /\ status[r] = "absent" /\ status'[r] = "queued" /\ UNCHANGED <<event, pc>>
        /\ pc["execute"][r] = "none" /\ pc["poll"][r] = "none"
    BY <1>2 DEF InsertRun, TypeOK, RunInv, RowInv, PlacesInv
  <2> QED  BY <2>1 DEF TruthInv, Terminal, Settling
<1>3. CASE EnqueueExecute(r)
  <2>1. pc["execute"][r] = "none"
    BY <1>3 DEF EnqueueExecute, RunInv, PlacesInv
  <2>2. pc["poll"][r] = "none"
    BY <2>1 DEF SoleInv, BeforePoll
  <2> QED  BY <1>3, <2>1, <2>2, GotoAt DEF EnqueueExecute, TruthInv, Settling, Kinds
<1>4. CASE CancelStep(r) \/ CancelFails(r)
  BY <1>4 DEF CancelStep, CancelRead, CancelMark, CancelFails, SoleInv
<1> QED  BY <1>1, <1>2, <1>3, <1>4 DEF CreateStep

LEMMA TruthJob ==
    ASSUME TypeOK, Faults \cap {"redis", "crash", "db"} = {},
           NEW k \in Kinds, NEW r \in Runs, TruthInv(r), SoleInv(r), RunInv(r),
           JobNext(k, r) \/ DecryptFails(r) \/ DelayThrows(r)
    PROVE  TruthInv(r)'
<1>1. CASE HookStatus(k, r)
  <2>1. /\ pc[k][r] = "failing" /\ pc'[k][r] = "sayFailed" /\ UNCHANGED event
        /\ \A j \in Kinds \ {k} : pc'[j][r] = pc[j][r]
    BY <1>1, GotoSelf DEF HookStatus
  <2>2. status[r] \notin Terminal
    BY <2>1 DEF TruthInv, Settling, Kinds
  <2>3. status'[r] = "failed"
    BY <1>1, <2>2, UpdateStatusAt DEF HookStatus
  <2>4. event'[r] \notin Terminal
    BY <2>1, <2>2 DEF TruthInv
  <2>5. CASE k = "execute"
    BY <2>1, <2>3, <2>4, <2>5 DEF TruthInv, Settling, Kinds
  <2>6. CASE k = "poll"
    BY <2>1, <2>3, <2>4, <2>6 DEF TruthInv, Settling, Kinds
  <2> QED  BY <2>5, <2>6 DEF Kinds
<1>2. CASE HookEvent(k, r)
  <2>1. /\ pc[k][r] = "sayFailed" /\ pc'[k][r] = "failed" /\ UNCHANGED status
        /\ \A j \in Kinds \ {k} : pc'[j][r] = pc[j][r]
    BY <1>2, GotoSelf DEF HookEvent, TruthInv
  <2>2. event'[r] = "failed"
    BY <1>2, PublishAt DEF HookEvent
  <2>3. status[r] = "failed"
    BY <2>1 DEF TruthInv, Kinds
  <2>4. CASE k = "execute"
    BY <2>1, <2>2, <2>3, <2>4 DEF TruthInv, Settling, Kinds
  <2>5. CASE k = "poll"
    BY <2>1, <2>2, <2>3, <2>5 DEF TruthInv, Settling, Kinds
  <2> QED  BY <2>4, <2>5 DEF Kinds
<1>3. CASE ~HookStatus(k, r) /\ ~HookEvent(k, r)
  <2>1. /\ UNCHANGED <<status, event>>
        /\ \E j \in Kinds, p \in {"check", "waiting", "failing"} :
             /\ Goto(j, r, p)
             /\ pc[j][r] \in {"waiting"} \cup MceSteps
                  \/ (j = "execute" /\ pc[j][r] = "check")
    <3>1. CASE Pickup(k, r) \/ GiveUp(k, r)
      BY <3>1 DEF Pickup, GiveUp
    <3>2. CASE MceThrows(k, r) \/ Refuse(k, r)
      BY <3>2 DEF MceThrows, Refuse, FailAttempt, MceSteps
    <3>3. CASE DecryptFails(r)
      BY <3>3 DEF DecryptFails, FailAttempt, Kinds
    <3>4. ~(Stall(k, r) \/ PublishThrows(k, r) \/ HookDies(k, r) \/ DelayThrows(r)
              \/ DbThrows(k, r) \/ HookStatusThrows(k, r))
      BY DEF Stall, PublishThrows, HookDies, DelayThrows, DbThrows, HookStatusThrows
    <3> QED  BY <1>3, <3>1, <3>2, <3>3, <3>4 DEF JobNext, QueueStep
  <2>2. PICK j \in Kinds, p \in {"check", "waiting", "failing"} :
             /\ Goto(j, r, p)
             /\ pc[j][r] \in {"waiting"} \cup MceSteps
                  \/ (j = "execute" /\ pc[j][r] = "check")
    BY <2>1
  <2>3. CASE j = "execute"
    <3>1. pc'["execute"][r] = p /\ pc'["poll"][r] = pc["poll"][r]
      BY <2>2, <2>3, GotoAt
    <3>2. pc["poll"][r] = "none" /\ status[r] \notin Terminal
      BY <2>2, <2>3 DEF BeforePoll, SoleInv, MceSteps, RunInv, PlacesInv, ExecutePCs
    <3> QED  BY <2>1, <3>1, <3>2 DEF TruthInv, Settling, Kinds
  <2>4. CASE j = "poll"
    <3>1. pc'["execute"][r] = pc["execute"][r] /\ pc'["poll"][r] = p
      BY <2>2, <2>4, GotoAt
    <3>2. pc["poll"][r] \in Settling
      BY <2>2, <2>4 DEF Settling, MceSteps, RunInv, PlacesInv, PollPCs
    <3> QED  BY <2>1, <3>1, <3>2 DEF TruthInv, Settling, Kinds
  <2> QED  BY <2>3, <2>4 DEF Kinds
<1> QED  BY <1>1, <1>2, <1>3

LEMMA TruthExecute ==
    ASSUME TypeOK, Faults \cap {"redis", "crash", "db"} = {}, NEW r \in Runs,
           TruthInv(r), SoleInv(r), RunInv(r),
           ExecuteStep(r) \/ Resend(r) \/ PerformUnanswered(r) \/ EnqueuePollThrows(r)
    PROVE  TruthInv(r)'
<1> USE DEF apiVars, queueVars, mceVars
<1>1. CASE ExecuteCheck(r) \/ ExecuteAnnounce(r) \/ ExecutePrepare(r)
             \/ ExecuteRecord(r) \/ ExecutePerform(r)
  <2>1. PICK p \in {"mark", "prepare", "perform", "enqueue", "record"} :
            Goto("execute", r, p)
    BY <1>1 DEF ExecuteCheck, ExecuteAnnounce, ExecutePrepare, ExecuteRecord,
                ExecutePerform, SoleInv
  <2>2. UNCHANGED status /\ (event'[r] = event[r] \/ event'[r] = "progress")
    BY <1>1, PublishAt DEF ExecuteCheck, ExecuteAnnounce, ExecutePrepare, ExecuteRecord,
                           ExecutePerform
  <2>3. pc["poll"][r] = "none"
    BY <1>1 DEF ExecuteCheck, ExecuteAnnounce, ExecutePrepare, ExecuteRecord,
                ExecutePerform, SoleInv, BeforePoll
  <2>4. pc'["execute"][r] = p /\ pc'["poll"][r] = "none"
    BY <2>1, <2>3, GotoAt
  <2> QED  BY <2>2, <2>4 DEF TruthInv, Settling, Terminal, Kinds
<1>2. CASE ExecuteMark(r)
  <2>1. pc["poll"][r] = "none" /\ status[r] \notin Terminal
    BY <1>2 DEF ExecuteMark, SoleInv, BeforePoll
  <2>2. status'[r] = "running" /\ UNCHANGED event
    BY <1>2, <2>1, UpdateStatusAt DEF ExecuteMark
  <2>3. pc'["execute"][r] = "announce" /\ pc'["poll"][r] = "none"
    BY <1>2, <2>1, GotoAt DEF ExecuteMark
  <2> QED  BY <2>1, <2>2, <2>3 DEF TruthInv, Settling, Terminal, Kinds
<1>3. CASE Resend(r)
  BY <1>3 DEF Resend, TruthInv
<1>4. CASE PerformUnanswered(r)
  <2>1. /\ pc["execute"][r] = "perform" /\ UNCHANGED <<status, event>>
        /\ \E terminal \in BOOLEAN : FailAttempt("execute", r, terminal)
    BY <1>4 DEF PerformUnanswered
  <2>2. pc'["poll"][r] = pc["poll"][r] /\ pc'["execute"][r] \in {"failing", "waiting"}
    BY <2>1, FailAttemptAt DEF Kinds
  <2>3. pc["poll"][r] = "none" /\ status[r] \notin Terminal
    BY <2>1 DEF SoleInv, BeforePoll
  <2> QED  BY <2>1, <2>2, <2>3 DEF TruthInv, Settling, Kinds
<1>5. CASE EnqueuePoll(r)
  <2>1. /\ pc["poll"][r] = "none" /\ status[r] \notin Terminal
        /\ UNCHANGED <<status, event>>
    BY <1>5 DEF EnqueuePoll, SoleInv, BeforePoll
  <2>2. pc'["execute"][r] = "ack" /\ pc'["poll"][r] = "waiting"
    BY <1>5, <2>1, GotoBothAt DEF EnqueuePoll, AddPoll
  <2> QED  BY <2>1, <2>2 DEF TruthInv, Settling, Kinds
<1>6. CASE Acknowledge(r)
  BY <1>6, GotoAt DEF Acknowledge, TruthInv, Kinds
<1>7. CASE ExecuteSayCanceled(r)
  BY <1>7 DEF ExecuteSayCanceled, SoleInv, RunInv, RowInv, Kinds
<1>8. ~EnqueuePollThrows(r)
  BY DEF EnqueuePollThrows
<1> QED  BY <1>1, <1>2, <1>3, <1>4, <1>5, <1>6, <1>7, <1>8 DEF ExecuteStep

LEMMA TruthPoll ==
    ASSUME TypeOK, Faults \cap {"redis", "crash", "db"} = {}, NEW r \in Runs,
           TruthInv(r), SoleInv(r), RunInv(r),
           PollStep(r) \/ AnswerLost(r) \/ Environment(r)
    PROVE  TruthInv(r)'
<1> USE DEF apiVars, queueVars, mceVars
<1>1. CASE Environment(r)
  BY <1>1 DEF Environment, Tick, TaskEnds, TruthInv
<1>2. ~AnswerLost(r) /\ ~PollSayCanceled(r)
  BY DEF AnswerLost, PollSayCanceled, SoleInv, RunInv, RowInv, Kinds
(* From a poll that goes on to one that goes on, or leaves it all. *)
<1>3. CASE PollCheck(r) \/ AskErrored(r) \/ AskRowsFound(r) \/ AskComplete(r)
             \/ AskProcessing(r) \/ AskRunning(r) \/ AskNotRunning(r) \/ Delay(r)
             \/ SayFetching(r)
  <2>1. pc["poll"][r] \in Settling /\ UNCHANGED status
    BY <1>3 DEF PollCheck, AskErrored, AskRowsFound, AskComplete, AskProcessing,
                AskRunning, AskNotRunning, Delay, SayFetching, Settling
  <2>2. PICK p \in {"setFailed", "ask", "delay", "sayFetching", "setReady", "waiting",
                    "completed", "detached"} :
            Goto("poll", r, p)
    BY <1>3 DEF PollCheck, AskErrored, AskRowsFound, AskComplete, AskProcessing,
                AskRunning, AskNotRunning, Delay, SayFetching, PollAgain, RowsetReady,
                RowsetNotReady, SoleInv
  <2>3. event'[r] = event[r] \/ event'[r] = "progress"
    BY <1>3, PublishAt DEF PollCheck, AskErrored, AskRowsFound, AskComplete,
                AskProcessing, AskRunning, AskNotRunning, Delay, SayFetching
  <2>4. pc'["poll"][r] = p /\ pc'["execute"][r] = pc["execute"][r]
    BY <2>2, GotoAt
  <2> QED  BY <2>1, <2>3, <2>4 DEF TruthInv, Terminal, Settling, Kinds
<1>4. CASE SetFailed(r) \/ SetReady(r)
  <2>1. pc["poll"][r] \in Settling /\ UNCHANGED event
    BY <1>4 DEF SetFailed, SetReady, Settling
  <2>2. /\ status[r] \notin Terminal /\ event'[r] \notin Terminal
        /\ pc["execute"][r] \in {"ack", "completed"}
    BY <2>1 DEF TruthInv
  <2>3. /\ pc'["execute"][r] = pc["execute"][r]
        /\ \/ pc'["poll"][r] = "sayFailing" /\ status'[r] = "failed"
           \/ pc'["poll"][r] = "sayReady" /\ status'[r] = "ready"
    BY <1>4, <2>2, GotoAt, UpdateStatusAt DEF SetFailed, SetReady
  <2> QED  BY <2>2, <2>3 DEF TruthInv, Settling, Kinds
<1>5. CASE SayFailing(r) \/ SayReady(r)
  <2>1. event'[r] = status[r] /\ UNCHANGED status
    BY <1>5, PublishAt DEF SayFailing, SayReady, TruthInv
  <2>2. pc'["poll"][r] = "cleanup" /\ pc'["execute"][r] = pc["execute"][r]
    BY <1>5, GotoAt DEF SayFailing, SayReady
  <2>3. pc["execute"][r] \notin {"failing", "sayFailed"}
    BY <1>5 DEF SayFailing, SayReady, TruthInv
  <2> QED  BY <2>1, <2>2, <2>3 DEF TruthInv, Settling, Kinds
<1>6. CASE Cleanup(r)
  <2>1. /\ pc'["poll"][r] = "completed" /\ pc'["execute"][r] = pc["execute"][r]
        /\ UNCHANGED <<status, event>>
    BY <1>6, GotoAt DEF Cleanup
  <2>2. pc["execute"][r] \notin {"failing", "sayFailed"}
    BY <1>6 DEF Cleanup, TruthInv
  <2> QED  BY <2>1, <2>2 DEF TruthInv, Settling, Kinds
<1> QED  BY <1>1, <1>2, <1>3, <1>4, <1>5, <1>6 DEF PollStep

LEMMA TruthInvariant ==
    ASSUME Faults \cap {"redis", "crash", "db"} = {}, CancelRuns = {}
    PROVE  Spec => [](\A r \in Runs : SoleInv(r) /\ TruthInv(r))
<1> DEFINE Sole == \A r \in Runs : SoleInv(r)
           IInv == \A r \in Runs : TruthInv(r)
<1>1. Init => IInv
  BY DEF Init, TruthInv, Settling, Kinds, Terminal
<1>2. Sole /\ IInv => \A r \in Runs : SoleInv(r) /\ TruthInv(r)
  OBVIOUS
<1>3. Spec => []Sole
  BY SoleInvariant
<1>4. TypeOK /\ RunsInv /\ Sole /\ IInv /\ [Next]_vars => IInv'
  <2> SUFFICES ASSUME TypeOK, RunsInv, Sole, IInv, [Next]_vars, NEW q \in Runs
               PROVE  TruthInv(q)'
    OBVIOUS
  <2>1. CASE UNCHANGED vars
    <3>1. Untouched(q)
      BY <2>1 DEF vars, Untouched
    <3> QED  BY <3>1, TruthUntouched
  <2>2. CASE Next
    <3>1. PICK r \in Runs : NextOf(r)
      BY <2>2, NextCases
    <3>2. CASE q = r
      <4>1. TruthInv(r) /\ SoleInv(r) /\ RunInv(r)
        BY DEF RunsInv
      <4> QED  BY <3>1, <3>2, <4>1, TruthCreate, TruthJob, TruthExecute, TruthPoll
               DEF NextOf, Kinds
    <3>3. CASE q # r
      BY <3>1, <3>3, StepFrame, TruthUntouched
    <3> QED  BY <3>2, <3>3
  <2> QED  BY <2>1, <2>2
<1> HIDE DEF IInv, Sole
<1> QED  BY <1>1, <1>2, <1>3, <1>4, TypeCorrect, RunsInvariant, PTL DEF Spec

(* Without database and Redis failures, crashes and cancellations, however   *)
(* often MCE fails, the outcome the stream announces is the one in the row   *)
(* (shell-query.processor.ts, publishStatusEvent after markReady and          *)
(* markFailed).                                                              *)
THEOREM EventsTellTheOutcome ==
    ASSUME Faults \cap {"redis", "crash", "db"} = {}, CancelRuns = {}
    PROVE  Spec => []OutcomeEventIsTrue
<1>1. (\A r \in Runs : SoleInv(r) /\ TruthInv(r)) => OutcomeEventIsTrue
  BY DEF TruthInv, OutcomeEventIsTrue
<1> QED  BY <1>1, TruthInvariant, PTL

(* What a step publishes after the outcome is an outcome. *)
LEMMA AfterOutcome ==
    ASSUME TypeOK, Faults \cap {"redis", "crash", "db"} = {}, NEW r \in Runs,
           TruthInv(r), SoleInv(r), NextOf(r), event[r] \in Terminal
    PROVE  event'[r] \in Terminal
<1> USE DEF apiVars, queueVars, mceVars
<1>1. status[r] \in Terminal
  BY DEF TruthInv
<1>2. ~ExecuteAnnounce(r) /\ ~ExecutePrepare(r) /\ ~SayFetching(r)
  BY <1>1 DEF ExecuteAnnounce, ExecutePrepare, SayFetching, SoleInv, BeforePoll,
              TruthInv, Settling
<1>3. CASE CreateStep(r) \/ CancelStep(r) \/ InsertFails(r) \/ EnqueueFails(r)
             \/ CancelFails(r)
  BY <1>3 DEF CreateStep, CancelStep, InsertFails, EnqueueFails, CancelFails,
              AdmitRun, RejectRun, InsertRun, EnqueueExecute, CancelRead, CancelMark
<1>4. CASE ExecuteStep(r) \/ Resend(r) \/ PerformUnanswered(r) \/ EnqueuePollThrows(r)
  <2>1. event' = event \/ Publish(r, "canceled")
    BY <1>2, <1>4 DEF ExecuteStep, Resend, PerformUnanswered, EnqueuePollThrows,
              ExecuteCheck, ExecuteSayCanceled, ExecuteMark, ExecutePerform,
              ExecuteRecord, EnqueuePoll, Acknowledge
  <2> QED  BY <2>1, PublishAt DEF Terminal
<1>5. CASE PollStep(r) \/ AnswerLost(r) \/ Environment(r)
  <2>1. event' = event \/ \E e \in Terminal : Publish(r, e)
    BY <1>2, <1>5
       DEF PollStep, AnswerLost, Environment, PollCheck, PollSayCanceled, AskErrored,
           AskRowsFound, AskComplete, AskProcessing, AskRunning, AskNotRunning, Delay,
           SetFailed, SetReady, SayFailing, SayReady, Cleanup, Tick, TaskEnds, Terminal
  <2> QED  BY <2>1, PublishAt
<1>6. CASE DecryptFails(r) \/ DelayThrows(r)
  BY <1>6 DEF DecryptFails, DelayThrows
<1>7. ASSUME NEW k \in Kinds, JobNext(k, r)
      PROVE  event'[r] \in Terminal
  <2>1. event' = event \/ Publish(r, "failed")
    BY <1>7 DEF JobNext, QueueStep, Pickup, GiveUp, HookStatus, HookEvent, Stall,
                HookStatusThrows, HookDies, DbThrows, PublishThrows, MceThrows, Refuse
  <2> QED  BY <2>1, PublishAt DEF Terminal
<1> QED  BY <1>3, <1>4, <1>5, <1>6, <1>7 DEF NextOf

(* ... and no job of the run tells anything else after it (use-query-execution.ts *)
(* closes the stream at the first outcome it is shown).                          *)
THEOREM EventsEndWithTheOutcome ==
    ASSUME Faults \cap {"redis", "crash", "db"} = {}, CancelRuns = {}
    PROVE  Spec => OutcomeEventIsLast
<1> DEFINE Truth == \A r \in Runs : SoleInv(r) /\ TruthInv(r)
           Kept == \A r \in Runs : status[r] \in Terminal /\ status'[r] # status[r]
                                     => status'[r] = "canceled" /\ cancel[r] = "marking"
           Last == \A r \in Runs : event[r] \in Terminal => event'[r] = event[r]
<1>1. ASSUME TypeOK, Truth, Truth', Next, [Kept]_vars
      PROVE  [Last]_vars
  <2> SUFFICES ASSUME NEW q \in Runs, event[q] \in Terminal, vars' # vars
               PROVE  event'[q] = event[q]
    OBVIOUS
  <2>1. PICK r \in Runs : NextOf(r)
    BY <1>1, NextCases
  <2>2. CASE q # r
    BY <1>1, <2>1, <2>2, StepFrame DEF Untouched
  <2>3. CASE q = r
    <3>1. event'[q] \in Terminal
      BY <1>1, <2>1, <2>3, AfterOutcome
    <3>2. event[q] = status[q] /\ event'[q] = status'[q]
      BY <1>1, <3>1 DEF TruthInv
    <3>3. status'[q] = status[q]
      BY <1>1, <3>2 DEF SoleInv
    <3> QED  BY <3>2, <3>3
  <2> QED  BY <2>2, <2>3
<1>2. TypeOK /\ Truth /\ Truth' /\ [Next]_vars /\ [Kept]_vars => [Last]_vars
  BY <1>1
<1>3. Spec => []Truth
  BY TruthInvariant
<1>4. Spec => [][Kept]_vars
  BY OutcomeIsKept DEF OutcomeKept
<1>5. [][Last]_vars => OutcomeEventIsLast
  BY DEF OutcomeEventIsLast
<1> HIDE DEF Truth, Kept, Last
<1> QED  BY <1>2, <1>3, <1>4, <1>5, TypeCorrect, PTL DEF Spec
=============================================================================
