------------------------- MODULE SharedQueryDefinition -------------------------
(* The query definition of a user in Marketing Cloud (MCE).  All runs of a    *)
(* user give it the same key; each run deletes what has the key, creates its  *)
(* own and performs it by the id it was given.  The poll job asks about that  *)
(* id and, if MCE does not know it any more, about the key; a job that ends   *)
(* deletes the definition, and an hourly sweep what is left in the folder.    *)
(*                                                                            *)
(* Handlers are cut at the calls to MCE and to tenant_settings.  Statuses and *)
(* the queue are those of ShellQueryRun, reduced to what matters here.        *)
EXTENDS Integers, Sequences, FiniteSets

CONSTANTS
    Runs,           \* runs of one user
    None,           \* no run
    Attempts,       \* attempts each run's execute job has left, of 2
    Confirmations,  \* POLL_CONFIG.NOT_RUNNING_CONFIRMATIONS: 2
    MaxFailures,    \* bound: failures of the runs
    MaxFolders,     \* bound: folders created
    Faults          \* the kinds of failure that may happen

ASSUME SetsAssumption == None \notin Runs /\ IsFiniteSet(Runs)
ASSUME NumbersAssumption ==
    /\ Attempts \in [Runs -> Nat \ {0}] /\ Confirmations \in Nat \ {0}
    /\ MaxFailures \in Nat /\ MaxFolders \in Nat \ {0}
ASSUME FaultsAssumption == Faults \subseteq {"mce", "crash"}

VARIABLES
    settings,   \* tenant_settings.qppFolderId, 0 if there is none
    folders,    \* MCE: number of folders "QueryPlusPlus Results"
    defs,       \* MCE: the definitions ever created
    live,       \* MCE: the one that has the key, 0 if none
    exec,       \* how far the execute job of each run is
    poll,       \* how far its poll job is
    tries,      \* failed attempts of the execute job
    folder,     \* the folder it found
    found,      \* the definition it looked up under the key
    mine,       \* the definition it created
    watched,    \* the poll job's queryDefinitionId
    stopped,    \* the poll job's notRunningConfirmations
    status,     \* the run's row: open, ready or failed
    swept,      \* the definition the sweep is about to delete, 0 if none
    failures,   \* number of failures so far
    crowded,    \* history: runs that were beside another one
    repeated,   \* history: runs executed again after their poll job was added
    deaf        \* history: runs whose look-up or deletion failed unnoticed

mceVars     == <<folders, defs, live>>
executeVars == <<tries, folder, found, mine>>
pollVars    == <<poll, watched, stopped>>
historyVars == <<crowded, repeated, deaf>>
vars == <<settings, mceVars, exec, executeVars, pollVars, status, swept, failures,
          historyVars>>

Init ==
    /\ settings = 0 /\ folders = 0 /\ defs = <<>> /\ live = 0
    /\ exec = [r \in Runs |-> "idle"]
    /\ poll = [r \in Runs |-> "none"]
    /\ tries = [r \in Runs |-> 0]
    /\ folder = [r \in Runs |-> 0]
    /\ found = [r \in Runs |-> 0]
    /\ mine = [r \in Runs |-> 0]
    /\ watched = [r \in Runs |-> 0]
    /\ stopped = [r \in Runs |-> 0]
    /\ status = [r \in Runs |-> "open"]
    /\ swept = 0 /\ failures = 0
    /\ crowded = {} /\ repeated = {} /\ deaf = {}

Step(r, from, to) == exec[r] = from /\ exec' = [exec EXCEPT ![r] = to]
Fault(f) == f \in Faults /\ failures < MaxFailures /\ failures' = failures + 1

Executing(r)  == exec[r] \notin {"idle", "end"}
InProgress(r) == Executing(r) \/ poll[r] \notin {"none", "end"}

(* MCE deletes by id: an id that is gone is an error nobody looks at. *)
Delete(d) == live' = IF live = d THEN 0 ELSE live
-----------------------------------------------------------------------------
(* execute: the folder *)

Begin(r) ==
    LET others == {s \in Runs \ {r} : InProgress(s)}
    IN /\ Step(r, "idle", "settings")
       /\ crowded' = crowded \cup others \cup {s \in {r} : others # {}}
       /\ UNCHANGED <<settings, mceVars, executeVars, pollVars, status, swept, failures,
                      repeated, deaf>>

(* The folder stored, else one that is there, else a new one. *)
FindFolder(r) ==
    /\ Step(r, "settings", IF settings # 0 THEN "lookup"
                           ELSE IF folders # 0 THEN "store" ELSE "make")
    /\ \E f \in IF settings # 0 \/ folders = 0 THEN {settings} ELSE 1 .. folders :
         folder' = [folder EXCEPT ![r] = f]
    /\ UNCHANGED <<settings, mceVars, tries, found, mine, pollVars, status, swept, failures,
                   historyVars>>

MakeFolder(r) ==
    /\ folders < MaxFolders
    /\ Step(r, "make", "store")
    /\ folders' = folders + 1
    /\ folder' = [folder EXCEPT ![r] = folders']
    /\ UNCHANGED <<settings, defs, live, tries, found, mine, pollVars, status, swept,
                   failures, historyVars>>

StoreFolder(r) ==
    /\ Step(r, "store", "lookup")
    /\ settings' = folder[r]
    /\ UNCHANGED <<mceVars, executeVars, pollVars, status, swept, failures, historyVars>>
-----------------------------------------------------------------------------
(* execute: the definition *)

Lookup(r) ==
    /\ Step(r, "lookup", IF live # 0 THEN "drop" ELSE "create")
    /\ found' = [found EXCEPT ![r] = live]
    /\ UNCHANGED <<settings, mceVars, tries, folder, mine, pollVars, status, swept, failures,
                   historyVars>>

Mutant_OldOneStays(r) ==
    /\ Step(r, "drop", "create")
    /\ UNCHANGED <<settings, mceVars, executeVars, pollVars, status, swept, failures,
                   historyVars>>

Drop(r) ==
    /\ Step(r, "drop", "create")
    /\ Delete(found[r])
    /\ found' = [found EXCEPT ![r] = 0]
    /\ UNCHANGED <<settings, folders, defs, tries, folder, mine, pollVars, status, swept,
                   failures, historyVars>>

(* What a handler knows ends with it. *)
Forget(r) ==
    /\ folder' = [folder EXCEPT ![r] = 0]
    /\ found' = [found EXCEPT ![r] = 0]
    /\ mine' = [mine EXCEPT ![r] = 0]

(* The attempt fails: another one, or the failed-job hook. *)
FailAttempt(r) ==
    LET last == tries[r] + 1 >= Attempts[r]
    IN /\ Forget(r)
       /\ tries' = [tries EXCEPT ![r] = IF last THEN 0 ELSE @ + 1]
       /\ exec' = [exec EXCEPT ![r] = IF last THEN "hookLookup" ELSE "settings"]
       /\ status' = [status EXCEPT ![r] = IF last /\ @ = "open" THEN "failed" ELSE @]
       /\ UNCHANGED <<settings, pollVars, swept>>

NewDefinition(r) ==
    /\ defs' = Append(defs, [maker |-> r, folder |-> folder[r], by |-> None,
                             task |-> "none", old |-> FALSE])
    /\ live' = Len(defs')
    /\ UNCHANGED folders

(* Keys are unique in MCE. *)
Create(r) ==
    /\ exec[r] = "create"
    /\ \/ /\ live = 0
          /\ NewDefinition(r)
          /\ mine' = [mine EXCEPT ![r] = live']
          /\ Step(r, "create", "perform")
          /\ UNCHANGED <<settings, tries, folder, found, pollVars, status, swept,
                         historyVars>>
       \/ /\ live # 0
          /\ FailAttempt(r)
          /\ UNCHANGED <<mceVars, historyVars>>
    /\ UNCHANGED failures

Mutant_WhateverHasTheKey(r) == live

Performed(r) == mine[r]

Perform(r) ==
    LET d == Performed(r)
    IN /\ exec[r] = "perform"
       /\ \/ /\ live = d /\ d # 0
             /\ defs' = [defs EXCEPT ![d].by = r, ![d].task = "running"]
             /\ Step(r, "perform", "enqueue")
             /\ UNCHANGED <<settings, executeVars, pollVars, status, swept, historyVars>>
          \/ /\ live # d
             /\ FailAttempt(r)
             /\ UNCHANGED <<defs, historyVars>>
       /\ UNCHANGED <<folders, live, failures>>

(* queue.add has no effect if the poll job is there from an earlier attempt. *)
EnqueuePoll(r) ==
    /\ Step(r, "enqueue", "ack")
    /\ IF poll[r] = "none"
         THEN /\ poll' = [poll EXCEPT ![r] = "byId"]
              /\ watched' = [watched EXCEPT ![r] = mine[r]]
         ELSE UNCHANGED <<poll, watched>>
    /\ Forget(r)
    /\ UNCHANGED <<settings, mceVars, tries, stopped, status, swept, failures,
                   historyVars>>

Acknowledge(r) ==
    /\ Step(r, "ack", "end")
    /\ tries' = [tries EXCEPT ![r] = 0]
    /\ UNCHANGED <<settings, mceVars, folder, found, mine, pollVars, status, swept, failures,
                   historyVars>>

(* The failed-job hook of the execute job knows no id: it deletes what it     *)
(* finds under the key.                                                       *)
HookLookup(r) ==
    /\ Step(r, "hookLookup", IF live # 0 THEN "hookDrop" ELSE "end")
    /\ found' = [found EXCEPT ![r] = live]
    /\ UNCHANGED <<settings, mceVars, tries, folder, mine, pollVars, status, swept, failures,
                   historyVars>>

HookDrop(r) ==
    /\ Step(r, "hookDrop", "end")
    /\ Delete(found[r])
    /\ found' = [found EXCEPT ![r] = 0]
    /\ UNCHANGED <<settings, folders, defs, tries, folder, mine, pollVars, status, swept,
                   failures, historyVars>>
-----------------------------------------------------------------------------
(* execute: failures *)

(* A call to MCE throws, and only the look-up and the deletion of the old     *)
(* definition are forgiven...                                                 *)
MceThrows(r) ==
    /\ Fault("mce")
    /\ exec[r] \in {"settings", "make", "create", "perform"}
    /\ FailAttempt(r)
    /\ UNCHANGED <<mceVars, historyVars>>

OldOneSurvives(r) ==
    /\ Fault("mce")
    /\ \/ Step(r, "lookup", "create") \/ Step(r, "drop", "create")
       \/ Step(r, "hookLookup", "end") \/ Step(r, "hookDrop", "end")
    /\ found' = [found EXCEPT ![r] = 0]
    /\ deaf' = IF exec[r] \in {"lookup", "drop"} THEN deaf \cup {r} ELSE deaf
    /\ UNCHANGED <<settings, mceVars, tries, folder, mine, pollVars, status, swept, crowded,
                   repeated>>

(* ... or the definition is created and the answer lost. *)
CreateUnanswered(r) ==
    /\ Fault("mce")
    /\ exec[r] = "create" /\ live = 0
    /\ NewDefinition(r)
    /\ FailAttempt(r)
    /\ UNCHANGED historyVars

(* The worker dies, and the stalled job is executed from the beginning. *)
Crash(r) ==
    /\ Fault("crash")
    /\ exec[r] \in {"make", "store", "lookup", "drop", "create", "perform",
                    "enqueue", "ack"}
    /\ exec' = [exec EXCEPT ![r] = "settings"]
    /\ Forget(r)
    /\ repeated' = IF poll[r] # "none" THEN repeated \cup {r} ELSE repeated
    /\ UNCHANGED <<settings, mceVars, tries, pollVars, status, swept, crowded, deaf>>
-----------------------------------------------------------------------------
(* poll *)

executeAndMceVars == <<settings, mceVars, exec, executeVars, swept, historyVars>>

Running(d) == defs[d].task = "running"

(* markReady or markFailed. *)
Settle(r, s) ==
    /\ poll' = [poll EXCEPT ![r] = "cleanup"]
    /\ status' = [status EXCEPT ![r] = IF @ = "open" THEN s ELSE @]
    /\ stopped' = [stopped EXCEPT ![r] = 0]

Mutant_AnyAnswerCounts(r, running) ==
    IF stopped[r] + 1 >= Confirmations
      THEN Settle(r, "ready")
      ELSE /\ poll' = [poll EXCEPT ![r] = "byId"]
           /\ stopped' = [stopped EXCEPT ![r] = @ + 1]
           /\ UNCHANGED status

Heard(r, running) ==
    IF ~running /\ stopped[r] + 1 >= Confirmations
      THEN Settle(r, "ready")
      ELSE /\ poll' = [poll EXCEPT ![r] = "byId"]
           /\ stopped' = [stopped EXCEPT ![r] = IF running THEN 0 ELSE @ + 1]
           /\ UNCHANGED status

(* isRunning of the id; MCE answers 400 if it does not know it... *)
AskById(r) ==
    /\ poll[r] = "byId"
    /\ IF live = watched[r]
         THEN Heard(r, Running(watched[r]))
         ELSE /\ poll' = [poll EXCEPT ![r] = "byKey"]
              /\ UNCHANGED <<stopped, status>>
    /\ UNCHANGED <<executeAndMceVars, watched, failures>>

(* ... and of the key, which any run of the user may have by now.  Two 400s   *)
(* count as running.                                                          *)
AskByKey(r) ==
    /\ poll[r] = "byKey"
    /\ Heard(r, live = 0 \/ Running(live))
    /\ UNCHANGED <<executeAndMceVars, watched, failures>>

(* SOAP reports the task complete. *)
AskComplete(r) ==
    /\ poll[r] = "byId"
    /\ defs[watched[r]].task = "over"
    /\ Settle(r, "ready")
    /\ UNCHANGED <<executeAndMceVars, watched, failures>>

(* Canceled, timed out, out of polls, or the task has an error. *)
MarkFailed(r) ==
    /\ poll[r] = "byId"
    /\ Settle(r, "failed")
    /\ UNCHANGED <<executeAndMceVars, watched, failures>>

Mutant_DeletesByKey(r) == Delete(live)

CleanUp(r) == Delete(watched[r])

Cleanup(r) ==
    /\ poll[r] = "cleanup"
    /\ poll' = [poll EXCEPT ![r] = "end"]
    /\ CleanUp(r)
    /\ watched' = [watched EXCEPT ![r] = 0]
    /\ UNCHANGED <<settings, folders, defs, exec, executeVars, stopped, status, swept,
                   failures, historyVars>>

CleanupFails(r) ==
    /\ Fault("mce")
    /\ poll[r] = "cleanup"
    /\ poll' = [poll EXCEPT ![r] = "end"]
    /\ watched' = [watched EXCEPT ![r] = 0]
    /\ UNCHANGED <<executeAndMceVars, stopped, status>>
-----------------------------------------------------------------------------
(* Marketing Cloud, time and the sweep *)

(* (the end of a task that nobody can ask about any more is left out) *)
TaskEnds(d) ==
    /\ Running(d)
    /\ d \in {live} \cup {watched[r] : r \in Runs}
    /\ defs' = [defs EXCEPT ![d].task = "over"]
    /\ UNCHANGED <<settings, folders, live, exec, executeVars, pollVars, status, swept,
                   failures, historyVars>>

(* A day passes.  No run takes one: MAX_DURATION_MS is 29 minutes. *)
Day ==
    /\ live # 0 /\ ~defs[live].old
    /\ \A r \in Runs : ~InProgress(r)
    /\ defs' = [defs EXCEPT ![live].old = TRUE]
    /\ UNCHANGED <<settings, folders, live, exec, executeVars, pollVars, status, swept,
                   failures, historyVars>>

Mutant_SweepsTheYoung == live # 0 /\ ~defs[live].old /\ defs[live].folder = settings

ToSweep == live # 0 /\ defs[live].old /\ defs[live].folder = settings

SweepLists ==
    /\ swept = 0 /\ ToSweep
    /\ swept' = live
    /\ UNCHANGED <<settings, mceVars, exec, executeVars, pollVars, status, failures,
                   historyVars>>

SweepDeletes ==
    /\ swept # 0
    /\ Delete(swept)
    /\ swept' = 0
    /\ UNCHANGED <<settings, folders, defs, exec, executeVars, pollVars, status, failures,
                   historyVars>>

(* The bound leaves the sweep a failure of its own: what it deletes is there  *)
(* because of another one.                                                    *)
SweepFails ==
    /\ "mce" \in Faults /\ failures <= MaxFailures
    /\ swept # 0
    /\ swept' = 0
    /\ failures' = MaxFailures + 1
    /\ UNCHANGED <<settings, mceVars, exec, executeVars, pollVars, status, historyVars>>
-----------------------------------------------------------------------------
ExecuteStep(r) ==
    \/ FindFolder(r) \/ MakeFolder(r) \/ StoreFolder(r)
    \/ Lookup(r) \/ Drop(r) \/ Create(r) \/ Perform(r) \/ EnqueuePoll(r) \/ Acknowledge(r)
    \/ HookLookup(r) \/ HookDrop(r)
PollStep(r) ==
    \/ AskById(r) \/ AskByKey(r) \/ AskComplete(r) \/ MarkFailed(r) \/ Cleanup(r)
FaultStep(r) ==
    \/ MceThrows(r) \/ OldOneSurvives(r) \/ CreateUnanswered(r) \/ Crash(r)
    \/ CleanupFails(r)
SweepStep == SweepLists \/ SweepDeletes

Next ==
    \/ \E r \in Runs : Begin(r) \/ ExecuteStep(r) \/ PollStep(r) \/ FaultStep(r)
    \/ \E d \in 1 .. Len(defs) : TaskEnds(d)
    \/ Day \/ SweepStep \/ SweepFails

Spec == Init /\ [][Next]_vars

(* Jobs go on and the poll budget ends every poll job (ShellQueryRun has the  *)
(* details), time passes and the sweep comes round every hour.                *)
FairSpec ==
    /\ Spec /\ WF_vars(Day) /\ WF_vars(SweepStep)
    /\ \A r \in Runs : /\ WF_vars(ExecuteStep(r))
                       /\ WF_vars(AskByKey(r) \/ Cleanup(r))
                       /\ SF_vars(MarkFailed(r))
-----------------------------------------------------------------------------
Definitions ==
    [maker : Runs, folder : 1 .. MaxFolders, by : Runs \cup {None},
     task : {"none", "running", "over"}, old : BOOLEAN]

(* What the variables range over; live, found, mine, watched and swept name   *)
(* definitions that exist, or none.                                           *)
TypeOK ==
    LET Ids == 0 .. Len(defs)
    IN /\ settings \in 0 .. folders /\ folders \in 0 .. MaxFolders
       /\ defs \in Seq(Definitions) /\ live \in Ids /\ swept \in Ids
       /\ exec \in [Runs -> {"idle", "settings", "make", "store", "lookup", "drop",
                             "create", "perform", "enqueue", "ack", "hookLookup",
                             "hookDrop", "end"}]
       /\ poll \in [Runs -> {"none", "byId", "byKey", "cleanup", "end"}]
       /\ \A r \in Runs : tries[r] \in 0 .. Attempts[r] - 1
       /\ folder \in [Runs -> 0 .. MaxFolders]
       /\ found \in [Runs -> Ids] /\ mine \in [Runs -> Ids] /\ watched \in [Runs -> Ids]
       /\ stopped \in [Runs -> 0 .. Confirmations - 1]
       /\ status \in [Runs -> {"open", "ready", "failed"}]
       /\ failures \in 0 .. MaxFailures + 1
       /\ \A h \in {crowded, repeated, deaf} : h \subseteq Runs

(* Whatever the runs do to each other's definitions, a run never starts       *)
(* another run's query, whose rows would go to the other's data extension:    *)
(* it performs the id it was given and not the key.                           *)
OwnQueryPerformed ==
    \A d \in 1 .. Len(defs) :
      LET def == defs[d] IN def.task # "none" => def.by = def.maker

(* MCE refuses a definition (its key is taken) or a Perform (the definition   *)
(* is gone) only to runs that were beside another run of the user, or whose   *)
(* deletion of the old definition failed unnoticed: what earlier attempts and *)
(* earlier runs left behind is no obstacle.                                   *)
RefusedForAReason ==
    \A r \in Runs \ (crowded \cup deaf) :
      /\ exec[r] = "create" => live = 0
      /\ exec[r] = "perform" => live = mine[r]

(* A run is not ready before its task is over, unless it was beside another   *)
(* run of the user, or was executed again while its poll job was there: then  *)
(* isRunning, asked about the key, may have told of another definition.       *)
ReadyIsOver ==
    \A r \in Runs \ (crowded \cup repeated) :
      status[r] = "ready" /\ poll[r] = "cleanup" => ~Running(watched[r])

(* The end of a run deletes no other run's definition, although all have the  *)
(* same key and the run's own may be long gone.  (The beginning of a run and   *)
(* the failed-job hook do delete it.)                                         *)
OthersAreSpared ==
    [][\A r \in Runs :
         poll[r] = "cleanup" /\ poll'[r] = "end" /\ live' # live
           => defs[live].maker = r]_vars

Leftover ==
    live # 0 /\ ~InProgress(defs[live].maker) /\ defs[live].folder = settings

(* A definition that nobody deleted at the end of its run does not stay: the  *)
(* next run or the sweep removes it, unless it is in a folder that another    *)
(* first run's folder replaced in tenant_settings.                            *)
LeftoversGo == Leftover ~> ~Leftover
=============================================================================
