---------------------------- MODULE RunLifecycle ----------------------------
(* What a shell query run promises to the API and to its user, with neither  *)
(* the queue, the worker nor the transport in sight: the life of one row of  *)
(* shell_query_runs (phase) and how often its query was sent to Marketing    *)
(* Cloud (sent).  ShellQueryRun is shown to implement it.                    *)
EXTENDS Naturals

CONSTANT Runs

VARIABLES phase, sent

Phases   == {"absent", "queued", "running", "ready", "failed", "canceled"}
Live     == {"queued", "running"}
Terminal == {"ready", "failed", "canceled"}

vars == <<phase, sent>>

Init == /\ phase = [r \in Runs |-> "absent"]
        /\ sent = [r \in Runs |-> 0]

(* A run is accepted: its row is inserted as queued. *)
Submit(r) == /\ phase[r] = "absent"
             /\ phase' = [phase EXCEPT ![r] = "queued"]
             /\ UNCHANGED sent

Begin(r) == /\ phase[r] = "queued"
            /\ phase' = [phase EXCEPT ![r] = "running"]
            /\ UNCHANGED sent

(* The query goes out, never before the run was begun.  It may go out again, *)
(* even for a run that is over.                                              *)
Send(r) == /\ phase[r] \notin {"absent", "queued"}
           /\ sent' = [sent EXCEPT ![r] = @ + 1]
           /\ UNCHANGED phase

(* A run is ready only if its query was sent. *)
Finish(r) == /\ phase[r] = "running"
             /\ sent[r] > 0
             /\ phase' = [phase EXCEPT ![r] = "ready"]
             /\ UNCHANGED sent

Fail(r) == /\ phase[r] \in Live
           /\ phase' = [phase EXCEPT ![r] = "failed"]
           /\ UNCHANGED sent

(* The one step that may overwrite an outcome: the code that cancels reads   *)
(* the phase first and writes it later, without looking again.               *)
Cancel(r) == /\ phase[r] # "absent"
             /\ phase' = [phase EXCEPT ![r] = "canceled"]
             /\ UNCHANGED sent

Next == \E r \in Runs : \/ Submit(r) \/ Begin(r) \/ Send(r)
                        \/ Finish(r) \/ Fail(r) \/ Cancel(r)

Spec == Init /\ [][Next]_vars
=============================================================================
