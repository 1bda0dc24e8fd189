------------------------------- MODULE MceTokens -------------------------------
(* The tokens of one user of one business unit: the row in credentials, the   *)
(* refresh that AuthService serialises within a process, MceBridge's second   *)
(* attempt after a rejected token, and the connections all of them take from  *)
(* the process's pool.                                                        *)
(*                                                                            *)
(* A request of the API, or a job of the worker, runs in a context that keeps *)
(* one connection to the end; writing the credentials takes a second one.     *)
(* Calls are cut at their awaits.  MCE itself is external: a refresh token is *)
(* good for one refresh.                                                      *)
EXTENDS Integers, FiniteSets

CONSTANTS
    Procs,      \* processes: the API and the worker
    Api,        \* those whose request hook stops waiting for a connection
    Callers,    \* requests and jobs of the user at the same time
    None,       \* no caller
    Pool,       \* DB_POOL_SIZE: connections of a process
    MaxCalls,   \* bound: calls of a caller
    MaxFailures, \* bound: failures
    Faults      \* the kinds of failure that may happen

ASSUME SetsAssumption == /\ None \notin Callers /\ IsFiniteSet(Callers)
                         /\ Procs # {} /\ Api \subseteq Procs
ASSUME NumbersAssumption == /\ Pool \in [Procs -> Nat \ {0}]
                            /\ MaxCalls \in Nat /\ MaxFailures \in Nat
ASSUME FaultsAssumption == Faults \subseteq {"slow", "lost", "db", "crash"}

VARIABLES
    wallet,     \* the credentials row: the pair of tokens, and whether expires_at is
                \* ahead
    good,       \* MCE: refresh tokens it would take
    live,       \* MCE: access tokens it would take
    issued,     \* MCE: number of pairs issued; a pair has one number
    lock,       \* refreshLocks: the caller whose refresh is going on in each process
    pc,         \* how far each caller is
    proc,       \* the process it is in
    kind,       \* "rest" or "soap" call, or a login
    force,      \* whether the caller is at its second attempt
    token,      \* the access token it calls MCE with, the pair it has to save
    copy,       \* the pair it read
    refused,    \* the access token of its first attempt
    calls,      \* number of its calls
    free,       \* connections in each process's pool
    late,       \* reserves of the request hook that nobody waits for any more
    leaked,     \* connections granted to them
    failures,   \* number of failures so far
    lost        \* history: the ways in which a newer pair did not stay in the row

mceVars  == <<good, live, issued>>
callVars == <<pc, proc, kind, force, token, copy, refused, calls>>
poolVars == <<free, late, leaked>>
vars == <<wallet, mceVars, lock, callVars, poolVars, failures, lost>>

Init ==
    /\ wallet = [pair |-> 1, fresh |-> TRUE]
    /\ good = {1} /\ live = {1} /\ issued = 1
    /\ lock = [p \in Procs |-> None]
    /\ pc = [c \in Callers |-> "idle"]
    /\ proc = [c \in Callers |-> CHOOSE p \in Procs : TRUE]
    /\ kind = [c \in Callers |-> "rest"]
    /\ force = [c \in Callers |-> FALSE]
    /\ token = [c \in Callers |-> 0]
    /\ copy = [c \in Callers |-> 0]
    /\ refused = [c \in Callers |-> 0]
    /\ calls = [c \in Callers |-> 0]
    /\ free = Pool
    /\ late = [p \in Procs |-> 0]
    /\ leaked = [p \in Procs |-> 0]
    /\ failures = 0 /\ lost = {}

Goto(c, p) == pc' = [pc EXCEPT ![c] = p]
Step(c, from, to) == pc[c] = from /\ Goto(c, to)

Take(p)    == free[p] > 0 /\ free' = [free EXCEPT ![p] = @ - 1]
Release(p) == free' = [free EXCEPT ![p] = @ + 1]
-----------------------------------------------------------------------------
(* A call *)

(* The context of the request or the job needs a connection. *)
Arrive(c, p, k) ==
    /\ calls[c] < MaxCalls
    /\ Step(c, "idle", "reserving")
    /\ proc' = [proc EXCEPT ![c] = p]
    /\ kind' = [kind EXCEPT ![c] = k]
    /\ calls' = [calls EXCEPT ![c] = @ + 1]
    /\ UNCHANGED <<wallet, mceVars, lock, force, token, copy, refused, poolVars,
                   failures, lost>>

Reserve(c) ==
    /\ Take(proc[c])
    /\ Step(c, "reserving", "ask")
    /\ UNCHANGED <<wallet, mceVars, lock, proc, kind, force, token, copy, refused, calls,
                   late, leaked, failures, lost>>

(* A login has no context and asks MCE for a pair of its own. *)
Login(c, p) ==
    /\ p \in Api
    /\ calls[c] < MaxCalls
    /\ Step(c, "idle", "save")
    /\ proc' = [proc EXCEPT ![c] = p]
    /\ kind' = [kind EXCEPT ![c] = "login"]
    /\ calls' = [calls EXCEPT ![c] = @ + 1]
    /\ issued' = issued + 1
    /\ good' = good \cup {issued'} /\ live' = live \cup {issued'}
    /\ token' = [token EXCEPT ![c] = issued']
    /\ UNCHANGED <<wallet, lock, force, copy, refused, poolVars, failures, lost>>

(* The end of a request or a job, well or not. *)
End(c) ==
    /\ Release(proc[c])
    /\ Goto(c, "idle")
    /\ force' = [force EXCEPT ![c] = FALSE]
    /\ token' = [token EXCEPT ![c] = 0]
    /\ copy' = [copy EXCEPT ![c] = 0]
    /\ refused' = [refused EXCEPT ![c] = 0]
    /\ kind' = [kind EXCEPT ![c] = "rest"]
    /\ UNCHANGED <<proc, calls, late, leaked>>
-----------------------------------------------------------------------------
(* refreshToken: one refresh at a time in a process *)

Mutant_ForcedDoesNotWait(c) ==
    /\ \/ /\ lock[proc[c]] = None \/ force[c]
          /\ Step(c, "ask", "read")
          /\ lock' = [lock EXCEPT ![proc[c]] = c]
       \/ /\ lock[proc[c]] # None /\ ~force[c]
          /\ Step(c, "ask", "wait")
          /\ UNCHANGED lock
    /\ UNCHANGED <<wallet, mceVars, proc, kind, force, token, copy, refused, calls, poolVars,
                   failures, lost>>

Ask(c) ==
    /\ \/ /\ lock[proc[c]] = None
          /\ Step(c, "ask", "read")
          /\ lock' = [lock EXCEPT ![proc[c]] = c]
       \/ /\ lock[proc[c]] # None
          /\ Step(c, "ask", "wait")
          /\ UNCHANGED lock
    /\ UNCHANGED <<wallet, mceVars, proc, kind, force, token, copy, refused, calls, poolVars,
                   failures, lost>>

(* The callers the refresh of c is for: itself and those that wait for it.   *)
Served(c) == {c} \cup {d \in Callers : pc[d] = "wait" /\ proc[d] = proc[c]}

Unlock(c) == lock' = [lock EXCEPT ![proc[c]] = None]

Mutant_AnyResultWillDo(c, t, did) ==
    /\ Unlock(c)
    /\ pc' = [d \in Callers |-> IF d \in Served(c) THEN "call" ELSE pc[d]]
    /\ token' = [d \in Callers |-> IF d \in Served(c) THEN t ELSE token[d]]

(* The refresh gives a token; who waits for a forced refresh takes it only   *)
(* if there was one, and otherwise asks again.                               *)
Resolve(c, t, did) ==
    LET takes == {d \in Served(c) : d = c \/ did \/ ~force[d]}
    IN /\ Unlock(c)
       /\ pc' = [d \in Callers |-> IF d \in takes THEN "call"
                                   ELSE IF d \in Served(c) THEN "ask" ELSE pc[d]]
       /\ token' = [d \in Callers |-> IF d \in takes THEN t ELSE token[d]]

Mutant_LockKept(c) ==
    /\ UNCHANGED lock
    /\ pc' = [d \in Callers |-> IF d \in Served(c) THEN "expired" ELSE pc[d]]
    /\ token' = [token EXCEPT ![c] = 0]

(* The refresh fails for all of them. *)
Reject(c) ==
    /\ Unlock(c)
    /\ pc' = [d \in Callers |-> IF d \in Served(c) THEN "expired" ELSE pc[d]]
    /\ token' = [token EXCEPT ![c] = 0]

(* refreshTokenInternal reads the credentials, and the tenant ... *)
Read(c) ==
    /\ pc[c] = "read"
    /\ Goto(c, IF ~force[c] /\ wallet.fresh THEN "found" ELSE "post")
    /\ copy' = [copy EXCEPT ![c] = wallet.pair]
    /\ UNCHANGED <<wallet, mceVars, lock, proc, kind, force, token, refused, calls, poolVars,
                   failures, lost>>

(* ... and gives the access token if it has not expired, or ... *)
Found(c) ==
    /\ pc[c] = "found"
    /\ Resolve(c, copy[c], FALSE)
    /\ UNCHANGED <<wallet, mceVars, proc, kind, force, copy, refused, calls, poolVars,
                   failures, lost>>

(* MCE takes a good refresh token and issues the next pair. *)
Issue(r) ==
    /\ issued' = issued + 1
    /\ good' = (good \ {r}) \cup {issued'}
    /\ live' = live \cup {issued'}

Mutant_NotSaved(c) ==
    /\ pc[c] = "post"
    /\ IF copy[c] \in good
       THEN Issue(copy[c]) /\ Resolve(c, issued', TRUE)
       ELSE Reject(c) /\ UNCHANGED mceVars
    /\ UNCHANGED <<wallet, proc, kind, force, copy, refused, calls, poolVars, failures, lost>>

(* ... posts the refresh token, *)
Post(c) ==
    /\ pc[c] = "post"
    /\ IF copy[c] \in good
       THEN /\ Issue(copy[c])
            /\ Goto(c, "save")
            /\ token' = [token EXCEPT ![c] = issued']
            /\ UNCHANGED lock
       ELSE Reject(c) /\ UNCHANGED mceVars
    /\ UNCHANGED <<wallet, proc, kind, force, copy, refused, calls, poolVars, failures, lost>>

(* saveTokens: a transaction on a connection of its own, *)
ReserveSecond(c) ==
    /\ \/ Step(c, "save", "saving")
       \/ Step(c, "invalidate", "invalidating")
    /\ Take(proc[c])
    /\ UNCHANGED <<wallet, mceVars, lock, proc, kind, force, token, copy, refused, calls,
                   late, leaked, failures, lost>>

(* ... and saves the new pair; a login saves its own and is done. *)
Save(c) ==
    /\ pc[c] = "saving"
    /\ wallet' = [pair |-> token[c], fresh |-> TRUE]
    /\ Release(proc[c])
    /\ IF kind[c] = "login"
       THEN /\ Goto(c, "idle")
            /\ token' = [token EXCEPT ![c] = 0]
            /\ kind' = [kind EXCEPT ![c] = "rest"]
            /\ UNCHANGED lock
       ELSE Resolve(c, token[c], TRUE) /\ UNCHANGED kind
    /\ UNCHANGED <<mceVars, proc, force, copy, refused, calls, late, leaked, failures, lost>>
-----------------------------------------------------------------------------
(* request and soapRequest: a rejected token is invalidated and replaced     *)

(* The first attempt of a REST call that failed for the token's sake, and of *)
(* a SOAP call if MCE said so, is followed by a second one.                  *)
Call(c) ==
    /\ pc[c] = "call"
    /\ IF token[c] \notin live /\ ~force[c]
       THEN /\ Goto(c, "look")
            /\ refused' = [refused EXCEPT ![c] = token[c]]
            /\ UNCHANGED <<proc, kind, force, token, copy, calls, poolVars>>
       ELSE End(c)
    /\ UNCHANGED <<wallet, mceVars, lock, failures, lost>>

Expired(c) ==
    /\ pc[c] = "expired"
    /\ IF kind[c] = "rest" /\ ~force[c]
       THEN /\ Goto(c, "look")
            /\ UNCHANGED <<proc, kind, force, token, copy, refused, calls, poolVars>>
       ELSE End(c)
    /\ UNCHANGED <<wallet, mceVars, lock, failures, lost>>

(* invalidateToken reads the credentials ... *)
Look(c) ==
    /\ Step(c, "look", "invalidate")
    /\ copy' = [copy EXCEPT ![c] = wallet.pair]
    /\ UNCHANGED <<wallet, mceVars, lock, proc, kind, force, token, refused, calls, poolVars,
                   failures, lost>>

(* ... and writes them back as expired, without the lock. *)
Invalidate(c) ==
    /\ Step(c, "invalidating", "ask")
    /\ wallet' = [pair |-> copy[c], fresh |-> FALSE]
    /\ lost' = IF wallet.pair # copy[c] THEN lost \cup {"set back"} ELSE lost
    /\ force' = [force EXCEPT ![c] = TRUE]
    /\ Release(proc[c])
    /\ UNCHANGED <<mceVars, lock, proc, kind, token, copy, refused, calls, late, leaked, failures>>
-----------------------------------------------------------------------------
(* Time, and MCE on its own *)

Lapse ==
    /\ wallet.fresh
    /\ wallet' = [wallet EXCEPT !.fresh = FALSE]
    /\ UNCHANGED <<mceVars, lock, callVars, poolVars, failures, lost>>

(* The oldest access token ends, by its age or because MCE revokes it. *)
Revoke ==
    /\ live # {}
    /\ live' = {t \in live : \E u \in live : u < t}
    /\ UNCHANGED <<wallet, good, issued, lock, callVars, poolVars, failures, lost>>
-----------------------------------------------------------------------------
(* Failures *)

Fails(fault) == fault \in Faults /\ failures < MaxFailures /\ failures' = failures + 1

(* The hook of a request gives up after five seconds; its reserve stays in   *)
(* the pool's queue ...                                                      *)
HookTimesOut(c) ==
    /\ Fails("slow")
    /\ proc[c] \in Api
    /\ Step(c, "reserving", "idle")
    /\ late' = [late EXCEPT ![proc[c]] = @ + 1]
    /\ UNCHANGED <<wallet, mceVars, lock, proc, kind, force, token, copy, refused, calls,
                   free, leaked, lost>>

(* ... and nobody releases the connection it is granted. *)
GrantedLate(p) ==
    /\ late[p] > 0
    /\ Take(p)
    /\ late' = [late EXCEPT ![p] = @ - 1]
    /\ leaked' = [leaked EXCEPT ![p] = @ + 1]
    /\ UNCHANGED <<wallet, mceVars, lock, callVars, failures, lost>>

(* The question does not reach MCE, or its answer does not arrive.           *)
AnswerLost(c) ==
    /\ pc[c] = "post"
    /\ Fails("lost")
    /\ \/ UNCHANGED <<mceVars, lost>>
       \/ /\ copy[c] \in good
          /\ Issue(copy[c])
          /\ lost' = lost \cup {"answer"}
    /\ Reject(c)
    /\ UNCHANGED <<wallet, proc, kind, force, copy, refused, calls, poolVars>>

Mutant_KeptAfterRollback(c) ==
    /\ pc[c] = "saving"
    /\ Fails("db")
    /\ lost' = lost \cup {"not saved"}
    /\ IF kind[c] = "login"
       THEN Goto(c, "idle") /\ kind' = [kind EXCEPT ![c] = "rest"]
            /\ token' = [token EXCEPT ![c] = 0] /\ UNCHANGED lock
       ELSE Reject(c) /\ UNCHANGED kind
    /\ UNCHANGED <<wallet, mceVars, proc, force, copy, refused, calls, poolVars>>

(* The transaction of saveTokens is rolled back. *)
SaveFails(c) ==
    /\ pc[c] = "saving"
    /\ Fails("db")
    /\ lost' = lost \cup {"not saved"}
    /\ Release(proc[c])
    /\ IF kind[c] = "login"
       THEN Goto(c, "idle") /\ kind' = [kind EXCEPT ![c] = "rest"]
            /\ token' = [token EXCEPT ![c] = 0] /\ UNCHANGED lock
       ELSE Reject(c) /\ UNCHANGED kind
    /\ UNCHANGED <<wallet, mceVars, proc, force, copy, refused, calls, late, leaked>>

(* A process ends: it dies, or a rollback fails and it exits (fail closed).  *)
Crash(p) ==
    LET gone == {c \in Callers : proc[c] = p}
    IN /\ Fails("crash")
       /\ pc' = [c \in Callers |-> IF c \in gone THEN "idle" ELSE pc[c]]
       /\ kind' = [c \in Callers |-> IF c \in gone THEN "rest" ELSE kind[c]]
       /\ force' = [c \in Callers |-> c \notin gone /\ force[c]]
       /\ token' = [c \in Callers |-> IF c \in gone THEN 0 ELSE token[c]]
       /\ copy' = [c \in Callers |-> IF c \in gone THEN 0 ELSE copy[c]]
       /\ refused' = [c \in Callers |-> IF c \in gone THEN 0 ELSE refused[c]]
       /\ lock' = [lock EXCEPT ![p] = None]
       /\ free' = [free EXCEPT ![p] = Pool[p]]
       /\ late' = [late EXCEPT ![p] = 0] /\ leaked' = [leaked EXCEPT ![p] = 0]
       /\ lost' = IF \E c \in gone : pc[c] \in {"save", "saving"}
                  THEN lost \cup {"crash"} ELSE lost
       /\ UNCHANGED <<wallet, mceVars, proc, calls>>
-----------------------------------------------------------------------------
CallStep(c) ==
    \/ Reserve(c) \/ Ask(c) \/ Read(c) \/ Found(c) \/ Post(c)
    \/ ReserveSecond(c) \/ Save(c)
    \/ Call(c) \/ Expired(c) \/ Look(c) \/ Invalidate(c)

Fault ==
    \/ \E c \in Callers : HookTimesOut(c) \/ AnswerLost(c) \/ SaveFails(c)
    \/ \E p \in Procs : GrantedLate(p) \/ Crash(p)

Next ==
    \/ \E c \in Callers, p \in Procs :
          \/ CallStep(c) \/ Login(c, p)
          \/ \E k \in {"rest", "soap"} : Arrive(c, p, k)
    \/ Lapse
    \/ Revoke
    \/ Fault

Spec == Init /\ [][Next]_vars

(* Nothing else ends a call than the call itself.                            *)
Fairness == \A c \in Callers : WF_vars(CallStep(c))

FairSpec == Spec /\ Fairness
-----------------------------------------------------------------------------
(* Properties *)

Steps == {"idle", "reserving", "ask", "wait", "read", "found", "post", "save",
          "saving", "call", "expired", "look", "invalidate", "invalidating"}

(* The values of the row, of the calls' variables and of the pool.           *)
TypeOK ==
    /\ wallet \in [pair : Nat, fresh : BOOLEAN]
    /\ good \subseteq Nat /\ live \subseteq Nat /\ issued \in Nat
    /\ lock \in [Procs -> Callers \cup {None}]
    /\ pc \in [Callers -> Steps]
    /\ proc \in [Callers -> Procs] /\ kind \in [Callers -> {"rest", "soap", "login"}]
    /\ force \in [Callers -> BOOLEAN]
    /\ token \in [Callers -> Nat] /\ refused \in [Callers -> Nat]
    /\ copy \in [Callers -> Nat] /\ calls \in [Callers -> Nat]
    /\ free \in [Procs -> Nat] /\ \A p \in Procs : free[p] <= Pool[p]
    /\ late \in [Procs -> Nat] /\ leaked \in [Procs -> Nat]
    /\ failures \in Nat
    /\ lost \subseteq {"set back", "answer", "not saved", "crash"}

(* The connections the calls hold: of their context, and the second one.     *)
InContext(p) == {c \in Callers : proc[c] = p /\ kind[c] # "login"
                                  /\ pc[c] \notin {"idle", "reserving"}}
OnSecond(p)  == {c \in Callers : proc[c] = p /\ pc[c] \in {"saving", "invalidating"}}

(* Every connection of a pool is free, held by a call that goes on, or was   *)
(* granted to a hook that had given up: no other end of a call, failure or   *)
(* second attempt loses one or releases one twice.                           *)
ConnectionsConserved ==
    \A p \in Procs :
        free[p] + Cardinality(InContext(p)) + Cardinality(OnSecond(p)) + leaked[p] = Pool[p]

Refreshing(c) == \/ pc[c] \in {"read", "found", "post"}
                 \/ pc[c] \in {"save", "saving"} /\ kind[c] # "login"

(* Of the calls of a process at most one refreshes, first and second         *)
(* attempts taken together, and the others find it under refreshLocks.       *)
OneRefreshPerProcess ==
    \A c, d \in Callers :
        Refreshing(c) /\ Refreshing(d) /\ proc[c] = proc[d] => c = d

(* The second attempt is made with a token that is newer than the rejected   *)
(* one, also when it takes the result of another call's refresh.             *)
SecondTokenIsNewer ==
    \A c \in Callers : pc[c] = "call" /\ force[c] => token[c] > refused[c]

(* Unless a new pair is about to be saved, the row has a refresh token that  *)
(* MCE takes: the user need not log in again.  The code breaks this when     *)
(* invalidateToken writes a pair back that was replaced after it was read    *)
(* ("set back"); the other ways it is lost are failures.                     *)
WalletUsable ==
    lost = {} /\ (\A c \in Callers : pc[c] \notin {"save", "saving"})
        => wallet.pair \in good

(* No connection is free, and every call that holds one waits for another.   *)
Exhausted(p) ==
    /\ free[p] = 0
    /\ \A c \in InContext(p) : pc[c] \in {"ask", "wait", "save", "invalidate"}

(* Every request, job and login ends, unless the pool is used up by calls    *)
(* that each keep a connection and wait for a second one.                    *)
EveryCallEnds ==
    \A c \in Callers :
        \/ pc[c] # "idle" ~> pc[c] = "idle"
        \/ <>[]Exhausted(proc[c])
=============================================================================
