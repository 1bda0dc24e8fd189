---------------------------- MODULE RequestContext ----------------------------
(* The database connections of one API process: which tenant's context is set *)
(* on them, whose statements they get, and what becomes of the audit log.     *)
(*                                                                            *)
(* A hook reserves a connection for a request that comes with a session, sets *)
(* tenant and business unit on it and keeps it until the response is finished *)
(* or its client has gone.  The handler finds it in its asynchronous context, *)
(* and so does the audit log, which nobody waits for; a request whose body is *)
(* read from the socket loses that context, and what it calls reserves a      *)
(* connection of its own, as transactions do in any case.  The handle of a    *)
(* connection that was given back still sends what it is given.               *)
(*                                                                            *)
(* A context is a tenant with a business unit; where the two settings of a    *)
(* connection do not belong together there is none.  Row-level security lets  *)
(* a statement see and write the rows of the context that is set, and those   *)
(* of a user only if that user is set too.  A request stands for its user.    *)
EXTENDS FiniteSets

CONSTANTS
    Requests,   \* each is sent once
    Conns,      \* the pool
    Tenants,
    TenantOf,   \* the tenant of a request's session
    None,
    Faults      \* of "db", "queue" and "vanish"

ASSUME TenantAssumption == TenantOf \in [Requests -> Tenants]
ASSUME NoneAssumption == None \notin Tenants \cup Requests \cup Conns

VARIABLES
    free,       \* connections in the pool
    session,    \* the tenant set for the session of a connection, by its context,
    unit,       \* ... its business unit, by the context it belongs to,
    user,       \* ... and the user its next statement runs as
    tx,         \* the request that has a transaction open on it
    broken,     \* transactions the database has aborted
    carried,    \* whether the handler runs in the context the hook made
    home,       \* the connection the hook reserved, known also when it is given back
    own,        \* the connection of a transaction of the request or of its log
    main,       \* how far the request is
    acting,     \* requests whose handler, still running, has set its user there
    log,        \* how far its audit log is
    clean,      \* how far the hook's cleanup is
    gone,       \* requests whose client has gone
    missed,     \* ... before the hook could listen for it
    pending,    \* audit entries written in the transaction on a connection
    entries,    \* audit entries that are stored
    jobs,       \* those handed to the SIEM queue
    unwanted,   \* history: ... not, as no SIEM webhook was enabled
    late,       \* history: requests that sent a statement to a connection given back
    disturbed,  \* history: requests whose transaction got a statement of another one
    unlucky     \* history: requests whose audit log met a failing database or queue

settings == <<session, unit, user>>
conns == <<free, settings, tx, broken, pending>>
audit == <<entries, jobs, unwanted, late, disturbed, unlucky>>
vars  == <<free, session, unit, user, tx, broken, pending, carried, home, own, main,
           acting, log, clean, gone, missed, entries, jobs, unwanted, late, disturbed,
           unlucky>>

Init ==
    /\ free = Conns
    /\ session = [c \in Conns |-> None]
    /\ unit = [c \in Conns |-> None]
    /\ user = [c \in Conns |-> None]
    /\ tx = [c \in Conns |-> None]
    /\ broken = {}
    /\ pending = [c \in Conns |-> {}]
    /\ carried \in [Requests -> BOOLEAN]
    /\ home = [r \in Requests |-> None]
    /\ own = [r \in Requests |-> None]
    /\ main = [r \in Requests |-> "new"]
    /\ acting = {}
    /\ log = [r \in Requests |-> "none"]
    /\ clean = [r \in Requests |-> "no"]
    /\ gone = {} /\ missed = {}
    /\ entries = {} /\ jobs = {} /\ unwanted = {}
    /\ late = {} /\ disturbed = {} /\ unlucky = {}

(* The context a statement on c runs in: the one its transaction has set, else *)
(* that of the session.                                                        *)
Context(c) == IF tx[c] # None THEN TenantOf[tx[c]]
              ELSE IF unit[c] = session[c] THEN session[c] ELSE None
Works(r, c) == Context(c) = TenantOf[r] /\ c \notin broken

(* r sends c a statement; it breaks a transaction if it fails with an error. *)
Send(r, c, error) ==
    /\ disturbed' = IF tx[c] \in {None, r} THEN disturbed ELSE disturbed \cup {tx[c]}
    /\ broken' = IF error /\ tx[c] # None THEN broken \cup {c} ELSE broken
    /\ late' = IF c = home[r] /\ clean[r] # "no" THEN late \cup {r} ELSE late
-----------------------------------------------------------------------------
(* The request hook *)

Arrive(r) ==
    /\ main[r] = "new"
    /\ main' = [main EXCEPT ![r] = "reserve"]
    /\ UNCHANGED <<conns, carried, home, own, acting, log, clean, gone, missed, audit>>

(* The tenant is set as soon as the connection is there; from here on the hook *)
(* listens for the end of the response.                                        *)
Reserve(r) ==
    /\ main[r] = "reserve"
    /\ main' = [main EXCEPT ![r] = "setting"]
    /\ \E c \in free :
          /\ free' = free \ {c}
          /\ home' = [home EXCEPT ![r] = c]
          /\ session' = [session EXCEPT ![c] = TenantOf[r]]
    /\ missed' = IF r \in gone THEN missed \cup {r} ELSE missed
    /\ UNCHANGED <<unit, user, tx, broken, pending, carried, own, acting, log, clean, gone,
                   audit>>

(* When that is answered the business unit is set, also after a cleanup that a *)
(* client who left has caused meanwhile; then comes the handler.               *)
SetMid(r) ==
    /\ main[r] = "setting"
    /\ main' = [main EXCEPT ![r] = "handle"]
    /\ Send(r, home[r], FALSE)
    /\ unit' = [unit EXCEPT ![home[r]] = TenantOf[r]]
    /\ UNCHANGED <<free, session, user, tx, pending, carried, home, own, acting, log, clean,
                   gone, missed, entries, jobs, unwanted, unlucky>>

Leave(r) ==
    /\ main[r] # "new" /\ r \notin gone
    /\ main[r] = "reserve" => "vanish" \in Faults
    /\ gone' = gone \cup {r}
    /\ UNCHANGED <<conns, carried, home, own, main, acting, log, clean, missed, audit>>

Mutant_OnlyWhenFinished(r) == home[r] # None /\ main[r] = "answered"

(* "finish" comes with the answer, "close" when the client goes; a client that *)
(* has gone before is not heard of, and an answer to it may not finish.        *)
Over(r) == home[r] # None /\ (main[r] = "answered" \/ r \in gone \ missed)

Mutant_KeepsUser(c) ==
    /\ session' = [session EXCEPT ![c] = None]
    /\ unit' = [unit EXCEPT ![c] = None]
    /\ UNCHANGED user

Unset(c) ==
    /\ session' = [session EXCEPT ![c] = None]
    /\ unit' = [unit EXCEPT ![c] = None]
    /\ user' = [user EXCEPT ![c] = None]

Mutant_ClearsTwice(r) ==
    /\ Over(r)
    /\ clean' = [clean EXCEPT ![r] = IF @ = "no" THEN "cleared" ELSE @]
    /\ Unset(home[r])
    /\ UNCHANGED <<free, tx, broken, pending, carried, home, own, main, acting, log, gone,
                   missed, audit>>

Clear(r) ==
    /\ Over(r) /\ clean[r] = "no"
    /\ clean' = [clean EXCEPT ![r] = "cleared"]
    /\ Unset(home[r])
    /\ UNCHANGED <<free, tx, broken, pending, carried, home, own, main, acting, log, gone,
                   missed, audit>>

Mutant_ReleasedTwice(r) ==
    /\ clean[r] # "no" /\ main[r] # "setting"
    /\ clean' = [clean EXCEPT ![r] = "done"]
    /\ free' = free \cup {home[r]}
    /\ UNCHANGED <<settings, tx, broken, pending, carried, home, own, main, acting, log,
                   gone, missed, audit>>

(* The answer to the cleanup comes after that to the tenant's setting, when the *)
(* business unit's is sent already.                                             *)
Release(r) ==
    /\ clean[r] = "cleared" /\ main[r] # "setting"
    /\ clean' = [clean EXCEPT ![r] = "done"]
    /\ free' = free \cup {home[r]}
    /\ UNCHANGED <<settings, tx, broken, pending, carried, home, own, main, acting, log,
                   gone, missed, audit>>
-----------------------------------------------------------------------------
(* Transactions: RlsContextService *)

(* BEGIN, with the context of the request and, where it acts for its user, with *)
(* that user.                                                                   *)
Open(r, acts) ==
    \E c \in free :
        /\ free' = free \ {c}
        /\ own' = [own EXCEPT ![r] = c]
        /\ tx' = [tx EXCEPT ![c] = r]
        /\ user' = IF acts THEN [user EXCEPT ![c] = r] ELSE user
        /\ UNCHANGED <<session, unit, broken, pending>>

Mutant_NoRollback(r, stored) ==
    LET c == own[r]
    IN /\ entries' = IF stored /\ c \notin broken THEN entries \cup pending[c] ELSE entries
       /\ tx' = IF stored THEN [tx EXCEPT ![c] = None] ELSE tx
       /\ broken' = broken \ {c}
       /\ pending' = [pending EXCEPT ![c] = {}]
       /\ own' = [own EXCEPT ![r] = None]
       /\ free' = free \cup {c}
       /\ user' = [user EXCEPT ![c] = None]
       /\ UNCHANGED <<session, unit>>

(* COMMIT or ROLLBACK, the reset of the user, and the release.  The COMMIT of a *)
(* transaction that was aborted is a ROLLBACK, and no error.                    *)
Finish(r, stored) ==
    LET c == own[r]
    IN /\ entries' = IF stored /\ c \notin broken THEN entries \cup pending[c] ELSE entries
       /\ tx' = [tx EXCEPT ![c] = None]
       /\ broken' = broken \ {c}
       /\ pending' = [pending EXCEPT ![c] = {}]
       /\ own' = [own EXCEPT ![r] = None]
       /\ free' = free \cup {c}
       /\ user' = [user EXCEPT ![c] = None]
       /\ UNCHANGED <<session, unit>>
-----------------------------------------------------------------------------
(* The handler: statements, at most one transaction between them *)

(* The handler is over, with an answer. *)
Ends(r) ==
    /\ main' = [main EXCEPT ![r] = "answered"]
    /\ acting' = acting \ {r}

(* The handler acts for its user: from here on the session does, whoever has *)
(* the connection.                                                           *)
SetUser(r) ==
    LET c == home[r]
    IN /\ main[r] \in {"handle", "after"} /\ carried[r]
       /\ Send(r, c, FALSE)
       /\ IF c \in broken
          THEN Ends(r) /\ UNCHANGED user
          ELSE /\ user' = [user EXCEPT ![c] = r]
               /\ acting' = acting \cup {r}
               /\ UNCHANGED main
       /\ UNCHANGED <<free, session, unit, tx, pending, carried, home, own, log, clean,
                      gone, missed, entries, jobs, unwanted, unlucky>>

(* A statement on the request's connection; one that fails, or finds no rows, *)
(* ends the request with an error.  Those about the user's rows find none     *)
(* where another user, or none, is set.                                       *)
Statement(r) ==
    LET c == home[r]
    IN /\ main[r] \in {"handle", "after"} /\ carried[r]
       /\ \/ Works(r, c) /\ Send(r, c, FALSE) /\ UNCHANGED <<main, acting>>
          \/ /\ ~Works(r, c) \/ (r \in acting /\ user[c] # r)
             /\ \E writes \in BOOLEAN : Send(r, c, writes)
             /\ Ends(r)
       /\ UNCHANGED <<free, settings, tx, pending, carried, home, own, log, clean, gone,
                      missed, entries, jobs, unwanted, unlucky>>

WantTransaction(r) ==
    /\ main[r] = "handle"
    /\ main' = [main EXCEPT ![r] = "wait"]
    /\ UNCHANGED <<conns, carried, home, own, acting, log, clean, gone, missed, audit>>

Begin(r) ==
    /\ main[r] = "wait"
    /\ main' = [main EXCEPT ![r] = "tx"]
    /\ \E acts \in BOOLEAN : Open(r, acts)
    /\ UNCHANGED <<carried, home, acting, log, clean, gone, missed, audit>>

Commit(r) ==
    /\ main[r] = "tx"
    /\ main' = [main EXCEPT ![r] = "after"]
    /\ Finish(r, TRUE)
    /\ UNCHANGED <<carried, home, acting, log, clean, gone, missed, jobs, unwanted, late,
                   disturbed, unlucky>>

(* A statement of the transaction fails. *)
Rollback(r) ==
    /\ main[r] = "tx"
    /\ Ends(r)
    /\ Finish(r, FALSE)
    /\ UNCHANGED <<carried, home, log, clean, gone, missed, jobs, unwanted, late,
                   disturbed, unlucky>>

(* The answer; a successful one of an audited handler starts the log. *)
Answer(r) ==
    /\ main[r] \in {"handle", "after"}
    /\ Ends(r)
    /\ log' = [log EXCEPT ![r] = IF carried[r] THEN "insert" ELSE "reserve"]
    /\ UNCHANGED <<conns, carried, home, own, clean, gone, missed, audit>>

Refuse(r) ==
    /\ main[r] \in {"handle", "after"}
    /\ Ends(r)
    /\ UNCHANGED <<conns, carried, home, own, log, clean, gone, missed, audit>>
-----------------------------------------------------------------------------
(* AuditService.log *)

LogConn(r) == IF carried[r] THEN home[r] ELSE own[r]

LogReserve(r) ==
    /\ log[r] = "reserve"
    /\ log' = [log EXCEPT ![r] = "insert"]
    /\ Open(r, FALSE)
    /\ UNCHANGED <<carried, home, main, acting, clean, gone, missed, audit>>

(* Without a transaction of its own the log ends where it is. *)
LogEnds(r) ==
    /\ log' = [log EXCEPT ![r] = IF carried[r] THEN "done" ELSE "rollback"]

(* An entry is written where the context is that of its tenant, and is stored *)
(* with the transaction it got into.                                          *)
Insert(r) ==
    LET c == LogConn(r)
    IN /\ log[r] = "insert"
       /\ Send(r, c, ~Works(r, c))
       /\ IF Works(r, c)
          THEN /\ log' = [log EXCEPT ![r] = "lookup"]
               /\ pending' = IF tx[c] # None THEN [pending EXCEPT ![c] = @ \cup {r}] ELSE pending
               /\ entries' = IF tx[c] # None THEN entries ELSE entries \cup {r}
          ELSE LogEnds(r) /\ UNCHANGED <<pending, entries>>
       /\ UNCHANGED <<free, settings, tx, carried, home, own, main, acting, clean, gone,
                      missed, jobs, unwanted, unlucky>>

Mutant_NotCommitted(r) == [log EXCEPT ![r] = "done"]

Onward(r) == [log EXCEPT ![r] = IF carried[r] THEN "done" ELSE "commit"]

(* The tenant's SIEM configuration, enabled or not; none is to be seen from *)
(* another context.                                                         *)
Lookup(r) ==
    LET c == LogConn(r)
    IN /\ log[r] = "lookup"
       /\ Send(r, c, FALSE)
       /\ \/ Works(r, c) /\ log' = [log EXCEPT ![r] = "enqueue"] /\ UNCHANGED unwanted
          \/ log' = Onward(r) /\ unwanted' = IF Works(r, c) THEN unwanted \cup {r} ELSE unwanted
       /\ UNCHANGED <<free, settings, tx, pending, carried, home, own, main, acting, clean,
                      gone, missed, entries, jobs, unlucky>>

Enqueue(r) ==
    /\ log[r] = "enqueue"
    /\ jobs' = jobs \cup {r}
    /\ log' = Onward(r)
    /\ UNCHANGED <<conns, carried, home, own, main, acting, clean, gone, missed, entries,
                   unwanted, late, disturbed, unlucky>>

LogCommit(r) ==
    /\ log[r] = "commit"
    /\ log' = [log EXCEPT ![r] = "done"]
    /\ Finish(r, TRUE)
    /\ UNCHANGED <<carried, home, main, acting, clean, gone, missed, jobs, unwanted, late,
                   disturbed, unlucky>>

LogRollback(r) ==
    /\ log[r] = "rollback"
    /\ log' = [log EXCEPT ![r] = "done"]
    /\ Finish(r, FALSE)
    /\ UNCHANGED <<carried, home, main, acting, clean, gone, missed, jobs, unwanted, late,
                   disturbed, unlucky>>

(* A statement of the log fails.  The look-up's error is caught, but it aborts *)
(* the transaction it is in.                                                   *)
LogFails(r) ==
    /\ "db" \in Faults /\ log[r] \in {"insert", "lookup"}
    /\ Send(r, LogConn(r), TRUE)
    /\ unlucky' = unlucky \cup {r}
    /\ IF log[r] = "insert" THEN LogEnds(r) ELSE log' = Onward(r)
    /\ UNCHANGED <<free, settings, tx, pending, carried, home, own, main, acting, clean,
                   gone, missed, entries, jobs, unwanted>>

CommitFails(r) ==
    /\ "db" \in Faults /\ log[r] = "commit"
    /\ unlucky' = unlucky \cup {r}
    /\ log' = [log EXCEPT ![r] = "rollback"]
    /\ UNCHANGED <<conns, carried, home, own, main, acting, clean, gone, missed, entries,
                   jobs, unwanted, late, disturbed>>

EnqueueFails(r) ==
    /\ "queue" \in Faults /\ log[r] = "enqueue"
    /\ unlucky' = unlucky \cup {r}
    /\ log' = Onward(r)
    /\ UNCHANGED <<conns, carried, home, own, main, acting, clean, gone, missed, entries,
                   jobs, unwanted, late, disturbed>>
-----------------------------------------------------------------------------
Granted(r) == Reserve(r) \/ Begin(r) \/ LogReserve(r)

(* What the process does when it can; a client that was missed may leave an *)
(* answer that never finishes.                                              *)
Proceed(r) ==
    \/ SetMid(r)
    \/ r \notin missed /\ Clear(r)
    \/ Release(r)
    \/ Commit(r) \/ Rollback(r) \/ Answer(r) \/ Refuse(r)
    \/ Insert(r) \/ Lookup(r) \/ Enqueue(r) \/ LogCommit(r) \/ LogRollback(r)

Next ==
    \E r \in Requests :
        \/ Arrive(r) \/ Leave(r) \/ Granted(r) \/ Proceed(r)
        \/ SetUser(r) \/ Statement(r) \/ WantTransaction(r) \/ Clear(r)
        \/ LogFails(r) \/ CommitFails(r) \/ EnqueueFails(r)

Spec == Init /\ [][Next]_vars

(* The process goes on, the pool serves in turn, and no client waits for ever. *)
FairSpec ==
    /\ Spec
    /\ \A r \in Requests : WF_vars(Proceed(r)) /\ SF_vars(Granted(r)) /\ WF_vars(Leave(r))
-----------------------------------------------------------------------------
TypeOK ==
    /\ free \subseteq Conns
    /\ session \in [Conns -> Tenants \cup {None}]
    /\ unit \in [Conns -> Tenants \cup {None}]
    /\ user \in [Conns -> Requests \cup {None}]
    /\ tx \in [Conns -> Requests \cup {None}]
    /\ broken \subseteq Conns
    /\ pending \in [Conns -> SUBSET Requests]
    /\ carried \in [Requests -> BOOLEAN]
    /\ home \in [Requests -> Conns \cup {None}]
    /\ own \in [Requests -> Conns \cup {None}]
    /\ main \in [Requests -> {"new", "reserve", "setting", "handle", "wait", "tx", "after",
                              "answered"}]
    /\ acting \subseteq Requests
    /\ log \in [Requests -> {"none", "reserve", "insert", "lookup", "enqueue", "commit",
                             "rollback", "done"}]
    /\ clean \in [Requests -> {"no", "cleared", "done"}]
    /\ gone \subseteq Requests /\ missed \subseteq Requests
    /\ entries \subseteq Requests /\ jobs \subseteq Requests /\ unwanted \subseteq Requests
    /\ late \subseteq Requests /\ disturbed \subseteq Requests /\ unlucky \subseteq Requests

Holds(r, c) == own[r] = c \/ (home[r] = c /\ clean[r] # "done")

(* A connection is in the pool or held by one request, whatever ends a request *)
(* and however often it is said to be over.                                    *)
HeldByOne ==
    \A c \in Conns :
        /\ c \in free => \A r \in Requests : ~Holds(r, c)
        /\ \A q, r \in Requests : Holds(q, c) /\ Holds(r, c) => q = r

(* From the hook to the cleanup a request has its own tenant and business unit  *)
(* on its connection and no transaction of anybody, and its transactions have   *)
(* its context, whatever requests that are over still send.  The user there is  *)
(* its own, as soon as its handler has set it, or none - or that of a request   *)
(* which has sent statements to a connection it had given back: what such a one *)
(* sets is the session's, and the next holder's, until somebody sets or clears  *)
(* it.                                                                          *)
ContextIsOwn ==
    \A r \in Requests :
        /\ home[r] # None /\ main[r] # "setting" /\ clean[r] = "no" =>
              /\ Context(home[r]) = TenantOf[r] /\ tx[home[r]] = None
              /\ user[home[r]] \in late \cup {r, None}
              /\ r \in acting => user[home[r]] \in late \cup {r}
        /\ own[r] # None => /\ Context(own[r]) = TenantOf[r]
                            /\ user[own[r]] \in late \cup {r, None}

(* What is in the pool has no tenant and no transaction, and no user or business *)
(* unit but those that a request has set on it after its cleanup.                *)
FreeIsClean ==
    \A c \in free :
        /\ session[c] = None /\ tx[c] = None /\ c \notin broken
        /\ user[c] \in late \cup {None}
        /\ unit[c] = None \/ \E r \in late : home[r] = c /\ unit[c] = TenantOf[r]

(* A log that has ended has stored its entry and handed it to the SIEM queue,  *)
(* if a webhook was enabled - unless it met a failure, was sent to a connection *)
(* given back, or had the transaction of a request that was disturbed by one.   *)
AuditComplete ==
    \A r \in Requests :
        log[r] = "done" => \/ r \in entries /\ r \in jobs \cup unwanted
                           \/ r \in late \cup disturbed \cup unlucky

(* In the end all connections are in the pool again, but for those of requests *)
(* whose clients had gone before the hook listened: requests that wait for a   *)
(* second connection while they keep their first one go on when clients leave. *)
AllReturned == <>[](\A c \in Conns \ free : \E r \in missed : home[r] = c)
-----------------------------------------------------------------------------
(* What comments of the code say. *)

(* main.ts:161: the audit log does not depend on the request's connection. *)
AuditIsIndependent == \A r \in Requests : log[r] = "done" => r \in entries /\ r \in jobs \cup unwanted

(* rls-context.service.ts:214: a transaction is dedicated to its request. *)
TransactionIsDedicated == disturbed = {}

(* rls-context.service.ts:147: the user persists across the statements of a    *)
(* request.                                                                    *)
UserPersists == \A r \in acting : clean[r] = "no" => user[home[r]] = r
=============================================================================
