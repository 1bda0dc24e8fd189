--------------------------- MODULE AuditTrail_proofs ---------------------------
(* Proofs about RequestContext, SiemDelivery and the two together, for any     *)
(* number of requests, connections, tenants and jobs and any of the failures:  *)
(* who holds a connection and what is set on it, what becomes of the audit log, *)
(* how often an event is delivered, when a failing endpoint is disabled, and   *)
(* that what an endpoint is told and what the log keeps agree.                 *)
EXTENDS AuditTrail, FiniteSetTheorems, TLAPS

Logging == {"insert", "lookup", "enqueue", "commit", "rollback"}

(* The connection the hook reserved: none before it is granted; out of the pool, *)
(* with no transaction and with the context of its request until the cleanup    *)
(* clears it; and nobody else's before the cleanup has released it.             *)
Kept(r) == home[r] # None /\ clean[r] # "done"

HomeInv ==
    /\ \A r \in Requests :
          /\ home[r] = None <=> main[r] \in {"new", "reserve"}
          /\ clean[r] # "no" => home[r] # None
          /\ log[r] # "none" => main[r] = "answered"
          /\ Kept(r) => /\ home[r] \notin free
                        /\ tx[home[r]] = None
                        /\ session[home[r]] = IF clean[r] = "no" THEN TenantOf[r] ELSE None
    /\ \A q, r \in Requests : Kept(q) /\ Kept(r) /\ home[q] = home[r] => q = r

(* The connection of a transaction: a request has one exactly while its handler *)
(* or its log is in the transaction, and the connection knows it.  A log that   *)
(* has the request's connection needs none.                                     *)
OwnInv ==
    /\ \A r \in Requests :
          /\ carried[r] => log[r] \notin {"reserve", "commit", "rollback"}
          /\ own[r] # None <=> main[r] = "tx" \/ (~carried[r] /\ log[r] \in Logging)
          /\ own[r] # None => /\ own[r] \notin free
                              /\ tx[own[r]] = r
                              /\ session[own[r]] = None
    /\ \A c \in Conns : tx[c] # None => own[tx[c]] = c

(* Nothing is left on a connection in the pool, or without a transaction. *)
PoolInv ==
    /\ \A c \in free : session[c] = None /\ tx[c] = None
    /\ \A c \in Conns : tx[c] = None => c \notin broken /\ pending[c] = {}

(* What may be set beside the tenant.  The hook sets the business unit after it  *)
(* and before its own release, so that one that it has overwritten is its own    *)
(* or of a request that has sent something late.  The user comes with a handler  *)
(* or a transaction, goes with the cleanup or the reset, and what comes between  *)
(* is late.  A handler that has not begun has set no user.                       *)
SettingInv ==
    /\ \A r \in Requests :
          /\ clean[r] = "done" => main[r] # "setting"
          /\ r \in acting => main[r] \notin {"new", "reserve", "setting"}
          /\ home[r] # None /\ clean[r] = "no" =>
                /\ main[r] # "setting" => unit[home[r]] = TenantOf[r]
                /\ user[home[r]] \in late \cup {r, None}
                /\ r \in acting => user[home[r]] \in late \cup {r}
          /\ clean[r] = "cleared" => user[home[r]] \in late \cup {None}
          /\ own[r] # None => user[own[r]] \in late \cup {r, None}
    /\ \A c \in free : user[c] \in late \cup {None}
    /\ \A c \in Conns : unit[c] # None =>
          \E q \in Requests : /\ home[q] = c /\ unit[c] = TenantOf[q]
                              /\ q \in late \/ clean[q] = "no"

Holding == HomeInv /\ OwnInv /\ PoolInv
Inv     == Holding /\ SettingInv

(* A transaction is aborted only by a failure or by a statement of another. *)
BrokenInv == \A c \in broken : tx[c] \in disturbed \cup unlucky
-----------------------------------------------------------------------------
Stages    == {"new", "reserve", "setting", "handle", "wait", "tx", "after", "answered"}
LogStages == {"none", "reserve", "insert", "lookup", "enqueue", "commit", "rollback", "done"}

(* What the common parts of the actions do to the types. *)
LEMMA OpenType ==
    ASSUME TypeOK, NEW r \in Requests, NEW acts, Open(r, acts)
    PROVE  /\ free' \subseteq Conns /\ broken' \subseteq Conns
           /\ session' \in [Conns -> Tenants \cup {None}]
           /\ unit' \in [Conns -> Tenants \cup {None}]
           /\ user' \in [Conns -> Requests \cup {None}]
           /\ tx' \in [Conns -> Requests \cup {None}]
           /\ pending' \in [Conns -> SUBSET Requests]
           /\ own' \in [Requests -> Conns \cup {None}]
BY DEF TypeOK, Open

LEMMA FinishType ==
    ASSUME TypeOK, NEW r \in Requests, NEW stored, own[r] # None, Finish(r, stored)
    PROVE  /\ free' \subseteq Conns /\ broken' \subseteq Conns
           /\ session' \in [Conns -> Tenants \cup {None}]
           /\ unit' \in [Conns -> Tenants \cup {None}]
           /\ user' \in [Conns -> Requests \cup {None}]
           /\ tx' \in [Conns -> Requests \cup {None}]
           /\ pending' \in [Conns -> SUBSET Requests]
           /\ own' \in [Requests -> Conns \cup {None}]
           /\ entries' \subseteq Requests
BY DEF TypeOK, Finish

LEMMA SendType ==
    ASSUME TypeOK, NEW r \in Requests, NEW c \in Conns, NEW error, Send(r, c, error)
    PROVE  disturbed' \subseteq Requests /\ broken' \subseteq Conns /\ late' \subseteq Requests
<1>1. tx[c] \in Requests \cup {None}
  BY DEF TypeOK
<1> QED BY <1>1 DEF TypeOK, Send

(* A log or a transaction that is under way has its connection. *)
LEMMA Connected ==
    ASSUME TypeOK, HomeInv, OwnInv, NEW r \in Requests
    PROVE  /\ main[r] \notin {"new", "reserve"} => home[r] \in Conns
           /\ main[r] = "tx" => own[r] \in Conns /\ own[r] # None
           /\ log[r] \in Logging => LogConn(r) \in Conns /\ LogConn(r) # None
           /\ log[r] \in Logging /\ ~carried[r] => own[r] \in Conns /\ own[r] # None
           /\ log[r] \in {"commit", "rollback"} => own[r] \in Conns /\ own[r] # None
           /\ clean[r] # "no" => home[r] \in Conns
<1>1. /\ home[r] \in Conns \cup {None} /\ own[r] \in Conns \cup {None}
      /\ carried[r] \in BOOLEAN
  BY DEF TypeOK
<1>2. log[r] \in Logging => main[r] = "answered"
  BY DEF HomeInv, Logging
<1> QED BY <1>1, <1>2, NoneAssumption DEF HomeInv, OwnInv, LogConn, Logging

LEMMA OnwardType ==
    ASSUME TypeOK, NEW r \in Requests
    PROVE  Onward(r) \in [Requests -> LogStages]
BY DEF TypeOK, LogStages, Onward

LEMMA LogEndsType ==
    ASSUME TypeOK, NEW r \in Requests, LogEnds(r)
    PROVE  log' \in [Requests -> {"none", "reserve", "insert", "lookup", "enqueue",
                                 "commit", "rollback", "done"}]
BY DEF TypeOK, LogEnds

(* Every step keeps the types, where the connections are what HomeInv and OwnInv *)
(* say.                                                                          *)
LEMMA TypeStep ==
    ASSUME TypeOK, HomeInv, OwnInv, [Next]_vars
    PROVE  TypeOK'
<1>1. CASE UNCHANGED vars
  BY <1>1 DEF vars, TypeOK
<1>2. ASSUME NEW r \in Requests,
             Arrive(r) \/ Leave(r) \/ WantTransaction(r) \/ Answer(r) \/ Refuse(r)
      PROVE  TypeOK'
  BY <1>2 DEF TypeOK, Arrive, Leave, WantTransaction, Answer, Refuse, Ends, conns, settings,
              audit
<1>3. ASSUME NEW r \in Requests, Reserve(r)
      PROVE  TypeOK'
  <2>1. PICK c \in free : /\ free' = free \ {c}
                          /\ home' = [home EXCEPT ![r] = c]
                          /\ session' = [session EXCEPT ![c] = TenantOf[r]]
    BY <1>3 DEF Reserve
  <2>2. TenantOf[r] \in Tenants /\ c \in Conns
    BY TenantAssumption DEF TypeOK
  <2> QED BY <1>3, <2>1, <2>2 DEF TypeOK, Reserve, audit
<1>4. ASSUME NEW r \in Requests, Clear(r) \/ Release(r)
      PROVE  TypeOK'
  <2>1. home[r] \in Conns
    BY <1>4, Connected DEF Clear, Release, Over, TypeOK
  <2> QED BY <1>4, <2>1 DEF TypeOK, Clear, Unset, Release, settings, audit
<1>5. ASSUME NEW r \in Requests, Begin(r) \/ LogReserve(r)
      PROVE  TypeOK'
  <2>1. PICK acts \in BOOLEAN : Open(r, acts)
    BY <1>5 DEF Begin, LogReserve
  <2>2. /\ free' \subseteq Conns /\ broken' \subseteq Conns
        /\ session' \in [Conns -> Tenants \cup {None}]
        /\ unit' \in [Conns -> Tenants \cup {None}]
        /\ user' \in [Conns -> Requests \cup {None}]
        /\ tx' \in [Conns -> Requests \cup {None}]
        /\ pending' \in [Conns -> SUBSET Requests]
        /\ own' \in [Requests -> Conns \cup {None}]
    BY <2>1, OpenType
  <2>3. main' \in [Requests -> Stages]
    <3>1. main' = main \/ main' = [main EXCEPT ![r] = "tx"]
      BY <1>5 DEF Begin, LogReserve
    <3> QED BY <3>1 DEF TypeOK, Stages
  <2>4. log' \in [Requests -> LogStages]
    BY <1>5 DEF TypeOK, LogStages, Begin, LogReserve
  <2>5. UNCHANGED <<carried, home, acting, clean, gone, missed, entries, jobs, unwanted, late,
                    disturbed, unlucky>>
    BY <1>5 DEF Begin, LogReserve, audit
  <2> QED BY <2>2, <2>3, <2>4, <2>5 DEF TypeOK, Stages, LogStages
<1>6. ASSUME NEW r \in Requests, Commit(r) \/ Rollback(r) \/ LogCommit(r) \/ LogRollback(r)
      PROVE  TypeOK'
  <2>1. own[r] # None
    BY <1>6, Connected DEF Commit, Rollback, LogCommit, LogRollback
  <2>2. PICK stored \in BOOLEAN : Finish(r, stored)
    BY <1>6 DEF Commit, Rollback, LogCommit, LogRollback
  <2>3. /\ free' \subseteq Conns /\ broken' \subseteq Conns
        /\ session' \in [Conns -> Tenants \cup {None}]
        /\ unit' \in [Conns -> Tenants \cup {None}]
        /\ user' \in [Conns -> Requests \cup {None}]
        /\ tx' \in [Conns -> Requests \cup {None}]
        /\ pending' \in [Conns -> SUBSET Requests]
        /\ own' \in [Requests -> Conns \cup {None}]
        /\ entries' \subseteq Requests
    BY <2>1, <2>2, FinishType
  <2>4. main' \in [Requests -> Stages]
    <3>1. \E m \in Stages : main' = main \/ main' = [main EXCEPT ![r] = m]
      BY <1>6 DEF Stages, Commit, Rollback, Ends, LogCommit, LogRollback
    <3> QED BY <3>1 DEF TypeOK, Stages
  <2>5. log' \in [Requests -> LogStages]
    <3>1. log' = log \/ log' = [log EXCEPT ![r] = "done"]
      BY <1>6 DEF Commit, Rollback, LogCommit, LogRollback
    <3> QED BY <3>1 DEF TypeOK, LogStages
  <2>7. acting' = acting \/ acting' = acting \ {r}
    BY <1>6 DEF Commit, Rollback, Ends, LogCommit, LogRollback
  <2>6. UNCHANGED <<carried, home, clean, gone, missed, jobs, unwanted, late, disturbed,
                    unlucky>>
    BY <1>6 DEF Commit, Rollback, LogCommit, LogRollback
  <2> QED BY <2>3, <2>4, <2>5, <2>6, <2>7 DEF TypeOK, Stages, LogStages
<1>7. ASSUME NEW r \in Requests, SetMid(r) \/ SetUser(r) \/ Statement(r)
      PROVE  TypeOK'
  <2>1. home[r] \in Conns
    BY <1>7, Connected DEF SetMid, SetUser, Statement
  <2>2. PICK error \in BOOLEAN : Send(r, home[r], error)
    BY <1>7 DEF SetMid, SetUser, Statement
  <2>3. disturbed' \subseteq Requests /\ broken' \subseteq Conns /\ late' \subseteq Requests
    BY <2>1, <2>2, SendType
  <2>4. main' \in [Requests -> Stages]
    <3>1. \E m \in Stages : main' = main \/ main' = [main EXCEPT ![r] = m]
      BY <1>7 DEF Stages, SetMid, SetUser, Statement, Ends
    <3> QED BY <3>1 DEF TypeOK, Stages
  <2>5. acting' \in {acting, acting \cup {r}, acting \ {r}}
    BY <1>7 DEF SetMid, SetUser, Statement, Ends
  <2>7. /\ unit' = unit \/ unit' = [unit EXCEPT ![home[r]] = TenantOf[r]]
        /\ user' = user \/ user' = [user EXCEPT ![home[r]] = r]
    BY <1>7 DEF SetMid, SetUser, Statement, settings
  <2>8. unit' \in [Conns -> Tenants \cup {None}] /\ user' \in [Conns -> Requests \cup {None}]
    BY <2>7, TenantAssumption DEF TypeOK
  <2>6. UNCHANGED <<free, session, tx, pending, carried, home, own, log, clean, gone, missed,
                    entries, jobs, unwanted, unlucky>>
    BY <1>7 DEF SetMid, SetUser, Statement, settings
  <2> QED BY <2>3, <2>4, <2>5, <2>6, <2>8 DEF TypeOK, Stages
<1>8. ASSUME NEW r \in Requests, Insert(r)
      PROVE  TypeOK'
  <2>1. LogConn(r) \in Conns
    BY <1>8, Connected DEF Insert, Logging
  <2>2. disturbed' \subseteq Requests /\ broken' \subseteq Conns /\ late' \subseteq Requests
    BY <1>8, <2>1, SendType DEF Insert
  <2>3. /\ pending' \in [Conns -> SUBSET Requests] /\ entries' \subseteq Requests
        /\ log' \in [Requests -> LogStages]
    BY <1>8, <2>1, LogEndsType DEF Insert, LogStages, TypeOK
  <2> QED BY <1>8, <2>2, <2>3 DEF TypeOK, LogStages, Insert, settings
<1>9. ASSUME NEW r \in Requests, Lookup(r)
      PROVE  TypeOK'
  <2>1. LogConn(r) \in Conns
    BY <1>9, Connected DEF Lookup, Logging
  <2>2. disturbed' \subseteq Requests /\ broken' \subseteq Conns /\ late' \subseteq Requests
    BY <1>9, <2>1, SendType DEF Lookup
  <2>3. log' \in [Requests -> LogStages]
    <3>1. log' = Onward(r) \/ log' = [log EXCEPT ![r] = "enqueue"]
      BY <1>9 DEF Lookup
    <3>2. Onward(r) \in [Requests -> LogStages]
      BY OnwardType
    <3>3. [log EXCEPT ![r] = "enqueue"] \in [Requests -> LogStages]
      BY DEF TypeOK, LogStages
    <3> QED BY <3>1, <3>2, <3>3
  <2> QED BY <1>9, <2>2, <2>3 DEF TypeOK, LogStages, Lookup, settings
<1>10. ASSUME NEW r \in Requests, Enqueue(r) \/ EnqueueFails(r) \/ CommitFails(r)
       PROVE  TypeOK'
  <2>1. log' \in [Requests -> LogStages]
    <3>1. log' = Onward(r) \/ log' = [log EXCEPT ![r] = "rollback"]
      BY <1>10 DEF Enqueue, EnqueueFails, CommitFails
    <3>2. Onward(r) \in [Requests -> LogStages]
      BY OnwardType
    <3>3. [log EXCEPT ![r] = "rollback"] \in [Requests -> LogStages]
      BY DEF TypeOK, LogStages
    <3> QED BY <3>1, <3>2, <3>3
  <2>2. UNCHANGED <<conns, carried, home, own, main, acting, clean, gone, missed, entries,
                    unwanted, late, disturbed>>
    BY <1>10 DEF Enqueue, EnqueueFails, CommitFails, conns
  <2>3. jobs' \subseteq Requests /\ unlucky' \subseteq Requests
    BY <1>10 DEF TypeOK, Enqueue, EnqueueFails, CommitFails
  <2> QED BY <2>1, <2>2, <2>3 DEF TypeOK, LogStages, conns, settings
<1>11. ASSUME NEW r \in Requests, LogFails(r)
       PROVE  TypeOK'
  <2>1. LogConn(r) \in Conns
    BY <1>11, Connected DEF LogFails, Logging
  <2>2. disturbed' \subseteq Requests /\ broken' \subseteq Conns /\ late' \subseteq Requests
    BY <1>11, <2>1, SendType DEF LogFails
  <2>3. log' \in [Requests -> LogStages]
    <3>1. LogEnds(r) \/ log' = Onward(r)
      BY <1>11 DEF LogFails
    <3>2. Onward(r) \in [Requests -> LogStages]
      BY OnwardType
    <3>3. CASE LogEnds(r)
      BY <3>3, LogEndsType DEF LogStages
    <3> QED BY <3>1, <3>2, <3>3
  <2> QED BY <1>11, <2>2, <2>3 DEF TypeOK, LogStages, LogFails, settings
<1> QED BY <1>1, <1>2, <1>3, <1>4, <1>5, <1>6, <1>7, <1>8, <1>9, <1>10, <1>11
       DEF Next, Granted, Proceed
-----------------------------------------------------------------------------
(* Steps that touch no connection. *)
Elsewhere(r) ==
    \/ Arrive(r) \/ Leave(r) \/ WantTransaction(r) \/ Answer(r) \/ Refuse(r)
    \/ Enqueue(r) \/ EnqueueFails(r) \/ CommitFails(r)

LEMMA ElsewhereStep ==
    ASSUME TypeOK, Holding, NEW r \in Requests, Elsewhere(r)
    PROVE  Holding'
<1>1. /\ UNCHANGED <<free, session, tx, broken, pending, carried, home, own, clean>>
      /\ \/ UNCHANGED log
         \/ \E l : log' = [log EXCEPT ![r] = l]
      /\ \/ UNCHANGED main
         \/ \E m : main' = [main EXCEPT ![r] = m]
      /\ \A q \in Requests \ {r} : log'[q] = log[q] /\ main'[q] = main[q]
  BY DEF TypeOK, Elsewhere, Arrive, Leave, WantTransaction, Answer, Refuse, Ends, Enqueue,
         EnqueueFails, CommitFails, Onward, conns, settings
<1>2. /\ main[r] \in {"new", "reserve"} <=> main'[r] \in {"new", "reserve"}
      /\ log'[r] # "none" => main'[r] = "answered"
      /\ carried[r] => log'[r] \notin {"reserve", "commit", "rollback"}
      /\ (main'[r] = "tx" \/ (~carried[r] /\ log'[r] \in Logging))
            <=> (main[r] = "tx" \/ (~carried[r] /\ log[r] \in Logging))
  BY DEF TypeOK, Holding, HomeInv, OwnInv, Elsewhere, Arrive, Leave, WantTransaction, Answer,
         Refuse, Ends, Enqueue, EnqueueFails, CommitFails, Onward, Logging
<1>3. HomeInv'
  BY <1>1, <1>2 DEF Holding, HomeInv, Kept
<1>4. OwnInv'
  BY <1>1, <1>2 DEF Holding, OwnInv
<1>5. PoolInv'
  BY <1>1 DEF Holding, PoolInv
<1> QED BY <1>3, <1>4, <1>5 DEF Holding

LEMMA ReserveStep ==
    ASSUME TypeOK, Holding, NEW r \in Requests, Reserve(r)
    PROVE  Holding'
<1>1. PICK c \in free : /\ free' = free \ {c}
                        /\ home' = [home EXCEPT ![r] = c]
                        /\ session' = [session EXCEPT ![c] = TenantOf[r]]
  BY DEF Reserve
<1>2. /\ c \in Conns /\ c # None /\ home[r] = None /\ clean[r] = "no" /\ tx[c] = None
      /\ \A q \in Requests : (Kept(q) => home[q] # c) /\ own[q] # c
  BY NoneAssumption DEF TypeOK, Reserve, Holding, HomeInv, OwnInv, PoolInv
<1>3. HomeInv'
  BY <1>1, <1>2 DEF TypeOK, Holding, HomeInv, Kept, Reserve
<1>4. OwnInv'
  BY <1>1, <1>2 DEF TypeOK, Holding, OwnInv, Reserve
<1>5. PoolInv'
  BY <1>1, <1>2 DEF TypeOK, Holding, PoolInv, Reserve
<1> QED BY <1>3, <1>4, <1>5 DEF Holding

LEMMA ClearStep ==
    ASSUME TypeOK, Holding, NEW r \in Requests, Clear(r)
    PROVE  Holding'
<1>1. home[r] # None /\ clean[r] = "no" /\ home[r] \in Conns
  BY NoneAssumption DEF TypeOK, Clear, Over
<1>2. \A q \in Requests : own[q] # home[r]
  BY <1>1, NoneAssumption DEF TypeOK, Holding, HomeInv, OwnInv, Kept
<1>3. HomeInv'
  BY <1>1 DEF TypeOK, Holding, HomeInv, Kept, Clear, Unset
<1>4. OwnInv'
  BY <1>1, <1>2 DEF TypeOK, Holding, OwnInv, Clear, Unset
<1>5. PoolInv'
  BY <1>1 DEF TypeOK, Holding, PoolInv, Clear, Unset
<1> QED BY <1>3, <1>4, <1>5 DEF Holding

LEMMA ReleaseStep ==
    ASSUME TypeOK, Holding, NEW r \in Requests, Release(r)
    PROVE  Holding'
<1>1. home[r] # None /\ Kept(r) /\ home[r] \in Conns
  BY DEF TypeOK, Holding, HomeInv, Kept, Release, settings
<1>2. \A q \in Requests : own[q] # home[r]
  BY <1>1, NoneAssumption DEF TypeOK, Holding, HomeInv, OwnInv, Kept
<1>3. HomeInv'
  BY <1>1 DEF TypeOK, Holding, HomeInv, Kept, Release, settings
<1>4. OwnInv'
  BY <1>1, <1>2 DEF TypeOK, Holding, OwnInv, Release, settings
<1>5. PoolInv'
  BY <1>1 DEF TypeOK, Holding, HomeInv, PoolInv, Release, settings
<1> QED BY <1>3, <1>4, <1>5 DEF Holding

LEMMA OpenStep ==
    ASSUME TypeOK, Holding, NEW r \in Requests, Begin(r) \/ LogReserve(r)
    PROVE  Holding'
<1>1. PICK c \in free : /\ free' = free \ {c}
                        /\ own' = [own EXCEPT ![r] = c]
                        /\ tx' = [tx EXCEPT ![c] = r]
                        /\ UNCHANGED <<session, broken, pending>>
  BY DEF Begin, LogReserve, Open
<1>2. /\ c \in Conns /\ c # None /\ tx[c] = None /\ session[c] = None
      /\ \A q \in Requests : (Kept(q) => home[q] # c) /\ own[q] # c
  BY NoneAssumption DEF TypeOK, Holding, HomeInv, OwnInv, PoolInv
<1>3. own[r] = None
  BY DEF TypeOK, Holding, HomeInv, OwnInv, Begin, LogReserve, Logging
<1>4. HomeInv'
  <2>1. UNCHANGED <<home, clean, session>> /\ \A q \in Requests : Kept(q)' <=> Kept(q)
    BY <1>1 DEF Begin, LogReserve, Kept
  <2>2. \A q \in Requests :
          /\ main'[q] \in {"new", "reserve"} <=> main[q] \in {"new", "reserve"}
          /\ log'[q] # "none" => main'[q] = "answered"
    <3>1. CASE Begin(r)
      BY <3>1 DEF TypeOK, Holding, HomeInv, Begin
    <3>2. CASE LogReserve(r)
      BY <3>2 DEF TypeOK, Holding, HomeInv, LogReserve
    <3> QED BY <3>1, <3>2
  <2>3. \A q \in Requests : Kept(q) => home[q] \notin free' /\ tx'[home[q]] = None
    BY <1>1, <1>2 DEF TypeOK, Holding, HomeInv, Kept
  <2> QED BY <2>1, <2>2, <2>3 DEF Holding, HomeInv
<1>5. OwnInv'
  <2>0. /\ \/ main' = [main EXCEPT ![r] = "tx"] /\ UNCHANGED log
           \/ /\ log[r] = "reserve" /\ log' = [log EXCEPT ![r] = "insert"]
              /\ UNCHANGED main
        /\ UNCHANGED carried
    BY DEF Begin, LogReserve
  <2>1. \A q \in Requests :
          /\ carried'[q] => log'[q] \notin {"reserve", "commit", "rollback"}
          /\ q # r => (own'[q] = own[q] /\ log'[q] = log[q] /\ main'[q] = main[q])
          /\ carried'[q] = carried[q]
    BY <1>1, <2>0 DEF TypeOK, Holding, OwnInv
  <2>2. main'[r] = "tx" \/ (~carried[r] /\ log'[r] \in Logging)
    BY <2>0 DEF TypeOK, Holding, OwnInv, Logging
  <2>3. \A q \in Requests : own'[q] # None => /\ own'[q] \notin free'
                                              /\ tx'[own'[q]] = q
                                              /\ session'[own'[q]] = None
    BY <1>1, <1>2 DEF TypeOK, Holding, OwnInv
  <2>4. \A d \in Conns : tx'[d] # None => own'[tx'[d]] = d
    BY <1>1, <1>2, <1>3, NoneAssumption DEF TypeOK, Holding, OwnInv
  <2>5. own'[r] # None
    BY <1>1, <1>2 DEF TypeOK
  <2> QED BY <2>1, <2>2, <2>3, <2>4, <2>5 DEF Holding, OwnInv
<1>6. PoolInv'
  BY <1>1, <1>2, NoneAssumption DEF TypeOK, Holding, PoolInv
<1> QED BY <1>4, <1>5, <1>6 DEF Holding

(* Steps that end a transaction. *)
Ending(r) == Commit(r) \/ Rollback(r) \/ LogCommit(r) \/ LogRollback(r)

LEMMA FinishStep ==
    ASSUME TypeOK, Holding, NEW r \in Requests, Ending(r)
    PROVE  Holding'
<1> DEFINE c == own[r]
<1>1. /\ tx' = [tx EXCEPT ![c] = None]
      /\ broken' = broken \ {c}
      /\ pending' = [pending EXCEPT ![c] = {}]
      /\ own' = [own EXCEPT ![r] = None]
      /\ free' = free \cup {c}
      /\ UNCHANGED <<session, home, clean, carried>>
  BY DEF Ending, Commit, Rollback, LogCommit, LogRollback, Finish
<1>2. /\ c \in Conns /\ c # None /\ tx[c] = r /\ session[c] = None
      /\ \A q \in Requests : (Kept(q) => home[q] # c) /\ (own[q] = c => q = r)
  <2>1. c \in Conns /\ c # None
    BY Connected DEF Holding, Ending, Commit, Rollback, LogCommit, LogRollback
  <2> QED BY <2>1, NoneAssumption DEF TypeOK, Holding, HomeInv, OwnInv
<1>3. \/ main[r] = "tx" /\ UNCHANGED log
         /\ \E m \in {"after", "answered"} : main' = [main EXCEPT ![r] = m]
      \/ /\ log[r] \in {"commit", "rollback"} /\ UNCHANGED main
         /\ log' = [log EXCEPT ![r] = "done"]
  BY DEF Ending, Commit, Rollback, Ends, LogCommit, LogRollback
<1> HIDE DEF c
<1>4. HomeInv'
  <2>1. \A q \in Requests : Kept(q)' <=> Kept(q)
    BY <1>1 DEF Kept
  <2>2. \A q \in Requests :
          /\ main'[q] \in {"new", "reserve"} <=> main[q] \in {"new", "reserve"}
          /\ log'[q] # "none" => main'[q] = "answered"
    BY <1>3 DEF TypeOK, Holding, HomeInv
  <2>3. \A q \in Requests : Kept(q) => home[q] \notin free' /\ tx'[home[q]] = None
    BY <1>1, <1>2 DEF TypeOK, Holding, HomeInv, Kept
  <2> QED BY <1>1, <2>1, <2>2, <2>3 DEF Holding, HomeInv
<1>5. OwnInv'
  <2>1. \A q \in Requests :
          /\ carried[q] => log'[q] \notin {"reserve", "commit", "rollback"}
          /\ q # r => (own'[q] = own[q] /\ log'[q] = log[q] /\ main'[q] = main[q])
    BY <1>1, <1>3 DEF TypeOK, Holding, OwnInv
  <2>2. ~(main'[r] = "tx" \/ (~carried[r] /\ log'[r] \in Logging))
    BY <1>3 DEF TypeOK, Holding, HomeInv, OwnInv, Logging
  <2>3. \A q \in Requests : own'[q] # None => /\ own'[q] \notin free'
                                              /\ tx'[own'[q]] = q
                                              /\ session'[own'[q]] = None
    BY <1>1, <1>2 DEF TypeOK, Holding, OwnInv
  <2>4. \A d \in Conns : tx'[d] # None => own'[tx'[d]] = d
    BY <1>1, <1>2 DEF TypeOK, Holding, OwnInv
  <2>5. own'[r] = None
    BY <1>1, <1>2 DEF TypeOK
  <2> QED BY <1>1, <2>1, <2>2, <2>3, <2>4, <2>5 DEF Holding, OwnInv
<1>6. PoolInv'
  BY <1>1, <1>2, NoneAssumption DEF TypeOK, Holding, PoolInv
<1> QED BY <1>4, <1>5, <1>6 DEF Holding

(* Steps that send a statement. *)
Setting(r) == SetMid(r) \/ SetUser(r) \/ Statement(r)
Sending(r) == Setting(r) \/ Insert(r) \/ Lookup(r) \/ LogFails(r)

LEMMA SendStep ==
    ASSUME TypeOK, Holding, NEW r \in Requests, Sending(r)
    PROVE  Holding'
<1>1. UNCHANGED <<free, session, tx, carried, home, own, clean>>
  BY DEF Sending, Setting, SetMid, SetUser, Statement, Insert, Lookup, LogFails, settings
<1>2. PICK c \in Conns, error \in BOOLEAN :
         /\ Send(r, c, error)
         /\ pending' # pending => tx[c] # None /\ pending' = [pending EXCEPT ![c] = @ \cup {r}]
  <2>1. CASE Setting(r)
    <3>1. home[r] \in Conns
      BY <2>1, Connected DEF Holding, Setting, SetMid, SetUser, Statement
    <3> QED BY <2>1, <3>1 DEF Setting, SetMid, SetUser, Statement
  <2>2. CASE Insert(r) \/ Lookup(r) \/ LogFails(r)
    <3>1. LogConn(r) \in Conns
      BY <2>2, Connected DEF Holding, Insert, Lookup, LogFails, Logging
    <3> QED BY <2>2, <3>1 DEF Insert, Lookup, LogFails, Works
  <2> QED BY <2>1, <2>2 DEF Sending
<1>3. \/ /\ main[r] \in {"setting", "handle", "after"} /\ UNCHANGED log
         /\ \/ UNCHANGED main
            \/ \E m \in {"handle", "answered"} : main' = [main EXCEPT ![r] = m]
      \/ /\ log[r] \in {"insert", "lookup"} /\ UNCHANGED main
         /\ \E l \in {"lookup", "enqueue", "done", "commit", "rollback"} :
               /\ log' = [log EXCEPT ![r] = l]
               /\ l = "done" <=> carried[r] /\ l \notin {"lookup", "enqueue"}
  BY DEF Sending, Setting, SetMid, SetUser, Statement, Ends, Insert, Lookup, LogFails, LogEnds,
         Onward
<1>4. \A q \in Requests :
        /\ main'[q] \in {"new", "reserve"} <=> main[q] \in {"new", "reserve"}
        /\ log'[q] # "none" => main'[q] = "answered"
        /\ carried[q] => log'[q] \notin {"reserve", "commit", "rollback"}
        /\ (main'[q] = "tx" \/ (~carried[q] /\ log'[q] \in Logging))
              <=> (main[q] = "tx" \/ (~carried[q] /\ log[q] \in Logging))
  BY <1>3 DEF TypeOK, Holding, HomeInv, OwnInv, Logging
<1>5. HomeInv'
  BY <1>1, <1>4 DEF Holding, HomeInv, Kept
<1>6. OwnInv'
  BY <1>1, <1>4 DEF Holding, OwnInv
<1>7. PoolInv'
  BY <1>1, <1>2 DEF TypeOK, Holding, PoolInv, Send
<1> QED BY <1>5, <1>6, <1>7 DEF Holding

(* What a step may do to the settings of connections and to the users of handlers. *)
Begun(m) == m \notin {"new", "reserve", "setting"}

LEMMA HolderIsOne ==
    ASSUME TypeOK, Holding, NEW r \in Requests, home[r] # None, clean[r] # "done"
    PROVE  /\ home[r] \in Conns /\ home[r] \notin free
           /\ \A q \in Requests : /\ own[q] # home[r]
                                  /\ q # r /\ clean[q] # "done" => home[q] # home[r]
BY NoneAssumption DEF TypeOK, Holding, HomeInv, OwnInv, Kept

(* Steps that change no setting: connections are as they were. *)
LEMMA SettingSame ==
    ASSUME TypeOK, Inv, NEW r \in Requests,
           Elsewhere(r) \/ Statement(r) \/ Insert(r) \/ Lookup(r) \/ LogFails(r)
    PROVE  SettingInv'
<1>1. /\ UNCHANGED <<free, unit, user, home, own, clean>>
      /\ late \subseteq late' /\ acting' \subseteq acting
      /\ \A q \in Requests : main'[q] \in {"new", "reserve", "setting"}
                              => main[q] \in {"new", "reserve"} \/ main'[q] = main[q]
      /\ \A q \in Requests : main'[q] = "setting" <=> main[q] = "setting"
  BY DEF TypeOK, Elsewhere, Arrive, Leave, WantTransaction, Answer, Refuse, Ends, Enqueue,
         EnqueueFails, CommitFails, Statement, Insert, Lookup, LogFails, Send, conns, settings,
         audit
<1> QED BY <1>1 DEF Inv, SettingInv

LEMMA SettingReserve ==
    ASSUME TypeOK, Inv, NEW r \in Requests, Reserve(r)
    PROVE  SettingInv'
<1>1. PICK c \in free : free' = free \ {c} /\ home' = [home EXCEPT ![r] = c]
  BY DEF Reserve
<1>2. /\ main[r] = "reserve" /\ main' = [main EXCEPT ![r] = "setting"]
      /\ UNCHANGED <<unit, user, own, acting, clean, late>>
  BY DEF Reserve, audit
<1>3. c \in Conns /\ home[r] = None /\ clean[r] = "no" /\ r \notin acting
  BY <1>2 DEF TypeOK, Inv, Holding, HomeInv, SettingInv
<1>4. ASSUME NEW d \in Conns, unit'[d] # None
      PROVE  \E q \in Requests : /\ home'[q] = d /\ unit'[d] = TenantOf[q]
                                 /\ q \in late' \/ clean'[q] = "no"
  <2>1. PICK q \in Requests : /\ home[q] = d /\ unit[d] = TenantOf[q]
                              /\ q \in late \/ clean[q] = "no"
    BY <1>2, <1>4 DEF Inv, SettingInv
  <2>2. q # r /\ home'[q] = d
    BY <1>1, <1>3, <2>1, NoneAssumption DEF TypeOK
  <2> QED BY <1>2, <2>1, <2>2
<1>5. ASSUME NEW q \in Requests
      PROVE  /\ clean'[q] = "done" => main'[q] # "setting"
             /\ q \in acting' => main'[q] \notin {"new", "reserve", "setting"}
             /\ home'[q] # None /\ clean'[q] = "no" =>
                  /\ main'[q] # "setting" => unit'[home'[q]] = TenantOf[q]
                  /\ user'[home'[q]] \in late' \cup {q, None}
                  /\ q \in acting' => user'[home'[q]] \in late' \cup {q}
             /\ clean'[q] = "cleared" => user'[home'[q]] \in late' \cup {None}
             /\ own'[q] # None => user'[own'[q]] \in late' \cup {q, None}
  <2>1. CASE q = r
    BY <1>1, <1>2, <1>3, <2>1 DEF TypeOK, Inv, SettingInv
  <2>2. CASE q # r
    BY <1>1, <1>2, <2>2 DEF TypeOK, Inv, SettingInv
  <2> QED BY <2>1, <2>2
<1>6. \A d \in free' : user'[d] \in late' \cup {None}
  BY <1>1, <1>2 DEF Inv, SettingInv
<1> QED BY <1>4, <1>5, <1>6 DEF SettingInv

LEMMA SettingMid ==
    ASSUME TypeOK, Inv, NEW r \in Requests, SetMid(r)
    PROVE  SettingInv'
<1>1. /\ main[r] = "setting" /\ main' = [main EXCEPT ![r] = "handle"]
      /\ unit' = [unit EXCEPT ![home[r]] = TenantOf[r]]
      /\ UNCHANGED <<free, user, home, own, acting, clean>>
      /\ late' = IF clean[r] # "no" THEN late \cup {r} ELSE late
  BY DEF SetMid, Send
<1>2. home[r] # None /\ clean[r] # "done" /\ r \notin acting
  BY <1>1 DEF Inv, Holding, HomeInv, SettingInv
<1>3. /\ home[r] \in Conns /\ home[r] \notin free
      /\ \A q \in Requests : /\ own[q] # home[r]
                             /\ q # r /\ clean[q] # "done" => home[q] # home[r]
  BY <1>2, HolderIsOne DEF Inv
<1>4. ASSUME NEW d \in Conns, unit'[d] # None
      PROVE  \E q \in Requests : /\ home'[q] = d /\ unit'[d] = TenantOf[q]
                                 /\ q \in late' \/ clean'[q] = "no"
  <2>1. CASE d = home[r]
    BY <1>1, <1>3, <2>1 DEF TypeOK
  <2>2. CASE d # home[r]
    BY <1>1, <1>4, <2>2 DEF TypeOK, Inv, SettingInv
  <2> QED BY <2>1, <2>2
<1>5. ASSUME NEW q \in Requests
      PROVE  /\ clean'[q] = "done" => main'[q] # "setting"
             /\ q \in acting' => main'[q] \notin {"new", "reserve", "setting"}
             /\ home'[q] # None /\ clean'[q] = "no" =>
                  /\ main'[q] # "setting" => unit'[home'[q]] = TenantOf[q]
  <2>1. CASE q = r
    <3>1. main'[r] = "handle" /\ unit'[home[r]] = TenantOf[r]
      BY <1>1, <1>3 DEF TypeOK
    <3> QED BY <1>1, <1>2, <2>1, <3>1
  <2>2. CASE q # r
    BY <1>1, <1>3, <2>2 DEF TypeOK, Inv, SettingInv
  <2> QED BY <2>1, <2>2
<1> QED BY <1>1, <1>4, <1>5 DEF Inv, SettingInv

LEMMA SettingUser ==
    ASSUME TypeOK, Inv, NEW r \in Requests, SetUser(r)
    PROVE  SettingInv'
<1> DEFINE c == home[r]
<1>1. /\ main[r] \in {"handle", "after"} /\ UNCHANGED <<free, unit, home, own, clean>>
      /\ late' = IF clean[r] # "no" THEN late \cup {r} ELSE late
      /\ \/ UNCHANGED user /\ acting' = acting \ {r} /\ main' = [main EXCEPT ![r] = "answered"]
         \/ /\ user' = [user EXCEPT ![c] = r] /\ acting' = acting \cup {r} /\ UNCHANGED main
  BY DEF SetUser, Send, Ends
<1>2. c \in Conns /\ c # None
  BY <1>1, Connected, NoneAssumption DEF Inv, Holding, HomeInv
<1>3. \A q \in Requests : main'[q] = main[q] \/ (Begun(main[q]) /\ Begun(main'[q]))
  BY <1>1 DEF TypeOK, Begun
<1>4. clean[r] = "no" => /\ c \notin free
                         /\ \A q \in Requests :
                               /\ own[q] # c
                               /\ q # r /\ clean[q] # "done" => home[q] # c
  <2>1. ASSUME clean[r] = "no"
        PROVE  /\ home[r] \in Conns /\ home[r] \notin free
               /\ \A q \in Requests : /\ own[q] # home[r]
                                      /\ q # r /\ clean[q] # "done" => home[q] # home[r]
    <3>1. clean[r] # "done" /\ home[r] # None
      BY <1>2, <2>1
    <3> QED BY <3>1, HolderIsOne DEF Inv
  <2> QED BY <2>1 DEF c
<1>5. \A d \in Conns : user'[d] = user[d] \/ (d = c /\ user'[d] = r)
  BY <1>1, <1>2 DEF TypeOK
<1>6. r \in acting' => user'[c] = r
  BY <1>1, <1>2 DEF TypeOK
<1> HIDE DEF c
<1>7. ASSUME NEW q \in Requests
      PROVE  /\ home[q] # None /\ clean[q] = "no" =>
                  /\ user'[home[q]] \in late' \cup {q, None}
                  /\ q \in acting' => user'[home[q]] \in late' \cup {q}
             /\ clean[q] = "cleared" => user'[home[q]] \in late' \cup {None}
             /\ own[q] # None => user'[own[q]] \in late' \cup {q, None}
  <2>1. /\ home[q] # None => home[q] \in Conns
        /\ own[q] # None => own[q] \in Conns
        /\ clean[q] # "no" => home[q] # None
        /\ clean[q] \in {"no", "cleared", "done"}
    BY DEF TypeOK, Inv, Holding, HomeInv
  <2>2. q # r => (q \in acting' <=> q \in acting)
    BY <1>1
  <2>3. CASE clean[r] # "no"
    BY <1>1, <1>5, <1>6, <2>1, <2>2, <2>3 DEF Inv, SettingInv, c
  <2>4. CASE clean[r] = "no" /\ q = r
    BY <1>1, <1>4, <1>5, <1>6, <2>1, <2>4 DEF Inv, SettingInv, c
  <2>5. CASE clean[r] = "no" /\ q # r
    BY <1>1, <1>4, <1>5, <2>1, <2>2, <2>5 DEF Inv, SettingInv
  <2> QED BY <2>3, <2>4, <2>5
<1>8. \A d \in free : user'[d] \in late' \cup {None}
  BY <1>1, <1>4, <1>5 DEF Inv, SettingInv, TypeOK
<1>9. \A q \in Requests : q \in acting' => main'[q] \notin {"new", "reserve", "setting"}
  BY <1>1, <1>3 DEF Inv, SettingInv, Begun
<1> QED BY <1>1, <1>3, <1>7, <1>8, <1>9 DEF Inv, SettingInv, Begun

LEMMA SettingClear ==
    ASSUME TypeOK, Inv, NEW r \in Requests, Clear(r)
    PROVE  SettingInv'
<1>1. /\ home[r] # None /\ clean[r] = "no" /\ clean' = [clean EXCEPT ![r] = "cleared"]
      /\ unit' = [unit EXCEPT ![home[r]] = None] /\ user' = [user EXCEPT ![home[r]] = None]
      /\ UNCHANGED <<free, home, own, main, acting, late>>
  BY DEF Clear, Over, Unset, audit
<1>2. /\ home[r] \in Conns /\ home[r] \notin free
      /\ \A q \in Requests : /\ own[q] # home[r]
                             /\ q # r /\ clean[q] # "done" => home[q] # home[r]
  BY <1>1, HolderIsOne DEF Inv
<1>3. ASSUME NEW d \in Conns, unit'[d] # None
      PROVE  \E q \in Requests : /\ home'[q] = d /\ unit'[d] = TenantOf[q]
                                 /\ q \in late' \/ clean'[q] = "no"
  <2>1. d # home[r] /\ unit[d] # None /\ unit'[d] = unit[d]
    BY <1>1, <1>2, <1>3 DEF TypeOK
  <2>2. PICK q \in Requests : /\ home[q] = d /\ unit[d] = TenantOf[q]
                              /\ q \in late \/ clean[q] = "no"
    BY <2>1 DEF Inv, SettingInv
  <2>3. q # r /\ clean'[q] = clean[q]
    BY <1>1, <2>1, <2>2 DEF TypeOK
  <2> QED BY <1>1, <2>1, <2>2, <2>3
<1>4. ASSUME NEW q \in Requests
      PROVE  /\ clean'[q] = "done" => main'[q] # "setting"
             /\ home'[q] # None /\ clean'[q] = "no" =>
                  /\ main'[q] # "setting" => unit'[home'[q]] = TenantOf[q]
                  /\ user'[home'[q]] \in late' \cup {q, None}
                  /\ q \in acting' => user'[home'[q]] \in late' \cup {q}
             /\ clean'[q] = "cleared" => user'[home'[q]] \in late' \cup {None}
             /\ own'[q] # None => user'[own'[q]] \in late' \cup {q, None}
  <2>1. CASE q = r
    <3>1. clean'[r] = "cleared" /\ user'[home[r]] = None
      BY <1>1, <1>2 DEF TypeOK
    <3>2. own[r] \in Conns \cup {None}
      BY DEF TypeOK
    <3>3. own[r] # None => user'[own[r]] = user[own[r]]
      <4>1. own[r] # home[r]
        BY <1>2
      <4> QED BY <1>1, <3>2, <4>1 DEF TypeOK
    <3>4. r \in acting' => main'[r] \notin {"new", "reserve", "setting"}
      BY <1>1 DEF Inv, SettingInv
    <3>5. own'[r] # None => user'[own'[r]] \in late' \cup {r, None}
      BY <1>1, <3>3 DEF Inv, SettingInv
    <3> QED BY <1>1, <2>1, <3>1, <3>4, <3>5
  <2>2. CASE q # r
    <3>1. /\ clean'[q] = clean[q]
          /\ home[q] \in Conns \cup {None} /\ own[q] \in Conns \cup {None}
          /\ clean[q] # "no" => home[q] # None
      BY <1>1, <2>2 DEF TypeOK, Inv, Holding, HomeInv
    <3>2. clean[q] # "done" => home[q] # home[r]
      BY <1>2, <2>2
    <3>3. own[q] # home[r]
      BY <1>2
    <3>4. /\ clean[q] # "done" /\ home[q] # None =>
                unit'[home[q]] = unit[home[q]] /\ user'[home[q]] = user[home[q]]
          /\ own[q] # None => user'[own[q]] = user[own[q]]
      BY <1>1, <3>1, <3>2, <3>3 DEF TypeOK
    <3>5. /\ clean[q] = "done" => main[q] # "setting"
          /\ home[q] # None /\ clean[q] = "no" =>
               /\ main[q] # "setting" => unit[home[q]] = TenantOf[q]
               /\ user[home[q]] \in late \cup {q, None}
               /\ q \in acting => user[home[q]] \in late \cup {q}
          /\ clean[q] = "cleared" => user[home[q]] \in late \cup {None}
          /\ own[q] # None => user[own[q]] \in late \cup {q, None}
      BY DEF Inv, SettingInv
    <3> QED BY <1>1, <3>1, <3>4, <3>5
  <2> QED BY <2>1, <2>2
<1>5. \A d \in free' : user'[d] \in late' \cup {None}
  BY <1>1, <1>2 DEF TypeOK, Inv, SettingInv
<1> QED BY <1>1, <1>3, <1>4, <1>5 DEF Inv, SettingInv

LEMMA SettingRelease ==
    ASSUME TypeOK, Inv, NEW r \in Requests, Release(r)
    PROVE  SettingInv'
<1>1. /\ clean[r] = "cleared" /\ main[r] # "setting" /\ clean' = [clean EXCEPT ![r] = "done"]
      /\ free' = free \cup {home[r]}
      /\ UNCHANGED <<unit, user, home, own, main, acting, late>>
  BY DEF Release, settings, audit
<1>2. \A q \in Requests : q # r => clean'[q] = clean[q]
  BY <1>1 DEF TypeOK
<1>3. clean'[r] = "done"
  BY <1>1 DEF TypeOK
<1>4. ASSUME NEW d \in Conns, unit'[d] # None
      PROVE  \E q \in Requests : /\ home'[q] = d /\ unit'[d] = TenantOf[q]
                                 /\ q \in late' \/ clean'[q] = "no"
  <2>1. PICK q \in Requests : /\ home[q] = d /\ unit[d] = TenantOf[q]
                              /\ q \in late \/ clean[q] = "no"
    BY <1>1, <1>4 DEF Inv, SettingInv
  <2> QED BY <1>1, <1>2, <2>1
<1> QED BY <1>1, <1>2, <1>3, <1>4 DEF Inv, SettingInv

(* A transaction begins or ends. *)
LEMMA SettingTransaction ==
    ASSUME TypeOK, Inv, NEW r \in Requests, Begin(r) \/ LogReserve(r) \/ Ending(r)
    PROVE  SettingInv'
<1>1. /\ UNCHANGED <<unit, home, clean, late>> /\ acting' \subseteq acting
      /\ \A q \in Requests : main'[q] = main[q] \/ (Begun(main[q]) /\ Begun(main'[q]))
  BY DEF TypeOK, Begun, Begin, LogReserve, Open, Ending, Commit, Rollback, Ends, LogCommit,
         LogRollback, Finish, audit
<1>2. \E c \in Conns, u \in late \cup {r, None} :
        /\ c \in free \/ (own[r] = c /\ u = None)
        /\ c \in free => own' = [own EXCEPT ![r] = c] /\ free' \subseteq free \ {c}
        /\ c \notin free => own' = [own EXCEPT ![r] = None] /\ free' = free \cup {c}
        /\ user' = [user EXCEPT ![c] = u]
  <2>1. CASE Begin(r) \/ LogReserve(r)
    <3>1. PICK acts \in BOOLEAN : Open(r, acts)
      BY <2>1 DEF Begin, LogReserve
    <3>2. PICK c \in free : /\ free' = free \ {c} /\ own' = [own EXCEPT ![r] = c]
                            /\ user' = IF acts THEN [user EXCEPT ![c] = r] ELSE user
      BY <3>1 DEF Open
    <3>3. c \in Conns /\ user[c] \in late \cup {None} /\ [user EXCEPT ![c] = user[c]] = user
      BY DEF TypeOK, Inv, SettingInv
    <3>4. CASE acts
      BY <3>2, <3>3, <3>4
    <3>5. CASE ~acts
      BY <3>2, <3>3, <3>5
    <3> QED BY <3>4, <3>5
  <2>2. CASE Ending(r)
    <3>1. own[r] \in Conns /\ own[r] \notin free
      BY <2>2, Connected DEF Inv, Holding, OwnInv, Ending, Commit, Rollback, LogCommit, LogRollback
    <3> QED BY <2>2, <3>1 DEF Ending, Commit, Rollback, LogCommit, LogRollback, Finish
  <2> QED BY <2>1, <2>2
<1>3. PICK c \in Conns, u \in late \cup {r, None} :
        /\ c \in free \/ (own[r] = c /\ u = None)
        /\ c \in free => own' = [own EXCEPT ![r] = c] /\ free' \subseteq free \ {c}
        /\ c \notin free => own' = [own EXCEPT ![r] = None] /\ free' = free \cup {c}
        /\ user' = [user EXCEPT ![c] = u]
  BY <1>2
<1>4. /\ \A q \in Requests : home[q] # None /\ clean[q] # "done" => home[q] # c
      /\ \A q \in Requests : q # r => own[q] # c
  BY <1>3, NoneAssumption DEF TypeOK, Inv, Holding, HomeInv, OwnInv, Kept
<1>5. ASSUME NEW q \in Requests
      PROVE  /\ home[q] # None /\ clean[q] # "done" => user'[home[q]] = user[home[q]]
             /\ own'[q] # None => user'[own'[q]] \in late \cup {q, None}
  <2>1. CASE q = r
    BY <1>3, <1>4, <2>1 DEF TypeOK
  <2>2. CASE q # r
    BY <1>3, <1>4, <2>2 DEF TypeOK, Inv, SettingInv
  <2> QED BY <2>1, <2>2
<1>6. \A d \in free' : user'[d] \in late \cup {None}
  BY <1>3 DEF TypeOK, Inv, SettingInv
<1>7. \A q \in Requests : clean[q] # "no" => home[q] # None
  BY DEF Inv, Holding, HomeInv
<1> QED BY <1>1, <1>5, <1>6, <1>7 DEF Inv, SettingInv, Begun

LEMMA InvStep ==
    ASSUME TypeOK, Inv, [Next]_vars
    PROVE  Inv'
<1>1. CASE UNCHANGED vars
  BY <1>1 DEF vars, Inv, Holding, HomeInv, OwnInv, PoolInv, SettingInv, Kept
<1>2. ASSUME NEW r \in Requests,
             \/ Elsewhere(r) \/ Reserve(r) \/ Clear(r) \/ Release(r)
             \/ Begin(r) \/ LogReserve(r) \/ Ending(r) \/ Sending(r)
      PROVE  Inv'
  <2>1. Holding'
    BY <1>2, ElsewhereStep, ReserveStep, ClearStep, ReleaseStep, OpenStep, FinishStep, SendStep
       DEF Inv
  <2>2. SettingInv'
    BY <1>2, SettingSame, SettingReserve, SettingMid, SettingUser, SettingClear,
       SettingRelease, SettingTransaction DEF Sending, Setting
  <2> QED BY <2>1, <2>2 DEF Inv
<1> QED BY <1>1, <1>2 DEF Next, Granted, Proceed, Elsewhere, Ending,
                                               Sending, Setting

LEMMA InvInit == Init => TypeOK /\ Inv
BY NoneAssumption DEF Init, TypeOK, Inv, Holding, HomeInv, OwnInv, PoolInv, SettingInv, Kept,
                      Logging

(* Every reachable state has its types, and the connections are where HomeInv, *)
(* OwnInv and PoolInv say.                                                     *)
THEOREM TypeCorrect == Spec => [](TypeOK /\ Inv)
<1>1. TypeOK /\ Inv /\ [Next]_vars => (TypeOK /\ Inv)'
  BY TypeStep, InvStep DEF Inv, Holding
<1> QED BY InvInit, <1>1, PTL DEF Spec

(* A connection is in the pool or held by one request (configure-app.ts, the  *)
(* cleanup of the hook; rls-context.service.ts, runIsolatedInContext).         *)
THEOREM OneHolder == Spec => []HeldByOne
<1>1. TypeOK /\ Inv => HeldByOne
  BY NoneAssumption DEF TypeOK, Inv, Holding, HomeInv, OwnInv, Kept, HeldByOne, Holds
<1> QED BY TypeCorrect, <1>1, PTL

(* A request works in the context of its own tenant and business unit, with its *)
(* own user or none, as long as it has its connection, and so do its             *)
(* transactions; the one thing that may be another request's is the user, and    *)
(* then that one has sent something to a connection it had given back            *)
(* (configure-app.ts, the hook; rls-context.service.ts, runWithUserContext).     *)
THEOREM OwnContext == Spec => []ContextIsOwn
<1>1. ASSUME TypeOK, Inv, NEW r \in Requests, home[r] # None, main[r] # "setting",
             clean[r] = "no"
      PROVE  Context(home[r]) = TenantOf[r] /\ tx[home[r]] = None
  BY <1>1 DEF Inv, Holding, SettingInv, HomeInv, Kept, Context
<1>2. ASSUME TypeOK, Inv, NEW r \in Requests, own[r] # None
      PROVE  Context(own[r]) = TenantOf[r]
  BY <1>2, NoneAssumption DEF Inv, Holding, OwnInv, Context
<1>3. TypeOK /\ Inv => ContextIsOwn
  BY <1>1, <1>2 DEF Inv, SettingInv, ContextIsOwn
<1> QED BY TypeCorrect, <1>3, PTL

(* Nothing of a request stays behind on a connection in the pool when its        *)
(* cleanup is done, and what gets there afterwards is a user or a business unit  *)
(* that a request has set too late, the latter on its own former connection.     *)
THEOREM PoolIsClean == Spec => []FreeIsClean
<1>1. ASSUME TypeOK, Inv, NEW c \in free, unit[c] # None
      PROVE  \E r \in late : home[r] = c /\ unit[c] = TenantOf[r]
  <2>1. c \in Conns /\ c # None
    BY <1>1, NoneAssumption DEF TypeOK
  <2>2. PICK q \in Requests : /\ home[q] = c /\ unit[c] = TenantOf[q]
                              /\ q \in late \/ clean[q] = "no"
    BY <1>1, <2>1 DEF Inv, SettingInv
  <2>3. clean[q] # "no"
    BY <1>1, <2>1, <2>2 DEF Inv, Holding, HomeInv, Kept
  <2> QED BY <2>2, <2>3
<1>2. ASSUME TypeOK, Inv, NEW c \in free
      PROVE  /\ session[c] = None /\ tx[c] = None /\ c \notin broken
             /\ user[c] \in late \cup {None}
  BY <1>2 DEF TypeOK, Inv, Holding, PoolInv, SettingInv
<1>3. TypeOK /\ Inv => FreeIsClean
  BY <1>1, <1>2 DEF FreeIsClean
<1> QED BY TypeCorrect, <1>3, PTL
-----------------------------------------------------------------------------
(* The audit log *)

(* No step takes an entry, a job or a mark of the history away. *)
LEMMA HistoryKept ==
    ASSUME TypeOK, [Next]_vars
    PROVE  /\ entries \subseteq entries' /\ jobs \subseteq jobs' /\ unwanted \subseteq unwanted'
           /\ late \subseteq late' /\ disturbed \subseteq disturbed' /\ unlucky \subseteq unlucky'
<1>1. ASSUME NEW r \in Requests, Elsewhere(r) \/ Reserve(r) \/ Clear(r) \/ Release(r)
      PROVE  /\ UNCHANGED <<entries, unwanted, late, disturbed>>
             /\ jobs \subseteq jobs' /\ unlucky \subseteq unlucky'
  BY <1>1 DEF Elsewhere, Arrive, Leave, WantTransaction, Answer, Refuse, Enqueue, EnqueueFails,
              CommitFails, Reserve, Clear, Release, audit
<1>2. ASSUME NEW r \in Requests, Begin(r) \/ LogReserve(r) \/ Ending(r)
      PROVE  entries \subseteq entries' /\ UNCHANGED <<jobs, unwanted, late, disturbed, unlucky>>
  BY <1>2 DEF Ending, Begin, LogReserve, Commit, Rollback, LogCommit, LogRollback, Finish, audit
<1>3. ASSUME NEW r \in Requests, Sending(r)
      PROVE  /\ entries \subseteq entries' /\ UNCHANGED jobs /\ unwanted \subseteq unwanted'
             /\ late \subseteq late' /\ disturbed \subseteq disturbed' /\ unlucky \subseteq unlucky'
  BY <1>3 DEF Sending, Setting, SetMid, SetUser, Statement, Insert, Lookup, LogFails, Send
<1>4. CASE UNCHANGED vars
  BY <1>4 DEF vars
<1> QED BY <1>1, <1>2, <1>3, <1>4 DEF Next, Granted, Proceed, Elsewhere, Ending,
                                               Sending, Setting

(* The log's statements are answered while nothing has come in between. *)
LEMMA LogWorks ==
    ASSUME TypeOK, Inv, BrokenInv, NEW r \in Requests, log[r] \in {"insert", "lookup"},
           r \notin disturbed \cup unlucky, carried[r] => clean[r] = "no"
    PROVE  Works(r, LogConn(r)) /\ tx[LogConn(r)] = IF carried[r] THEN None ELSE r
<1>1. CASE carried[r]
  <2>1. home[r] # None /\ home[r] \in Conns
    BY <1>1, Connected DEF Inv, Holding, LogConn, Logging
  <2>2. /\ tx[home[r]] = None /\ session[home[r]] = TenantOf[r] /\ home[r] \notin broken
        /\ unit[home[r]] = TenantOf[r]
    BY <1>1, <2>1 DEF Inv, Holding, SettingInv, HomeInv, PoolInv, Kept
  <2> QED BY <1>1, <2>2 DEF Works, Context, LogConn
<1>2. CASE ~carried[r]
  <2>1. own[r] # None /\ own[r] \in Conns
    BY <1>2, Connected DEF Inv, Holding, Logging
  <2>2. tx[own[r]] = r /\ r # None
    BY <2>1, NoneAssumption DEF Inv, Holding, OwnInv
  <2> QED BY <1>2, <2>2 DEF Works, Context, LogConn, BrokenInv
<1> QED BY <1>1, <1>2

LEMMA BrokenStep ==
    ASSUME TypeOK, Inv, BrokenInv, [Next]_vars
    PROVE  BrokenInv'
<1>1. ASSUME UNCHANGED <<tx, broken>>
      PROVE  BrokenInv'
  BY <1>1, HistoryKept DEF BrokenInv
<1>2. ASSUME NEW r \in Requests, Elsewhere(r) \/ Reserve(r) \/ Clear(r) \/ Release(r)
      PROVE  UNCHANGED <<tx, broken>>
  BY <1>2 DEF Elsewhere, Arrive, Leave, WantTransaction, Answer, Refuse, Enqueue, EnqueueFails,
              CommitFails, Reserve, Clear, Release, conns
<1>3. ASSUME NEW r \in Requests, Begin(r) \/ LogReserve(r)
      PROVE  BrokenInv'
  <2>1. PICK c \in free : tx' = [tx EXCEPT ![c] = r] /\ broken' = broken
    BY <1>3 DEF Begin, LogReserve, Open
  <2>2. c \notin broken
    BY DEF TypeOK, Inv, Holding, PoolInv
  <2> QED BY <2>1, <2>2, HistoryKept DEF BrokenInv, TypeOK
<1>4. ASSUME NEW r \in Requests, Ending(r)
      PROVE  BrokenInv'
  <2>1. tx' = [tx EXCEPT ![own[r]] = None] /\ broken' = broken \ {own[r]}
    BY <1>4 DEF Ending, Commit, Rollback, LogCommit, LogRollback, Finish
  <2> QED BY <2>1, HistoryKept DEF BrokenInv, TypeOK
<1>5. ASSUME NEW r \in Requests, Sending(r)
      PROVE  BrokenInv'
  <2>1. PICK c \in Conns, error \in BOOLEAN :
           /\ Send(r, c, error)
           /\ \/ Setting(r)
              \/ Insert(r) /\ c = LogConn(r) /\ error = ~Works(r, c)
              \/ Lookup(r) /\ ~error
              \/ LogFails(r)
    <3>1. CASE Setting(r)
      <4>1. home[r] \in Conns
        BY <3>1, Connected DEF Inv, Holding, Setting, SetMid, SetUser, Statement
      <4> QED BY <3>1, <4>1 DEF Setting, SetMid, SetUser, Statement
    <3>2. CASE Insert(r) \/ Lookup(r) \/ LogFails(r)
      <4>1. LogConn(r) \in Conns
        BY <3>2, Connected DEF Inv, Holding, Insert, Lookup, LogFails, Logging
      <4> QED BY <3>2, <4>1 DEF Insert, Lookup, LogFails, Works
    <3> QED BY <1>5, <3>1, <3>2 DEF Sending
  <2>2. tx' = tx
    BY <1>5 DEF Sending, Setting, SetMid, SetUser, Statement, Insert, Lookup, LogFails
  <2>3. tx[c] # None /\ tx[c] # r => tx[c] \in disturbed'
    BY <2>1 DEF Send
  <2>4. tx[c] = r => own[r] = c /\ c # None
    BY NoneAssumption DEF TypeOK, Inv, Holding, OwnInv
  <2>5. tx[c] = r /\ error => c \in broken \/ r \in unlucky'
    <3>1. CASE Setting(r)
      BY <2>4, <3>1 DEF Setting, SetMid, SetUser, Statement, TypeOK, Inv, Holding, HomeInv,
                        OwnInv, Logging
    <3>2. CASE Insert(r) /\ c = LogConn(r) /\ error = ~Works(r, c)
      BY <2>4, <3>2, NoneAssumption DEF Insert, Works, Context, TypeOK
    <3>3. CASE LogFails(r)
      BY <3>3 DEF LogFails
    <3>4. CASE Lookup(r) /\ ~error
      BY <3>4
    <3> QED BY <2>1, <3>1, <3>2, <3>3, <3>4
  <2>6. broken' \subseteq broken \cup (IF error /\ tx[c] # None THEN {c} ELSE {})
    BY <2>1 DEF Send
  <2> QED BY <2>2, <2>3, <2>5, <2>6, HistoryKept DEF BrokenInv
<1>6. CASE UNCHANGED vars
  BY <1>1, <1>6 DEF vars
<1> QED BY <1>1, <1>2, <1>3, <1>4, <1>5, <1>6 DEF Next, Granted, Proceed, Elsewhere, Ending,
                                               Sending, Setting
(* How far the log of r has come, if nothing has come in between. *)
Logged(r) ==
    /\ log[r] \in {"commit", "done"} => r \in jobs \cup unwanted
    /\ log[r] = "done" => r \in entries
    /\ carried[r] /\ log[r] \in {"lookup", "enqueue"} => r \in entries
    /\ ~carried[r] => /\ log[r] # "rollback"
                      /\ log[r] \in {"lookup", "enqueue", "commit"} => r \in pending[own[r]]

Untouched == Requests \ (late \cup disturbed \cup unlucky)

LogInv == \A r \in Untouched : Logged(r)

(* A step of another request leaves the entry where it is. *)
LEMMA OthersLog ==
    ASSUME TypeOK, Inv, NEW q \in Requests, NEW r \in Requests \ {q}, Logged(r),
           entries \subseteq entries', jobs \subseteq jobs', unwanted \subseteq unwanted',
           \/ Elsewhere(q) \/ Reserve(q) \/ Clear(q) \/ Release(q)
           \/ Begin(q) \/ LogReserve(q) \/ Ending(q) \/ Sending(q)
    PROVE  Logged(r)'
<1>1. log'[r] = log[r] /\ carried'[r] = carried[r] /\ own'[r] = own[r]
  <2>1. CASE Elsewhere(q) \/ Reserve(q) \/ Clear(q) \/ Release(q)
    BY <2>1 DEF TypeOK, Elsewhere, Arrive, Leave, WantTransaction, Answer, Refuse, Enqueue,
                EnqueueFails, CommitFails, Onward, Reserve, Clear, Release, conns
  <2>2. CASE Begin(q) \/ LogReserve(q) \/ Ending(q)
    BY <2>2 DEF TypeOK, Begin, LogReserve, Open, Ending, Commit, Rollback, LogCommit,
                LogRollback, Finish
  <2>3. CASE Sending(q)
    BY <2>3 DEF TypeOK, Sending, Setting, SetMid, SetUser, Statement, Insert, Lookup, LogFails,
                LogEnds, Onward
  <2> QED BY <2>1, <2>2, <2>3
<1>2. ASSUME ~carried[r], log[r] \in {"lookup", "enqueue", "commit"}
      PROVE  pending[own[r]] \subseteq pending'[own[r]]
  <2>1. own[r] \in Conns /\ tx[own[r]] = r
    BY <1>2, Connected DEF Inv, Holding, OwnInv, Logging
  <2>2. CASE Ending(q)
    <3>1. own[q] # None /\ pending' = [pending EXCEPT ![own[q]] = {}]
      BY <2>2, Connected DEF Inv, Holding, Ending, Commit, Rollback, LogCommit, LogRollback, Finish
    <3>2. own[q] # own[r]
      BY <2>1, <3>1 DEF Inv, Holding, OwnInv
    <3> QED BY <2>1, <3>1, <3>2 DEF TypeOK
  <2>3. CASE Sending(q)
    <3>1. CASE Insert(q)
      <4>1. LogConn(q) \in Conns
        BY <3>1, Connected DEF Inv, Holding, Insert, Logging
      <4>2. \/ pending' = pending
            \/ pending' = [pending EXCEPT ![LogConn(q)] = @ \cup {q}]
        BY <3>1 DEF Insert
      <4> QED BY <2>1, <4>1, <4>2 DEF TypeOK
    <3>2. CASE Setting(q) \/ Lookup(q) \/ LogFails(q)
      BY <3>2 DEF Setting, SetMid, SetUser, Statement, Lookup, LogFails
    <3> QED BY <2>3, <3>1, <3>2 DEF Sending
  <2>4. CASE \/ Elsewhere(q) \/ Reserve(q) \/ Clear(q) \/ Release(q)
             \/ Begin(q) \/ LogReserve(q)
    BY <2>4 DEF Elsewhere, Arrive, Leave, WantTransaction, Answer, Refuse, Enqueue, EnqueueFails,
                CommitFails, Reserve, Clear, Release, Begin, LogReserve, Open, conns
  <2> QED BY <2>2, <2>3, <2>4
<1> QED BY <1>1, <1>2 DEF Logged

(* A step of the request itself takes its log on, or is one of the reasons. *)
LEMMA OwnLog ==
    ASSUME TypeOK, Inv, BrokenInv, [Next]_vars, NEW r \in Requests, r \in Untouched',
           r \notin late \cup disturbed \cup unlucky, Logged(r),
           entries \subseteq entries', jobs \subseteq jobs', unwanted \subseteq unwanted',
           \/ Elsewhere(r) \/ Reserve(r) \/ Clear(r) \/ Release(r)
           \/ Begin(r) \/ LogReserve(r) \/ Ending(r) \/ Sending(r)
    PROVE  Logged(r)'
<1>1. CASE \/ Arrive(r) \/ Leave(r) \/ WantTransaction(r) \/ Refuse(r)
           \/ Reserve(r) \/ Clear(r) \/ Release(r)
  BY <1>1 DEF Logged, Arrive, Leave, WantTransaction, Refuse, Reserve, Clear, Release, conns, audit
<1>2. CASE Answer(r) \/ LogReserve(r)
  BY <1>2 DEF TypeOK, Logged, Answer, LogReserve
<1>3. CASE Begin(r) \/ Commit(r) \/ Rollback(r)
  <2>1. log[r] = "none" /\ log' = log
    BY <1>3 DEF TypeOK, Inv, Holding, HomeInv, Begin, Commit, Rollback
  <2> QED BY <2>1, <1>3 DEF Logged, Begin, Commit, Rollback
<1>4. CASE Enqueue(r)
  BY <1>4 DEF TypeOK, Logged, Enqueue, Onward, conns
<1>5. CASE EnqueueFails(r) \/ CommitFails(r) \/ LogFails(r)
  BY <1>5 DEF Untouched, EnqueueFails, CommitFails, LogFails
<1>6. CASE LogRollback(r)
  BY <1>6 DEF Logged, LogRollback, Inv, Holding, OwnInv, TypeOK
<1>7. CASE LogCommit(r)
  <2>1. own[r] # None /\ own[r] \in Conns /\ ~carried[r]
    BY <1>7, Connected DEF Inv, Holding, OwnInv, LogCommit, TypeOK
  <2>2. own[r] \notin broken
    BY <2>1 DEF BrokenInv, Inv, Holding, OwnInv
  <2>3. r \in entries' /\ r \in jobs \cup unwanted
    BY <1>7, <2>1, <2>2 DEF LogCommit, Finish, Logged
  <2> QED BY <1>7, <2>3 DEF TypeOK, Logged, LogCommit
<1>8. CASE Setting(r)
  BY <1>8 DEF TypeOK, Inv, Holding, HomeInv, Logged, Setting, SetMid, SetUser, Statement
<1>9. CASE Insert(r) \/ Lookup(r)
  <2>1. carried[r] => clean[r] = "no"
    BY <1>9 DEF Untouched, Insert, Lookup, Send, LogConn
  <2>2. Works(r, LogConn(r)) /\ tx[LogConn(r)] = IF carried[r] THEN None ELSE r
    BY <1>9, <2>1, LogWorks DEF Insert, Lookup
  <2>3. r # None /\ LogConn(r) \in Conns
    BY <1>9, Connected, NoneAssumption DEF Inv, Holding, Insert, Lookup, Logging
  <2>4. CASE Insert(r)
    BY <2>2, <2>3, <2>4 DEF TypeOK, Logged, Insert, LogConn
  <2>5. CASE Lookup(r)
    <3>1. /\ log[r] = "lookup" /\ UNCHANGED <<carried, own, pending, entries, jobs>>
          /\ \/ log' = [log EXCEPT ![r] = "enqueue"]
             \/ log' = Onward(r) /\ r \in unwanted'
      BY <2>2, <2>5 DEF Lookup
    <3>2. \/ log'[r] = "enqueue"
          \/ log'[r] = (IF carried[r] THEN "done" ELSE "commit") /\ r \in unwanted'
      BY <3>1 DEF TypeOK, Onward
    <3> QED BY <3>1, <3>2 DEF Logged
  <2> QED BY <1>9, <2>4, <2>5
<1> QED BY <1>1, <1>2, <1>3, <1>4, <1>5, <1>6, <1>7, <1>8, <1>9 DEF Elsewhere, Ending, Sending

LEMMA LogStep ==
    ASSUME TypeOK, Inv, BrokenInv, LogInv, [Next]_vars
    PROVE  LogInv'
<1> SUFFICES ASSUME NEW r \in Untouched' PROVE Logged(r)'
  BY DEF LogInv
<1>1. /\ r \in Requests /\ r \notin late \cup disturbed \cup unlucky
      /\ entries \subseteq entries' /\ jobs \subseteq jobs' /\ unwanted \subseteq unwanted'
  BY HistoryKept DEF Untouched
<1>2. Logged(r)
  BY <1>1 DEF LogInv, Untouched
<1>3. CASE UNCHANGED vars
  BY <1>2, <1>3 DEF vars, Logged
<1>4. ASSUME NEW q \in Requests,
             \/ Elsewhere(q) \/ Reserve(q) \/ Clear(q) \/ Release(q)
             \/ Begin(q) \/ LogReserve(q) \/ Ending(q) \/ Sending(q)
      PROVE  Logged(r)'
  <2>1. CASE q = r
    BY <1>1, <1>2, <1>4, <2>1, OwnLog
  <2>2. CASE q # r
    BY <1>1, <1>2, <1>4, <2>2, OthersLog
  <2> QED BY <2>1, <2>2
<1> QED BY <1>3, <1>4 DEF Next, Granted, Proceed, Elsewhere, Ending,
                                               Sending, Setting

LEMMA LogCorrect == Spec => []LogInv
<1>1. Init => BrokenInv /\ LogInv
  BY DEF Init, BrokenInv, LogInv, Logged, Untouched
<1>2. TypeOK /\ Inv /\ BrokenInv /\ LogInv /\ [Next]_vars => BrokenInv' /\ LogInv'
  BY BrokenStep, LogStep
<1> QED BY TypeCorrect, <1>1, <1>2, PTL DEF Spec

(* A log that has ended has stored its entry and handed it on, unless it met a *)
(* failure, was sent to a connection given back, or was in a transaction that  *)
(* another request's statement came into (audit.interceptor.ts, audit.service.ts). *)
THEOREM AuditIsComplete == Spec => []AuditComplete
<1>1. TypeOK /\ LogInv => AuditComplete
  BY DEF LogInv, Logged, Untouched, AuditComplete
<1> QED BY TypeCorrect, LogCorrect, <1>1, PTL
-----------------------------------------------------------------------------
(* The delivery *)

(* A job that is not over has an attempt and a stall left. *)
Unfinished == Active \cup {"new", "found", "waiting", "done"}

TriesInv ==
    \A e \in Events :
        /\ job[e] \in Unfinished => tries[e] < Attempts /\ stalls[e] <= MaxStalls
        /\ job[e] = "failed" => tries[e] = Attempts \/ stalls[e] > MaxStalls
        /\ tries[e] + stalls[e] <= Attempts + MaxStalls

(* What the endpoint accepted: unheard of each time, or just now. *)
TakenInv ==
    \A e \in Events :
        /\ taken[e] = unheard[e] + (IF job[e] \in {"reset", "done"} THEN 1 ELSE 0)
        /\ taken[e] <= tries[e] + stalls[e]
                         + (IF job[e] \in {"reset", "count", "disable", "done"} THEN 1 ELSE 0)
        /\ job[e] \in {"new", "found"} => taken[e] = 0

(* Every failed post of the streak is counted, or its job is about to. *)
Counting == {e \in Events : job[e] = "count"}

StreakInv ==
    ~spoilt => /\ streak <= failures + Cardinality(Counting)
               /\ streak >= Threshold /\ enabled =>
                     \E e \in Events : job[e] \in {"count", "disable"}

LEMMA CountingFinite == IsFiniteSet(Counting) /\ Cardinality(Counting) \in Nat
BY EventsAssumption, FS_Subset, FS_CardinalityType DEF Counting

(* One job begins to count, or ends, and the others stay. *)
LEMMA CountingMore ==
    ASSUME SiemTypeOK, NEW e \in Events,
           Step(e, "post", "count") \/ Step(e, "reset", "count")
    PROVE  Cardinality(Counting') = Cardinality(Counting) + 1
<1>1. Counting' = Counting \cup {e} /\ e \notin Counting
  BY DEF SiemTypeOK, Step, Counting
<1> QED BY <1>1, CountingFinite, FS_AddElement

LEMMA CountingLess ==
    ASSUME SiemTypeOK, NEW e \in Events, job[e] = "count",
           NEW to \in {"disable", "waiting", "failed"}, job' = [job EXCEPT ![e] = to]
    PROVE  /\ Cardinality(Counting') = Cardinality(Counting) - 1
           /\ Counting' = Counting \ {e}
<1>1. Counting' = Counting \ {e} /\ e \in Counting
  BY DEF SiemTypeOK, Counting
<1> QED BY <1>1, CountingFinite, FS_RemoveElement

LEMMA CountingSame ==
    ASSUME SiemTypeOK, NEW e \in Events, NEW from, NEW to, from # "count", to # "count",
           Step(e, from, to)
    PROVE  Counting' = Counting
BY DEF SiemTypeOK, Step, Counting

(* A failed attempt. *)
LEMMA FailedTry ==
    ASSUME SiemTypeOK, TriesInv, NEW e \in Events, job[e] \in Active,
           Fail(e), UNCHANGED stalls
    PROVE  /\ job' \in [Events -> {"new", "found", "waiting", "done", "failed"} \cup Active]
           /\ tries' \in [Events -> 0..Attempts]
           /\ TriesInv'
           /\ job'[e] \in {"waiting", "failed"} /\ tries'[e] = tries[e] + 1
           /\ \A f \in Events \ {e} : job'[f] = job[f] /\ tries'[f] = tries[f]
<1>1. tries[e] < Attempts /\ stalls[e] <= MaxStalls
  BY DEF TriesInv, Unfinished
<1>2. /\ job' \in [Events -> {"new", "found", "waiting", "done", "failed"} \cup Active]
      /\ job'[e] = IF tries[e] + 1 < Attempts THEN "waiting" ELSE "failed"
      /\ \A f \in Events \ {e} : job'[f] = job[f] /\ tries'[f] = tries[f]
      /\ tries'[e] = tries[e] + 1
  BY DEF SiemTypeOK, Fail
<1>3. tries' \in [Events -> 0..Attempts]
  BY NumbersAssumption, <1>1 DEF SiemTypeOK, Fail
<1>4. TriesInv'
  BY NumbersAssumption, <1>1, <1>2 DEF SiemTypeOK, TriesInv, Unfinished, Active
<1> QED BY <1>2, <1>3, <1>4

(* Steps that only move a job on. *)
Moving(e) == Queue(e) \/ Pickup(e) \/ Resolve(e)

LEMMA SiemTypeStep ==
    ASSUME SiemTypeOK, TriesInv, [SiemNext]_webhook
    PROVE  SiemTypeOK' /\ TriesInv'
<1>1. CASE UNCHANGED webhook
  BY <1>1 DEF webhook, SiemTypeOK, TriesInv
<1>2. CASE Save \/ Delete
  <2>1. url' \in 0..MaxSaves
    BY NumbersAssumption, <1>2 DEF Save, Delete, SiemTypeOK
  <2>2. UNCHANGED <<failures, job, target, tries, stalls, taken, unheard, hasty, afterEnd>>
    BY <1>2 DEF Save, Delete, delivery, past
  <2>3. enabled' \in BOOLEAN /\ deleted' \in BOOLEAN /\ spoilt' \in BOOLEAN
    BY <1>2 DEF Save, Delete, past, SiemTypeOK
  <2>4. streak' \in Nat /\ since' \in Nat
    BY <1>2 DEF Save, Delete, past, SiemTypeOK
  <2> QED BY <2>1, <2>2, <2>3, <2>4 DEF SiemTypeOK, TriesInv
<1>3. ASSUME NEW e \in Events, Find(e) \/ Moving(e)
      PROVE  SiemTypeOK' /\ TriesInv'
  BY <1>3 DEF Find, Moving, Queue, Pickup, Resolve, Step,
       config, past, SiemTypeOK, TriesInv,
              Unfinished, Active
<1>4. ASSUME NEW e \in Events, Accepted(e) \/ Refused(e) \/ Reset(e)
             \/ ResetThrows(e)
      PROVE  SiemTypeOK' /\ TriesInv'
  <2>1. /\ job' \in [Events -> {"new", "found", "waiting", "done", "failed"} \cup Active]
        /\ \A f \in Events :
              /\ job'[f] \in Unfinished => job[f] \in Unfinished
              /\ job'[f] = "failed" => job[f] = "failed"
        /\ UNCHANGED <<url, enabled, deleted, target, tries, stalls, hasty>>
    BY <1>4 DEF Accepted, Refused, Reset, ResetThrows, Step,
         config, SiemTypeOK, Active, Unfinished
  <2>2. TriesInv'
    BY <2>1 DEF TriesInv
  <2>3. failures' \in Nat
    BY <1>4 DEF Accepted, Refused, Reset, ResetThrows, config,
         SiemTypeOK
  <2>7. spoilt' \in BOOLEAN
    BY <1>4 DEF Accepted, Refused, Reset, ResetThrows, SiemTypeOK
  <2>4. taken' \in [Events -> Nat]
    BY <1>4 DEF Accepted, Refused, Reset, ResetThrows, SiemTypeOK
  <2>5. unheard' \in [Events -> Nat]
    BY <1>4 DEF Accepted, Refused, Reset, ResetThrows, SiemTypeOK
  <2>6. streak' \in Nat /\ since' \in Nat /\ afterEnd' \in BOOLEAN
    BY <1>4 DEF Accepted, Refused, Reset, ResetThrows, Posts,
         SiemTypeOK
  <2> QED BY <2>1, <2>2, <2>3, <2>4, <2>5, <2>6, <2>7 DEF SiemTypeOK
<1>5. ASSUME NEW e \in Events,
             \/ ResolveThrows(e) \/ Disable(e) \/ CountThrows(e)
             \/ Count(e) /\ Fail(e)
      PROVE  SiemTypeOK' /\ TriesInv'
  <2>1. job[e] \in Active /\ Fail(e) /\ UNCHANGED stalls
    BY <1>5 DEF ResolveThrows, Disable, CountThrows, Count, Step,
         Active
  <2>2. /\ job' \in [Events -> {"new", "found", "waiting", "done", "failed"} \cup Active]
        /\ tries' \in [Events -> 0..Attempts] /\ TriesInv'
    BY <2>1, FailedTry
  <2>3. UNCHANGED <<url, deleted, target, stalls, taken, unheard, streak, since, afterEnd>>
    BY <1>5 DEF ResolveThrows, Disable, CountThrows, Count, config,
         past
  <2>4. enabled' \in BOOLEAN /\ spoilt' \in BOOLEAN
    BY <1>5 DEF ResolveThrows, Disable, CountThrows, Count, config,
         past, SiemTypeOK
  <2>5. failures' \in Nat
    BY <1>5 DEF ResolveThrows, Disable, CountThrows, Count, config,
         past, SiemTypeOK
  <2>6. hasty' \in BOOLEAN
    BY <1>5 DEF ResolveThrows, Disable, CountThrows, Count, config,
         past, SiemTypeOK
  <2> QED BY <2>2, <2>3, <2>4, <2>5, <2>6 DEF SiemTypeOK
<1>6. ASSUME NEW e \in Events, Count(e), Step(e, "count", "disable"), UNCHANGED tries
      PROVE  SiemTypeOK' /\ TriesInv'
  BY <1>6 DEF Count, Step, SiemTypeOK, TriesInv, Unfinished, Active
<1>7. ASSUME NEW e \in Events, Stall(e)
      PROVE  SiemTypeOK' /\ TriesInv'
  <2>1. tries[e] < Attempts /\ stalls[e] <= MaxStalls
    BY <1>7 DEF TriesInv, Stall, Unfinished
  <2>2. /\ job' \in [Events -> {"new", "found", "waiting", "done", "failed"} \cup Active]
        /\ job'[e] = IF stalls[e] < MaxStalls THEN "waiting" ELSE "failed"
        /\ stalls'[e] = stalls[e] + 1 /\ tries' = tries
        /\ \A f \in Events \ {e} : job'[f] = job[f] /\ stalls'[f] = stalls[f]
    BY <1>7 DEF Stall, SiemTypeOK
  <2>3. stalls' \in [Events -> 0..MaxStalls + 1]
    BY NumbersAssumption, <1>7, <2>1 DEF Stall, SiemTypeOK
  <2>4. TriesInv'
    BY NumbersAssumption, <2>1, <2>2 DEF SiemTypeOK, TriesInv, Unfinished, Active
  <2>5. unheard' \in [Events -> Nat] /\ spoilt' \in BOOLEAN
    BY <1>7 DEF Stall, SiemTypeOK
  <2> QED BY <1>7, <2>2, <2>3, <2>4, <2>5 DEF Stall, config, SiemTypeOK
<1>8. ASSUME NEW e \in Events, Count(e)
      PROVE  Fail(e) \/ (Step(e, "count", "disable") /\ UNCHANGED tries)
  BY <1>8 DEF Count
<1> QED BY <1>1, <1>2, <1>3, <1>4, <1>5, <1>6, <1>7, <1>8 DEF SiemNext,
       Work, Process, Moving

LEMMA SiemTypeInit == SiemInit => SiemTypeOK /\ TriesInv
<1>1. /\ 0 \in 0..Attempts /\ 0 \in 0..MaxStalls + 1 /\ 0 \in 0..MaxSaves
      /\ 0 < Attempts /\ 0 <= MaxStalls /\ 0 + 0 <= Attempts + MaxStalls
  BY NumbersAssumption
<1>2. SiemInit => SiemTypeOK
  <2>1. SiemInit => spoilt \in BOOLEAN /\ hasty \in BOOLEAN /\ afterEnd \in BOOLEAN
    BY DEF SiemInit
  <2>2. SiemInit => enabled \in BOOLEAN /\ deleted \in BOOLEAN
    BY DEF SiemInit
  <2> QED BY <1>1, <2>1, <2>2 DEF SiemInit, SiemTypeOK
<1>3. SiemInit => TriesInv
  BY <1>1 DEF SiemInit, TriesInv
<1> QED BY <1>2, <1>3

(* Every variable of the delivery stays in its type; a job that goes on has an *)
(* attempt left, and the two reasons to do it again are bounded together.      *)
THEOREM DeliveryTypes == SiemSpec => [](SiemTypeOK /\ TriesInv)
<1>1. SiemTypeOK /\ TriesInv /\ [SiemNext]_webhook => (SiemTypeOK /\ TriesInv)'
  BY SiemTypeStep
<1> QED BY SiemTypeInit, <1>1, PTL DEF SiemSpec

LEMMA TakenStep ==
    ASSUME SiemTypeOK, TriesInv, TakenInv, [SiemNext]_webhook
    PROVE  TakenInv'
<1>1. CASE UNCHANGED webhook \/ Save \/ Delete
  <2>1. UNCHANGED <<job, tries, stalls, taken, unheard>>
    BY <1>1 DEF webhook, Save, Delete, delivery, past
  <2> QED BY <2>1 DEF TakenInv
<1>2. ASSUME NEW e \in Events, Find(e) \/ Moving(e)
      PROVE  TakenInv'
  BY <1>2 DEF Find, Moving, Queue, Pickup, Resolve, Step,
       config, past, SiemTypeOK, TakenInv
<1>3. ASSUME NEW e \in Events, Accepted(e)
      PROVE  TakenInv'
  BY <1>3 DEF Accepted, Step, SiemTypeOK, TakenInv
<1>4. ASSUME NEW e \in Events, Refused(e)
      PROVE  TakenInv'
  BY <1>4 DEF Refused, Step, SiemTypeOK, TakenInv
<1>5. ASSUME NEW e \in Events, Reset(e) \/ ResetThrows(e)
      PROVE  TakenInv'
  BY <1>5 DEF Reset, ResetThrows, Step, SiemTypeOK, TakenInv
<1>6. ASSUME NEW e \in Events, job[e] \in {"resolve", "count", "disable"}, Fail(e),
             UNCHANGED <<stalls, taken, unheard>>
      PROVE  TakenInv'
  <2>1. /\ job'[e] \in {"waiting", "failed"} /\ tries'[e] = tries[e] + 1
        /\ \A f \in Events \ {e} : job'[f] = job[f] /\ tries'[f] = tries[f]
    BY <1>6, FailedTry DEF Active
  <2> QED BY <1>6, <2>1 DEF SiemTypeOK, TakenInv
<1>7. ASSUME NEW e \in Events, ResolveThrows(e) \/ Disable(e) \/ CountThrows(e)
      PROVE  TakenInv'
  <2>1. /\ job[e] \in {"resolve", "count", "disable"} /\ Fail(e)
        /\ UNCHANGED <<stalls, taken, unheard>>
    BY <1>7 DEF ResolveThrows, Disable, CountThrows, config, past
  <2> QED BY <1>6, <2>1
<1>8. ASSUME NEW e \in Events, Count(e)
      PROVE  TakenInv'
  <2>1. CASE Fail(e)
    BY <1>6, <1>8, <2>1 DEF Count
  <2>2. CASE Step(e, "count", "disable") /\ UNCHANGED tries
    BY <1>8, <2>2 DEF Count, Step, SiemTypeOK, TakenInv
  <2> QED BY <1>8, <2>1, <2>2 DEF Count
<1>9. ASSUME NEW e \in Events, Stall(e)
      PROVE  TakenInv'
  <2>1. /\ job'[e] \in {"waiting", "failed"} /\ stalls'[e] = stalls[e] + 1
        /\ unheard'[e] = IF job[e] = "reset" THEN unheard[e] + 1 ELSE unheard[e]
        /\ UNCHANGED <<tries, taken>> /\ job[e] \in Active
        /\ \A f \in Events \ {e} :
              job'[f] = job[f] /\ stalls'[f] = stalls[f] /\ unheard'[f] = unheard[f]
    BY <1>9 DEF Stall, SiemTypeOK
  <2> QED BY <2>1 DEF SiemTypeOK, TakenInv, Active
<1> QED BY <1>1, <1>2, <1>3, <1>4, <1>5, <1>7, <1>8, <1>9 DEF SiemNext,
       Work, Process, Moving

LEMMA StreakStep ==
    ASSUME SiemTypeOK, TriesInv, StreakInv, [SiemNext]_webhook
    PROVE  StreakInv'
<1> DEFINE Claim == \E e \in Events : job[e] \in {"count", "disable"}
<1> SUFFICES ASSUME ~spoilt'
             PROVE  /\ streak' <= failures' + Cardinality(Counting')
                    /\ streak' >= Threshold /\ enabled' => Claim'
  BY DEF StreakInv
<1>1. ASSUME UNCHANGED <<job, failures, streak>>, ~spoilt, enabled' => enabled
      PROVE  /\ streak' <= failures' + Cardinality(Counting')
             /\ streak' >= Threshold /\ enabled' => Claim'
  BY <1>1 DEF StreakInv, Counting
<1>2. CASE UNCHANGED webhook \/ Delete
  BY <1>1, <1>2 DEF webhook, Delete, delivery, past
<1>3. CASE Save
  <2>1. Counting' = Counting /\ streak' = 0 /\ failures' = failures
    BY <1>3 DEF Save, delivery, Counting
  <2> QED BY NumbersAssumption, <2>1, CountingFinite DEF SiemTypeOK
<1>4. ASSUME NEW e \in Events, NEW from, NEW to, from \notin {"count", "disable"},
             to # "count",
             Step(e, from, to), UNCHANGED <<failures, enabled>>, ~spoilt,
             streak' \in {0, streak}
      PROVE  /\ streak' <= failures' + Cardinality(Counting')
             /\ streak' >= Threshold /\ enabled' => Claim'
  <2>1. Counting' = Counting
    BY <1>4, CountingSame
  <2>2. Claim => Claim'
    BY <1>4 DEF Step, SiemTypeOK
  <2> QED BY NumbersAssumption, <1>4, <2>1, <2>2, CountingFinite DEF StreakInv, SiemTypeOK
<1>5. ASSUME NEW e \in Events, Find(e) \/ Moving(e) \/ Accepted(e)
      PROVE  /\ streak' <= failures' + Cardinality(Counting')
             /\ streak' >= Threshold /\ enabled' => Claim'
  <2>1. UNCHANGED <<failures, enabled, spoilt>> /\ streak' \in {0, streak}
    BY <1>5 DEF Find, Moving, Queue, Pickup, Resolve, Accepted,
         config, past
  <2>2. PICK from \in {"new", "found", "waiting", "resolve", "post"},
             to \in {"found", "waiting", "resolve", "post", "reset"} : Step(e, from, to)
    BY <1>5 DEF Find, Moving, Queue, Pickup, Resolve, Accepted
  <2> QED BY <1>4, <2>1, <2>2
<1>6. ASSUME NEW e \in Events, Refused(e) \/ ResetThrows(e)
      PROVE  /\ streak' <= failures' + Cardinality(Counting')
             /\ streak' >= Threshold /\ enabled' => Claim'
  <2>1. Cardinality(Counting') = Cardinality(Counting) + 1
    BY <1>6, CountingMore DEF Refused, ResetThrows
  <2>2. streak' \in {streak, streak + 1} /\ UNCHANGED <<failures, spoilt>>
    BY <1>6 DEF Refused, ResetThrows, config
  <2>3. job'[e] = "count"
    BY <1>6 DEF Refused, ResetThrows, Step, SiemTypeOK
  <2> QED BY <2>1, <2>2, <2>3, CountingFinite DEF StreakInv, SiemTypeOK
<1>7. ASSUME NEW e \in Events, Reset(e)
      PROVE  /\ streak' <= failures' + Cardinality(Counting')
             /\ streak' >= Threshold /\ enabled' => Claim'
  <2>3. failures' = 0 /\ streak' = streak /\ spoilt' = (spoilt \/ streak > 0)
    BY <1>7 DEF Reset
  <2>4. ~(streak > 0)
    BY <2>3, Zenon
  <2>1. streak' = 0 /\ failures' = 0
    BY <2>3, <2>4 DEF SiemTypeOK
  <2>2. Counting' = Counting
    BY <1>7, CountingSame DEF Reset
  <2> QED BY NumbersAssumption, <2>1, <2>2, CountingFinite
<1>8. ASSUME NEW e \in Events, ResolveThrows(e)
      PROVE  /\ streak' <= failures' + Cardinality(Counting')
             /\ streak' >= Threshold /\ enabled' => Claim'
  <2>1. UNCHANGED <<failures, enabled, spoilt, streak>>
    BY <1>8 DEF ResolveThrows, config, past
  <2>2. PICK to \in {"waiting", "failed"} : Step(e, "resolve", to)
    BY <1>8 DEF ResolveThrows, Fail, Step
  <2> QED BY <1>4, <2>1, <2>2
<1>9. ASSUME NEW e \in Events, Count(e)
      PROVE  /\ streak' <= failures' + Cardinality(Counting')
             /\ streak' >= Threshold /\ enabled' => Claim'
  <2>1. failures' = failures + 1 /\ UNCHANGED <<enabled, streak, spoilt>> /\ job[e] = "count"
    BY <1>9 DEF Count
  <2>2. PICK to \in {"disable", "waiting", "failed"} :
           /\ job' = [job EXCEPT ![e] = to]
           /\ to = "disable" <=> failures + 1 >= Threshold
    BY <1>9, <2>1 DEF Count, Step, Fail
  <2>3. Cardinality(Counting') = Cardinality(Counting) - 1 /\ Counting' = Counting \ {e}
    BY <2>1, <2>2, CountingLess
  <2>4. streak <= failures + Cardinality(Counting)
    BY <2>1 DEF StreakInv
  <2>5. streak' <= failures' + Cardinality(Counting')
    BY <2>1, <2>3, <2>4, CountingFinite DEF SiemTypeOK
  <2>6. CASE to = "disable"
    BY <2>2, <2>5, <2>6 DEF SiemTypeOK
  <2>7. ASSUME to # "disable", streak' >= Threshold
        PROVE  Claim'
    (* The streak is longer than what is counted: another job is about to. *)
    <3>1. Cardinality(Counting') # 0
      BY NumbersAssumption, <2>1, <2>2, <2>3, <2>4, <2>7, CountingFinite DEF SiemTypeOK
    <3>2. PICK f \in Counting' : TRUE
      BY <3>1, FS_EmptySet
    <3> QED BY <3>2 DEF Counting
  <2> QED BY <2>5, <2>6, <2>7
<1>10. ASSUME NEW e \in Events, Disable(e)
       PROVE  /\ streak' <= failures' + Cardinality(Counting')
              /\ streak' >= Threshold /\ enabled' => Claim'
  <2>1. UNCHANGED <<failures, spoilt, streak>> /\ ~enabled'
    BY <1>10 DEF Disable, past
  <2>2. PICK to \in {"waiting", "failed"} : Step(e, "disable", to)
    BY <1>10 DEF Disable, Fail, Step
  <2>3. Counting' = Counting
    BY <2>2, CountingSame
  <2> QED BY <2>1, <2>3 DEF StreakInv
<1>11. ASSUME NEW e \in Events, CountThrows(e)
       PROVE  FALSE
  BY <1>11 DEF CountThrows
<1>12. ASSUME NEW e \in Events, Stall(e)
       PROVE  /\ streak' <= failures' + Cardinality(Counting')
              /\ streak' >= Threshold /\ enabled' => Claim'
  <2>1. /\ UNCHANGED <<failures, enabled, streak>> /\ ~spoilt
        /\ job[e] \notin {"count", "disable"}
    BY <1>12 DEF Stall, config
  <2>2. PICK to \in {"waiting", "failed"} : Step(e, job[e], to)
    BY <1>12 DEF Stall, Step
  <2> QED BY <1>4, <2>1, <2>2
<1> QED BY <1>2, <1>3, <1>5, <1>6, <1>7, <1>8, <1>9, <1>10, <1>11, <1>12 DEF SiemNext,
     Work, Process, Moving

LEMMA SiemHistoryInit == SiemInit => TakenInv /\ StreakInv
<1>1. SiemInit => TakenInv
  BY DEF SiemInit, TakenInv
<1>2. SiemInit => StreakInv
  BY NumbersAssumption, CountingFinite DEF SiemInit, StreakInv
<1> QED BY <1>1, <1>2

LEMMA DeliveryHistory == SiemSpec => [](TakenInv /\ StreakInv)
<1>1. SiemTypeOK /\ TriesInv /\ TakenInv /\ StreakInv /\ [SiemNext]_webhook
         => (TakenInv /\ StreakInv)'
  BY TakenStep, StreakStep
<1> QED BY DeliveryTypes, SiemHistoryInit, <1>1, PTL DEF SiemSpec

(* An endpoint gets an event again only for an acceptance that the worker did  *)
(* not hear of, or could not store (siem-webhook.processor.ts).                *)
THEOREM RepeatedUnheard == SiemSpec => []RepeatedOnlyUnheard
<1>1. SiemTypeOK /\ TakenInv => RepeatedOnlyUnheard
  BY DEF SiemTypeOK, TakenInv, RepeatedOnlyUnheard
<1> QED BY DeliveryTypes, DeliveryHistory, <1>1, PTL

(* An endpoint gets an event at most once for each attempt its job has and for  *)
(* each time the job may be found stalled (siem-webhook.producer.ts, BullMQ).   *)
THEOREM DuplicatesAreBounded == SiemSpec => []DuplicatesBounded
<1>1. SiemTypeOK /\ TriesInv /\ TakenInv => DuplicatesBounded
  BY NumbersAssumption DEF SiemTypeOK, TriesInv, TakenInv, Unfinished, Active,
       DuplicatesBounded
<1> QED BY DeliveryTypes, DeliveryHistory, <1>1, PTL

(* An endpoint that refuses without a break is disabled, however the counts of *)
(* its jobs interleave, for any number of jobs at once (siem-webhook.processor.ts). *)
THEOREM FailingDisabled == SiemSpec => []FailingIsDisabled
<1>1. StreakInv => FailingIsDisabled
  BY DEF StreakInv, FailingIsDisabled
<1> QED BY DeliveryHistory, <1>1, PTL
-----------------------------------------------------------------------------
(* The requests and the delivery together *)

(* A step of the whole is a step of each part, or leaves it alone. *)
LEMMA PartsStep ==
    ASSUME [TrailNext]_trail
    PROVE  [Next]_vars /\ [SiemNext]_webhook
<1>1. CASE UNCHANGED trail
  BY <1>1 DEF trail
<1>2. CASE Delivers
  BY <1>2 DEF Delivers, SiemNext, Work
<1>3. ASSUME NEW r \in Requests, Looks(r) \/ Queues(r) \/ Serves(r)
      PROVE  [Next]_vars /\ [SiemNext]_webhook
  <2>1. Next
    BY <1>3 DEF Looks, Queues, Serves, Next, Proceed
  <2>2. [SiemNext]_webhook
    BY <1>3 DEF Looks, Queues, Serves, SiemNext, Work
  <2> QED BY <2>1, <2>2
<1> QED BY <1>1, <1>2, <1>3 DEF TrailNext

(* Each part keeps what was proved about it: neither is in the way of the other. *)
THEOREM PartsAreKept == TrailSpec => Spec /\ SiemSpec
<1>1. [TrailNext]_trail => [Next]_vars /\ [SiemNext]_webhook
  BY PartsStep
<1> QED BY <1>1, PTL DEF TrailSpec, TrailInit, Spec, SiemSpec

(* The log of an audited request and its job. *)
Early == {"none", "reserve", "insert", "lookup"}

LinkInv ==
    \A r \in Events :
        /\ log[r] \in Early => job[r] = "new"
        /\ log[r] = "enqueue" => job[r] = "found"
        /\ job[r] \in {"new", "found"} <=> r \notin jobs
        /\ job[r] = "found" => log[r] = "enqueue" \/ r \in unlucky

(* What a step that does not look up or queue does to the logs. *)
LEMMA ServesLog ==
    ASSUME TypeOK, Inv, NEW q \in Requests, Serves(q)
    PROVE  /\ UNCHANGED <<job, jobs>> /\ unlucky \subseteq unlucky'
           /\ \A r \in Requests :
                 /\ log'[r] \in Early => log[r] \in Early
                 /\ log'[r] = "enqueue" => log[r] = "enqueue"
                 /\ log[r] = "enqueue" => log'[r] = "enqueue" \/ r \in unlucky'
<1>1. UNCHANGED job
  BY DEF Serves, webhook
<1>2. CASE \/ Arrive(q) \/ Leave(q) \/ Granted(q) \/ Clear(q) \/ Release(q)
           \/ Setting(q) \/ WantTransaction(q) \/ Commit(q) \/ Rollback(q) \/ Refuse(q)
  <2>1. UNCHANGED <<jobs, unlucky>> /\ (UNCHANGED log \/ LogReserve(q))
    BY <1>2 DEF Granted, Arrive, Leave, Reserve, Begin, LogReserve, Clear, Release, Setting,
                SetMid, SetUser, Statement, WantTransaction, Commit, Rollback, Refuse, audit
  <2> QED BY <1>1, <2>1 DEF LogReserve, TypeOK, Early
<1>3. CASE Answer(q) \/ Insert(q) \/ LogCommit(q) \/ LogRollback(q)
  <2>1. CASE Answer(q)
    BY <1>1, <2>1 DEF Answer, TypeOK, Inv, Holding, HomeInv, Early, audit
  <2>2. CASE Insert(q)
    BY <1>1, <2>2 DEF Insert, LogEnds, TypeOK, Early
  <2>3. CASE LogCommit(q) \/ LogRollback(q)
    BY <1>1, <2>3 DEF LogCommit, LogRollback, TypeOK, Early
  <2> QED BY <1>3, <2>1, <2>2, <2>3
<1>4. CASE LogFails(q) \/ CommitFails(q) \/ EnqueueFails(q)
  <2>1. CASE LogFails(q)
    BY <1>1, <2>1 DEF LogFails, LogEnds, Onward, TypeOK, Early
  <2>2. CASE CommitFails(q)
    BY <1>1, <2>2 DEF CommitFails, TypeOK, Early
  <2>3. CASE EnqueueFails(q)
    BY <1>1, <2>3 DEF EnqueueFails, Onward, TypeOK, Early
  <2> QED BY <1>4, <2>1, <2>2, <2>3
<1> QED BY <1>2, <1>3, <1>4 DEF Serves, Setting

LEMMA LinkStep ==
    ASSUME TypeOK, Inv, SiemTypeOK, LinkInv, Events \subseteq Requests, [TrailNext]_trail
    PROVE  LinkInv'
<1>1. CASE UNCHANGED trail
  BY <1>1 DEF trail, vars, webhook, LinkInv
<1>2. CASE Delivers
  <2>1. UNCHANGED <<log, jobs, unlucky>>
    BY <1>2 DEF Delivers, vars
  <2>2. \A r \in Events : job[r] \in {"new", "found"} \/ job'[r] \in {"new", "found"}
                              => job'[r] = job[r]
    BY <1>2 DEF Delivers, Save, Delete, Process, Pickup, Resolve,
                ResolveThrows, Accepted, Refused, Reset, ResetThrows,
                Count, Disable, CountThrows, Stall, Fail, Step,
                Active, delivery, SiemTypeOK
  <2> QED BY <2>1, <2>2 DEF LinkInv
<1>3. ASSUME NEW q \in Requests, Looks(q)
      PROVE  LinkInv'
  <2>1. /\ log[q] = "lookup" /\ UNCHANGED <<jobs, unlucky>>
        /\ \E l \in {"enqueue", "commit", "done"} : log' = [log EXCEPT ![q] = l]
    BY <1>3 DEF Looks, Lookup, Onward
  <2>2. IF q \in Events /\ log'[q] = "enqueue" THEN job' = [job EXCEPT ![q] = "found"]
                                                ELSE job' = job
    BY <1>3 DEF Looks, Find, Step, webhook
  <2> QED BY <2>1, <2>2 DEF LinkInv, TypeOK, SiemTypeOK, Early
<1>4. ASSUME NEW q \in Requests, Queues(q)
      PROVE  LinkInv'
  <2>1. /\ log[q] = "enqueue" /\ jobs' = jobs \cup {q} /\ UNCHANGED unlucky
        /\ \E l \in {"commit", "done"} : log' = [log EXCEPT ![q] = l]
    BY <1>4 DEF Queues, Enqueue, Onward
  <2>2. IF q \in Events THEN job' = [job EXCEPT ![q] = "waiting"] ELSE job' = job
    BY <1>4 DEF Queues, Queue, Step, webhook
  <2> QED BY <2>1, <2>2 DEF LinkInv, TypeOK, SiemTypeOK, Early
<1>5. ASSUME NEW q \in Requests, Serves(q)
      PROVE  LinkInv'
  BY <1>5, ServesLog DEF LinkInv
<1> QED BY <1>1, <1>2, <1>3, <1>4, <1>5 DEF TrailNext

LEMMA LinkCorrect ==
    ASSUME Events \subseteq Requests
    PROVE  TrailSpec => []LinkInv
<1>1. TrailInit => LinkInv
  BY DEF TrailInit, Init, SiemInit, LinkInv, Early
<1>2. TypeOK /\ Inv /\ SiemTypeOK /\ LinkInv /\ [TrailNext]_trail => LinkInv'
  BY LinkStep
<1> QED BY PartsAreKept, TypeCorrect, DeliveryTypes, <1>1, <1>2, PTL DEF TrailSpec

LEMMA TrailInvariants ==
    ASSUME Events \subseteq Requests
    PROVE  TrailSpec => [](/\ TypeOK /\ Inv /\ LogInv
                           /\ SiemTypeOK /\ TriesInv /\ TakenInv /\ LinkInv)
BY PartsAreKept, TypeCorrect, LogCorrect, DeliveryTypes, DeliveryHistory, LinkCorrect, PTL

(* What an endpoint was told is in the tenant's own log or about to be stored  *)
(* there, unless the log met a failure, a connection given back or another     *)
(* request's statement (audit.service.ts, siem-webhook.processor.ts).          *)
THEOREM ToldRecorded ==
    ASSUME Events \subseteq Requests
    PROVE  TrailSpec => []ToldIsRecorded
<1>1. ASSUME TypeOK, Inv, LogInv, SiemTypeOK, TriesInv, TakenInv, LinkInv
      PROVE  ToldIsRecorded
  <2> SUFFICES ASSUME NEW r \in Events \ Touched, taken[r] > 0
               PROVE  r \in entries \/ log[r] = "commit"
    BY DEF ToldIsRecorded
  <2>1. r \in Requests /\ Logged(r)
    BY <1>1 DEF LogInv, Untouched, Touched
  <2>2. job[r] \notin {"new", "found"}
    BY <1>1 DEF TakenInv, SiemTypeOK
  <2>3. log[r] \in {"commit", "rollback", "done"}
    BY <1>1, <2>1, <2>2 DEF LinkInv, TypeOK, Early
  <2> QED BY <1>1, <2>1, <2>3 DEF Logged, Inv, Holding, OwnInv
<1> QED BY TrailInvariants, <1>1, PTL

(* An audited action whose log has ended is recorded, and told to the endpoint, *)
(* given up after every attempt, or of a tenant without an enabled webhook -    *)
(* whatever requests, jobs and administrators do in between, but for the same   *)
(* three causes.                                                               *)
THEOREM AuditedTold ==
    ASSUME Events \subseteq Requests
    PROVE  TrailSpec => []AuditedIsTold
<1>1. ASSUME TypeOK, Inv, LogInv, SiemTypeOK, TriesInv, TakenInv, LinkInv
      PROVE  AuditedIsTold
  <2> SUFFICES ASSUME NEW r \in Events \ Touched, log[r] = "done"
               PROVE  /\ r \in entries
                      /\ \/ job[r] \notin {"new", "found", "done", "failed"}
                         \/ job[r] = "done" /\ taken[r] > 0
                         \/ job[r] = "failed" /\ (tries[r] = Attempts \/ stalls[r] > MaxStalls)
                         \/ job[r] = "new" /\ r \in unwanted
    BY DEF AuditedIsTold
  <2>1. r \in entries /\ r \in jobs \cup unwanted
    BY <1>1 DEF LogInv, Logged, Untouched, Touched
  <2>2. job[r] = "done" => taken[r] > 0
    BY <1>1 DEF TakenInv, SiemTypeOK
  <2>3. job[r] = "failed" => tries[r] = Attempts \/ stalls[r] > MaxStalls
    BY <1>1 DEF TriesInv
  <2>4. job[r] \in {"new", "found"} => job[r] = "new" /\ r \in unwanted
    BY <1>1, <2>1 DEF LinkInv, Touched
  <2> QED BY <2>1, <2>2, <2>3, <2>4
<1> QED BY TrailInvariants, <1>1, PTL
=============================================================================
