---------------------------- MODULE MceTokens_proofs ----------------------------
(* What holds of MceTokens for any number of processes, callers, connections  *)
(* and failures.                                                               *)
EXTENDS MceTokens, FiniteSetTheorems, TLAPS

(* The types, but for the bound on the free connections: that follows from    *)
(* what is known of the connections, below.                                    *)
ShapeInv ==
    /\ wallet \in [pair : Nat, fresh : BOOLEAN]
    /\ good \subseteq Nat /\ live \subseteq Nat /\ issued \in Nat
    /\ lock \in [Procs -> Callers \cup {None}]
    /\ pc \in [Callers -> Steps]
    /\ proc \in [Callers -> Procs] /\ kind \in [Callers -> {"rest", "soap", "login"}]
    /\ force \in [Callers -> BOOLEAN]
    /\ token \in [Callers -> Nat] /\ refused \in [Callers -> Nat]
    /\ copy \in [Callers -> Nat] /\ calls \in [Callers -> Nat]
    /\ free \in [Procs -> Nat]
    /\ late \in [Procs -> Nat] /\ leaked \in [Procs -> Nat]
    /\ failures \in Nat
    /\ lost \subseteq {"set back", "answer", "not saved", "crash"}

LEMMA InitShape == ASSUME Init  PROVE ShapeInv
  BY SetsAssumption, NumbersAssumption DEF Init, ShapeInv, Steps

LEMMA NumbersGrow ==
    ASSUME ShapeInv
    PROVE  /\ issued + 1 \in Nat /\ failures + 1 \in Nat
           /\ \A c \in Callers : calls[c] + 1 \in Nat
           /\ \A p \in Procs : /\ free[p] + 1 \in Nat /\ late[p] + 1 \in Nat
                               /\ leaked[p] + 1 \in Nat
<1>1. /\ issued \in Nat /\ failures \in Nat /\ \A c \in Callers : calls[c] \in Nat
      /\ \A p \in Procs : free[p] \in Nat /\ late[p] \in Nat /\ leaked[p] \in Nat
  BY DEF ShapeInv
<1> QED  BY <1>1

LEMMA TakeShape ==
    ASSUME ShapeInv, NEW p \in Procs, Take(p)
    PROVE  /\ free' \in [Procs -> Nat] /\ free[p] > 0 /\ free'[p] = free[p] - 1
           /\ \A q \in Procs : q # p => free'[q] = free[q]
<1>1. free \in [Procs -> Nat] /\ free[p] \in Nat /\ free[p] > 0
  BY DEF ShapeInv, Take
<1>2. free[p] - 1 \in Nat
  BY <1>1
<1> QED  BY <1>1, <1>2 DEF Take

LEMMA ReleaseShape ==
    ASSUME ShapeInv, NEW p \in Procs, Release(p)
    PROVE  /\ free' \in [Procs -> Nat] /\ free'[p] = free[p] + 1
           /\ \A q \in Procs : q # p => free'[q] = free[q]
<1>1. free \in [Procs -> Nat] /\ free[p] + 1 \in Nat
  BY NumbersGrow DEF ShapeInv
<1> QED  BY <1>1 DEF Release

LEMMA GotoShape ==
    ASSUME ShapeInv, NEW c \in Callers, NEW to \in Steps, Goto(c, to)
    PROVE  /\ pc' \in [Callers -> Steps] /\ pc'[c] = to
           /\ \A d \in Callers : d # c => pc'[d] = pc[d]
  BY DEF ShapeInv, Goto

LEMMA ResolveShape ==
    ASSUME ShapeInv, NEW c \in Callers, NEW t \in Nat, NEW did \in BOOLEAN,
           Resolve(c, t, did)
    PROVE  /\ lock' \in [Procs -> Callers \cup {None}]
           /\ pc' \in [Callers -> Steps] /\ token' \in [Callers -> Nat]
           /\ lock'[proc[c]] = None /\ \A p \in Procs : p # proc[c] => lock'[p] = lock[p]
           /\ pc'[c] = "call" /\ token'[c] = t
           /\ \A d \in Callers : d # c /\ ~(pc[d] = "wait" /\ proc[d] = proc[c])
                => pc'[d] = pc[d] /\ token'[d] = token[d]
           /\ \A d \in Callers : d # c /\ pc[d] = "wait" /\ proc[d] = proc[c]
                => IF did \/ ~force[d] THEN pc'[d] = "call" /\ token'[d] = t
                                      ELSE pc'[d] = "ask" /\ token'[d] = token[d]
<1>1. /\ pc \in [Callers -> Steps] /\ token \in [Callers -> Nat]
      /\ {"call", "ask"} \subseteq Steps
  BY DEF ShapeInv, Steps
<1>2. pc' \in [Callers -> Steps] /\ token' \in [Callers -> Nat]
  BY <1>1 DEF Resolve
<1>3. /\ lock' \in [Procs -> Callers \cup {None}]
      /\ lock'[proc[c]] = None /\ \A p \in Procs : p # proc[c] => lock'[p] = lock[p]
  BY DEF ShapeInv, Resolve, Unlock
<1>4. c \in Served(c) /\ \A d \in Callers : d # c =>
        (d \in Served(c) <=> pc[d] = "wait" /\ proc[d] = proc[c])
  BY DEF Served
<1> QED  BY <1>1, <1>2, <1>3, <1>4 DEF Resolve

LEMMA RejectShape ==
    ASSUME ShapeInv, NEW c \in Callers, Reject(c)
    PROVE  /\ lock' \in [Procs -> Callers \cup {None}]
           /\ pc' \in [Callers -> Steps] /\ token' \in [Callers -> Nat]
           /\ lock'[proc[c]] = None /\ \A p \in Procs : p # proc[c] => lock'[p] = lock[p]
           /\ pc'[c] = "expired" /\ token'[c] = 0
           /\ \A d \in Callers : d # c =>
                /\ token'[d] = token[d]
                /\ pc'[d] = IF pc[d] = "wait" /\ proc[d] = proc[c] THEN "expired" ELSE pc[d]
<1>1. pc \in [Callers -> Steps] /\ token \in [Callers -> Nat] /\ "expired" \in Steps
  BY DEF ShapeInv, Steps
<1>2. pc' \in [Callers -> Steps] /\ token' \in [Callers -> Nat]
  BY <1>1 DEF Reject
<1>3. /\ lock' \in [Procs -> Callers \cup {None}]
      /\ lock'[proc[c]] = None /\ \A p \in Procs : p # proc[c] => lock'[p] = lock[p]
  BY DEF ShapeInv, Reject, Unlock
<1>4. c \in Served(c) /\ \A d \in Callers : d # c =>
        (d \in Served(c) <=> pc[d] = "wait" /\ proc[d] = proc[c])
  BY DEF Served
<1> QED  BY <1>1, <1>2, <1>3, <1>4 DEF Reject

LEMMA EndShape ==
    ASSUME ShapeInv, NEW c \in Callers, End(c)
    PROVE  /\ pc' \in [Callers -> Steps] /\ kind' \in [Callers -> {"rest", "soap", "login"}]
           /\ force' \in [Callers -> BOOLEAN] /\ token' \in [Callers -> Nat]
           /\ copy' \in [Callers -> Nat] /\ refused' \in [Callers -> Nat]
           /\ free' \in [Procs -> Nat] /\ UNCHANGED <<proc, calls, late, leaked>>
           /\ pc'[c] = "idle" /\ token'[c] = 0 /\ refused'[c] = 0 /\ kind'[c] = "rest"
           /\ free'[proc[c]] = free[proc[c]] + 1
           /\ \A q \in Procs : q # proc[c] => free'[q] = free[q]
           /\ \A d \in Callers : d # c =>
                /\ pc'[d] = pc[d] /\ kind'[d] = kind[d] /\ force'[d] = force[d]
                /\ token'[d] = token[d] /\ copy'[d] = copy[d] /\ refused'[d] = refused[d]
<1>1. Release(proc[c]) /\ proc[c] \in Procs /\ "idle" \in Steps
  BY DEF ShapeInv, End, Steps
<1>2. /\ pc' \in [Callers -> Steps] /\ pc'[c] = "idle"
      /\ \A d \in Callers : d # c => pc'[d] = pc[d]
  BY <1>1, GotoShape DEF End
<1>3. /\ kind' \in [Callers -> {"rest", "soap", "login"}]
      /\ force' \in [Callers -> BOOLEAN] /\ token' \in [Callers -> Nat]
      /\ token'[c] = 0 /\ kind'[c] = "rest"
      /\ \A d \in Callers : d # c =>
           kind'[d] = kind[d] /\ force'[d] = force[d] /\ token'[d] = token[d]
  BY DEF ShapeInv, End
<1>4. /\ copy' \in [Callers -> Nat] /\ refused' \in [Callers -> Nat] /\ refused'[c] = 0
      /\ \A d \in Callers : d # c => copy'[d] = copy[d] /\ refused'[d] = refused[d]
      /\ UNCHANGED <<proc, calls, late, leaked>>
  BY DEF ShapeInv, End
<1> QED  BY <1>1, <1>2, <1>3, <1>4, ReleaseShape

(* What each step of a call does, once its guards are known. *)
LEMMA CallStepShape ==
    ASSUME ShapeInv, NEW c \in Callers, CallStep(c)
    PROVE  ShapeInv'
<1> USE DEF mceVars, callVars, poolVars
<1>0. proc[c] \in Procs /\ token[c] \in Nat /\ copy[c] \in Nat /\ wallet.pair \in Nat
  BY DEF ShapeInv
<1>s. \A x \in {"ask", "read", "wait", "found", "post", "save", "saving", "call",
                "invalidate", "invalidating", "idle", "look"} : x \in Steps
  BY DEF Steps
<1>1. CASE Reserve(c)
  <2>1. /\ Take(proc[c]) /\ Goto(c, "ask")
        /\ UNCHANGED <<wallet, mceVars, lock, proc, kind, force, token, copy, refused,
                       calls, late, leaked, failures, lost>>
    BY <1>1 DEF Reserve, Step
  <2> QED  BY <1>0, <1>s, <2>1, TakeShape, GotoShape DEF ShapeInv
<1>2. CASE Ask(c)
  <2>1. /\ Goto(c, "read") \/ Goto(c, "wait")
        /\ lock' = lock \/ lock' = [lock EXCEPT ![proc[c]] = c]
        /\ UNCHANGED <<wallet, mceVars, proc, kind, force, token, copy, refused, calls,
                       poolVars, failures, lost>>
    BY <1>2 DEF Ask, Step
  <2>2. lock' \in [Procs -> Callers \cup {None}]
    BY <2>1 DEF ShapeInv
  <2> QED  BY <1>s, <2>1, <2>2, GotoShape DEF ShapeInv
<1>3. CASE Read(c)
  <2>1. /\ Goto(c, "found") \/ Goto(c, "post")
        /\ copy' = [copy EXCEPT ![c] = wallet.pair]
        /\ UNCHANGED <<wallet, mceVars, lock, proc, kind, force, token, refused, calls,
                       poolVars, failures, lost>>
    BY <1>3 DEF Read
  <2>2. copy' \in [Callers -> Nat]
    BY <1>0, <2>1 DEF ShapeInv
  <2> QED  BY <1>s, <2>1, <2>2, GotoShape DEF ShapeInv
<1>4. CASE Found(c)
  <2>1. /\ Resolve(c, copy[c], FALSE)
        /\ UNCHANGED <<wallet, mceVars, proc, kind, force, copy, refused, calls, poolVars,
                       failures, lost>>
    BY <1>4 DEF Found
  <2> QED  BY <1>0, <2>1, ResolveShape DEF ShapeInv
<1>5. CASE Post(c)
  <2>0. UNCHANGED <<wallet, proc, kind, force, copy, refused, calls, poolVars, failures, lost>>
    BY <1>5 DEF Post
  <2>1. CASE copy[c] \in good
    <3>1. Issue(copy[c]) /\ Goto(c, "save") /\ UNCHANGED lock
          /\ token' = [token EXCEPT ![c] = issued']
      BY <1>5, <2>1 DEF Post
    <3>2. good' \subseteq Nat /\ live' \subseteq Nat /\ issued' \in Nat
      BY <3>1, NumbersGrow DEF ShapeInv, Issue
    <3>3. token' \in [Callers -> Nat]
      BY <3>1, <3>2 DEF ShapeInv
    <3> QED  BY <1>s, <2>0, <3>1, <3>2, <3>3, GotoShape DEF ShapeInv
  <2>2. CASE copy[c] \notin good
    <3>1. Reject(c) /\ UNCHANGED mceVars
      BY <1>5, <2>2 DEF Post
    <3> QED  BY <2>0, <3>1, RejectShape DEF ShapeInv
  <2> QED  BY <2>1, <2>2
<1>6. CASE ReserveSecond(c)
  <2>1. /\ Goto(c, "saving") \/ Goto(c, "invalidating")
        /\ Take(proc[c])
        /\ UNCHANGED <<wallet, mceVars, lock, proc, kind, force, token, copy, refused,
                       calls, late, leaked, failures, lost>>
    BY <1>6 DEF ReserveSecond, Step
  <2> QED  BY <1>0, <1>s, <2>1, TakeShape, GotoShape DEF ShapeInv
<1>7. CASE Save(c)
  <2>1. /\ wallet' = [pair |-> token[c], fresh |-> TRUE] /\ Release(proc[c])
        /\ UNCHANGED <<mceVars, proc, force, copy, refused, calls, late, leaked, failures,
                       lost>>
    BY <1>7 DEF Save
  <2>2. wallet' \in [pair : Nat, fresh : BOOLEAN] /\ free' \in [Procs -> Nat]
    BY <1>0, <2>1, ReleaseShape
  <2>3. CASE kind[c] = "login"
    <3>1. Goto(c, "idle") /\ token' = [token EXCEPT ![c] = 0]
          /\ kind' = [kind EXCEPT ![c] = "rest"] /\ UNCHANGED lock
      BY <1>7, <2>3 DEF Save
    <3>2. token' \in [Callers -> Nat] /\ kind' \in [Callers -> {"rest", "soap", "login"}]
      BY <3>1 DEF ShapeInv
    <3> QED  BY <1>s, <2>1, <2>2, <3>1, <3>2, GotoShape DEF ShapeInv
  <2>4. CASE kind[c] # "login"
    <3>1. Resolve(c, token[c], TRUE) /\ UNCHANGED kind
      BY <1>7, <2>4 DEF Save
    <3> QED  BY <1>0, <2>1, <2>2, <3>1, ResolveShape DEF ShapeInv
  <2> QED  BY <2>3, <2>4
<1>8. CASE Call(c) \/ Expired(c)
  <2>1. UNCHANGED <<wallet, mceVars, lock, failures, lost>>
    BY <1>8 DEF Call, Expired
  <2>2. CASE End(c)
    BY <2>1, <2>2, EndShape DEF ShapeInv
  <2>3. CASE ~End(c)
    <3>1. /\ Goto(c, "look")
          /\ refused' = refused \/ refused' = [refused EXCEPT ![c] = token[c]]
          /\ UNCHANGED <<proc, kind, force, token, copy, calls, poolVars>>
      BY <1>8, <2>3 DEF Call, Expired
    <3>2. refused' \in [Callers -> Nat]
      BY <1>0, <3>1 DEF ShapeInv
    <3> QED  BY <1>s, <2>1, <3>1, <3>2, GotoShape DEF ShapeInv
  <2> QED  BY <2>2, <2>3
<1>9. CASE Look(c)
  <2>1. /\ Goto(c, "invalidate") /\ copy' = [copy EXCEPT ![c] = wallet.pair]
        /\ UNCHANGED <<wallet, mceVars, lock, proc, kind, force, token, refused, calls,
                       poolVars, failures, lost>>
    BY <1>9 DEF Look, Step
  <2>2. copy' \in [Callers -> Nat]
    BY <1>0, <2>1 DEF ShapeInv
  <2> QED  BY <1>s, <2>1, <2>2, GotoShape DEF ShapeInv
<1>10. CASE Invalidate(c)
  <2>1. /\ Goto(c, "ask") /\ wallet' = [pair |-> copy[c], fresh |-> FALSE]
        /\ force' = [force EXCEPT ![c] = TRUE] /\ Release(proc[c])
        /\ lost' \in {lost, lost \cup {"set back"}}
        /\ UNCHANGED <<mceVars, lock, proc, kind, token, copy, refused, calls, late, leaked,
                       failures>>
    BY <1>10 DEF Invalidate, Step
  <2>2. wallet' \in [pair : Nat, fresh : BOOLEAN] /\ force' \in [Callers -> BOOLEAN]
        /\ lost' \subseteq {"set back", "answer", "not saved", "crash"}
    BY <1>0, <2>1 DEF ShapeInv
  <2> QED  BY <1>0, <1>s, <2>1, <2>2, ReleaseShape, GotoShape DEF ShapeInv
<1> QED
  BY <1>1, <1>2, <1>3, <1>4, <1>5, <1>6, <1>7, <1>8, <1>9, <1>10 DEF CallStep

LEMMA FaultShape == ASSUME ShapeInv, Fault  PROVE ShapeInv'
<1> USE DEF mceVars, callVars, poolVars
<1>f. ASSUME NEW fault, Fails(fault)  PROVE failures' \in Nat
  BY <1>f, NumbersGrow DEF Fails
<1>0. \A c \in Callers : proc[c] \in Procs
  BY DEF ShapeInv
<1>1. ASSUME NEW c \in Callers, HookTimesOut(c)  PROVE ShapeInv'
  <2>1. /\ Goto(c, "idle") /\ late' = [late EXCEPT ![proc[c]] = @ + 1]
        /\ UNCHANGED <<wallet, mceVars, lock, proc, kind, force, token, copy, refused,
                       calls, free, leaked, lost>>
    BY <1>1 DEF HookTimesOut, Step
  <2>2. late' \in [Procs -> Nat]
    BY <1>0, <2>1, NumbersGrow DEF ShapeInv
  <2>3. failures' \in Nat /\ "idle" \in Steps
    BY <1>1, <1>f DEF HookTimesOut, Steps
  <2> QED  BY <2>1, <2>2, <2>3, GotoShape DEF ShapeInv
<1>2. ASSUME NEW c \in Callers, AnswerLost(c)  PROVE ShapeInv'
  <2>1. /\ Reject(c)
        /\ UNCHANGED <<wallet, proc, kind, force, copy, refused, calls, poolVars>>
    BY <1>2 DEF AnswerLost
  <2>2. /\ good' \subseteq Nat /\ live' \subseteq Nat /\ issued' \in Nat
        /\ lost' \subseteq {"set back", "answer", "not saved", "crash"}
    BY <1>2, NumbersGrow DEF AnswerLost, ShapeInv, Issue
  <2>3. failures' \in Nat
    BY <1>2, <1>f DEF AnswerLost
  <2> QED  BY <2>1, <2>2, <2>3, RejectShape DEF ShapeInv
<1>3. ASSUME NEW c \in Callers, SaveFails(c)  PROVE ShapeInv'
  <2>1. /\ Release(proc[c]) /\ lost' = lost \cup {"not saved"}
        /\ UNCHANGED <<wallet, mceVars, proc, force, copy, refused, calls, late, leaked>>
    BY <1>3 DEF SaveFails
  <2>2. free' \in [Procs -> Nat] /\ failures' \in Nat
        /\ lost' \subseteq {"set back", "answer", "not saved", "crash"}
    BY <1>0, <1>3, <1>f, <2>1, ReleaseShape DEF SaveFails, ShapeInv
  <2>3. CASE kind[c] = "login"
    <3>1. Goto(c, "idle") /\ token' = [token EXCEPT ![c] = 0]
          /\ kind' = [kind EXCEPT ![c] = "rest"] /\ UNCHANGED lock
      BY <1>3, <2>3 DEF SaveFails
    <3>2. token' \in [Callers -> Nat] /\ kind' \in [Callers -> {"rest", "soap", "login"}]
          /\ "idle" \in Steps
      BY <3>1 DEF ShapeInv, Steps
    <3> QED  BY <2>1, <2>2, <3>1, <3>2, GotoShape DEF ShapeInv
  <2>4. CASE kind[c] # "login"
    <3>1. Reject(c) /\ UNCHANGED kind
      BY <1>3, <2>4 DEF SaveFails
    <3> QED  BY <2>1, <2>2, <3>1, RejectShape DEF ShapeInv
  <2> QED  BY <2>3, <2>4
<1>4. ASSUME NEW p \in Procs, GrantedLate(p)  PROVE ShapeInv'
  <2>1. /\ Take(p) /\ late[p] > 0
        /\ late' = [late EXCEPT ![p] = @ - 1] /\ leaked' = [leaked EXCEPT ![p] = @ + 1]
        /\ UNCHANGED <<wallet, mceVars, lock, callVars, failures, lost>>
    BY <1>4 DEF GrantedLate
  <2>2. late[p] - 1 \in Nat /\ leaked[p] + 1 \in Nat
    <3>1. late[p] \in Nat
      BY DEF ShapeInv
    <3> QED  BY <2>1, <3>1, NumbersGrow
  <2>3. late' \in [Procs -> Nat] /\ leaked' \in [Procs -> Nat]
    BY <2>1, <2>2 DEF ShapeInv
  <2> QED  BY <2>1, <2>3, TakeShape DEF ShapeInv
<1>5. ASSUME NEW p \in Procs, Crash(p)  PROVE ShapeInv'
  <2>1. /\ pc' \in [Callers -> Steps] /\ kind' \in [Callers -> {"rest", "soap", "login"}]
        /\ force' \in [Callers -> BOOLEAN]
    BY <1>5 DEF Crash, ShapeInv, Steps
  <2>2. /\ token' \in [Callers -> Nat] /\ copy' \in [Callers -> Nat]
        /\ refused' \in [Callers -> Nat]
    BY <1>5 DEF Crash, ShapeInv
  <2>3. lock' \in [Procs -> Callers \cup {None}] /\ free' \in [Procs -> Nat]
    BY <1>5, NumbersAssumption DEF Crash, ShapeInv
  <2>4. late' \in [Procs -> Nat] /\ leaked' \in [Procs -> Nat]
    BY <1>5 DEF Crash, ShapeInv
  <2>5. lost' \subseteq {"set back", "answer", "not saved", "crash"} /\ failures' \in Nat
    BY <1>5, <1>f DEF Crash, ShapeInv
  <2>6. UNCHANGED <<wallet, mceVars, proc, calls>>
    BY <1>5 DEF Crash
  <2> QED  BY <2>1, <2>2, <2>3, <2>4, <2>5, <2>6 DEF ShapeInv
<1> QED  BY <1>1, <1>2, <1>3, <1>4, <1>5 DEF Fault

LEMMA NextShape == ASSUME ShapeInv, [Next]_vars  PROVE ShapeInv'
<1> USE DEF mceVars, callVars, poolVars
<1>1. ASSUME NEW c \in Callers, NEW p \in Procs, Login(c, p)  PROVE ShapeInv'
  <2>1. /\ Goto(c, "save") /\ proc' = [proc EXCEPT ![c] = p]
        /\ kind' = [kind EXCEPT ![c] = "login"] /\ calls' = [calls EXCEPT ![c] = @ + 1]
        /\ issued' = issued + 1
        /\ good' = good \cup {issued'} /\ live' = live \cup {issued'}
        /\ token' = [token EXCEPT ![c] = issued']
        /\ UNCHANGED <<wallet, lock, force, copy, refused, poolVars, failures, lost>>
    BY <1>1 DEF Login, Step
  <2>2. good' \subseteq Nat /\ live' \subseteq Nat /\ issued' \in Nat /\ "save" \in Steps
    BY <2>1, NumbersGrow DEF ShapeInv, Steps
  <2>3. proc' \in [Callers -> Procs] /\ kind' \in [Callers -> {"rest", "soap", "login"}]
    BY <2>1 DEF ShapeInv
  <2>4. token' \in [Callers -> Nat] /\ calls' \in [Callers -> Nat]
    BY <2>1, <2>2, NumbersGrow DEF ShapeInv
  <2> QED  BY <2>1, <2>2, <2>3, <2>4, GotoShape DEF ShapeInv
<1>2. ASSUME NEW c \in Callers, NEW p \in Procs, NEW k \in {"rest", "soap"}, Arrive(c, p, k)
      PROVE  ShapeInv'
  <2>1. /\ Goto(c, "reserving") /\ proc' = [proc EXCEPT ![c] = p]
        /\ kind' = [kind EXCEPT ![c] = k] /\ calls' = [calls EXCEPT ![c] = @ + 1]
        /\ UNCHANGED <<wallet, mceVars, lock, force, token, copy, refused, poolVars,
                       failures, lost>>
    BY <1>2 DEF Arrive, Step
  <2>2. /\ proc' \in [Callers -> Procs] /\ kind' \in [Callers -> {"rest", "soap", "login"}]
        /\ calls' \in [Callers -> Nat] /\ "reserving" \in Steps
    BY <2>1, NumbersGrow DEF ShapeInv, Steps
  <2> QED  BY <2>1, <2>2, GotoShape DEF ShapeInv
<1>3. CASE Lapse
  <2>1. UNCHANGED <<mceVars, lock, callVars, poolVars, failures, lost>>
        /\ wallet' = [wallet EXCEPT !.fresh = FALSE]
    BY <1>3 DEF Lapse
  <2>2. wallet' \in [pair : Nat, fresh : BOOLEAN]
    BY <2>1 DEF ShapeInv
  <2> QED  BY <2>1, <2>2 DEF ShapeInv
<1>4. CASE Revoke
  <2>1. live' \subseteq live
        /\ UNCHANGED <<wallet, good, issued, lock, callVars, poolVars, failures, lost>>
    BY <1>4 DEF Revoke
  <2> QED  BY <2>1 DEF ShapeInv
<1>5. CASE UNCHANGED vars
  BY <1>5 DEF ShapeInv, vars
<1> QED  BY <1>1, <1>2, <1>3, <1>4, <1>5, CallStepShape, FaultShape DEF Next
-----------------------------------------------------------------------------
(* A caller refreshes only while refreshLocks names it, which is why no other *)
(* of its process does; and a login has nothing to do but to save its pair.   *)
LockInv ==
    \A c \in Callers : /\ Refreshing(c) => lock[proc[c]] = c
                       /\ kind[c] = "login" => pc[c] \in {"save", "saving"}

(* A step of c that takes no lock and gives none away. *)
LEMMA LockStays ==
    ASSUME ShapeInv, LockInv, NEW c \in Callers, lock' = lock,
           \A d \in Callers : d # c => pc'[d] = pc[d] /\ proc'[d] = proc[d] /\ kind'[d] = kind[d],
           Refreshing(c)' => Refreshing(c) /\ proc'[c] = proc[c],
           kind'[c] = "login" => pc'[c] \in {"save", "saving"}
    PROVE  LockInv'
  BY DEF LockInv, Refreshing

(* The end of a refresh, well or not: nobody refreshes after it. *)
LEMMA LockGiven ==
    ASSUME ShapeInv, LockInv, NEW c \in Callers, Refreshing(c),
           \A p \in Procs : p # proc[c] => lock'[p] = lock[p],
           ~Refreshing(c)', UNCHANGED <<proc, kind>>, pc'[c] # "idle" => kind[c] # "login",
           \A d \in Callers : d # c =>
              pc'[d] = pc[d] \/ (pc[d] = "wait" /\ pc'[d] \in {"call", "ask", "expired"})
    PROVE  LockInv'
<1>1. kind[c] # "login" /\ lock[proc[c]] = c
  BY DEF LockInv, Refreshing
<1>2. ASSUME NEW d \in Callers, d # c, Refreshing(d)'
      PROVE  Refreshing(d) /\ proc[d] # proc[c] /\ proc[d] \in Procs
  BY <1>1, <1>2 DEF LockInv, Refreshing, ShapeInv
<1>3. ASSUME NEW d \in Callers  PROVE Refreshing(d)' => lock'[proc'[d]] = d
  BY <1>2 DEF LockInv
<1>4. ASSUME NEW d \in Callers  PROVE kind'[d] = "login" => pc'[d] \in {"save", "saving"}
  BY <1>1 DEF LockInv
<1> QED  BY <1>3, <1>4 DEF LockInv

LEMMA ResolveLock ==
    ASSUME ShapeInv, LockInv, NEW c \in Callers, Refreshing(c), UNCHANGED <<proc, kind>>,
           Reject(c) \/ \E t \in Nat, did \in BOOLEAN : Resolve(c, t, did)
    PROVE  LockInv'
<1>1. kind[c] # "login"
  BY DEF LockInv, Refreshing
<1>2. CASE Reject(c)
  BY <1>1, <1>2, RejectShape, LockGiven DEF Refreshing
<1>3. ASSUME NEW t \in Nat, NEW did \in BOOLEAN, Resolve(c, t, did)  PROVE LockInv'
  BY <1>1, <1>3, ResolveShape, LockGiven DEF Refreshing
<1> QED  BY <1>2, <1>3

LEMMA CallStepLock ==
    ASSUME ShapeInv, LockInv, NEW c \in Callers, CallStep(c)
    PROVE  LockInv'
<1> USE DEF mceVars, callVars, poolVars
<1>0. /\ proc[c] \in Procs /\ token[c] \in Nat /\ copy[c] \in Nat
      /\ kind[c] = "login" => pc[c] \in {"save", "saving"}
  BY DEF ShapeInv, LockInv
<1>s. \A x \in {"ask", "read", "wait", "found", "post", "save", "saving", "call",
                "invalidate", "invalidating", "idle", "look"} : x \in Steps
  BY DEF Steps
<1>1. CASE Reserve(c)
  <2>1. Goto(c, "ask") /\ pc[c] = "reserving" /\ UNCHANGED <<lock, proc, kind>>
    BY <1>1 DEF Reserve, Step
  <2> QED  BY <1>0, <1>s, <2>1, GotoShape, LockStays DEF Refreshing
<1>2. CASE Ask(c)
  <2>1. pc[c] = "ask" /\ UNCHANGED <<proc, kind>>
    BY <1>2 DEF Ask, Step
  <2>2. CASE lock[proc[c]] = None
    <3>1. Goto(c, "read") /\ lock' = [lock EXCEPT ![proc[c]] = c]
      BY <1>2, <2>2 DEF Ask, Step
    <3>2. /\ lock'[proc[c]] = c /\ pc'[c] = "read"
          /\ \A p \in Procs : p # proc[c] => lock'[p] = lock[p]
          /\ \A d \in Callers : d # c => pc'[d] = pc[d]
      <4>1. lock \in [Procs -> Callers \cup {None}]
        BY DEF ShapeInv
      <4>2. /\ lock'[proc[c]] = c
            /\ \A p \in Procs : p # proc[c] => lock'[p] = lock[p]
        BY <1>0, <3>1, <4>1
      <4> QED  BY <1>s, <3>1, <4>2, GotoShape
    <3>3. ASSUME NEW d \in Callers, d # c, Refreshing(d)
          PROVE  proc[d] # proc[c] /\ proc[d] \in Procs
      <4>1. lock[proc[d]] = d /\ d # None
        BY <3>3, SetsAssumption DEF LockInv
      <4>2. proc[d] \in Procs
        BY DEF ShapeInv
      <4> QED  BY <2>2, <4>1, <4>2
    <3> QED  BY <1>0, <2>1, <3>2, <3>3 DEF LockInv, Refreshing
  <2>3. CASE lock[proc[c]] # None
    <3>1. Goto(c, "wait") /\ lock' = lock
      BY <1>2, <2>3 DEF Ask, Step
    <3> QED  BY <1>0, <1>s, <2>1, <3>1, GotoShape, LockStays DEF Refreshing
  <2> QED  BY <2>2, <2>3
<1>3. CASE Read(c)
  <2>1. /\ pc[c] = "read" /\ UNCHANGED <<lock, proc, kind>>
        /\ Goto(c, "found") \/ Goto(c, "post")
    BY <1>3 DEF Read
  <2> QED  BY <1>0, <1>s, <2>1, GotoShape, LockStays DEF Refreshing
<1>4. CASE Found(c)
  <2>1. pc[c] = "found" /\ Resolve(c, copy[c], FALSE) /\ UNCHANGED <<proc, kind>>
    BY <1>4 DEF Found
  <2> QED  BY <1>0, <2>1, ResolveLock DEF Refreshing
<1>5. CASE Post(c)
  <2>1. pc[c] = "post" /\ UNCHANGED <<proc, kind>>
    BY <1>5 DEF Post
  <2>2. CASE Reject(c)
    BY <2>1, <2>2, ResolveLock DEF Refreshing
  <2>3. CASE ~Reject(c)
    <3>1. Goto(c, "save") /\ lock' = lock
      BY <1>5, <2>3 DEF Post
    <3> QED  BY <1>0, <1>s, <2>1, <3>1, GotoShape, LockStays DEF Refreshing
  <2> QED  BY <2>2, <2>3
<1>6. CASE ReserveSecond(c)
  <2>1. /\ UNCHANGED <<lock, proc, kind>>
        /\ \/ pc[c] = "save" /\ Goto(c, "saving")
           \/ pc[c] = "invalidate" /\ Goto(c, "invalidating")
    BY <1>6 DEF ReserveSecond, Step
  <2> QED  BY <1>0, <1>s, <2>1, GotoShape, LockStays DEF Refreshing
<1>7. CASE Save(c)
  <2>1. pc[c] = "saving" /\ UNCHANGED proc
    BY <1>7 DEF Save
  <2>2. CASE kind[c] = "login"
    <3>1. Goto(c, "idle") /\ kind' = [kind EXCEPT ![c] = "rest"] /\ lock' = lock
      BY <1>7, <2>2 DEF Save
    <3>2. kind'[c] = "rest" /\ \A d \in Callers : d # c => kind'[d] = kind[d]
      BY <3>1 DEF ShapeInv
    <3> QED  BY <1>s, <2>1, <3>1, <3>2, GotoShape, LockStays DEF Refreshing
  <2>3. CASE kind[c] # "login"
    <3>1. Resolve(c, token[c], TRUE) /\ UNCHANGED kind
      BY <1>7, <2>3 DEF Save
    <3> QED  BY <1>0, <2>1, <2>3, <3>1, ResolveLock DEF Refreshing
  <2> QED  BY <2>2, <2>3
<1>8. CASE Call(c) \/ Expired(c)
  <2>1. pc[c] \in {"call", "expired"} /\ lock' = lock
    BY <1>8 DEF Call, Expired
  <2>2. CASE End(c)
    BY <2>1, <2>2, EndShape, LockStays DEF Refreshing
  <2>3. CASE ~End(c)
    <3>1. Goto(c, "look") /\ UNCHANGED <<proc, kind>>
      BY <1>8, <2>3 DEF Call, Expired
    <3> QED  BY <1>0, <1>s, <2>1, <3>1, GotoShape, LockStays DEF Refreshing
  <2> QED  BY <2>2, <2>3
<1>9. CASE Look(c) \/ Invalidate(c)
  <2>1. /\ UNCHANGED <<lock, proc, kind>> /\ pc[c] \in {"look", "invalidating"}
        /\ Goto(c, "invalidate") \/ Goto(c, "ask")
    BY <1>9 DEF Look, Invalidate, Step
  <2> QED  BY <1>0, <1>s, <2>1, GotoShape, LockStays DEF Refreshing
<1> QED
  BY <1>1, <1>2, <1>3, <1>4, <1>5, <1>6, <1>7, <1>8, <1>9 DEF CallStep

LEMMA NextLock == ASSUME ShapeInv, LockInv, [Next]_vars  PROVE LockInv'
<1> USE DEF mceVars, callVars, poolVars
<1>s. {"idle", "save", "reserving"} \subseteq Steps
  BY DEF Steps
<1>1. ASSUME NEW c \in Callers, HookTimesOut(c)  PROVE LockInv'
  <2>1. pc[c] = "reserving" /\ Goto(c, "idle") /\ UNCHANGED <<lock, proc, kind>>
    BY <1>1 DEF HookTimesOut, Step
  <2> QED  BY <1>s, <2>1, GotoShape, LockStays DEF Refreshing, LockInv
<1>2. ASSUME NEW c \in Callers, AnswerLost(c)  PROVE LockInv'
  <2>1. pc[c] = "post" /\ Reject(c) /\ UNCHANGED <<proc, kind>>
    BY <1>2 DEF AnswerLost
  <2> QED  BY <2>1, ResolveLock DEF Refreshing
<1>3. ASSUME NEW c \in Callers, SaveFails(c)  PROVE LockInv'
  <2>1. pc[c] = "saving" /\ UNCHANGED proc
    BY <1>3 DEF SaveFails
  <2>2. CASE kind[c] = "login"
    <3>1. Goto(c, "idle") /\ kind' = [kind EXCEPT ![c] = "rest"] /\ lock' = lock
      BY <1>3, <2>2 DEF SaveFails
    <3>2. kind'[c] = "rest" /\ \A d \in Callers : d # c => kind'[d] = kind[d]
      BY <3>1 DEF ShapeInv
    <3> QED  BY <1>s, <2>1, <3>1, <3>2, GotoShape, LockStays DEF Refreshing
  <2>3. CASE kind[c] # "login"
    <3>1. Reject(c) /\ UNCHANGED kind
      BY <1>3, <2>3 DEF SaveFails
    <3> QED  BY <2>1, <2>3, <3>1, ResolveLock DEF Refreshing
  <2> QED  BY <2>2, <2>3
<1>4. ASSUME NEW p \in Procs, GrantedLate(p)  PROVE LockInv'
  BY <1>4 DEF GrantedLate, LockInv, Refreshing
<1>5. ASSUME NEW p \in Procs, Crash(p)  PROVE LockInv'
  <2>1. \A c \in Callers : /\ proc'[c] = proc[c]
                           /\ proc[c] = p => pc'[c] = "idle" /\ kind'[c] = "rest"
                           /\ proc[c] # p => pc'[c] = pc[c] /\ kind'[c] = kind[c]
    BY <1>5 DEF Crash
  <2>2. \A q \in Procs : q # p => lock'[q] = lock[q]
    BY <1>5 DEF Crash, ShapeInv
  <2>3. \A c \in Callers : proc[c] \in Procs
    BY DEF ShapeInv
  <2> QED  BY <2>1, <2>2, <2>3 DEF LockInv, Refreshing
<1>6. ASSUME NEW c \in Callers, NEW p \in Procs, Login(c, p)  PROVE LockInv'
  <2>1. /\ pc[c] = "idle" /\ Goto(c, "save") /\ proc' = [proc EXCEPT ![c] = p]
        /\ kind' = [kind EXCEPT ![c] = "login"] /\ lock' = lock
    BY <1>6 DEF Login, Step
  <2>2. kind'[c] = "login" /\ \A d \in Callers : d # c => kind'[d] = kind[d] /\ proc'[d] = proc[d]
    BY <2>1 DEF ShapeInv
  <2> QED  BY <1>s, <2>1, <2>2, GotoShape, LockStays DEF Refreshing
<1>7. ASSUME NEW c \in Callers, NEW p \in Procs, NEW k \in {"rest", "soap"}, Arrive(c, p, k)
      PROVE  LockInv'
  <2>1. /\ pc[c] = "idle" /\ Goto(c, "reserving") /\ proc' = [proc EXCEPT ![c] = p]
        /\ kind' = [kind EXCEPT ![c] = k] /\ lock' = lock
    BY <1>7 DEF Arrive, Step
  <2>2. kind'[c] = k /\ \A d \in Callers : d # c => kind'[d] = kind[d] /\ proc'[d] = proc[d]
    BY <2>1 DEF ShapeInv
  <2> QED  BY <1>s, <2>1, <2>2, GotoShape, LockStays DEF Refreshing
<1>8. CASE Lapse \/ Revoke \/ UNCHANGED vars
  BY <1>8 DEF Lapse, Revoke, vars, LockInv, Refreshing
<1> QED
  BY <1>1, <1>2, <1>3, <1>4, <1>5, <1>6, <1>7, <1>8, CallStepLock DEF Next, Fault

LEMMA LockAlways == Spec => [](ShapeInv /\ LockInv)
<1>1. Init => ShapeInv /\ LockInv
  BY InitShape DEF Init, LockInv, Refreshing
<1>2. ShapeInv /\ LockInv /\ [Next]_vars => (ShapeInv /\ LockInv)'
  BY NextShape, NextLock
<1> QED  BY <1>1, <1>2, PTL DEF Spec

(* At most one call of a process refreshes the user's token at a time.        *)
THEOREM OneRefresh == Spec => []OneRefreshPerProcess
<1>1. LockInv => OneRefreshPerProcess
  BY DEF LockInv, OneRefreshPerProcess
<1> QED  BY <1>1, LockAlways, PTL
-----------------------------------------------------------------------------
(* Which tokens there are.  A pair that is about to be saved is the newest    *)
(* its process knows of, is good at MCE, and is known to nobody else yet.     *)
IsSaving(c) == pc[c] \in {"save", "saving"}

NumbersInv ==
    /\ \A g \in good : g > 0 /\ g <= issued
    /\ wallet.pair <= issued
    /\ \A c \in Callers : token[c] <= issued /\ refused[c] <= issued /\ copy[c] <= issued

SecondInv(c) ==
    /\ pc[c] \in {"idle", "reserving"} => token[c] = 0 /\ refused[c] = 0
    /\ pc[c] = "found" => ~force[c]
    /\ pc[c] = "call" /\ force[c] => token[c] > refused[c]
    /\ kind[c] = "login" => refused[c] = 0
    /\ IsSaving(c) /\ kind[c] # "login" =>
          \A d \in Callers : proc[d] = proc[c] /\ kind[d] # "login" =>
             refused[d] < token[c] /\ (d # c => token[d] < token[c])

SavingInv(c) ==
    IsSaving(c) =>
       /\ token[c] \in good /\ token[c] # wallet.pair
       /\ \A d \in Callers : /\ copy[d] # token[c]
                             /\ d # c /\ IsSaving(d) => token[d] # token[c]

WalletInv == wallet.pair \in good \/ lost # {} \/ \E c \in Callers : IsSaving(c)

TokenInv ==
    NumbersInv /\ WalletInv /\ \A c \in Callers : SecondInv(c) /\ SavingInv(c)

Same(d) ==
    /\ pc'[d] = pc[d] /\ proc'[d] = proc[d] /\ kind'[d] = kind[d] /\ force'[d] = force[d]
    /\ token'[d] = token[d] /\ copy'[d] = copy[d] /\ refused'[d] = refused[d]

(* Most steps neither get a pair from MCE nor end a refresh. *)
LEMMA PlainStep ==
    ASSUME ShapeInv, TokenInv, NEW c \in Callers, UNCHANGED <<good, issued>>,
           \A d \in Callers : d # c => Same(d), lost \subseteq lost',
           wallet'.pair = wallet.pair \/ (wallet'.pair = copy[c] /\ lost' # {}),
           proc'[c] = proc[c] \/ (token'[c] = 0 /\ refused'[c] = 0),
           token'[c] \in {token[c], 0},
           copy'[c] \in {copy[c], 0, wallet.pair},
           refused'[c] \in {refused[c], 0} \/ (refused'[c] = token[c] /\ ~IsSaving(c)),
           IsSaving(c)' => /\ IsSaving(c) /\ token'[c] = token[c] /\ proc'[c] = proc[c]
                           /\ kind'[c] = kind[c] /\ refused'[c] = refused[c],
           IsSaving(c) => IsSaving(c)' \/ lost' # {},
           pc'[c] \in {"idle", "reserving"} => token'[c] = 0 /\ refused'[c] = 0,
           pc'[c] = "found" => ~force'[c], pc'[c] # "call",
           kind'[c] = kind[c] \/ (kind'[c] # "login" /\ token'[c] = 0 /\ refused'[c] = 0),
           kind[c] # "login" \/ refused'[c] \in {refused[c], 0}
    PROVE  TokenInv'
<1>0. /\ \A d \in Callers : /\ token[d] \in Nat /\ refused[d] \in Nat /\ copy[d] \in Nat
                            /\ token'[d] \in {token[d], 0}
      /\ issued \in Nat /\ wallet.pair \in Nat
  BY DEF ShapeInv, Same
<1>1. NumbersInv'
  BY <1>0 DEF TokenInv, NumbersInv, Same
<1>2. WalletInv'
  BY DEF TokenInv, WalletInv, IsSaving, Same
<1>3. ASSUME NEW d \in Callers  PROVE SavingInv(d)'
  <2>1. IsSaving(d)' => IsSaving(d) /\ token'[d] = token[d]
    BY DEF IsSaving, Same
  <2>2. IsSaving(d) => token[d] # 0
    <3>1. IsSaving(d) => token[d] \in good
      BY DEF TokenInv, SavingInv
    <3>2. \A g \in good : g > 0
      BY DEF TokenInv, NumbersInv
    <3> QED  BY <1>0, <3>1, <3>2
  <2> QED  BY <2>1, <2>2 DEF TokenInv, SavingInv, IsSaving, Same
<1>4. ASSUME NEW d \in Callers  PROVE SecondInv(d)'
  <2>1. CASE d = c
    BY <2>1, <1>0 DEF TokenInv, SecondInv, IsSaving, Same
  <2>2. CASE d # c
    BY <2>2, <1>0 DEF TokenInv, SecondInv, IsSaving, Same
  <2> QED  BY <2>1, <2>2
<1> QED  BY <1>1, <1>2, <1>3, <1>4 DEF TokenInv

(* A refresh gives a token: the one in the row, or the pair it has saved.     *)
LEMMA ResolveTokens ==
    ASSUME ShapeInv, LockInv, TokenInv, NEW c \in Callers, NEW t \in Nat,
           NEW did \in BOOLEAN, Refreshing(c), Resolve(c, t, did),
           UNCHANGED <<proc, kind, force, copy, refused, good, issued, lost>>,
           \/ pc[c] = "found" /\ t = copy[c] /\ did = FALSE /\ wallet' = wallet
           \/ pc[c] = "saving" /\ t = token[c] /\ did = TRUE /\ wallet'.pair = t
    PROVE  TokenInv'
<1>0. /\ kind[c] # "login" /\ t <= issued /\ issued \in Nat
      /\ \A d \in Callers : token[d] \in Nat /\ refused[d] \in Nat
      /\ ~IsSaving(c)'
  <2>1. kind[c] # "login"
    BY DEF LockInv, Refreshing
  <2>2. t <= issued
    BY DEF TokenInv, NumbersInv
  <2>3. ~IsSaving(c)'
    BY ResolveShape DEF IsSaving
  <2> QED  BY <2>1, <2>2, <2>3 DEF ShapeInv
<1>1. ASSUME NEW d \in Callers, d # c, IsSaving(d), kind[d] # "login"
      PROVE  proc[d] # proc[c]
  <2>1. lock[proc[d]] = d /\ lock[proc[c]] = c
    BY <1>1 DEF LockInv, Refreshing, IsSaving
  <2> QED  BY <1>1, <2>1
<1>2. ASSUME NEW d \in Callers, d # c
      PROVE  /\ IsSaving(d)' <=> IsSaving(d)
             /\ IsSaving(d) => token'[d] = token[d]
             /\ proc[d] # proc[c] => token'[d] = token[d]
             /\ token'[d] \in {token[d], t}
  BY <1>2, ResolveShape DEF IsSaving
<1>3. NumbersInv'
  BY <1>0, <1>2, ResolveShape DEF TokenInv, NumbersInv
<1>4. WalletInv'
  <2>1. CASE pc[c] = "found"
    BY <1>2, <2>1 DEF TokenInv, WalletInv, IsSaving
  <2>2. CASE pc[c] = "saving"
    BY <2>2 DEF TokenInv, WalletInv, SavingInv, IsSaving
  <2> QED  BY <2>1, <2>2
<1>5. ASSUME NEW d \in Callers  PROVE SavingInv(d)'
  <2>1. SUFFICES ASSUME d # c, IsSaving(d)  PROVE SavingInv(d)'
    BY <1>0, <1>2 DEF SavingInv
  <2>2. token'[d] = token[d] /\ token[d] \in good /\ token[d] # wallet'.pair
    BY <1>2, <2>1 DEF TokenInv, SavingInv, IsSaving
  <2>3. ASSUME NEW e \in Callers
        PROVE  copy'[e] # token[d] /\ (e # d /\ IsSaving(e)' => token'[e] # token[d])
    BY <1>0, <1>2, <2>1 DEF TokenInv, SavingInv
  <2> QED  BY <2>2, <2>3 DEF SavingInv
<1>6. ASSUME NEW d \in Callers  PROVE SecondInv(d)'
  <2>1. CASE d = c
    <3>1. pc[c] = "saving" => token[c] > refused[c]
      BY <1>0 DEF TokenInv, SecondInv, IsSaving
    <3>2. pc'[c] = "call" /\ token'[c] = t
      BY ResolveShape
    <3>3. pc[c] = "found" => ~force[c]
      BY DEF TokenInv, SecondInv
    <3> QED  BY <1>0, <2>1, <3>1, <3>2, <3>3 DEF SecondInv
  <2>2. CASE d # c /\ pc[d] = "wait" /\ proc[d] = proc[c]
    <3>1. kind[d] # "login"
      BY <2>2 DEF LockInv
    <3>2. pc[c] = "saving" => token[c] > refused[d]
      BY <1>0, <2>2, <3>1 DEF TokenInv, SecondInv, IsSaving
    <3>3. pc'[d] \in {"call", "ask"} /\ (pc'[d] = "call" => token'[d] = t /\ (did \/ ~force[d]))
      BY <2>2, ResolveShape
    <3> QED  BY <3>1, <3>2, <3>3 DEF SecondInv, IsSaving
  <2>3. CASE d # c /\ ~(pc[d] = "wait" /\ proc[d] = proc[c])
    <3>1. pc'[d] = pc[d] /\ token'[d] = token[d]
      BY <2>3, ResolveShape
    <3>2. ASSUME IsSaving(d), kind[d] # "login"
          PROVE  \A e \in Callers : proc[e] = proc[d] => token'[e] = token[e]
      BY <1>1, <1>2, <2>3, <3>2
    <3>3. SecondInv(d)
      BY DEF TokenInv
    <3> QED  BY <3>1, <3>2, <3>3 DEF SecondInv, IsSaving
  <2> QED  BY <2>1, <2>2, <2>3
<1> QED  BY <1>3, <1>4, <1>5, <1>6 DEF TokenInv

(* A refresh fails; MCE may have issued a pair that nobody will save.         *)
LEMMA RejectTokens ==
    ASSUME ShapeInv, LockInv, TokenInv, NEW c \in Callers, Refreshing(c), Reject(c),
           UNCHANGED <<wallet, proc, kind, force, copy, refused>>, lost \subseteq lost',
           \/ UNCHANGED <<good, issued>>
           \/ Issue(copy[c]) /\ lost' # {},
           IsSaving(c) => lost' # {}
    PROVE  TokenInv'
<1>0. /\ kind[c] # "login" /\ ~IsSaving(c)' /\ token'[c] = 0
      /\ issued \in Nat /\ issued + 1 \in Nat
      /\ \A d \in Callers : token[d] \in Nat /\ refused[d] \in Nat /\ copy[d] \in Nat
      /\ wallet.pair \in Nat /\ good \subseteq Nat
  BY RejectShape, NumbersGrow DEF LockInv, Refreshing, IsSaving, ShapeInv
<1>1. ASSUME NEW d \in Callers, d # c
      PROVE  token'[d] = token[d] /\ (pc'[d] = pc[d] \/ (pc[d] = "wait" /\ pc'[d] = "expired"))
  BY <1>1, RejectShape
<1>2. /\ issued' \in {issued, issued + 1}
      /\ \A g \in good' : g \in good \/ (g = issued + 1 /\ issued' = issued + 1)
      /\ \A g \in good : g = copy[c] \/ g \in good'
  BY DEF Issue
<1>3. NumbersInv'
  <2>1. issued' >= issued /\ \A g \in good' : g > 0 /\ g <= issued'
    <3>1. \A g \in good : g \in Nat /\ g > 0 /\ g <= issued
      BY <1>0 DEF TokenInv, NumbersInv
    <3>2. issued' >= issued
      BY <1>0, <1>2
    <3>3. ASSUME NEW g \in good'  PROVE g > 0 /\ g <= issued'
      <4>1. CASE g \in good
        BY <1>0, <1>2, <3>1, <4>1
      <4>2. CASE g \notin good
        BY <1>0, <1>2, <4>2
      <4> QED  BY <4>1, <4>2
    <3> QED  BY <3>2, <3>3
  <2>2. \A d \in Callers : token'[d] <= issued' /\ refused[d] <= issued' /\ copy[d] <= issued'
    BY <1>0, <1>1, <1>2 DEF TokenInv, NumbersInv
  <2>3. wallet.pair <= issued'
    BY <1>0, <1>2 DEF TokenInv, NumbersInv
  <2> QED  BY <2>1, <2>2, <2>3 DEF NumbersInv
<1>4. WalletInv'
  BY <1>1 DEF TokenInv, WalletInv, IsSaving
<1>5. ASSUME NEW d \in Callers  PROVE SavingInv(d)'
  BY <1>0, <1>1, <1>2 DEF TokenInv, SavingInv, IsSaving
<1>6. ASSUME NEW d \in Callers  PROVE SecondInv(d)'
  <2>1. CASE d = c
    BY <1>0, <2>1, RejectShape DEF SecondInv, IsSaving
  <2>2. CASE d # c
    <3>1. ASSUME IsSaving(d), kind[d] # "login"
          PROVE  proc[c] = proc[d] => token[d] > 0
      BY <1>0, <3>1 DEF TokenInv, SavingInv, NumbersInv
    <3>2. SecondInv(d)
      BY DEF TokenInv
    <3> QED  BY <1>0, <1>1, <2>2, <3>1, <3>2 DEF SecondInv, IsSaving
  <2> QED  BY <2>1, <2>2
<1> QED  BY <1>3, <1>4, <1>5, <1>6 DEF TokenInv

(* MCE issues a pair to a caller that goes on to save it.                     *)
LEMMA IssueTokens ==
    ASSUME ShapeInv, LockInv, TokenInv, NEW c \in Callers, ~IsSaving(c), IsSaving(c)',
           issued' = issued + 1, good' \subseteq good \cup {issued'}, issued' \in good',
           good \subseteq good' \cup {copy[c]}, token'[c] = issued',
           \A d \in Callers : d # c => Same(d),
           UNCHANGED <<wallet, force, copy, refused, lost>>,
           \/ Refreshing(c) /\ UNCHANGED <<proc, kind>>
           \/ pc[c] = "idle" /\ kind'[c] = "login"
    PROVE  TokenInv'
<1>0. /\ issued \in Nat /\ issued' \in Nat /\ issued' > issued
      /\ \A d \in Callers : token[d] \in Nat /\ refused[d] \in Nat /\ copy[d] \in Nat
      /\ wallet.pair \in Nat /\ good \subseteq Nat
  <2>1. /\ issued \in Nat
        /\ \A d \in Callers : token[d] \in Nat /\ refused[d] \in Nat /\ copy[d] \in Nat
        /\ wallet.pair \in Nat /\ good \subseteq Nat
    BY DEF ShapeInv
  <2>2. issued' \in Nat /\ issued' > issued
    BY <2>1
  <2> QED  BY <2>1, <2>2
<1>1. /\ \A d \in Callers : token[d] < issued' /\ refused[d] < issued' /\ copy[d] < issued'
      /\ wallet.pair < issued' /\ \A g \in good : g < issued' /\ g > 0
  BY <1>0 DEF TokenInv, NumbersInv
<1>2. NumbersInv'
  BY <1>0, <1>1 DEF NumbersInv, Same
<1>3. WalletInv'
  BY DEF WalletInv
<1>4. ASSUME NEW d \in Callers  PROVE SavingInv(d)'
  <2>1. CASE d = c
    BY <1>1, <2>1 DEF SavingInv, Same
  <2>2. CASE d # c
    BY <1>0, <1>1, <2>2 DEF TokenInv, SavingInv, Same, IsSaving
  <2> QED  BY <2>1, <2>2
<1>5. kind'[c] # "login" => /\ kind[c] # "login" /\ lock[proc[c]] = c /\ proc'[c] = proc[c]
                            /\ \A d \in Callers : d # c /\ IsSaving(d) /\ kind[d] # "login"
                                 => proc[d] # proc[c]
  <2>1. SUFFICES ASSUME kind'[c] # "login"
                 PROVE  /\ kind[c] # "login" /\ lock[proc[c]] = c /\ proc'[c] = proc[c]
                        /\ \A d \in Callers : d # c /\ IsSaving(d) /\ kind[d] # "login"
                             => proc[d] # proc[c]
    OBVIOUS
  <2>2. kind[c] # "login" /\ lock[proc[c]] = c /\ proc'[c] = proc[c]
    BY <2>1 DEF LockInv
  <2>3. ASSUME NEW d \in Callers, IsSaving(d), kind[d] # "login"
        PROVE  lock[proc[d]] = d
    BY <2>3 DEF LockInv, Refreshing, IsSaving
  <2> QED  BY <2>2, <2>3
<1>6. kind'[c] = "login" => refused[c] = 0
  <2>1. kind[c] = "login" => refused[c] = 0
    BY DEF TokenInv, SecondInv
  <2>2. pc[c] = "idle" => refused[c] = 0
    BY DEF TokenInv, SecondInv
  <2> QED  BY <2>1, <2>2
<1>7. ASSUME NEW d \in Callers  PROVE SecondInv(d)'
  <2>1. CASE d = c
    BY <1>0, <1>1, <1>6, <2>1 DEF SecondInv, Same, IsSaving
  <2>2. CASE d # c
    <3>1. SecondInv(d)
      BY DEF TokenInv
    <3> QED  BY <1>5, <2>2, <3>1 DEF SecondInv, Same, IsSaving
  <2> QED  BY <2>1, <2>2
<1> QED  BY <1>2, <1>3, <1>4, <1>7 DEF TokenInv

(* A login saves the pair it was given.                                       *)
LEMMA LoginTokens ==
    ASSUME ShapeInv, TokenInv, NEW c \in Callers, IsSaving(c), kind[c] = "login",
           pc'[c] = "idle", token'[c] = 0, kind'[c] = "rest",
           \A d \in Callers : d # c => Same(d),
           UNCHANGED <<good, issued, proc, force, copy, refused, lost>>,
           wallet'.pair = token[c]
    PROVE  TokenInv'
<1>0. /\ issued \in Nat /\ refused[c] = 0 /\ token[c] \in good
      /\ \A d \in Callers : token[d] \in Nat /\ refused[d] \in Nat /\ copy[d] \in Nat
  BY DEF ShapeInv, TokenInv, SecondInv, SavingInv
<1>1. NumbersInv'
  BY <1>0 DEF TokenInv, NumbersInv, Same
<1>2. WalletInv'
  BY <1>0 DEF WalletInv
<1>3. ASSUME NEW d \in Callers  PROVE SavingInv(d)'
  BY DEF TokenInv, SavingInv, IsSaving, Same
<1>4. ASSUME NEW d \in Callers  PROVE SecondInv(d)'
  <2>1. CASE d = c
    BY <1>0, <2>1 DEF SecondInv, IsSaving
  <2>2. CASE d # c
    <3>1. SecondInv(d)
      BY DEF TokenInv
    <3>2. ASSUME IsSaving(d), kind[d] # "login"  PROVE token[d] > 0
      BY <3>2 DEF TokenInv, SavingInv, NumbersInv
    <3> QED  BY <1>0, <2>2, <3>1, <3>2 DEF SecondInv, Same, IsSaving
  <2> QED  BY <2>1, <2>2
<1> QED  BY <1>1, <1>2, <1>3, <1>4 DEF TokenInv

(* A process ends, and with it the calls in it.                               *)
LEMMA CrashTokens ==
    ASSUME ShapeInv, TokenInv, NEW p \in Procs, Crash(p)
    PROVE  TokenInv'
<1>0. /\ issued \in Nat
      /\ \A d \in Callers : token[d] \in Nat /\ refused[d] \in Nat /\ copy[d] \in Nat
  BY DEF ShapeInv
<1>1. /\ UNCHANGED <<wallet, good, issued, proc>> /\ lost \subseteq lost'
      /\ \A d \in Callers :
           /\ proc[d] = p => /\ pc'[d] = "idle" /\ kind'[d] = "rest" /\ force'[d] = FALSE
                             /\ token'[d] = 0 /\ copy'[d] = 0 /\ refused'[d] = 0
           /\ proc[d] # p => Same(d)
           /\ proc[d] = p /\ IsSaving(d) => lost' # {}
  <2>1. UNCHANGED <<wallet, good, issued, proc>> /\ lost \subseteq lost'
    BY DEF Crash, mceVars
  <2>2. ASSUME NEW d \in Callers, proc[d] = p, IsSaving(d)  PROVE lost' # {}
    BY <2>2 DEF Crash, IsSaving
  <2>3. ASSUME NEW d \in Callers, proc[d] = p
        PROVE  /\ pc'[d] = "idle" /\ kind'[d] = "rest" /\ force'[d] = FALSE
               /\ token'[d] = 0 /\ copy'[d] = 0 /\ refused'[d] = 0
    BY <2>3 DEF Crash
  <2>4. ASSUME NEW d \in Callers, proc[d] # p  PROVE Same(d)
    BY <2>4 DEF Crash, Same, ShapeInv
  <2> QED  BY <2>1, <2>2, <2>3, <2>4
<1>2. NumbersInv'
  BY <1>0, <1>1 DEF TokenInv, NumbersInv, Same
<1>3. WalletInv'
  BY <1>1 DEF TokenInv, WalletInv, IsSaving, Same
<1>4. ASSUME NEW d \in Callers  PROVE SavingInv(d)'
  <2>1. IsSaving(d)' => proc[d] # p
    BY <1>1 DEF IsSaving
  <2>2. IsSaving(d) => token[d] # 0
    <3>1. IsSaving(d) => token[d] \in good
      BY DEF TokenInv, SavingInv
    <3>2. \A g \in good : g > 0
      BY DEF TokenInv, NumbersInv
    <3> QED  BY <1>0, <3>1, <3>2
  <2>3. \A e \in Callers : IsSaving(e)' => IsSaving(e) /\ token'[e] = token[e]
    BY <1>1 DEF IsSaving, Same
  <2>4. \A e \in Callers : copy'[e] \in {copy[e], 0}
    BY <1>1 DEF Same
  <2> QED  BY <1>1, <2>1, <2>2, <2>3, <2>4 DEF TokenInv, SavingInv
<1>5. ASSUME NEW d \in Callers  PROVE SecondInv(d)'
  <2>1. CASE proc[d] = p
    BY <1>0, <1>1, <2>1 DEF SecondInv, IsSaving
  <2>2. CASE proc[d] # p
    <3>1. SecondInv(d)
      BY DEF TokenInv
    <3> QED  BY <1>1, <2>2, <3>1 DEF SecondInv, Same, IsSaving
  <2> QED  BY <2>1, <2>2
<1> QED  BY <1>2, <1>3, <1>4, <1>5 DEF TokenInv

LEMMA CallStepTokens ==
    ASSUME ShapeInv, LockInv, TokenInv, NEW c \in Callers, CallStep(c)
    PROVE  TokenInv'
<1> USE DEF mceVars, callVars, poolVars
<1>0. /\ proc[c] \in Procs /\ token[c] \in Nat /\ copy[c] \in Nat
      /\ kind[c] = "login" => IsSaving(c)
      /\ pc[c] \in {"idle", "reserving"} => token[c] = 0 /\ refused[c] = 0
  BY DEF ShapeInv, LockInv, IsSaving, TokenInv, SecondInv
<1>s. \A x \in {"ask", "read", "wait", "found", "post", "save", "saving", "call",
                "invalidate", "invalidating", "idle", "look"} : x \in Steps
  BY DEF Steps
<1>1. CASE Reserve(c) \/ Ask(c)
  <2>1. /\ pc[c] \in {"reserving", "ask"} /\ \E x \in {"ask", "read", "wait"} : Goto(c, x)
        /\ UNCHANGED <<wallet, good, issued, proc, kind, force, token, copy, refused, lost>>
    BY <1>1 DEF Reserve, Ask, Step
  <2>2. pc'[c] \in {"ask", "read", "wait"} /\ \A d \in Callers : d # c => Same(d)
    BY <1>s, <2>1, GotoShape DEF Same
  <2> QED  BY <2>1, <2>2, PlainStep DEF IsSaving
<1>2. CASE Read(c)
  <2>1. /\ pc[c] = "read" /\ (Goto(c, "post") \/ (Goto(c, "found") /\ ~force[c]))
        /\ copy' = [copy EXCEPT ![c] = wallet.pair]
        /\ UNCHANGED <<wallet, good, issued, proc, kind, force, token, refused, lost>>
    BY <1>2 DEF Read
  <2>2. copy'[c] = wallet.pair /\ \A d \in Callers : d # c => copy'[d] = copy[d]
    BY <2>1 DEF ShapeInv
  <2>3. /\ pc'[c] = "post" \/ (pc'[c] = "found" /\ ~force[c])
        /\ \A d \in Callers : d # c => Same(d)
    BY <1>s, <2>1, <2>2, GotoShape DEF Same
  <2> QED  BY <2>1, <2>2, <2>3, PlainStep DEF IsSaving
<1>3. CASE Found(c)
  <2>1. /\ pc[c] = "found" /\ Resolve(c, copy[c], FALSE)
        /\ UNCHANGED <<wallet, good, issued, proc, kind, force, copy, refused, lost>>
    BY <1>3 DEF Found
  <2> QED  BY <1>0, <2>1, ResolveTokens DEF Refreshing
<1>4. CASE Post(c)
  <2>1. pc[c] = "post" /\ UNCHANGED <<wallet, proc, kind, force, copy, refused, lost>>
    BY <1>4 DEF Post
  <2>2. CASE copy[c] \in good
    <3>1. Issue(copy[c]) /\ Goto(c, "save") /\ token' = [token EXCEPT ![c] = issued']
      BY <1>4, <2>2 DEF Post
    <3>2. token'[c] = issued' /\ \A d \in Callers : d # c => token'[d] = token[d]
      BY <3>1 DEF ShapeInv
    <3>3. pc'[c] = "save" /\ \A d \in Callers : d # c => Same(d)
      BY <1>s, <2>1, <3>1, <3>2, GotoShape DEF Same
    <3>4. /\ issued' = issued + 1 /\ good' \subseteq good \cup {issued'}
          /\ issued' \in good' /\ good \subseteq good' \cup {copy[c]}
      BY <3>1 DEF Issue
    <3>5. ~IsSaving(c) /\ IsSaving(c)' /\ Refreshing(c)
      BY <2>1, <3>3 DEF IsSaving, Refreshing
    <3> QED  BY <2>1, <3>2, <3>3, <3>4, <3>5, IssueTokens
  <2>3. CASE copy[c] \notin good
    <3>1. Reject(c) /\ UNCHANGED <<good, issued>>
      BY <1>4, <2>3 DEF Post
    <3> QED  BY <2>1, <3>1, RejectTokens DEF Refreshing, IsSaving
  <2> QED  BY <2>2, <2>3
<1>5. CASE ReserveSecond(c)
  <2>1. /\ \/ pc[c] = "save" /\ Goto(c, "saving")
           \/ pc[c] = "invalidate" /\ Goto(c, "invalidating")
        /\ UNCHANGED <<wallet, good, issued, proc, kind, force, token, copy, refused, lost>>
    BY <1>5 DEF ReserveSecond, Step
  <2>2. /\ \/ pc[c] = "save" /\ pc'[c] = "saving"
           \/ pc[c] = "invalidate" /\ pc'[c] = "invalidating"
        /\ \A d \in Callers : d # c => Same(d)
    BY <1>s, <2>1, GotoShape DEF Same
  <2> QED  BY <2>1, <2>2, PlainStep DEF IsSaving
<1>6. CASE Save(c)
  <2>1. /\ pc[c] = "saving" /\ wallet'.pair = token[c]
        /\ UNCHANGED <<good, issued, proc, force, copy, refused, lost>>
    BY <1>6 DEF Save
  <2>2. CASE kind[c] = "login"
    <3>1. Goto(c, "idle") /\ token' = [token EXCEPT ![c] = 0]
          /\ kind' = [kind EXCEPT ![c] = "rest"]
      BY <1>6, <2>2 DEF Save
    <3>2. token'[c] = 0 /\ kind'[c] = "rest"
          /\ \A d \in Callers : d # c => token'[d] = token[d] /\ kind'[d] = kind[d]
      BY <3>1 DEF ShapeInv
    <3>3. pc'[c] = "idle" /\ \A d \in Callers : d # c => Same(d)
      BY <1>s, <2>1, <3>1, <3>2, GotoShape DEF Same
    <3> QED  BY <2>1, <2>2, <3>2, <3>3, LoginTokens DEF IsSaving
  <2>3. CASE kind[c] # "login"
    <3>1. Resolve(c, token[c], TRUE) /\ UNCHANGED kind
      BY <1>6, <2>3 DEF Save
    <3> QED  BY <1>0, <2>1, <2>3, <3>1, ResolveTokens DEF Refreshing
  <2> QED  BY <2>2, <2>3
<1>7. CASE Call(c) \/ Expired(c)
  <2>1. pc[c] \in {"call", "expired"} /\ UNCHANGED <<wallet, good, issued, lost>>
    BY <1>7 DEF Call, Expired
  <2>2. ~IsSaving(c) /\ kind[c] # "login"
    BY <1>0, <2>1 DEF IsSaving
  <2>3. CASE End(c)
    <3>1. /\ pc'[c] = "idle" /\ token'[c] = 0 /\ refused'[c] = 0 /\ kind'[c] = "rest"
          /\ copy'[c] = 0 /\ proc'[c] = proc[c] /\ \A d \in Callers : d # c => Same(d)
      <4>1. copy'[c] = 0
        BY <2>3 DEF End, ShapeInv
      <4> QED  BY <2>3, <4>1, EndShape DEF Same
    <3> QED  BY <2>1, <2>2, <3>1, PlainStep DEF IsSaving
  <2>4. CASE ~End(c)
    <3>1. /\ Goto(c, "look")
          /\ refused' = refused \/ refused' = [refused EXCEPT ![c] = token[c]]
          /\ UNCHANGED <<proc, kind, force, token, copy>>
      BY <1>7, <2>4 DEF Call, Expired
    <3>2. refused'[c] \in {refused[c], token[c]}
          /\ \A d \in Callers : d # c => refused'[d] = refused[d]
      BY <3>1 DEF ShapeInv
    <3>3. pc'[c] = "look" /\ \A d \in Callers : d # c => Same(d)
      BY <1>s, <3>1, <3>2, GotoShape DEF Same
    <3> QED  BY <2>1, <2>2, <3>1, <3>2, <3>3, PlainStep DEF IsSaving
  <2> QED  BY <2>3, <2>4
<1>8. CASE Look(c)
  <2>1. /\ pc[c] = "look" /\ Goto(c, "invalidate")
        /\ copy' = [copy EXCEPT ![c] = wallet.pair]
        /\ UNCHANGED <<wallet, good, issued, proc, kind, force, token, refused, lost>>
    BY <1>8 DEF Look, Step
  <2>2. copy'[c] = wallet.pair /\ \A d \in Callers : d # c => copy'[d] = copy[d]
    BY <2>1 DEF ShapeInv
  <2>3. pc'[c] = "invalidate" /\ \A d \in Callers : d # c => Same(d)
    BY <1>s, <2>1, <2>2, GotoShape DEF Same
  <2> QED  BY <2>1, <2>2, <2>3, PlainStep DEF IsSaving
<1>9. CASE Invalidate(c)
  <2>1. /\ pc[c] = "invalidating" /\ Goto(c, "ask")
        /\ wallet'.pair = wallet.pair \/ (wallet'.pair = copy[c] /\ lost' # {})
        /\ lost \subseteq lost' /\ force' = [force EXCEPT ![c] = TRUE]
        /\ UNCHANGED <<good, issued, proc, kind, token, copy, refused>>
    BY <1>9 DEF Invalidate, Step
  <2>2. \A d \in Callers : d # c => force'[d] = force[d]
    BY <2>1 DEF ShapeInv
  <2>3. pc'[c] = "ask" /\ \A d \in Callers : d # c => Same(d)
    BY <1>s, <2>1, <2>2, GotoShape DEF Same
  <2> QED  BY <2>1, <2>3, PlainStep DEF IsSaving
<1> QED
  BY <1>1, <1>2, <1>3, <1>4, <1>5, <1>6, <1>7, <1>8, <1>9 DEF CallStep

LEMMA NextTokens == ASSUME ShapeInv, LockInv, TokenInv, [Next]_vars  PROVE TokenInv'
<1> USE DEF mceVars, callVars, poolVars
<1>s. \A x \in {"idle", "save", "reserving"} : x \in Steps
  BY DEF Steps
<1>1. ASSUME NEW c \in Callers, HookTimesOut(c)  PROVE TokenInv'
  <2>1. /\ pc[c] = "reserving" /\ Goto(c, "idle")
        /\ UNCHANGED <<wallet, good, issued, proc, kind, force, token, copy, refused, lost>>
    BY <1>1 DEF HookTimesOut, Step
  <2>2. pc'[c] = "idle" /\ \A d \in Callers : d # c => Same(d)
    BY <1>s, <2>1, GotoShape DEF Same
  <2>3. token[c] = 0 /\ refused[c] = 0
    BY <2>1 DEF TokenInv, SecondInv
  <2> QED  BY <2>1, <2>2, <2>3, PlainStep DEF IsSaving
<1>2. ASSUME NEW c \in Callers, AnswerLost(c)  PROVE TokenInv'
  <2>1. /\ pc[c] = "post" /\ Reject(c)
        /\ UNCHANGED <<wallet, proc, kind, force, copy, refused>>
    BY <1>2 DEF AnswerLost
  <2>2. /\ lost \subseteq lost'
        /\ \/ UNCHANGED <<good, issued>>
           \/ Issue(copy[c]) /\ lost' # {}
    BY <1>2 DEF AnswerLost
  <2> QED  BY <2>1, <2>2, RejectTokens DEF Refreshing, IsSaving
<1>3. ASSUME NEW c \in Callers, SaveFails(c)  PROVE TokenInv'
  <2>1. /\ pc[c] = "saving" /\ lost \subseteq lost' /\ lost' # {}
        /\ UNCHANGED <<wallet, good, issued, proc, force, copy, refused>>
    BY <1>3 DEF SaveFails
  <2>2. CASE kind[c] = "login"
    <3>1. Goto(c, "idle") /\ token' = [token EXCEPT ![c] = 0]
          /\ kind' = [kind EXCEPT ![c] = "rest"]
      BY <1>3, <2>2 DEF SaveFails
    <3>2. token'[c] = 0 /\ kind'[c] = "rest"
          /\ \A d \in Callers : d # c => token'[d] = token[d] /\ kind'[d] = kind[d]
      BY <3>1 DEF ShapeInv
    <3>3. pc'[c] = "idle" /\ \A d \in Callers : d # c => Same(d)
      BY <1>s, <2>1, <3>1, <3>2, GotoShape DEF Same
    <3>4. refused[c] = 0
      BY <2>2 DEF TokenInv, SecondInv
    <3> QED  BY <2>1, <2>2, <3>2, <3>3, <3>4, PlainStep DEF IsSaving
  <2>3. CASE kind[c] # "login"
    <3>1. Reject(c) /\ UNCHANGED kind
      BY <1>3, <2>3 DEF SaveFails
    <3> QED  BY <2>1, <2>3, <3>1, RejectTokens DEF Refreshing
  <2> QED  BY <2>2, <2>3
<1>4. ASSUME NEW c \in Callers, NEW p \in Procs, Login(c, p)  PROVE TokenInv'
  <2>1. /\ pc[c] = "idle" /\ Goto(c, "save") /\ proc' = [proc EXCEPT ![c] = p]
        /\ kind' = [kind EXCEPT ![c] = "login"] /\ token' = [token EXCEPT ![c] = issued']
        /\ issued' = issued + 1 /\ good' = good \cup {issued'}
        /\ UNCHANGED <<wallet, force, copy, refused, lost>>
    BY <1>4 DEF Login, Step
  <2>2. /\ kind'[c] = "login" /\ token'[c] = issued'
        /\ \A d \in Callers : d # c =>
             kind'[d] = kind[d] /\ proc'[d] = proc[d] /\ token'[d] = token[d]
    BY <2>1 DEF ShapeInv
  <2>3. pc'[c] = "save" /\ \A d \in Callers : d # c => Same(d)
    BY <1>s, <2>1, <2>2, GotoShape DEF Same
  <2>4. ~IsSaving(c) /\ IsSaving(c)'
    BY <2>1, <2>3 DEF IsSaving
  <2>5. good' \subseteq good \cup {issued'} /\ issued' \in good' /\ good \subseteq good' \cup {copy[c]}
    BY <2>1
  <2> QED  BY <2>1, <2>2, <2>3, <2>4, <2>5, IssueTokens
<1>5. ASSUME NEW c \in Callers, NEW p \in Procs, NEW k \in {"rest", "soap"}, Arrive(c, p, k)
      PROVE  TokenInv'
  <2>1. /\ pc[c] = "idle" /\ Goto(c, "reserving") /\ proc' = [proc EXCEPT ![c] = p]
        /\ kind' = [kind EXCEPT ![c] = k]
        /\ UNCHANGED <<wallet, good, issued, force, token, copy, refused, lost>>
    BY <1>5 DEF Arrive, Step
  <2>2. kind'[c] = k /\ \A d \in Callers : d # c => kind'[d] = kind[d] /\ proc'[d] = proc[d]
    BY <2>1 DEF ShapeInv
  <2>3. pc'[c] = "reserving" /\ \A d \in Callers : d # c => Same(d)
    BY <1>s, <2>1, <2>2, GotoShape DEF Same
  <2>4. token[c] = 0 /\ refused[c] = 0
    BY <2>1 DEF TokenInv, SecondInv
  <2> QED  BY <2>1, <2>2, <2>3, <2>4, PlainStep DEF IsSaving
<1>6. ASSUME Lapse \/ Revoke \/ UNCHANGED vars \/ \E p \in Procs : GrantedLate(p)
      PROVE  TokenInv'
  <2>1. /\ wallet'.pair = wallet.pair
        /\ UNCHANGED <<good, issued, lost, pc, proc, kind, force, token, copy, refused>>
    <3>1. UNCHANGED <<good, issued, lost, pc, proc, kind, force, token, copy, refused>>
      BY <1>6 DEF Lapse, Revoke, vars, GrantedLate
    <3>2. wallet' = wallet \/ wallet' = [wallet EXCEPT !.fresh = FALSE]
      BY <1>6 DEF Lapse, Revoke, vars, GrantedLate
    <3> QED  BY <3>1, <3>2 DEF ShapeInv
  <2> QED  BY <2>1 DEF TokenInv, NumbersInv, WalletInv, SecondInv, SavingInv, IsSaving
<1> QED
  BY <1>1, <1>2, <1>3, <1>4, <1>5, <1>6, CallStepTokens, CrashTokens DEF Next, Fault

LEMMA TokensAlways == Spec => []TokenInv
<1>1. Init => TokenInv
  BY DEF Init, TokenInv, NumbersInv, WalletInv, SecondInv, SavingInv, IsSaving
<1>2. ShapeInv /\ LockInv /\ TokenInv /\ [Next]_vars => TokenInv'
  BY NextTokens
<1> QED  BY <1>1, <1>2, LockAlways, PTL DEF Spec

(* A second attempt has a newer token than the one MCE rejected.              *)
THEOREM SecondIsNewer == Spec => []SecondTokenIsNewer
<1>1. TokenInv => SecondTokenIsNewer
  BY DEF TokenInv, SecondInv, SecondTokenIsNewer
<1> QED  BY <1>1, TokensAlways, PTL

(* The row keeps a refresh token that MCE takes, if no pair was lost in one   *)
(* of the ways that lost names.                                               *)
THEOREM RowIsUsable == Spec => []WalletUsable
<1>1. TokenInv => WalletUsable
  BY DEF TokenInv, WalletInv, IsSaving, WalletUsable
<1> QED  BY <1>1, TokensAlways, PTL
-----------------------------------------------------------------------------
(* The connections: what one caller takes or gives back is what the pool      *)
(* misses or gets.                                                            *)
HoldsContext(c) == kind[c] # "login" /\ pc[c] \notin {"idle", "reserving"}
HoldsSecond(c)  == pc[c] \in {"saving", "invalidating"}

One(b) == IF b THEN 1 ELSE 0

Held(c) == One(HoldsContext(c)) + One(HoldsSecond(c))

LEMMA CountChanges ==
    ASSUME NEW S \in SUBSET Callers, NEW T \in SUBSET Callers, NEW c \in Callers,
           \A d \in Callers : d # c => (d \in S <=> d \in T)
    PROVE  /\ Cardinality(S) \in Nat /\ Cardinality(T) \in Nat
           /\ Cardinality(T) = Cardinality(S) - One(c \in S) + One(c \in T)
<1>1. IsFiniteSet(S) /\ IsFiniteSet(T)
  BY SetsAssumption, FS_Subset
<1>2. Cardinality(S) \in Nat /\ Cardinality(T) \in Nat
  BY <1>1, FS_CardinalityType
<1>3. S \ {c} = T \ {c}
  OBVIOUS
<1>4. /\ Cardinality(S \ {c}) = Cardinality(S) - One(c \in S)
      /\ Cardinality(T \ {c}) = Cardinality(T) - One(c \in T)
  <2>1. Cardinality(S \ {c}) = IF c \in S THEN Cardinality(S) - 1 ELSE Cardinality(S)
    BY <1>1, FS_RemoveElement
  <2>2. Cardinality(T \ {c}) = IF c \in T THEN Cardinality(T) - 1 ELSE Cardinality(T)
    BY <1>1, FS_RemoveElement
  <2> QED  BY <1>2, <2>1, <2>2 DEF One
<1>5. Cardinality(S) - One(c \in S) = Cardinality(T) - One(c \in T)
  BY <1>3, <1>4
<1>6. One(c \in S) \in Nat /\ One(c \in T) \in Nat
  BY DEF One
<1> QED  BY <1>2, <1>5, <1>6

(* A step in which one caller takes or gives back connections of its process. *)
LEMMA OneCaller ==
    ASSUME ShapeInv, ShapeInv', ConnectionsConserved, NEW c \in Callers,
           \A d \in Callers : d # c => /\ proc'[d] = proc[d]
                                       /\ HoldsContext(d)' <=> HoldsContext(d)
                                       /\ HoldsSecond(d)' <=> HoldsSecond(d),
           proc'[c] = proc[c] \/ (Held(c) = 0 /\ Held(c)' = 0), leaked' = leaked,
           \A q \in Procs : q # proc[c] => free'[q] = free[q],
           free'[proc[c]] = free[proc[c]] + Held(c) - Held(c)'
    PROVE  ConnectionsConserved'
<1> SUFFICES ASSUME NEW p \in Procs
             PROVE  free'[p] + Cardinality(InContext(p)') + Cardinality(OnSecond(p)')
                      + leaked'[p] = Pool[p]
  BY DEF ConnectionsConserved
<1>1. /\ InContext(p) = {d \in Callers : proc[d] = p /\ HoldsContext(d)}
      /\ InContext(p)' = {d \in Callers : proc'[d] = p /\ HoldsContext(d)'}
      /\ OnSecond(p) = {d \in Callers : proc[d] = p /\ HoldsSecond(d)}
      /\ OnSecond(p)' = {d \in Callers : proc'[d] = p /\ HoldsSecond(d)'}
  BY DEF InContext, OnSecond, HoldsContext, HoldsSecond
<1>2. /\ Cardinality(InContext(p)) \in Nat /\ Cardinality(InContext(p)') \in Nat
      /\ Cardinality(InContext(p)') = Cardinality(InContext(p))
            - One(c \in InContext(p)) + One(c \in InContext(p)')
  BY <1>1, CountChanges
<1>3. /\ Cardinality(OnSecond(p)) \in Nat /\ Cardinality(OnSecond(p)') \in Nat
      /\ Cardinality(OnSecond(p)') = Cardinality(OnSecond(p))
            - One(c \in OnSecond(p)) + One(c \in OnSecond(p)')
  BY <1>1, CountChanges
<1>4. /\ free[p] \in Nat /\ free'[p] \in Nat /\ leaked[p] \in Nat /\ leaked'[p] = leaked[p]
      /\ free[p] + Cardinality(InContext(p)) + Cardinality(OnSecond(p)) + leaked[p] = Pool[p]
  BY DEF ShapeInv, ConnectionsConserved
<1>5. CASE proc[c] # p /\ proc'[c] # p
  <2>1. c \notin InContext(p) \cup InContext(p)' \cup OnSecond(p) \cup OnSecond(p)'
    BY <1>1, <1>5
  <2>2. free'[p] = free[p]
    BY <1>5
  <2> QED  BY <1>2, <1>3, <1>4, <2>1, <2>2 DEF One
<1>6. CASE proc'[c] # proc[c]
  <2>1. ~HoldsContext(c) /\ ~HoldsContext(c)' /\ ~HoldsSecond(c) /\ ~HoldsSecond(c)'
    BY <1>6 DEF Held, One
  <2>2. c \notin InContext(p) \cup InContext(p)' \cup OnSecond(p) \cup OnSecond(p)'
    BY <1>1, <2>1
  <2>3. free'[p] = free[p]
    BY <1>4, <1>6
  <2> QED  BY <1>2, <1>3, <1>4, <2>2, <2>3 DEF One
<1>7. CASE proc[c] = p /\ proc'[c] = p
  <2>1. /\ Held(c) = One(c \in InContext(p)) + One(c \in OnSecond(p))
        /\ Held(c)' = One(c \in InContext(p)') + One(c \in OnSecond(p)')
    BY <1>1, <1>7 DEF Held, One
  <2>2. free'[p] = free[p] + Held(c) - Held(c)'
    BY <1>7
  <2>3. /\ One(c \in InContext(p)) \in Nat /\ One(c \in OnSecond(p)) \in Nat
        /\ One(c \in InContext(p)') \in Nat /\ One(c \in OnSecond(p)') \in Nat
    BY DEF One
  <2> QED  BY <1>2, <1>3, <1>4, <2>1, <2>2, <2>3
<1> QED  BY <1>5, <1>6, <1>7

(* The end of a refresh frees nobody's connection. *)
LEMMA ResolveHolds ==
    ASSUME ShapeInv, NEW c \in Callers, kind' = kind,
           Reject(c) \/ \E t \in Nat, did \in BOOLEAN : Resolve(c, t, did)
    PROVE  /\ \A d \in Callers : d # c => /\ HoldsContext(d)' <=> HoldsContext(d)
                                          /\ HoldsSecond(d)' <=> HoldsSecond(d)
           /\ pc'[c] \in {"call", "expired"}
<1>1. CASE Reject(c)
  BY <1>1, RejectShape DEF HoldsContext, HoldsSecond
<1>2. ASSUME NEW t \in Nat, NEW did \in BOOLEAN, Resolve(c, t, did)
      PROVE  /\ \A d \in Callers : d # c => /\ HoldsContext(d)' <=> HoldsContext(d)
                                            /\ HoldsSecond(d)' <=> HoldsSecond(d)
             /\ pc'[c] \in {"call", "expired"}
  BY <1>2, ResolveShape DEF HoldsContext, HoldsSecond
<1> QED  BY <1>1, <1>2

LEMMA CallStepConserves ==
    ASSUME ShapeInv, ShapeInv', LockInv, ConnectionsConserved, NEW c \in Callers, CallStep(c)
    PROVE  ConnectionsConserved'
<1> USE DEF mceVars, callVars, poolVars
<1>0. /\ proc[c] \in Procs /\ token[c] \in Nat /\ copy[c] \in Nat /\ free[proc[c]] \in Nat
      /\ kind[c] = "login" => pc[c] \in {"save", "saving"}
  BY DEF ShapeInv, LockInv
<1>s. \A x \in {"ask", "read", "wait", "found", "post", "save", "saving", "call",
                "invalidate", "invalidating", "idle", "look"} : x \in Steps
  BY DEF Steps
<1>1. CASE Reserve(c)
  <2>1. /\ pc[c] = "reserving" /\ Goto(c, "ask") /\ Take(proc[c])
        /\ UNCHANGED <<proc, kind, leaked>>
    BY <1>1 DEF Reserve, Step
  <2>2. pc'[c] = "ask" /\ \A d \in Callers : d # c => pc'[d] = pc[d]
    BY <1>s, <2>1, GotoShape
  <2>3. /\ \A d \in Callers : d # c => /\ HoldsContext(d)' <=> HoldsContext(d)
                                       /\ HoldsSecond(d)' <=> HoldsSecond(d)
        /\ Held(c) = 0 /\ Held(c)' = 1
    BY <1>0, <2>1, <2>2 DEF HoldsContext, HoldsSecond, Held, One
  <2>4. free'[proc[c]] = free[proc[c]] - 1
        /\ \A q \in Procs : q # proc[c] => free'[q] = free[q]
    BY <1>0, <2>1, TakeShape
  <2>5. free'[proc[c]] = free[proc[c]] + Held(c) - Held(c)'
    BY <1>0, <2>3, <2>4
  <2> QED  BY <2>1, <2>3, <2>4, <2>5, OneCaller
<1>2. CASE Ask(c) \/ Read(c) \/ Look(c)
  <2>1. /\ pc[c] \in {"ask", "read", "look"}
        /\ \E x \in {"read", "wait", "found", "post", "invalidate"} : Goto(c, x)
        /\ UNCHANGED <<proc, kind, free, leaked>>
    BY <1>2 DEF Ask, Read, Look, Step
  <2>2. /\ pc'[c] \in {"read", "wait", "found", "post", "invalidate"}
        /\ \A d \in Callers : d # c => pc'[d] = pc[d]
    BY <1>s, <2>1, GotoShape DEF Steps
  <2>3. /\ \A d \in Callers : d # c => /\ HoldsContext(d)' <=> HoldsContext(d)
                                       /\ HoldsSecond(d)' <=> HoldsSecond(d)
        /\ Held(c) = 1 /\ Held(c)' = 1
    BY <1>0, <2>1, <2>2 DEF HoldsContext, HoldsSecond, Held, One
  <2>4. free'[proc[c]] = free[proc[c]] + Held(c) - Held(c)'
    BY <1>0, <2>1, <2>3
  <2> QED  BY <2>1, <2>3, <2>4, OneCaller
<1>3. CASE Found(c) \/ Post(c)
  <2>1. /\ pc[c] \in {"found", "post"} /\ UNCHANGED <<proc, kind, free, leaked>>
    BY <1>3 DEF Found, Post
  <2>2. /\ \A d \in Callers : d # c => /\ HoldsContext(d)' <=> HoldsContext(d)
                                       /\ HoldsSecond(d)' <=> HoldsSecond(d)
        /\ pc'[c] \in {"call", "expired", "save"}
    <3>1. CASE Goto(c, "save")
      BY <1>s, <2>1, <3>1, GotoShape DEF HoldsContext, HoldsSecond
    <3>2. CASE ~Goto(c, "save")
      <4>1. Reject(c) \/ Resolve(c, copy[c], FALSE)
        BY <1>3, <3>2 DEF Found, Post
      <4> QED  BY <1>0, <2>1, <4>1, ResolveHolds
    <3> QED  BY <3>1, <3>2
  <2>3. Held(c) = 1 /\ Held(c)' = 1
    BY <1>0, <2>1, <2>2 DEF HoldsContext, HoldsSecond, Held, One
  <2>4. free'[proc[c]] = free[proc[c]] + Held(c) - Held(c)'
    BY <1>0, <2>1, <2>3
  <2> QED  BY <2>1, <2>2, <2>4, OneCaller
<1>4. CASE ReserveSecond(c)
  <2>1. /\ \/ pc[c] = "save" /\ Goto(c, "saving")
           \/ pc[c] = "invalidate" /\ Goto(c, "invalidating")
        /\ Take(proc[c]) /\ UNCHANGED <<proc, kind, leaked>>
    BY <1>4 DEF ReserveSecond, Step
  <2>2. pc'[c] \in {"saving", "invalidating"} /\ \A d \in Callers : d # c => pc'[d] = pc[d]
    BY <1>s, <2>1, GotoShape
  <2>3. /\ \A d \in Callers : d # c => /\ HoldsContext(d)' <=> HoldsContext(d)
                                       /\ HoldsSecond(d)' <=> HoldsSecond(d)
        /\ Held(c) \in {0, 1} /\ Held(c)' = Held(c) + 1
    BY <1>0, <2>1, <2>2 DEF HoldsContext, HoldsSecond, Held, One
  <2>4. free'[proc[c]] = free[proc[c]] - 1
        /\ \A q \in Procs : q # proc[c] => free'[q] = free[q]
    BY <1>0, <2>1, TakeShape
  <2>5. free'[proc[c]] = free[proc[c]] + Held(c) - Held(c)'
    BY <1>0, <2>3, <2>4
  <2> QED  BY <2>1, <2>3, <2>4, <2>5, OneCaller
<1>5. CASE Save(c)
  <2>1. pc[c] = "saving" /\ Release(proc[c]) /\ UNCHANGED <<proc, leaked>>
    BY <1>5 DEF Save
  <2>2. /\ \A d \in Callers : d # c => /\ HoldsContext(d)' <=> HoldsContext(d)
                                       /\ HoldsSecond(d)' <=> HoldsSecond(d)
        /\ Held(c) \in {1, 2} /\ Held(c)' = Held(c) - 1
    <3>1. CASE kind[c] = "login"
      <4>1. Goto(c, "idle") /\ kind' = [kind EXCEPT ![c] = "rest"]
        BY <1>5, <3>1 DEF Save
      <4>2. pc'[c] = "idle" /\ \A d \in Callers : d # c => pc'[d] = pc[d] /\ kind'[d] = kind[d]
        <5>1. pc'[c] = "idle" /\ \A d \in Callers : d # c => pc'[d] = pc[d]
          BY <1>s, <4>1, GotoShape
        <5>2. \A d \in Callers : d # c => kind'[d] = kind[d]
          BY <4>1 DEF ShapeInv
        <5> QED  BY <5>1, <5>2
      <4>3. \A d \in Callers : d # c => /\ HoldsContext(d)' <=> HoldsContext(d)
                                        /\ HoldsSecond(d)' <=> HoldsSecond(d)
        BY <4>2 DEF HoldsContext, HoldsSecond
      <4>4. Held(c) = 1
        BY <2>1, <3>1 DEF HoldsContext, HoldsSecond, Held, One
      <4>5. ~HoldsContext(c)' /\ ~HoldsSecond(c)'
        BY <4>2 DEF HoldsContext, HoldsSecond
      <4>6. Held(c)' = 0
        BY <4>5 DEF Held, One
      <4> QED  BY <4>3, <4>4, <4>6
    <3>2. CASE kind[c] # "login"
      <4>1. Resolve(c, token[c], TRUE) /\ kind' = kind
        BY <1>5, <3>2 DEF Save
      <4>2. /\ \A d \in Callers : d # c => /\ HoldsContext(d)' <=> HoldsContext(d)
                                           /\ HoldsSecond(d)' <=> HoldsSecond(d)
            /\ pc'[c] \in {"call", "expired"}
        BY <1>0, <4>1, ResolveHolds
      <4> QED  BY <2>1, <3>2, <4>1, <4>2 DEF HoldsContext, HoldsSecond, Held, One
    <3> QED  BY <3>1, <3>2
  <2>3. free'[proc[c]] = free[proc[c]] + 1
        /\ \A q \in Procs : q # proc[c] => free'[q] = free[q]
    BY <1>0, <2>1, ReleaseShape
  <2>4. free'[proc[c]] = free[proc[c]] + Held(c) - Held(c)'
    BY <1>0, <2>2, <2>3
  <2> QED  BY <2>1, <2>2, <2>3, <2>4, OneCaller
<1>6. CASE Call(c) \/ Expired(c)
  <2>1. pc[c] \in {"call", "expired"} /\ kind[c] # "login"
    BY <1>0, <1>6 DEF Call, Expired
  <2>2. CASE End(c)
    <3>1. /\ \A d \in Callers : d # c => /\ HoldsContext(d)' <=> HoldsContext(d)
                                         /\ HoldsSecond(d)' <=> HoldsSecond(d)
          /\ Held(c) = 1 /\ Held(c)' = 0
      BY <2>1, <2>2, EndShape DEF HoldsContext, HoldsSecond, Held, One
    <3>2. free'[proc[c]] = free[proc[c]] + Held(c) - Held(c)'
      BY <1>0, <2>2, <3>1, EndShape
    <3> QED  BY <2>2, <3>1, <3>2, EndShape, OneCaller
  <2>3. CASE ~End(c)
    <3>1. Goto(c, "look") /\ UNCHANGED <<proc, kind, free, leaked>>
      BY <1>6, <2>3 DEF Call, Expired
    <3>2. pc'[c] = "look" /\ \A d \in Callers : d # c => pc'[d] = pc[d]
      BY <1>s, <3>1, GotoShape
    <3>3. /\ \A d \in Callers : d # c => /\ HoldsContext(d)' <=> HoldsContext(d)
                                         /\ HoldsSecond(d)' <=> HoldsSecond(d)
          /\ Held(c) = 1 /\ Held(c)' = 1
      BY <2>1, <3>1, <3>2 DEF HoldsContext, HoldsSecond, Held, One
    <3>4. free'[proc[c]] = free[proc[c]] + Held(c) - Held(c)'
      BY <1>0, <3>1, <3>3
    <3> QED  BY <3>1, <3>3, <3>4, OneCaller
  <2> QED  BY <2>2, <2>3
<1>7. CASE Invalidate(c)
  <2>1. /\ pc[c] = "invalidating" /\ Goto(c, "ask") /\ Release(proc[c])
        /\ UNCHANGED <<proc, kind, leaked>>
    BY <1>7 DEF Invalidate, Step
  <2>2. pc'[c] = "ask" /\ \A d \in Callers : d # c => pc'[d] = pc[d]
    BY <1>s, <2>1, GotoShape
  <2>3. /\ \A d \in Callers : d # c => /\ HoldsContext(d)' <=> HoldsContext(d)
                                       /\ HoldsSecond(d)' <=> HoldsSecond(d)
        /\ Held(c) = 2 /\ Held(c)' = 1
    BY <1>0, <2>1, <2>2 DEF HoldsContext, HoldsSecond, Held, One
  <2>4. free'[proc[c]] = free[proc[c]] + 1
        /\ \A q \in Procs : q # proc[c] => free'[q] = free[q]
    BY <1>0, <2>1, ReleaseShape
  <2>5. free'[proc[c]] = free[proc[c]] + Held(c) - Held(c)'
    BY <1>0, <2>3, <2>4
  <2> QED  BY <2>1, <2>3, <2>4, <2>5, OneCaller
<1> QED  BY <1>1, <1>2, <1>3, <1>4, <1>5, <1>6, <1>7 DEF CallStep

LEMMA NextConserves ==
    ASSUME ShapeInv, ShapeInv', LockInv, ConnectionsConserved, [Next]_vars
    PROVE  ConnectionsConserved'
<1> USE DEF mceVars, callVars, poolVars
<1>s. \A x \in {"idle", "save", "reserving"} : x \in Steps
  BY DEF Steps
<1>0. ASSUME NEW c \in Callers
      PROVE  /\ proc[c] \in Procs /\ free[proc[c]] \in Nat
             /\ kind[c] = "login" => pc[c] \in {"save", "saving"}
  BY DEF ShapeInv, LockInv
<1>1. ASSUME NEW c \in Callers, HookTimesOut(c)  PROVE ConnectionsConserved'
  <2>1. pc[c] = "reserving" /\ Goto(c, "idle") /\ UNCHANGED <<proc, kind, free, leaked>>
    BY <1>1 DEF HookTimesOut, Step
  <2>2. pc'[c] = "idle" /\ \A d \in Callers : d # c => pc'[d] = pc[d]
    BY <1>s, <2>1, GotoShape
  <2>3. /\ \A d \in Callers : d # c => /\ HoldsContext(d)' <=> HoldsContext(d)
                                       /\ HoldsSecond(d)' <=> HoldsSecond(d)
        /\ Held(c) = 0 /\ Held(c)' = 0
    BY <2>1, <2>2 DEF HoldsContext, HoldsSecond, Held, One
  <2>4. free'[proc[c]] = free[proc[c]] + Held(c) - Held(c)'
    BY <1>0, <2>1, <2>3
  <2> QED  BY <2>1, <2>3, <2>4, OneCaller
<1>2. ASSUME NEW c \in Callers, AnswerLost(c)  PROVE ConnectionsConserved'
  <2>1. pc[c] = "post" /\ Reject(c) /\ UNCHANGED <<proc, kind, free, leaked>>
    BY <1>2 DEF AnswerLost
  <2>2. /\ \A d \in Callers : d # c => /\ HoldsContext(d)' <=> HoldsContext(d)
                                       /\ HoldsSecond(d)' <=> HoldsSecond(d)
        /\ pc'[c] \in {"call", "expired"}
    BY <2>1, ResolveHolds
  <2>3. Held(c) = 1 /\ Held(c)' = 1
    BY <1>0, <2>1, <2>2 DEF HoldsContext, HoldsSecond, Held, One
  <2>4. free'[proc[c]] = free[proc[c]] + Held(c) - Held(c)'
    BY <1>0, <2>1, <2>3
  <2> QED  BY <2>1, <2>2, <2>4, OneCaller
<1>3. ASSUME NEW c \in Callers, SaveFails(c)  PROVE ConnectionsConserved'
  <2>1. pc[c] = "saving" /\ Release(proc[c]) /\ UNCHANGED <<proc, leaked>>
    BY <1>3 DEF SaveFails
  <2>2. /\ \A d \in Callers : d # c => /\ HoldsContext(d)' <=> HoldsContext(d)
                                       /\ HoldsSecond(d)' <=> HoldsSecond(d)
        /\ Held(c) \in {1, 2} /\ Held(c)' = Held(c) - 1
    <3>1. CASE kind[c] = "login"
      <4>1. Goto(c, "idle") /\ kind' = [kind EXCEPT ![c] = "rest"]
        BY <1>3, <3>1 DEF SaveFails
      <4>2. pc'[c] = "idle" /\ \A d \in Callers : d # c => pc'[d] = pc[d] /\ kind'[d] = kind[d]
        <5>1. pc'[c] = "idle" /\ \A d \in Callers : d # c => pc'[d] = pc[d]
          BY <1>s, <4>1, GotoShape
        <5>2. \A d \in Callers : d # c => kind'[d] = kind[d]
          BY <4>1 DEF ShapeInv
        <5> QED  BY <5>1, <5>2
      <4>3. \A d \in Callers : d # c => /\ HoldsContext(d)' <=> HoldsContext(d)
                                        /\ HoldsSecond(d)' <=> HoldsSecond(d)
        BY <4>2 DEF HoldsContext, HoldsSecond
      <4>4. Held(c) = 1
        BY <2>1, <3>1 DEF HoldsContext, HoldsSecond, Held, One
      <4>5. ~HoldsContext(c)' /\ ~HoldsSecond(c)'
        BY <4>2 DEF HoldsContext, HoldsSecond
      <4>6. Held(c)' = 0
        BY <4>5 DEF Held, One
      <4> QED  BY <4>3, <4>4, <4>6
    <3>2. CASE kind[c] # "login"
      <4>1. Reject(c) /\ kind' = kind
        BY <1>3, <3>2 DEF SaveFails
      <4>2. /\ \A d \in Callers : d # c => /\ HoldsContext(d)' <=> HoldsContext(d)
                                           /\ HoldsSecond(d)' <=> HoldsSecond(d)
            /\ pc'[c] \in {"call", "expired"}
        BY <4>1, ResolveHolds
      <4> QED  BY <2>1, <3>2, <4>1, <4>2 DEF HoldsContext, HoldsSecond, Held, One
    <3> QED  BY <3>1, <3>2
  <2>3. free'[proc[c]] = free[proc[c]] + 1
        /\ \A q \in Procs : q # proc[c] => free'[q] = free[q]
    BY <1>0, <2>1, ReleaseShape
  <2>4. free'[proc[c]] = free[proc[c]] + Held(c) - Held(c)'
    BY <1>0, <2>2, <2>3
  <2> QED  BY <2>1, <2>2, <2>3, <2>4, OneCaller
<1>4. ASSUME NEW c \in Callers, NEW p \in Procs, NEW k \in {"login", "rest", "soap"},
             \/ Login(c, p) /\ k = "login"
             \/ Arrive(c, p, k) /\ k # "login"
      PROVE  ConnectionsConserved'
  <2>1. /\ pc[c] = "idle" /\ Goto(c, IF k = "login" THEN "save" ELSE "reserving")
        /\ proc' = [proc EXCEPT ![c] = p] /\ kind' = [kind EXCEPT ![c] = k]
        /\ UNCHANGED <<free, leaked>>
    BY <1>4 DEF Login, Arrive, Step
  <2>2. /\ kind'[c] = k /\ \A d \in Callers : d # c => kind'[d] = kind[d] /\ proc'[d] = proc[d]
    BY <2>1 DEF ShapeInv
  <2>3. /\ pc'[c] = IF k = "login" THEN "save" ELSE "reserving"
        /\ \A d \in Callers : d # c => pc'[d] = pc[d]
    BY <1>s, <2>1, GotoShape
  <2>4. /\ \A d \in Callers : d # c => /\ HoldsContext(d)' <=> HoldsContext(d)
                                       /\ HoldsSecond(d)' <=> HoldsSecond(d)
        /\ Held(c) = 0 /\ Held(c)' = 0
    <3>1. \A d \in Callers : d # c => /\ HoldsContext(d)' <=> HoldsContext(d)
                                      /\ HoldsSecond(d)' <=> HoldsSecond(d)
      BY <2>2, <2>3 DEF HoldsContext, HoldsSecond
    <3>2. ~HoldsContext(c) /\ ~HoldsSecond(c)
      BY <2>1 DEF HoldsContext, HoldsSecond
    <3>3. ~HoldsContext(c)' /\ ~HoldsSecond(c)'
      BY <2>2, <2>3 DEF HoldsContext, HoldsSecond
    <3> QED  BY <3>1, <3>2, <3>3 DEF Held, One
  <2>5. free'[proc[c]] = free[proc[c]] + Held(c) - Held(c)'
    BY <1>0, <2>1, <2>4
  <2> QED  BY <2>1, <2>2, <2>4, <2>5, OneCaller
<1>5. ASSUME NEW p \in Procs, GrantedLate(p)  PROVE ConnectionsConserved'
  <2>1. /\ Take(p) /\ leaked' = [leaked EXCEPT ![p] = @ + 1] /\ UNCHANGED <<pc, proc, kind>>
    BY <1>5 DEF GrantedLate
  <2>2. /\ leaked'[p] = leaked[p] + 1 /\ free'[p] = free[p] - 1
        /\ \A q \in Procs : q # p => leaked'[q] = leaked[q] /\ free'[q] = free[q]
    <3>1. leaked'[p] = leaked[p] + 1 /\ \A q \in Procs : q # p => leaked'[q] = leaked[q]
      BY <2>1 DEF ShapeInv
    <3>2. free'[p] = free[p] - 1 /\ \A q \in Procs : q # p => free'[q] = free[q]
      BY <2>1, TakeShape
    <3> QED  BY <3>1, <3>2
  <2>3. ASSUME NEW q \in Procs
        PROVE  free'[q] + Cardinality(InContext(q)') + Cardinality(OnSecond(q)')
                 + leaked'[q] = Pool[q]
    <3>1. InContext(q)' = InContext(q) /\ OnSecond(q)' = OnSecond(q)
      BY <2>1 DEF InContext, OnSecond
    <3>2. /\ free[q] + Cardinality(InContext(q)) + Cardinality(OnSecond(q)) + leaked[q]
               = Pool[q]
          /\ free[q] \in Nat /\ leaked[q] \in Nat
      BY DEF ConnectionsConserved, ShapeInv
    <3>3. Cardinality(InContext(q)) \in Nat /\ Cardinality(OnSecond(q)) \in Nat
      BY SetsAssumption, FS_Subset, FS_CardinalityType DEF InContext, OnSecond
    <3> QED  BY <2>2, <3>1, <3>2, <3>3
  <2> QED  BY <2>3 DEF ConnectionsConserved
<1>6. ASSUME NEW p \in Procs, Crash(p)  PROVE ConnectionsConserved'
  <2>1. /\ proc' = proc /\ free' = [free EXCEPT ![p] = Pool[p]]
        /\ leaked' = [leaked EXCEPT ![p] = 0]
        /\ \A c \in Callers : /\ proc[c] = p => pc'[c] = "idle"
                              /\ proc[c] # p => pc'[c] = pc[c] /\ kind'[c] = kind[c]
    BY <1>6 DEF Crash
  <2>2. ASSUME NEW q \in Procs
        PROVE  free'[q] + Cardinality(InContext(q)') + Cardinality(OnSecond(q)')
                 + leaked'[q] = Pool[q]
    <3>1. CASE q = p
      <4>1. InContext(q)' = {} /\ OnSecond(q)' = {}
        BY <2>1, <3>1 DEF InContext, OnSecond
      <4>2. free'[q] = Pool[q] /\ leaked'[q] = 0 /\ Pool[q] \in Nat
        BY <2>1, <3>1, NumbersAssumption DEF ShapeInv
      <4> QED  BY <4>1, <4>2, FS_EmptySet
    <3>2. CASE q # p
      <4>1. InContext(q)' = InContext(q) /\ OnSecond(q)' = OnSecond(q)
        BY <2>1, <3>2 DEF InContext, OnSecond
      <4>2. free'[q] = free[q] /\ leaked'[q] = leaked[q]
        BY <2>1, <3>2 DEF ShapeInv
      <4> QED  BY <4>1, <4>2 DEF ConnectionsConserved
    <3> QED  BY <3>1, <3>2
  <2> QED  BY <2>2 DEF ConnectionsConserved
<1>7. CASE Lapse \/ Revoke \/ UNCHANGED vars
  <2>1. UNCHANGED <<pc, proc, kind, free, leaked>>
    BY <1>7 DEF Lapse, Revoke, vars
  <2> QED  BY <2>1 DEF ConnectionsConserved, InContext, OnSecond
<1> QED
  BY <1>1, <1>2, <1>3, <1>4, <1>5, <1>6, <1>7, CallStepConserves DEF Next, Fault

(* Connections are neither lost nor made up, but for those that are granted   *)
(* to a hook that has given up.                                               *)
THEOREM Conserved == Spec => []ConnectionsConserved
<1>1. Init => ConnectionsConserved
  <2> SUFFICES ASSUME Init, NEW p \in Procs
               PROVE  free[p] + Cardinality(InContext(p)) + Cardinality(OnSecond(p))
                        + leaked[p] = Pool[p]
    BY DEF ConnectionsConserved
  <2>1. InContext(p) = {} /\ OnSecond(p) = {}
    BY DEF Init, InContext, OnSecond
  <2>2. free[p] = Pool[p] /\ leaked[p] = 0 /\ Pool[p] \in Nat
    BY NumbersAssumption DEF Init
  <2> QED  BY <2>1, <2>2, FS_EmptySet
<1>2. /\ ShapeInv /\ ShapeInv' /\ LockInv /\ ConnectionsConserved /\ [Next]_vars
      => ConnectionsConserved'
  BY NextConserves
<1> QED  BY <1>1, <1>2, LockAlways, PTL DEF Spec

(* The values of the variables; a pool never has more than its connections.   *)
THEOREM TypeCorrect == Spec => []TypeOK
<1>1. ShapeInv /\ ConnectionsConserved => TypeOK
  <2> SUFFICES ASSUME ShapeInv, ConnectionsConserved  PROVE TypeOK
    OBVIOUS
  <2>1. ASSUME NEW p \in Procs  PROVE free[p] <= Pool[p]
    <3>1. Cardinality(InContext(p)) \in Nat /\ Cardinality(OnSecond(p)) \in Nat
      BY SetsAssumption, FS_Subset, FS_CardinalityType DEF InContext, OnSecond
    <3>2. /\ free[p] \in Nat /\ leaked[p] \in Nat
          /\ free[p] + Cardinality(InContext(p)) + Cardinality(OnSecond(p)) + leaked[p]
               = Pool[p]
      BY DEF ShapeInv, ConnectionsConserved
    <3> QED  BY <3>1, <3>2
  <2> QED  BY <2>1 DEF ShapeInv, TypeOK
<1> QED  BY <1>1, Conserved, LockAlways, PTL
=============================================================================
