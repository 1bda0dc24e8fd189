------------------------- MODULE BillingWebhook_proofs -------------------------
(* What holds of BillingWebhook for any number of subscriptions, workers,     *)
(* events, attempts and failures.                                             *)
EXTENDS BillingWebhook, TLAPS

(* The types of all that is stored; TypeOK says less.                         *)
Statuses == Live \cup {"none", "canceled"}

StripeShape ==
    /\ now \in 0 .. MaxTime
    /\ stripe \in [Subs -> [status : Statuses, ver : Nat, at : 0 .. MaxTime]]
    /\ session \in [Subs -> [status : {"none", "open", "paid"}, at : 0 .. MaxTime]]
    /\ stored \in [sub : Subs \cup {None}, status : {"none", "open", "completed"}]

QueueShape ==
    /\ sent \in 0 .. MaxEvents
    /\ info \in [Events -> [kind : Kinds \cup {"none"}, sub : Subs \cup {None},
                            at : 0 .. MaxTime, status : Statuses, ver : Nat]]
    /\ job \in [Events -> {"none", "waiting", "active", "asked", "done", "failed"}]
    /\ tries \in [Events -> 0 .. Attempts]
    /\ mark \in [Events -> {"none", "processing", "stale", "failed", "completed"}]
    /\ failures \in 0 .. MaxFailures /\ orphaned \subseteq Events

RowShape ==
    /\ row \in [exists : BOOLEAN, tier : {"free", "pro"}, sub : Subs \cup {None},
                status : Statuses, paid : BOOLEAN, trial : {"none", "running", "used"},
                at : {-1} \cup 0 .. MaxTime, of : Subs \cup {None}, ver : Nat]
    /\ binding \in Subs \cup {None} /\ trials \in Nat

WorkShape ==
    /\ pc \in [Workers -> Steps] /\ doing \in [Workers -> Events]
    /\ saw \in [Workers -> [status : Statuses, ver : Nat]]
    /\ kept \in [Workers -> [sub : Subs \cup {None}, paid : BOOLEAN,
                             at : {-1} \cup 0 .. MaxTime, bound : Subs \cup {None}]]

ShapeInv == StripeShape /\ QueueShape /\ RowShape /\ WorkShape

Busy(w) == pc[w] # "idle"

(* A worker is at a job that is active, and alone at it, or at a request of   *)
(* the user; and what is queued is known.                                     *)
JobInv ==
    /\ \A e \in Events : /\ job[e] \in {"none", "waiting", "active"} => tries[e] < Attempts
                         /\ e > sent => job[e] = "none"
                         /\ job[e] # "none" => info[e].sub \in Subs
    /\ \A w \in Workers : Busy(w) => job[doing[w]] \in {"active", "asked"}
    /\ \A v, w \in Workers :
          Busy(v) /\ Busy(w) /\ doing[v] = doing[w] /\ job[doing[w]] = "active" => v = w

LEMMA InitShape == ASSUME Init  PROVE ShapeInv /\ JobInv
<1>1. 0 \in 0 .. MaxTime /\ 0 \in 0 .. MaxEvents /\ 0 \in 0 .. Attempts /\ 0 \in 0 .. MaxFailures
  BY NumbersAssumption
<1>2. StripeShape
  BY <1>1 DEF Init, StripeShape, Statuses
<1>3. QueueShape
  BY <1>1 DEF Init, QueueShape, Statuses
<1>4. RowShape
  BY DEF Init, RowShape, NoRow, Statuses
<1>5. 1 \in Events
  BY NumbersAssumption DEF Events
<1>6. WorkShape
  BY <1>5 DEF Init, WorkShape, NotRead, Statuses, Steps
<1>7. JobInv
  BY NumbersAssumption DEF Init, JobInv, Busy
<1> QED  BY <1>2, <1>3, <1>4, <1>6, <1>7 DEF ShapeInv
-----------------------------------------------------------------------------
(* What the parts of the actions do *)

LEMMA GotoShape ==
    ASSUME WorkShape, NEW w \in Workers, NEW to \in Steps, Goto(w, to)
    PROVE  /\ pc' \in [Workers -> Steps] /\ pc'[w] = to
           /\ \A v \in Workers : v # w => pc'[v] = pc[v]
  BY DEF WorkShape, Goto

LEMMA NextEvent ==
    ASSUME QueueShape, sent < MaxEvents
    PROVE  sent + 1 \in Events /\ sent + 1 \in 0 .. MaxEvents
<1>1. sent \in Nat /\ MaxEvents \in Nat
  BY NumbersAssumption DEF QueueShape
<1> QED  BY <1>1 DEF Events

(* An event is queued behind those that are known. *)
LEMMA EnqueueShape ==
    ASSUME QueueShape, JobInv, NEW kind \in Kinds, NEW s \in Subs, NEW at \in 0 .. MaxTime,
           NEW status \in Statuses, NEW ver \in Nat, NEW state \in {"waiting", "asked"},
           Enqueue(kind, s, at, status, ver, state)
    PROVE  /\ QueueShape'
           /\ UNCHANGED <<tries, mark, row, binding, trials, drift, pc, doing, saw, kept,
                          failures, orphaned>>
           /\ sent' = sent + 1 /\ sent' \in Events /\ job[sent'] = "none"
           /\ job'[sent'] = state /\ info'[sent'].sub = s
           /\ \A e \in Events : e # sent' => job'[e] = job[e] /\ info'[e] = info[e]
<1>1. /\ sent' = sent + 1 /\ sent' \in Events /\ sent' \in 0 .. MaxEvents
      /\ UNCHANGED <<tries, mark, row, binding, trials, drift, pc, doing, saw, kept,
                     failures, orphaned>>
  BY NextEvent DEF Enqueue, rowVars, workVars
<1>2. /\ info' = [info EXCEPT ![sent'] = [kind |-> kind, sub |-> s, at |-> at,
                                          status |-> status, ver |-> ver]]
      /\ job' = [job EXCEPT ![sent'] = state]
  BY DEF Enqueue
<1>3. [kind |-> kind, sub |-> s, at |-> at, status |-> status, ver |-> ver] \in
        [kind : Kinds \cup {"none"}, sub : Subs \cup {None}, at : 0 .. MaxTime,
         status : Statuses, ver : Nat]
  OBVIOUS
<1>4. /\ info' \in [Events -> [kind : Kinds \cup {"none"}, sub : Subs \cup {None},
                               at : 0 .. MaxTime, status : Statuses, ver : Nat]]
      /\ info'[sent'].sub = s /\ \A e \in Events : e # sent' => info'[e] = info[e]
  BY <1>1, <1>2, <1>3 DEF QueueShape
<1>5. /\ job' \in [Events -> {"none", "waiting", "active", "asked", "done", "failed"}]
      /\ job'[sent'] = state /\ \A e \in Events : e # sent' => job'[e] = job[e]
  BY <1>1, <1>2 DEF QueueShape
<1>6. job[sent'] = "none"
  <2>1. sent \in Nat /\ sent' > sent
    BY <1>1 DEF QueueShape
  <2> QED  BY <1>1, <2>1 DEF JobInv
<1> QED  BY <1>1, <1>4, <1>5, <1>6 DEF QueueShape

LEMMA EnqueueJobs ==
    ASSUME QueueShape, WorkShape, JobInv, NEW kind \in Kinds, NEW s \in Subs,
           NEW at \in 0 .. MaxTime, NEW status \in Statuses, NEW ver \in Nat,
           NEW state \in {"waiting", "asked"}, Enqueue(kind, s, at, status, ver, state)
    PROVE  JobInv'
<1>1. /\ UNCHANGED <<tries, pc, doing>>
      /\ sent' = sent + 1 /\ sent' \in Events /\ job[sent'] = "none"
      /\ job'[sent'] = state /\ info'[sent'].sub = s
      /\ \A e \in Events : e # sent' => job'[e] = job[e] /\ info'[e] = info[e]
  BY EnqueueShape
<1>2. sent \in Nat /\ \A e \in Events : e \in Nat
  BY NumbersAssumption DEF QueueShape, Events
<1>3. ASSUME NEW e \in Events
      PROVE  /\ job'[e] \in {"none", "waiting", "active"} => tries'[e] < Attempts
             /\ e > sent' => job'[e] = "none"
             /\ job'[e] # "none" => info'[e].sub \in Subs
  <2>1. CASE e = sent'
    BY <1>1, <1>2, <2>1 DEF JobInv
  <2>2. CASE e # sent'
    <3>1. e > sent' => e > sent
      BY <1>1, <1>2
    <3> QED  BY <1>1, <2>2, <3>1 DEF JobInv
  <2> QED  BY <2>1, <2>2
<1>4. ASSUME NEW w \in Workers, Busy(w)  PROVE doing[w] # sent' /\ doing[w] \in Events
  BY <1>1, <1>4 DEF JobInv, WorkShape
<1>5. ASSUME NEW w \in Workers, Busy(w)'
      PROVE  Busy(w) /\ job'[doing'[w]] = job[doing[w]] /\ doing'[w] = doing[w]
  BY <1>1, <1>4, <1>5 DEF Busy
<1> QED  BY <1>3, <1>5 DEF JobInv

(* An attempt at a job that is waiting or active fails; a request is only     *)
(* refused.                                                                   *)
LEMMA FailShape ==
    ASSUME QueueShape, JobInv, NEW e \in Events, FailAttempt(e),
           job[e] \in {"waiting", "active", "asked"}
    PROVE  /\ job' \in [Events -> {"none", "waiting", "active", "asked", "done", "failed"}]
           /\ tries' \in [Events -> 0 .. Attempts]
           /\ \A f \in Events : f # e => job'[f] = job[f] /\ tries'[f] = tries[f]
           /\ IF job[e] = "asked" THEN job'[e] = "asked"
              ELSE \/ job'[e] = "failed"
                   \/ job'[e] = "waiting" /\ tries'[e] < Attempts
<1>1. CASE job[e] = "asked"
  BY <1>1 DEF FailAttempt, QueueShape
<1>2. CASE job[e] # "asked"
  <2>1. tries[e] \in Nat /\ tries[e] < Attempts /\ Attempts \in Nat
    BY <1>2, NumbersAssumption DEF JobInv, QueueShape
  <2>2. tries[e] + 1 \in 0 .. Attempts
    BY <2>1
  <2>3. /\ tries' = [tries EXCEPT ![e] = @ + 1]
        /\ job' = [job EXCEPT ![e] = IF tries'[e] < Attempts THEN "waiting" ELSE "failed"]
    BY <1>2 DEF FailAttempt
  <2>4. tries' \in [Events -> 0 .. Attempts] /\ \A f \in Events : f # e => tries'[f] = tries[f]
    BY <2>2, <2>3 DEF QueueShape
  <2> QED  BY <1>2, <2>3, <2>4 DEF QueueShape
<1> QED  BY <1>1, <1>2

LEMMA RestShape ==
    ASSUME WorkShape, NEW w \in Workers, Rest(w)
    PROVE  /\ WorkShape' /\ ~Busy(w)' /\ UNCHANGED <<now, stripe, session, sent, info, row,
                                                     binding, trials, drift>>
           /\ \A v \in Workers : v # w => /\ pc'[v] = pc[v] /\ doing'[v] = doing[v]
                                          /\ kept'[v] = kept[v]
<1>1. 1 \in Events
  BY NumbersAssumption DEF Events
<1>2. [status |-> "none", ver |-> 0] \in [status : Statuses, ver : Nat] /\ "idle" \in Steps
  BY DEF Statuses, Steps
<1>3. NotRead \in [sub : Subs \cup {None}, paid : BOOLEAN,
                   at : {-1} \cup 0 .. MaxTime, bound : Subs \cup {None}]
  BY DEF NotRead
<1>4. WorkShape'
  BY <1>1, <1>2, <1>3 DEF Rest, WorkShape
<1>5. /\ ~Busy(w)'
      /\ \A v \in Workers : v # w => /\ pc'[v] = pc[v] /\ doing'[v] = doing[v]
                                     /\ kept'[v] = kept[v]
  BY DEF Rest, WorkShape, Busy
<1> QED  BY <1>4, <1>5 DEF Rest, stripeVars, rowVars

(* A worker leaves its event: the others go on with theirs.                   *)
LEMMA LeavesEvent ==
    ASSUME ShapeInv, JobInv, NEW w \in Workers, Busy(w), ~Busy(w)',
           UNCHANGED <<sent, info>>,
           \A v \in Workers : v # w => pc'[v] = pc[v] /\ doing'[v] = doing[v],
           \A f \in Events : f # doing[w] => job'[f] = job[f] /\ tries'[f] = tries[f],
           IF job[doing[w]] = "asked" THEN job'[doing[w]] = "asked"
           ELSE \/ job'[doing[w]] \in {"done", "failed"}
                \/ job'[doing[w]] = "waiting" /\ tries'[doing[w]] < Attempts
    PROVE  JobInv'
<1>1. doing[w] \in Events /\ job[doing[w]] \in {"active", "asked"}
  BY DEF ShapeInv, WorkShape, JobInv
<1>2. ASSUME NEW v \in Workers, Busy(v)'
      PROVE  /\ v # w /\ Busy(v) /\ doing'[v] = doing[v] /\ doing[v] \in Events
             /\ job'[doing[v]] = job[doing[v]]
  <2>1. v # w /\ Busy(v) /\ doing'[v] = doing[v] /\ doing[v] \in Events
    BY <1>2 DEF Busy, ShapeInv, WorkShape
  <2>2. CASE doing[v] = doing[w]
    BY <1>1, <2>1, <2>2 DEF JobInv
  <2> QED  BY <2>1, <2>2
<1>3. ASSUME NEW e \in Events
      PROVE  /\ job'[e] \in {"none", "waiting", "active"} => tries'[e] < Attempts
             /\ e > sent' => job'[e] = "none"
             /\ job'[e] # "none" => info'[e].sub \in Subs
  BY <1>1 DEF JobInv
<1>4. ASSUME NEW v \in Workers, Busy(v)'  PROVE job'[doing'[v]] \in {"active", "asked"}
  BY <1>2, <1>4 DEF JobInv
<1>5. ASSUME NEW u \in Workers, NEW v \in Workers, Busy(u)', Busy(v)',
             doing'[u] = doing'[v], job'[doing'[v]] = "active"
      PROVE  u = v
  BY <1>2, <1>5 DEF JobInv
<1> QED  BY <1>3, <1>4, <1>5 DEF JobInv
-----------------------------------------------------------------------------
(* The user, Stripe and the logins *)

UserStep ==
    \/ ActivateTrial
    \/ \E s \in Subs : \/ OpenSession(s) \/ Pay(s) \/ Invoice(s) \/ Confirm(s)
                       \/ \E status \in Live \cup {"canceled"} : Change(s, status)

LEMMA BecomesShape ==
    ASSUME StripeShape, NEW s \in Subs, NEW status \in Statuses, Becomes(s, status)
    PROVE  /\ now' \in 0 .. MaxTime /\ stored' = stored
           /\ stripe' \in [Subs -> [status : Statuses, ver : Nat, at : 0 .. MaxTime]]
<1>1. now' \in 0 .. MaxTime /\ stored' = stored
  BY DEF Becomes
<1>2. stripe[s].ver \in Nat
  BY DEF StripeShape
<1>3. [status |-> status, ver |-> stripe[s].ver + 1, at |-> now']
        \in [status : Statuses, ver : Nat, at : 0 .. MaxTime]
  BY <1>1, <1>2
<1>4. stripe' = [stripe EXCEPT ![s] = [status |-> status, ver |-> stripe[s].ver + 1,
                                       at |-> now']]
  BY DEF Becomes
<1> QED  BY <1>1, <1>3, <1>4 DEF StripeShape

(* What they do to the queue. *)
LEMMA UserQueue ==
    ASSUME ShapeInv, JobInv, UserStep
    PROVE  /\ StripeShape'
           /\ UNCHANGED <<tries, mark, pc, doing, saw, kept, failures, orphaned, binding,
                          drift>>
           /\ \/ UNCHANGED <<sent, info, job>>
              \/ \E kind \in Kinds, s \in Subs, at \in 0 .. MaxTime, status \in Statuses,
                    ver \in Nat, state \in {"waiting", "asked"} :
                    Enqueue(kind, s, at, status, ver, state)
           /\ (row' = row /\ trials' = trials) \/ ActivateTrial
<1> USE DEF stripeVars, queueVars, rowVars, workVars
<1>1. CASE ActivateTrial
  BY <1>1 DEF ActivateTrial, ShapeInv, StripeShape
<1>2. ASSUME NEW s \in Subs, OpenSession(s)
      PROVE  StripeShape' /\ UNCHANGED <<queueVars, rowVars, workVars, failures, orphaned>>
  <2>1. /\ session' = [session EXCEPT ![s] = [status |-> "open", at |-> now]]
        /\ stored' = [sub |-> s, status |-> "open"]
        /\ UNCHANGED <<now, stripe, queueVars, rowVars, workVars, failures, orphaned>>
    BY <1>2 DEF OpenSession
  <2> QED  BY <2>1 DEF ShapeInv, StripeShape
<1>3. ASSUME NEW kind \in Kinds, NEW s \in Subs, StripeShape', Deliver(kind, s)
      PROVE  /\ UNCHANGED <<tries, mark, rowVars, workVars, failures, orphaned>>
             /\ \E k \in Kinds, t \in Subs, at \in 0 .. MaxTime, status \in Statuses,
                   ver \in Nat, state \in {"waiting", "asked"} :
                   Enqueue(k, t, at, status, ver, state)
  <2>1. stripe'[s].at \in 0 .. MaxTime /\ stripe'[s].status \in Statuses
        /\ stripe'[s].ver \in Nat
    BY <1>3 DEF StripeShape
  <2>2. Enqueue(kind, s, stripe'[s].at, stripe'[s].status, stripe'[s].ver, "waiting")
    BY <1>3 DEF Deliver
  <2>3. UNCHANGED <<tries, mark, rowVars, workVars, failures, orphaned>>
    BY <2>2 DEF Enqueue
  <2>4. \E at \in 0 .. MaxTime, status \in Statuses, ver \in Nat :
           Enqueue(kind, s, at, status, ver, "waiting")
    BY <2>1, <2>2
  <2>5. \E state \in {"waiting", "asked"}, at \in 0 .. MaxTime, status \in Statuses,
           ver \in Nat : Enqueue(kind, s, at, status, ver, state)
    BY <2>4
  <2> QED  BY <2>3, <2>5
<1>4. ASSUME NEW s \in Subs, Pay(s)
      PROVE  StripeShape' /\ \E kind \in Kinds : Deliver(kind, s)
  <2>1. /\ session' = [session EXCEPT ![s].status = "paid"]
        /\ Becomes(s, "active") /\ \E kind \in {"checkout", "created"} : Deliver(kind, s)
    BY <1>4 DEF Pay
  <2>2. session' \in [Subs -> [status : {"none", "open", "paid"}, at : 0 .. MaxTime]]
    BY <2>1 DEF ShapeInv, StripeShape
  <2>3. StripeShape'
    BY <2>1, <2>2, BecomesShape DEF ShapeInv, StripeShape, Statuses, Live
  <2>4. {"checkout", "created"} \subseteq Kinds
    BY DEF Kinds, Retrieving, Rebinding
  <2> QED  BY <2>1, <2>3, <2>4
<1>5. ASSUME NEW s \in Subs, NEW status \in Live \cup {"canceled"}, Change(s, status)
      PROVE  StripeShape' /\ \E kind \in Kinds : Deliver(kind, s)
  <2>1. /\ Becomes(s, status) /\ session' = session
        /\ \E kind \in {"deleted", "updated"} : Deliver(kind, s)
    BY <1>5 DEF Change
  <2>2. StripeShape'
    BY <2>1, BecomesShape DEF ShapeInv, StripeShape, Statuses
  <2> QED  BY <2>1, <2>2 DEF Kinds
<1>6. ASSUME NEW s \in Subs, Invoice(s)
      PROVE  StripeShape' /\ \E kind \in Kinds : Deliver(kind, s)
  <2>1. UNCHANGED <<now, stripe, session, stored>>
        /\ \E kind \in {"invoice_paid", "payment_failed"} : Deliver(kind, s)
    BY <1>6 DEF Invoice
  <2> QED  BY <2>1 DEF ShapeInv, StripeShape, Kinds, Retrieving
<1>7. ASSUME NEW s \in Subs, Confirm(s)
      PROVE  /\ StripeShape' /\ UNCHANGED <<tries, mark, rowVars, workVars, failures, orphaned>>
             /\ \E k \in Kinds, t \in Subs, at \in 0 .. MaxTime, status \in Statuses,
                   ver \in Nat, state \in {"waiting", "asked"} :
                   Enqueue(k, t, at, status, ver, state)
  <2>1. /\ Enqueue("reconcile", s, session[s].at, "none", 0, "asked")
        /\ stored' = [stored EXCEPT !.status = IF stored.sub = s THEN "completed" ELSE @]
        /\ UNCHANGED <<now, stripe, session>>
    BY <1>7 DEF Confirm
  <2>2. stored' \in [sub : Subs \cup {None}, status : {"none", "open", "completed"}]
    BY <2>1 DEF ShapeInv, StripeShape
  <2>3. StripeShape'
    BY <2>1, <2>2 DEF ShapeInv, StripeShape
  <2>4. session[s].at \in 0 .. MaxTime /\ "reconcile" \in Kinds /\ "none" \in Statuses /\ 0 \in Nat
    BY DEF ShapeInv, StripeShape, Kinds, Rebinding, Statuses
  <2>5. UNCHANGED <<tries, mark, rowVars, workVars, failures, orphaned>>
    BY <2>1 DEF Enqueue
  <2> QED  BY <2>1, <2>3, <2>4, <2>5
<1>8. ASSUME NEW s \in Subs, StripeShape', \E kind \in Kinds : Deliver(kind, s)
      PROVE  /\ UNCHANGED <<tries, mark, rowVars, workVars, failures, orphaned>>
             /\ \E k \in Kinds, t \in Subs, at \in 0 .. MaxTime, status \in Statuses,
                   ver \in Nat, state \in {"waiting", "asked"} :
                   Enqueue(k, t, at, status, ver, state)
  BY <1>3, <1>8
<1> QED  BY <1>1, <1>2, <1>4, <1>5, <1>6, <1>7, <1>8 DEF UserStep

LEMMA UserShape == ASSUME ShapeInv, JobInv, UserStep  PROVE ShapeInv' /\ JobInv'
<1>1. RowShape'
  <2>1. CASE ActivateTrial
    <3>1. row' = [row EXCEPT !.exists = TRUE, !.tier = "pro", !.trial = "running"]
          /\ trials' = trials + 1 /\ binding' = binding
      BY <2>1 DEF ActivateTrial
    <3>2. row' \in [exists : BOOLEAN, tier : {"free", "pro"}, sub : Subs \cup {None},
                    status : Statuses, paid : BOOLEAN, trial : {"none", "running", "used"},
                    at : {-1} \cup 0 .. MaxTime, of : Subs \cup {None}, ver : Nat]
      BY <3>1 DEF ShapeInv, RowShape
    <3>3. trials' \in Nat
      BY <3>1 DEF ShapeInv, RowShape
    <3> QED  BY <3>1, <3>2, <3>3 DEF ShapeInv, RowShape
  <2>2. CASE ~ActivateTrial
    BY <2>2, UserQueue DEF ShapeInv, RowShape
  <2> QED  BY <2>1, <2>2
<1>2. WorkShape'
  BY UserQueue DEF ShapeInv, WorkShape
<1>3. QueueShape' /\ JobInv'
  <2>1. CASE UNCHANGED <<sent, info, job>>
    <3>1. UNCHANGED <<tries, mark, pc, doing, failures, orphaned>>
      BY UserQueue
    <3> QED  BY <2>1, <3>1 DEF ShapeInv, QueueShape, JobInv, Busy
  <2>2. CASE ~UNCHANGED <<sent, info, job>>
    <3>1. PICK kind \in Kinds, s \in Subs, at \in 0 .. MaxTime, status \in Statuses,
               ver \in Nat, state \in {"waiting", "asked"} :
               Enqueue(kind, s, at, status, ver, state)
      BY <2>2, UserQueue
    <3> QED  BY <3>1, EnqueueShape, EnqueueJobs DEF ShapeInv
  <2> QED  BY <2>1, <2>2
<1> QED  BY <1>1, <1>2, <1>3, UserQueue DEF ShapeInv
-----------------------------------------------------------------------------
(* The workers *)

(* A worker goes on with its event. *)
GoesOn(w) == Retrieve(w) \/ Validate(w) \/ Bind(w) \/ Write(w) \/ Throw(w)

LEMMA NewRowShape ==
    ASSUME ShapeInv, NEW w \in Workers
    PROVE  /\ NewRow(w) \in
                [exists : BOOLEAN, tier : {"free", "pro"}, sub : Subs \cup {None},
                 status : Statuses, paid : BOOLEAN, trial : {"none", "running", "used"},
                 at : {-1} \cup 0 .. MaxTime, of : Subs \cup {None}, ver : Nat]
           /\ NewRow(w).exists /\ NewRow(w).of = Sub(w)
           /\ IF Kind(w) = "deleted"
              THEN NewRow(w).tier = "free" /\ NewRow(w).sub = None /\ NewRow(w).trial = "used"
              ELSE NewRow(w).tier = "pro" /\ NewRow(w).sub = Sub(w)
<1>1. doing[w] \in Events
  BY DEF ShapeInv, WorkShape
<1>2. Sub(w) \in Subs \cup {None} /\ At(w) \in 0 .. MaxTime
  BY <1>1 DEF ShapeInv, QueueShape, Sub, At
<1>3. saw[w].status \in Statuses /\ saw[w].ver \in Nat
  BY DEF ShapeInv, WorkShape
<1>4. kept[w].paid \in BOOLEAN /\ kept[w].at \in {-1} \cup 0 .. MaxTime
  BY DEF ShapeInv, WorkShape
<1>5. (Kind(w) \in {"checkout", "reconcile", "invoice_paid"} \/ kept[w].paid) \in BOOLEAN
  BY <1>4
<1>6. (IF Kind(w) = "invoice_paid" THEN kept[w].at ELSE At(w)) \in {-1} \cup 0 .. MaxTime
  BY <1>2, <1>4
<1> QED  BY <1>2, <1>3, <1>5, <1>6 DEF NewRow

LEMMA GoesOnShape ==
    ASSUME ShapeInv, JobInv, NEW w \in Workers, GoesOn(w)
    PROVE  /\ ShapeInv' /\ Busy(w) /\ Busy(w)'
           /\ UNCHANGED <<sent, info, job, tries, mark, doing, orphaned, trials>>
           /\ \A v \in Workers : v # w => pc'[v] = pc[v] /\ kept'[v] = kept[v]
<1> USE DEF stripeVars, queueVars, rowVars, workVars
<1>s. \A x \in {"validate", "bind", "complete", "write", "failing"} : x \in Steps
  BY DEF Steps, Handling
<1>0. doing[w] \in Events
  BY DEF ShapeInv, WorkShape
<1>1. CASE Retrieve(w)
  <2>1. /\ pc[w] = "retrieve" /\ Goto(w, "validate")
        /\ saw' = [saw EXCEPT ![w] = [status |-> stripe[Sub(w)].status,
                                      ver |-> stripe[Sub(w)].ver]]
        /\ UNCHANGED <<stripeVars, stored, queueVars, rowVars, doing, kept, failures, orphaned>>
    BY <1>1 DEF Retrieve, Step
  <2>2. /\ pc' \in [Workers -> Steps] /\ Busy(w)' /\ Busy(w)
        /\ \A v \in Workers : v # w => pc'[v] = pc[v]
    BY <1>s, <2>1, GotoShape DEF ShapeInv, Busy
  <2>3. saw' \in [Workers -> [status : Statuses, ver : Nat]]
    <3>1. Sub(w) \in Subs
      BY <1>0, <2>2 DEF JobInv, Sub
    <3>2. stripe[Sub(w)].status \in Statuses /\ stripe[Sub(w)].ver \in Nat
      BY <3>1 DEF ShapeInv, StripeShape
    <3> QED  BY <2>1, <3>2 DEF ShapeInv, WorkShape
  <2>4. StripeShape' /\ QueueShape'
    BY <2>1 DEF ShapeInv, StripeShape, QueueShape
  <2>5. RowShape' /\ WorkShape'
    BY <2>1, <2>2, <2>3 DEF ShapeInv, RowShape, WorkShape
  <2> QED  BY <2>1, <2>2, <2>4, <2>5 DEF ShapeInv
<1>2. CASE Validate(w)
  <2>1. /\ pc[w] = "validate" /\ (Goto(w, "bind") \/ Goto(w, "complete"))
        /\ kept' = [kept EXCEPT ![w].sub = row.sub]
        /\ UNCHANGED <<stripeVars, stored, queueVars, row, binding, trials, doing, saw,
                       failures, orphaned>>
    BY <1>2 DEF Validate
  <2>2. /\ pc' \in [Workers -> Steps] /\ Busy(w)'
        /\ \A v \in Workers : v # w => pc'[v] = pc[v]
    BY <1>s, <2>1, GotoShape DEF ShapeInv, Busy
  <2>3. kept' \in [Workers -> [sub : Subs \cup {None}, paid : BOOLEAN,
                               at : {-1} \cup 0 .. MaxTime, bound : Subs \cup {None}]]
        /\ \A v \in Workers : v # w => kept'[v] = kept[v]
    <3>1. row.sub \in Subs \cup {None}
      BY DEF ShapeInv, RowShape
    <3> QED  BY <2>1, <3>1 DEF ShapeInv, WorkShape
  <2>4. StripeShape' /\ QueueShape' /\ RowShape'
    BY <2>1 DEF ShapeInv, StripeShape, QueueShape, RowShape
  <2>5. WorkShape'
    BY <2>1, <2>2, <2>3 DEF ShapeInv, WorkShape
  <2> QED  BY <2>1, <2>2, <2>3, <2>4, <2>5 DEF ShapeInv, Busy
<1>3. CASE Bind(w)
  <2>1. /\ pc[w] = "bind" /\ Goto(w, "write")
        /\ binding' = IF Kind(w) = "deleted" THEN None ELSE Sub(w)
        /\ kept' = [kept EXCEPT ![w].paid = row.paid, ![w].at = row.at, ![w].bound = binding']
        /\ UNCHANGED <<stripeVars, stored, queueVars, row, trials, drift, doing, saw,
                       failures, orphaned>>
    BY <1>3 DEF Bind, Step
  <2>2. /\ pc' \in [Workers -> Steps] /\ Busy(w)'
        /\ \A v \in Workers : v # w => pc'[v] = pc[v]
    BY <1>s, <2>1, GotoShape DEF ShapeInv, Busy
  <2>3. binding' \in Subs \cup {None}
    BY <1>0, <2>1 DEF ShapeInv, QueueShape, Sub
  <2>4. kept' \in [Workers -> [sub : Subs \cup {None}, paid : BOOLEAN,
                               at : {-1} \cup 0 .. MaxTime, bound : Subs \cup {None}]]
        /\ \A v \in Workers : v # w => kept'[v] = kept[v]
    <3>1. row.paid \in BOOLEAN /\ row.at \in {-1} \cup 0 .. MaxTime
      BY DEF ShapeInv, RowShape
    <3>2. /\ kept[w] \in [sub : Subs \cup {None}, paid : BOOLEAN,
                          at : {-1} \cup 0 .. MaxTime, bound : Subs \cup {None}]
          /\ kept \in [Workers -> [sub : Subs \cup {None}, paid : BOOLEAN,
                                   at : {-1} \cup 0 .. MaxTime, bound : Subs \cup {None}]]
      BY DEF ShapeInv, WorkShape
    <3>3. [kept[w] EXCEPT !.paid = row.paid, !.at = row.at, !.bound = binding']
            \in [sub : Subs \cup {None}, paid : BOOLEAN,
                 at : {-1} \cup 0 .. MaxTime, bound : Subs \cup {None}]
      BY <2>3, <3>1, <3>2
    <3>4. kept' = [kept EXCEPT ![w] = [kept[w] EXCEPT !.paid = row.paid, !.at = row.at,
                                                      !.bound = binding']]
      BY <2>1, <3>2
    <3> QED  BY <3>2, <3>3, <3>4
  <2>5. StripeShape' /\ QueueShape'
    BY <2>1 DEF ShapeInv, StripeShape, QueueShape
  <2>6. RowShape' /\ WorkShape'
    BY <2>1, <2>2, <2>3, <2>4 DEF ShapeInv, RowShape, WorkShape
  <2> QED  BY <2>1, <2>2, <2>4, <2>5, <2>6 DEF ShapeInv, Busy
<1>4. CASE Write(w)
  <2>1. /\ pc[w] = "write" /\ Goto(w, "complete")
        /\ row' = IF Fresh(w) THEN NewRow(w) ELSE row
        /\ UNCHANGED <<stripeVars, stored, queueVars, binding, trials, doing, saw, kept,
                       failures, orphaned>>
    BY <1>4 DEF Write, Step
  <2>2. /\ pc' \in [Workers -> Steps] /\ Busy(w)'
        /\ \A v \in Workers : v # w => pc'[v] = pc[v]
    BY <1>s, <2>1, GotoShape DEF ShapeInv, Busy
  <2>3. row' \in [exists : BOOLEAN, tier : {"free", "pro"}, sub : Subs \cup {None},
                  status : Statuses, paid : BOOLEAN, trial : {"none", "running", "used"},
                  at : {-1} \cup 0 .. MaxTime, of : Subs \cup {None}, ver : Nat]
    BY <2>1, NewRowShape DEF ShapeInv, RowShape
  <2>4. StripeShape' /\ QueueShape'
    BY <2>1 DEF ShapeInv, StripeShape, QueueShape
  <2>5. RowShape' /\ WorkShape'
    BY <2>1, <2>2, <2>3 DEF ShapeInv, RowShape, WorkShape
  <2> QED  BY <2>1, <2>2, <2>4, <2>5 DEF ShapeInv, Busy
<1>5. CASE Throw(w)
  <2>1. /\ pc[w] \in Handling /\ Goto(w, "failing") /\ Fails
        /\ UNCHANGED <<stripeVars, stored, queueVars, rowVars, doing, saw, kept, orphaned>>
    BY <1>5 DEF Throw
  <2>2. /\ pc' \in [Workers -> Steps] /\ Busy(w)' /\ Busy(w)
        /\ \A v \in Workers : v # w => pc'[v] = pc[v]
    BY <1>s, <2>1, GotoShape DEF ShapeInv, Busy, Handling
  <2>3. failures' \in 0 .. MaxFailures
    BY <2>1, NumbersAssumption DEF ShapeInv, QueueShape, Fails
  <2>4. StripeShape' /\ QueueShape'
    BY <2>1, <2>3 DEF ShapeInv, StripeShape, QueueShape
  <2>5. RowShape' /\ WorkShape'
    BY <2>1, <2>2 DEF ShapeInv, RowShape, WorkShape
  <2> QED  BY <2>1, <2>2, <2>4, <2>5 DEF ShapeInv
<1> QED  BY <1>1, <1>2, <1>3, <1>4, <1>5 DEF GoesOn

(* A worker goes on: nothing about the jobs changes. *)
LEMMA GoesOnJobs ==
    ASSUME ShapeInv, JobInv, NEW w \in Workers, GoesOn(w)
    PROVE  JobInv'
<1>1. /\ Busy(w) /\ UNCHANGED <<sent, info, job, tries, doing>>
      /\ \A v \in Workers : v # w => pc'[v] = pc[v]
  BY GoesOnShape
<1>2. \A v \in Workers : Busy(v)' => Busy(v)
  BY <1>1 DEF Busy
<1> QED  BY <1>1, <1>2 DEF JobInv

(* A worker is done with its event, well or not. *)
Leaves(w) == Complete(w) \/ MarkFailed(w) \/ MarkFailedThrows(w)

LEMMA LeavesShape ==
    ASSUME ShapeInv, JobInv, NEW w \in Workers, Leaves(w)
    PROVE  /\ ShapeInv' /\ JobInv' /\ Busy(w) /\ ~Busy(w)' /\ doing[w] \in Events
           /\ UNCHANGED <<sent, info, row, trials>> /\ orphaned \subseteq orphaned'
           /\ \A v \in Workers : v # w => /\ pc'[v] = pc[v] /\ doing'[v] = doing[v]
                                          /\ kept'[v] = kept[v]
           /\ \A f \in Events : f # doing[w] => job'[f] = job[f] /\ mark'[f] = mark[f]
           /\ \/ /\ mark'[doing[w]] = "completed" /\ job'[doing[w]] \in {"done", "asked"}
              \/ /\ job'[doing[w]] \in {"waiting", "failed", "asked"}
                 /\ mark'[doing[w]] = "failed" \/ doing[w] \in orphaned'
           /\ job'[doing[w]] = "asked" <=> job[doing[w]] = "asked"
<1>1. /\ Rest(w) /\ Busy(w)
  BY DEF Leaves, Complete, MarkFailed, MarkFailedThrows, Busy
<1>2. /\ WorkShape' /\ ~Busy(w)' /\ UNCHANGED <<now, stripe, session, sent, info, row,
                                                binding, trials, drift>>
      /\ \A v \in Workers : v # w => /\ pc'[v] = pc[v] /\ doing'[v] = doing[v]
                                     /\ kept'[v] = kept[v]
  BY <1>1, RestShape DEF ShapeInv
<1>3. doing[w] \in Events /\ job[doing[w]] \in {"active", "asked"}
  BY <1>1 DEF ShapeInv, WorkShape, JobInv
<1>4. RowShape'
  BY <1>2 DEF ShapeInv, RowShape
<1>5. CASE Complete(w)
  <2>1. /\ mark' = [mark EXCEPT ![doing[w]] = "completed"]
        /\ job' = [job EXCEPT ![doing[w]] = IF @ = "active" THEN "done" ELSE @]
        /\ UNCHANGED <<tries, failures, orphaned>>
        /\ stored' = [stored EXCEPT !.status =
                         IF Kind(w) \in {"checkout", "reconcile"} /\ stored.sub = Sub(w)
                         THEN "completed" ELSE @]
    BY <1>5 DEF Complete
  <2>2. StripeShape'
    <3>1. stored' \in [sub : Subs \cup {None}, status : {"none", "open", "completed"}]
      BY <2>1 DEF ShapeInv, StripeShape
    <3> QED  BY <1>2, <3>1 DEF ShapeInv, StripeShape
  <2>3. /\ mark' \in [Events -> {"none", "processing", "stale", "failed", "completed"}]
        /\ mark'[doing[w]] = "completed"
        /\ \A f \in Events : f # doing[w] => mark'[f] = mark[f]
    BY <1>3, <2>1 DEF ShapeInv, QueueShape
  <2>4. /\ job' \in [Events -> {"none", "waiting", "active", "asked", "done", "failed"}]
        /\ job'[doing[w]] = IF job[doing[w]] = "asked" THEN "asked" ELSE "done"
        /\ \A f \in Events : f # doing[w] => job'[f] = job[f]
    BY <1>3, <2>1 DEF ShapeInv, QueueShape
  <2>5. QueueShape'
    BY <1>2, <2>1, <2>3, <2>4 DEF ShapeInv, QueueShape
  <2>6. JobInv'
    BY <1>1, <1>2, <2>1, <2>4, LeavesEvent
  <2>7. orphaned \subseteq orphaned' /\ (job'[doing[w]] = "asked" <=> job[doing[w]] = "asked")
        /\ job'[doing[w]] \in {"done", "asked"}
    BY <2>1, <2>4
  <2> QED  BY <1>1, <1>2, <1>3, <1>4, <2>2, <2>3, <2>4, <2>5, <2>6, <2>7 DEF ShapeInv
<1>6. CASE MarkFailed(w) \/ MarkFailedThrows(w)
  <2>1. FailAttempt(doing[w]) /\ stored' = stored
    BY <1>6 DEF MarkFailed, MarkFailedThrows
  <2>2. /\ job' \in [Events -> {"none", "waiting", "active", "asked", "done", "failed"}]
        /\ tries' \in [Events -> 0 .. Attempts]
        /\ \A f \in Events : f # doing[w] => job'[f] = job[f] /\ tries'[f] = tries[f]
        /\ IF job[doing[w]] = "asked" THEN job'[doing[w]] = "asked"
           ELSE \/ job'[doing[w]] = "failed"
                \/ job'[doing[w]] = "waiting" /\ tries'[doing[w]] < Attempts
    BY <1>3, <2>1, FailShape DEF ShapeInv
  <2>3. /\ mark' \in [Events -> {"none", "processing", "stale", "failed", "completed"}]
        /\ \A f \in Events : f # doing[w] => mark'[f] = mark[f]
        /\ orphaned \subseteq orphaned' /\ orphaned' \subseteq Events
        /\ failures' \in 0 .. MaxFailures
        /\ mark'[doing[w]] = "failed" \/ doing[w] \in orphaned'
    <3>1. CASE MarkFailed(w)
      <4>1. mark' = [mark EXCEPT ![doing[w]] = "failed"] /\ UNCHANGED <<failures, orphaned>>
        BY <3>1 DEF MarkFailed
      <4> QED  BY <1>3, <4>1 DEF ShapeInv, QueueShape
    <3>2. CASE MarkFailedThrows(w)
      <4>1. mark' = mark /\ orphaned' = orphaned \cup {doing[w]} /\ Fails
        BY <3>2 DEF MarkFailedThrows
      <4>2. failures' \in 0 .. MaxFailures
        BY <4>1, NumbersAssumption DEF ShapeInv, QueueShape, Fails
      <4> QED  BY <1>3, <4>1, <4>2 DEF ShapeInv, QueueShape
    <3> QED  BY <1>6, <3>1, <3>2
  <2>4. QueueShape'
    BY <1>2, <2>2, <2>3 DEF ShapeInv, QueueShape
  <2>5. StripeShape'
    BY <1>2, <2>1 DEF ShapeInv, StripeShape
  <2>6. JobInv'
    BY <1>1, <1>2, <2>2, LeavesEvent
  <2>7. /\ job'[doing[w]] \in {"waiting", "failed", "asked"}
        /\ job'[doing[w]] = "asked" <=> job[doing[w]] = "asked"
    BY <2>2
  <2> QED  BY <1>1, <1>2, <1>3, <1>4, <2>2, <2>3, <2>4, <2>5, <2>6, <2>7 DEF ShapeInv
<1> QED  BY <1>5, <1>6 DEF Leaves

LEMMA GrantShape ==
    ASSUME ShapeInv, JobInv, NEW w \in Workers, NEW e \in Events, ClaimGranted(w, e)
    PROVE  /\ ShapeInv' /\ JobInv' /\ ~Busy(w)
           /\ UNCHANGED <<sent, info, row, trials, orphaned, kept>>
           /\ doing'[w] = e /\ pc'[w] \in {"retrieve", "validate"}
           /\ \A v \in Workers : v # w => pc'[v] = pc[v] /\ doing'[v] = doing[v]
           /\ mark[e] \in {"none", "failed", "stale"} /\ mark'[e] = "processing"
           /\ \/ job[e] = "waiting" /\ job'[e] = "active"
              \/ job[e] = "asked" /\ job'[e] = "asked"
           /\ \A f \in Events : f # e => job'[f] = job[f] /\ mark'[f] = mark[f]
<1> USE DEF stripeVars, rowVars
<1>1. /\ ~Busy(w) /\ mark[e] \in {"none", "failed", "stale"}
      /\ mark' = [mark EXCEPT ![e] = "processing"]
      /\ doing' = [doing EXCEPT ![w] = e]
      /\ saw' = [saw EXCEPT ![w] = [status |-> info[e].status, ver |-> info[e].ver]]
      /\ \E x \in {"retrieve", "validate"} : pc' = [pc EXCEPT ![w] = x]
      /\ UNCHANGED <<now, stripe, session, stored, sent, info, row, binding, trials, drift,
                     kept, failures, orphaned>>
  BY DEF ClaimGranted, Grant, Busy
<1>2. /\ job' \in [Events -> {"none", "waiting", "active", "asked", "done", "failed"}]
      /\ tries' \in [Events -> 0 .. Attempts]
      /\ \A f \in Events : f # e => job'[f] = job[f] /\ tries'[f] = tries[f]
      /\ \/ job[e] = "waiting" /\ job'[e] = "active" /\ tries'[e] = tries[e]
         \/ job[e] = "asked" /\ job'[e] = "asked"
  <2>1. CASE job[e] = "waiting"
    <3>1. job' = [job EXCEPT ![e] = "active"] /\ tries' = tries
      BY <2>1 DEF ClaimGranted, Grant
    <3> QED  BY <2>1, <3>1 DEF ShapeInv, QueueShape
  <2>2. CASE job[e] # "waiting"
    <3>1. job[e] = "asked" /\ tries[e] < Attempts /\ tries' = [tries EXCEPT ![e] = @ + 1]
          /\ job' = job
      BY <2>2 DEF ClaimGranted, Grant
    <3>2. tries[e] + 1 \in 0 .. Attempts
      BY <3>1, NumbersAssumption DEF ShapeInv, QueueShape
    <3> QED  BY <3>1, <3>2 DEF ShapeInv, QueueShape
  <2> QED  BY <2>1, <2>2
<1>3. /\ doing' \in [Workers -> Events] /\ doing'[w] = e
      /\ pc' \in [Workers -> Steps] /\ pc'[w] \in {"retrieve", "validate"}
      /\ \A v \in Workers : v # w => pc'[v] = pc[v] /\ doing'[v] = doing[v]
  BY <1>1 DEF ShapeInv, WorkShape, Steps, Handling
<1>4. saw' \in [Workers -> [status : Statuses, ver : Nat]]
  <2>1. info[e].status \in Statuses /\ info[e].ver \in Nat
    BY DEF ShapeInv, QueueShape
  <2> QED  BY <1>1, <2>1 DEF ShapeInv, WorkShape
<1>5. /\ mark' \in [Events -> {"none", "processing", "stale", "failed", "completed"}]
      /\ mark'[e] = "processing" /\ \A f \in Events : f # e => mark'[f] = mark[f]
  BY <1>1 DEF ShapeInv, QueueShape
<1>6. ShapeInv'
  <2>1. StripeShape' /\ RowShape'
    BY <1>1 DEF ShapeInv, StripeShape, RowShape
  <2>2. QueueShape'
    BY <1>1, <1>2, <1>5 DEF ShapeInv, QueueShape
  <2>3. WorkShape'
    BY <1>1, <1>3, <1>4 DEF ShapeInv, WorkShape
  <2> QED  BY <2>1, <2>2, <2>3 DEF ShapeInv
<1>7. ASSUME NEW v \in Workers, v # w, Busy(v)'
      PROVE  /\ Busy(v) /\ doing'[v] = doing[v] /\ doing[v] \in Events
             /\ job'[doing[v]] = job[doing[v]]
             /\ doing[v] = e => job[e] = "asked"
  <2>1. Busy(v) /\ doing'[v] = doing[v] /\ doing[v] \in Events
    BY <1>3, <1>7 DEF Busy, ShapeInv, WorkShape
  <2>2. job[doing[v]] \in {"active", "asked"}
    BY <2>1 DEF JobInv
  <2> QED  BY <1>2, <2>1, <2>2
<1>8. JobInv'
  <2>1. ASSUME NEW f \in Events
        PROVE  /\ job'[f] \in {"none", "waiting", "active"} => tries'[f] < Attempts
               /\ f > sent' => job'[f] = "none"
               /\ job'[f] # "none" => info'[f].sub \in Subs
    BY <1>1, <1>2 DEF JobInv
  <2>2. ASSUME NEW v \in Workers, Busy(v)'  PROVE job'[doing'[v]] \in {"active", "asked"}
    BY <1>2, <1>3, <1>7, <2>2 DEF JobInv
  <2>3. ASSUME NEW u \in Workers, NEW v \in Workers, Busy(u)', Busy(v)',
               doing'[u] = doing'[v], job'[doing'[v]] = "active"
        PROVE  u = v
    BY <1>2, <1>3, <1>7, <2>3 DEF JobInv
  <2> QED  BY <2>1, <2>2, <2>3 DEF JobInv
<1> QED  BY <1>1, <1>2, <1>3, <1>5, <1>6, <1>8

(* Steps at a job that no worker has, and the end of the process.             *)
LEMMA RestOfShape ==
    ASSUME ShapeInv, JobInv,
           \/ \E w \in Workers, e \in Events : ClaimRefused(w, e) \/ ClaimThrows(w, e)
           \/ \E e \in Events : ClaimAges(e)
           \/ Crash \/ UNCHANGED vars
    PROVE  ShapeInv' /\ JobInv' /\ UNCHANGED <<row, trials, info, sent>>
<1> USE DEF stripeVars, queueVars, rowVars, workVars
<1>1. ASSUME NEW w \in Workers, NEW e \in Events, ClaimRefused(w, e) \/ ClaimThrows(w, e)
      PROVE  ShapeInv' /\ JobInv' /\ UNCHANGED <<row, trials, info, sent>>
  <2>1. /\ job[e] = "waiting"
        /\ UNCHANGED <<now, stripe, session, stored, sent, info, mark, row, binding, trials,
                       drift, pc, doing, saw, kept, orphaned>>
    BY <1>1 DEF ClaimRefused, ClaimThrows
  <2>2. /\ job' \in [Events -> {"none", "waiting", "active", "asked", "done", "failed"}]
        /\ tries' \in [Events -> 0 .. Attempts]
        /\ \A f \in Events : f # e => job'[f] = job[f] /\ tries'[f] = tries[f]
        /\ \/ job'[e] \in {"done", "failed"}
           \/ job'[e] = "waiting" /\ tries'[e] < Attempts
    <3>1. CASE ClaimRefused(w, e)
      <4>1. job' = [job EXCEPT ![e] = "done"] /\ tries' = tries
        BY <3>1 DEF ClaimRefused
      <4> QED  BY <4>1 DEF ShapeInv, QueueShape
    <3>2. CASE ClaimThrows(w, e)
      <4>1. FailAttempt(e)
        BY <3>2 DEF ClaimThrows
      <4> QED  BY <2>1, <4>1, FailShape DEF ShapeInv
    <3> QED  BY <1>1, <3>1, <3>2
  <2>3. failures' \in 0 .. MaxFailures
    BY <1>1, NumbersAssumption DEF ClaimRefused, ClaimThrows, Fails, ShapeInv, QueueShape
  <2>4. ShapeInv'
    <3>1. StripeShape' /\ RowShape'
      BY <2>1 DEF ShapeInv, StripeShape, RowShape
    <3>2. QueueShape' /\ WorkShape'
      BY <2>1, <2>2, <2>3 DEF ShapeInv, QueueShape, WorkShape
    <3> QED  BY <3>1, <3>2 DEF ShapeInv
  <2>5. ASSUME NEW v \in Workers, Busy(v)'
        PROVE  Busy(v) /\ doing[v] \in Events /\ doing[v] # e /\ job'[doing[v]] = job[doing[v]]
    <3>1. Busy(v) /\ doing[v] \in Events
      BY <2>1, <2>5 DEF Busy, ShapeInv, WorkShape
    <3>2. doing[v] # e
      BY <2>1, <3>1 DEF JobInv
    <3> QED  BY <2>2, <3>1, <3>2
  <2>6. ASSUME NEW f \in Events
        PROVE  /\ job'[f] \in {"none", "waiting", "active"} => tries'[f] < Attempts
               /\ f > sent' => job'[f] = "none"
               /\ job'[f] # "none" => info'[f].sub \in Subs
    BY <2>1, <2>2 DEF JobInv
  <2> QED  BY <2>1, <2>4, <2>5, <2>6 DEF JobInv
<1>2. ASSUME NEW e \in Events, ClaimAges(e)
      PROVE  ShapeInv' /\ JobInv' /\ UNCHANGED <<row, trials, info, sent>>
  <2>1. /\ mark' = [mark EXCEPT ![e] = "stale"]
        /\ UNCHANGED <<now, stripe, session, stored, sent, info, job, tries, row, binding,
                       trials, drift, pc, doing, saw, kept, failures, orphaned>>
    BY <1>2 DEF ClaimAges
  <2>2. mark' \in [Events -> {"none", "processing", "stale", "failed", "completed"}]
    BY <2>1 DEF ShapeInv, QueueShape
  <2>3. ShapeInv'
    <3>1. StripeShape' /\ RowShape'
      BY <2>1 DEF ShapeInv, StripeShape, RowShape
    <3>2. QueueShape' /\ WorkShape'
      BY <2>1, <2>2 DEF ShapeInv, QueueShape, WorkShape
    <3> QED  BY <3>1, <3>2 DEF ShapeInv
  <2> QED  BY <2>1, <2>3 DEF JobInv, Busy
<1>3. CASE Crash
  <2>1. /\ job' = [e \in Events |-> IF job[e] = "active" THEN "waiting" ELSE job[e]]
        /\ orphaned' = orphaned \cup {doing[w] : w \in {v \in Workers : pc[v] # "idle"}}
        /\ pc' = [w \in Workers |-> "idle"]
        /\ doing' = [w \in Workers |-> 1]
        /\ saw' = [w \in Workers |-> [status |-> "none", ver |-> 0]]
        /\ kept' = [w \in Workers |-> NotRead]
        /\ UNCHANGED <<now, stripe, session, stored, sent, info, tries, mark, row, binding,
                       trials, drift>>
        /\ Fails
    BY <1>3 DEF Crash
  <2>2. failures' \in 0 .. MaxFailures
    BY <2>1, NumbersAssumption DEF Fails, ShapeInv, QueueShape
  <2>3. StripeShape' /\ RowShape'
    BY <2>1 DEF ShapeInv, StripeShape, RowShape
  <2>4. /\ job' \in [Events -> {"none", "waiting", "active", "asked", "done", "failed"}]
        /\ orphaned' \subseteq Events
    BY <2>1 DEF ShapeInv, QueueShape, WorkShape
  <2>5. QueueShape'
    BY <2>1, <2>2, <2>4 DEF ShapeInv, QueueShape
  <2>6. WorkShape'
    <3>1. 1 \in Events
      BY NumbersAssumption DEF Events
    <3> QED  BY <2>1, <3>1 DEF WorkShape, Steps, Statuses, NotRead
  <2>7. JobInv'
    BY <2>1 DEF JobInv, Busy, ShapeInv, QueueShape
  <2> QED  BY <2>1, <2>3, <2>5, <2>6, <2>7 DEF ShapeInv
<1>4. CASE UNCHANGED vars
  <2>1. StripeShape' /\ RowShape' /\ QueueShape' /\ WorkShape'
    BY <1>4 DEF vars, ShapeInv, StripeShape, RowShape, QueueShape, WorkShape
  <2> QED  BY <1>4, <2>1 DEF vars, JobInv, Busy, ShapeInv
<1> QED  BY <1>1, <1>2, <1>3, <1>4

(* The steps, grouped by what they do. *)
LEMMA NextSteps ==
    ASSUME [Next]_vars
    PROVE  \/ UserStep
           \/ \E w \in Workers : GoesOn(w) \/ Leaves(w)
           \/ \E w \in Workers, e \in Events : ClaimGranted(w, e)
           \/ \E w \in Workers, e \in Events : ClaimRefused(w, e) \/ ClaimThrows(w, e)
           \/ \E e \in Events : ClaimAges(e)
           \/ Crash \/ UNCHANGED vars
  BY DEF Next, UserStep, WorkerStep, Begin, Fault, GoesOn, Leaves

LEMMA NextShape == ASSUME ShapeInv, JobInv, [Next]_vars  PROVE ShapeInv' /\ JobInv'
<1>1. ASSUME UserStep  PROVE ShapeInv' /\ JobInv'
  BY <1>1, UserShape
<1>2. ASSUME NEW w \in Workers, GoesOn(w) \/ Leaves(w)  PROVE ShapeInv' /\ JobInv'
  BY <1>2, GoesOnShape, GoesOnJobs, LeavesShape
<1>3. ASSUME NEW w \in Workers, NEW e \in Events, ClaimGranted(w, e)
      PROVE  ShapeInv' /\ JobInv'
  BY <1>3, GrantShape
<1> QED  BY <1>1, <1>2, <1>3, RestOfShape, NextSteps

LEMMA ShapeAlways == Spec => [](ShapeInv /\ JobInv)
<1>1. Init => ShapeInv /\ JobInv
  BY InitShape
<1>2. ShapeInv /\ JobInv /\ [Next]_vars => (ShapeInv /\ JobInv)'
  BY NextShape
<1> QED  BY <1>1, <1>2, PTL DEF Spec

(* The values of the tables and of the handlers' variables. *)
THEOREM TypeCorrect == Spec => []TypeOK
<1>1. ShapeInv => TypeOK
  <2> SUFFICES ASSUME ShapeInv  PROVE TypeOK
    OBVIOUS
  <2>1. /\ \A s \in Subs : /\ stripe[s].status \in Live \cup {"none", "canceled"}
                           /\ stripe[s].ver \in Nat /\ stripe[s].at \in 0 .. MaxTime
        /\ session \in [Subs -> [status : {"none", "open", "paid"}, at : 0 .. MaxTime]]
        /\ stored \in [sub : Subs \cup {None}, status : {"none", "open", "completed"}]
        /\ now \in 0 .. MaxTime
    BY DEF ShapeInv, StripeShape, Statuses
  <2>2. /\ row.sub \in Subs \cup {None} /\ row.tier \in {"free", "pro"}
        /\ binding \in Subs \cup {None} /\ trials \in Nat
    BY DEF ShapeInv, RowShape
  <2> QED  BY <2>1, <2>2 DEF ShapeInv, QueueShape, WorkShape, TypeOK
<1> QED  BY <1>1, ShapeAlways, PTL
-----------------------------------------------------------------------------
(* The claims.  While no handler takes five minutes, whoever handles an event *)
(* has its claim; and in any case a job's claim that nobody holds is one that *)
(* outlived its worker.                                                       *)
OneClaim ==
    "slow" \notin Faults =>
       /\ \A w \in Workers : Busy(w) => mark[doing[w]] = "processing"
       /\ \A v, w \in Workers : Busy(v) /\ Busy(w) /\ doing[v] = doing[w] => v = w

EventInv(e) ==
    /\ mark[e] \in {"processing", "stale"} /\ job[e] # "asked"
         => e \in orphaned \/ \E w \in Workers : Busy(w) /\ doing[w] = e
    /\ job[e] = "done" => mark[e] = "completed" \/ e \in orphaned

ClaimInv == OneClaim /\ \A e \in Events : EventInv(e)

(* The user and Stripe add events, and change nothing about the others. *)
LEMMA UserEvents ==
    ASSUME ShapeInv, JobInv, UserStep
    PROVE  /\ UNCHANGED <<mark, pc, doing, kept, orphaned>>
           /\ \A e \in Events : \/ job'[e] = job[e] /\ info'[e] = info[e]
                                \/ job[e] = "none" /\ job'[e] \in {"waiting", "asked"}
<1>1. UNCHANGED <<mark, pc, doing, kept, orphaned>>
  BY UserQueue
<1>2. CASE UNCHANGED <<sent, info, job>>
  BY <1>1, <1>2
<1>3. CASE ~UNCHANGED <<sent, info, job>>
  <2>1. PICK kind \in Kinds, s \in Subs, at \in 0 .. MaxTime, status \in Statuses,
             ver \in Nat, state \in {"waiting", "asked"} :
             Enqueue(kind, s, at, status, ver, state)
    BY <1>3, UserQueue
  <2>2. /\ sent' \in Events /\ job[sent'] = "none" /\ job'[sent'] = state
        /\ \A e \in Events : e # sent' => job'[e] = job[e] /\ info'[e] = info[e]
    BY <2>1, EnqueueShape DEF ShapeInv
  <2>3. ASSUME NEW e \in Events
        PROVE  \/ job'[e] = job[e] /\ info'[e] = info[e]
               \/ job[e] = "none" /\ job'[e] \in {"waiting", "asked"}
    BY <2>2
  <2> QED  BY <1>1, <2>3
<1> QED  BY <1>2, <1>3

LEMMA RestOfClaims ==
    ASSUME ShapeInv, JobInv, ClaimInv,
           \/ \E w \in Workers, e \in Events : ClaimRefused(w, e) \/ ClaimThrows(w, e)
           \/ \E e \in Events : ClaimAges(e)
           \/ Crash \/ UNCHANGED vars
    PROVE  ClaimInv'
<1> USE DEF stripeVars, queueVars, rowVars, workVars
<1>1. ASSUME NEW w \in Workers, NEW e \in Events, ClaimRefused(w, e) \/ ClaimThrows(w, e)
      PROVE  ClaimInv'
  <2>1. job[e] = "waiting" /\ UNCHANGED <<mark, pc, doing, orphaned>>
    BY <1>1 DEF ClaimRefused, ClaimThrows
  <2>2. /\ \A f \in Events : f # e => job'[f] = job[f]
        /\ job'[e] \in {"waiting", "failed"}
             \/ (job'[e] = "done" /\ mark[e] \in {"processing", "completed"})
    <3>1. CASE ClaimRefused(w, e)
      BY <3>1 DEF ClaimRefused, ShapeInv, QueueShape
    <3>2. CASE ClaimThrows(w, e)
      BY <2>1, <3>2, FailShape DEF ClaimThrows, ShapeInv
    <3> QED  BY <1>1, <3>1, <3>2
  <2>3. OneClaim'
    BY <2>1 DEF ClaimInv, OneClaim, Busy
  <2>4. ASSUME NEW f \in Events  PROVE EventInv(f)'
    <3>1. CASE f # e
      BY <2>1, <2>2, <3>1 DEF ClaimInv, EventInv, Busy
    <3>2. CASE f = e
      <4>1. \A v \in Workers : ~(Busy(v) /\ doing[v] = e)
        BY <2>1 DEF JobInv
      <4>2. mark[e] \in {"processing", "stale"} => e \in orphaned
        BY <2>1, <4>1 DEF ClaimInv, EventInv
      <4> QED  BY <2>1, <2>2, <3>2, <4>2 DEF EventInv
    <3> QED  BY <3>1, <3>2
  <2> QED  BY <2>3, <2>4 DEF ClaimInv
<1>2. ASSUME NEW e \in Events, ClaimAges(e)  PROVE ClaimInv'
  <2>1. /\ mark[e] = "processing" /\ mark' = [mark EXCEPT ![e] = "stale"]
        /\ UNCHANGED <<job, pc, doing, orphaned>>
        /\ "slow" \in Faults \/ \A w \in Workers : ~Holder(w, e)
    BY <1>2 DEF ClaimAges
  <2>2. mark'[e] = "stale" /\ \A f \in Events : f # e => mark'[f] = mark[f]
    BY <2>1 DEF ShapeInv, QueueShape
  <2>3. OneClaim'
    <3>1. SUFFICES ASSUME "slow" \notin Faults  PROVE OneClaim'
      BY DEF OneClaim
    <3>2. ASSUME NEW w \in Workers, Busy(w)  PROVE doing[w] # e /\ doing[w] \in Events
      <4>1. pc[w] \in Handling \cup {"failing"} /\ doing[w] \in Events
        BY <3>2 DEF Busy, ShapeInv, WorkShape, Steps
      <4> QED  BY <2>1, <3>1, <4>1 DEF Holder
    <3> QED  BY <2>1, <2>2, <3>2 DEF ClaimInv, OneClaim, Busy
  <2>4. ASSUME NEW f \in Events  PROVE EventInv(f)'
    BY <2>1, <2>2 DEF ClaimInv, EventInv, Busy
  <2> QED  BY <2>3, <2>4 DEF ClaimInv
<1>3. CASE Crash
  <2>1. /\ job' = [e \in Events |-> IF job[e] = "active" THEN "waiting" ELSE job[e]]
        /\ orphaned' = orphaned \cup {doing[w] : w \in {v \in Workers : pc[v] # "idle"}}
        /\ pc' = [w \in Workers |-> "idle"] /\ mark' = mark
    BY <1>3 DEF Crash
  <2>2. OneClaim'
    BY <2>1 DEF OneClaim, Busy
  <2>3. ASSUME NEW e \in Events  PROVE EventInv(e)'
    <3>1. (\E w \in Workers : Busy(w) /\ doing[w] = e) => e \in orphaned'
      BY <2>1 DEF Busy
    <3>2. /\ job'[e] = "asked" <=> job[e] = "asked"
          /\ job'[e] = "done" => job[e] = "done"
      BY <2>1
    <3> QED  BY <2>1, <3>1, <3>2 DEF ClaimInv, EventInv
  <2> QED  BY <2>2, <2>3 DEF ClaimInv
<1>4. CASE UNCHANGED vars
  BY <1>4 DEF vars, ClaimInv, OneClaim, EventInv, Busy
<1> QED  BY <1>1, <1>2, <1>3, <1>4

LEMMA NextClaims == ASSUME ShapeInv, JobInv, ClaimInv, [Next]_vars  PROVE ClaimInv'
<1>0. \A w \in Workers : doing[w] \in Events
  BY DEF ShapeInv, WorkShape
<1>1. ASSUME UserStep  PROVE ClaimInv'
  <2>1. /\ UNCHANGED <<mark, pc, doing, orphaned>>
        /\ \A e \in Events : \/ job'[e] = job[e]
                             \/ job[e] = "none" /\ job'[e] \in {"waiting", "asked"}
    BY <1>1, UserEvents
  <2> QED  BY <2>1 DEF ClaimInv, OneClaim, EventInv, Busy
<1>2. ASSUME NEW w \in Workers, GoesOn(w)  PROVE ClaimInv'
  <2>1. /\ Busy(w) /\ Busy(w)' /\ UNCHANGED <<job, mark, doing, orphaned>>
        /\ \A v \in Workers : v # w => pc'[v] = pc[v]
    BY <1>2, GoesOnShape
  <2>2. \A v \in Workers : Busy(v)' <=> Busy(v)
    BY <2>1 DEF Busy
  <2> QED  BY <2>1, <2>2 DEF ClaimInv, OneClaim, EventInv
<1>3. ASSUME NEW w \in Workers, Leaves(w)  PROVE ClaimInv'
  <2>1. /\ Busy(w) /\ ~Busy(w)' /\ doing[w] \in Events /\ orphaned \subseteq orphaned'
        /\ \A v \in Workers : v # w => pc'[v] = pc[v] /\ doing'[v] = doing[v]
        /\ \A f \in Events : f # doing[w] => job'[f] = job[f] /\ mark'[f] = mark[f]
        /\ \/ /\ mark'[doing[w]] = "completed" /\ job'[doing[w]] \in {"done", "asked"}
           \/ /\ job'[doing[w]] \in {"waiting", "failed", "asked"}
              /\ mark'[doing[w]] = "failed" \/ doing[w] \in orphaned'
    BY <1>3, LeavesShape
  <2>2. ASSUME NEW v \in Workers  PROVE Busy(v)' <=> Busy(v) /\ v # w
    BY <2>1 DEF Busy
  <2>3. OneClaim'
    <3>1. SUFFICES ASSUME "slow" \notin Faults  PROVE OneClaim'
      BY DEF OneClaim
    <3>2. ASSUME NEW v \in Workers, Busy(v)'
          PROVE  /\ Busy(v) /\ doing'[v] = doing[v] /\ mark'[doing[v]] = "processing"
      <4>1. Busy(v) /\ v # w /\ doing'[v] = doing[v]
        BY <2>1, <2>2, <3>2
      <4>2. doing[v] # doing[w] /\ mark[doing[v]] = "processing"
        BY <2>1, <3>1, <4>1 DEF ClaimInv, OneClaim
      <4> QED  BY <1>0, <2>1, <4>1, <4>2
    <3> QED  BY <3>1, <3>2 DEF ClaimInv, OneClaim
  <2>4. ASSUME NEW f \in Events  PROVE EventInv(f)'
    <3>1. CASE f = doing[w]
      BY <2>1, <3>1 DEF EventInv
    <3>2. CASE f # doing[w]
      <4>1. (\E v \in Workers : Busy(v) /\ doing[v] = f)
              => \E v \in Workers : Busy(v)' /\ doing'[v] = f
        BY <2>1, <2>2, <3>2
      <4>2. EventInv(f)
        BY DEF ClaimInv
      <4> QED  BY <2>1, <3>2, <4>1, <4>2 DEF EventInv
    <3> QED  BY <3>1, <3>2
  <2> QED  BY <2>3, <2>4 DEF ClaimInv
<1>4. ASSUME NEW w \in Workers, NEW e \in Events, ClaimGranted(w, e)  PROVE ClaimInv'
  <2>1. /\ ~Busy(w) /\ orphaned' = orphaned
        /\ doing'[w] = e /\ pc'[w] \in {"retrieve", "validate"}
        /\ \A v \in Workers : v # w => pc'[v] = pc[v] /\ doing'[v] = doing[v]
        /\ mark[e] \in {"none", "failed", "stale"} /\ mark'[e] = "processing"
        /\ \/ job[e] = "waiting" /\ job'[e] = "active"
           \/ job[e] = "asked" /\ job'[e] = "asked"
        /\ \A f \in Events : f # e => job'[f] = job[f] /\ mark'[f] = mark[f]
    BY <1>4, GrantShape
  <2>2. Busy(w)' /\ \A v \in Workers : v # w => (Busy(v)' <=> Busy(v))
    BY <2>1 DEF Busy
  <2>3. OneClaim'
    <3>1. SUFFICES ASSUME "slow" \notin Faults  PROVE OneClaim'
      BY DEF OneClaim
    <3>2. ASSUME NEW v \in Workers, v # w, Busy(v)'
          PROVE  /\ Busy(v) /\ doing'[v] = doing[v] /\ mark'[doing[v]] = "processing"
                 /\ doing[v] # e
      <4>1. Busy(v) /\ doing'[v] = doing[v]
        BY <2>1, <2>2, <3>2
      <4>2. mark[doing[v]] = "processing"
        BY <3>1, <4>1 DEF ClaimInv, OneClaim
      <4> QED  BY <1>0, <2>1, <4>1, <4>2
    <3>3. ASSUME NEW v \in Workers, Busy(v)'  PROVE mark'[doing'[v]] = "processing"
      BY <2>1, <3>2, <3>3
    <3>4. ASSUME NEW u \in Workers, NEW v \in Workers, Busy(u)', Busy(v)',
                 doing'[u] = doing'[v]
          PROVE  u = v
      BY <2>1, <3>1, <3>2, <3>4 DEF ClaimInv, OneClaim
    <3> QED  BY <3>3, <3>4 DEF OneClaim
  <2>4. ASSUME NEW f \in Events  PROVE EventInv(f)'
    <3>1. CASE f = e
      BY <2>1, <2>2, <3>1 DEF EventInv
    <3>2. CASE f # e
      <4>1. (\E v \in Workers : Busy(v) /\ doing[v] = f)
              => \E v \in Workers : Busy(v)' /\ doing'[v] = f
        BY <2>1, <2>2
      <4>2. EventInv(f)
        BY DEF ClaimInv
      <4> QED  BY <2>1, <3>2, <4>1, <4>2 DEF EventInv
    <3> QED  BY <3>1, <3>2
  <2> QED  BY <2>3, <2>4 DEF ClaimInv
<1> QED  BY <1>1, <1>2, <1>3, <1>4, RestOfClaims, NextSteps

LEMMA ClaimsAlways == Spec => [](ShapeInv /\ ClaimInv)
<1>1. Init => ClaimInv
  BY DEF Init, ClaimInv, OneClaim, EventInv, Busy
<1>2. ShapeInv /\ JobInv /\ ClaimInv /\ [Next]_vars => ClaimInv'
  BY NextClaims
<1> QED  BY <1>1, <1>2, ShapeAlways, PTL DEF Spec

(* While no handler takes five minutes, an event is handled by one worker at  *)
(* a time, job or request of the user.                                        *)
THEOREM ClaimedByOne == Spec => []ClaimedOnce
<1>1. ClaimInv => ClaimedOnce
  BY DEF ClaimInv, OneClaim, Busy, ClaimedOnce, Holder, Handling
<1> QED  BY <1>1, ClaimsAlways, PTL

(* An event whose job is done was applied, or its claim outlived its worker.  *)
THEOREM NoneForgotten == Spec => []NoEventForgotten
<1>1. ClaimInv => NoEventForgotten
  BY DEF ClaimInv, EventInv, NoEventForgotten
<1> QED  BY <1>1, ClaimsAlways, PTL
-----------------------------------------------------------------------------
(* The row: what it has of a subscription is of the last one written, and     *)
(* what a handler validated it against is what kept says.                     *)
RowInv ==
    /\ PaidTierHasCause
    /\ row.sub \in {None, row.of}
    /\ row.exists \/ (row.sub = None /\ trials = 0)
    /\ row.exists /\ row.tier = "free" => row.trial = "used"
    /\ TrialOnce

KeptInv ==
    \A w \in Workers :
       pc[w] \in {"bind", "write"} /\ Kind(w) \notin Rebinding => kept[w].sub \in {None, Sub(w)}

LEMMA NextRow == ASSUME ShapeInv, JobInv, RowInv, [Next]_vars  PROVE RowInv'
<1>1. CASE ActivateTrial
  <2>1. /\ ~row.exists \/ (row.tier = "free" /\ row.trial = "none" /\ row.sub = None)
        /\ row' = [row EXCEPT !.exists = TRUE, !.tier = "pro", !.trial = "running"]
        /\ trials' = trials + 1
    BY <1>1 DEF ActivateTrial
  <2>2. /\ row'.exists /\ row'.tier = "pro" /\ row'.trial = "running"
        /\ row'.sub = row.sub /\ row'.of = row.of
    BY <2>1 DEF ShapeInv, RowShape
  <2>3. trials = 0
    BY <2>1 DEF RowInv, ShapeInv, RowShape
  <2> QED  BY <2>1, <2>2, <2>3 DEF RowInv, PaidTierHasCause, TrialOnce
<1>2. ASSUME NEW w \in Workers, Write(w)  PROVE RowInv'
  <2>1. /\ pc[w] = "write" /\ row' = IF Fresh(w) THEN NewRow(w) ELSE row
        /\ trials' = trials
    BY <1>2 DEF Write, Step
  <2>2. Sub(w) \in Subs /\ Sub(w) # None
    BY <2>1, SetsAssumption DEF JobInv, Busy, Sub, ShapeInv, WorkShape
  <2>3. CASE Fresh(w)
    BY <2>1, <2>2, <2>3, NewRowShape DEF RowInv, PaidTierHasCause, TrialOnce
  <2>4. CASE ~Fresh(w)
    BY <2>1, <2>4 DEF RowInv, PaidTierHasCause, TrialOnce
  <2> QED  BY <2>3, <2>4
<1>3. ASSUME UNCHANGED <<row, trials>>  PROVE RowInv'
  BY <1>3 DEF RowInv, PaidTierHasCause, TrialOnce
<1>4. ASSUME UserStep, ~ActivateTrial  PROVE UNCHANGED <<row, trials>>
  BY <1>4, UserQueue
<1>5. ASSUME NEW w \in Workers, GoesOn(w), ~Write(w)  PROVE UNCHANGED <<row, trials>>
  BY <1>5 DEF GoesOn, Retrieve, Validate, Bind, Throw, rowVars
<1>6. ASSUME NEW w \in Workers, Leaves(w)  PROVE UNCHANGED <<row, trials>>
  BY <1>6, LeavesShape
<1>7. ASSUME NEW w \in Workers, NEW e \in Events, ClaimGranted(w, e)
      PROVE  UNCHANGED <<row, trials>>
  BY <1>7, GrantShape
<1> QED
  BY <1>1, <1>2, <1>3, <1>4, <1>5, <1>6, <1>7, RestOfShape, NextSteps

LEMMA NextKept == ASSUME ShapeInv, JobInv, KeptInv, [Next]_vars  PROVE KeptInv'
<1> USE DEF stripeVars, queueVars, rowVars, workVars
<1>0. \A w \in Workers : doing[w] \in Events /\ (Busy(w) => job[doing[w]] # "none")
  BY DEF ShapeInv, WorkShape, JobInv
<1>1. ASSUME UserStep  PROVE KeptInv'
  <2>1. /\ UNCHANGED <<pc, doing, kept>>
        /\ \A e \in Events : job[e] # "none" => info'[e] = info[e]
    BY <1>1, UserEvents
  <2>2. ASSUME NEW w \in Workers, pc'[w] \in {"bind", "write"}
        PROVE  Kind(w)' = Kind(w) /\ Sub(w)' = Sub(w)
    BY <1>0, <2>1, <2>2 DEF Busy, Kind, Sub
  <2> QED  BY <2>1, <2>2 DEF KeptInv
<1>2. ASSUME NEW w \in Workers, GoesOn(w)  PROVE KeptInv'
  <2>1. /\ UNCHANGED <<info, doing>>
        /\ \A v \in Workers : v # w => pc'[v] = pc[v] /\ kept'[v] = kept[v]
    BY <1>2, GoesOnShape
  <2>2. \A v \in Workers : Kind(v)' = Kind(v) /\ Sub(v)' = Sub(v)
    BY <2>1 DEF Kind, Sub
  <2>3. pc'[w] \in {"bind", "write"} /\ Kind(w) \notin Rebinding => kept'[w].sub \in {None, Sub(w)}
    <3>1. CASE Validate(w)
      <4>1. /\ Goto(w, IF Owned(w) THEN "bind" ELSE "complete")
            /\ kept' = [kept EXCEPT ![w].sub = row.sub]
        BY <3>1 DEF Validate
      <4>2. pc'[w] = (IF Owned(w) THEN "bind" ELSE "complete") /\ kept'[w].sub = row.sub
        BY <4>1 DEF Goto, ShapeInv, WorkShape
      <4> QED  BY <4>2 DEF Owned
    <3>2. CASE Bind(w)
      <4>1. /\ pc[w] = "bind"
            /\ kept' = [kept EXCEPT ![w].paid = row.paid, ![w].at = row.at,
                                    ![w].bound = binding']
        BY <3>2 DEF Bind, Step
      <4>2. kept'[w].sub = kept[w].sub
        BY <4>1 DEF ShapeInv, WorkShape
      <4> QED  BY <4>1, <4>2 DEF KeptInv
    <3>3. CASE Retrieve(w) \/ Write(w) \/ Throw(w)
      BY <3>3 DEF Retrieve, Write, Throw, Step, Goto, ShapeInv, WorkShape
    <3> QED  BY <1>2, <3>1, <3>2, <3>3 DEF GoesOn
  <2> QED  BY <2>1, <2>2, <2>3 DEF KeptInv
<1>3. ASSUME NEW w \in Workers, Leaves(w)  PROVE KeptInv'
  <2>1. /\ ~Busy(w)' /\ info' = info
        /\ \A v \in Workers : v # w => /\ pc'[v] = pc[v] /\ doing'[v] = doing[v]
                                       /\ kept'[v] = kept[v]
    BY <1>3, LeavesShape
  <2> QED  BY <2>1 DEF KeptInv, Busy, Kind, Sub
<1>4. ASSUME NEW w \in Workers, NEW e \in Events, ClaimGranted(w, e)  PROVE KeptInv'
  <2>1. /\ pc'[w] \in {"retrieve", "validate"} /\ UNCHANGED <<info, kept>>
        /\ \A v \in Workers : v # w => pc'[v] = pc[v] /\ doing'[v] = doing[v]
    BY <1>4, GrantShape
  <2> QED  BY <2>1 DEF KeptInv, Kind, Sub
<1>5. ASSUME \/ \E w \in Workers, e \in Events : ClaimRefused(w, e) \/ ClaimThrows(w, e)
             \/ \E e \in Events : ClaimAges(e)
             \/ UNCHANGED vars
      PROVE  KeptInv'
  <2>1. UNCHANGED <<info, pc, doing, kept>>
    BY <1>5 DEF ClaimRefused, ClaimThrows, ClaimAges, vars
  <2> QED  BY <2>1 DEF KeptInv, Kind, Sub
<1>6. CASE Crash
  BY <1>6 DEF Crash, KeptInv
<1> QED  BY <1>1, <1>2, <1>3, <1>4, <1>5, <1>6, NextSteps

LEMMA RowAlways == Spec => [](RowInv /\ KeptInv)
<1>1. Init => RowInv /\ KeptInv
  BY DEF Init, NoRow, RowInv, PaidTierHasCause, TrialOnce, KeptInv
<1>2. ShapeInv /\ JobInv /\ RowInv /\ KeptInv /\ [Next]_vars => (RowInv /\ KeptInv)'
  BY NextRow, NextKept
<1> QED  BY <1>1, <1>2, ShapeAlways, PTL DEF Spec

(* The paid tier always has a subscription or a running trial behind it.      *)
THEOREM PaidHasCause == Spec => []PaidTierHasCause
<1>1. RowInv => PaidTierHasCause
  BY DEF RowInv
<1> QED  BY <1>1, RowAlways, PTL

(* No order of subscriptions, logins and late events gives a second trial.    *)
THEOREM OneTrial == Spec => []TrialOnce
<1>1. RowInv => TrialOnce
  BY DEF RowInv
<1> QED  BY <1>1, RowAlways, PTL

(* A late event of an old subscription does not take the row over, unless the *)
(* row changed between its validation and its write.                          *)
THEOREM TakenOverByNew == Spec => TakenOverOnlyByNew
<1> DEFINE TakeOver == row.sub \notin {None, row'.of} =>
              \E w \in Workers : pc[w] = "write" /\ (Kind(w) \in Rebinding \/ Raced(w))
<1>1. ASSUME ShapeInv, JobInv, RowInv, KeptInv, [Next]_vars  PROVE [TakeOver]_vars
  <2>1. ASSUME row' = row  PROVE TakeOver
    BY <1>1, <2>1 DEF RowInv
  <2>2. ASSUME ActivateTrial  PROVE TakeOver
    BY <1>1, <2>2 DEF ActivateTrial, RowInv
  <2>3. ASSUME NEW w \in Workers, Write(w)  PROVE TakeOver
    <3>1. /\ pc[w] = "write" /\ row' = IF Fresh(w) THEN NewRow(w) ELSE row
      BY <2>3 DEF Write, Step
    <3>2. CASE Fresh(w)
      <4>1. row'.of = Sub(w)
        BY <1>1, <3>1, <3>2, NewRowShape
      <4>2. Kind(w) \notin Rebinding => kept[w].sub \in {None, Sub(w)}
        BY <1>1, <3>1 DEF KeptInv
      <4> QED  BY <3>1, <4>1, <4>2 DEF Raced
    <3>3. CASE ~Fresh(w)
      BY <2>1, <3>1, <3>3
    <3> QED  BY <3>2, <3>3
  <2>4. ASSUME UserStep, ~ActivateTrial  PROVE row' = row
    BY <1>1, <2>4, UserQueue
  <2>5. ASSUME NEW w \in Workers, GoesOn(w), ~Write(w)  PROVE row' = row
    BY <2>5 DEF GoesOn, Retrieve, Validate, Bind, Throw, rowVars
  <2>6. ASSUME NEW w \in Workers, Leaves(w)  PROVE row' = row
    BY <1>1, <2>6, LeavesShape
  <2>7. ASSUME NEW w \in Workers, NEW e \in Events, ClaimGranted(w, e)  PROVE row' = row
    BY <1>1, <2>7, GrantShape
  <2> HIDE DEF TakeOver
  <2> QED  BY <1>1, <2>1, <2>2, <2>3, <2>4, <2>5, <2>6, <2>7, RestOfShape, NextSteps
<1> QED  BY <1>1, ShapeAlways, RowAlways, PTL DEF Spec, TakenOverOnlyByNew

-----------------------------------------------------------------------------
(* What Stripe has said.  Of each subscription an event, a worker or the row  *)
(* knows a state Stripe has or had, and no event is from the future.          *)

KnowsOf(s, r) == /\ r.ver <= stripe[s].ver
                 /\ r.ver = stripe[s].ver => r.status = stripe[s].status

SessionsInv ==
    \A s \in Subs : /\ stripe[s].at <= now /\ session[s].at <= now
                    /\ session[s].status = "paid" => session[s].at <= stripe[s].at
                    /\ stripe[s].ver = 0 => stripe[s].status = "none"

EventKnows(e) == KnowsOf(info[e].sub, info[e]) /\ info[e].at <= stripe[info[e].sub].at

WorkerKnows(w) == KnowsOf(Sub(w), saw[w]) /\ saw[w].ver >= info[doing[w]].ver

KnownInv ==
    /\ SessionsInv
    /\ \A e \in Events : IF job[e] = "none" THEN mark[e] = "none" ELSE EventKnows(e)
    /\ \A w \in Workers : Busy(w) => WorkerKnows(w)
    /\ row.of # None => KnowsOf(row.of, row)

(* An event that tells the state a subscription is in. *)
News(e, s) == /\ info[e].sub = s /\ info[e].kind # "invoice_paid"
              /\ info[e].ver = stripe[s].ver /\ info[e].at = stripe[s].at

(* What the user and Stripe do: time goes on, a subscription changes at most  *)
(* together with an event that says so, and an event says what is the case.   *)
UserEffect ==
    /\ now' >= now /\ SessionsInv'
    /\ \A s \in Subs :
          \/ stripe'[s] = stripe[s]
          \/ /\ stripe'[s].ver = stripe[s].ver + 1 /\ stripe'[s].at = now'
             /\ \E e \in Events : job[e] = "none" /\ job'[e] = "waiting" /\ News(e, s)'
    /\ \A e \in Events :
          \/ job'[e] = job[e] /\ (job[e] # "none" => info'[e] = info[e])
          \/ job[e] = "none" /\ job'[e] # "none" /\ info'[e].sub \in Subs /\ EventKnows(e)'

LEMMA Enqueued ==
    ASSUME ShapeInv, JobInv, NEW kind \in Kinds, NEW s \in Subs, NEW at \in 0 .. MaxTime,
           NEW status \in Statuses, NEW ver \in Nat, NEW state \in {"waiting", "asked"},
           Enqueue(kind, s, at, status, ver, state)
    PROVE  \E e \in Events :
              /\ job[e] = "none" /\ job'[e] = state
              /\ info'[e] = [kind |-> kind, sub |-> s, at |-> at, status |-> status,
                             ver |-> ver]
              /\ \A f \in Events : f # e => job'[f] = job[f] /\ info'[f] = info[f]
<1>1. /\ sent' \in Events /\ job[sent'] = "none" /\ job'[sent'] = state
      /\ \A f \in Events : f # sent' => job'[f] = job[f] /\ info'[f] = info[f]
  BY EnqueueShape DEF ShapeInv
<1>2. info'[sent'] = [kind |-> kind, sub |-> s, at |-> at, status |-> status, ver |-> ver]
  BY <1>1 DEF Enqueue, ShapeInv, QueueShape
<1> QED  BY <1>1, <1>2

(* Pay and Change *)
LEMMA ChangeEffect ==
    ASSUME ShapeInv, JobInv, SessionsInv, NEW s \in Subs, NEW status \in Statuses,
           Becomes(s, status), NEW kind \in Kinds \ {"invoice_paid"}, Deliver(kind, s),
           \/ session' = session
           \/ session' = [session EXCEPT ![s].status = "paid"]
    PROVE  UserEffect
<1>1. /\ now \in 0 .. MaxTime /\ now' \in 0 .. MaxTime /\ now' >= now
      /\ stripe' = [stripe EXCEPT ![s] = [status |-> status, ver |-> stripe[s].ver + 1,
                                          at |-> now']]
  BY NumbersAssumption DEF Becomes, ShapeInv, StripeShape
<1>2. /\ stripe[s].ver \in Nat
      /\ stripe'[s] = [status |-> status, ver |-> stripe[s].ver + 1, at |-> now']
      /\ \A t \in Subs : t # s => stripe'[t] = stripe[t]
  BY <1>1 DEF ShapeInv, StripeShape
<1>3. SessionsInv'
  <2> SUFFICES ASSUME NEW t \in Subs
               PROVE  /\ stripe'[t].at <= now' /\ session'[t].at <= now'
                      /\ session'[t].status = "paid" => session'[t].at <= stripe'[t].at
                      /\ stripe'[t].ver = 0 => stripe'[t].status = "none"
    BY DEF SessionsInv
  <2>1. /\ stripe[t].at \in 0 .. MaxTime /\ session[t].at \in 0 .. MaxTime
        /\ stripe[t].at <= now /\ session[t].at <= now
        /\ session[t].status = "paid" => session[t].at <= stripe[t].at
        /\ stripe[t].ver = 0 => stripe[t].status = "none"
    BY DEF ShapeInv, StripeShape, SessionsInv
  <2>2. session'[t].at = session[t].at /\ (t # s => session'[t].status = session[t].status)
    BY DEF ShapeInv, StripeShape
  <2>3. session'[t].at <= now'
    BY <1>1, <2>1, <2>2
  <2>4. CASE t = s
    BY <1>1, <1>2, <2>3, <2>4
  <2>5. CASE t # s
    BY <1>1, <1>2, <2>1, <2>2, <2>5
  <2> QED  BY <2>4, <2>5
<1>4. PICK e \in Events :
         /\ job[e] = "none" /\ job'[e] = "waiting"
         /\ info'[e] = [kind |-> kind, sub |-> s, at |-> now', status |-> status,
                        ver |-> stripe[s].ver + 1]
         /\ \A f \in Events : f # e => job'[f] = job[f] /\ info'[f] = info[f]
  <2>1. Enqueue(kind, s, now', status, stripe[s].ver + 1, "waiting")
    BY <1>2 DEF Deliver
  <2>2. stripe[s].ver + 1 \in Nat
    BY <1>2
  <2> QED  BY <1>1, <2>1, <2>2, Enqueued
<1>5. News(e, s)' /\ EventKnows(e)' /\ info'[e].sub \in Subs
  BY <1>1, <1>2, <1>4 DEF News, EventKnows, KnowsOf
<1> QED  BY <1>1, <1>2, <1>3, <1>4, <1>5 DEF UserEffect

LEMMA UserEffects == ASSUME ShapeInv, JobInv, SessionsInv, UserStep  PROVE UserEffect
<1> USE DEF stripeVars, queueVars, rowVars, workVars
<1>0. now \in Nat /\ \A s \in Subs : /\ stripe[s].ver \in Nat /\ stripe[s].at \in 0 .. MaxTime
                                     /\ session[s].at \in 0 .. MaxTime
                                     /\ stripe[s].status \in Statuses
  BY NumbersAssumption DEF ShapeInv, StripeShape
<1>1. CASE ActivateTrial
  BY <1>0, <1>1 DEF ActivateTrial, UserEffect, SessionsInv
<1>2. ASSUME NEW s \in Subs, OpenSession(s)  PROVE UserEffect
  <2>1. /\ session[s].status = "none"
        /\ session' = [session EXCEPT ![s] = [status |-> "open", at |-> now]]
        /\ UNCHANGED <<now, stripe, job, info>>
    BY <1>2 DEF OpenSession
  <2>2. \A t \in Subs : IF t = s THEN session'[t] = [status |-> "open", at |-> now]
                                 ELSE session'[t] = session[t]
    BY <2>1 DEF ShapeInv, StripeShape
  <2> QED  BY <1>0, <2>1, <2>2 DEF UserEffect, SessionsInv
<1>3. ASSUME NEW s \in Subs, Pay(s)  PROVE UserEffect
  <2>1. /\ session' = [session EXCEPT ![s].status = "paid"] /\ Becomes(s, "active")
        /\ \E kind \in {"checkout", "created"} : Deliver(kind, s)
    BY <1>3 DEF Pay
  <2>2. {"checkout", "created"} \subseteq Kinds \ {"invoice_paid"} /\ "active" \in Statuses
    BY DEF Kinds, Retrieving, Rebinding, Statuses, Live
  <2> QED  BY <2>1, <2>2, ChangeEffect
<1>4. ASSUME NEW s \in Subs, NEW status \in Live \cup {"canceled"}, Change(s, status)
      PROVE  UserEffect
  <2>1. /\ session' = session /\ Becomes(s, status)
        /\ \E kind \in {"deleted", "updated"} : Deliver(kind, s)
    BY <1>4 DEF Change
  <2>2. {"deleted", "updated"} \subseteq Kinds \ {"invoice_paid"} /\ status \in Statuses
    BY DEF Kinds, Statuses, Live
  <2> QED  BY <2>1, <2>2, ChangeEffect
<1>5. ASSUME NEW s \in Subs, NEW kind \in Kinds, NEW at \in 0 .. MaxTime,
             NEW status \in Statuses, NEW ver \in Nat, NEW state \in {"waiting", "asked"},
             Enqueue(kind, s, at, status, ver, state), UNCHANGED <<now, stripe, session>>,
             at <= stripe[s].at, ver <= stripe[s].ver,
             ver = stripe[s].ver => status = stripe[s].status
      PROVE  UserEffect
  <2>1. PICK e \in Events :
           /\ job[e] = "none" /\ job'[e] = state
           /\ info'[e] = [kind |-> kind, sub |-> s, at |-> at, status |-> status,
                          ver |-> ver]
           /\ \A f \in Events : f # e => job'[f] = job[f] /\ info'[f] = info[f]
    BY <1>5, Enqueued
  <2>2. EventKnows(e)' /\ info'[e].sub \in Subs
    BY <1>5, <2>1 DEF EventKnows, KnowsOf
  <2>3. SessionsInv'
    BY <1>5 DEF SessionsInv
  <2> QED  BY <1>0, <1>5, <2>1, <2>2, <2>3 DEF UserEffect
<1>6. ASSUME NEW s \in Subs, Invoice(s)  PROVE UserEffect
  <2>1. /\ UNCHANGED <<now, stripe, session>>
        /\ \E kind \in {"invoice_paid", "payment_failed"} : Deliver(kind, s)
    BY <1>6 DEF Invoice
  <2>2. PICK kind \in {"invoice_paid", "payment_failed"} : Deliver(kind, s)
    BY <2>1
  <2>3. /\ Enqueue(kind, s, stripe[s].at, stripe[s].status, stripe[s].ver, "waiting")
        /\ kind \in Kinds
    BY <2>1, <2>2 DEF Deliver, Kinds, Retrieving
  <2>4. stripe[s].at <= stripe[s].at /\ stripe[s].ver <= stripe[s].ver
    BY <1>0
  <2> QED  BY <1>0, <1>5, <2>1, <2>3, <2>4
<1>7. ASSUME NEW s \in Subs, Confirm(s)  PROVE UserEffect
  <2>1. /\ Enqueue("reconcile", s, session[s].at, "none", 0, "asked")
        /\ session[s].status = "paid" /\ UNCHANGED <<now, stripe, session>>
    BY <1>7 DEF Confirm
  <2>2. /\ session[s].at <= stripe[s].at /\ 0 <= stripe[s].ver
        /\ "reconcile" \in Kinds /\ "none" \in Statuses /\ 0 \in Nat
    BY <1>0, <2>1 DEF SessionsInv, Kinds, Rebinding, Statuses
  <2>3. 0 = stripe[s].ver => "none" = stripe[s].status
    BY DEF SessionsInv
  <2> QED  BY <1>0, <1>5, <2>1, <2>2, <2>3
<1> QED  BY <1>1, <1>2, <1>3, <1>4, <1>6, <1>7 DEF UserStep

-----------------------------------------------------------------------------
(* Apart from what the user and Stripe do, Stripe stays as it is; and the row *)
(* is only changed by the logins and by the workers' writes.                  *)

LEMMA WorkLeavesStripe ==
    ASSUME [Next]_vars, ~UserStep
    PROVE  UNCHANGED <<now, stripe, session>>
<1> USE DEF stripeVars
<1>1. ASSUME NEW w \in Workers, GoesOn(w) \/ Leaves(w)
      PROVE  UNCHANGED <<now, stripe, session>>
  BY <1>1 DEF GoesOn, Leaves, Retrieve, Validate, Bind, Write, Throw, Complete,
              MarkFailed, MarkFailedThrows, Rest
<1>2. ASSUME NEW w \in Workers, NEW e \in Events,
             ClaimGranted(w, e) \/ ClaimRefused(w, e) \/ ClaimThrows(w, e)
      PROVE  UNCHANGED <<now, stripe, session>>
  BY <1>2 DEF ClaimGranted, Grant, ClaimRefused, ClaimThrows
<1>3. ASSUME (\E e \in Events : ClaimAges(e)) \/ Crash \/ UNCHANGED vars
      PROVE  UNCHANGED <<now, stripe, session>>
  BY <1>3 DEF ClaimAges, Crash, vars
<1> QED  BY <1>1, <1>2, <1>3, NextSteps

LEMMA RowSteps ==
    ASSUME ShapeInv, JobInv, [Next]_vars
    PROVE  /\ drift \subseteq drift'
           /\ \/ row' = row
              \/ ActivateTrial /\ drift' = drift
              \/ \E w \in Workers : Write(w)
<1> USE DEF rowVars
<1>1. ASSUME UserStep  PROVE drift' = drift /\ (row' = row \/ ActivateTrial)
  BY <1>1, UserQueue
<1>2. ASSUME NEW w \in Workers, GoesOn(w)
      PROVE  drift \subseteq drift' /\ (row' = row \/ Write(w))
  BY <1>2 DEF GoesOn, Retrieve, Validate, Bind, Write, Throw
<1>3. ASSUME NEW w \in Workers, Leaves(w)  PROVE UNCHANGED <<row, drift>>
  BY <1>3 DEF Leaves, Complete, MarkFailed, MarkFailedThrows, Rest
<1>4. ASSUME NEW w \in Workers, NEW e \in Events,
             ClaimGranted(w, e) \/ ClaimRefused(w, e) \/ ClaimThrows(w, e)
      PROVE  UNCHANGED <<row, drift>>
  BY <1>4 DEF ClaimGranted, Grant, ClaimRefused, ClaimThrows
<1>5. ASSUME (\E e \in Events : ClaimAges(e)) \/ Crash \/ UNCHANGED vars
      PROVE  UNCHANGED <<row, drift>>
  BY <1>5 DEF ClaimAges, Crash, vars
<1> QED  BY <1>1, <1>2, <1>3, <1>4, <1>5, NextSteps

LEMMA WriteStep ==
    ASSUME ShapeInv, JobInv, NEW w \in Workers, Write(w)
    PROVE  /\ pc[w] = "write" /\ Busy(w) /\ doing[w] \in Events /\ Sub(w) \in Subs
           /\ Sub(w) # None /\ At(w) \in 0 .. MaxTime /\ saw[w].ver \in Nat
           /\ row' = IF Fresh(w) THEN NewRow(w) ELSE row
           /\ drift' = drift \cup {d \in {"row", "binding"} :
                          IF d = "row" THEN SetsRowBack(w) ELSE SetsBindingBack(w)}
           /\ UNCHANGED <<now, stripe, session, sent, info, job, tries, mark, binding,
                          doing, saw, kept>>
           /\ pc'[w] = "complete" /\ \A v \in Workers : v # w => pc'[v] = pc[v]
<1>1. /\ pc[w] = "write" /\ Busy(w) /\ doing[w] \in Events
  BY DEF Write, Step, Busy, ShapeInv, WorkShape
<1>2. Sub(w) \in Subs /\ Sub(w) # None
  BY <1>1, SetsAssumption DEF JobInv, Sub
<1>3. At(w) \in 0 .. MaxTime /\ saw[w].ver \in Nat
  BY <1>1 DEF ShapeInv, QueueShape, WorkShape, At
<1>4. pc'[w] = "complete" /\ \A v \in Workers : v # w => pc'[v] = pc[v]
  BY DEF Write, Step, Goto, ShapeInv, WorkShape
<1> QED  BY <1>1, <1>2, <1>3, <1>4 DEF Write, stripeVars, queueVars

LEMMA NextKnown ==
    ASSUME ShapeInv, JobInv, KnownInv, [Next]_vars
    PROVE  KnownInv'
<1>0. /\ \A w \in Workers : /\ doing[w] \in Events /\ saw[w].ver \in Nat
                            /\ Busy(w) => job[doing[w]] # "none" /\ Sub(w) \in Subs
      /\ \A s \in Subs : stripe[s].ver \in Nat /\ stripe[s].at \in 0 .. MaxTime
      /\ \A e \in Events : info[e].ver \in Nat /\ info[e].at \in 0 .. MaxTime
                           /\ (job[e] # "none" => info[e].sub \in Subs)
      /\ row.of \in Subs \cup {None} /\ row.ver \in Nat /\ now \in Nat /\ MaxTime \in Nat
  BY NumbersAssumption
     DEF ShapeInv, StripeShape, QueueShape, RowShape, WorkShape, JobInv, Busy, Sub
<1>1. CASE UserStep
  <2>1. UserEffect
    BY <1>1, UserEffects DEF KnownInv
  <2>2. UNCHANGED <<mark, pc, doing, saw>> /\ row'.of = row.of /\ row'.ver = row.ver
        /\ row'.status = row.status /\ now' \in Nat
    <3>1. UNCHANGED <<mark, pc, doing, saw>> /\ (row' = row \/ ActivateTrial) /\ StripeShape'
      BY <1>1, UserQueue
    <3>2. now' \in Nat
      BY <3>1, NumbersAssumption DEF StripeShape
    <3>3. CASE ActivateTrial
      BY <3>1, <3>2, <3>3 DEF ActivateTrial, ShapeInv, RowShape
    <3> QED  BY <3>1, <3>2, <3>3
  <2>3. ASSUME NEW s \in Subs, NEW r, r.ver \in Nat, KnowsOf(s, r)
        PROVE  r.ver <= stripe'[s].ver /\ (r.ver = stripe'[s].ver => r.status = stripe'[s].status)
    <3>1. stripe'[s] = stripe[s] \/ stripe'[s].ver = stripe[s].ver + 1
      BY <2>1 DEF UserEffect
    <3> QED  BY <1>0, <2>3, <3>1 DEF KnowsOf
  <2>4. ASSUME NEW e \in Events
        PROVE  IF job'[e] = "none" THEN mark'[e] = "none" ELSE EventKnows(e)'
    <3>1. CASE job'[e] = job[e] /\ (job[e] # "none" => info'[e] = info[e])
      <4>1. CASE job[e] = "none"
        BY <2>2, <3>1, <4>1 DEF KnownInv
      <4>2. CASE job[e] # "none"
        <5>1. EventKnows(e) /\ info'[e] = info[e] /\ info[e].sub \in Subs
          BY <1>0, <3>1, <4>2 DEF KnownInv
        <5>2. KnowsOf(info[e].sub, info[e])'
          BY <1>0, <2>3, <5>1 DEF EventKnows, KnowsOf
        <5>3. stripe'[info[e].sub] = stripe[info[e].sub] \/ stripe'[info[e].sub].at = now'
          BY <2>1, <5>1 DEF UserEffect
        <5>4. info[e].at <= now'
          BY <1>0, <2>1, <2>2, <5>1 DEF EventKnows, KnownInv, SessionsInv, UserEffect
        <5> QED  BY <3>1, <4>2, <5>1, <5>2, <5>3, <5>4 DEF EventKnows
      <4> QED  BY <4>1, <4>2
    <3>2. CASE job[e] = "none" /\ job'[e] # "none" /\ EventKnows(e)'
      BY <3>2
    <3> QED  BY <2>1, <3>1, <3>2 DEF UserEffect
  <2>5. ASSUME NEW w \in Workers, Busy(w)'  PROVE WorkerKnows(w)'
    <3>1. Busy(w) /\ WorkerKnows(w) /\ Sub(w) \in Subs /\ job[doing[w]] # "none"
      BY <1>0, <2>2, <2>5 DEF Busy, KnownInv
    <3>2. info'[doing[w]] = info[doing[w]]
      BY <1>0, <2>1, <3>1 DEF UserEffect
    <3>3. Sub(w)' = Sub(w)
      BY <2>2, <3>2 DEF Sub
    <3>4. KnowsOf(Sub(w), saw[w])'
      BY <1>0, <2>2, <2>3, <3>1, <3>3 DEF WorkerKnows, KnowsOf
    <3> QED  BY <2>2, <3>1, <3>2, <3>4 DEF WorkerKnows
  <2>6. row'.of # None => KnowsOf(row.of, row)'
    BY <1>0, <2>2, <2>3 DEF KnownInv, KnowsOf
  <2> QED  BY <2>1, <2>4, <2>5, <2>6 DEF KnownInv, UserEffect
<1>2. CASE ~UserStep
  <2>1. UNCHANGED <<now, stripe, session, info>>
    <3>1. ASSUME NEW w \in Workers, GoesOn(w) \/ Leaves(w)  PROVE info' = info
      BY <3>1, GoesOnShape, LeavesShape
    <3>2. ASSUME NEW w \in Workers, NEW e \in Events, ClaimGranted(w, e)  PROVE info' = info
      BY <3>2, GrantShape
    <3> QED  BY <1>2, <3>1, <3>2, RestOfShape, NextSteps, WorkLeavesStripe
  <2>2. SessionsInv' /\ \A e \in Events : EventKnows(e)' <=> EventKnows(e)
    BY <2>1 DEF KnownInv, SessionsInv, EventKnows, KnowsOf
  <2>3. ASSUME NEW e \in Events
        PROVE  /\ job'[e] = "none" <=> job[e] = "none"
               /\ job[e] = "none" => mark'[e] = mark[e]
    <3>1. ASSUME NEW w \in Workers, GoesOn(w)  PROVE UNCHANGED <<job, mark>>
      BY <3>1, GoesOnShape
    <3>2. ASSUME NEW w \in Workers, Leaves(w)
          PROVE  \/ job'[e] = job[e] /\ mark'[e] = mark[e]
                 \/ job[e] # "none" /\ job'[e] # "none"
      BY <1>0, <3>2, LeavesShape
    <3>3. ASSUME NEW w \in Workers, NEW f \in Events, ClaimGranted(w, f)
          PROVE  \/ job'[e] = job[e] /\ mark'[e] = mark[e]
                 \/ job[e] # "none" /\ job'[e] # "none"
      BY <3>3, GrantShape
    <3>4. ASSUME NEW w \in Workers, NEW f \in Events,
                 ClaimRefused(w, f) \/ ClaimThrows(w, f)
          PROVE  /\ mark'[e] = mark[e]
                 /\ job'[e] = job[e] \/ (job[e] # "none" /\ job'[e] # "none")
      <4>1. CASE ClaimRefused(w, f)
        BY <4>1 DEF ClaimRefused, ShapeInv, QueueShape
      <4>2. CASE ClaimThrows(w, f)
        <5>1. FailAttempt(f) /\ job[f] = "waiting" /\ mark' = mark
          BY <4>2 DEF ClaimThrows
        <5>2. /\ \A g \in Events : g # f => job'[g] = job[g]
              /\ job'[f] \in {"failed", "waiting"}
          BY <5>1, FailShape DEF ShapeInv
        <5> QED  BY <5>1, <5>2
      <4> QED  BY <3>4, <4>1, <4>2
    <3>5. ASSUME NEW f \in Events, ClaimAges(f)
          PROVE  job' = job /\ (job[e] = "none" => mark'[e] = mark[e])
      <4>1. job' = job /\ mark' = [mark EXCEPT ![f] = "stale"] /\ mark[f] = "processing"
        BY <3>5 DEF ClaimAges
      <4>2. job[e] = "none" => e # f
        BY <4>1 DEF KnownInv
      <4> QED  BY <4>1, <4>2 DEF ShapeInv, QueueShape
    <3>6. ASSUME Crash \/ UNCHANGED vars
          PROVE  mark' = mark /\ (job'[e] = "none" <=> job[e] = "none")
      BY <3>6 DEF Crash, vars, queueVars
    <3> QED  BY <1>2, <3>1, <3>2, <3>3, <3>4, <3>5, <3>6, NextSteps
  <2>4. ASSUME NEW w \in Workers, Busy(w)'  PROVE WorkerKnows(w)'
    <3>1. CASE Busy(w) /\ doing'[w] = doing[w] /\ saw'[w] = saw[w]
      BY <2>1, <3>1 DEF KnownInv, WorkerKnows, KnowsOf, Sub
    <3>2. CASE Retrieve(w)
      <4>1. /\ Busy(w) /\ doing'[w] = doing[w]
            /\ saw'[w] = [status |-> stripe[Sub(w)].status, ver |-> stripe[Sub(w)].ver]
        BY <3>2 DEF Retrieve, Step, Busy, ShapeInv, WorkShape
      <4>2. WorkerKnows(w)
        BY <4>1 DEF KnownInv
      <4>3. stripe[Sub(w)].ver >= info[doing[w]].ver /\ stripe[Sub(w)].ver <= stripe[Sub(w)].ver
        BY <1>0, <4>1, <4>2 DEF WorkerKnows, KnowsOf
      <4> QED  BY <2>1, <4>1, <4>3 DEF WorkerKnows, KnowsOf, Sub
    <3>3. ASSUME NEW e \in Events, ClaimGranted(w, e)  PROVE WorkerKnows(w)'
      <4>1. /\ doing'[w] = e /\ job[e] \in {"waiting", "asked"}
            /\ saw'[w] = [status |-> info[e].status, ver |-> info[e].ver]
        BY <3>3, GrantShape DEF ClaimGranted, Grant, ShapeInv, WorkShape
      <4>2. EventKnows(e)
        BY <4>1 DEF KnownInv
      <4> QED  BY <1>0, <2>1, <4>1, <4>2 DEF EventKnows, WorkerKnows, KnowsOf, Sub
    <3>4. ASSUME NEW v \in Workers, GoesOn(v), ~(Retrieve(v) /\ v = w)
          PROVE  Busy(w) /\ doing'[w] = doing[w] /\ saw'[w] = saw[w]
      <4>1. Busy(v) /\ doing' = doing /\ \A u \in Workers : u # v => pc'[u] = pc[u]
        BY <3>4, GoesOnShape
      <4>2. saw'[w] = saw[w]
        BY <3>4 DEF GoesOn, Retrieve, Validate, Bind, Write, Throw, ShapeInv, WorkShape
      <4> QED  BY <2>4, <4>1, <4>2 DEF Busy
    <3>5. ASSUME NEW v \in Workers, Leaves(v)
          PROVE  Busy(w) /\ doing'[w] = doing[w] /\ saw'[w] = saw[w]
      <4>1. /\ ~Busy(v)' /\ \A u \in Workers : u # v => pc'[u] = pc[u] /\ doing'[u] = doing[u]
        BY <3>5, LeavesShape
      <4>2. w # v
        BY <2>4, <4>1
      <4>3. saw'[w] = saw[w]
        BY <3>5, <4>2
           DEF Leaves, Complete, MarkFailed, MarkFailedThrows, Rest, ShapeInv, WorkShape
      <4> QED  BY <2>4, <4>1, <4>2, <4>3 DEF Busy
    <3>6. ASSUME NEW v \in Workers, NEW e \in Events, ClaimGranted(v, e), v # w
          PROVE  Busy(w) /\ doing'[w] = doing[w] /\ saw'[w] = saw[w]
      <4>1. pc'[w] = pc[w] /\ doing'[w] = doing[w]
        BY <3>6, GrantShape
      <4>2. saw'[w] = saw[w]
        BY <3>6 DEF ClaimGranted, Grant, ShapeInv, WorkShape
      <4> QED  BY <2>4, <4>1, <4>2 DEF Busy
    <3>7. ASSUME \/ \E v \in Workers, e \in Events : ClaimRefused(v, e) \/ ClaimThrows(v, e)
                 \/ \E e \in Events : ClaimAges(e)
                 \/ UNCHANGED vars
          PROVE  Busy(w) /\ doing'[w] = doing[w] /\ saw'[w] = saw[w]
      BY <2>4, <3>7 DEF ClaimRefused, ClaimThrows, ClaimAges, vars, workVars, Busy
    <3>8. ~Crash
      BY <2>4 DEF Crash, Busy
    <3> QED  BY <1>2, <3>1, <3>2, <3>3, <3>4, <3>5, <3>6, <3>7, <3>8, NextSteps
  <2>5. row'.of # None => KnowsOf(row.of, row)'
    <3>1. CASE row' = row
      BY <2>1, <3>1 DEF KnownInv, KnowsOf
    <3>2. ASSUME NEW w \in Workers, Write(w)  PROVE row'.of # None => KnowsOf(row.of, row)'
      <4>1. /\ Busy(w) /\ row' = IF Fresh(w) THEN NewRow(w) ELSE row
        BY <3>2, WriteStep
      <4>2. CASE Fresh(w)
        <5>1. row'.of = Sub(w) /\ row'.ver = saw[w].ver /\ row'.status = saw[w].status
          BY <4>1, <4>2 DEF NewRow
        <5>2. KnowsOf(Sub(w), saw[w])
          BY <4>1 DEF KnownInv, WorkerKnows
        <5> QED  BY <2>1, <5>1, <5>2 DEF KnowsOf
      <4> QED  BY <3>1, <4>1, <4>2
    <3>3. ~ActivateTrial
      BY <1>2 DEF UserStep
    <3> QED  BY <3>1, <3>2, <3>3, RowSteps
  <2> QED  BY <2>2, <2>3, <2>4, <2>5 DEF KnownInv
<1> QED  BY <1>1, <1>2

LEMMA KnownAlways == Spec => []KnownInv
<1>1. Init => KnownInv
  BY SetsAssumption DEF Init, NoRow, KnownInv, SessionsInv, Busy
<1>2. ShapeInv /\ JobInv /\ KnownInv /\ [Next]_vars => KnownInv'
  BY NextKnown
<1> QED  BY <1>1, <1>2, ShapeAlways, PTL DEF Spec
-----------------------------------------------------------------------------
(* What is still to come: an event whose handler has not been through its     *)
(* writes.  It stays so until a worker's write, or until a worker finds that  *)
(* the row is another subscription's.                                         *)
Pending(e) == /\ job[e] # "none" /\ mark[e] # "completed"
              /\ \A w \in Workers : ~(pc[w] = "complete" /\ doing[w] = e)

Settles(e) == \E w \in Workers : /\ doing[w] = e
                                 /\ Write(w) \/ (Validate(w) /\ ~Owned(w))

LEMMA PendingStays ==
    ASSUME ShapeInv, JobInv, [Next]_vars, NEW e \in Events, Pending(e), ~Settles(e)
    PROVE  Pending(e)' /\ info'[e] = info[e]
<1>0. \A w \in Workers : doing[w] \in Events /\ pc[w] \in Steps
  BY DEF ShapeInv, WorkShape
<1>1. CASE UserStep
  <2>1. /\ UNCHANGED <<mark, pc, doing>>
        /\ \/ job'[e] = job[e] /\ info'[e] = info[e]
           \/ job[e] = "none" /\ job'[e] \in {"waiting", "asked"}
    BY <1>1, UserEvents
  <2> QED  BY <2>1 DEF Pending
<1>2. ASSUME NEW w \in Workers, GoesOn(w)  PROVE Pending(e)' /\ info'[e] = info[e]
  <2>1. /\ UNCHANGED <<info, job, mark, doing>>
        /\ \A v \in Workers : v # w => pc'[v] = pc[v]
    BY <1>2, GoesOnShape
  <2>2. ASSUME pc'[w] = "complete", doing[w] = e  PROVE FALSE
    <3>1. CASE Retrieve(w) \/ Bind(w) \/ Throw(w)
      BY <2>2, <3>1 DEF Retrieve, Bind, Throw, Step, Goto, ShapeInv, WorkShape
    <3>2. CASE Validate(w)
      <4>1. pc'[w] = IF Owned(w) THEN "bind" ELSE "complete"
        BY <3>2 DEF Validate, Goto, ShapeInv, WorkShape
      <4> QED  BY <2>2, <3>2, <4>1 DEF Settles
    <3>3. CASE Write(w)
      BY <2>2, <3>3 DEF Settles
    <3> QED  BY <1>2, <3>1, <3>2, <3>3 DEF GoesOn
  <2> QED  BY <2>1, <2>2 DEF Pending
<1>3. ASSUME NEW w \in Workers, Leaves(w)  PROVE Pending(e)' /\ info'[e] = info[e]
  <2>1. /\ ~Busy(w)' /\ UNCHANGED info
        /\ \A v \in Workers : v # w => pc'[v] = pc[v] /\ doing'[v] = doing[v]
        /\ \A f \in Events : f # doing[w] => job'[f] = job[f] /\ mark'[f] = mark[f]
        /\ job'[doing[w]] \in {"done", "asked", "waiting", "failed"}
    BY <1>3, LeavesShape
  <2>2. doing[w] = e => mark'[e] # "completed"
    <3>1. CASE Complete(w)
      BY <3>1 DEF Complete, Pending
    <3>2. CASE MarkFailed(w) \/ MarkFailedThrows(w)
      BY <3>2 DEF MarkFailed, MarkFailedThrows, Pending, ShapeInv, QueueShape
    <3> QED  BY <1>3, <3>1, <3>2 DEF Leaves
  <2>3. job'[e] # "none" /\ mark'[e] # "completed"
    BY <2>1, <2>2 DEF Pending
  <2> QED  BY <2>1, <2>3 DEF Pending, Busy
<1>4. ASSUME NEW w \in Workers, NEW f \in Events, ClaimGranted(w, f)
      PROVE  Pending(e)' /\ info'[e] = info[e]
  <2>1. /\ UNCHANGED info /\ pc'[w] \in {"retrieve", "validate"}
        /\ \A v \in Workers : v # w => pc'[v] = pc[v] /\ doing'[v] = doing[v]
        /\ mark'[f] = "processing" /\ job'[f] \in {"active", "asked"}
        /\ \A g \in Events : g # f => job'[g] = job[g] /\ mark'[g] = mark[g]
    BY <1>4, GrantShape
  <2> QED  BY <2>1 DEF Pending
<1>5. ASSUME NEW w \in Workers, NEW f \in Events, ClaimRefused(w, f) \/ ClaimThrows(w, f)
      PROVE  Pending(e)' /\ info'[e] = info[e]
  <2>1. UNCHANGED <<info, mark, pc, doing>> /\ job[f] = "waiting"
    BY <1>5 DEF ClaimRefused, ClaimThrows, workVars
  <2>2. job'[e] # "none"
    <3>1. CASE ClaimRefused(w, f)
      BY <3>1 DEF ClaimRefused, Pending, ShapeInv, QueueShape
    <3>2. CASE ClaimThrows(w, f)
      <4>1. /\ job'[f] \in {"waiting", "failed"}
            /\ \A g \in Events : g # f => job'[g] = job[g]
        BY <2>1, <3>2, FailShape DEF ClaimThrows, ShapeInv
      <4> QED  BY <4>1 DEF Pending
    <3> QED  BY <1>5, <3>1, <3>2
  <2> QED  BY <2>1, <2>2 DEF Pending
<1>6. ASSUME NEW f \in Events, ClaimAges(f)  PROVE Pending(e)' /\ info'[e] = info[e]
  BY <1>6 DEF ClaimAges, Pending, ShapeInv, QueueShape, workVars
<1>7. CASE Crash
  <2>1. /\ job' = [f \in Events |-> IF job[f] = "active" THEN "waiting" ELSE job[f]]
        /\ pc' = [w \in Workers |-> "idle"] /\ UNCHANGED <<info, mark>>
    BY <1>7 DEF Crash
  <2> QED  BY <2>1 DEF Pending
<1>8. CASE UNCHANGED vars
  BY <1>8 DEF vars, queueVars, workVars, Pending
<1> QED  BY <1>1, <1>2, <1>3, <1>4, <1>5, <1>6, <1>7, <1>8, NextSteps

-----------------------------------------------------------------------------
(* Unless a write set it back, the row is up to date with a subscription, or  *)
(* an event that tells the subscription's state is still to come.  That the   *)
(* row's time is never that of the future, and not later than its             *)
(* subscription's unless it has the state, makes the upsert's guard refuse    *)
(* only what the row knows.                                                   *)
Told(s)     == \E e \in Events : Pending(e) /\ News(e, s)
UpToDate(s) == row.at >= stripe[s].at /\ (row.of = s => row.ver = stripe[s].ver)

RowInTime ==
    /\ row.at <= now
    /\ ~row.exists => row.at = -1 /\ row.of = None
    /\ row.of # None => row.ver = stripe[row.of].ver \/ row.at <= stripe[row.of].at

DueInv ==
    "row" \notin drift =>
       /\ RowInTime
       /\ \A s \in Subs : stripe[s].ver > 0 => Told(s) \/ UpToDate(s)

(* A subscription that changed sends its news. *)
LEMMA UserDue == ASSUME ShapeInv, JobInv, KnownInv, DueInv, UserStep  PROVE DueInv'
<1>0. /\ \A s \in Subs : stripe[s].ver \in Nat /\ stripe[s].at \in Nat
      /\ row.at \in Int /\ row.ver \in Nat /\ row.of \in Subs \cup {None} /\ now \in Nat
  BY NumbersAssumption DEF ShapeInv, StripeShape, RowShape
<1>1. UserEffect
  BY UserEffects DEF KnownInv
<1>2. /\ UNCHANGED <<drift, mark, pc, doing>> /\ StripeShape'
      /\ (row' = row \/ ActivateTrial)
  BY UserQueue
<1>3. row'.at = row.at /\ row'.of = row.of /\ row'.ver = row.ver /\ (row.exists => row'.exists)
  BY <1>2 DEF ActivateTrial, ShapeInv, RowShape
<1>4. now' \in Nat /\ now' >= now /\ \A s \in Subs : stripe'[s].at \in Nat
  BY <1>1, <1>2, NumbersAssumption DEF StripeShape, UserEffect
<1>5. SUFFICES ASSUME "row" \notin drift'
               PROVE  RowInTime' /\ \A s \in Subs :
                                       stripe'[s].ver > 0 => Told(s)' \/ UpToDate(s)'
  BY DEF DueInv
<1>6. /\ RowInTime /\ \A s \in Subs : stripe[s].ver > 0 => Told(s) \/ UpToDate(s)
  BY <1>2, <1>5 DEF DueInv
<1>7. RowInTime'
  <2>1. row'.at <= now'
    BY <1>0, <1>3, <1>4, <1>6 DEF RowInTime
  <2>2. ~row'.exists => row'.at = -1 /\ row'.of = None
    BY <1>3, <1>6 DEF RowInTime
  <2>3. ASSUME row.of # None
        PROVE  row'.ver = stripe'[row.of].ver \/ row'.at <= stripe'[row.of].at
    <3>1. CASE stripe'[row.of] = stripe[row.of]
      BY <1>3, <1>6, <2>3, <3>1 DEF RowInTime
    <3>2. CASE stripe'[row.of].at = now'
      BY <1>3, <2>1, <3>2
    <3> QED  BY <1>0, <1>1, <2>3, <3>1, <3>2 DEF UserEffect
  <2> QED  BY <1>3, <2>1, <2>2, <2>3 DEF RowInTime
<1>8. ASSUME NEW s \in Subs, stripe'[s].ver > 0  PROVE Told(s)' \/ UpToDate(s)'
  <2>1. CASE stripe'[s] = stripe[s]
    <3>1. CASE Told(s)
      <4>1. PICK e \in Events : Pending(e) /\ News(e, s)
        BY <3>1 DEF Told
      <4>2. ~Settles(e)
        BY DEF UserStep, ActivateTrial, OpenSession, Pay, Invoice, Confirm, Change, Deliver,
               Enqueue, Settles, Write, Validate, Step, Goto, workVars, ShapeInv, WorkShape
      <4>3. Pending(e)' /\ info'[e] = info[e]
        <5>1. job'[e] = job[e] /\ info'[e] = info[e]
          BY <1>1, <4>1 DEF UserEffect, Pending
        <5> QED  BY <1>2, <4>1, <5>1 DEF Pending
      <4>4. News(e, s)'
        BY <2>1, <4>1, <4>3 DEF News
      <4> QED  BY <4>3, <4>4 DEF Told
    <3>2. CASE UpToDate(s)
      BY <1>3, <2>1, <3>2 DEF UpToDate
    <3> QED  BY <1>6, <1>8, <2>1, <3>1, <3>2
  <2>2. ASSUME NEW e \in Events, job[e] = "none", job'[e] = "waiting", News(e, s)'
        PROVE  Told(s)'
    <3>1. mark'[e] = "none"
      BY <1>2, <2>2 DEF KnownInv
    <3>2. ~\E w \in Workers : pc'[w] = "complete" /\ doing'[w] = e
      BY <1>2, <2>2 DEF JobInv, Busy
    <3> QED  BY <2>2, <3>1, <3>2 DEF Told, Pending
  <2> QED  BY <1>1, <2>1, <2>2 DEF UserEffect
<1> QED  BY <1>7, <1>8

(* A write that does not set the row back leaves it with what its event told  *)
(* or with something later.                                                   *)
LEMMA WriteDue ==
    ASSUME ShapeInv, JobInv, KnownInv, DueInv, [Next]_vars, NEW w \in Workers, Write(w)
    PROVE  DueInv'
<1> DEFINE s == Sub(w)
           d == doing[w]
           v == saw[w].ver
<1>0. /\ \A t \in Subs : stripe[t].ver \in Nat /\ stripe[t].at \in Nat
      /\ row.at \in Int /\ row.ver \in Nat /\ row.of \in Subs \cup {None} /\ now \in Nat
      /\ kept[w].at \in Int
  BY NumbersAssumption DEF ShapeInv, StripeShape, RowShape, WorkShape
<1>1. /\ pc[w] = "write" /\ Busy(w) /\ d \in Events /\ s \in Subs /\ s # None
      /\ At(w) \in Nat /\ v \in Nat
      /\ row' = IF Fresh(w) THEN NewRow(w) ELSE row
      /\ drift' = drift \cup {x \in {"row", "binding"} :
                     IF x = "row" THEN SetsRowBack(w) ELSE SetsBindingBack(w)}
      /\ UNCHANGED <<now, stripe, info, doing>>
  BY WriteStep
<1>2. /\ KnowsOf(s, saw[w]) /\ v >= info[d].ver /\ job[d] # "none"
      /\ info[d].sub = s /\ info[d].at = At(w) /\ info[d].kind = Kind(w)
  BY <1>1 DEF KnownInv, WorkerKnows, JobInv, Sub, At, Kind
<1>3. v <= stripe[s].ver /\ At(w) <= stripe[s].at /\ stripe[s].at <= now
  BY <1>1, <1>2 DEF KnownInv, EventKnows, KnowsOf, SessionsInv
<1>4. SUFFICES ASSUME "row" \notin drift'
               PROVE  RowInTime' /\ \A t \in Subs :
                                       stripe[t].ver > 0 => Told(t)' \/ UpToDate(t)'
  BY <1>1 DEF DueInv
<1>5. ~SetsRowBack(w) /\ "row" \notin drift
  BY <1>1, <1>4
<1>6. RowInTime /\ \A t \in Subs : stripe[t].ver > 0 => Told(t) \/ UpToDate(t)
  BY <1>5 DEF DueInv
<1>7. ASSUME NEW t \in Subs, NEW e \in Events, e # d, Pending(e), News(e, t)
      PROVE  Told(t)'
  <2>1. ~Settles(e)
    <3>1. \A u \in Workers : u # w => ~Write(u) /\ ~Validate(u)
      BY DEF Write, Validate, Step, Goto, ShapeInv, WorkShape
    <3>2. ~Validate(w)
      BY <1>1 DEF Validate
    <3> QED  BY <1>7, <3>1, <3>2 DEF Settles
  <2>2. Pending(e)' /\ info'[e] = info[e]
    BY <1>7, <2>1, PendingStays
  <2> QED  BY <1>1, <1>7, <2>2 DEF Told, News
<1>8. CASE Fresh(w) /\ Kind(w) = "invoice_paid"
  <2>1. row' = NewRow(w) /\ row'.exists /\ row'.of = s /\ row'.ver = v /\ row'.at = kept[w].at
    BY <1>1, <1>8 DEF NewRow
  <2>2. /\ kept[w].at = row.at
        /\ ~(v < IF row.of = s THEN row.ver ELSE stripe[s].ver)
    BY <1>5, <1>8 DEF SetsRowBack, Overtaken
  <2>3. row.of = s => v >= row.ver
    BY <1>0, <1>1, <2>2
  <2>4. row.of # s => v = stripe[s].ver
    BY <1>0, <1>1, <1>3, <2>2
  <2>5. RowInTime'
    <3>1. row'.at <= now'
      BY <1>1, <1>6, <2>1, <2>2 DEF RowInTime
    <3>2. row.of = s => v = stripe[s].ver \/ row.at <= stripe[s].at
      BY <1>0, <1>1, <1>3, <1>6, <2>3 DEF RowInTime
    <3>3. v = stripe[s].ver \/ row.at <= stripe[s].at
      BY <2>4, <3>2
    <3> QED  BY <1>1, <2>1, <2>2, <3>1, <3>3 DEF RowInTime
  <2>6. ASSUME NEW t \in Subs, stripe[t].ver > 0  PROVE Told(t)' \/ UpToDate(t)'
    <3>1. CASE Told(t)
      <4>1. PICK e \in Events : Pending(e) /\ News(e, t)
        BY <3>1 DEF Told
      <4>2. e # d
        BY <1>2, <1>8, <4>1 DEF News
      <4> QED  BY <1>7, <4>1, <4>2
    <3>2. CASE UpToDate(t)
      <4>1. row'.at >= stripe'[t].at
        BY <1>1, <2>1, <2>2, <3>2 DEF UpToDate
      <4>2. ASSUME t = s  PROVE v = stripe[s].ver
        <5>1. row.of = s => row.ver = stripe[s].ver
          BY <3>2, <4>2 DEF UpToDate
        <5> QED  BY <1>0, <1>1, <1>3, <2>3, <2>4, <5>1
      <4>3. row'.of = t => row'.ver = stripe'[t].ver
        BY <1>1, <2>1, <4>2
      <4> QED  BY <4>1, <4>3 DEF UpToDate
    <3> QED  BY <1>6, <2>6, <3>1, <3>2
  <2> QED  BY <2>5, <2>6
<1>9. CASE Fresh(w) /\ Kind(w) # "invoice_paid"
  <2>1. row' = NewRow(w) /\ row'.exists /\ row'.of = s /\ row'.ver = v /\ row'.at = At(w)
    BY <1>1, <1>9 DEF NewRow
  <2>2. row.at <= At(w)
    BY <1>0, <1>1, <1>6, <1>9 DEF Fresh, RowInTime
  <2>3. row.at = At(w) => row.of = s /\ v >= row.ver
    BY <1>0, <1>1, <1>5, <1>9 DEF SetsRowBack, Tie
  <2>4. RowInTime'
    BY <1>0, <1>1, <1>3, <2>1 DEF RowInTime
  <2>5. ASSUME NEW t \in Subs, stripe[t].ver > 0  PROVE Told(t)' \/ UpToDate(t)'
    <3>1. CASE Told(t)
      <4>1. PICK e \in Events : Pending(e) /\ News(e, t)
        BY <3>1 DEF Told
      <4>2. CASE e # d
        BY <1>7, <4>1, <4>2
      <4>3. CASE e = d
        <5>1. t = s /\ info[d].ver = stripe[s].ver /\ At(w) = stripe[s].at
          BY <1>2, <4>1, <4>3 DEF News
        <5>2. v = stripe[s].ver
          BY <1>0, <1>1, <1>2, <1>3, <5>1
        <5> QED  BY <1>0, <1>1, <2>1, <5>1, <5>2 DEF UpToDate
      <4> QED  BY <4>2, <4>3
    <3>2. CASE UpToDate(t) /\ t # s
      BY <1>0, <1>1, <2>1, <2>2, <3>2 DEF UpToDate
    <3>3. CASE UpToDate(t) /\ t = s
      <4>1. row.at >= stripe[s].at /\ (row.of = s => row.ver = stripe[s].ver)
        BY <3>3 DEF UpToDate
      <4>2. row.at = At(w) /\ At(w) = stripe[s].at
        BY <1>0, <1>1, <1>3, <2>2, <4>1
      <4>3. v = stripe[s].ver
        BY <1>0, <1>1, <1>3, <2>3, <4>1, <4>2
      <4> QED  BY <1>0, <1>1, <2>1, <3>3, <4>2, <4>3 DEF UpToDate
    <3> QED  BY <1>6, <2>5, <3>1, <3>2, <3>3
  <2> QED  BY <2>4, <2>5
<1>10. CASE ~Fresh(w)
  <2>1. row' = row /\ row.of = s /\ row.at > At(w)
    BY <1>0, <1>1, <1>5, <1>10 DEF Fresh, SetsRowBack, Crossed
  <2>2. RowInTime'
    BY <1>1, <1>6, <2>1 DEF RowInTime
  <2>3. ASSUME NEW t \in Subs, stripe[t].ver > 0  PROVE Told(t)' \/ UpToDate(t)'
    <3>1. CASE Told(t)
      <4>1. PICK e \in Events : Pending(e) /\ News(e, t)
        BY <3>1 DEF Told
      <4>2. CASE e # d
        BY <1>7, <4>1, <4>2
      <4>3. CASE e = d
        <5>1. t = s /\ At(w) = stripe[s].at
          BY <1>2, <4>1, <4>3 DEF News
        <5>2. row.ver = stripe[s].ver
          BY <1>0, <1>1, <1>6, <2>1, <5>1 DEF RowInTime
        <5> QED  BY <1>0, <1>1, <2>1, <5>1, <5>2 DEF UpToDate
      <4> QED  BY <4>2, <4>3
    <3>2. CASE UpToDate(t)
      BY <1>1, <2>1, <3>2 DEF UpToDate
    <3> QED  BY <1>6, <2>3, <3>1, <3>2
  <2> QED  BY <2>2, <2>3
<1> QED  BY <1>8, <1>9, <1>10

LEMMA NextDue ==
    ASSUME ShapeInv, JobInv, KnownInv, DueInv, [Next]_vars
    PROVE  DueInv'
<1>1. CASE UserStep
  BY <1>1, UserDue
<1>2. CASE \E w \in Workers : Write(w)
  BY <1>2, WriteDue
<1>3. CASE ~UserStep /\ ~\E w \in Workers : Write(w)
  <2>1. UNCHANGED <<now, stripe, row>> /\ drift \subseteq drift'
    <3>1. ~ActivateTrial
      BY <1>3 DEF UserStep
    <3> QED  BY <1>3, <3>1, RowSteps, WorkLeavesStripe
  <2>2. ASSUME NEW w \in Workers, Validate(w), ~Owned(w)  PROVE "row" \in drift'
    BY <2>2 DEF Validate
  <2>3. ASSUME "row" \notin drift', NEW s \in Subs, Told(s)  PROVE Told(s)'
    <3>1. PICK e \in Events : Pending(e) /\ News(e, s)
      BY <2>3 DEF Told
    <3>2. ~Settles(e)
      BY <1>3, <2>2, <2>3 DEF Settles
    <3>3. Pending(e)' /\ info'[e] = info[e]
      BY <3>1, <3>2, PendingStays
    <3> QED  BY <2>1, <3>1, <3>3 DEF Told, News
  <2> QED  BY <2>1, <2>3 DEF DueInv, RowInTime, UpToDate
<1> QED  BY <1>1, <1>2, <1>3

LEMMA DueAlways == Spec => []DueInv
<1>1. Init => DueInv
  BY DEF Init, NoRow, DueInv, RowInTime
<1>2. ShapeInv /\ JobInv /\ KnownInv /\ DueInv /\ [Next]_vars => DueInv'
  BY NextDue
<1> QED  BY <1>1, <1>2, ShapeAlways, KnownAlways, PTL DEF Spec

LEMMA NonePending ==
    ASSUME ShapeInv, JobInv, Settled, NEW e \in Events
    PROVE  ~Pending(e)
<1>1. e \in Nat /\ e >= 1 /\ sent \in Nat
  BY NumbersAssumption DEF Events, ShapeInv, QueueShape
<1>2. job[e] # "none" => e \in 1 .. sent
  BY <1>1 DEF JobInv
<1> QED  BY <1>2 DEF Settled, Pending

(* When all events are applied, in whatever order and however often they were *)
(* tried, the row has the status Stripe has, unless one of the ways counted   *)
(* in "drift" set it back: there is no other way.                             *)
THEOREM RowFollowsStripe == Spec => []RowIsCurrent
<1>1. ASSUME ShapeInv, JobInv, KnownInv, DueInv  PROVE RowIsCurrent
  <2>1. SUFFICES ASSUME Settled, "row" \notin drift, row.of # None
                 PROVE  row.status = stripe[row.of].status
    BY DEF RowIsCurrent
  <2>2. /\ row.of \in Subs /\ row.ver \in Nat /\ stripe[row.of].ver \in Nat
        /\ row.ver <= stripe[row.of].ver
        /\ row.ver = stripe[row.of].ver => row.status = stripe[row.of].status
    BY <1>1, <2>1 DEF KnownInv, KnowsOf, ShapeInv, StripeShape, RowShape
  <2>3. CASE stripe[row.of].ver = 0
    BY <2>2, <2>3
  <2>4. CASE stripe[row.of].ver > 0
    <3>1. ~Told(row.of)
      BY <1>1, <2>1, NonePending DEF Told
    <3> QED  BY <1>1, <2>1, <2>2, <2>4, <3>1 DEF DueInv, UpToDate
  <2> QED  BY <2>2, <2>3, <2>4
<1> QED  BY <1>1, ShapeAlways, KnownAlways, DueAlways, PTL
-----------------------------------------------------------------------------
(* The binding: what a worker is going to give the row is what it bound.      *)
Binds(e) == IF info[e].kind = "deleted" THEN None ELSE info[e].sub

BoundInv == \A w \in Workers : pc[w] = "write" => kept[w].bound = Binds(doing[w])

LEMMA NextBound == ASSUME ShapeInv, JobInv, BoundInv, [Next]_vars  PROVE BoundInv'
<1>0. \A w \in Workers : doing[w] \in Events /\ (Busy(w) => job[doing[w]] # "none")
  BY DEF ShapeInv, WorkShape, JobInv
<1>1. ASSUME UserStep  PROVE BoundInv'
  <2>1. /\ UNCHANGED <<pc, doing, kept>>
        /\ \A e \in Events : job[e] # "none" => info'[e] = info[e]
    BY <1>1, UserEvents
  <2> QED  BY <1>0, <2>1 DEF BoundInv, Binds, Busy
<1>2. ASSUME NEW w \in Workers, GoesOn(w)  PROVE BoundInv'
  <2>1. /\ UNCHANGED <<info, doing>>
        /\ \A v \in Workers : v # w => pc'[v] = pc[v] /\ kept'[v] = kept[v]
    BY <1>2, GoesOnShape
  <2>2. pc'[w] = "write" => kept'[w].bound = Binds(doing[w])
    <3>1. CASE Bind(w)
      <4>1. /\ binding' = IF Kind(w) = "deleted" THEN None ELSE Sub(w)
            /\ kept' = [kept EXCEPT ![w].paid = row.paid, ![w].at = row.at,
                                    ![w].bound = binding']
        BY <3>1 DEF Bind
      <4>2. kept'[w].bound = binding'
        BY <4>1 DEF ShapeInv, WorkShape
      <4> QED  BY <4>1, <4>2 DEF Binds, Kind, Sub
    <3>2. CASE Retrieve(w) \/ Validate(w) \/ Write(w) \/ Throw(w)
      BY <3>2 DEF Retrieve, Validate, Write, Throw, Step, Goto, ShapeInv, WorkShape
    <3> QED  BY <1>2, <3>1, <3>2 DEF GoesOn
  <2> QED  BY <2>1, <2>2 DEF BoundInv, Binds
<1>3. ASSUME NEW w \in Workers, Leaves(w)  PROVE BoundInv'
  <2>1. /\ ~Busy(w)' /\ info' = info
        /\ \A v \in Workers : v # w => /\ pc'[v] = pc[v] /\ doing'[v] = doing[v]
                                       /\ kept'[v] = kept[v]
    BY <1>3, LeavesShape
  <2> QED  BY <2>1 DEF BoundInv, Busy, Binds
<1>4. ASSUME NEW w \in Workers, NEW e \in Events, ClaimGranted(w, e)  PROVE BoundInv'
  <2>1. /\ pc'[w] \in {"retrieve", "validate"} /\ UNCHANGED <<info, kept>>
        /\ \A v \in Workers : v # w => pc'[v] = pc[v] /\ doing'[v] = doing[v]
    BY <1>4, GrantShape
  <2> QED  BY <2>1 DEF BoundInv, Binds
<1>5. ASSUME \/ \E w \in Workers, e \in Events : ClaimRefused(w, e) \/ ClaimThrows(w, e)
             \/ \E e \in Events : ClaimAges(e)
             \/ UNCHANGED vars
      PROVE  BoundInv'
  <2>1. UNCHANGED <<info, pc, doing, kept>>
    BY <1>5 DEF ClaimRefused, ClaimThrows, ClaimAges, vars, queueVars, workVars
  <2> QED  BY <2>1 DEF BoundInv, Binds
<1>6. CASE Crash
  BY <1>6 DEF Crash, BoundInv
<1> QED  BY <1>1, <1>2, <1>3, <1>4, <1>5, <1>6, NextSteps

(* The binding is the row's, or that of an event whose write is to come.      *)
BindingDue ==
    drift = {} => binding = row.sub \/ \E e \in Events : Pending(e) /\ Binds(e) = binding

LEMMA BindingSteps ==
    ASSUME ShapeInv, JobInv, [Next]_vars
    PROVE  binding' = binding \/ \E w \in Workers : Bind(w)
<1> USE DEF rowVars
<1>1. ASSUME UserStep  PROVE binding' = binding
  BY <1>1, UserQueue
<1>2. ASSUME NEW w \in Workers, GoesOn(w)  PROVE binding' = binding \/ Bind(w)
  BY <1>2 DEF GoesOn, Retrieve, Validate, Write, Throw
<1>3. ASSUME NEW w \in Workers, Leaves(w)  PROVE binding' = binding
  BY <1>3 DEF Leaves, Complete, MarkFailed, MarkFailedThrows, Rest
<1>4. ASSUME NEW w \in Workers, NEW e \in Events,
             ClaimGranted(w, e) \/ ClaimRefused(w, e) \/ ClaimThrows(w, e)
      PROVE  binding' = binding
  BY <1>4 DEF ClaimGranted, Grant, ClaimRefused, ClaimThrows
<1>5. ASSUME (\E e \in Events : ClaimAges(e)) \/ Crash \/ UNCHANGED vars
      PROVE  binding' = binding
  BY <1>5 DEF ClaimAges, Crash, vars
<1> QED  BY <1>1, <1>2, <1>3, <1>4, <1>5, NextSteps

LEMMA NextBinding ==
    ASSUME "slow" \notin Faults, ShapeInv, JobInv, ClaimInv, BoundInv, BindingDue, [Next]_vars
    PROVE  BindingDue'
<1>1. SUFFICES ASSUME drift' = {}
               PROVE  \/ binding' = row'.sub
                      \/ \E e \in Events : Pending(e)' /\ Binds(e)' = binding'
  BY DEF BindingDue
<1>2. drift = {} /\ (binding = row.sub \/ \E e \in Events : Pending(e) /\ Binds(e) = binding)
  BY <1>1, RowSteps DEF BindingDue
<1>3. ASSUME NEW w \in Workers, Bind(w)
      PROVE  \E e \in Events : Pending(e)' /\ Binds(e)' = binding'
  <2>1. /\ pc[w] = "bind" /\ Busy(w) /\ doing[w] \in Events
        /\ binding' = IF Kind(w) = "deleted" THEN None ELSE Sub(w)
    BY <1>3 DEF Bind, Step, Busy, ShapeInv, WorkShape
  <2>2. /\ UNCHANGED <<info, job, mark, doing>> /\ pc'[w] = "write"
        /\ \A v \in Workers : v # w => pc'[v] = pc[v]
    BY <1>3 DEF Bind, Step, Goto, queueVars, ShapeInv, WorkShape
  <2>3. /\ mark[doing[w]] = "processing" /\ job[doing[w]] # "none"
        /\ \A v \in Workers : Busy(v) /\ doing[v] = doing[w] => v = w
    BY <2>1 DEF ClaimInv, OneClaim, JobInv
  <2>4. PICK e \in Events : e = doing[w]
    BY <2>1
  <2>5. Pending(e)'
    BY <2>2, <2>3, <2>4 DEF Pending, Busy
  <2> QED  BY <2>1, <2>2, <2>4, <2>5 DEF Binds, Kind, Sub
<1>4. ASSUME NEW w \in Workers, Write(w)  PROVE binding' = row'.sub
  <2>1. /\ pc[w] = "write" /\ row' = IF Fresh(w) THEN NewRow(w) ELSE row
        /\ ~SetsBindingBack(w) /\ binding' = binding
    BY <1>1, <1>4, WriteStep
  <2>2. row' = NewRow(w) /\ binding = kept[w].bound /\ kept[w].bound = Binds(doing[w])
    BY <2>1 DEF SetsBindingBack, BoundInv
  <2> QED  BY <2>1, <2>2, NewRowShape DEF Binds, Kind, Sub
<1>5. CASE ~\E w \in Workers : Bind(w) \/ Write(w)
  <2>1. binding' = binding /\ row'.sub = row.sub
    <3>1. ActivateTrial => row'.sub = row.sub
      BY DEF ActivateTrial, ShapeInv, RowShape
    <3> QED  BY <1>5, <3>1, BindingSteps, RowSteps
  <2>2. ASSUME NEW e \in Events, Pending(e), Binds(e) = binding
        PROVE  Pending(e)' /\ Binds(e)' = binding'
    <3>1. ASSUME NEW w \in Workers, Validate(w), ~Owned(w)  PROVE FALSE
      BY <1>1, <3>1 DEF Validate
    <3>2. Pending(e)' /\ info'[e] = info[e]
      BY <1>5, <2>2, <3>1, PendingStays DEF Settles
    <3> QED  BY <2>1, <2>2, <3>2 DEF Binds
  <2> QED  BY <1>2, <2>1, <2>2
<1> QED  BY <1>3, <1>4, <1>5

(* ... and the binding is that of the row, while no handler takes the five    *)
(* minutes after which its event is given to another: such a one may bind,    *)
(* and die, after the other has written the row.                              *)
THEOREM BindingIsOfRow == ASSUME "slow" \notin Faults  PROVE Spec => []BindingFollowsRow
<1>1. Init => BoundInv /\ BindingDue
  BY DEF Init, NoRow, BoundInv, BindingDue
<1>2. ShapeInv /\ JobInv /\ BoundInv /\ [Next]_vars => BoundInv'
  BY NextBound
<1>3. ShapeInv /\ JobInv /\ ClaimInv /\ BoundInv /\ BindingDue /\ [Next]_vars => BindingDue'
  BY NextBinding
<1>4. ShapeInv /\ JobInv /\ BindingDue => BindingFollowsRow
  BY NonePending DEF BindingDue, BindingFollowsRow
<1> QED  BY <1>1, <1>2, <1>3, <1>4, ShapeAlways, ClaimsAlways, PTL DEF Spec
=============================================================================
