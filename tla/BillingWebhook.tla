---------------------------- MODULE BillingWebhook ----------------------------
(* What Stripe tells the API about the subscriptions of one tenant: events    *)
(* are queued, claimed in stripe_webhook_events and applied to the tenant's   *)
(* row in org_subscriptions by several workers at once; a checkout is also    *)
(* applied by the user's own request when the browser comes back.             *)
(*                                                                            *)
(* Stripe's events, the jobs and the workers are cut at the awaits of         *)
(* process and its handlers.  A subscription has a customer of its own.       *)
EXTENDS Integers, FiniteSets

CONSTANTS
    Subs,       \* subscriptions the tenant may have over time
    None,       \* no subscription
    Workers,    \* events handled at the same time: 10, and the user's requests
    MaxEvents,  \* bound: events sent
    MaxTime,    \* bound: seconds that pass
    MaxVersion, \* bound: states of a subscription
    Attempts,   \* attempts of a job: 8; bound on the user's requests
    MaxFailures, \* bound: failures
    Faults      \* the kinds of failure that may happen

Events == 1 .. MaxEvents

ASSUME SetsAssumption == IsFiniteSet(Subs) /\ None \notin Subs /\ IsFiniteSet(Workers)
ASSUME NumbersAssumption == /\ MaxEvents \in Nat \ {0} /\ MaxTime \in Nat /\ MaxVersion \in Nat
                            /\ Attempts \in Nat \ {0} /\ MaxFailures \in Nat
ASSUME FaultsAssumption == Faults \subseteq {"throw", "crash", "slow"}

VARIABLES
    now,        \* time, in the seconds of event.created
    stripe,     \* Stripe: the status, version and time of change of each subscription
    session,    \* Stripe: the checkout session that leads to each subscription
    stored,     \* stripe_checkout_sessions: the tenant's session and its status
    sent,       \* number of events sent
    info,       \* what each event says
    job,        \* the job of each event
    tries,      \* its failed attempts
    mark,       \* stripe_webhook_events: the claim on each event
    row,        \* org_subscriptions
    binding,    \* stripe_billing_bindings: the subscription
    pc,         \* how far each worker is
    doing,      \* the event it handles
    saw,        \* the status and version it is going to write
    kept,       \* what it read of the row: the subscription when it validated,
                \* the other columns just before it writes
    failures,   \* number of failures so far
    orphaned,   \* history: events whose claim outlived its worker
    trials,     \* history: trials given
    drift       \* history: what was set back, in one of the named ways

stripeVars == <<now, stripe, session>>
queueVars  == <<sent, info, job, tries, mark>>
rowVars    == <<row, binding, trials, drift>>
workVars   == <<pc, doing, saw, kept>>
vars == <<stripeVars, stored, queueVars, rowVars, workVars, failures, orphaned>>

(* Events that make the handler ask Stripe for the subscription, and events  *)
(* that may give the tenant another subscription than its row has.           *)
Retrieving == {"checkout", "reconcile", "invoice_paid", "payment_failed"}
Rebinding  == {"checkout", "reconcile", "created"}
Kinds      == Retrieving \cup Rebinding \cup {"updated", "deleted"}

Live == {"active", "past_due"}

(* The row before the first write; "of" and "ver" say which version of which *)
(* subscription it reflects and are no columns.                              *)
NoRow == [exists |-> FALSE, tier |-> "free", sub |-> None, status |-> "none",
          paid |-> FALSE, trial |-> "none", at |-> -1, of |-> None, ver |-> 0]
NotRead == [sub |-> None, paid |-> FALSE, at |-> -1, bound |-> None]

Init ==
    /\ now = 0
    /\ stripe = [s \in Subs |-> [status |-> "none", ver |-> 0, at |-> 0]]
    /\ session = [s \in Subs |-> [status |-> "none", at |-> 0]]
    /\ stored = [sub |-> None, status |-> "none"]
    /\ sent = 0
    /\ info = [e \in Events |-> [kind |-> "none", sub |-> None, at |-> 0,
                                 status |-> "none", ver |-> 0]]
    /\ job = [e \in Events |-> "none"]
    /\ tries = [e \in Events |-> 0]
    /\ mark = [e \in Events |-> "none"]
    /\ row = NoRow /\ binding = None
    /\ pc = [w \in Workers |-> "idle"]
    /\ doing = [w \in Workers |-> 1]
    /\ saw = [w \in Workers |-> [status |-> "none", ver |-> 0]]
    /\ kept = [w \in Workers |-> NotRead]
    /\ failures = 0 /\ orphaned = {} /\ trials = 0 /\ drift = {}

Kind(w) == info[doing[w]].kind
Sub(w)  == info[doing[w]].sub
At(w)   == info[doing[w]].at

Goto(w, p) == pc' = [pc EXCEPT ![w] = p]
-----------------------------------------------------------------------------
(* The user and Stripe *)

(* createCheckoutSession: not for a tenant whose row says it has paid (a     *)
(* row that is past due may have run out), and not before a stored session   *)
(* that has been paid was applied.                                           *)
OpenSession(s) ==
    /\ session[s].status = "none"
    /\ ~(row.sub # None /\ row.status = "active" /\ row.paid)
    /\ ~(stored.status = "open" /\ session[stored.sub].status = "paid")
    /\ session' = [session EXCEPT ![s] = [status |-> "open", at |-> now]]
    /\ stored' = [sub |-> s, status |-> "open"]
    /\ UNCHANGED <<now, stripe, queueVars, rowVars, workVars, failures, orphaned>>

(* handleWebhook adds a job for an event, under the event's id.  The job may *)
(* wait for any time.                                                        *)
Enqueue(kind, s, at, status, ver, state) ==
    /\ sent < MaxEvents
    /\ sent' = sent + 1
    /\ info' = [info EXCEPT ![sent'] = [kind |-> kind, sub |-> s, at |-> at,
                                        status |-> status, ver |-> ver]]
    /\ job' = [job EXCEPT ![sent'] = state]
    /\ UNCHANGED <<tries, mark, rowVars, workVars, failures, orphaned>>

Deliver(kind, s) ==
    Enqueue(kind, s, stripe'[s].at, stripe'[s].status, stripe'[s].ver, "waiting")

(* A subscription changes, in the same second as the last change or later,   *)
(* and an event says so.                                                     *)
Becomes(s, status) ==
    /\ now' \in {now, now + 1} \cap 0 .. MaxTime
    /\ stripe' = [stripe EXCEPT ![s] = [status |-> status, ver |-> @.ver + 1, at |-> now']]
    /\ UNCHANGED stored

Pay(s) ==
    /\ session[s].status = "open"
    /\ session' = [session EXCEPT ![s].status = "paid"]
    /\ Becomes(s, "active")
    /\ \E kind \in {"checkout", "created"} : Deliver(kind, s)

Change(s, status) ==
    /\ stripe[s].status \in Live \ {status}
    /\ stripe[s].ver < MaxVersion
    /\ Becomes(s, status)
    /\ Deliver(IF status = "canceled" THEN "deleted" ELSE "updated", s)
    /\ UNCHANGED session

(* The invoice of the state the subscription is in. *)
Invoice(s) ==
    LET kind == IF stripe[s].status = "active" THEN "invoice_paid" ELSE "payment_failed"
    IN /\ stripe[s].status \in Live
       /\ \A e \in 1 .. sent : ~(info[e].kind = kind /\ info[e].sub = s
                                  /\ info[e].ver = stripe[s].ver)
       /\ UNCHANGED <<stripeVars, stored>>
       /\ Deliver(kind, s)

(* confirmCheckoutSession, and createCheckoutSession of a session that was   *)
(* paid: the session is applied as an event of its own, with the time the    *)
(* session was opened, and its row is closed.                                *)
Confirm(s) ==
    /\ session[s].status = "paid"
    /\ \A e \in 1 .. sent : ~(info[e].kind = "reconcile" /\ info[e].sub = s)
    /\ Enqueue("reconcile", s, session[s].at, "none", 0, "asked")
    /\ stored' = [stored EXCEPT !.status = IF stored.sub = s THEN "completed" ELSE @]
    /\ UNCHANGED stripeVars
-----------------------------------------------------------------------------
(* process: the claim *)

(* A worker takes a waiting job, or a request of the user, of which there    *)
(* may be several at a time, asks for its session; process claims the event. *)
Grant(w, e) ==
    /\ pc[w] = "idle"
    /\ \/ job[e] = "waiting" /\ job' = [job EXCEPT ![e] = "active"] /\ UNCHANGED tries
       \/ /\ job[e] = "asked" /\ tries[e] < Attempts
          /\ tries' = [tries EXCEPT ![e] = @ + 1] /\ UNCHANGED job
    /\ mark' = [mark EXCEPT ![e] = "processing"]
    /\ doing' = [doing EXCEPT ![w] = e]
    /\ saw' = [saw EXCEPT ![w] = [status |-> info[e].status, ver |-> info[e].ver]]
    /\ pc' = [pc EXCEPT ![w] = IF info[e].kind \in Retrieving THEN "retrieve" ELSE "validate"]
    /\ UNCHANGED <<stripeVars, stored, sent, info, rowVars, kept, failures, orphaned>>

Mutant_ClaimsAnyway(w, e) == mark[e] # "completed" /\ Grant(w, e)

(* markProcessing: granted if the event is new, failed, or was claimed more  *)
(* than five minutes ago.                                                    *)
ClaimGranted(w, e) == mark[e] \in {"none", "failed", "stale"} /\ Grant(w, e)

Mutant_RefusedWaits(w, e) ==
    /\ pc[w] = "idle"
    /\ job[e] = "waiting"
    /\ mark[e] = "completed"
    /\ job' = [job EXCEPT ![e] = "done"]
    /\ UNCHANGED <<stripeVars, stored, sent, info, tries, mark, rowVars, workVars,
                   failures, orphaned>>

(* Refused: the event counts as handled, and the job is done.  (A request    *)
(* that is refused changes nothing and says "fulfilled".)                    *)
ClaimRefused(w, e) ==
    /\ pc[w] = "idle"
    /\ job[e] = "waiting"
    /\ mark[e] \in {"processing", "completed"}
    /\ job' = [job EXCEPT ![e] = "done"]
    /\ UNCHANGED <<stripeVars, stored, sent, info, tries, mark, rowVars, workVars,
                   failures, orphaned>>

(* An attempt fails: the job is tried again, or given up. *)
FailAttempt(e) ==
    IF job[e] = "asked" THEN UNCHANGED <<job, tries>>
    ELSE /\ tries' = [tries EXCEPT ![e] = @ + 1]
         /\ job' = [job EXCEPT ![e] = IF tries'[e] < Attempts THEN "waiting" ELSE "failed"]

(* The worker is done with its event, well or not. *)
Rest(w) ==
    /\ pc' = [pc EXCEPT ![w] = "idle"]
    /\ doing' = [doing EXCEPT ![w] = 1]
    /\ saw' = [saw EXCEPT ![w] = [status |-> "none", ver |-> 0]]
    /\ kept' = [kept EXCEPT ![w] = NotRead]
    /\ UNCHANGED <<stripeVars, sent, info, rowVars>>
-----------------------------------------------------------------------------
(* The handlers *)

Step(w, from, to) == pc[w] = from /\ Goto(w, to)

Retrieve(w) ==
    /\ Step(w, "retrieve", "validate")
    /\ saw' = [saw EXCEPT ![w] = [status |-> stripe[Sub(w)].status, ver |-> stripe[Sub(w)].ver]]
    /\ UNCHANGED <<stripeVars, stored, queueVars, rowVars, doing, kept, failures, orphaned>>

Mutant_AlwaysOwned(w) == TRUE

(* validateBindingOwnership: only a checkout or a new subscription may take  *)
(* the place of the subscription the row has.                                *)
Owned(w) == Kind(w) \in Rebinding \/ row.sub \in {None, Sub(w)}

Validate(w) ==
    /\ pc[w] = "validate"
    /\ Goto(w, IF Owned(w) THEN "bind" ELSE "complete")
    /\ kept' = [kept EXCEPT ![w].sub = row.sub]
    /\ drift' = IF Owned(w) THEN drift ELSE drift \cup {"row"}
    /\ UNCHANGED <<stripeVars, stored, queueVars, row, binding, trials, doing, saw,
                   failures, orphaned>>

Mutant_BindingNotCleared(w) ==
    /\ Step(w, "bind", "write")
    /\ binding' = Sub(w)
    /\ kept' = [kept EXCEPT ![w].paid = row.paid, ![w].at = row.at, ![w].bound = binding']
    /\ UNCHANGED <<stripeVars, stored, queueVars, row, trials, drift, doing, saw,
                   failures, orphaned>>

(* persistBinding or, for a deleted subscription, clearSubscription; then    *)
(* upsertSubscriptionState reads the row, for the columns the event does not *)
(* tell ...                                                                  *)
Bind(w) ==
    /\ Step(w, "bind", "write")
    /\ binding' = IF Kind(w) = "deleted" THEN None ELSE Sub(w)
    /\ kept' = [kept EXCEPT ![w].paid = row.paid, ![w].at = row.at, ![w].bound = binding']
    /\ UNCHANGED <<stripeVars, stored, queueVars, row, trials, drift, doing, saw,
                   failures, orphaned>>

Mutant_TrialNotUsedUp(w) ==
    LET gone == Kind(w) = "deleted"
    IN [exists |-> TRUE,
        tier   |-> IF gone THEN "free" ELSE "pro",
        sub    |-> IF gone THEN None ELSE Sub(w),
        status |-> saw[w].status,
        paid   |-> Kind(w) \in {"checkout", "reconcile", "invoice_paid"} \/ kept[w].paid,
        trial  |-> "none",
        at     |-> IF Kind(w) = "invoice_paid" THEN kept[w].at ELSE At(w),
        of     |-> Sub(w),
        ver    |-> saw[w].ver]

Mutant_TierKept(w) ==
    LET gone == Kind(w) = "deleted"
    IN [exists |-> TRUE,
        tier   |-> "pro",
        sub    |-> IF gone THEN None ELSE Sub(w),
        status |-> saw[w].status,
        paid   |-> Kind(w) \in {"checkout", "reconcile", "invoice_paid"} \/ kept[w].paid,
        trial  |-> IF gone THEN "used" ELSE "none",
        at     |-> IF Kind(w) = "invoice_paid" THEN kept[w].at ELSE At(w),
        of     |-> Sub(w),
        ver    |-> saw[w].ver]

(* ... and makes the new one of the event, of what Stripe answered and of    *)
(* what it read.                                                             *)
NewRow(w) ==
    LET gone == Kind(w) = "deleted"
    IN [exists |-> TRUE,
        tier   |-> IF gone THEN "free" ELSE "pro",
        sub    |-> IF gone THEN None ELSE Sub(w),
        status |-> saw[w].status,
        paid   |-> Kind(w) \in {"checkout", "reconcile", "invoice_paid"} \/ kept[w].paid,
        trial  |-> IF gone THEN "used" ELSE "none",
        at     |-> IF Kind(w) = "invoice_paid" THEN kept[w].at ELSE At(w),
        of     |-> Sub(w),
        ver    |-> saw[w].ver]

Mutant_NoFreshnessGuard(w) == TRUE

(* The upsert's guard: an event that tells its time does not change a row    *)
(* whose time is later.  A paid invoice tells none.                          *)
Fresh(w) == ~row.exists \/ Kind(w) = "invoice_paid" \/ row.at <= At(w)

(* The ways in which a write may leave the row behind Stripe: it goes back   *)
(* within the same second, it has no time and is overtaken by another (or,   *)
(* if the row is another subscription's, by Stripe itself), it was validated *)
(* against a row that is no more, or it is refused because of another        *)
(* subscription's later event.                                               *)
Tie(w)       == Fresh(w) /\ row.at = At(w) /\ (row.of = Sub(w) => saw[w].ver < row.ver)
Overtaken(w) == \/ kept[w].sub # row.sub \/ kept[w].paid # row.paid \/ kept[w].at # row.at
                \/ saw[w].ver < IF row.of = Sub(w) THEN row.ver ELSE stripe[Sub(w)].ver
Raced(w)     == Kind(w) \notin Rebinding /\ kept[w].sub # row.sub
Crossed(w)   == ~Fresh(w) /\ row.of # Sub(w)

SetsRowBack(w) == \/ Raced(w) \/ Crossed(w)
                  \/ IF Kind(w) = "invoice_paid" THEN Overtaken(w) ELSE Tie(w)

(* The binding has no guard: it is written although the row is not, and      *)
(* another event's binding may come between.                                 *)
SetsBindingBack(w) == ~Fresh(w) \/ binding # kept[w].bound

Write(w) ==
    /\ Step(w, "write", "complete")
    /\ row' = IF Fresh(w) THEN NewRow(w) ELSE row
    /\ drift' = drift \cup {d \in {"row", "binding"} :
                    IF d = "row" THEN SetsRowBack(w) ELSE SetsBindingBack(w)}
    /\ UNCHANGED <<stripeVars, stored, queueVars, binding, trials, doing, saw, kept,
                   failures, orphaned>>

(* markCompleted, of the checkout session and of the event. *)
Complete(w) ==
    /\ pc[w] = "complete"
    /\ mark' = [mark EXCEPT ![doing[w]] = "completed"]
    /\ job' = [job EXCEPT ![doing[w]] = IF @ = "active" THEN "done" ELSE @]
    /\ stored' = [stored EXCEPT !.status =
                     IF Kind(w) \in {"checkout", "reconcile"} /\ stored.sub = Sub(w)
                     THEN "completed" ELSE @]
    /\ Rest(w)
    /\ UNCHANGED <<tries, failures, orphaned>>
-----------------------------------------------------------------------------
Mutant_TrialReplacesRow ==
    /\ row.trial = "none"
    /\ row' = [NoRow EXCEPT !.exists = TRUE, !.tier = "pro", !.trial = "running"]
    /\ trials' = trials + 1
    /\ UNCHANGED <<stripeVars, stored, queueVars, binding, drift, workVars, failures, orphaned>>

(* activateTrial, at every login of the tenant's users. *)
ActivateTrial ==
    /\ ~row.exists \/ (row.tier = "free" /\ row.trial = "none" /\ row.sub = None)
    /\ row' = [row EXCEPT !.exists = TRUE, !.tier = "pro", !.trial = "running"]
    /\ trials' = trials + 1
    /\ UNCHANGED <<stripeVars, stored, queueVars, binding, drift, workVars, failures, orphaned>>
-----------------------------------------------------------------------------
(* Failures *)

Handling == {"retrieve", "validate", "bind", "write", "complete"}

Fails == failures < MaxFailures /\ failures' = failures + 1

(* markProcessing throws: nothing is claimed. *)
ClaimThrows(w, e) ==
    /\ "throw" \in Faults
    /\ pc[w] = "idle"
    /\ job[e] = "waiting"
    /\ Fails
    /\ FailAttempt(e)
    /\ UNCHANGED <<stripeVars, stored, sent, info, mark, rowVars, workVars, orphaned>>

(* A call of the handler throws ... *)
Throw(w) ==
    /\ "throw" \in Faults
    /\ pc[w] \in Handling
    /\ Fails
    /\ Goto(w, "failing")
    /\ UNCHANGED <<stripeVars, stored, queueVars, rowVars, doing, saw, kept, orphaned>>

Mutant_ClaimKept(w) ==
    /\ pc[w] = "failing"
    /\ FailAttempt(doing[w])
    /\ Rest(w)
    /\ UNCHANGED <<mark, stored, failures, orphaned>>

(* ... and markFailed gives the claim back. *)
MarkFailed(w) ==
    /\ pc[w] = "failing"
    /\ mark' = [mark EXCEPT ![doing[w]] = "failed"]
    /\ FailAttempt(doing[w])
    /\ Rest(w)
    /\ UNCHANGED <<stored, failures, orphaned>>

MarkFailedThrows(w) ==
    /\ "throw" \in Faults
    /\ pc[w] = "failing"
    /\ orphaned' = orphaned \cup {doing[w]}
    /\ Fails
    /\ FailAttempt(doing[w])
    /\ Rest(w)
    /\ UNCHANGED <<mark, stored>>

(* The API dies: BullMQ finds its jobs stalled and lets them wait again. *)
Crash ==
    /\ "crash" \in Faults /\ Fails
    /\ job' = [e \in Events |-> IF job[e] = "active" THEN "waiting" ELSE job[e]]
    /\ orphaned' = orphaned \cup {doing[w] : w \in {v \in Workers : pc[v] # "idle"}}
    /\ pc' = [w \in Workers |-> "idle"]
    /\ doing' = [w \in Workers |-> 1]
    /\ saw' = [w \in Workers |-> [status |-> "none", ver |-> 0]]
    /\ kept' = [w \in Workers |-> NotRead]
    /\ UNCHANGED <<stripeVars, stored, sent, info, tries, mark, rowVars>>

Holder(w, e) == doing[w] = e /\ pc[w] \in Handling \cup {"failing"}

(* Five minutes pass since the claim; with the fault "slow" even while its   *)
(* worker is at it.                                                          *)
ClaimAges(e) ==
    /\ mark[e] = "processing"
    /\ "slow" \in Faults \/ \A w \in Workers : ~Holder(w, e)
    /\ mark' = [mark EXCEPT ![e] = "stale"]
    /\ UNCHANGED <<stripeVars, stored, sent, info, job, tries, rowVars, workVars, failures, orphaned>>
-----------------------------------------------------------------------------
WorkerStep(w) ==
    \/ Retrieve(w) \/ Validate(w) \/ Bind(w) \/ Write(w) \/ Complete(w)
    \/ MarkFailed(w)

Begin(w, e) == ClaimGranted(w, e) \/ ClaimRefused(w, e)

Fault ==
    \/ Crash
    \/ \E w \in Workers : \/ Throw(w) \/ MarkFailedThrows(w)
                          \/ \E e \in Events : ClaimThrows(w, e)

Next ==
    \/ ActivateTrial
    \/ \E s \in Subs : \/ OpenSession(s) \/ Pay(s) \/ Invoice(s) \/ Confirm(s)
                       \/ \E status \in Live \cup {"canceled"} : Change(s, status)
    \/ \E w \in Workers : WorkerStep(w) \/ \E e \in Events : Begin(w, e)
    \/ \E e \in Events : ClaimAges(e)
    \/ Fault

Spec == Init /\ [][Next]_vars

(* The API works on: its workers go on with their events and take the jobs   *)
(* that wait.                                                                *)
Fairness ==
    /\ \A w \in Workers : WF_vars(WorkerStep(w))
    /\ \A e \in Events : WF_vars(job[e] = "waiting" /\ \E w \in Workers : Begin(w, e))

FairSpec == Spec /\ Fairness
-----------------------------------------------------------------------------
(* Properties *)

Steps == {"idle", "failing"} \cup Handling

(* The values the tables and the handlers' variables may hold. *)
TypeOK ==
    /\ now \in 0 .. MaxTime
    /\ \A s \in Subs : /\ stripe[s].status \in Live \cup {"none", "canceled"}
                       /\ stripe[s].ver \in Nat /\ stripe[s].at \in 0 .. MaxTime
    /\ session \in [Subs -> [status : {"none", "open", "paid"}, at : 0 .. MaxTime]]
    /\ stored \in [sub : Subs \cup {None}, status : {"none", "open", "completed"}]
    /\ sent \in 0 .. MaxEvents
    /\ job \in [Events -> {"none", "waiting", "active", "asked", "done", "failed"}]
    /\ tries \in [Events -> 0 .. Attempts]
    /\ mark \in [Events -> {"none", "processing", "stale", "failed", "completed"}]
    /\ row.sub \in Subs \cup {None} /\ row.tier \in {"free", "pro"}
    /\ binding \in Subs \cup {None}
    /\ pc \in [Workers -> Steps] /\ doing \in [Workers -> Events]
    /\ failures \in 0 .. MaxFailures /\ orphaned \subseteq Events /\ trials \in Nat

(* A tenant has the paid tier only with a subscription or a running trial:   *)
(* no order of events, activation and refusals leaves it without a cause.    *)
PaidTierHasCause ==
    row.tier = "pro" => row.sub # None \/ row.trial = "running"

(* An event is handled by one worker at a time, however often it is          *)
(* delivered, asked for and retried, unless its handler takes longer than    *)
(* the five minutes after which markProcessing gives the claim away.         *)
ClaimedOnce ==
    "slow" \notin Faults =>
        \A v, w \in Workers : Holder(v, doing[w]) /\ Holder(w, doing[w]) => v = w

(* A job that is done was applied to the end: the claim that makes process   *)
(* return early never hides an event nobody finishes.  The code breaks this  *)
(* when the claim's worker dies, or fails and cannot say so: the retry finds *)
(* the claim and the job is done, its event lost ("orphaned").               *)
NoEventForgotten ==
    \A e \in Events : job[e] = "done" => mark[e] = "completed" \/ e \in orphaned

(* A tenant gets one trial, however its subscriptions come and go between    *)
(* the logins that call activateTrial.                                       *)
TrialOnce == trials <= 1

(* When all events are applied ... *)
Settled ==
    /\ \A w \in Workers : pc[w] = "idle"
    /\ \A e \in 1 .. sent : mark[e] = "completed"

(* ... in whatever order they came, the row has the status Stripe has for    *)
(* the subscription it reflects.  The guard on event.created does not reach  *)
(* the writes that "drift" counts: see SetsRowBack and Validate.             *)
RowIsCurrent ==
    Settled /\ "row" \notin drift
        => row.of = None \/ row.status = stripe[row.of].status

(* ... and the binding names the subscription of the row.                    *)
BindingFollowsRow == Settled /\ drift = {} => binding = row.sub

(* A subscription's row is taken over by another subscription only from an   *)
(* event that may do so, a late event of an old subscription never; the      *)
(* exception is a row that changed between its validation and its write.     *)
TakenOverOnlyByNew ==
    [][row.sub \notin {None, row'.of} =>
         \E w \in Workers : pc[w] = "write" /\ (Kind(w) \in Rebinding \/ Raced(w))]_vars

(* Every event that was queued is handled or given up.                       *)
EveryEventSettles ==
    \A e \in Events : job[e] = "waiting" ~> job[e] \in {"done", "failed"}
=============================================================================
