----------------------------- MODULE TenantMembers -----------------------------
(* The members of one tenant: logins that take a seat, changes of role, the   *)
(* transfer of ownership, the deletion of a member.                           *)
(*                                                                            *)
(* Every request is cut at its queries.  A change of role, a login and the    *)
(* reads of the guards run statement by statement; a transfer and a deletion  *)
(* are transactions, of which the others see nothing before the commit but    *)
(* wait for the rows they have written.  A person has one row at a time, and  *)
(* a new one at a login after the deletion of the last.                       *)
EXTENDS Integers, FiniteSets

CONSTANTS
    People,     \* who may sign in to the tenant
    Calls,      \* requests at the same time
    None,       \* no row
    SeatLimit,  \* seat_limit of the subscription
    MaxJoins    \* bound: rows a person gets one after another

ASSUME SetsAssumption == /\ IsFiniteSet(People) /\ IsFiniteSet(Calls) /\ Calls # {}
                         /\ None \notin People \X Nat
ASSUME NumbersAssumption == SeatLimit \in Nat /\ MaxJoins \in Nat \ {0}

VARIABLES
    role,       \* role of every row of users; "none" before, "gone" after it
    pc,         \* how far each request is
    call,       \* what it does; the row its session names, of which a login only has
                \* the person; the row it is about; the role a change of role asks for
    held,       \* rows written by its open transaction
    overtaken,  \* history: whether its rows were changed since it read them
    lost        \* history: whether the tenant is without owner because of an
                \* overtaken or a failed request

vars == <<role, pc, call, held, overtaken, lost>>

Rows    == People \X (1..MaxJoins)
Roles   == {"owner", "admin", "member"}
Kinds   == {"login", "change", "transfer", "delete"}
Steps   == {"idle", "find", "count", "upsert", "promote", "guard", "actor", "target",
            "admins", "owner", "write", "currentOwner", "newOwner", "demote", "commit"}

Idle    == [kind |-> "login", actor |-> None, target |-> None, wants |-> "member"]
actor(c)  == call[c].actor
target(c) == call[c].target

Live(r)  == role[r] \in Roles
Members  == {r \in Rows : Live(r)}
Owners   == {r \in Rows : role[r] = "owner"}
HasOwner == Owners # {}
RowsOf(p) == {r \in Members : r[1] = p}
Unused(p) == {r \in Rows : r[1] = p /\ role[r] = "none"}
LoginsOf(p) == {c \in Calls : pc[c] # "idle" /\ call[c].kind = "login" /\ actor(c)[1] = p}

(* A tenant nobody has signed in to yet, or one with an owner and others. *)
Init ==
    /\ role \in [Rows -> {"none"} \cup Roles]
    /\ \A r \in Members : r[2] = 1
    /\ Members = {} \/ Cardinality(Owners) = 1
    /\ Cardinality(Members) <= SeatLimit
    /\ pc = [c \in Calls |-> "idle"]
    /\ call = [c \in Calls |-> Idle]
    /\ held = [c \in Calls |-> {}]
    /\ overtaken = [c \in Calls |-> FALSE]
    /\ lost = FALSE

Step(c, from, to) == pc[c] = from /\ pc' = [pc EXCEPT ![c] = to]
Free(c, r) == \A d \in Calls \ {c} : r \notin held[d]

(* The rows a request has read and goes on with. *)
HasReadTarget(c) == pc[c] \in {"admins", "owner", "write", "demote", "commit"}
HasReadActor(c)  == pc[c] \in {"actor", "target", "currentOwner", "newOwner"} \/ HasReadTarget(c)
HasRead(c) == (IF HasReadActor(c) THEN {actor(c)} ELSE {})
              \cup (IF HasReadTarget(c) THEN {target(c)} ELSE {})

(* What a statement or commit of c makes of the rows. *)
Store(c, new) ==
    /\ role' = new
    /\ overtaken' = [d \in Calls |->
          IF d = c THEN FALSE
          ELSE overtaken[d] \/ \E r \in HasRead(d) : new[r] # role[r]]
    /\ lost' = (~HasOwner' /\ (lost \/ (HasOwner /\ overtaken[c])))

(* A request that ends forgets what it has read. *)
Stop(c, from) == Step(c, from, "idle") /\ call' = [call EXCEPT ![c] = Idle]

(* The end of a request that stores nothing. *)
End(c, from) ==
    /\ Stop(c, from)
    /\ overtaken' = [overtaken EXCEPT ![c] = FALSE]
    /\ UNCHANGED <<role, held, lost>>

(* It goes on to another step. *)
Pass(c, from, to) == Step(c, from, to) /\ UNCHANGED <<role, call, held, overtaken, lost>>

(* A check lets it pass, or ends it. *)
Check(c, from, ok, to) ==
    /\ pc[c] = from
    /\ IF ok THEN Pass(c, from, to) ELSE End(c, from)

Begin(c, k, a, t, w, first) ==
    /\ Step(c, "idle", first)
    /\ call' = [call EXCEPT ![c] = [kind |-> k, actor |-> a, target |-> t, wants |-> w]]
    /\ UNCHANGED <<role, held, overtaken, lost>>
-----------------------------------------------------------------------------
(* AuthService: a login *)

Login(c, p) ==
    /\ Cardinality(Unused(p)) > Cardinality(LoginsOf(p))   \* bound
    /\ Begin(c, "login", <<p, 1>>, <<p, 1>>, "member", "find")

(* Only a person without a row is counted as a new seat. *)
Find(c) ==
    /\ pc[c] = "find"
    /\ Pass(c, "find", IF RowsOf(actor(c)[1]) = {} THEN "count" ELSE "upsert")

Mutant_LimitIncluded(c) == Check(c, "count", Cardinality(Members) <= SeatLimit, "upsert")

CheckSeatLimit(c) == Check(c, "count", Cardinality(Members) < SeatLimit, "upsert")

(* The row the person has by now, or the one it gets. *)
RowFor(p) == IF RowsOf(p) # {} THEN RowsOf(p)
             ELSE {r \in Unused(p) : \A s \in Unused(p) : r[2] <= s[2]}

(* INSERT ... ON CONFLICT DO UPDATE, which leaves the role alone. *)
Upsert(c) ==
    /\ pc[c] = "upsert"
    /\ \E row \in RowFor(actor(c)[1]) :
          /\ Free(c, row)
          /\ IF role[row] = "owner"
             THEN Stop(c, "upsert")
             ELSE Step(c, "upsert", "promote") /\ call' = [call EXCEPT ![c].target = row]
          /\ Store(c, [role EXCEPT ![row] = IF Live(row) THEN @ ELSE "member"])
    /\ UNCHANGED held

(* assignOwnerIfNone: whoever signs in to a tenant without owner becomes it. *)
Promote(c) ==
    /\ Stop(c, "promote")
    /\ Free(c, target(c))
    /\ Store(c, IF Live(target(c)) /\ ~HasOwner
                THEN [role EXCEPT ![target(c)] = "owner"] ELSE role)
    /\ UNCHANGED held
-----------------------------------------------------------------------------
(* AdminService.changeRole *)

Mutant_NobodyIsAsked(c, a, t, w) == Begin(c, "change", a, t, w, "target")

ChangeRole(c, a, t, w) == Begin(c, "change", a, t, w, "guard")

AfterGuard(c) == CASE call[c].kind = "change" -> "actor"
                   [] call[c].kind = "transfer" -> "currentOwner"
                   [] OTHER -> "target"

Required(c) == IF call[c].kind = "transfer" THEN {"owner"} ELSE {"owner", "admin"}

(* RolesGuard, for all three operations. *)
Guard(c) == Check(c, "guard", role[actor(c)] \in Required(c), AfterGuard(c))

(* getUserRole.  An owner's change of his own role fails, here or at the target. *)
ReadActor(c) ==
    LET self == actor(c) = target(c)
    IN Check(c, "actor", role[actor(c)] \in (IF self THEN {"admin"} ELSE {"owner", "admin"}),
             "target")

AfterTarget(c) ==
    CASE call[c].kind = "delete" -> "owner"
      [] call[c].kind = "change" /\ actor(c) = target(c) /\ call[c].wants = "member" -> "admins"
      [] OTHER -> "write"

Mutant_OwnerNotSpared(c) == Check(c, "target", Live(target(c)), AfterTarget(c))

(* Neither a change of role nor a deletion is for the owner. *)
ReadTarget(c) ==
    Check(c, "target", role[target(c)] \in {"admin", "member"}, AfterTarget(c))

CountAdmins(c) ==
    Check(c, "admins", Cardinality({r \in Rows : role[r] = "admin"}) > 1, "write")

(* The UPDATE has no condition on the role it replaces, the DELETE none on the  *)
(* role of what it deletes; neither finds a row that is gone.                   *)
Write(c) ==
    /\ Stop(c, "write")
    /\ Free(c, target(c))
    /\ Store(c, [role EXCEPT ![target(c)] =
          IF ~Live(target(c)) THEN @ ELSE IF call[c].kind = "delete" THEN "gone" ELSE call[c].wants])
    /\ UNCHANGED held
-----------------------------------------------------------------------------
(* UserDeletionService.deleteUser *)

Delete(c, a, t) == a # t /\ Begin(c, "delete", a, t, "member", "guard")

(* Within the transaction, the owner is looked up as the heir. *)
ReadOwner(c) == Check(c, "owner", HasOwner, "write")
-----------------------------------------------------------------------------
(* AdminService.transferOwnership: one transaction *)

Transfer(c, a, t) == Begin(c, "transfer", a, t, "member", "guard")

ReadCurrentOwner(c) == Check(c, "currentOwner", role[actor(c)] = "owner", "newOwner")

ReadNewOwner(c) == Check(c, "newOwner", Live(target(c)), "demote")

Demote(c) ==
    /\ Step(c, "demote", "commit")
    /\ Free(c, actor(c))
    /\ held' = [held EXCEPT ![c] = {actor(c)} \cap Members]
    /\ UNCHANGED <<role, call, overtaken, lost>>

Mutant_KeepsLock(c) ==
    /\ pc[c] # "idle"
    /\ Stop(c, pc[c])
    /\ overtaken' = [overtaken EXCEPT ![c] = FALSE]
    /\ UNCHANGED <<role, held>>

(* A request that fails or whose process dies: its transaction is rolled back, *)
(* what a login has stored stays.                                              *)
Rollback(c) ==
    /\ pc[c] # "idle"
    /\ Stop(c, pc[c])
    /\ held' = [held EXCEPT ![c] = {}]
    /\ overtaken' = [overtaken EXCEPT ![c] = FALSE]
    /\ UNCHANGED role

(* The index allows one owner: the second promotion fails. *)
Commit(c) ==
    LET demoted == [role EXCEPT ![actor(c)] = IF actor(c) \in held[c] \cap Members THEN "admin" ELSE @]
        new == [demoted EXCEPT ![target(c)] = IF Live(target(c)) THEN "owner" ELSE @]
    IN /\ pc[c] = "commit"
       /\ Free(c, target(c))
       /\ IF Live(target(c)) /\ \E r \in Rows \ {target(c)} : demoted[r] = "owner"
          THEN Rollback(c) /\ UNCHANGED lost
          ELSE /\ Stop(c, "commit")
               /\ Store(c, new)
               /\ held' = [held EXCEPT ![c] = {}]

(* Transfers that wait for each other's rows: the database ends one. *)
Deadlock(c) ==
    /\ pc[c] = "commit"
    /\ \E d \in Calls \ {c} : /\ pc[d] = "commit"
                               /\ target(c) \in held[d] /\ target(d) \in held[c]
    /\ Rollback(c)
    /\ UNCHANGED lost

(* A failure at any query. *)
Fail(c) ==
    /\ Rollback(c)
    /\ lost' = (lost \/ (pc[c] = "promote" /\ ~HasOwner))
-----------------------------------------------------------------------------
CallStep(c) ==
    \/ Find(c) \/ CheckSeatLimit(c) \/ Upsert(c) \/ Promote(c)
    \/ Guard(c) \/ ReadActor(c) \/ ReadTarget(c) \/ CountAdmins(c) \/ Write(c)
    \/ ReadOwner(c)
    \/ ReadCurrentOwner(c) \/ ReadNewOwner(c) \/ Demote(c) \/ Commit(c) \/ Deadlock(c)

(* A session names a row that was there when it began. *)
Request(c) ==
    \/ \E p \in People : Login(c, p)
    \/ \E a, t \in {r \in Rows : role[r] # "none"} :
          \/ \E w \in {"admin", "member"} : ChangeRole(c, a, t, w)
          \/ Delete(c, a, t)
          \/ Transfer(c, a, t)

Next == \E c \in Calls : Request(c) \/ CallStep(c) \/ Fail(c)

Spec == Init /\ [][Next]_vars

(* A request that has begun is served; one that waits for a row does not wait  *)
(* for ever when the row comes free again and again, as the database hands it  *)
(* out in turn.  Nobody has to send a request, or to fail.                     *)
FairSpec == Spec /\ \A c \in Calls : SF_vars(CallStep(c))
-----------------------------------------------------------------------------
TypeOK ==
    /\ role \in [Rows -> {"none", "gone"} \cup Roles]
    /\ pc \in [Calls -> Steps]
    /\ call \in [Calls -> [kind : Kinds, actor : Rows \cup {None}, target : Rows \cup {None},
                          wants : {"admin", "member"}]]
    /\ \A c \in Calls : pc[c] # "idle" => actor(c) \in Rows /\ target(c) \in Rows
    /\ held \in [Calls -> SUBSET Rows]
    /\ overtaken \in [Calls -> BOOLEAN]
    /\ lost \in BOOLEAN

(* However many logins count the seats before any of them has inserted its    *)
(* row, the tenant passes its limit by less than the requests there can be at *)
(* a time; a deletion between a login's look-up and its insert adds nothing.  *)
SeatsOvershootBounded == Cardinality(Members) <= SeatLimit + Cardinality(Calls) - 1

(* A tenant with members has an owner, or a login that is about to promote    *)
(* one, unless a request went on with rows that another one had changed since *)
(* it read them, or a first login failed half-way.                            *)
OwnedUnlessLost ==
    \/ HasOwner \/ Members = {} \/ lost
    \/ \E c \in Calls : pc[c] = "promote" /\ Live(target(c))

(* Who changes a role or deletes a row has the role that takes, or had it     *)
(* when it was checked and was overtaken.  Logins only make an owner.         *)
Entitled(c) == role[actor(c)] \in Required(c)
ChangedByTheEntitled ==
    [][\A r \in Rows : role'[r] # role[r] /\ Live(r) =>
          \E c \in Calls : /\ pc'[c] # pc[c]
                           /\ call[c].kind = "login" \/ Entitled(c) \/ overtaken[c]]_vars

(* Every request ends: also transfers that wait for rows of each other. *)
EveryRequestEnds == \A c \in Calls : pc[c] # "idle" ~> pc[c] = "idle"
-----------------------------------------------------------------------------
(* What the code, its tests and its documents say. *)

(* user-deletion.service.ts:69: the owner cannot be deleted. *)
OwnerIsNotDeleted == [][\A r \in Rows : role[r] = "owner" => role'[r] # "gone"]_vars

(* requirements.md:26: a hard block over the seat limit. *)
SeatsWithinLimit == Cardinality(Members) <= SeatLimit

(* admin.service.ts:141: an admin demotes himself only if another admin is there. *)
NotTheLastAdmin ==
    [][\A c \in Calls :
          /\ pc[c] = "write" /\ pc'[c] = "idle" /\ call[c].kind = "change"
          /\ actor(c) = target(c) /\ role[actor(c)] = "admin" /\ role'[actor(c)] = "member"
          => \E r \in Rows : role'[r] = "admin"]_vars
=============================================================================
