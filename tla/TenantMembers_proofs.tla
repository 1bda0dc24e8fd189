------------------------- MODULE TenantMembers_proofs -------------------------
(* Proofs about TenantMembers, for any number of people and requests: its      *)
(* types, the bound on the seats, and who owns a tenant.                       *)
EXTENDS TenantMembers, FiniteSetTheorems, TLAPS

THEOREM TypeCorrect == Spec => []TypeOK
<1>1. Init => TypeOK
  <2> SUFFICES ASSUME Init PROVE TypeOK OBVIOUS
  <2>1. role \in [Rows -> {"none", "gone"} \cup Roles]
    BY DEF Init
  <2>2. Idle \in [kind : Kinds, actor : Rows \cup {None}, target : Rows \cup {None},
                 wants : {"admin", "member"}]
    BY DEF Idle, Kinds
  <2> QED BY <2>1, <2>2 DEF Init, TypeOK, Steps
<1>2. ASSUME TypeOK, [Next]_vars
      PROVE  TypeOK'
  <2>1. CASE UNCHANGED vars
    BY <1>2, <2>1 DEF vars, TypeOK, actor, target
  <2>2. ASSUME NEW c \in Calls, Request(c)
        PROVE  TypeOK'
    <3>1. ASSUME NEW k \in Kinds, NEW a \in Rows, NEW t \in Rows,
                 NEW w \in {"admin", "member"}, NEW s \in Steps, Begin(c, k, a, t, w, s)
          PROVE  TypeOK'
      BY <1>2, <3>1 DEF TypeOK, Begin, Step, actor, target
    <3>2. ASSUME NEW p \in People, Login(c, p)
          PROVE  TypeOK'
      BY <3>1, <3>2, NumbersAssumption DEF Login, Rows, Kinds, Steps
    <3>3. ASSUME NEW a \in {r \in Rows : role[r] # "none"},
                 NEW t \in {r \in Rows : role[r] # "none"},
                 \/ \E w \in {"admin", "member"} : ChangeRole(c, a, t, w)
                 \/ Delete(c, a, t)
                 \/ Transfer(c, a, t)
          PROVE  TypeOK'
      BY <3>1, <3>3 DEF ChangeRole, Delete, Transfer, Kinds, Steps
    <3> QED BY <2>2, <3>2, <3>3 DEF Request
  <2>3. ASSUME NEW c \in Calls, NEW from \in Steps, End(c, from)
        PROVE  TypeOK'
    BY <1>2, <2>3 DEF TypeOK, End, Stop, Step, actor, target, Idle, Steps, Kinds
  <2>4. ASSUME NEW c \in Calls, NEW from \in Steps \ {"idle"}, NEW to \in Steps, Pass(c, from, to)
        PROVE  TypeOK'
    BY <1>2, <2>4 DEF TypeOK, Pass, Step, actor, target
  <2>5. ASSUME NEW c \in Calls, NEW from \in Steps \ {"idle"}, NEW to \in Steps, NEW ok,
               Check(c, from, ok, to)
        PROVE  TypeOK'
    BY <2>3, <2>4, <2>5 DEF Check
  <2>6. ASSUME NEW c \in Calls, NEW new \in [Rows -> {"none", "gone"} \cup Roles],
               Store(c, new)
        PROVE  /\ role' \in [Rows -> {"none", "gone"} \cup Roles]
               /\ overtaken' \in [Calls -> BOOLEAN]
               /\ lost' \in BOOLEAN
    BY <1>2, <2>6 DEF TypeOK, Store
  <2>7. ASSUME NEW c \in Calls, NEW from \in Steps, Stop(c, from)
        PROVE  /\ pc' \in [Calls -> Steps]
               /\ call' \in [Calls -> [kind : Kinds, actor : Rows \cup {None},
                                       target : Rows \cup {None}, wants : {"admin", "member"}]]
               /\ \A d \in Calls : pc'[d] # "idle" => actor(d)' \in Rows /\ target(d)' \in Rows
    BY <1>2, <2>7 DEF TypeOK, Stop, Step, actor, target, Idle, Steps, Kinds
  <2>8. ASSUME NEW c \in Calls, Rollback(c), lost' \in BOOLEAN
        PROVE  TypeOK'
    BY <1>2, <2>7, <2>8 DEF TypeOK, Rollback
  <2>9. ASSUME NEW c \in Calls, CallStep(c)
        PROVE  TypeOK'
    <3>1. CASE Find(c)
      BY <2>4, <3>1 DEF Find, Steps
    <3>2. CASE CheckSeatLimit(c)
      BY <2>5, <3>2 DEF CheckSeatLimit, Steps
    <3>3. CASE Upsert(c)
      <4>1. PICK row \in RowFor(actor(c)[1]) :
              /\ IF role[row] = "owner"
                 THEN Stop(c, "upsert")
                 ELSE Step(c, "upsert", "promote") /\ call' = [call EXCEPT ![c].target = row]
              /\ Store(c, [role EXCEPT ![row] = IF Live(row) THEN @ ELSE "member"])
        BY <3>3 DEF Upsert
      <4>2. row \in Rows
        BY DEF RowFor, RowsOf, Members, Unused
      <4>3. [role EXCEPT ![row] = IF Live(row) THEN @ ELSE "member"]
              \in [Rows -> {"none", "gone"} \cup Roles]
        BY <1>2, <4>2 DEF TypeOK, Roles
      <4>4. CASE role[row] = "owner"
        BY <1>2, <2>6, <2>7, <3>3, <4>1, <4>3, <4>4 DEF TypeOK, Upsert, Steps
      <4>5. CASE role[row] # "owner"
        <5>0. [call[c] EXCEPT !.target = row]
                \in [kind : Kinds, actor : Rows \cup {None}, target : Rows \cup {None},
                    wants : {"admin", "member"}]
          BY <1>2, <4>2 DEF TypeOK
        <5>4. pc' \in [Calls -> Steps]
          BY <1>2, <4>1, <4>5 DEF TypeOK, Step, Steps
        <5>5. call' = [call EXCEPT ![c] = [call[c] EXCEPT !.target = row]]
          BY <4>1, <4>5
        <5>1. call' \in [Calls -> [kind : Kinds, actor : Rows \cup {None},
                                  target : Rows \cup {None}, wants : {"admin", "member"}]]
          BY <1>2, <5>0, <5>5 DEF TypeOK
        <5>2. \A d \in Calls : pc'[d] # "idle" => actor(d)' \in Rows /\ target(d)' \in Rows
          BY <1>2, <4>1, <4>2, <4>5 DEF TypeOK, Step, actor, target
        <5> QED BY <1>2, <2>6, <3>3, <4>1, <4>3, <5>1, <5>2, <5>4 DEF TypeOK, Upsert
      <4> QED BY <4>4, <4>5
    <3>4. CASE Promote(c)
      <4>1. (IF Live(target(c)) /\ ~HasOwner
             THEN [role EXCEPT ![target(c)] = "owner"] ELSE role)
               \in [Rows -> {"none", "gone"} \cup Roles]
        BY <1>2 DEF TypeOK, Roles
      <4> QED BY <1>2, <2>6, <2>7, <3>4, <4>1 DEF TypeOK, Promote, Steps
    <3>5. CASE Guard(c)
      BY <1>2, <2>5, <3>5 DEF Guard, AfterGuard, Steps
    <3>6. CASE ReadActor(c)
      BY <2>5, <3>6 DEF ReadActor, Steps
    <3>7. CASE ReadTarget(c)
      BY <2>5, <3>7 DEF ReadTarget, AfterTarget, Steps
    <3>8. CASE CountAdmins(c)
      BY <2>5, <3>8 DEF CountAdmins, Steps
    <3>9. CASE Write(c)
      <4>1. [role EXCEPT ![target(c)] =
               IF ~Live(target(c)) THEN @
               ELSE IF call[c].kind = "delete" THEN "gone" ELSE call[c].wants]
               \in [Rows -> {"none", "gone"} \cup Roles]
        BY <1>2 DEF TypeOK, Roles
      <4> QED BY <1>2, <2>6, <2>7, <3>9, <4>1 DEF TypeOK, Write, Steps
    <3>10. CASE ReadOwner(c)
      BY <2>5, <3>10 DEF ReadOwner, Steps
    <3>11. CASE ReadCurrentOwner(c) \/ ReadNewOwner(c)
      BY <2>5, <3>11 DEF ReadCurrentOwner, ReadNewOwner, Steps
    <3>12. CASE Demote(c)
      BY <1>2, <3>12 DEF TypeOK, Demote, Step, actor, target, Steps, Members
    <3>13. CASE Commit(c)
      <4> DEFINE demoted == [role EXCEPT ![actor(c)] =
                               IF actor(c) \in held[c] \cap Members THEN "admin" ELSE @]
                 new == [demoted EXCEPT ![target(c)] = IF Live(target(c)) THEN "owner" ELSE @]
      <4>1. demoted \in [Rows -> {"none", "gone"} \cup Roles]
        BY <1>2 DEF TypeOK, Roles
      <4>2. new \in [Rows -> {"none", "gone"} \cup Roles]
        BY <4>1 DEF Roles
      <4>3. CASE Rollback(c) /\ UNCHANGED lost
        BY <1>2, <2>8, <4>3 DEF TypeOK
      <4>4. CASE /\ Stop(c, "commit") /\ Store(c, new)
                 /\ held' = [held EXCEPT ![c] = {}]
        <5> HIDE DEF new
        <5> QED BY <1>2, <2>6, <2>7, <4>2, <4>4 DEF TypeOK, Steps
      <4> QED BY <3>13, <4>3, <4>4 DEF Commit
    <3>14. CASE Deadlock(c)
      BY <1>2, <2>8, <3>14 DEF Deadlock, TypeOK
    <3> QED BY <2>9, <3>1, <3>2, <3>3, <3>4, <3>5, <3>6, <3>7, <3>8, <3>9, <3>10, <3>11,
               <3>12, <3>13, <3>14 DEF CallStep
  <2>10. ASSUME NEW c \in Calls, Fail(c)
         PROVE  TypeOK'
    BY <1>2, <2>8, <2>10 DEF Fail, TypeOK
  <2> QED BY <1>2, <2>1, <2>2, <2>9, <2>10 DEF Next
<1> QED BY <1>1, <1>2, PTL DEF Spec
-----------------------------------------------------------------------------
(* What a request has read still holds unless it was overtaken: the actor has  *)
(* the role its operation takes, the target is there and not the owner.        *)
KindOf(s) == CASE s \in {"find", "count", "upsert", "promote"} -> {"login"}
               [] s = "guard" -> {"change", "transfer", "delete"}
               [] s \in {"actor", "admins"} -> {"change"}
               [] s \in {"target", "write"} -> {"change", "delete"}
               [] s = "owner" -> {"delete"}
               [] s \in {"currentOwner", "newOwner", "demote", "commit"} -> {"transfer"}
               [] OTHER -> Kinds

ReadInv(c) ==
    /\ call[c].kind \in KindOf(pc[c])
    /\ HasReadActor(c) /\ ~overtaken[c] => Entitled(c)
    /\ pc[c] \in {"admins", "owner", "write"} /\ ~overtaken[c] => role[target(c)] \in {"admin", "member"}
    /\ pc[c] \in {"demote", "commit"} /\ ~overtaken[c] => Live(target(c))

(* A deletion that is about to store has seen an owner; if there is none any   *)
(* more, that was an overtaken request's doing.                                *)
HeirInv == \A c \in Calls :
    pc[c] = "write" /\ call[c].kind = "delete" => HasOwner \/ lost

(* A step of c leaves what d has read as it is, or marks d as overtaken. *)
Spares(d) ==
    /\ pc'[d] = pc[d] /\ call'[d] = call[d]
    /\ ~overtaken'[d] => ~overtaken[d] /\ \A r \in HasRead(d) : role'[r] = role[r]

LEMMA SparedKeepsReadInv ==
    ASSUME NEW d \in Calls, ReadInv(d), Spares(d)
    PROVE  ReadInv(d)'
<1> USE DEF ReadInv, Spares
<1>1. HasReadActor(d)' = HasReadActor(d) /\ HasReadTarget(d)' = HasReadTarget(d)
  BY DEF HasReadActor, HasReadTarget
<1>2. actor(d)' = actor(d) /\ target(d)' = target(d) /\ Required(d)' = Required(d)
  BY DEF actor, target, Required
<1>3. ASSUME HasReadActor(d), ~overtaken'[d] PROVE role'[actor(d)] = role[actor(d)]
  BY <1>3 DEF HasRead
<1>4. ASSUME HasReadTarget(d), ~overtaken'[d] PROVE role'[target(d)] = role[target(d)]
  BY <1>4 DEF HasRead
<1> QED BY <1>1, <1>2, <1>3, <1>4 DEF Entitled, HasReadTarget, Live

LEMMA StoreSpares ==
    ASSUME TypeOK, NEW c \in Calls, NEW new, Store(c, new), NEW d \in Calls \ {c},
           pc'[d] = pc[d], call'[d] = call[d]
    PROVE  Spares(d)
BY DEF TypeOK, Store, Spares

LEMMA StopSpares ==
    ASSUME TypeOK, NEW c \in Calls, NEW from, Stop(c, from)
    PROVE  /\ pc'[c] = "idle" /\ call'[c].kind = "login"
           /\ \A d \in Calls \ {c} : pc'[d] = pc[d] /\ call'[d] = call[d]
BY DEF TypeOK, Stop, Step, Idle

LEMMA IdleReadInv ==
    ASSUME NEW c \in Calls, pc'[c] = "idle", call'[c].kind = "login"
    PROVE  ReadInv(c)'
BY DEF ReadInv, KindOf, Kinds, HasReadActor, HasReadTarget

(* A request that ends, whatever it stores. *)
LEMMA EndKeepsReadInv ==
    ASSUME TypeOK, \A d \in Calls : ReadInv(d), NEW c \in Calls, NEW from, Stop(c, from),
           \/ \E new : Store(c, new)
           \/ role' = role /\ overtaken' = [overtaken EXCEPT ![c] = FALSE]
    PROVE  \A d \in Calls : ReadInv(d)'
<1> TAKE d \in Calls
<1>1. CASE d = c
  BY <1>1, StopSpares, IdleReadInv
<1>2. ASSUME d # c PROVE Spares(d)
  <2>1. pc'[d] = pc[d] /\ call'[d] = call[d]
    BY <1>2, StopSpares
  <2>2. CASE \E new : Store(c, new)
    BY <1>2, <2>1, <2>2, StoreSpares
  <2>3. CASE role' = role /\ overtaken' = [overtaken EXCEPT ![c] = FALSE]
    BY <1>2, <2>1, <2>3 DEF TypeOK, Spares
  <2> QED BY <2>2, <2>3
<1> QED BY <1>1, <1>2, SparedKeepsReadInv

(* One that goes on. *)
LEMMA PassKeepsReadInv ==
    ASSUME TypeOK, \A d \in Calls : ReadInv(d), NEW c \in Calls, NEW from, NEW to,
           Step(c, from, to), UNCHANGED <<role, overtaken>>,
           \A d \in Calls \ {c} : call'[d] = call[d],
           ReadInv(c)'
    PROVE  \A d \in Calls : ReadInv(d)'
<1> TAKE d \in Calls
<1>1. ASSUME d # c PROVE Spares(d)
  BY <1>1 DEF TypeOK, Step, Spares
<1> QED BY <1>1, SparedKeepsReadInv

LEMMA CheckKeepsReadInv ==
    ASSUME TypeOK, \A d \in Calls : ReadInv(d), NEW c \in Calls, NEW from, NEW to, NEW ok,
           Check(c, from, ok, to),
           ok /\ Pass(c, from, to) => ReadInv(c)'
    PROVE  \A d \in Calls : ReadInv(d)'
<1>1. CASE ~ok
  BY <1>1, EndKeepsReadInv DEF Check, End
<1>2. CASE ok
  BY <1>2, PassKeepsReadInv DEF Check, Pass
<1> QED BY <1>1, <1>2

LEMMA NextKeepsReadInv ==
    ASSUME TypeOK, \A d \in Calls : ReadInv(d), [Next]_vars
    PROVE  \A d \in Calls : ReadInv(d)'
<1> DEFINE Goal == \A d \in Calls : ReadInv(d)'
<1>1. CASE UNCHANGED vars
  BY <1>1, SparedKeepsReadInv DEF vars, Spares
<1>2. ASSUME NEW c \in Calls, Request(c)
      PROVE  Goal
  <2>1. ASSUME NEW k \in Kinds, NEW a, NEW t, NEW w, NEW s \in {"find", "guard"},
               s = IF k = "login" THEN "find" ELSE "guard", Begin(c, k, a, t, w, s)
        PROVE  Goal
    <3>1. pc'[c] = s /\ call'[c].kind = k
      BY <2>1 DEF Begin, Step, TypeOK
    <3>2. ReadInv(c)'
      BY <2>1, <3>1 DEF ReadInv, KindOf, Kinds, HasReadActor, HasReadTarget
    <3>3. \A d \in Calls \ {c} : call'[d] = call[d]
      BY <2>1 DEF Begin, TypeOK
    <3> QED BY <2>1, <3>2, <3>3, PassKeepsReadInv DEF Begin
  <2> QED BY <1>2, <2>1 DEF Request, Login, ChangeRole, Delete, Transfer, Kinds
<1>3. ASSUME NEW c \in Calls, CallStep(c)
      PROVE  Goal
  <2>1. CASE Find(c)
    <3>1. ReadInv(c)'
      BY <2>1 DEF Find, Pass, Step, TypeOK, ReadInv, KindOf, HasReadActor, HasReadTarget
    <3> QED BY <2>1, <3>1, PassKeepsReadInv DEF Find, Pass
  <2>2. CASE CheckSeatLimit(c)
    <3>1. ASSUME Pass(c, "count", "upsert") PROVE ReadInv(c)'
      BY <3>1 DEF Pass, Step, TypeOK, ReadInv, KindOf, HasReadActor, HasReadTarget
    <3> QED BY <2>2, <3>1, CheckKeepsReadInv DEF CheckSeatLimit
  <2>3. CASE Upsert(c)
    <3>1. PICK row \in RowFor(actor(c)[1]) :
              /\ IF role[row] = "owner"
                 THEN Stop(c, "upsert")
                 ELSE Step(c, "upsert", "promote") /\ call' = [call EXCEPT ![c].target = row]
              /\ Store(c, [role EXCEPT ![row] = IF Live(row) THEN @ ELSE "member"])
      BY <2>3 DEF Upsert
    <3>2. CASE role[row] = "owner"
      BY <3>1, <3>2, EndKeepsReadInv
    <3>3. CASE role[row] # "owner"
      <4>1. ReadInv(c)'
        BY <3>1, <3>3 DEF Step, TypeOK, ReadInv, KindOf, HasReadActor, HasReadTarget
      <4>2. ASSUME NEW d \in Calls \ {c} PROVE ReadInv(d)'
        <5>1. pc'[d] = pc[d] /\ call'[d] = call[d]
          BY <3>1, <3>3 DEF Step, TypeOK
        <5> QED BY <3>1, <5>1, StoreSpares, SparedKeepsReadInv
      <4> QED BY <4>1, <4>2
    <3> QED BY <3>2, <3>3
  <2>4. CASE Promote(c)
    BY <2>4, EndKeepsReadInv DEF Promote
  <2>5. CASE Guard(c)
    <3>1. ASSUME role[actor(c)] \in Required(c), Pass(c, "guard", AfterGuard(c))
          PROVE  ReadInv(c)'
      <4>1. /\ pc'[c] = AfterGuard(c) /\ pc[c] = "guard"
            /\ role' = role /\ call' = call /\ overtaken' = overtaken
        BY <3>1 DEF Pass, Step, TypeOK
      <4>2. call[c].kind \in {"change", "transfer", "delete"}
        BY <4>1 DEF ReadInv, KindOf
      <4>3. Entitled(c)'
        BY <3>1, <4>1 DEF Entitled, Required, actor
      <4>4. /\ AfterGuard(c) \in {"actor", "currentOwner", "target"}
            /\ call[c].kind \in KindOf(AfterGuard(c))
        BY <4>2 DEF AfterGuard, KindOf
      <4> QED BY <4>1, <4>3, <4>4 DEF ReadInv
    <3> QED BY <2>5, <3>1, CheckKeepsReadInv DEF Guard
  <2>6. ASSUME NEW from \in {"actor", "admins", "owner", "currentOwner"}, NEW to, NEW ok,
               Check(c, from, ok, to),
               to = CASE from = "actor" -> "target" [] from = "currentOwner" -> "newOwner"
                      [] OTHER -> "write"
        PROVE  Goal
    <3>1. ASSUME Pass(c, from, to) PROVE ReadInv(c)'
      <4>1. /\ pc'[c] = to /\ pc[c] = from
            /\ role' = role /\ call' = call /\ overtaken' = overtaken
        BY <3>1 DEF Pass, Step, TypeOK
      <4>2. Entitled(c)' = Entitled(c) /\ target(c)' = target(c)
        BY <4>1 DEF Entitled, Required, actor, target
      <4> QED BY <2>6, <4>1, <4>2 DEF ReadInv, KindOf, HasReadActor, HasReadTarget
    <3> QED BY <2>6, <3>1, CheckKeepsReadInv
  <2>7. CASE ReadActor(c)
    BY <2>6, <2>7 DEF ReadActor
  <2>8. CASE ReadTarget(c)
    <3>1. ASSUME role[target(c)] \in {"admin", "member"}, Pass(c, "target", AfterTarget(c))
          PROVE  ReadInv(c)'
      <4>1. /\ pc'[c] = AfterTarget(c) /\ pc[c] = "target"
            /\ role' = role /\ call' = call /\ overtaken' = overtaken
        BY <3>1 DEF Pass, Step, TypeOK
      <4>2. Entitled(c)' = Entitled(c) /\ target(c)' = target(c)
        BY <4>1 DEF Entitled, Required, actor, target
      <4>3. /\ AfterTarget(c) \in {"owner", "admins", "write"}
            /\ call[c].kind \in KindOf(AfterTarget(c))
        BY <4>1 DEF ReadInv, AfterTarget, KindOf
      <4> QED BY <3>1, <4>1, <4>2, <4>3 DEF ReadInv, HasReadActor, HasReadTarget
    <3> QED BY <2>8, <3>1, CheckKeepsReadInv DEF ReadTarget
  <2>9. CASE CountAdmins(c)
    BY <2>6, <2>9 DEF CountAdmins
  <2>10. CASE Write(c)
    BY <2>10, EndKeepsReadInv DEF Write
  <2>11. CASE ReadOwner(c)
    BY <2>6, <2>11 DEF ReadOwner
  <2>12. CASE ReadCurrentOwner(c)
    BY <2>6, <2>12 DEF ReadCurrentOwner
  <2>13. CASE ReadNewOwner(c)
    <3>1. ASSUME Live(target(c)), Pass(c, "newOwner", "demote") PROVE ReadInv(c)'
      <4>1. /\ pc'[c] = "demote" /\ pc[c] = "newOwner"
            /\ role' = role /\ call' = call /\ overtaken' = overtaken
        BY <3>1 DEF Pass, Step, TypeOK
      <4>2. Entitled(c)' = Entitled(c) /\ target(c)' = target(c)
        BY <4>1 DEF Entitled, Required, actor, target
      <4> QED BY <3>1, <4>1, <4>2 DEF ReadInv, KindOf, HasReadActor, HasReadTarget, Live
    <3> QED BY <2>13, <3>1, CheckKeepsReadInv DEF ReadNewOwner
  <2>14. CASE Demote(c)
    <3>1. /\ pc'[c] = "commit" /\ pc[c] = "demote"
          /\ role' = role /\ call' = call /\ overtaken' = overtaken
      BY <2>14 DEF Demote, Step, TypeOK
    <3>2. Entitled(c)' = Entitled(c) /\ target(c)' = target(c)
      BY <3>1 DEF Entitled, Required, actor, target
    <3>3. ReadInv(c)'
      BY <3>1, <3>2 DEF ReadInv, KindOf, HasReadActor, HasReadTarget, Live
    <3> QED BY <2>14, <3>1, <3>3, PassKeepsReadInv DEF Demote
  <2>15. CASE Commit(c)
    <3>1. CASE Rollback(c)
      BY <3>1, EndKeepsReadInv DEF Rollback
    <3>2. ASSUME NEW new, Stop(c, "commit"), Store(c, new) PROVE Goal
      BY <3>2, EndKeepsReadInv
    <3> QED BY <2>15, <3>1, <3>2 DEF Commit
  <2>16. CASE Deadlock(c)
    BY <2>16, EndKeepsReadInv DEF Deadlock, Rollback
  <2> QED BY <1>3, <2>1, <2>2, <2>3, <2>4, <2>5, <2>7, <2>8, <2>9, <2>10, <2>11, <2>12,
             <2>13, <2>14, <2>15, <2>16 DEF CallStep
<1>4. ASSUME NEW c \in Calls, Fail(c)
      PROVE  Goal
  BY <1>4, EndKeepsReadInv DEF Fail, Rollback
<1> QED BY <1>1, <1>2, <1>3, <1>4 DEF Next

THEOREM ReadsHold == Spec => [](TypeOK /\ \A c \in Calls : ReadInv(c))
<1>1. Init => \A c \in Calls : ReadInv(c)
  BY DEF Init, Idle, ReadInv, KindOf, Kinds, HasReadActor, HasReadTarget
<1>2. TypeOK /\ (\A c \in Calls : ReadInv(c)) /\ [Next]_vars => (\A c \in Calls : ReadInv(c))'
  BY NextKeepsReadInv
<1> QED BY <1>1, <1>2, TypeCorrect, PTL DEF Spec

(* Logins only make an owner; whoever else changes a role or deletes a row has *)
(* the role for it, or was overtaken.                                          *)
THEOREM EntitledOnly == Spec => ChangedByTheEntitled
<1>1. ASSUME TypeOK, \A c \in Calls : ReadInv(c), [Next]_vars,
             NEW r \in Rows, role'[r] # role[r], Live(r)
      PROVE  \E c \in Calls : /\ pc'[c] # pc[c]
                              /\ call[c].kind = "login" \/ Entitled(c) \/ overtaken[c]
  <2>1. PICK c \in Calls : CallStep(c)
    <3>1. role' # role
      BY <1>1
    <3> QED BY <1>1, <3>1 DEF Next, vars, Request, Login, ChangeRole, Delete, Transfer, Begin,
               Fail, Rollback
  <2>2. Upsert(c) \/ Promote(c) \/ Write(c) \/ Commit(c)
    <3>1. role' # role
      BY <1>1
    <3> QED BY <2>1, <3>1 DEF CallStep, Find, CheckSeatLimit, Guard, ReadActor, ReadTarget,
               CountAdmins, ReadOwner, ReadCurrentOwner, ReadNewOwner, Demote, Deadlock,
               Rollback, Check, Pass, End
  <2>3. pc'[c] # pc[c]
    BY <1>1, <2>2 DEF Upsert, Promote, Write, Commit, Rollback, Stop, Step, TypeOK
  <2>4. CASE Upsert(c) \/ Promote(c)
    BY <1>1, <2>3, <2>4 DEF Upsert, Promote, Stop, Step, ReadInv, KindOf
  <2>5. CASE Write(c) \/ Commit(c)
    <3>1. HasReadActor(c)
      BY <2>5 DEF Write, Commit, Stop, Step, HasReadActor, HasReadTarget
    <3> QED BY <1>1, <2>3, <3>1 DEF ReadInv
  <2> QED BY <2>2, <2>4, <2>5
<1>2. TypeOK /\ (\A c \in Calls : ReadInv(c)) /\ [Next]_vars =>
        [\A r \in Rows : role'[r] # role[r] /\ Live(r) =>
          \E c \in Calls : /\ pc'[c] # pc[c]
                           /\ call[c].kind = "login" \/ Entitled(c) \/ overtaken[c]]_vars
  BY <1>1
<1> QED BY <1>2, ReadsHold, PTL DEF Spec, ChangedByTheEntitled
-----------------------------------------------------------------------------
HasPromoter == \E c \in Calls : pc[c] = "promote" /\ Live(target(c))

(* A step of c that leaves the rows alone. *)
LEMMA QuietKeepsOwner ==
    ASSUME OwnedUnlessLost, HeirInv, NEW c \in Calls,
           role' = role, lost => lost',
           \A d \in Calls \ {c} : pc'[d] = pc[d] /\ call'[d] = call[d],
           pc[c] = "promote" /\ Live(target(c)) => HasOwner \/ lost',
           pc'[c] = "write" /\ call'[c].kind = "delete" => HasOwner \/ lost
    PROVE  OwnedUnlessLost' /\ HeirInv'
<1>1. HasOwner' = HasOwner /\ Members' = Members
  BY DEF HasOwner, Owners, Members, Live
<1>2. HeirInv'
  BY <1>1 DEF HeirInv
<1>3. OwnedUnlessLost'
  BY <1>1 DEF OwnedUnlessLost, Live, target
<1> QED BY <1>2, <1>3

(* One that stores: it loses the owner only if it was overtaken, and it does   *)
(* not make an ownerless tenant of one with nobody in it or with a login about *)
(* to promote.                                                                 *)
LEMMA StoreKeepsOwner ==
    ASSUME OwnedUnlessLost, HeirInv, NEW c \in Calls, NEW new, Store(c, new),
           \A d \in Calls \ {c} : pc'[d] = pc[d] /\ call'[d] = call[d],
           pc'[c] # "write",
           HasOwner /\ ~overtaken[c] => HasOwner',
           ~HasOwner /\ ~lost => HasOwner' \/ Members' = {} \/ HasPromoter'
    PROVE  OwnedUnlessLost' /\ HeirInv'
<1>1. HasOwner \/ lost => HasOwner' \/ lost'
  BY DEF Store
<1>2. HeirInv'
  BY <1>1 DEF HeirInv
<1>3. OwnedUnlessLost'
  BY <1>1 DEF OwnedUnlessLost, HasPromoter
<1> QED BY <1>2, <1>3

LEMMA CheckKeepsOwner ==
    ASSUME TypeOK, OwnedUnlessLost, HeirInv, NEW c \in Calls, NEW from, NEW to, NEW ok,
           from # "promote", Check(c, from, ok, to),
           ok /\ to = "write" /\ call[c].kind = "delete" => HasOwner
    PROVE  OwnedUnlessLost' /\ HeirInv'
<1>1. /\ pc[c] = from /\ role' = role /\ lost' = lost
      /\ \A d \in Calls \ {c} : pc'[d] = pc[d] /\ call'[d] = call[d]
      /\ \/ pc'[c] = "idle"
         \/ ok /\ pc'[c] = to /\ call'[c] = call[c]
  BY DEF Check, Pass, End, Stop, Step, TypeOK
<1> QED BY <1>1, QuietKeepsOwner

LEMMA NextKeepsOwner ==
    ASSUME TypeOK, \A c \in Calls : ReadInv(c), OwnedUnlessLost, HeirInv, [Next]_vars
    PROVE  OwnedUnlessLost' /\ HeirInv'
<1> DEFINE Goal == OwnedUnlessLost' /\ HeirInv'
<1>1. CASE UNCHANGED vars
  BY <1>1 DEF vars, OwnedUnlessLost, HeirInv, HasOwner, Owners, Members, Live, target
<1>2. ASSUME NEW c \in Calls, Request(c)
      PROVE  Goal
  <2>1. ASSUME NEW k, NEW a, NEW t, NEW w, NEW s \in {"find", "guard"}, Begin(c, k, a, t, w, s)
        PROVE  Goal
    <3>1. /\ pc[c] = "idle" /\ pc'[c] = s /\ role' = role /\ lost' = lost
          /\ \A d \in Calls \ {c} : pc'[d] = pc[d] /\ call'[d] = call[d]
      BY <2>1 DEF Begin, Step, TypeOK
    <3> QED BY <3>1, QuietKeepsOwner
  <2> QED BY <1>2, <2>1 DEF Request, Login, ChangeRole, Delete, Transfer
<1>3. ASSUME NEW c \in Calls, Rollback(c), lost => lost',
             pc[c] = "promote" => HasOwner \/ lost'
      PROVE  Goal
  <2>1. /\ role' = role /\ pc'[c] = "idle"
        /\ \A d \in Calls \ {c} : pc'[d] = pc[d] /\ call'[d] = call[d]
    BY <1>3 DEF Rollback, Stop, Step, TypeOK
  <2> QED BY <1>3, <2>1, QuietKeepsOwner
<1>4. ASSUME NEW c \in Calls, CallStep(c)
      PROVE  Goal
  <2>1. CASE Find(c)
    <3>1. /\ pc[c] = "find" /\ pc'[c] \in {"count", "upsert"} /\ role' = role /\ lost' = lost
          /\ \A d \in Calls \ {c} : pc'[d] = pc[d] /\ call'[d] = call[d]
      BY <2>1 DEF Find, Pass, Step, TypeOK
    <3> QED BY <3>1, QuietKeepsOwner
  <2>2. CASE CheckSeatLimit(c)
    BY <2>2, CheckKeepsOwner DEF CheckSeatLimit
  <2>3. CASE Upsert(c)
    <3> DEFINE new(row) == [role EXCEPT ![row] = IF Live(row) THEN @ ELSE "member"]
    <3>1. PICK row \in RowFor(actor(c)[1]) :
            /\ IF role[row] = "owner"
               THEN Stop(c, "upsert")
               ELSE Step(c, "upsert", "promote") /\ call' = [call EXCEPT ![c].target = row]
            /\ Store(c, new(row))
      BY <2>3 DEF Upsert
    <3>2. row \in Rows
      BY DEF RowFor, RowsOf, Members, Unused
    <3>3. /\ \A d \in Calls \ {c} : pc'[d] = pc[d] /\ call'[d] = call[d]
          /\ pc'[c] # "write"
      BY <3>1 DEF Stop, Step, TypeOK
    <3>4. role' = new(row)
      BY <3>1 DEF Store
    <3>5. HasOwner => HasOwner'
      BY <3>2, <3>4 DEF TypeOK, HasOwner, Owners, Live, Roles
    <3>6. ~HasOwner => HasPromoter'
      <4> SUFFICES ASSUME ~HasOwner PROVE HasPromoter' OBVIOUS
      <4>1. role[row] # "owner"
        BY <3>2 DEF HasOwner, Owners
      <4>2. pc'[c] = "promote" /\ target(c)' = row
        BY <3>1, <4>1 DEF Step, TypeOK, target
      <4>3. role'[row] \in Roles
        BY <3>2, <3>4 DEF TypeOK, Live, Roles
      <4> QED BY <4>2, <4>3 DEF HasPromoter, Live
    <3> HIDE DEF new
    <3> QED BY <3>1, <3>3, <3>5, <3>6, StoreKeepsOwner
  <2>4. CASE Promote(c)
    <3> DEFINE new == IF Live(target(c)) /\ ~HasOwner
                      THEN [role EXCEPT ![target(c)] = "owner"] ELSE role
    <3>1. /\ Store(c, new) /\ role' = new /\ pc[c] = "promote" /\ pc'[c] = "idle"
          /\ \A d \in Calls \ {c} : pc'[d] = pc[d] /\ call'[d] = call[d]
      BY <2>4 DEF Promote, Store, Stop, Step, TypeOK
    <3>2. HasOwner => HasOwner'
      BY <3>1 DEF HasOwner, Owners
    <3>3. CASE ~HasOwner /\ Live(target(c))
      <4>1. target(c) \in Rows /\ role' = [role EXCEPT ![target(c)] = "owner"]
        BY <3>1, <3>3 DEF TypeOK
      <4>2. HasOwner'
        BY <4>1 DEF TypeOK, HasOwner, Owners
      <4> HIDE DEF new
      <4> QED BY <3>1, <3>2, <3>3, <4>2, StoreKeepsOwner
    <3>4. CASE HasOwner
      <4> HIDE DEF new
      <4> QED BY <3>1, <3>2, <3>4, StoreKeepsOwner
    <3>5. CASE ~HasOwner /\ ~Live(target(c))
      <4>1. role' = role
        BY <3>1, <3>5
      <4>2. Members' = Members
        BY <4>1 DEF Members, Live
      <4>3. HasPromoter => HasPromoter'
        BY <3>1, <3>5, <4>1 DEF HasPromoter, Live, target
      <4> HIDE DEF new
      <4> QED BY <3>1, <3>2, <3>5, <4>2, <4>3, StoreKeepsOwner DEF OwnedUnlessLost, HasPromoter
    <3> QED BY <3>3, <3>4, <3>5
  <2>5. CASE Guard(c)
    BY <2>5, CheckKeepsOwner DEF Guard, AfterGuard
  <2>6. CASE ReadActor(c)
    BY <2>6, CheckKeepsOwner DEF ReadActor
  <2>7. CASE ReadTarget(c)
    BY <2>7, CheckKeepsOwner DEF ReadTarget, AfterTarget
  <2>8. CASE CountAdmins(c)
    <3>1. call[c].kind # "delete"
      BY <2>8 DEF CountAdmins, Check, ReadInv, KindOf
    <3> QED BY <2>8, <3>1, CheckKeepsOwner DEF CountAdmins
  <2>9. CASE Write(c)
    <3> DEFINE new == [role EXCEPT ![target(c)] =
                         IF ~Live(target(c)) THEN @
                         ELSE IF call[c].kind = "delete" THEN "gone" ELSE call[c].wants]
    <3>1. /\ Store(c, new) /\ role' = new /\ pc[c] = "write" /\ pc'[c] = "idle"
          /\ \A d \in Calls \ {c} : pc'[d] = pc[d] /\ call'[d] = call[d]
      BY <2>9 DEF Write, Store, Stop, Step, TypeOK
    <3>2. ASSUME HasOwner, ~overtaken[c] PROVE HasOwner'
      <4>1. role[target(c)] \in {"admin", "member"}
        BY <3>1, <3>2 DEF ReadInv
      <4>2. PICK r \in Rows : role[r] = "owner"
        BY <3>2 DEF HasOwner, Owners
      <4>3. role'[r] = "owner"
        BY <3>1, <4>1, <4>2 DEF TypeOK
      <4> QED BY <4>2, <4>3 DEF HasOwner, Owners
    <3>3. ASSUME ~HasOwner, ~lost PROVE Members' = {} \/ HasPromoter'
      <4>1. call[c].kind # "delete" /\ target(c) \in Rows /\ call[c].wants \in {"admin", "member"}
        BY <3>1, <3>3 DEF HeirInv, TypeOK
      <4>2. ASSUME NEW r \in Rows PROVE Live(r)' = Live(r)
        BY <3>1, <4>1, <4>2 DEF TypeOK, Live, Roles
      <4>3. Members' = Members
        BY <4>2 DEF Members
      <4>4. HasPromoter => HasPromoter'
        BY <3>1, <4>2 DEF HasPromoter, target, TypeOK
      <4> QED BY <3>3, <4>3, <4>4 DEF OwnedUnlessLost, HasPromoter
    <3> HIDE DEF new
    <3> QED BY <3>1, <3>2, <3>3, StoreKeepsOwner
  <2>10. CASE ReadOwner(c)
    BY <2>10, CheckKeepsOwner DEF ReadOwner
  <2>11. CASE ReadCurrentOwner(c) \/ ReadNewOwner(c)
    BY <2>11, CheckKeepsOwner DEF ReadCurrentOwner, ReadNewOwner
  <2>12. CASE Demote(c)
    <3>1. /\ pc[c] = "demote" /\ pc'[c] = "commit" /\ role' = role /\ lost' = lost
          /\ call' = call /\ \A d \in Calls \ {c} : pc'[d] = pc[d]
      BY <2>12 DEF Demote, Step, TypeOK
    <3> QED BY <3>1, QuietKeepsOwner
  <2>13. CASE Commit(c)
    <3> DEFINE demoted == [role EXCEPT ![actor(c)] =
                             IF actor(c) \in held[c] \cap Members THEN "admin" ELSE @]
               new == [demoted EXCEPT ![target(c)] = IF Live(target(c)) THEN "owner" ELSE @]
    <3>1. pc[c] = "commit"
      BY <2>13 DEF Commit
    <3>2. CASE Rollback(c) /\ UNCHANGED lost
      BY <1>3, <3>1, <3>2
    <3>3. CASE Stop(c, "commit") /\ Store(c, new)
      <4>1. /\ role' = new /\ pc'[c] = "idle"
            /\ \A d \in Calls \ {c} : pc'[d] = pc[d] /\ call'[d] = call[d]
        BY <3>3 DEF Store, Stop, Step, TypeOK
      <4>2. /\ demoted \in [Rows -> {"none", "gone"} \cup Roles]
            /\ target(c) \in Rows
        BY <3>1 DEF TypeOK, Roles
      <4>3. Live(target(c)) => HasOwner'
        BY <4>1, <4>2 DEF HasOwner, Owners
      <4>4. HasOwner /\ ~overtaken[c] => HasOwner'
        BY <3>1, <4>3 DEF ReadInv
      <4>5. ASSUME ~HasOwner, ~lost, ~Live(target(c)) PROVE Members' = {} \/ HasPromoter'
        <5>1. role' = demoted
          BY <4>1, <4>2, <4>5
        <5>2. ASSUME NEW r \in Rows PROVE Live(r)' = Live(r)
          BY <5>1, <5>2 DEF TypeOK, Live, Roles, Members
        <5>3. Members' = Members
          BY <5>2 DEF Members
        <5>4. HasPromoter => HasPromoter'
          BY <3>1, <4>1, <5>2 DEF HasPromoter, target, TypeOK
        <5> QED BY <4>5, <5>3, <5>4 DEF OwnedUnlessLost, HasPromoter
      <4> HIDE DEF new
      <4> QED BY <3>3, <4>1, <4>3, <4>4, <4>5, StoreKeepsOwner
    <3> QED BY <2>13, <3>2, <3>3 DEF Commit
  <2>14. CASE Deadlock(c)
    BY <1>3, <2>14 DEF Deadlock
  <2> QED BY <1>4, <2>1, <2>2, <2>3, <2>4, <2>5, <2>6, <2>7, <2>8, <2>9, <2>10, <2>11, <2>12,
             <2>13, <2>14 DEF CallStep
<1>5. ASSUME NEW c \in Calls, Fail(c)
      PROVE  Goal
  BY <1>3, <1>5 DEF Fail
<1> QED BY <1>1, <1>2, <1>4, <1>5 DEF Next

(* A tenant with members has an owner, or a login about to promote one, unless *)
(* an overtaken request or a failed first login has lost it.                   *)
THEOREM Owned == Spec => []OwnedUnlessLost
<1>1. Init => OwnedUnlessLost /\ HeirInv
  <2> SUFFICES ASSUME Init PROVE OwnedUnlessLost /\ HeirInv OBVIOUS
  <2>1. HeirInv
    BY DEF Init, HeirInv
  <2>2. CASE Members = {}
    BY <2>1, <2>2 DEF OwnedUnlessLost
  <2>3. CASE Cardinality(Owners) = 1
    <3>1. Owners # {}
      BY <2>3, FS_EmptySet
    <3> QED BY <2>1, <3>1 DEF OwnedUnlessLost, HasOwner
  <2> QED BY <2>2, <2>3 DEF Init
<1>2. TypeOK /\ (\A c \in Calls : ReadInv(c)) /\ OwnedUnlessLost /\ HeirInv /\ [Next]_vars =>
        OwnedUnlessLost' /\ HeirInv'
  BY NextKeepsOwner
<1> QED BY <1>1, <1>2, ReadsHold, PTL DEF Spec
-----------------------------------------------------------------------------
(* Who will get a row by a login that has passed the check, or that had found a *)
(* row which was deleted since.                                                 *)
PendingPeople ==
    {p \in People : RowsOf(p) = {} /\ \E c \in Calls : pc[c] = "upsert" /\ actor(c)[1] = p}

SeatInv == Cardinality(Members) + Cardinality(PendingPeople) <=
               SeatLimit + Cardinality(Calls) - 1

LEMMA RowsFinite == IsFiniteSet(Rows)
<1>1. IsFiniteSet(1..MaxJoins)
  BY FS_Interval, NumbersAssumption
<1>2. IsFiniteSet(People \X (1..MaxJoins))
  BY <1>1, FS_Product, SetsAssumption
<1> QED BY <1>2 DEF Rows

LEMMA SetsFinite ==
    /\ IsFiniteSet(Members) /\ Cardinality(Members) \in Nat
    /\ IsFiniteSet(PendingPeople) /\ Cardinality(PendingPeople) \in Nat
    /\ Cardinality(Calls) \in Nat /\ Cardinality(Calls) >= 1
<1>1. Members \in SUBSET Rows /\ PendingPeople \in SUBSET People
  BY DEF Members, PendingPeople
<1>2. IsFiniteSet(Members) /\ IsFiniteSet(PendingPeople)
  BY <1>1, RowsFinite, SetsAssumption, FS_Subset
<1> QED BY <1>2, SetsAssumption, FS_CardinalityType, FS_EmptySet

LEMMA SetsFiniteNext ==
    /\ IsFiniteSet(Members') /\ Cardinality(Members') \in Nat
    /\ IsFiniteSet(PendingPeople') /\ Cardinality(PendingPeople') \in Nat
<1>1. Members' \in SUBSET Rows /\ PendingPeople' \in SUBSET People
  BY DEF Members, PendingPeople
<1>2. IsFiniteSet(Members') /\ IsFiniteSet(PendingPeople')
  BY <1>1, RowsFinite, SetsAssumption, FS_Subset
<1> QED BY <1>2, FS_CardinalityType

LEMMA PendingBound == Cardinality(PendingPeople') <= Cardinality(Calls)
<1> DEFINE K == {c \in Calls : pc'[c] = "upsert" /\ actor(c)'[1] \in PendingPeople'}
           f == [c \in K |-> actor(c)'[1]]
<1>1. f \in [K -> PendingPeople']
  OBVIOUS
<1>2. ASSUME NEW p \in PendingPeople' PROVE \E c \in K : f[c] = p
  BY DEF PendingPeople
<1>3. f \in Surjection(K, PendingPeople')
  BY <1>1, <1>2 DEF Surjection
<1>4. K \in SUBSET Calls
  OBVIOUS
<1>5. IsFiniteSet(K) /\ Cardinality(K) <= Cardinality(Calls)
  BY <1>4, SetsAssumption, FS_Subset
<1>6. Cardinality(PendingPeople') <= Cardinality(K)
  <2> HIDE DEF K, f
  <2> QED BY <1>3, <1>5, FS_Surjection
<1>7. Cardinality(K) \in Nat
  BY <1>5, FS_CardinalityType
<1> QED BY <1>5, <1>6, <1>7, SetsFinite, SetsFiniteNext

(* Nobody gets a row or loses one, no login comes to its insert. *)
LEMMA QuietKeepsSeats ==
    ASSUME SeatInv, \A r \in Rows : Live(r)' = Live(r),
           \A c \in Calls : pc'[c] = "upsert" => pc[c] = "upsert" /\ call'[c] = call[c]
    PROVE  SeatInv'
<1>1. Members' = Members
  BY DEF Members
<1>2. \A p : RowsOf(p)' = RowsOf(p)
  BY <1>1 DEF RowsOf
<1>3. PendingPeople' \in SUBSET PendingPeople
  BY <1>2 DEF PendingPeople, actor
<1>4. Cardinality(PendingPeople') <= Cardinality(PendingPeople)
  BY <1>3, SetsFinite, FS_Subset
<1> QED BY <1>1, <1>4, SetsFinite, SetsFiniteNext, NumbersAssumption DEF SeatInv

LEMMA CheckKeepsSeats ==
    ASSUME TypeOK, SeatInv, NEW c \in Calls, NEW from, NEW to, NEW ok,
           Check(c, from, ok, to), to # "upsert"
    PROVE  SeatInv'
<1>1. /\ role' = role /\ pc'[c] # "upsert"
      /\ \A d \in Calls \ {c} : pc'[d] = pc[d] /\ call'[d] = call[d]
  BY DEF Check, Pass, End, Stop, Step, TypeOK
<1> QED BY <1>1, QuietKeepsSeats DEF Live

LEMMA NextKeepsSeats ==
    ASSUME TypeOK, \A c \in Calls : ReadInv(c), SeatInv, [Next]_vars
    PROVE  SeatInv'
<1>1. CASE UNCHANGED vars
  BY <1>1, QuietKeepsSeats DEF vars, Live
<1>2. ASSUME NEW c \in Calls, Request(c)
      PROVE  SeatInv'
  <2>1. ASSUME NEW k, NEW a, NEW t, NEW w, NEW s \in {"find", "guard"}, Begin(c, k, a, t, w, s)
        PROVE  SeatInv'
    <3>1. /\ pc'[c] # "upsert" /\ role' = role
          /\ \A d \in Calls \ {c} : pc'[d] = pc[d] /\ call'[d] = call[d]
      BY <2>1 DEF Begin, Step, TypeOK
    <3> QED BY <3>1, QuietKeepsSeats DEF Live
  <2> QED BY <1>2, <2>1 DEF Request, Login, ChangeRole, Delete, Transfer
<1>3. ASSUME NEW c \in Calls, NEW from, Stop(c, from), \A r \in Rows : Live(r)' = Live(r)
      PROVE  SeatInv'
  <2>1. /\ pc'[c] # "upsert"
        /\ \A d \in Calls \ {c} : pc'[d] = pc[d] /\ call'[d] = call[d]
    BY <1>3 DEF Stop, Step, TypeOK
  <2> QED BY <1>3, <2>1, QuietKeepsSeats
<1>4. ASSUME NEW c \in Calls, Rollback(c)
      PROVE  SeatInv'
  BY <1>3, <1>4 DEF Rollback, Live
<1>5. ASSUME NEW c \in Calls, CallStep(c)
      PROVE  SeatInv'
  <2>1. CASE Find(c)
    <3>1. /\ role' = role /\ call' = call /\ \A d \in Calls \ {c} : pc'[d] = pc[d]
          /\ pc'[c] = "upsert" => RowsOf(actor(c)[1]) # {}
      BY <2>1 DEF Find, Pass, Step, TypeOK
    <3>2. Members' = Members /\ (\A p : RowsOf(p)' = RowsOf(p)) /\ \A d : actor(d)' = actor(d)
      BY <3>1 DEF Members, Live, RowsOf, actor
    <3>3. PendingPeople' \in SUBSET PendingPeople
      BY <3>1, <3>2 DEF PendingPeople
    <3>4. Cardinality(PendingPeople') <= Cardinality(PendingPeople)
      BY <3>3, SetsFinite, FS_Subset
    <3> QED BY <3>2, <3>4, SetsFinite, SetsFiniteNext, NumbersAssumption DEF SeatInv
  <2>2. CASE CheckSeatLimit(c)
    <3>1. CASE Cardinality(Members) < SeatLimit
      <4>1. Members' = Members
        BY <2>2, <3>1 DEF CheckSeatLimit, Check, Pass, Members, Live
      <4> QED BY <3>1, <4>1, PendingBound, SetsFinite, SetsFiniteNext, NumbersAssumption
              DEF SeatInv
    <3>2. CASE ~(Cardinality(Members) < SeatLimit)
      BY <1>3, <2>2, <3>2 DEF CheckSeatLimit, Check, End, Live
    <3> QED BY <3>1, <3>2
  <2>3. CASE Upsert(c)
    <3> DEFINE p == actor(c)[1]
    <3>1. PICK row \in RowFor(p) :
            /\ IF role[row] = "owner"
               THEN Stop(c, "upsert")
               ELSE Step(c, "upsert", "promote") /\ call' = [call EXCEPT ![c].target = row]
            /\ Store(c, [role EXCEPT ![row] = IF Live(row) THEN @ ELSE "member"])
      BY <2>3 DEF Upsert
    <3>2. /\ row \in Rows /\ row[1] = p
          /\ role' = [role EXCEPT ![row] = IF Live(row) THEN @ ELSE "member"]
      BY <3>1 DEF RowFor, RowsOf, Members, Unused, Store
    <3>3. /\ pc[c] = "upsert" /\ pc'[c] # "upsert"
          /\ \A d \in Calls \ {c} : pc'[d] = pc[d] /\ call'[d] = call[d]
      BY <3>1 DEF Stop, Step, TypeOK
    <3>4. CASE Live(row)
      <4>1. role' = role
        BY <3>2, <3>4 DEF TypeOK
      <4> QED BY <3>3, <4>1, QuietKeepsSeats DEF Live
    <3>5. CASE ~Live(row)
      <4>1. Members' = Members \cup {row} /\ row \notin Members
        BY <3>2, <3>5 DEF TypeOK, Members, Live, Roles
      <4>2. RowsOf(p) = {} /\ p \in People
        BY <3>1, <3>2, <3>5 DEF RowFor, RowsOf, Members, Rows
      <4>3. p \in PendingPeople
        BY <3>3, <4>2 DEF PendingPeople
      <4>4. PendingPeople' \in SUBSET (PendingPeople \ {p})
        <5>1. ASSUME NEW q \in PendingPeople' PROVE q \in PendingPeople \ {p}
          <6>1. q \in People /\ RowsOf(q)' = {}
            BY <5>1 DEF PendingPeople
          <6>2. q # p
            BY <3>2, <4>1, <6>1 DEF RowsOf
          <6>3. RowsOf(q) = {}
            BY <4>1, <6>1 DEF RowsOf
          <6>4. PICK d \in Calls : pc'[d] = "upsert" /\ actor(d)'[1] = q
            BY <5>1 DEF PendingPeople
          <6>5. pc[d] = "upsert" /\ actor(d) = actor(d)'
            BY <3>3, <6>4 DEF actor
          <6> QED BY <6>1, <6>2, <6>3, <6>4, <6>5 DEF PendingPeople
        <5> QED BY <5>1
      <4>5. /\ IsFiniteSet(PendingPeople \ {p})
            /\ Cardinality(PendingPeople \ {p}) = Cardinality(PendingPeople) - 1
        BY <4>3, SetsFinite, FS_RemoveElement
      <4>6. Cardinality(PendingPeople') <= Cardinality(PendingPeople) - 1
        BY <4>4, <4>5, FS_Subset
      <4>7. Cardinality(Members') = Cardinality(Members) + 1
        BY <4>1, SetsFinite, FS_AddElement
      <4> QED BY <4>6, <4>7, SetsFinite, SetsFiniteNext, NumbersAssumption DEF SeatInv
    <3> QED BY <3>4, <3>5
  <2>4. CASE Promote(c)
    <3>1. \A r \in Rows : Live(r)' = Live(r)
      BY <2>4 DEF Promote, Store, Live, Roles, TypeOK
    <3> QED BY <1>3, <2>4, <3>1 DEF Promote
  <2>5. CASE Guard(c)
    BY <2>5, CheckKeepsSeats DEF Guard, AfterGuard
  <2>6. CASE ReadActor(c)
    BY <2>6, CheckKeepsSeats DEF ReadActor
  <2>7. CASE ReadTarget(c)
    BY <2>7, CheckKeepsSeats DEF ReadTarget, AfterTarget
  <2>8. CASE CountAdmins(c)
    BY <2>8, CheckKeepsSeats DEF CountAdmins
  <2>9. CASE Write(c)
    <3> DEFINE t == target(c)
    <3>1. /\ role' = [role EXCEPT ![t] = IF ~Live(t) THEN @
                       ELSE IF call[c].kind = "delete" THEN "gone" ELSE call[c].wants]
          /\ Stop(c, "write") /\ t \in Rows
      BY <2>9 DEF Write, Store, Stop, Step, TypeOK
    <3>2. CASE ~Live(t) \/ call[c].kind # "delete"
      <4>1. call[c].wants \in {"admin", "member"}
        BY DEF TypeOK
      <4>2. \A r \in Rows : Live(r)' = Live(r)
        BY <3>1, <3>2, <4>1 DEF TypeOK, Live, Roles
      <4> QED BY <1>3, <3>1, <4>2
    <3>3. CASE Live(t) /\ call[c].kind = "delete"
      <4>1. Members' = Members \ {t} /\ t \in Members
        BY <3>1, <3>3 DEF TypeOK, Members, Live, Roles
      <4>2. pc'[c] # "upsert" /\ \A d \in Calls \ {c} : pc'[d] = pc[d] /\ call'[d] = call[d]
        BY <3>1 DEF Stop, Step, TypeOK
      <4>3. PendingPeople' \in SUBSET (PendingPeople \cup {t[1]})
        <5>1. ASSUME NEW q \in PendingPeople', q # t[1] PROVE q \in PendingPeople
          <6>1. q \in People /\ RowsOf(q)' = {}
            BY <5>1 DEF PendingPeople
          <6>2. RowsOf(q) = {}
            BY <4>1, <5>1, <6>1 DEF RowsOf
          <6>3. PICK d \in Calls : pc'[d] = "upsert" /\ actor(d)'[1] = q
            BY <5>1 DEF PendingPeople
          <6>4. pc[d] = "upsert" /\ actor(d) = actor(d)'
            BY <4>2, <6>3 DEF actor
          <6> QED BY <6>1, <6>2, <6>3, <6>4 DEF PendingPeople
        <5> QED BY <5>1
      <4>4. /\ IsFiniteSet(PendingPeople \cup {t[1]})
            /\ Cardinality(PendingPeople \cup {t[1]}) <= Cardinality(PendingPeople) + 1
        BY SetsFinite, FS_AddElement
      <4>5. Cardinality(PendingPeople') <= Cardinality(PendingPeople) + 1
        <5>1. Cardinality(PendingPeople \cup {t[1]}) \in Nat
          BY <4>4, FS_CardinalityType
        <5> QED BY <4>3, <4>4, <5>1, SetsFinite, SetsFiniteNext, FS_Subset
      <4>6. Cardinality(Members') = Cardinality(Members) - 1
        BY <4>1, SetsFinite, FS_RemoveElement
      <4> QED BY <4>5, <4>6, SetsFinite, SetsFiniteNext, NumbersAssumption DEF SeatInv
    <3> QED BY <3>2, <3>3
  <2>10. CASE ReadOwner(c)
    BY <2>10, CheckKeepsSeats DEF ReadOwner
  <2>11. CASE ReadCurrentOwner(c) \/ ReadNewOwner(c)
    BY <2>11, CheckKeepsSeats DEF ReadCurrentOwner, ReadNewOwner
  <2>12. CASE Demote(c)
    <3>1. /\ pc'[c] # "upsert" /\ role' = role /\ call' = call
          /\ \A d \in Calls \ {c} : pc'[d] = pc[d]
      BY <2>12 DEF Demote, Step, TypeOK
    <3> QED BY <3>1, QuietKeepsSeats DEF Live
  <2>13. CASE Commit(c)
    <3> DEFINE demoted == [role EXCEPT ![actor(c)] =
                             IF actor(c) \in held[c] \cap Members THEN "admin" ELSE @]
               new == [demoted EXCEPT ![target(c)] = IF Live(target(c)) THEN "owner" ELSE @]
    <3>1. CASE Rollback(c)
      BY <1>4, <3>1
    <3>2. CASE Stop(c, "commit") /\ Store(c, new)
      <4>1. \A r \in Rows : demoted[r] \in Roles <=> Live(r)
        BY DEF TypeOK, Live, Roles, Members
      <4>2. demoted \in [Rows -> {"none", "gone"} \cup Roles]
        BY DEF TypeOK, Roles
      <4>3. \A r \in Rows : new[r] \in Roles <=> Live(r)
        <5> HIDE DEF demoted
        <5> QED BY <4>1, <4>2 DEF Roles
      <4>4. \A r \in Rows : Live(r)' = Live(r)
        <5> HIDE DEF new
        <5> QED BY <3>2, <4>3 DEF Store, Live
      <4> QED BY <1>3, <3>2, <4>4
    <3> QED BY <2>13, <3>1, <3>2 DEF Commit
  <2>14. CASE Deadlock(c)
    BY <1>4, <2>14 DEF Deadlock
  <2> QED BY <1>5, <2>1, <2>2, <2>3, <2>4, <2>5, <2>6, <2>7, <2>8, <2>9, <2>10, <2>11, <2>12,
             <2>13, <2>14 DEF CallStep
<1>6. ASSUME NEW c \in Calls, Fail(c)
      PROVE  SeatInv'
  BY <1>4, <1>6 DEF Fail
<1> QED BY <1>1, <1>2, <1>5, <1>6 DEF Next

(* The seats are passed by less than the requests there can be at a time. *)
THEOREM SeatsBounded == Spec => []SeatsOvershootBounded
<1>1. Init => SeatInv
  <2> SUFFICES ASSUME Init PROVE SeatInv OBVIOUS
  <2>1. PendingPeople = {}
    BY DEF Init, PendingPeople
  <2>2. Cardinality(PendingPeople) = 0
    BY <2>1, FS_EmptySet
  <2> QED BY <2>2, SetsFinite, NumbersAssumption DEF Init, SeatInv
<1>2. TypeOK /\ (\A c \in Calls : ReadInv(c)) /\ SeatInv /\ [Next]_vars => SeatInv'
  BY NextKeepsSeats
<1>3. SeatInv => SeatsOvershootBounded
  BY SetsFinite, NumbersAssumption DEF SeatInv, SeatsOvershootBounded
<1> QED BY <1>1, <1>2, <1>3, ReadsHold, PTL DEF Spec
=============================================================================
