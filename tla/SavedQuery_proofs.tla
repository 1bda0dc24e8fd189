--------------------------- MODULE SavedQuery_proofs ---------------------------
(* What holds of SavedQuery for any number of editors, texts, requests and   *)
(* failures.                                                                  *)
EXTENDS SavedQuery, TLAPS

(* The steps of a request that carry a text, and what else a request carries. *)
Texted == {"begin", "check", "write", "version", "commit", "answer", "reading",
           "restore", "patch", "record"}

CarriesInv(e) ==
    /\ pc[e] \in Texted => job[e].text \in Texts
    /\ pc[e] = "answer" => job[e].hash \in Texts
    /\ pc[e] = "check" \/ (pc[e] = "begin" /\ job[e].hash # None)
         => job[e].kind = "save"

(* One of the versions is the newest: what Latest chooses exists. *)
NewestExists == \E v \in versions : \A w \in versions : w.at <= v.at

ShapeInv == TypeOK /\ NewestExists /\ \A e \in Editors : CarriesInv(e)

LEMMA LatestIsKept ==
    ASSUME TypeOK, NewestExists
    PROVE  /\ \E v \in versions : Latest = v.text /\ \A w \in versions : w.at <= v.at
           /\ Latest \in Texts /\ Latest \in Kept
  BY DEF TypeOK, NewestExists, Latest, Kept

LEMMA SendShape ==
    ASSUME ShapeInv, NEW e \in Editors, NEW at \in Steps, NEW carries \in Jobs,
           Send(e, at, carries)
    PROVE  /\ pc' \in [Editors -> Steps] /\ pc'[e] = at
           /\ job' \in [Editors -> Jobs] /\ job'[e] = carries
           /\ \A x \in Editors : x # e => pc'[x] = pc[x] /\ job'[x] = job[x]
           /\ bounds' \in [requests : Nat, typed : Nat, failures : Nat]
           /\ raced' \in [Editors -> SUBSET {"row", "activity", "gone"}]
           /\ typed' \in [Editors -> BOOLEAN]
           /\ raced'[e] = {} /\ ~typed'[e]
           /\ \A x \in Editors : x # e => raced'[x] = raced[x] /\ typed'[x] = typed[x]
  BY DEF ShapeInv, TypeOK, Send

LEMMA GotoShape ==
    ASSUME ShapeInv, NEW e \in Editors, NEW at \in Steps, Goto(e, at)
    PROVE  /\ pc' \in [Editors -> Steps] /\ pc'[e] = at
           /\ \A x \in Editors : x # e => pc'[x] = pc[x]
           /\ bounds' = bounds
  BY DEF ShapeInv, TypeOK, Goto

LEMMA IdleJob == Idle \in Jobs
  BY DEF Idle, Jobs

LEMMA FinishShape ==
    ASSUME ShapeInv, NEW e \in Editors, Finish(e)
    PROVE  /\ pc' \in [Editors -> Steps] /\ pc'[e] = "idle"
           /\ job' \in [Editors -> Jobs] /\ job'[e] = Idle
           /\ \A x \in Editors : x # e => /\ pc'[x] = pc[x] /\ job'[x] = job[x]
                                          /\ typed'[x] = typed[x]
           /\ bounds' = bounds
           /\ typed' \in [Editors -> BOOLEAN] /\ ~typed'[e]
  BY IdleJob DEF ShapeInv, TypeOK, Finish, Steps

LEMMA OvertakesShape ==
    ASSUME ShapeInv, NEW e \in Editors, NEW step, NEW what \in {"row", "activity", "gone"},
           Overtakes(e, step, what)
    PROVE  /\ raced' \in [Editors -> SUBSET {"row", "activity", "gone"}]
           /\ raced'[e] = {}
           /\ \A x \in Editors : x # e =>
                raced'[x] = IF pc[x] = step THEN raced[x] \cup {what} ELSE raced[x]
  BY DEF ShapeInv, TypeOK, Overtakes
-----------------------------------------------------------------------------
LEMMA UpdateShape ==
    ASSUME ShapeInv, NEW e \in Editors, pc[e] \in {"idle", "conflict"},
           NEW kind \in {"save", "continue", "theirs", "remote"},
           NEW text \in Texts, NEW expected \in Texts \cup {None, Foreign},
           expected # None => kind = "save",
           Update(e, kind, text, expected)
    PROVE  /\ ShapeInv'
           /\ pc'[e] = "begin"
           /\ job'[e] = [Idle EXCEPT !.kind = kind, !.text = text, !.hash = expected]
<1> DEFINE j == [Idle EXCEPT !.kind = kind, !.text = text, !.hash = expected]
<1>1. /\ j \in Jobs /\ j.text \in Texts /\ j.hash = expected /\ j.kind = kind
  BY DEF Idle, Jobs
<1>2. Send(e, "begin", j) /\ UNCHANGED <<database, activity, tab, seen, strayed, astray>>
  BY DEF Update
<1> HIDE DEF j
<1>3. /\ pc' \in [Editors -> Steps] /\ pc'[e] = "begin"
      /\ job' \in [Editors -> Jobs] /\ job'[e] = j
      /\ \A x \in Editors : x # e => pc'[x] = pc[x] /\ job'[x] = job[x]
      /\ bounds' \in [requests : Nat, typed : Nat, failures : Nat]
      /\ raced' \in [Editors -> SUBSET {"row", "activity", "gone"}]
      /\ typed' \in [Editors -> BOOLEAN]
  BY <1>1, <1>2, SendShape DEF Steps
<1>4. TypeOK'
  BY <1>2, <1>3 DEF ShapeInv, TypeOK, database, activity
<1>5. NewestExists'
  BY <1>2 DEF ShapeInv, NewestExists, database
<1>6. \A x \in Editors : CarriesInv(x)'
  BY <1>1, <1>3 DEF ShapeInv, CarriesInv, Texted
<1> QED  BY <1>3, <1>4, <1>5, <1>6 DEF ShapeInv, j

(* The requests that Update sends. *)
Updating(e) ==
    Save(e) \/ Overwrite(e) \/ SaveAndContinue(e) \/ AcceptTheirs(e) \/ KeepRemote(e)

LEMMA UpdatingIsUpdate ==
    ASSUME ShapeInv, NEW e \in Editors, Updating(e)
    PROVE  /\ pc[e] \in {"idle", "conflict"}
           /\ \E kind \in {"save", "continue", "theirs", "remote"}, text \in Texts,
                 expected \in Texts \cup {None, Foreign} :
                /\ Update(e, kind, text, expected)
                /\ expected # None => kind = "save"
                /\ kind \in {"save", "continue"} => text = tab[e].content
<1>1. tab[e].content \in Texts /\ tab[e].hash \in Texts \cup {None, Foreign}
      /\ remote \in Texts \cup {None}
  BY DEF ShapeInv, TypeOK
<1> QED
  BY <1>1 DEF Updating, Save, Overwrite, SaveAndContinue, AcceptTheirs, KeepRemote

(* A step of one editor keeps the shape if what it writes is well-formed ... *)
LEMMA StepShape ==
    ASSUME ShapeInv, NEW e \in Editors,
           row' \in Texts, linked' \in BOOLEAN,
           versions' \subseteq [text : Texts, at : Nat], NewestExists',
           clock' \in Nat, remote' \in Texts \cup {None},
           published' \in Texts \cup {None},
           astray' \in [text : BOOLEAN, publish : BOOLEAN, link : BOOLEAN],
           lock' \in Editors \cup {None},
           lock' = e <=> pc'[e] \in {"version", "commit"},
           \A x \in Editors : x # e => (lock' = x <=> lock = x),
           tab' \in [Editors -> [content : Texts, original : Texts,
                                 hash : Texts \cup {Foreign}]],
           pc' \in [Editors -> Steps], job' \in [Editors -> Jobs],
           \A x \in Editors : x # e => pc'[x] = pc[x] /\ job'[x] = job[x],
           bounds' \in [requests : Nat, typed : Nat, failures : Nat],
           seen' \in [Editors -> SUBSET Texts],
           raced' \in [Editors -> SUBSET {"row", "activity", "gone"}],
           typed' \in [Editors -> BOOLEAN], strayed' \in [Editors -> BOOLEAN],
           CarriesInv(e)'
    PROVE  ShapeInv'
<1>1. TypeOK'
  BY DEF ShapeInv, TypeOK
<1>2. ASSUME NEW x \in Editors  PROVE CarriesInv(x)'
  BY DEF ShapeInv, CarriesInv
<1> QED  BY <1>1, <1>2 DEF ShapeInv

(* ... and a step of the browser writes neither row nor activity.            *)
LEMMA TabShape ==
    ASSUME ShapeInv, NEW e \in Editors,
           UNCHANGED <<row, linked, versions, lock, clock, remote, published, astray>>,
           tab' \in [Editors -> [content : Texts, original : Texts,
                                 hash : Texts \cup {Foreign}]],
           pc' \in [Editors -> Steps], job' \in [Editors -> Jobs],
           \A x \in Editors : x # e => pc'[x] = pc[x] /\ job'[x] = job[x],
           pc[e] \in {"version", "commit"} <=> pc'[e] \in {"version", "commit"},
           bounds' \in [requests : Nat, typed : Nat, failures : Nat],
           seen' \in [Editors -> SUBSET Texts],
           raced' \in [Editors -> SUBSET {"row", "activity", "gone"}],
           typed' \in [Editors -> BOOLEAN], strayed' \in [Editors -> BOOLEAN],
           CarriesInv(e)'
    PROVE  ShapeInv'
<1>1. NewestExists'
  BY DEF ShapeInv, NewestExists
<1>2. /\ lock' = e <=> pc'[e] \in {"version", "commit"}
      /\ \A x \in Editors : x # e => (lock' = x <=> lock = x)
  BY DEF ShapeInv, TypeOK
<1> QED  BY <1>1, <1>2, StepShape DEF ShapeInv, TypeOK

LEMMA BrowserShape ==
    ASSUME ShapeInv, NEW e \in Editors, BrowserStep(e)
    PROVE  ShapeInv'
<1> USE DEF database, activity, history
<1>0. TypeOK /\ CarriesInv(e)
  BY DEF ShapeInv
<1>1. ASSUME NEW t \in Texts, Type(e, t)  PROVE ShapeInv'
  <2>1. /\ UNCHANGED <<database, activity, pc, job, raced, strayed, astray>>
        /\ typed' = [typed EXCEPT ![e] = pc[e] # "idle"]
        /\ bounds' = [bounds EXCEPT !.typed = @ + 1]
        /\ tab' = [tab EXCEPT ![e].content = t]
        /\ seen' = [seen EXCEPT ![e] = @ \cup {t}]
    BY <1>1 DEF Type
  <2>2. /\ typed' \in [Editors -> BOOLEAN]
        /\ bounds' \in [requests : Nat, typed : Nat, failures : Nat]
        /\ seen' \in [Editors -> SUBSET Texts]
    BY <2>1, <1>0 DEF TypeOK
  <2>3. tab' \in [Editors -> [content : Texts, original : Texts,
                             hash : Texts \cup {Foreign}]]
    BY <2>1, <1>0 DEF TypeOK
  <2>4. CarriesInv(e)'
    BY <2>1, <1>0 DEF CarriesInv
  <2> QED  BY <1>0, <2>1, <2>2, <2>3, <2>4, TabShape DEF TypeOK
<1>2. CASE OpenOther(e)
  <2>1. TypeOK'
    BY <1>2, <1>0 DEF OpenOther, TypeOK
  <2>2. NewestExists' /\ \A x \in Editors : CarriesInv(x)'
    BY <1>2 DEF OpenOther, ShapeInv, NewestExists, CarriesInv
  <2> QED  BY <2>1, <2>2 DEF ShapeInv
<1>3. CASE Updating(e)
  BY <1>3, UpdatingIsUpdate, UpdateShape
<1>4. CASE CancelConflict(e)
  <2>1. Finish(e) /\ UNCHANGED <<database, activity, tab, seen, raced, strayed, astray>>
        /\ pc[e] = "conflict"
    BY <1>4 DEF CancelConflict
  <2>2. CarriesInv(e)'
    BY <2>1, FinishShape DEF CarriesInv, Texted
  <2> QED  BY <1>0, <2>1, <2>2, FinishShape, TabShape DEF TypeOK
<1>5. CASE Answer(e)
  <2>1. /\ Finish(e) /\ UNCHANGED <<database, activity, raced, astray>>
        /\ pc[e] = "answer"
    BY <1>5 DEF Answer
  <2>2. job[e] \in Jobs /\ job[e].text \in Texts /\ job[e].hash \in Texts
        /\ tab[e] \in [content : Texts, original : Texts, hash : Texts \cup {Foreign}]
    BY <2>1, <1>0 DEF CarriesInv, Texted, TypeOK
  <2>3. \E saved \in Texts :
          /\ tab' = IF job[e].kind = "remote" THEN tab
                    ELSE [tab EXCEPT ![e] =
                            [content |-> saved, original |-> saved,
                             hash |-> IF job[e].kind = "save" THEN job[e].hash
                                                              ELSE @.hash]]
          /\ strayed' = [strayed EXCEPT ![e] =
                           IF job[e].kind = "remote" THEN @
                           ELSE job[e].kind # "theirs" /\ typed[e]]
          /\ seen' = [seen EXCEPT ![e] = @ \cup {saved}]
    BY <1>5, <2>2 DEF Answer
  <2>4. /\ tab' \in [Editors -> [content : Texts, original : Texts,
                                 hash : Texts \cup {Foreign}]]
        /\ seen' \in [Editors -> SUBSET Texts]
    BY <1>0, <2>2, <2>3 DEF TypeOK
  <2>5. strayed' \in [Editors -> BOOLEAN]
    BY <1>0, <2>3 DEF TypeOK
  <2>6. CarriesInv(e)'
    BY <2>1, FinishShape DEF CarriesInv, Texted
  <2> QED  BY <1>0, <2>1, <2>4, <2>5, <2>6, FinishShape, TabShape DEF TypeOK
<1>6. CASE Load(e)
  <2> DEFINE j == [Idle EXCEPT !.text = row]
  <2>1. Send(e, "reading", j) /\ UNCHANGED <<database, activity, tab, seen, strayed, astray>>
        /\ pc[e] \in {"conflict", "idle"}
    BY <1>6 DEF Load
  <2>2. j \in Jobs /\ j.text \in Texts
    BY <1>0 DEF Idle, Jobs, TypeOK
  <2> HIDE DEF j
  <2>3. "reading" \in Steps
    BY DEF Steps
  <2>4. CarriesInv(e)'
    BY <2>1, <2>2, <2>3, SendShape DEF CarriesInv, Texted
  <2> QED  BY <1>0, <2>1, <2>2, <2>3, <2>4, SendShape, TabShape, ZenonT(30) DEF TypeOK
<1>7. CASE Loaded(e)
  <2>1. /\ Finish(e) /\ UNCHANGED <<database, activity, raced, astray>>
        /\ job[e].text \in Texts /\ Latest \in Texts /\ pc[e] = "reading"
    BY <1>7, LatestIsKept DEF Loaded, ShapeInv, CarriesInv, Texted
  <2>2. /\ tab' \in [Editors -> [content : Texts, original : Texts,
                                 hash : Texts \cup {Foreign}]]
        /\ seen' \in [Editors -> SUBSET Texts] /\ strayed' \in [Editors -> BOOLEAN]
    BY <1>7, <1>0, <2>1 DEF Loaded, TypeOK
  <2>3. CarriesInv(e)'
    BY <2>1, FinishShape DEF CarriesInv, Texted
  <2> QED  BY <1>0, <2>1, <2>2, <2>3, FinishShape, TabShape DEF TypeOK
<1>8. CASE SaveTab(e)
  <2>1. UNCHANGED <<database, activity, pc, job, seen, raced, typed, astray>>
    BY <1>8 DEF SaveTab
  <2>2. tab[e] \in [content : Texts, original : Texts, hash : Texts \cup {Foreign}]
    BY <1>0 DEF TypeOK
  <2>3. /\ tab' \in [Editors -> [content : Texts, original : Texts,
                                 hash : Texts \cup {Foreign}]]
        /\ strayed' \in [Editors -> BOOLEAN]
    BY <1>8, <1>0, <2>2 DEF SaveTab, TypeOK
  <2>4. CarriesInv(e)'
    BY <2>1, <1>0 DEF CarriesInv
  <2>5. bounds' \in [requests : Nat, typed : Nat, failures : Nat]
    BY <1>8, <1>0 DEF SaveTab, TypeOK
  <2> QED  BY <1>0, <2>1, <2>3, <2>4, <2>5, TabShape DEF TypeOK
<1> QED  BY <1>1, <1>2, <1>3, <1>4, <1>5, <1>6, <1>7, <1>8 DEF BrowserStep, Updating

(* The steps of a transaction, and those of the requests without one. *)
UpdateStep(e) == Begin(e) \/ Check(e) \/ WriteRow(e) \/ Version(e) \/ Commit(e)
RequestStep(e) ==
    \/ \E v \in versions : Restore(e, v) \/ Publish(e, v)
    \/ RestoreRow(e) \/ Patch(e) \/ Record(e)
    \/ Link(e) \/ LinkRow(e) \/ Unlink(e) \/ DeleteRemote(e)

LEMMA NewestAdded ==
    ASSUME ShapeInv, NEW new \in [text : Texts, at : Nat], versions' = versions \cup {new}
    PROVE  /\ versions' \subseteq [text : Texts, at : Nat]
           /\ NewestExists'
<1>1. PICK v \in versions : \A w \in versions : w.at <= v.at
  BY DEF ShapeInv, NewestExists
<1>2. \A w \in versions : w.at \in Nat
  BY DEF ShapeInv, TypeOK
<1>3. CASE v.at <= new.at
  BY <1>1, <1>2, <1>3 DEF NewestExists, ShapeInv, TypeOK
<1>4. CASE new.at < v.at
  BY <1>1, <1>2, <1>4 DEF NewestExists, ShapeInv, TypeOK
<1> QED  BY <1>2, <1>1, <1>3, <1>4

(* A request notes something else in what it carries. *)
LEMMA BeganNoted ==
    ASSUME ShapeInv, NEW e \in Editors, NEW new \in Nat,
           job' = [job EXCEPT ![e].began = new]
    PROVE  /\ job' \in [Editors -> Jobs]
           /\ \A x \in Editors : x # e => job'[x] = job[x]
           /\ job'[e].text = job[e].text /\ job'[e].kind = job[e].kind
           /\ job'[e].hash = job[e].hash /\ job'[e].fresh = job[e].fresh
           /\ job'[e].began = new
<1>1. job \in [Editors -> Jobs]
  BY DEF ShapeInv, TypeOK
<1> QED  BY <1>1 DEF Jobs

LEMMA FreshNoted ==
    ASSUME ShapeInv, NEW e \in Editors, NEW new \in BOOLEAN,
           job' = [job EXCEPT ![e].fresh = new]
    PROVE  /\ job' \in [Editors -> Jobs]
           /\ \A x \in Editors : x # e => job'[x] = job[x]
           /\ job'[e].text = job[e].text /\ job'[e].kind = job[e].kind
           /\ job'[e].hash = job[e].hash /\ job'[e].began = job[e].began
           /\ job'[e].fresh = new
<1>1. job \in [Editors -> Jobs]
  BY DEF ShapeInv, TypeOK
<1> QED  BY <1>1 DEF Jobs

LEMMA HashNoted ==
    ASSUME ShapeInv, NEW e \in Editors, NEW new \in Texts,
           job' = [job EXCEPT ![e].hash = new]
    PROVE  /\ job' \in [Editors -> Jobs]
           /\ \A x \in Editors : x # e => job'[x] = job[x]
           /\ job'[e].text = job[e].text /\ job'[e].kind = job[e].kind
           /\ job'[e].began = job[e].began /\ job'[e].fresh = job[e].fresh
           /\ job'[e].hash = new
<1>1. job \in [Editors -> Jobs]
  BY DEF ShapeInv, TypeOK
<1> QED  BY <1>1 DEF Jobs

LEMMA UpdateStepShape ==
    ASSUME ShapeInv, NEW e \in Editors, UpdateStep(e)
    PROVE  ShapeInv'
<1> USE DEF database, activity, history
<1>0. TypeOK /\ CarriesInv(e) /\ NewestExists
  BY DEF ShapeInv
<1>1. CASE Begin(e)
  <2> DEFINE at == IF job[e].hash = None THEN "write" ELSE "check"
  <2>1. /\ pc[e] = "begin" /\ clock' = clock + 1 /\ Goto(e, at) /\ at \in Steps
        /\ job' = [job EXCEPT ![e].began = clock + 1]
        /\ UNCHANGED <<row, linked, versions, lock, activity, tab, history>>
    BY <1>1 DEF Begin, Steps
  <2>2. /\ job' \in [Editors -> Jobs]
        /\ \A x \in Editors : x # e => job'[x] = job[x]
        /\ job'[e].text = job[e].text /\ job'[e].hash = job[e].hash
        /\ job'[e].kind = job[e].kind
    <3>1. clock + 1 \in Nat
      BY <1>0 DEF TypeOK
    <3> QED  BY <2>1, <3>1, BeganNoted
  <2>3. CarriesInv(e)'
    BY <2>1, <2>2, <1>0, GotoShape DEF CarriesInv, Texted
  <2>4. NewestExists'
    BY <2>1, <1>0 DEF NewestExists
  <2> HIDE DEF at
  <2>5. pc'[e] \notin {"version", "commit"}
    BY <2>1, GotoShape DEF at
  <2>6. /\ lock' = e <=> pc'[e] \in {"version", "commit"}
        /\ \A x \in Editors : x # e => (lock' = x <=> lock = x)
    BY <1>0, <2>1, <2>5 DEF TypeOK
  <2>7. /\ pc' \in [Editors -> Steps] /\ bounds' = bounds
        /\ \A x \in Editors : x # e => pc'[x] = pc[x] /\ job'[x] = job[x]
    BY <2>1, <2>2, GotoShape
  <2>8. clock' \in Nat
    BY <2>1, <1>0 DEF TypeOK
  <2>9. /\ UNCHANGED <<row, linked, versions, lock, remote, published, tab, bounds,
                       seen, raced, typed, strayed, astray>>
    BY <2>1, <2>7
  <2> QED
    BY <1>0, <2>2, <2>3, <2>4, <2>6, <2>7, <2>8, <2>9, StepShape DEF TypeOK
<1>2. CASE Check(e)
  <2> DEFINE at == IF Fresh(e) THEN "write" ELSE "conflict"
  <2>1. /\ pc[e] = "check" /\ Goto(e, at) /\ at \in Steps
        /\ job' = IF Fresh(e) THEN job ELSE [job EXCEPT ![e] = Idle]
        /\ Unraced(e)
        /\ UNCHANGED <<database, activity, tab, seen, typed, strayed, astray>>
    BY <1>2 DEF Check, Steps
  <2>2. /\ job' \in [Editors -> Jobs]
        /\ \A x \in Editors : x # e => job'[x] = job[x]
        /\ Fresh(e) => job' = job
        /\ raced' \in [Editors -> SUBSET {"row", "activity", "gone"}]
    BY <2>1, <1>0, IdleJob DEF TypeOK, Unraced
  <2>3. CarriesInv(e)'
    BY <2>1, <2>2, <1>0, GotoShape DEF CarriesInv, Texted
  <2>4. pc'[e] \notin {"version", "commit"}
    BY <2>1, GotoShape
  <2> HIDE DEF at
  <2> QED  BY <1>0, <2>1, <2>2, <2>3, <2>4, GotoShape, TabShape DEF TypeOK
<1>3. CASE WriteRow(e)
  <2>1. /\ pc[e] = "write" /\ lock = None /\ lock' = e /\ Goto(e, "version")
        /\ UNCHANGED <<row, linked, versions, clock, activity, tab, job, history>>
        /\ "version" \in Steps
    BY <1>3 DEF WriteRow, Steps
  <2>2. CarriesInv(e)' /\ NewestExists'
    BY <2>1, <1>0, GotoShape DEF CarriesInv, Texted, NewestExists
  <2> QED  BY <1>0, <2>1, <2>2, GotoShape, StepShape, ConstantsAssumption DEF TypeOK
<1>4. CASE Version(e)
  <2>1. /\ pc[e] = "version" /\ Goto(e, "commit")
        /\ job' = [job EXCEPT ![e].fresh = NeedsVersion(e)]
        /\ UNCHANGED <<database, activity, tab, history>>
        /\ "commit" \in Steps
    BY <1>4 DEF Version, Steps
  <2>2. /\ job' \in [Editors -> Jobs]
        /\ \A x \in Editors : x # e => job'[x] = job[x]
        /\ job'[e].text = job[e].text
    <3>1. NeedsVersion(e) \in BOOLEAN
      BY DEF NeedsVersion
    <3> QED  BY <2>1, <3>1, FreshNoted
  <2>3. CarriesInv(e)'
    BY <2>1, <2>2, <1>0, GotoShape DEF CarriesInv, Texted
  <2>4. pc[e] \in {"version", "commit"} <=> pc'[e] \in {"version", "commit"}
    BY <2>1, GotoShape
  <2> QED  BY <1>0, <2>1, <2>2, <2>3, <2>4, GotoShape, TabShape, ZenonT(30) DEF TypeOK
<1>5. CASE Commit(e)
  <2> DEFINE new == [text |-> job[e].text, at |-> job[e].began]
  <2>1. /\ pc[e] = "commit" /\ row' = job[e].text
        /\ linked' = (linked \/ job[e].kind = "remote")
        /\ versions' = IF job[e].fresh THEN versions \cup {new} ELSE versions
        /\ lock' = None /\ Goto(e, "answer") /\ "answer" \in Steps
        /\ job' = [job EXCEPT ![e].hash = Latest']
        /\ Overtakes(e, "write", "row")
        /\ UNCHANGED <<clock, activity, tab, seen, typed, strayed>>
    BY <1>5 DEF Commit, Steps
  <2>2. job[e] \in Jobs /\ job[e].text \in Texts /\ new \in [text : Texts, at : Nat]
    BY <2>1, <1>0 DEF TypeOK, CarriesInv, Texted, Jobs
  <2>3. versions' \subseteq [text : Texts, at : Nat] /\ NewestExists'
    <3>1. CASE job[e].fresh
      BY <3>1, <2>1, <2>2, NewestAdded
    <3>2. CASE ~job[e].fresh
      BY <3>2, <2>1, <1>0 DEF TypeOK, NewestExists
    <3> QED  BY <3>1, <3>2
  <2>4. Latest' \in Texts
    BY <2>3 DEF NewestExists, Latest
  <2>5. /\ job' \in [Editors -> Jobs]
        /\ \A x \in Editors : x # e => job'[x] = job[x]
        /\ job'[e].text = job[e].text /\ job'[e].hash \in Texts
    BY <2>1, <2>4, HashNoted
  <2>6. CarriesInv(e)'
    BY <2>1, <2>2, <2>5, GotoShape DEF CarriesInv, Texted
  <2>7. astray' \in [text : BOOLEAN, publish : BOOLEAN, link : BOOLEAN]
    BY <1>5, <1>0 DEF Commit, TypeOK, DeletedSince
  <2>8. raced' \in [Editors -> SUBSET {"row", "activity", "gone"}]
    BY <2>1, OvertakesShape
  <2>9. /\ lock' \in Editors \cup {None} /\ linked' \in BOOLEAN
        /\ lock' = e <=> pc'[e] \in {"version", "commit"}
        /\ \A x \in Editors : x # e => (lock' = x <=> lock = x)
    BY <2>1, <1>0, GotoShape, ConstantsAssumption DEF TypeOK
  <2> HIDE DEF new
  <2>10. /\ pc' \in [Editors -> Steps] /\ bounds' = bounds
         /\ \A x \in Editors : x # e => pc'[x] = pc[x] /\ job'[x] = job[x]
    BY <2>1, <2>5, GotoShape
  <2>11. row' \in Texts
    BY <2>1, <2>2
  <2>12. UNCHANGED <<clock, remote, published, tab, bounds, seen, typed, strayed>>
    BY <2>1, <2>10
  <2> QED
    BY <1>0, <2>3, <2>5, <2>6, <2>7, <2>8, <2>9, <2>10, <2>11, <2>12, StepShape
    DEF TypeOK
<1> QED  BY <1>1, <1>2, <1>3, <1>4, <1>5 DEF UpdateStep

(* Of the other requests, what is sent and what is finished keep the shape. *)
LEMMA SentShape ==
    ASSUME ShapeInv, NEW e \in Editors,
           NEW at \in {"idle", "restore", "patch", "link", "delete"}, NEW carries \in Jobs,
           at \in {"restore", "patch"} => carries.text \in Texts,
           Send(e, at, carries), pc[e] = "idle", linked' \in BOOLEAN,
           versions' \subseteq [text : Texts, at : Nat], NewestExists', clock' \in Nat,
           UNCHANGED <<row, lock, remote, published, tab, seen, strayed, astray>>
    PROVE  ShapeInv'
<1>1. at \in Steps
  BY DEF Steps
<1>2. /\ pc' \in [Editors -> Steps] /\ pc'[e] = at
      /\ job' \in [Editors -> Jobs] /\ job'[e] = carries
      /\ \A x \in Editors : x # e => pc'[x] = pc[x] /\ job'[x] = job[x]
      /\ bounds' \in [requests : Nat, typed : Nat, failures : Nat]
      /\ raced' \in [Editors -> SUBSET {"row", "activity", "gone"}]
      /\ typed' \in [Editors -> BOOLEAN]
  BY <1>1, SendShape
<1>3. CarriesInv(e)'
  BY <1>2 DEF CarriesInv, Texted
<1>4. /\ lock' = e <=> pc'[e] \in {"version", "commit"}
      /\ \A x \in Editors : x # e => (lock' = x <=> lock = x)
  BY <1>2 DEF ShapeInv, TypeOK
<1> QED  BY <1>2, <1>3, <1>4, StepShape DEF ShapeInv, TypeOK

LEMMA FinishedShape ==
    ASSUME ShapeInv, NEW e \in Editors, Finish(e), lock # e, lock' = lock,
           row' \in Texts, linked' \in BOOLEAN, UNCHANGED <<versions, clock, strayed>>,
           remote' \in Texts \cup {None}, published' \in Texts \cup {None},
           tab' \in [Editors -> [content : Texts, original : Texts,
                                 hash : Texts \cup {Foreign}]],
           seen' \in [Editors -> SUBSET Texts],
           raced' \in [Editors -> SUBSET {"row", "activity", "gone"}],
           astray' \in [text : BOOLEAN, publish : BOOLEAN, link : BOOLEAN]
    PROVE  ShapeInv'
<1>1. CarriesInv(e)'
  BY FinishShape DEF CarriesInv, Texted
<1>2. NewestExists'
  BY DEF ShapeInv, NewestExists
<1>3. /\ lock' = e <=> pc'[e] \in {"version", "commit"}
      /\ \A x \in Editors : x # e => (lock' = x <=> lock = x)
  BY FinishShape
<1>4. /\ pc' \in [Editors -> Steps] /\ job' \in [Editors -> Jobs]
      /\ \A x \in Editors : x # e => pc'[x] = pc[x] /\ job'[x] = job[x]
      /\ bounds' = bounds /\ typed' \in [Editors -> BOOLEAN]
  BY FinishShape
<1> QED  BY <1>1, <1>2, <1>3, <1>4, StepShape DEF ShapeInv, TypeOK

LEMMA RequestStepShape ==
    ASSUME ShapeInv, NEW e \in Editors, RequestStep(e)
    PROVE  ShapeInv'
<1> USE DEF database, activity, history
<1>0. TypeOK /\ CarriesInv(e) /\ NewestExists
  BY DEF ShapeInv
<1>n. /\ \A v \in versions : v.text \in Texts
      /\ pc[e] \notin {"version", "commit"} => lock # e
  BY <1>0 DEF TypeOK
<1>u. Unraced(e) => raced' \in [Editors -> SUBSET {"row", "activity", "gone"}]
  BY <1>0 DEF TypeOK, Unraced
<1>1. ASSUME NEW v \in versions, Restore(e, v)  PROVE ShapeInv'
  <2> DEFINE new == [text |-> v.text, at |-> clock + 1]
             j == [Idle EXCEPT !.kind = "restore", !.text = v.text, !.began = clock + 1]
  <2>1. /\ pc[e] = "idle" /\ clock' = clock + 1 /\ versions' = versions \cup {new}
        /\ Send(e, "restore", j)
        /\ UNCHANGED <<row, linked, lock, activity, tab, seen, strayed, astray>>
    BY <1>1 DEF Restore
  <2>2. clock + 1 \in Nat /\ new \in [text : Texts, at : Nat]
        /\ v.text \in Texts
    BY <1>0, <1>n DEF TypeOK
  <2>j. j \in Jobs /\ j.text \in Texts
    BY <2>2 DEF Idle, Jobs
  <2> HIDE DEF new, j
  <2>3. versions' \subseteq [text : Texts, at : Nat] /\ NewestExists'
    BY <2>1, <2>2, NewestAdded
  <2>4. linked' \in BOOLEAN /\ clock' \in Nat
    BY <2>1, <2>2, <1>0 DEF TypeOK
  <2> QED  BY <2>1, <2>j, <2>3, <2>4, SentShape
<1>2. ASSUME NEW v \in versions, Publish(e, v)  PROVE ShapeInv'
  <2> DEFINE j == [Idle EXCEPT !.kind = "publish", !.text = v.text]
  <2>1. /\ pc[e] = "idle" /\ Send(e, "patch", j)
        /\ UNCHANGED <<database, activity, tab, seen, strayed, astray>>
    BY <1>2 DEF Publish
  <2>2. j \in Jobs /\ j.text \in Texts
    BY <1>n DEF Idle, Jobs
  <2> HIDE DEF j
  <2>3. NewestExists'
    BY <2>1, <1>0 DEF NewestExists
  <2> QED  BY <1>0, <2>1, <2>2, <2>3, SentShape DEF TypeOK
<1>3. CASE RestoreRow(e)
  <2>1. /\ pc[e] = "restore" /\ row' = job[e].text /\ Finish(e)
        /\ Overtakes(e, "write", "row") /\ job[e].text \in Texts
        /\ tab' = [tab EXCEPT ![e].content = job[e].text]
        /\ seen' = [seen EXCEPT ![e] = @ \cup {job[e].text}]
        /\ UNCHANGED <<linked, versions, lock, clock, activity, strayed>>
    BY <1>3, <1>0 DEF RestoreRow, CarriesInv, Texted
  <2>2. /\ tab' \in [Editors -> [content : Texts, original : Texts,
                                 hash : Texts \cup {Foreign}]]
        /\ seen' \in [Editors -> SUBSET Texts]
    BY <2>1, <1>0 DEF TypeOK
  <2>3. astray' \in [text : BOOLEAN, publish : BOOLEAN, link : BOOLEAN]
    BY <1>3, <1>0 DEF RestoreRow, TypeOK
  <2>4. raced' \in [Editors -> SUBSET {"row", "activity", "gone"}]
    BY <2>1, OvertakesShape
  <2> QED  BY <1>0, <1>n, <2>1, <2>2, <2>3, <2>4, FinishedShape DEF TypeOK
<1>4. CASE Patch(e) /\ remote # None
  <2>1. /\ pc[e] = "patch" /\ remote' = job[e].text /\ Goto(e, "record")
        /\ Overtakes(e, "record", "activity") /\ job[e].text \in Texts
        /\ UNCHANGED <<database, published, tab, seen, strayed, astray, job, typed>>
        /\ "record" \in Steps
    BY <1>4, <1>0 DEF Patch, CarriesInv, Texted, Steps
  <2>2. CarriesInv(e)' /\ NewestExists'
    BY <2>1, <1>0, GotoShape DEF CarriesInv, Texted, NewestExists
  <2>3. raced' \in [Editors -> SUBSET {"row", "activity", "gone"}]
    BY <2>1, OvertakesShape
  <2>4. pc[e] \notin {"version", "commit"} /\ remote' \in Texts \cup {None}
    BY <2>1
  <2>5. /\ pc' \in [Editors -> Steps] /\ bounds' = bounds
        /\ \A x \in Editors : x # e => pc'[x] = pc[x] /\ job'[x] = job[x]
        /\ lock' = e <=> pc'[e] \in {"version", "commit"}
    BY <1>n, <2>1, <2>4, GotoShape
  <2>6. UNCHANGED <<row, linked, versions, lock, clock, published, tab, bounds, seen,
                    typed, strayed, astray, job>>
    BY <2>1, <2>5
  <2> QED  BY <1>0, <2>2, <2>3, <2>4, <2>5, <2>6, StepShape DEF TypeOK
<1>5. CASE Patch(e) /\ remote = None
  <2>1. /\ pc[e] = "patch" /\ Finish(e) /\ Unraced(e)
        /\ UNCHANGED <<database, activity, tab, seen, strayed, astray>>
    BY <1>5 DEF Patch
  <2> QED  BY <1>0, <1>n, <1>u, <2>1, FinishedShape DEF TypeOK
<1>6. CASE Record(e)
  <2>1. /\ pc[e] = "record" /\ published' = job[e].text /\ Finish(e) /\ Unraced(e)
        /\ job[e].text \in Texts
        /\ UNCHANGED <<database, remote, tab, seen, strayed>>
    BY <1>6, <1>0 DEF Record, CarriesInv, Texted
  <2>2. astray' \in [text : BOOLEAN, publish : BOOLEAN, link : BOOLEAN]
    <3>1. astray \in [text : BOOLEAN, publish : BOOLEAN, link : BOOLEAN]
      BY <1>0 DEF TypeOK
    <3> DEFINE b == "activity" \in raced[e]
    <3>2. b \in BOOLEAN /\ astray' = [astray EXCEPT !.publish = b]
      BY <1>6 DEF Record
    <3> HIDE DEF b
    <3> QED  BY <3>1, <3>2
  <2> QED  BY <1>0, <1>n, <1>u, <2>1, <2>2, FinishedShape DEF TypeOK
<1>7. CASE Link(e)
  <2> DEFINE j == [Idle EXCEPT !.kind = "link"]
  <2>1. /\ pc[e] = "idle" /\ Send(e, "link", j)
        /\ UNCHANGED <<database, activity, tab, seen, strayed, astray>>
    BY <1>7 DEF Link
  <2>2. j \in Jobs
    BY DEF Idle, Jobs
  <2> HIDE DEF j
  <2>3. NewestExists'
    BY <2>1, <1>0 DEF NewestExists
  <2> QED  BY <1>0, <2>1, <2>2, <2>3, SentShape DEF TypeOK
<1>8. CASE LinkRow(e)
  <2>1. /\ pc[e] = "link" /\ linked' = TRUE /\ Finish(e) /\ Unraced(e)
        /\ UNCHANGED <<row, versions, lock, clock, activity, tab, seen, strayed>>
    BY <1>8 DEF LinkRow
  <2>2. astray' \in [text : BOOLEAN, publish : BOOLEAN, link : BOOLEAN]
    BY <1>8, <1>0 DEF LinkRow, TypeOK, DeletedSince
  <2> QED  BY <1>0, <1>n, <1>u, <2>1, <2>2, FinishedShape DEF TypeOK
<1>9. CASE Unlink(e)
  <2> DEFINE j == [Idle EXCEPT !.kind = "unlink"]
  <2>1. /\ pc[e] = "idle" /\ linked' = FALSE
        /\ Send(e, "delete", j) \/ Send(e, "idle", Idle)
        /\ UNCHANGED <<row, versions, lock, clock, activity, tab, seen, strayed, astray>>
    BY <1>9 DEF Unlink
  <2>2. j \in Jobs
    BY DEF Idle, Jobs
  <2> HIDE DEF j
  <2>3. NewestExists'
    BY <2>1, <1>0 DEF NewestExists
  <2> QED  BY <1>0, <2>1, <2>2, <2>3, IdleJob, SentShape DEF TypeOK
<1>10. CASE DeleteRemote(e)
  <2>1. /\ pc[e] = "delete" /\ remote' = None /\ Finish(e)
        /\ UNCHANGED <<database, published, tab, seen, strayed, astray>>
    BY <1>10 DEF DeleteRemote
  <2>2. raced' \in [Editors -> SUBSET {"row", "activity", "gone"}]
    BY <1>10, <1>0 DEF DeleteRemote, TypeOK
  <2> QED  BY <1>0, <1>n, <2>1, <2>2, FinishedShape DEF TypeOK
<1> QED
  BY <1>1, <1>2, <1>3, <1>4, <1>5, <1>6, <1>7, <1>8, <1>9, <1>10 DEF RequestStep

LEMMA FaultShape ==
    ASSUME ShapeInv, (\E e \in Editors : Crash(e) \/ AnswerLost(e)) \/ OutsideEdit
    PROVE  ShapeInv'
<1> USE DEF database, activity, history
<1>0. TypeOK /\ NewestExists /\ \A x \in Editors : CarriesInv(x)
  BY DEF ShapeInv
<1>f. ASSUME NEW kind, Fail(kind)
      PROVE  bounds' \in [requests : Nat, typed : Nat, failures : Nat]
  BY <1>f, <1>0 DEF Fail, TypeOK
<1>1. ASSUME NEW e \in Editors, Crash(e)  PROVE ShapeInv'
  <2>1. /\ lock' = IF lock = e THEN None ELSE lock
        /\ pc' = [pc EXCEPT ![e] = "idle"] /\ job' = [job EXCEPT ![e] = Idle]
        /\ typed' = [typed EXCEPT ![e] = FALSE] /\ Unraced(e)
        /\ UNCHANGED <<row, linked, versions, clock, activity, tab, seen, strayed>>
        /\ bounds' \in [requests : Nat, typed : Nat, failures : Nat]
    BY <1>1, <1>f DEF Crash
  <2>2. /\ pc' \in [Editors -> Steps] /\ pc'[e] = "idle"
        /\ job' \in [Editors -> Jobs]
        /\ \A x \in Editors : x # e => pc'[x] = pc[x] /\ job'[x] = job[x]
        /\ typed' \in [Editors -> BOOLEAN]
    BY <2>1, <1>0, IdleJob DEF TypeOK, Steps
  <2>3. raced' \in [Editors -> SUBSET {"row", "activity", "gone"}]
    BY <2>1, <1>0 DEF TypeOK, Unraced
  <2>4. astray' \in [text : BOOLEAN, publish : BOOLEAN, link : BOOLEAN]
    BY <1>1, <1>0 DEF Crash, TypeOK
  <2>5. CarriesInv(e)' /\ NewestExists'
    BY <2>1, <2>2, <1>0 DEF CarriesInv, Texted, NewestExists
  <2>6. /\ lock' \in Editors \cup {None}
        /\ lock' = e <=> pc'[e] \in {"version", "commit"}
        /\ \A x \in Editors : x # e => (lock' = x <=> lock = x)
    BY <1>0, <2>1, <2>2, ConstantsAssumption DEF TypeOK
  <2> QED  BY <1>0, <2>1, <2>2, <2>3, <2>4, <2>5, <2>6, StepShape DEF TypeOK
<1>2. ASSUME NEW e \in Editors, AnswerLost(e)  PROVE ShapeInv'
  <2>1. /\ pc[e] = "answer" /\ pc' = [pc EXCEPT ![e] = "idle"]
        /\ job' = [job EXCEPT ![e] = Idle] /\ typed' = [typed EXCEPT ![e] = FALSE]
        /\ UNCHANGED <<database, activity, tab, seen, raced, strayed, astray>>
        /\ bounds' \in [requests : Nat, typed : Nat, failures : Nat]
    BY <1>2, <1>f DEF AnswerLost
  <2>2. /\ pc' \in [Editors -> Steps] /\ pc'[e] = "idle"
        /\ job' \in [Editors -> Jobs]
        /\ \A x \in Editors : x # e => pc'[x] = pc[x] /\ job'[x] = job[x]
        /\ typed' \in [Editors -> BOOLEAN]
    BY <2>1, <1>0, IdleJob DEF TypeOK, Steps
  <2>3. CarriesInv(e)'
    BY <2>2 DEF CarriesInv, Texted
  <2> QED  BY <1>0, <2>1, <2>2, <2>3, TabShape DEF TypeOK
<1>3. CASE OutsideEdit
  <2>1. /\ remote' \in Texts \cup {None}
        /\ bounds' \in [requests : Nat, typed : Nat, failures : Nat]
        /\ UNCHANGED <<database, published, tab, pc, job, seen, typed, strayed>>
    BY <1>3, <1>f DEF OutsideEdit
  <2>2. astray' \in [text : BOOLEAN, publish : BOOLEAN, link : BOOLEAN]
    BY <1>3, <1>0 DEF OutsideEdit, TypeOK
  <2>3. raced' \in [Editors -> SUBSET {"row", "activity", "gone"}]
    BY <1>3, <1>0 DEF OutsideEdit, TypeOK
  <2>4. TypeOK'
    BY <1>0, <2>1, <2>2, <2>3 DEF TypeOK
  <2>5. NewestExists' /\ \A x \in Editors : CarriesInv(x)'
    BY <1>0, <2>1 DEF NewestExists, CarriesInv
  <2> QED  BY <2>4, <2>5 DEF ShapeInv
<1> QED  BY <1>1, <1>2, <1>3

LEMMA InitShape == ASSUME Init  PROVE ShapeInv
<1>1. \A e \in Editors : pc[e] = "idle" /\ job[e] = Idle
  BY DEF Init
<1>2. TypeOK
  BY ConstantsAssumption, IdleJob DEF Init, TypeOK, Steps
<1>3. NewestExists /\ \A e \in Editors : CarriesInv(e)
  BY <1>1 DEF Init, NewestExists, CarriesInv, Texted
<1> QED  BY <1>2, <1>3 DEF ShapeInv

LEMMA NextShape == ASSUME ShapeInv, [Next]_vars  PROVE ShapeInv'
<1>1. CASE UNCHANGED vars
  BY <1>1 DEF vars, database, activity, history, ShapeInv, TypeOK, NewestExists, CarriesInv
<1>2. ASSUME NEW e \in Editors, ServerStep(e)  PROVE ShapeInv'
  BY <1>2, UpdateStepShape, RequestStepShape DEF ServerStep, UpdateStep, RequestStep
<1> QED  BY <1>1, <1>2, BrowserShape, FaultShape DEF Next

(* Every variable has its type, and the row's lock is held by exactly the    *)
(* request between its UPDATE and its COMMIT.                                 *)
THEOREM TypeCorrect == Spec => []TypeOK
<1>1. Spec => []ShapeInv
  BY InitShape, NextShape, PTL DEF Spec
<1>2. ShapeInv => TypeOK
  BY DEF ShapeInv
<1> QED  BY <1>1, <1>2, PTL
-----------------------------------------------------------------------------
(* A step is one editor's, and leaves what belongs to the others; only a      *)
(* step outside belongs to none.                                              *)
StepOf(e) == BrowserStep(e) \/ ServerStep(e) \/ Crash(e) \/ AnswerLost(e)

LEMMA OthersStay ==
    ASSUME ShapeInv, NEW e \in Editors, StepOf(e), NEW x \in Editors, x # e
    PROVE  /\ pc'[x] = pc[x] /\ job'[x] = job[x] /\ tab'[x] = tab[x]
           /\ seen'[x] = seen[x] /\ typed'[x] = typed[x] /\ strayed'[x] = strayed[x]
<1> USE DEF database, activity, history
<1>0. TypeOK
  BY DEF ShapeInv
<1>1. CASE BrowserStep(e)
  <2>1. ASSUME NEW t \in Texts, Type(e, t)  PROVE tab'[x] = tab[x] /\ typed'[x] = typed[x]
              /\ seen'[x] = seen[x] /\ UNCHANGED <<pc, job, strayed>>
    BY <2>1, <1>0 DEF Type, TypeOK
  <2>2. CASE OpenOther(e)
    BY <2>2, <1>0 DEF OpenOther, TypeOK
  <2>3. CASE Updating(e)
    BY <2>3, <1>0 DEF Updating, Save, Overwrite, SaveAndContinue, AcceptTheirs,
                      KeepRemote, Update, Send, TypeOK
  <2>4. CASE CancelConflict(e)
    BY <2>4, <1>0 DEF CancelConflict, Finish, TypeOK
  <2>5. CASE Answer(e)
    BY <2>5, <1>0 DEF Answer, Finish, TypeOK
  <2>6. CASE Load(e)
    BY <2>6, <1>0 DEF Load, Send, TypeOK
  <2>7. CASE Loaded(e)
    BY <2>7, <1>0 DEF Loaded, Finish, TypeOK
  <2>8. CASE SaveTab(e)
    BY <2>8, <1>0 DEF SaveTab, TypeOK
  <2> QED
    BY <1>1, <2>1, <2>2, <2>3, <2>4, <2>5, <2>6, <2>7, <2>8 DEF BrowserStep, Updating
<1>2. CASE UpdateStep(e)
  BY <1>2, <1>0 DEF UpdateStep, Begin, Check, WriteRow, Version, Commit, Goto, TypeOK
<1>3. CASE RequestStep(e)
  BY <1>3, <1>0, ZenonT(30) DEF RequestStep, Restore, Publish, RestoreRow, Patch, Record, Link,
                    LinkRow, Unlink, DeleteRemote, Send, Goto, Finish, TypeOK
<1>4. CASE Crash(e) \/ AnswerLost(e)
  BY <1>4, <1>0 DEF Crash, AnswerLost, TypeOK
<1> QED
  BY <1>1, <1>2, <1>3, <1>4 DEF StepOf, ServerStep, UpdateStep, RequestStep

LEMMA NextSteps ==
    ASSUME [Next]_vars
    PROVE  (\E e \in Editors : StepOf(e)) \/ OutsideEdit \/ UNCHANGED vars
  BY DEF Next, StepOf
-----------------------------------------------------------------------------
(* Why no text is lost: a request that is about to leave the row or a tab     *)
(* with a text has seen it among the versions, and versions are never         *)
(* removed; and unless the user has typed since, what a save's answer will    *)
(* mark as saved is what was sent.                                            *)
Updates == {"begin", "check", "write", "version", "commit", "answer"}

KeptBy(e) ==
    /\ pc[e] \in {"restore", "answer", "reading"} => job[e].text \in Kept
    /\ pc[e] = "commit" /\ ~job[e].fresh => job[e].text \in Kept
    /\ pc[e] \in Updates => job[e].kind \in {"save", "continue", "theirs", "remote"}
    /\ pc[e] \in Updates /\ job[e].kind \in {"save", "continue"}
         => typed[e] \/ job[e].text = tab[e].content
    /\ strayed[e] \/ tab[e].original \in Kept

KeptInv == row \in Kept /\ \A e \in Editors : KeptBy(e)

LEMMA KeptStep ==
    ASSUME KeptInv, NEW e \in Editors, versions \subseteq versions', row' \in Kept',
           \A x \in Editors : x # e =>
              /\ pc'[x] = pc[x] /\ job'[x] = job[x] /\ tab'[x] = tab[x]
              /\ typed'[x] = typed[x] /\ strayed'[x] = strayed[x],
           KeptBy(e)'
    PROVE  KeptInv'
<1>1. Kept \subseteq Kept'
  BY DEF Kept
<1>2. ASSUME NEW x \in Editors, x # e  PROVE KeptBy(x)'
  BY <1>1, <1>2 DEF KeptInv, KeptBy
<1> QED  BY <1>2 DEF KeptInv

LEMMA BrowserKeeps ==
    ASSUME ShapeInv, KeptInv, NEW e \in Editors, BrowserStep(e)
    PROVE  KeptBy(e)' /\ UNCHANGED <<row, versions>>
<1> USE DEF database, activity, history
<1>0. TypeOK /\ CarriesInv(e) /\ KeptBy(e) /\ row \in Kept
  BY DEF ShapeInv, KeptInv
<1>k. versions' = versions => Kept' = Kept
  BY DEF Kept
<1>1. ASSUME NEW t \in Texts, Type(e, t)  PROVE KeptBy(e)' /\ UNCHANGED <<row, versions>>
  <2>1. /\ UNCHANGED <<database, pc, job, strayed>>
        /\ typed'[e] = (pc[e] # "idle") /\ tab'[e].original = tab[e].original
    BY <1>1, <1>0 DEF Type, TypeOK
  <2> QED  BY <2>1, <1>0, <1>k DEF KeptBy, Updates
<1>2. CASE OpenOther(e)
  <2>1. /\ UNCHANGED <<database, pc, job, strayed, typed>>
        /\ tab'[e].content = tab[e].content /\ tab'[e].original = tab[e].original
    BY <1>2, <1>0 DEF OpenOther, TypeOK
  <2> QED  BY <2>1, <1>0, <1>k DEF KeptBy, Updates
<1>3. CASE Updating(e)
  <2>1. PICK kind \in {"save", "continue", "theirs", "remote"}, text \in Texts,
             expected \in Texts \cup {None, Foreign} :
          /\ Update(e, kind, text, expected)
          /\ expected # None => kind = "save"
          /\ kind \in {"save", "continue"} => text = tab[e].content
          /\ pc[e] \in {"idle", "conflict"}
    BY <1>3, UpdatingIsUpdate
  <2>2. /\ pc'[e] = "begin"
        /\ job'[e] = [Idle EXCEPT !.kind = kind, !.text = text, !.hash = expected]
    BY <2>1, <1>0 DEF Update, Send, TypeOK
  <2>3. job'[e].kind = kind /\ job'[e].text = text
    BY <2>2 DEF Idle
  <2>4. UNCHANGED <<database, tab, strayed>>
    BY <2>1 DEF Update
  <2> QED  BY <1>0, <1>k, <2>1, <2>2, <2>3, <2>4 DEF KeptBy, Updates
<1>4. CASE CancelConflict(e)
  <2>1. pc'[e] = "idle" /\ UNCHANGED <<database, tab, strayed>>
    BY <1>4, FinishShape DEF CancelConflict
  <2> QED  BY <2>1, <1>0, <1>k DEF KeptBy, Updates
<1>5. CASE Answer(e)
  <2>1. pc[e] = "answer" /\ pc'[e] = "idle" /\ UNCHANGED database
    BY <1>5, FinishShape DEF Answer
  <2>2. CASE job[e].kind = "remote"
    <3>1. tab' = tab /\ strayed' = [strayed EXCEPT ![e] = strayed[e]]
      BY <2>2, <1>5 DEF Answer
    <3>2. strayed'[e] = strayed[e]
      BY <3>1, <1>0 DEF TypeOK
    <3> QED  BY <3>1, <3>2, <2>1, <1>0, <1>k DEF KeptBy, Updates
  <2>3. CASE job[e].kind = "theirs"
    <3>1. tab'[e].original = job[e].text
      BY <2>3, <1>5, <1>0 DEF Answer, TypeOK
    <3> QED  BY <3>1, <2>1, <1>0, <1>k DEF KeptBy, Updates
  <2>4. CASE job[e].kind \in {"save", "continue"}
    <3>1. tab'[e].original = tab[e].content /\ strayed'[e] = typed[e]
      BY <2>4, <1>5, <1>0 DEF Answer, TypeOK
    <3> QED  BY <3>1, <2>1, <2>4, <1>0, <1>k DEF KeptBy, Updates
  <2> QED  BY <2>1, <2>2, <2>3, <2>4, <1>0 DEF KeptBy, Updates
<1>6. CASE Load(e)
  <2> DEFINE j == [Idle EXCEPT !.text = row]
  <2>1. Send(e, "reading", j) /\ UNCHANGED <<database, tab, strayed>>
    BY <1>6 DEF Load
  <2>i. row \in Texts /\ "reading" \in Steps
    BY <1>0 DEF Steps, TypeOK
  <2>2. j \in Jobs /\ j.text = row
    BY <2>i DEF Idle, Jobs
  <2> HIDE DEF j
  <2>3. pc'[e] = "reading" /\ job'[e] = j
    BY <2>1, <2>2, <2>i, SendShape
  <2> QED  BY <2>1, <2>2, <2>3, <1>0, <1>k DEF KeptBy, Updates
<1>7. CASE Loaded(e)
  <2>1. pc[e] = "reading" /\ pc'[e] = "idle" /\ UNCHANGED database
    BY <1>7, FinishShape DEF Loaded
  <2>2. tab'[e].original = job[e].text
    BY <1>7, <1>0 DEF Loaded, TypeOK
  <2> QED  BY <2>1, <2>2, <1>0, <1>k DEF KeptBy, Updates
<1>8. CASE SaveTab(e)
  <2>1. /\ UNCHANGED <<database, pc, job, typed>>
        /\ tab'[e].content = tab[e].content /\ strayed'[e]
    BY <1>8, <1>0 DEF SaveTab, TypeOK
  <2> QED  BY <2>1, <1>0, <1>k DEF KeptBy, Updates
<1> QED  BY <1>1, <1>2, <1>3, <1>4, <1>5, <1>6, <1>7, <1>8 DEF BrowserStep, Updating

LEMMA UpdateStepKeeps ==
    ASSUME ShapeInv, KeptInv, NEW e \in Editors, UpdateStep(e)
    PROVE  KeptBy(e)' /\ row' \in Kept' /\ versions \subseteq versions'
<1> USE DEF database, activity, history
<1>0. TypeOK /\ CarriesInv(e) /\ KeptBy(e) /\ row \in Kept /\ clock + 1 \in Nat
  BY DEF ShapeInv, KeptInv, TypeOK
<1>k. versions' = versions => Kept' = Kept
  BY DEF Kept
<1>1. CASE Begin(e)
  <2>1. pc[e] = "begin" /\ pc'[e] \in {"write", "check"}
        /\ UNCHANGED <<row, versions, tab, strayed, typed>>
    BY <1>1, <1>0 DEF Begin, Goto, TypeOK
  <2>2. job'[e].kind = job[e].kind /\ job'[e].text = job[e].text
    BY <1>1, <1>0, BeganNoted DEF Begin
  <2> QED  BY <2>1, <2>2, <1>0, <1>k DEF KeptBy, Updates
<1>2. CASE Check(e)
  <2>1. /\ pc[e] = "check" /\ UNCHANGED <<row, versions, tab, strayed, typed>>
        /\ \/ pc'[e] = "write" /\ job' = job
           \/ pc'[e] = "conflict"
    BY <1>2, <1>0 DEF Check, Goto, TypeOK
  <2> QED  BY <2>1, <1>0, <1>k DEF KeptBy, Updates
<1>3. CASE WriteRow(e)
  <2>1. /\ pc[e] = "write" /\ pc'[e] = "version"
        /\ UNCHANGED <<row, versions, job, tab, strayed, typed>>
    BY <1>3, <1>0 DEF WriteRow, Goto, TypeOK
  <2> QED  BY <2>1, <1>0, <1>k DEF KeptBy, Updates
<1>4. CASE Version(e)
  <2>1. /\ pc[e] = "version" /\ pc'[e] = "commit"
        /\ UNCHANGED <<row, versions, tab, strayed, typed>>
    BY <1>4, <1>0 DEF Version, Goto, TypeOK
  <2>2. NeedsVersion(e) \in BOOLEAN
    BY DEF NeedsVersion
  <2>3. /\ job'[e].kind = job[e].kind /\ job'[e].text = job[e].text
        /\ job'[e].fresh = NeedsVersion(e)
    BY <1>4, <2>2, FreshNoted DEF Version
  <2>4. ~NeedsVersion(e) => job[e].text \in Kept
    BY LatestIsKept DEF NeedsVersion, ShapeInv
  <2> QED  BY <2>1, <2>3, <2>4, <1>0, <1>k DEF KeptBy, Updates
<1>5. CASE Commit(e)
  <2>1. /\ pc[e] = "commit" /\ pc'[e] = "answer" /\ row' = job[e].text
        /\ UNCHANGED <<tab, strayed, typed>>
        /\ versions' = IF job[e].fresh
                       THEN versions \cup {[text |-> job[e].text, at |-> job[e].began]}
                       ELSE versions
    BY <1>5, <1>0 DEF Commit, Goto, TypeOK
  <2>2. job'[e].kind = job[e].kind /\ job'[e].text = job[e].text
    <3>1. job' = [job EXCEPT ![e].hash = Latest']
      BY <1>5 DEF Commit
    <3>2. Latest' \in Texts
      <4>1. ShapeInv'
        BY <1>5, UpdateStepShape DEF UpdateStep
      <4>2. versions' \subseteq [text : Texts, at : Nat] /\ NewestExists'
        BY <4>1 DEF ShapeInv, TypeOK
      <4> QED  BY <4>2 DEF NewestExists, Latest
    <3> QED  BY <3>1, <3>2, HashNoted
  <2>3. job[e].text \in Kept' /\ Kept \subseteq Kept'
    BY <2>1, <1>0 DEF Kept, KeptBy
  <2> QED  BY <2>1, <2>2, <2>3, <1>0 DEF KeptBy, Updates
<1> QED  BY <1>0, <1>k, <1>1, <1>2, <1>3, <1>4, <1>5 DEF UpdateStep

LEMMA RequestStepKeeps ==
    ASSUME ShapeInv, KeptInv, NEW e \in Editors, RequestStep(e)
    PROVE  KeptBy(e)' /\ row' \in Kept' /\ versions \subseteq versions'
<1> USE DEF database, activity, history
<1>0. TypeOK /\ CarriesInv(e) /\ KeptBy(e) /\ row \in Kept /\ clock + 1 \in Nat
  BY DEF ShapeInv, KeptInv, TypeOK
<1>k. versions' = versions => Kept' = Kept
  BY DEF Kept
<1>r. ASSUME pc'[e] \notin Updates \cup {"restore", "reading"},
             UNCHANGED <<row, versions, strayed>>, tab'[e].original = tab[e].original
      PROVE  KeptBy(e)' /\ row' \in Kept' /\ versions \subseteq versions'
  BY <1>0, <1>k, <1>r DEF KeptBy, Updates
<1>1. ASSUME NEW v \in versions, Restore(e, v)
      PROVE  KeptBy(e)' /\ row' \in Kept' /\ versions \subseteq versions'
  <2>1. /\ pc'[e] = "restore" /\ UNCHANGED <<row, tab, strayed>>
        /\ versions' = versions \cup {[text |-> v.text, at |-> clock + 1]}
        /\ job'[e].text = v.text
    BY <1>1, <1>0 DEF Restore, Send, Idle, TypeOK
  <2>2. v.text \in Kept' /\ Kept \subseteq Kept'
    BY <2>1 DEF Kept
  <2> QED  BY <2>1, <2>2, <1>0 DEF KeptBy, Updates
<1>2. CASE RestoreRow(e)
  <2>1. /\ pc[e] = "restore" /\ pc'[e] = "idle" /\ row' = job[e].text
        /\ UNCHANGED <<versions, strayed>> /\ tab'[e].original = tab[e].original
    BY <1>2, <1>0, FinishShape DEF RestoreRow, TypeOK
  <2> QED  BY <2>1, <1>0, <1>k DEF KeptBy, Updates
<1>3. ASSUME \/ \E v \in versions : Publish(e, v)
             \/ Patch(e) \/ Record(e) \/ Link(e) \/ LinkRow(e) \/ Unlink(e)
             \/ DeleteRemote(e)
      PROVE  KeptBy(e)' /\ row' \in Kept' /\ versions \subseteq versions'
  <2>1. pc'[e] \in {"patch", "record", "link", "delete", "idle"}
    BY <1>3, <1>0 DEF Publish, Patch, Record, Link, LinkRow, Unlink, DeleteRemote,
                      Send, Goto, Finish, TypeOK
  <2>2. UNCHANGED <<row, versions, strayed, tab>>
    BY <1>3 DEF Publish, Patch, Record, Link, LinkRow, Unlink, DeleteRemote
  <2> QED  BY <2>1, <2>2, <1>r DEF Updates
<1> QED  BY <1>1, <1>2, <1>3 DEF RequestStep

LEMMA FaultKeeps ==
    ASSUME ShapeInv, KeptInv, NEW e \in Editors, Crash(e) \/ AnswerLost(e)
    PROVE  KeptBy(e)' /\ UNCHANGED <<row, versions>>
<1>0. TypeOK /\ KeptBy(e)
  BY DEF ShapeInv, KeptInv
<1>1. pc'[e] = "idle" /\ UNCHANGED <<row, versions, strayed, tab>>
  BY <1>0 DEF Crash, AnswerLost, TypeOK, database
<1> QED  BY <1>0, <1>1 DEF KeptBy, Updates, Kept

LEMMA NextKeeps == ASSUME ShapeInv, KeptInv, [Next]_vars  PROVE KeptInv'
<1>1. ASSUME NEW e \in Editors, StepOf(e)  PROVE KeptInv'
  <2>1. KeptBy(e)' /\ row' \in Kept' /\ versions \subseteq versions'
    <3>1. row \in Kept /\ (versions' = versions => Kept' = Kept)
      BY DEF KeptInv, Kept
    <3> QED
      BY <1>1, <3>1, BrowserKeeps, UpdateStepKeeps, RequestStepKeeps, FaultKeeps
      DEF StepOf, ServerStep, UpdateStep, RequestStep
  <2>2. \A x \in Editors : x # e =>
              /\ pc'[x] = pc[x] /\ job'[x] = job[x] /\ tab'[x] = tab[x]
              /\ typed'[x] = typed[x] /\ strayed'[x] = strayed[x]
    BY <1>1, OthersStay
  <2> QED  BY <2>1, <2>2, KeptStep
<1>2. CASE OutsideEdit \/ UNCHANGED vars
  BY <1>2 DEF OutsideEdit, vars, database, activity, history, KeptInv, KeptBy, Kept
<1> QED  BY <1>1, <1>2, NextSteps

LEMMA InitKeeps == ASSUME Init  PROVE KeptInv
  BY DEF Init, KeptInv, KeptBy, Kept, Updates

LEMMA KeptAlways == Spec => [](ShapeInv /\ KeptInv)
<1>1. Init => ShapeInv /\ KeptInv
  BY InitShape, InitKeeps
<1>2. ShapeInv /\ KeptInv /\ [Next]_vars => (ShapeInv /\ KeptInv)'
  BY NextShape, NextKeeps
<1> QED  BY <1>1, <1>2, PTL DEF Spec

(* No text the query ever had is lost: what the row contains is always among  *)
(* its versions.                                                              *)
THEOREM NothingIsLost == Spec => []TextIsKept
<1>1. KeptInv => TextIsKept
  BY DEF KeptInv, TextIsKept
<1> QED  BY <1>1, KeptAlways, PTL

(* A tab that counts as saved shows a text that the query has among its       *)
(* versions, unless its user typed while the save was under way, or marked it *)
(* as saved in the tab's own menu, where nothing is sent.                     *)
THEOREM CleanMeansKept == Spec => []CleanTabIsKept
<1>1. KeptInv => CleanTabIsKept
  BY DEF KeptInv, KeptBy, CleanTabIsKept, Dirty
<1> QED  BY <1>1, KeptAlways, PTL
-----------------------------------------------------------------------------
(* The activity: a publish that nothing overtook finds in Marketing Cloud     *)
(* what it sent; a query is not linked while a request is about to delete the *)
(* activity, unless the link overtook it; and a request that is to link the   *)
(* query knows whether the activity is gone since it looked.                  *)
ToLink(e) == pc[e] = "link" \/ (job[e].kind = "remote"
                                 /\ pc[e] \in {"begin", "write", "version", "commit"})

ActivityBy(e) ==
    /\ pc[e] = "record" /\ "activity" \notin raced[e] => remote \in {job[e].text, None}
    /\ pc[e] = "delete" => ~linked \/ astray.link
    /\ pc[e] = "link" => job[e].kind = "link"
    /\ ToLink(e) /\ remote = None => astray.link \/ "gone" \in raced[e]

ActivityInv ==
    /\ \A e \in Editors : ActivityBy(e)
    /\ LinkedActivityExists /\ RemoteIsRecorded

(* Most steps touch neither the activity, nor the link, nor the events. *)
LEMMA QuietStep ==
    ASSUME ActivityInv, NEW e \in Editors,
           UNCHANGED <<remote, published, linked, astray.link, astray.publish>>,
           \A x \in Editors : x # e =>
              pc'[x] = pc[x] /\ job'[x] = job[x] /\ raced[x] \subseteq raced'[x]
                /\ raced'[x] \subseteq raced[x] \cup {"row"},
           pc[e] # "record", pc'[e] \notin {"record", "delete"},
           pc'[e] = "link" => job'[e].kind = "link",
           ToLink(e)' => remote # None \/ (ToLink(e) /\ raced' = raced)
    PROVE  ActivityInv'
<1>1. ASSUME NEW x \in Editors, x # e  PROVE ActivityBy(x)'
  BY <1>1 DEF ActivityInv, ActivityBy, ToLink
<1>2. ActivityBy(e)'
  BY DEF ActivityInv, ActivityBy
<1>3. RemoteIsRecorded' /\ LinkedActivityExists'
  BY DEF ActivityInv, RemoteIsRecorded, LinkedActivityExists
<1> QED  BY <1>1, <1>2, <1>3 DEF ActivityInv

LEMMA BrowserQuiet ==
    ASSUME ShapeInv, ActivityInv, NEW e \in Editors, BrowserStep(e)
    PROVE  ActivityInv'
<1> USE DEF database, activity, history
<1>0. TypeOK
  BY DEF ShapeInv
<1>o. \A x \in Editors : x # e => pc'[x] = pc[x] /\ job'[x] = job[x]
  BY OthersStay DEF StepOf
<1>1. ASSUME NEW t \in Texts, Type(e, t)  PROVE ActivityInv'
  BY <1>1, <1>o DEF Type, ActivityInv, ActivityBy, ToLink, LinkedActivityExists,
                    RemoteIsRecorded
<1>2. CASE SaveTab(e) \/ OpenOther(e)
  BY <1>2 DEF SaveTab, OpenOther, ActivityInv, ActivityBy, ToLink, LinkedActivityExists,
              RemoteIsRecorded
<1>3. CASE Updating(e)
  <2>1. UNCHANGED <<remote, published, linked, astray>> /\ pc[e] \in {"idle", "conflict"}
    BY <1>3 DEF Updating, Save, Overwrite, SaveAndContinue, AcceptTheirs, KeepRemote, Update
  <2>2. pc'[e] = "begin" /\ \A x \in Editors : x # e => raced'[x] = raced[x]
    BY <1>3, <1>0 DEF Updating, Save, Overwrite, SaveAndContinue, AcceptTheirs,
                      KeepRemote, Update, Send, TypeOK
  <2>3. \A kind, text, hash : Update(e, kind, text, hash) => job'[e].kind = kind
    BY <1>0 DEF Update, Send, Idle, TypeOK
  <2>4. job'[e].kind = "remote" => remote # None
    BY <1>3, <2>3 DEF Updating, Save, Overwrite, SaveAndContinue, AcceptTheirs, KeepRemote
  <2> QED  BY <2>1, <2>2, <2>4, <1>o, QuietStep DEF ToLink
<1>4. CASE CancelConflict(e) \/ Answer(e) \/ Loaded(e)
  <2>1. /\ UNCHANGED <<remote, published, linked, astray, raced>>
        /\ pc[e] # "record" /\ pc'[e] = "idle"
    BY <1>4, FinishShape DEF CancelConflict, Answer, Loaded
  <2> QED  BY <2>1, <1>o, QuietStep DEF ToLink
<1>5. CASE Load(e)
  <2>1. /\ UNCHANGED <<remote, published, linked, astray>>
        /\ pc[e] # "record" /\ pc'[e] = "reading"
        /\ \A x \in Editors : x # e => raced'[x] = raced[x]
    BY <1>5, <1>0 DEF Load, Send, TypeOK
  <2> QED  BY <2>1, <1>o, QuietStep DEF ToLink
<1> QED  BY <1>1, <1>2, <1>3, <1>4, <1>5 DEF BrowserStep, Updating

LEMMA UpdateStepQuiet ==
    ASSUME ShapeInv, ActivityInv, NEW e \in Editors, UpdateStep(e)
    PROVE  ActivityInv'
<1> USE DEF database, activity, history
<1>0. TypeOK /\ CarriesInv(e)
  BY DEF ShapeInv
<1>o. \A x \in Editors : x # e => pc'[x] = pc[x] /\ job'[x] = job[x]
  BY OthersStay DEF StepOf, UpdateStep, ServerStep
<1>1. CASE Begin(e)
  <2>1. /\ UNCHANGED <<remote, published, linked, astray, raced>>
        /\ pc[e] = "begin" /\ pc'[e] \in {"write", "check"}
    BY <1>1, <1>0 DEF Begin, Goto, TypeOK
  <2>2. job'[e].kind = job[e].kind
    BY <1>1, <1>0 DEF Begin, TypeOK, Jobs
  <2> QED  BY <2>1, <2>2, <1>o, QuietStep DEF ToLink
<1>2. CASE Check(e)
  <2>1. /\ UNCHANGED <<remote, published, linked, astray>>
        /\ pc[e] = "check" /\ pc'[e] \in {"write", "conflict"}
        /\ pc'[e] = "write" => job' = job
        /\ \A x \in Editors : x # e => raced'[x] = raced[x]
    BY <1>2, <1>0 DEF Check, Goto, Unraced, TypeOK
  <2>2. job[e].kind = "save"
    BY <2>1, <1>0 DEF CarriesInv
  <2> QED  BY <2>1, <2>2, <1>o, QuietStep DEF ToLink
<1>3. CASE WriteRow(e)
  <2>1. /\ UNCHANGED <<remote, published, linked, astray, raced, job>>
        /\ pc[e] = "write" /\ pc'[e] = "version"
    BY <1>3, <1>0 DEF WriteRow, Goto, TypeOK
  <2> QED  BY <2>1, <1>o, QuietStep DEF ToLink
<1>4. CASE Version(e)
  <2>1. /\ UNCHANGED <<remote, published, linked, astray, raced>>
        /\ pc[e] = "version" /\ pc'[e] = "commit"
    BY <1>4, <1>0 DEF Version, Goto, TypeOK
  <2>2. job'[e].kind = job[e].kind
    BY <1>4, <1>0 DEF Version, TypeOK, Jobs
  <2> QED  BY <2>1, <2>2, <1>o, QuietStep DEF ToLink
<1>5. CASE Commit(e)
  <2>1. /\ pc[e] = "commit" /\ pc'[e] = "answer" /\ UNCHANGED <<remote, published>>
        /\ linked' = (linked \/ job[e].kind = "remote")
        /\ \A x \in Editors : x # e =>
              raced[x] \subseteq raced'[x] /\ raced'[x] \subseteq raced[x] \cup {"row"}
    BY <1>5, <1>0 DEF Commit, Goto, Overtakes, TypeOK
  <2>2. /\ astray'.publish = astray.publish
        /\ astray'.link = (astray.link \/ (job[e].kind = "remote" /\ DeletedSince(e)))
    BY <1>5, <1>0 DEF Commit, TypeOK, DeletedSince
  <2>3. ASSUME NEW x \in Editors, x # e  PROVE ActivityBy(x)'
    BY <2>3, <2>1, <2>2, <1>o, ZenonT(30) DEF ActivityInv, ActivityBy, ToLink, DeletedSince
  <2>4. ActivityBy(e)'
    BY <2>1 DEF ActivityBy, ToLink
  <2>5. RemoteIsRecorded'
    BY <2>1, <2>2, <1>o DEF ActivityInv, RemoteIsRecorded
  <2>6. LinkedActivityExists'
    BY <2>1, <2>2 DEF ActivityInv, ActivityBy, ToLink, LinkedActivityExists, DeletedSince
  <2> QED  BY <2>3, <2>4, <2>5, <2>6 DEF ActivityInv
<1> QED  BY <1>1, <1>2, <1>3, <1>4, <1>5 DEF UpdateStep

LEMMA RequestStepActivity ==
    ASSUME ShapeInv, ActivityInv, NEW e \in Editors, RequestStep(e)
    PROVE  ActivityInv'
<1> USE DEF database, activity, history
<1>0. TypeOK /\ CarriesInv(e)
  BY DEF ShapeInv
<1>o. \A x \in Editors : x # e => pc'[x] = pc[x] /\ job'[x] = job[x]
  BY OthersStay DEF StepOf, RequestStep, ServerStep
<1>s. \A at, carries : Send(e, at, carries) =>
         /\ pc'[e] = at /\ job'[e] = carries
         /\ \A x \in Editors : x # e => raced'[x] = raced[x]
  BY <1>0 DEF Send, TypeOK
<1>f. Finish(e) => pc'[e] = "idle"
  BY <1>0 DEF Finish, TypeOK
<1>u. Unraced(e) => \A x \in Editors : x # e => raced'[x] = raced[x]
  BY <1>0 DEF Unraced, TypeOK
<1>1. ASSUME NEW v \in versions, Restore(e, v)  PROVE ActivityInv'
  <2>1. /\ UNCHANGED <<remote, published, linked, astray>>
        /\ pc[e] = "idle" /\ pc'[e] = "restore"
        /\ \A x \in Editors : x # e => raced'[x] = raced[x]
    BY <1>1, <1>s DEF Restore
  <2> QED  BY <2>1, <1>o, QuietStep DEF ToLink
<1>2. ASSUME NEW v \in versions, Publish(e, v)  PROVE ActivityInv'
  <2>1. /\ UNCHANGED <<remote, published, linked, astray>>
        /\ pc[e] = "idle" /\ pc'[e] = "patch"
        /\ \A x \in Editors : x # e => raced'[x] = raced[x]
    BY <1>2, <1>s DEF Publish
  <2> QED  BY <2>1, <1>o, QuietStep DEF ToLink
<1>3. CASE RestoreRow(e)
  <2>1. /\ UNCHANGED <<remote, published, linked>>
        /\ astray'.link = astray.link /\ astray'.publish = astray.publish
        /\ pc[e] = "restore" /\ pc'[e] = "idle"
        /\ \A x \in Editors : x # e =>
              raced[x] \subseteq raced'[x] /\ raced'[x] \subseteq raced[x] \cup {"row"}
    BY <1>3, <1>0, <1>f DEF RestoreRow, Overtakes, TypeOK
  <2> QED  BY <2>1, <1>o, QuietStep DEF ToLink
<1>4. CASE Patch(e)
  <2>1. CASE remote # None
    <3>1. /\ remote' = job[e].text /\ pc[e] = "patch" /\ pc'[e] = "record"
          /\ UNCHANGED <<published, linked, astray, job>> /\ job[e].text \in Texts
      <4>1. pc[e] = "patch" /\ Goto(e, "record") /\ remote' = job[e].text
            /\ UNCHANGED <<published, linked, astray, job>>
        BY <1>4, <2>1 DEF Patch
      <4>2. pc'[e] = "record" /\ job[e].text \in Texts
        BY <4>1, <1>0 DEF Goto, TypeOK, CarriesInv, Texted
      <4> QED  BY <4>1, <4>2
    <3>2. \A x \in Editors : x # e =>
            raced'[x] = IF pc[x] = "record" THEN raced[x] \cup {"activity"} ELSE raced[x]
      BY <1>4, <2>1 DEF Patch, Overtakes
    <3>3. ASSUME NEW x \in Editors, x # e  PROVE ActivityBy(x)'
      <4>1. remote' # None /\ UNCHANGED <<linked, astray>>
            /\ pc'[x] = pc[x] /\ job'[x] = job[x]
        BY <3>1, <3>3, <1>o, ConstantsAssumption
      <4>2. pc[x] = "record" => "activity" \in raced'[x]
        BY <3>2, <3>3
      <4> QED  BY <4>1, <4>2 DEF ActivityInv, ActivityBy, ToLink
    <3>4. ActivityBy(e)'
      BY <3>1, ConstantsAssumption DEF ActivityBy, ToLink
    <3>5. RemoteIsRecorded' /\ LinkedActivityExists'
      BY <3>1, <1>o, ConstantsAssumption DEF RemoteIsRecorded, LinkedActivityExists
    <3> QED  BY <3>3, <3>4, <3>5 DEF ActivityInv
  <2>2. CASE remote = None
    <3>1. /\ UNCHANGED <<remote, published, linked, astray>>
          /\ pc[e] = "patch" /\ pc'[e] = "idle"
          /\ \A x \in Editors : x # e => raced'[x] = raced[x]
      BY <1>4, <2>2, <1>f, <1>u DEF Patch
    <3> QED  BY <3>1, <1>o, QuietStep DEF ToLink
  <2> QED  BY <2>1, <2>2
<1>5. CASE Record(e)
  <2>1. /\ pc[e] = "record" /\ pc'[e] = "idle" /\ published' = job[e].text
        /\ UNCHANGED <<remote, linked>>
        /\ \A x \in Editors : x # e => raced'[x] = raced[x]
    BY <1>5, <1>f, <1>u DEF Record
  <2>2. /\ astray'.link = astray.link
        /\ astray'.publish = ("activity" \in raced[e])
    BY <1>5, <1>0 DEF Record, TypeOK
  <2>3. ASSUME NEW x \in Editors  PROVE ActivityBy(x)'
    BY <2>1, <2>2, <1>o DEF ActivityInv, ActivityBy, ToLink
  <2>4. RemoteIsRecorded' /\ LinkedActivityExists'
    BY <2>1, <2>2 DEF ActivityInv, ActivityBy, RemoteIsRecorded, LinkedActivityExists
  <2> QED  BY <2>3, <2>4 DEF ActivityInv
<1>6. CASE Link(e)
  <2> DEFINE j == [Idle EXCEPT !.kind = "link"]
  <2>1. UNCHANGED <<remote, published, linked, astray>> /\ pc[e] = "idle"
        /\ Send(e, "link", j) /\ remote # None
    BY <1>6 DEF Link
  <2>2. j.kind = "link"
    BY DEF Idle
  <2> HIDE DEF j
  <2> QED  BY <2>1, <2>2, <1>o, <1>s, QuietStep DEF ToLink
<1>7. CASE LinkRow(e)
  <2>1. /\ pc[e] = "link" /\ pc'[e] = "idle" /\ linked' = TRUE
        /\ UNCHANGED <<remote, published>>
        /\ \A x \in Editors : x # e => raced'[x] = raced[x]
    BY <1>7, <1>f, <1>u DEF LinkRow
  <2>2. /\ astray'.publish = astray.publish
        /\ astray'.link = (astray.link \/ DeletedSince(e))
    BY <1>7, <1>0 DEF LinkRow, TypeOK, DeletedSince
  <2>3. ASSUME NEW x \in Editors  PROVE ActivityBy(x)'
    BY <2>1, <2>2, <1>o DEF ActivityInv, ActivityBy, ToLink, DeletedSince
  <2>4. RemoteIsRecorded' /\ LinkedActivityExists'
    BY <2>1, <2>2, <1>o DEF ActivityInv, ActivityBy, RemoteIsRecorded,
                            LinkedActivityExists, ToLink, DeletedSince
  <2> QED  BY <2>3, <2>4 DEF ActivityInv
<1>8. CASE Unlink(e)
  <2>1. /\ pc[e] = "idle" /\ pc'[e] \in {"delete", "idle"} /\ linked' = FALSE
        /\ UNCHANGED <<remote, published, astray>>
        /\ \A x \in Editors : x # e => raced'[x] = raced[x]
    BY <1>8, <1>s DEF Unlink
  <2>2. ASSUME NEW x \in Editors  PROVE ActivityBy(x)'
    BY <2>1, <1>o DEF ActivityInv, ActivityBy, ToLink
  <2>3. RemoteIsRecorded' /\ LinkedActivityExists'
    BY <2>1, <1>o DEF ActivityInv, RemoteIsRecorded, LinkedActivityExists
  <2> QED  BY <2>2, <2>3 DEF ActivityInv
<1>9. CASE DeleteRemote(e)
  <2>1. /\ pc[e] = "delete" /\ pc'[e] = "idle" /\ remote' = None
        /\ UNCHANGED <<linked, published, astray>>
        /\ \A x \in Editors : raced'[x] = IF job[x].kind \in {"link", "remote"}
                                         THEN raced[x] \cup {"gone"} ELSE raced[x]
    BY <1>9, <1>f DEF DeleteRemote
  <2>2. ASSUME NEW x \in Editors  PROVE ActivityBy(x)'
    BY <2>1, <1>o DEF ActivityInv, ActivityBy, ToLink
  <2>3. RemoteIsRecorded' /\ LinkedActivityExists'
    BY <2>1 DEF ActivityInv, ActivityBy, RemoteIsRecorded, LinkedActivityExists
  <2> QED  BY <2>2, <2>3 DEF ActivityInv
<1> QED  BY <1>1, <1>2, <1>3, <1>4, <1>5, <1>6, <1>7, <1>8, <1>9 DEF RequestStep

LEMMA NextActivity == ASSUME ShapeInv, ActivityInv, [Next]_vars  PROVE ActivityInv'
<1> USE DEF database, activity, history
<1>0. TypeOK
  BY DEF ShapeInv
<1>1. ASSUME NEW e \in Editors, Crash(e)  PROVE ActivityInv'
  <2>1. /\ UNCHANGED <<remote, published, linked>> /\ pc'[e] = "idle"
        /\ \A x \in Editors : x # e => pc'[x] = pc[x] /\ job'[x] = job[x]
                                       /\ raced'[x] = raced[x]
    BY <1>1, <1>0 DEF Crash, Unraced, TypeOK
  <2>2. /\ astray'.link = astray.link
        /\ astray'.publish = (astray.publish \/ pc[e] = "record")
    BY <1>1, <1>0 DEF Crash, TypeOK
  <2>3. ASSUME NEW x \in Editors  PROVE ActivityBy(x)'
    BY <2>1, <2>2 DEF ActivityInv, ActivityBy, ToLink
  <2>4. RemoteIsRecorded' /\ LinkedActivityExists'
    BY <2>1, <2>2 DEF ActivityInv, RemoteIsRecorded, LinkedActivityExists
  <2> QED  BY <2>3, <2>4 DEF ActivityInv
<1>2. ASSUME NEW e \in Editors, AnswerLost(e)  PROVE ActivityInv'
  <2>1. /\ UNCHANGED <<remote, published, linked, astray, raced>>
        /\ pc[e] = "answer" /\ pc'[e] = "idle"
        /\ \A x \in Editors : x # e => pc'[x] = pc[x] /\ job'[x] = job[x]
    BY <1>2, <1>0 DEF AnswerLost, TypeOK
  <2> QED  BY <2>1, QuietStep DEF ToLink
<1>3. CASE OutsideEdit
  <2>1. /\ remote' \in Texts \cup {None} /\ UNCHANGED <<linked, published, pc, job>>
        /\ \A x \in Editors : raced'[x] = IF pc[x] = "record"
                                         THEN raced[x] \cup {"activity"} ELSE raced[x]
    BY <1>3 DEF OutsideEdit
  <2>2. /\ astray'.publish = TRUE
        /\ astray'.link = (astray.link \/ remote' = None)
    BY <1>3, <1>0 DEF OutsideEdit, TypeOK
  <2>3. ASSUME NEW x \in Editors  PROVE ActivityBy(x)'
    BY <2>1, <2>2 DEF ActivityInv, ActivityBy, ToLink
  <2>4. RemoteIsRecorded' /\ LinkedActivityExists'
    BY <2>1, <2>2 DEF ActivityInv, RemoteIsRecorded, LinkedActivityExists
  <2> QED  BY <2>3, <2>4 DEF ActivityInv
<1>4. CASE UNCHANGED vars
  BY <1>4 DEF vars, ActivityInv, ActivityBy, ToLink, RemoteIsRecorded,
              LinkedActivityExists
<1>5. ASSUME NEW e \in Editors, ServerStep(e)  PROVE ActivityInv'
  BY <1>5, UpdateStepQuiet, RequestStepActivity DEF ServerStep, UpdateStep, RequestStep
<1> QED  BY <1>1, <1>2, <1>3, <1>4, <1>5, BrowserQuiet DEF Next

LEMMA ActivityAlways == Spec => []ActivityInv
<1>1. Init => ShapeInv /\ ActivityInv
  BY InitShape, ConstantsAssumption
  DEF Init, ActivityInv, ActivityBy, ToLink, Idle, RemoteIsRecorded, LinkedActivityExists
<1>2. ShapeInv /\ ActivityInv /\ [Next]_vars => (ShapeInv /\ ActivityInv)'
  BY NextShape, NextActivity
<1> QED  BY <1>1, <1>2, PTL DEF Spec

(* A linked query's activity exists, unless it was deleted outside or while   *)
(* it was being linked.                                                       *)
THEOREM LinkedHasActivity == Spec => []LinkedActivityExists
<1>1. ActivityInv => LinkedActivityExists
  BY DEF ActivityInv
<1> QED  BY <1>1, ActivityAlways, PTL

(* The last publish event tells what the activity contains.                   *)
THEOREM PublishedIsRemote == Spec => []RemoteIsRecorded
<1>1. ActivityInv => RemoteIsRecorded
  BY DEF ActivityInv
<1> QED  BY <1>1, ActivityAlways, PTL
-----------------------------------------------------------------------------
(* The row's text is the latest version's.  No two versions have the same     *)
(* time, nor will have: the time of a transaction that has begun is its own.  *)
(* A transaction that leaves the version out because the latest has its text  *)
(* still finds it so when it commits, unless a version was restored since; a  *)
(* save that was compared finds what it was compared with, unless another     *)
(* write of the row overtook it.                                              *)
Pending(e) == pc[e] \in {"check", "write", "version", "commit"}

TimesInv ==
    /\ \A v, w \in versions : v.at = w.at => v = w
    /\ \A v \in versions : v.at <= clock
    /\ \A e \in Editors : Pending(e) =>
          /\ job[e].began <= clock
          /\ \A v \in versions : v.at # job[e].began
          /\ \A x \in Editors : x # e /\ Pending(x) => job[x].began # job[e].began
    /\ \A e \in Editors : pc[e] = "restore" =>
          [text |-> job[e].text, at |-> job[e].began] \in versions

LatestBy(e) ==
    /\ pc[e] = "commit" /\ ~job[e].fresh /\ (\A v \in versions : v.at <= job[e].began)
         => Latest = job[e].text
    /\ pc[e] = "write" /\ job[e].hash # None /\ raced[e] = {} /\ ~astray.text
         /\ (\A x \in Editors : pc[x] # "restore")
         => Latest = job[e].hash

OrderInv == TimesInv /\ RowIsLatest /\ \A e \in Editors : LatestBy(e)

LEMMA NewestIsChosen ==
    ASSUME NEW S \in SUBSET [text : Texts, at : Nat],
           \A v, w \in S : v.at = w.at => v = w,
           NEW v \in S, \A w \in S : w.at <= v.at
    PROVE  (CHOOSE u \in S : \A w \in S : w.at <= u.at) = v
<1> DEFINE u == CHOOSE u \in S : \A w \in S : w.at <= u.at
<1>1. u \in S /\ \A w \in S : w.at <= u.at
  OBVIOUS
<1>2. u.at <= v.at /\ v.at <= u.at /\ u.at \in Nat /\ v.at \in Nat
  BY <1>1
<1> QED  BY <1>1, <1>2

(* Most steps write neither row nor versions. *)
LEMMA CalmStep ==
    ASSUME ShapeInv, OrderInv, NEW e \in Editors,
           UNCHANGED <<row, versions, clock, astray.text>>,
           \A x \in Editors : x # e =>
              pc'[x] = pc[x] /\ job'[x] = job[x] /\ raced[x] \subseteq raced'[x],
           pc'[e] = "restore" <=> pc[e] = "restore",
           pc[e] = "restore" => job'[e] = job[e],
           Pending(e)' => Pending(e) /\ job'[e].began = job[e].began,
           pc'[e] = "commit" /\ ~job'[e].fresh =>
              Latest = job'[e].text \/ (pc[e] = "commit" /\ job'[e] = job[e]),
           pc'[e] = "write" /\ job'[e].hash # None =>
              \/ Latest = job'[e].hash
              \/ pc[e] = "write" /\ job'[e] = job[e] /\ raced'[e] = raced[e]
    PROVE  OrderInv'
<1>1. TimesInv'
  <2>1. \A x \in Editors : Pending(x)' => Pending(x) /\ job'[x].began = job[x].began
    BY DEF Pending
  <2>2. \A x \in Editors : pc'[x] = "restore" => pc[x] = "restore" /\ job'[x] = job[x]
    OBVIOUS
  <2> QED  BY <2>1, <2>2 DEF OrderInv, TimesInv
<1>2. RowIsLatest' /\ Latest' = Latest
  BY DEF OrderInv, RowIsLatest, Latest
<1>3. ASSUME NEW x \in Editors, x # e  PROVE LatestBy(x)'
  BY <1>2, <1>3 DEF OrderInv, LatestBy
<1>4. LatestBy(e)'
  BY <1>2 DEF OrderInv, LatestBy
<1> QED  BY <1>1, <1>2, <1>3, <1>4 DEF OrderInv

LEMMA BrowserCalm ==
    ASSUME ShapeInv, OrderInv, NEW e \in Editors, BrowserStep(e)
    PROVE  OrderInv'
<1> USE DEF database, activity, history
<1>0. TypeOK
  BY DEF ShapeInv
<1>o. \A x \in Editors : x # e => pc'[x] = pc[x] /\ job'[x] = job[x]
  BY OthersStay DEF StepOf
<1>1. CASE (\E t \in Texts : Type(e, t)) \/ SaveTab(e) \/ OpenOther(e)
  <2>1. UNCHANGED <<row, versions, clock, astray, pc, job, raced>>
    BY <1>1 DEF Type, SaveTab, OpenOther
  <2> QED  BY <2>1, CalmStep DEF Pending
<1>2. CASE Updating(e) \/ Load(e)
  <2>1. UNCHANGED <<row, versions, clock, astray>> /\ pc[e] \in {"idle", "conflict"}
    BY <1>2 DEF Updating, Save, Overwrite, SaveAndContinue, AcceptTheirs, KeepRemote,
                Update, Load
  <2>2. pc'[e] \in {"begin", "reading"} /\ \A x \in Editors : x # e => raced'[x] = raced[x]
    BY <1>2, <1>0 DEF Updating, Save, Overwrite, SaveAndContinue, AcceptTheirs,
                      KeepRemote, Update, Load, Send, TypeOK
  <2> QED  BY <2>1, <2>2, <1>o, CalmStep DEF Pending
<1>3. CASE CancelConflict(e) \/ Answer(e) \/ Loaded(e)
  <2>1. /\ UNCHANGED <<row, versions, clock, astray, raced>>
        /\ pc[e] # "restore" /\ pc'[e] = "idle"
    BY <1>3, FinishShape DEF CancelConflict, Answer, Loaded
  <2> QED  BY <2>1, <1>o, CalmStep DEF Pending
<1> QED  BY <1>1, <1>2, <1>3 DEF BrowserStep, Updating

LEMMA UpdateStepOrder ==
    ASSUME ShapeInv, OrderInv, NEW e \in Editors, UpdateStep(e)
    PROVE  OrderInv'
<1> USE DEF database, activity, history
<1>0. TypeOK /\ CarriesInv(e)
  BY DEF ShapeInv
<1>o. \A x \in Editors : x # e => pc'[x] = pc[x] /\ job'[x] = job[x]
  BY OthersStay DEF StepOf, UpdateStep, ServerStep
<1>1. CASE Begin(e)
  <2>1. /\ UNCHANGED <<row, versions, astray, raced>> /\ clock' = clock + 1
        /\ pc[e] = "begin" /\ job' = [job EXCEPT ![e].began = clock + 1]
        /\ pc'[e] = (IF job[e].hash = None THEN "write" ELSE "check")
    BY <1>1, <1>0 DEF Begin, Goto, TypeOK
  <2>2. clock \in Nat /\ clock + 1 \in Nat /\ \A v \in versions : v.at \in Nat
    BY <1>0 DEF TypeOK
  <2>3. job'[e].hash = job[e].hash /\ job'[e].began = clock + 1
    BY <2>1, <2>2, BeganNoted
  <2>4. TimesInv'
    <3>1. \A v \in versions : v.at <= clock + 1 /\ v.at # clock + 1
      BY <2>2 DEF OrderInv, TimesInv
    <3>2. ASSUME NEW x \in Editors, x # e, Pending(x)'
          PROVE  /\ Pending(x) /\ job'[x].began <= clock + 1
                 /\ job'[x].began # clock + 1
                 /\ \A v \in versions : v.at # job'[x].began
      <4>1. Pending(x) /\ job'[x].began = job[x].began
        BY <3>2, <1>o DEF Pending
      <4>2. job[x].began <= clock /\ job[x].began \in Nat
            /\ \A v \in versions : v.at # job[x].began
        BY <4>1, <1>0 DEF OrderInv, TimesInv, TypeOK, Jobs
      <4> QED  BY <4>1, <4>2, <2>2
    <3>3. \A x, y \in Editors : x # e /\ y # e /\ x # y /\ Pending(x) /\ Pending(y)
            => job'[x].began # job'[y].began
      BY <1>o DEF OrderInv, TimesInv
    <3>4. \A x \in Editors : pc'[x] = "restore" => pc[x] = "restore" /\ job'[x] = job[x]
      BY <2>1, <1>o
    <3>5. ASSUME NEW x \in Editors, Pending(x)'
          PROVE  /\ job'[x].began <= clock + 1
                 /\ \A v \in versions : v.at # job'[x].began
                 /\ \A y \in Editors : y # x /\ Pending(y)' => job'[y].began # job'[x].began
      BY <3>1, <3>2, <3>3, <3>5, <2>2, <2>3
    <3>6. /\ \A v, w \in versions : v.at = w.at => v = w
          /\ \A x \in Editors : pc[x] = "restore" =>
                [text |-> job[x].text, at |-> job[x].began] \in versions
      BY DEF OrderInv, TimesInv
    <3> QED  BY <2>1, <3>1, <3>4, <3>5, <3>6 DEF TimesInv
  <2>5. Latest' = Latest
    BY <2>1 DEF Latest
  <2>6. RowIsLatest'
    BY <2>1, <2>5, <1>o DEF OrderInv, RowIsLatest
  <2>7. ASSUME NEW x \in Editors  PROVE LatestBy(x)'
    BY <2>1, <2>3, <2>5, <1>o DEF OrderInv, LatestBy
  <2> QED  BY <2>4, <2>6, <2>7 DEF OrderInv
<1>2. CASE Check(e)
  <2>1. /\ UNCHANGED <<row, versions, clock, astray>>
        /\ pc[e] = "check"
        /\ \A x \in Editors : x # e => raced'[x] = raced[x]
        /\ \/ pc'[e] = "write" /\ job' = job /\ Latest = job[e].hash
           \/ pc'[e] = "conflict"
    BY <1>2, <1>0 DEF Check, Fresh, Goto, Unraced, TypeOK
  <2> QED  BY <2>1, <1>o, CalmStep DEF Pending
<1>3. CASE WriteRow(e)
  <2>1. /\ UNCHANGED <<row, versions, clock, astray, raced, job>>
        /\ pc[e] = "write" /\ pc'[e] = "version"
    BY <1>3, <1>0 DEF WriteRow, Goto, TypeOK
  <2> QED  BY <2>1, <1>o, CalmStep DEF Pending
<1>4. CASE Version(e)
  <2>1. /\ UNCHANGED <<row, versions, clock, astray, raced>>
        /\ pc[e] = "version" /\ pc'[e] = "commit"
    BY <1>4, <1>0 DEF Version, Goto, TypeOK
  <2>2. NeedsVersion(e) \in BOOLEAN
    BY DEF NeedsVersion
  <2>3. /\ job'[e].began = job[e].began /\ job'[e].text = job[e].text
        /\ job'[e].fresh = NeedsVersion(e)
    BY <1>4, <2>2, FreshNoted DEF Version
  <2> QED  BY <2>1, <2>3, <1>o, CalmStep DEF Pending, NeedsVersion
<1>5. CASE Commit(e)
  <2> DEFINE new == [text |-> job[e].text, at |-> job[e].began]
  <2>1. /\ pc[e] = "commit" /\ pc'[e] = "answer" /\ row' = job[e].text
        /\ UNCHANGED clock
        /\ versions' = IF job[e].fresh THEN versions \cup {new} ELSE versions
        /\ \A x \in Editors : x # e =>
              raced'[x] = IF pc[x] = "write" THEN raced[x] \cup {"row"} ELSE raced[x]
    BY <1>5, <1>0 DEF Commit, Goto, Overtakes, TypeOK
  <2>2. astray'.text = \E v \in versions : v.at > job[e].began
    BY <1>5, <1>0 DEF Commit, TypeOK
  <2>3. /\ job[e].began \in Nat /\ job[e].text \in Texts /\ clock \in Nat
        /\ job[e].began <= clock /\ Pending(e)
        /\ \A v \in versions : v.at # job[e].began /\ v.at \in Nat /\ v.at <= clock
        /\ \A v, w \in versions : v.at = w.at => v = w
    BY <2>1, <1>0 DEF TypeOK, CarriesInv, Texted, Jobs, OrderInv, TimesInv, Pending
  <2>4. /\ versions' \subseteq [text : Texts, at : Nat] /\ versions \subseteq versions'
        /\ \A v \in versions' : v.at <= clock /\ (v \in versions \/ v = new)
        /\ \A v, w \in versions' : v.at = w.at => v = w
    BY <2>1, <2>3, <1>0 DEF TypeOK
  <2>5. TimesInv'
    <3>1. \A x \in Editors : Pending(x)' => x # e /\ Pending(x) /\ job'[x] = job[x]
      BY <2>1, <1>o DEF Pending
    <3>2. \A x \in Editors : pc'[x] = "restore" => pc[x] = "restore" /\ job'[x] = job[x]
      BY <2>1, <1>o
    <3>3. ASSUME NEW x \in Editors, x # e, Pending(x)
          PROVE  \A v \in versions' : v.at # job[x].began
      BY <3>3, <2>3, <2>4 DEF OrderInv, TimesInv
    <3> QED  BY <3>1, <3>2, <3>3, <2>1, <2>4 DEF OrderInv, TimesInv
  <2>6. RowIsLatest'
    <3> SUFFICES ASSUME ~astray'.text  PROVE row' = Latest'
      BY DEF RowIsLatest
    <3>1. \A v \in versions : v.at <= job[e].began
      BY <2>2, <2>3
    <3>2. CASE job[e].fresh
      <4>1. new \in versions' /\ \A w \in versions' : w.at <= new.at
        BY <3>1, <3>2, <2>1, <2>3
      <4> HIDE DEF new
      <4>2. Latest' = new.text
        BY <4>1, <2>4, NewestIsChosen DEF Latest
      <4> QED  BY <4>2, <2>1 DEF new
    <3>3. CASE ~job[e].fresh
      BY <3>1, <3>3, <2>1 DEF OrderInv, LatestBy, Latest
    <3> QED  BY <3>2, <3>3
  <2>7. ASSUME NEW x \in Editors  PROVE LatestBy(x)'
    <3>1. x # e => pc[x] # "commit"
      BY <2>1, <1>0 DEF TypeOK
    <3>2. x # e /\ pc[x] = "write" => raced'[x] # {}
      BY <2>1
    <3> QED  BY <2>1, <3>1, <3>2, <1>o DEF LatestBy
  <2> QED  BY <2>5, <2>6, <2>7 DEF OrderInv
<1> QED  BY <1>1, <1>2, <1>3, <1>4, <1>5 DEF UpdateStep

LEMMA RequestStepOrder ==
    ASSUME ShapeInv, OrderInv, NEW e \in Editors, RequestStep(e)
    PROVE  OrderInv'
<1> USE DEF database, activity, history
<1>0. TypeOK /\ CarriesInv(e)
  BY DEF ShapeInv
<1>o. \A x \in Editors : x # e => pc'[x] = pc[x] /\ job'[x] = job[x]
  BY OthersStay DEF StepOf, RequestStep, ServerStep
<1>s. \A at, carries : Send(e, at, carries) =>
         /\ pc'[e] = at /\ job'[e] = carries
         /\ \A x \in Editors : x # e => raced'[x] = raced[x]
  BY <1>0 DEF Send, TypeOK
<1>f. Finish(e) => pc'[e] = "idle"
  BY <1>0 DEF Finish, TypeOK
<1>u. Unraced(e) => \A x \in Editors : x # e => raced'[x] = raced[x]
  BY <1>0 DEF Unraced, TypeOK
<1>1. ASSUME NEW v \in versions, Restore(e, v)  PROVE OrderInv'
  <2> DEFINE new == [text |-> v.text, at |-> clock + 1]
             j == [Idle EXCEPT !.kind = "restore", !.text = v.text, !.began = clock + 1]
  <2>1. /\ UNCHANGED <<row, astray>> /\ pc[e] = "idle" /\ clock' = clock + 1
        /\ versions' = versions \cup {new} /\ Send(e, "restore", j)
    BY <1>1 DEF Restore
  <2>2. j.text = v.text /\ j.began = clock + 1
    BY DEF Idle
  <2> HIDE DEF j
  <2>3. pc'[e] = "restore" /\ job'[e] = j
    BY <2>1, <1>s
  <2>4. /\ clock \in Nat /\ \A w \in versions : w.at \in Nat /\ w.at <= clock
        /\ \A w, u \in versions : w.at = u.at => w = u
    BY <1>0 DEF TypeOK, OrderInv, TimesInv
  <2>5. TimesInv'
    <3>1. /\ \A w \in versions' : w.at <= clock'
          /\ \A w, u \in versions' : w.at = u.at => w = u
      BY <2>1, <2>4
    <3>2. \A x \in Editors : Pending(x)' => x # e /\ Pending(x) /\ job'[x] = job[x]
      BY <2>3, <1>o DEF Pending
    <3>3. ASSUME NEW x \in Editors, Pending(x)
          PROVE  job[x].began <= clock' /\ \A w \in versions' : w.at # job[x].began
      <4>1. job[x].began \in Nat /\ job[x].began <= clock
            /\ \A w \in versions : w.at # job[x].began
        BY <3>3, <1>0 DEF TypeOK, Jobs, OrderInv, TimesInv
      <4> QED  BY <4>1, <2>1, <2>4
    <3>4. \A x \in Editors : x # e /\ pc'[x] = "restore" =>
             pc[x] = "restore" /\ job'[x] = job[x]
      BY <1>o
    <3>5. [text |-> job'[e].text, at |-> job'[e].began] \in versions'
      BY <2>1, <2>2, <2>3
    <3>6. versions \subseteq versions'
      BY <2>1
    <3> QED  BY <3>1, <3>2, <3>3, <3>4, <3>5, <3>6 DEF OrderInv, TimesInv
  <2>6. RowIsLatest'
    BY <2>3 DEF RowIsLatest
  <2>7. ASSUME NEW x \in Editors  PROVE LatestBy(x)'
    <3>1. ASSUME pc[x] = "commit"
          PROVE  new.at > job[x].began /\ new \in versions' /\ new.at \in Nat
                 /\ job[x].began \in Nat
      BY <3>1, <2>1, <2>4, <1>0 DEF TypeOK, Jobs, OrderInv, TimesInv, Pending
    <3>2. ASSUME pc'[x] = "commit", \A w \in versions' : w.at <= job'[x].began
          PROVE  FALSE
      <4>1. pc[x] = "commit" /\ job'[x] = job[x]
        BY <3>2, <2>3, <1>o
      <4> HIDE DEF new
      <4> QED  BY <4>1, <3>1, <3>2
    <3> QED  BY <3>2, <2>3 DEF LatestBy
  <2> QED  BY <2>5, <2>6, <2>7 DEF OrderInv
<1>2. CASE RestoreRow(e)
  <2>1. /\ pc[e] = "restore" /\ pc'[e] = "idle" /\ row' = job[e].text
        /\ UNCHANGED <<versions, clock>>
        /\ \A x \in Editors : x # e =>
              raced'[x] = IF pc[x] = "write" THEN raced[x] \cup {"row"} ELSE raced[x]
    BY <1>2, <1>0, <1>f DEF RestoreRow, Overtakes, TypeOK
  <2>2. astray'.text = \E v \in versions : v.at > job[e].began
    BY <1>2, <1>0 DEF RestoreRow, TypeOK
  <2>3. TimesInv'
    <3>1. \A x \in Editors : Pending(x)' => Pending(x) /\ job'[x] = job[x]
      BY <2>1, <1>o DEF Pending
    <3>2. \A x \in Editors : pc'[x] = "restore" => pc[x] = "restore" /\ job'[x] = job[x]
      BY <2>1, <1>o
    <3> QED  BY <3>1, <3>2, <2>1 DEF OrderInv, TimesInv
  <2>4. RowIsLatest'
    <3> DEFINE new == [text |-> job[e].text, at |-> job[e].began]
    <3> SUFFICES ASSUME ~astray'.text  PROVE row' = Latest'
      BY DEF RowIsLatest
    <3>1. new \in versions /\ job[e].began \in Nat /\ \A w \in versions : w.at \in Nat
      BY <2>1, <1>0 DEF OrderInv, TimesInv, TypeOK, Jobs
    <3>2. \A w \in versions : w.at <= new.at
      BY <2>2, <3>1
    <3>3. /\ versions \in SUBSET [text : Texts, at : Nat]
          /\ \A w, u \in versions : w.at = u.at => w = u
      BY <1>0 DEF TypeOK, OrderInv, TimesInv
    <3> HIDE DEF new
    <3>4. Latest' = new.text
      BY <2>1, <3>1, <3>2, <3>3, NewestIsChosen DEF Latest
    <3> QED  BY <2>1, <3>4 DEF new
  <2>5. ASSUME NEW x \in Editors  PROVE LatestBy(x)'
    <3>1. Latest' = Latest
      BY <2>1 DEF Latest
    <3>2. x # e /\ pc[x] = "write" => raced'[x] # {}
      BY <2>1
    <3> QED  BY <2>1, <3>1, <3>2, <1>o DEF OrderInv, LatestBy
  <2> QED  BY <2>3, <2>4, <2>5 DEF OrderInv
<1>3. ASSUME \/ \E v \in versions : Publish(e, v)
             \/ Patch(e) \/ Record(e) \/ Link(e) \/ LinkRow(e) \/ Unlink(e)
             \/ DeleteRemote(e)
      PROVE  OrderInv'
  <2>1. /\ UNCHANGED <<row, versions, clock>>
        /\ pc[e] \in {"idle", "patch", "record", "link", "delete"}
    BY <1>3 DEF Publish, Patch, Record, Link, LinkRow, Unlink, DeleteRemote
  <2>2. pc'[e] \in {"idle", "patch", "record", "link", "delete"}
    BY <1>3, <1>0, <1>s, <1>f DEF Publish, Patch, Record, Link, LinkRow, Unlink,
                                  DeleteRemote, Goto, TypeOK
  <2>3. astray'.text = astray.text
    BY <1>3, <1>0 DEF Publish, Patch, Record, Link, LinkRow, Unlink, DeleteRemote, TypeOK
  <2>4. \A x \in Editors : x # e => raced[x] \subseteq raced'[x]
    BY <1>3, <1>s, <1>u DEF Publish, Patch, Record, Link, LinkRow, Unlink, DeleteRemote,
                            Overtakes
  <2> QED  BY <2>1, <2>2, <2>3, <2>4, <1>o, CalmStep DEF Pending
<1> QED  BY <1>1, <1>2, <1>3 DEF RequestStep

LEMMA NextOrder == ASSUME ShapeInv, OrderInv, [Next]_vars  PROVE OrderInv'
<1> USE DEF database, activity, history
<1>0. TypeOK
  BY DEF ShapeInv
<1>1. ASSUME NEW e \in Editors, Crash(e)  PROVE OrderInv'
  <2>1. /\ UNCHANGED <<row, versions, clock>> /\ pc'[e] = "idle"
        /\ \A x \in Editors : x # e => pc'[x] = pc[x] /\ job'[x] = job[x]
                                       /\ raced'[x] = raced[x]
    BY <1>1, <1>0 DEF Crash, Unraced, TypeOK
  <2>2. astray'.text = (astray.text \/ pc[e] = "restore")
    <3>1. astray' = [astray EXCEPT !.text = @ \/ pc[e] = "restore",
                                   !.publish = @ \/ pc[e] = "record"]
      BY <1>1 DEF Crash
    <3>2. astray \in [text : BOOLEAN, publish : BOOLEAN, link : BOOLEAN]
      BY <1>0 DEF TypeOK
    <3> QED  BY <3>1, <3>2
  <2>3. CASE pc[e] # "restore"
    <3>1. astray'.text = astray.text
      <4>1. astray.text \in BOOLEAN /\ astray'.text \in BOOLEAN
        BY <1>1, <1>0 DEF Crash, TypeOK
      <4> QED  BY <4>1, <2>2, <2>3
    <3> QED  BY <3>1, <2>1, <2>3, CalmStep DEF Pending
  <2>4. CASE pc[e] = "restore"
    <3>1. \A x \in Editors : pc'[x] = "restore" \/ Pending(x)' =>
             pc'[x] = pc[x] /\ job'[x] = job[x]
      BY <2>1 DEF Pending
    <3>2. TimesInv'
      BY <2>1, <3>1 DEF OrderInv, TimesInv, Pending
    <3>3. RowIsLatest' /\ Latest' = Latest
      BY <2>1, <2>2, <2>4 DEF RowIsLatest, Latest
    <3>4. ASSUME NEW x \in Editors  PROVE LatestBy(x)'
      BY <2>1, <2>2, <2>4, <3>3 DEF OrderInv, LatestBy
    <3> QED  BY <3>2, <3>3, <3>4 DEF OrderInv
  <2> QED  BY <2>3, <2>4
<1>2. ASSUME NEW e \in Editors, AnswerLost(e)  PROVE OrderInv'
  <2>1. /\ UNCHANGED <<row, versions, clock, astray, raced>>
        /\ pc[e] = "answer" /\ pc'[e] = "idle"
        /\ \A x \in Editors : x # e => pc'[x] = pc[x] /\ job'[x] = job[x]
    BY <1>2, <1>0 DEF AnswerLost, TypeOK
  <2> QED  BY <2>1, CalmStep DEF Pending
<1>3. CASE OutsideEdit \/ UNCHANGED vars
  <2>1. /\ UNCHANGED <<row, versions, clock, pc, job>> /\ astray'.text = astray.text
        /\ \A x \in Editors : raced[x] \subseteq raced'[x]
    <3>1. CASE OutsideEdit
      <4>1. /\ UNCHANGED <<row, versions, clock, pc, job>>
            /\ \A x \in Editors : raced[x] \subseteq raced'[x]
        BY <3>1 DEF OutsideEdit
      <4>2. astray'.text = astray.text
        BY <3>1, <1>0 DEF OutsideEdit, TypeOK
      <4> QED  BY <4>1, <4>2
    <3>2. CASE UNCHANGED vars
      BY <3>2 DEF vars
    <3> QED  BY <1>3, <3>1, <3>2
  <2>2. Latest' = Latest
    BY <2>1 DEF Latest
  <2>3. TimesInv' /\ RowIsLatest'
    BY <2>1, <2>2 DEF OrderInv, TimesInv, RowIsLatest, Pending
  <2>4. ASSUME NEW x \in Editors  PROVE LatestBy(x)'
    BY <2>1, <2>2 DEF OrderInv, LatestBy
  <2> QED  BY <2>3, <2>4 DEF OrderInv
<1>4. ASSUME NEW e \in Editors, ServerStep(e)  PROVE OrderInv'
  BY <1>4, UpdateStepOrder, RequestStepOrder DEF ServerStep, UpdateStep, RequestStep
<1> QED  BY <1>1, <1>2, <1>3, <1>4, BrowserCalm DEF Next

LEMMA InitOrder == ASSUME Init  PROVE OrderInv
<1> DEFINE first == [text |-> Opening, at |-> 0]
<1>1. versions = {first} /\ row = Opening /\ clock = 0 /\ first.at = 0
      /\ first.text = Opening /\ \A e \in Editors : pc[e] = "idle"
  BY DEF Init
<1>2. Latest = Opening
  <2>1. first \in [text : Texts, at : Nat]
    BY ConstantsAssumption
  <2> HIDE DEF first
  <2>2. versions \in SUBSET [text : Texts, at : Nat]
    BY <1>1, <2>1
  <2> QED  BY <1>1, <2>2, NewestIsChosen DEF Latest
<1> HIDE DEF first
<1>3. TimesInv
  BY <1>1 DEF TimesInv, Pending
<1>4. RowIsLatest /\ \A e \in Editors : LatestBy(e)
  BY <1>1, <1>2 DEF RowIsLatest, LatestBy
<1> QED  BY <1>3, <1>4 DEF OrderInv

LEMMA OrderAlways == Spec => [](ShapeInv /\ OrderInv)
<1>1. Init => ShapeInv /\ OrderInv
  BY InitShape, InitOrder
<1>2. ShapeInv /\ OrderInv /\ [Next]_vars => (ShapeInv /\ OrderInv)'
  BY NextShape, NextOrder
<1> QED  BY <1>1, <1>2, PTL DEF Spec

(* The row's text is the latest version's, unless the last write to reach the *)
(* row had begun before one that was already there, or a restore is half done.*)
THEOREM RowFollowsVersions == Spec => []RowIsLatest
<1>1. OrderInv => RowIsLatest
  BY DEF OrderInv
<1> QED  BY <1>1, OrderAlways, PTL

(* A save with a hash replaces only a text its editor has seen, unless some   *)
(* commit fell between the comparison and the row's lock.                     *)
THEOREM GuardedSavesSaw == Spec => GuardedSaveSawIt
<1> DEFINE Saw == \A e \in Editors :
                    /\ WriteRow(e)
                    /\ job[e].hash \in seen[e]
                    /\ raced[e] = {}
                    /\ ~astray.text /\ \A x \in Editors : pc[x] # "restore"
                    => row \in seen[e]
<1>1. ASSUME ShapeInv, OrderInv  PROVE Saw
  <2> SUFFICES ASSUME NEW e \in Editors, WriteRow(e), job[e].hash \in seen[e],
                      raced[e] = {}, ~astray.text,
                      \A x \in Editors : pc[x] # "restore"
               PROVE  row \in seen[e]
    OBVIOUS
  <2>1. job[e].hash # None /\ pc[e] = "write"
    BY <1>1, ConstantsAssumption DEF ShapeInv, TypeOK, WriteRow
  <2>2. Latest = job[e].hash /\ row = Latest
    BY <1>1, <2>1 DEF OrderInv, LatestBy, RowIsLatest
  <2> QED  BY <2>2
<1> HIDE DEF Saw
<1>2. ShapeInv /\ OrderInv => [Saw]_vars
  BY <1>1
<1>3. Spec => [][Saw]_vars
  BY <1>2, OrderAlways, PTL
<1> QED  BY <1>3 DEF GuardedSaveSawIt, Saw
=============================================================================
