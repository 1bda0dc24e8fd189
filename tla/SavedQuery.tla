----------------------------- MODULE SavedQuery -----------------------------
(***************************************************************************)
(* One saved query of a shared folder, open in several editors at once.    *)
(*                                                                         *)
(* The API keeps the query's text in a row and every text it ever had in   *)
(* a list of versions; a save is one transaction that updates the row and  *)
(* adds a version, a restore is the same two writes without one            *)
(* (query-versions.service.ts).  A save from an editor carries the hash of *)
(* the version the editor opened, and is refused as stale when that is no  *)
(* longer the latest one (saved-queries.service.ts); the flows of          *)
(* features/editor-workspace/hooks that save without the hash are modelled *)
(* as they are.  The query may be linked to a Query Activity of Marketing  *)
(* Cloud, to which a version is published and from which a text is taken   *)
(* (query-activities.service.ts).                                          *)
(*                                                                         *)
(* A text stands for its hash too.  A version's time is that of the        *)
(* transaction's start, as the column default now() is; times are the      *)
(* values of a counter, so that no two are the same.  Creating and         *)
(* deleting the saved query, and features that are switched off, are not   *)
(* part of this module.                                                    *)
(***************************************************************************)
EXTENDS Naturals, FiniteSets

CONSTANTS
    Editors,      \* browser tabs in which the query is open
    Texts,        \* the SQL texts
    Opening,      \* the text the query was created with
    None,         \* no text: nothing published, activity deleted
    Foreign,      \* the hash of a version of another saved query
    MaxRequests,  \* bound: requests sent, and saves of tabs that send none
    MaxTyped,     \* bound: edits in the browser
    MaxFailures,  \* bound: faults
    Faults        \* which ones happen: "crash", "lost", "outside"

ASSUME ConstantsAssumption ==
    /\ Opening \in Texts
    /\ None \notin Texts
    /\ Foreign \notin Texts \cup {None}
    /\ None \notin Editors
    /\ MaxRequests \in Nat /\ MaxTyped \in Nat /\ MaxFailures \in Nat
    /\ Faults \subseteq {"crash", "lost", "outside"}

VARIABLES
    row,        \* saved_queries: the text
    linked,     \* ... and whether it is linked to the activity
    versions,   \* query_versions: text and time of each
    lock,       \* the editor whose transaction has updated the row, or None
    clock,      \* the database's time
    remote,     \* the activity's text in Marketing Cloud, None once deleted
    published,  \* the text of the last publish event, None before the first
    tab,        \* each editor's content, what it counts as saved, its hash
    pc,         \* where each editor's request is
    job,        \* what the request carries
    bounds      \* requests, edits and faults so far

\* History: the texts an editor was shown; whether another request wrote
\* while this one was between two steps; whether the content was typed while
\* the request was under way, and whether the one counted as saved was, or
\* never was in a request; and whether the last write of the text, the last
\* publish, the last link came out of order.
VARIABLES seen, raced, typed, strayed, astray

database == <<row, linked, versions, lock, clock>>
activity == <<remote, published>>
history  == <<seen, raced, typed, strayed, astray>>
vars     == <<database, activity, tab, pc, job, bounds, history>>

Latest == (CHOOSE v \in versions : \A w \in versions : w.at <= v.at).text
Kept   == {v.text : v \in versions}
Dirty(e) == tab[e].content # tab[e].original

Idle == [kind |-> "none", text |-> None, hash |-> None, began |-> 0,
         fresh |-> FALSE]

Init ==
    /\ row = Opening
    /\ linked \in BOOLEAN
    /\ versions = {[text |-> Opening, at |-> 0]}
    /\ lock = None
    /\ clock = 0
    /\ remote \in Texts
    /\ published = None
    /\ tab = [e \in Editors |-> [content |-> Opening, original |-> Opening,
                                 hash |-> Opening]]
    /\ pc = [e \in Editors |-> "idle"]
    /\ job = [e \in Editors |-> Idle]
    /\ bounds = [requests |-> 0, typed |-> 0, failures |-> 0]
    /\ seen = [e \in Editors |-> {Opening}]
    /\ raced = [e \in Editors |-> {}]
    /\ typed = [e \in Editors |-> FALSE]
    /\ strayed = [e \in Editors |-> FALSE]
    /\ astray = [text |-> FALSE, publish |-> FALSE, link |-> FALSE]

\* The request of e starts, at the step `at', with this job.
Send(e, at, carries) ==
    /\ bounds.requests < MaxRequests
    /\ bounds' = [bounds EXCEPT !.requests = @ + 1]
    /\ pc' = [pc EXCEPT ![e] = at]
    /\ job' = [job EXCEPT ![e] = carries]
    /\ raced' = [raced EXCEPT ![e] = {}]
    /\ typed' = [typed EXCEPT ![e] = FALSE]

\* The request of e goes on to the step `at'.
Goto(e, at) ==
    /\ pc' = [pc EXCEPT ![e] = at]
    /\ UNCHANGED bounds

\* The activity was deleted since e looked it up, or is about to be.
DeletedSince(e) == "gone" \in raced[e] \/ \E x \in Editors : pc[x] = "delete"

\* The request of e is over.
Finish(e) ==
    /\ pc' = [pc EXCEPT ![e] = "idle"]
    /\ job' = [job EXCEPT ![e] = Idle]
    /\ typed' = [typed EXCEPT ![e] = FALSE]
    /\ UNCHANGED bounds

\* A step of e changes this under the requests of others that are at `step'.
Overtakes(e, step, what) ==
    raced' = [x \in Editors |-> IF x = e THEN {}
                                ELSE IF pc[x] = step THEN raced[x] \cup {what}
                                ELSE raced[x]]
Unraced(e) == raced' = [raced EXCEPT ![e] = {}]

-----------------------------------------------------------------------------
(* The browser: tabs-store.ts and the hooks that save.                     *)

\* updateTabContent.  The dialog about the conflict is the only modal one.
Type(e, t) ==
    /\ pc[e] # "conflict"
    /\ bounds.typed < MaxTyped
    /\ t # tab[e].content
    /\ bounds' = [bounds EXCEPT !.typed = @ + 1]
    /\ tab' = [tab EXCEPT ![e].content = t]
    /\ seen' = [seen EXCEPT ![e] = @ \cup {t}]
    /\ typed' = [typed EXCEPT ![e] = pc[e] # "idle"]
    /\ UNCHANGED <<database, activity, pc, job, raced, strayed, astray>>

\* Save in the menu of a dirty tab (onSaveTab, EditorWorkspace.tsx): the tab
\* is marked as saved, and nothing is sent.
SaveTab(e) ==
    /\ pc[e] # "conflict"
    /\ Dirty(e)
    /\ bounds.requests < MaxRequests
    /\ bounds' = [bounds EXCEPT !.requests = @ + 1]
    /\ tab' = [tab EXCEPT ![e].original = tab[e].content]
    /\ strayed' = [strayed EXCEPT ![e] = TRUE]
    /\ UNCHANGED <<database, activity, pc, job, seen, raced, typed, astray>>

\* Another query is opened in the same workspace: the hash is the
\* workspace's, not the tab's (use-stale-detection.ts).
OpenOther(e) ==
    /\ pc[e] = "idle"
    /\ tab[e].hash # Foreign
    /\ tab' = [tab EXCEPT ![e].hash = Foreign]
    /\ UNCHANGED <<database, activity, pc, job, bounds, history>>

Update(e, kind, text, expected) ==
    /\ Send(e, "begin", [Idle EXCEPT !.kind = kind, !.text = text,
                                     !.hash = expected])
    /\ UNCHANGED <<database, activity, tab, seen, strayed, astray>>

\* executeSave: with the hash, or without it when the user overwrites.
Save(e)      == pc[e] = "idle" /\ Dirty(e)
                /\ Update(e, "save", tab[e].content, tab[e].hash)
Overwrite(e) == pc[e] = "conflict" /\ Update(e, "save", tab[e].content, None)

\* handleSaveAndContinue of the version history: no hash either way.
SaveAndContinue(e) == pc[e] = "idle" /\ Dirty(e)
                      /\ Update(e, "continue", tab[e].content, None)

\* handleDriftAcceptTheirs, with the text the drift check has just read.
AcceptTheirs(e) == pc[e] = "idle" /\ linked /\ remote # None
                   /\ Update(e, "theirs", remote, None)

\* linkQuery with keep-remote: the activity's text becomes the query's.
KeepRemote(e) == pc[e] = "idle" /\ remote # None
                 /\ Update(e, "remote", remote, None)

CancelConflict(e) ==
    /\ pc[e] = "conflict"
    /\ Finish(e)
    /\ UNCHANGED <<database, activity, tab, seen, raced, strayed, astray>>

\* The answer of an update.  markTabSaved takes what the tab contains NOW
\* for what was saved; only executeSave takes the hash of the answer, and
\* a link leaves the tab as it is.
Answer(e) ==
    /\ pc[e] = "answer"
    /\ LET j == job[e]
           saved == IF j.kind = "theirs" THEN j.text ELSE tab[e].content
       IN /\ tab' = IF j.kind = "remote" THEN tab
                    ELSE [tab EXCEPT ![e] =
                            [content |-> saved, original |-> saved,
                             hash |-> IF j.kind = "save" THEN j.hash
                                                         ELSE @.hash]]
          /\ strayed' = [strayed EXCEPT ![e] =
                           IF j.kind = "remote" THEN @
                           ELSE j.kind # "theirs" /\ typed[e]]
          /\ seen' = [seen EXCEPT ![e] = @ \cup {saved}]
    /\ Finish(e)
    /\ UNCHANGED <<database, activity, raced, astray>>

\* reloadLatest, and opening the query: findById reads the row ...
Load(e) ==
    /\ pc[e] = "conflict" \/ (pc[e] = "idle" /\ ~Dirty(e))
    /\ Send(e, "reading", [Idle EXCEPT !.text = row])
    /\ UNCHANGED <<database, activity, tab, seen, strayed, astray>>

\* ... and then, in a statement of its own, the latest version's hash.
Loaded(e) ==
    /\ pc[e] = "reading"
    /\ tab' = [tab EXCEPT ![e] = [content |-> job[e].text,
                                  original |-> job[e].text, hash |-> Latest]]
    /\ seen' = [seen EXCEPT ![e] = @ \cup {job[e].text}]
    /\ strayed' = [strayed EXCEPT ![e] = FALSE]
    /\ Finish(e)
    /\ UNCHANGED <<database, activity, raced, astray>>

-----------------------------------------------------------------------------
(* The API: SavedQueriesService.update and updateSqlAndLink, one           *)
(* transaction from Begin to Commit.                                       *)

Begin(e) ==
    /\ pc[e] = "begin"
    /\ clock' = clock + 1
    /\ job' = [job EXCEPT ![e].began = clock + 1]
    /\ Goto(e, IF job[e].hash = None THEN "write" ELSE "check")
    /\ UNCHANGED <<row, linked, versions, lock, activity, tab, history>>

\* As a bug would have it: no hash is ever stale.
Mutant_NeverStale(e) == TRUE

\* The expected hash against the latest version's; nothing is locked.
Fresh(e) == Latest = job[e].hash

\* As a bug would have it: the refusal is taken for the answer of a save.
Mutant_RefusalIsAnswer(e) ==
    /\ pc[e] = "check"
    /\ Goto(e, IF Fresh(e) THEN "write" ELSE "answer")
    /\ Unraced(e)
    /\ UNCHANGED <<database, activity, tab, job, seen, typed, strayed, astray>>

Check(e) ==
    /\ pc[e] = "check"
    /\ Goto(e, IF Fresh(e) THEN "write" ELSE "conflict")
    /\ job' = IF Fresh(e) THEN job ELSE [job EXCEPT ![e] = Idle]
    /\ Unraced(e)
    /\ UNCHANGED <<database, activity, tab, seen, typed, strayed, astray>>

\* The UPDATE takes the row's lock; others see the text once committed.
WriteRow(e) ==
    /\ pc[e] = "write"
    /\ lock = None
    /\ lock' = e
    /\ Goto(e, "version")
    /\ UNCHANGED <<row, linked, versions, clock, activity, tab, job, history>>

\* As bugs would have it: only what was typed in the editor makes a
\* version; and a text that is among the versions already makes none.
Mutant_OnlyOwnTexts(e) == Latest # job[e].text /\ job[e].kind = "save"
Mutant_NotAmongThem(e) == job[e].text \notin Kept

\* No second version of the same text: compared with the latest one only.
NeedsVersion(e) == Latest # job[e].text

Version(e) ==
    /\ pc[e] = "version"
    /\ job' = [job EXCEPT ![e].fresh = NeedsVersion(e)]
    /\ Goto(e, "commit")
    /\ UNCHANGED <<database, activity, tab, history>>

\* The commit, with the latest version read before it for the answer.  The
\* version's time is that of Begin, whatever was written since.
Commit(e) ==
    /\ pc[e] = "commit"
    /\ row' = job[e].text
    /\ linked' = (linked \/ job[e].kind = "remote")
    /\ versions' = IF job[e].fresh
                   THEN versions \cup {[text |-> job[e].text, at |-> job[e].began]}
                   ELSE versions
    /\ lock' = None
    /\ job' = [job EXCEPT ![e].hash = Latest']
    /\ Goto(e, "answer")
    /\ Overtakes(e, "write", "row")
    /\ astray' = [astray EXCEPT
          !.text = \E v \in versions : v.at > job[e].began,
          !.link = @ \/ (job[e].kind = "remote" /\ DeletedSince(e))]
    /\ UNCHANGED <<clock, activity, tab, seen, typed, strayed>>

\* QueryVersionsService.restore joins the request's connection, which has
\* no transaction: the version is there for all to see ...
Restore(e, v) ==
    /\ pc[e] = "idle"
    /\ v \in versions
    /\ clock' = clock + 1
    /\ versions' = versions \cup {[text |-> v.text, at |-> clock + 1]}
    /\ Send(e, "restore", [Idle EXCEPT !.kind = "restore", !.text = v.text,
                                       !.began = clock + 1])
    /\ UNCHANGED <<row, linked, lock, activity, tab, seen, strayed, astray>>

\* ... and then the row gets its text, and the editor's content with it.
RestoreRow(e) ==
    /\ pc[e] = "restore"
    /\ lock = None
    /\ row' = job[e].text
    /\ tab' = [tab EXCEPT ![e].content = job[e].text]
    /\ seen' = [seen EXCEPT ![e] = @ \cup {job[e].text}]
    /\ Finish(e)
    /\ Overtakes(e, "write", "row")
    /\ astray' = [astray EXCEPT
          !.text = \E v \in versions : v.at > job[e].began]
    /\ UNCHANGED <<linked, versions, lock, clock, activity, strayed>>

-----------------------------------------------------------------------------
(* The Query Activity: QueryActivitiesService.                             *)

\* publish: the link is read, and the version the user chose; only the button
\* that publishes the latest one wants a clean tab (use-publish-flow.ts).
Publish(e, v) ==
    /\ pc[e] = "idle"
    /\ linked
    /\ v \in versions
    /\ Send(e, "patch", [Idle EXCEPT !.kind = "publish", !.text = v.text])
    /\ UNCHANGED <<database, activity, tab, seen, strayed, astray>>

\* Marketing Cloud takes the text; there is none once it is deleted.
Patch(e) ==
    /\ pc[e] = "patch"
    /\ IF remote # None
       THEN /\ remote' = job[e].text
            /\ Goto(e, "record")
            /\ Overtakes(e, "record", "activity")
            /\ UNCHANGED <<job, typed>>
       ELSE Finish(e) /\ Unraced(e) /\ UNCHANGED remote
    /\ UNCHANGED <<database, published, tab, seen, strayed, astray>>

\* As a bug would have it: the event is about the latest version.
Mutant_RecordsLatest(e) ==
    /\ pc[e] = "record"
    /\ published' = Latest
    /\ Finish(e)
    /\ Unraced(e)
    /\ astray' = [astray EXCEPT !.publish = "activity" \in raced[e]]
    /\ UNCHANGED <<database, remote, tab, seen, strayed>>

\* The publish event, with the hash of the text that was sent.
Record(e) ==
    /\ pc[e] = "record"
    /\ published' = job[e].text
    /\ Finish(e)
    /\ Unraced(e)
    /\ astray' = [astray EXCEPT !.publish = "activity" \in raced[e]]
    /\ UNCHANGED <<database, remote, tab, seen, strayed>>

\* linkQuery: the activity is looked up ...
Link(e) ==
    /\ pc[e] = "idle"
    /\ remote # None
    /\ Send(e, "link", [Idle EXCEPT !.kind = "link"])
    /\ UNCHANGED <<database, activity, tab, seen, strayed, astray>>

\* ... and the row linked to it.
LinkRow(e) ==
    /\ pc[e] = "link"
    /\ lock = None
    /\ linked' = TRUE
    /\ Finish(e)
    /\ Unraced(e)
    /\ astray' = [astray EXCEPT !.link = @ \/ DeletedSince(e)]
    /\ UNCHANGED <<row, versions, lock, clock, activity, tab, seen, strayed>>

\* As a bug would have it: the activity is deleted before the row is
\* unlinked.
Mutant_DeletesFirst(e) ==
    /\ pc[e] = "idle"
    /\ linked
    /\ remote' = None
    /\ Send(e, "delete", [Idle EXCEPT !.kind = "unlink"])
    /\ UNCHANGED <<database, published, tab, seen, strayed, astray>>

\* unlinkQuery: the row is unlinked first, the activity deleted after it.
Unlink(e) ==
    /\ pc[e] = "idle"
    /\ linked
    /\ lock = None
    /\ linked' = FALSE
    /\ \E deleteRemote \in BOOLEAN :
          IF deleteRemote THEN Send(e, "delete", [Idle EXCEPT !.kind = "unlink"])
                          ELSE Send(e, "idle", Idle)
    /\ UNCHANGED <<row, versions, lock, clock, activity, tab, seen, strayed,
                   astray>>

DeleteRemote(e) ==
    /\ pc[e] = "delete"
    /\ remote' = None
    /\ Finish(e)
    /\ raced' = [x \in Editors |-> IF job[x].kind \in {"link", "remote"}
                                    THEN raced[x] \cup {"gone"} ELSE raced[x]]
    /\ UNCHANGED <<database, published, tab, seen, strayed, astray>>

-----------------------------------------------------------------------------
(* What fails.                                                             *)

Fail(kind) ==
    /\ kind \in Faults
    /\ bounds.failures < MaxFailures
    /\ bounds' = [bounds EXCEPT !.failures = @ + 1]

\* The API process dies, or a call of the request throws: a transaction is
\* rolled back, of a request without one what is written stays written.
Crash(e) ==
    /\ Fail("crash")
    /\ pc[e] \in {"begin", "check", "write", "version", "commit", "restore",
                  "patch", "record", "link", "delete"}
    /\ lock' = IF lock = e THEN None ELSE lock
    /\ pc' = [pc EXCEPT ![e] = "idle"]
    /\ job' = [job EXCEPT ![e] = Idle]
    /\ astray' = [astray EXCEPT !.text = @ \/ pc[e] = "restore",
                                !.publish = @ \/ pc[e] = "record"]
    /\ Unraced(e)
    /\ typed' = [typed EXCEPT ![e] = FALSE]
    /\ UNCHANGED <<row, linked, versions, clock, activity, tab, seen, strayed>>

\* The answer of an update that was committed does not arrive.
AnswerLost(e) ==
    /\ Fail("lost")
    /\ pc[e] = "answer"
    /\ pc' = [pc EXCEPT ![e] = "idle"]
    /\ job' = [job EXCEPT ![e] = Idle]
    /\ typed' = [typed EXCEPT ![e] = FALSE]
    /\ UNCHANGED <<database, activity, tab, seen, raced, strayed, astray>>

\* The activity is edited or deleted in Automation Studio.
OutsideEdit ==
    /\ Fail("outside")
    /\ remote # None
    /\ \E t \in (Texts \cup {None}) \ {remote} :
          /\ remote' = t
          /\ astray' = [astray EXCEPT !.publish = TRUE,
                                      !.link = @ \/ t = None]
    /\ raced' = [x \in Editors |-> IF pc[x] = "record"
                                    THEN raced[x] \cup {"activity"} ELSE raced[x]]
    /\ UNCHANGED <<database, published, tab, pc, job, seen, typed, strayed>>

-----------------------------------------------------------------------------
BrowserStep(e) ==
    \/ \E t \in Texts : Type(e, t)
    \/ SaveTab(e) \/ OpenOther(e) \/ Save(e) \/ Overwrite(e) \/ SaveAndContinue(e)
    \/ AcceptTheirs(e) \/ KeepRemote(e) \/ CancelConflict(e) \/ Answer(e)
    \/ Load(e) \/ Loaded(e)

ServerStep(e) ==
    \/ Begin(e) \/ Check(e) \/ WriteRow(e) \/ Version(e) \/ Commit(e)
    \/ \E v \in versions : Restore(e, v) \/ Publish(e, v)
    \/ RestoreRow(e) \/ Patch(e) \/ Record(e)
    \/ Link(e) \/ LinkRow(e) \/ Unlink(e) \/ DeleteRemote(e)

Next == \/ \E e \in Editors : BrowserStep(e) \/ ServerStep(e)
                             \/ Crash(e) \/ AnswerLost(e)
        \/ OutsideEdit

Spec == Init /\ [][Next]_vars

-----------------------------------------------------------------------------
(* What holds.                                                             *)

Steps == {"idle", "begin", "check", "write", "version", "commit", "answer",
          "conflict", "reading", "restore", "patch", "record", "link", "delete"}

Jobs == [kind  : {"none", "save", "continue", "theirs", "remote",
                  "restore", "publish", "link", "unlink"},
         text  : Texts \cup {None},
         hash  : Texts \cup {None, Foreign},
         began : Nat,
         fresh : BOOLEAN]

\* Every variable has its type; the row's lock is held by exactly the
\* request that has updated the row and not yet ended its transaction.
TypeOK ==
    /\ row \in Texts
    /\ linked \in BOOLEAN
    /\ versions \subseteq [text : Texts, at : Nat]
    /\ remote \in Texts \cup {None}
    /\ published \in Texts \cup {None}
    /\ tab \in [Editors -> [content : Texts, original : Texts,
                            hash : Texts \cup {Foreign}]]
    /\ pc \in [Editors -> Steps]
    /\ job \in [Editors -> Jobs]
    /\ lock \in Editors \cup {None}
    /\ \A e \in Editors : (lock = e) <=> pc[e] \in {"version", "commit"}
    /\ clock \in Nat
    /\ bounds \in [requests : Nat, typed : Nat, failures : Nat]
    /\ seen \in [Editors -> SUBSET Texts]
    /\ raced \in [Editors -> SUBSET {"row", "activity", "gone"}]
    /\ typed \in [Editors -> BOOLEAN] /\ strayed \in [Editors -> BOOLEAN]
    /\ astray \in [text : BOOLEAN, publish : BOOLEAN, link : BOOLEAN]

\* No text the query ever had is lost: the row's text is one of the
\* versions at every moment, so that what a save, a restore or a link
\* replaces can be restored: update and updateSqlAndLink write row and
\* version in one transaction, and leave the version out only when the
\* latest one, read under the row's lock, has the same text.
TextIsKept == row \in Kept

\* The row's text is the latest version's (findLatestBySavedQueryId orders
\* by the time the writing transaction began).  It may part from it only
\* when the last write to reach the row began before another that was
\* written already, or when a restore is half done; the next write that is
\* in order brings them together, whatever happened before.
RowIsLatest ==
    ~astray.text /\ (\A e \in Editors : pc[e] # "restore") => row = Latest

\* What a tab counts as saved is kept among the versions, whatever other
\* editors save, restore or link, and whatever is refused or rolled back -
\* unless it was typed while the save was on its way, or was marked as saved
\* by the tab's own menu, which sends nothing (markTabSaved, tabs-store.ts).
CleanTabIsKept ==
    \A e \in Editors : Dirty(e) \/ strayed[e] \/ tab[e].content \in Kept

\* tabs-store.ts calls originalContent the "content when opened/saved, for
\* dirty detection": a tab that is not dirty shows a text the query has had.
CleanTabWasSaved == \A e \in Editors : Dirty(e) \/ tab[e].content \in Kept

\* A linked query has its activity (unlinkQuery unlinks before it deletes),
\* unless the activity was deleted outside, or while it was being linked.
LinkedActivityExists == linked /\ ~astray.link => remote # None

\* The last publish event is about the text the activity has, between
\* publishes that did not overtake one another, none of which was cut off
\* before its event, and without edits outside.
RemoteIsRecorded ==
    ~astray.publish /\ published # None /\ remote # None
        /\ (\A e \in Editors : pc[e] # "record")
    => remote = published

\* A save that carries a hash replaces only a text its editor has seen: it
\* is for this that update refuses stale content.  Not so when another
\* commit fell between the comparison and the row's lock, when row and
\* version had parted, or when the hash is of a text the editor never got.
GuardedSaveSawIt ==
    [][\A e \in Editors :
         /\ WriteRow(e)
         /\ job[e].hash \in seen[e]
         /\ raced[e] = {}
         /\ ~astray.text /\ \A x \in Editors : pc[x] # "restore"
         => row \in seen[e]]_vars
=============================================================================
