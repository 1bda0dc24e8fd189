---------------------- MODULE SharedQueryDefinition_proofs ----------------------
(* What holds of SharedQueryDefinition for any number of runs of a user, of   *)
(* attempts, folders and failures.                                            *)
EXTENDS SharedQueryDefinition, SequenceTheorems, TLAPS

Execs == {"idle", "settings", "make", "store", "lookup", "drop", "create", "perform",
          "enqueue", "ack", "hookLookup", "hookDrop", "end"}
Polls == {"none", "byId", "byKey", "cleanup", "end"}

(* The types of the runs' variables, and of the rest. *)
RunShape ==
    /\ exec \in [Runs -> Execs] /\ poll \in [Runs -> Polls]
    /\ tries \in [Runs -> Nat] /\ folder \in [Runs -> Nat]
    /\ found \in [Runs -> Nat] /\ mine \in [Runs -> Nat] /\ watched \in [Runs -> Nat]
    /\ stopped \in [Runs -> 0 .. Confirmations - 1]
    /\ status \in [Runs -> {"open", "ready", "failed"}]

WorldShape ==
    /\ settings \in Nat /\ folders \in Nat /\ defs \in Seq(Definitions)
    /\ live \in Nat /\ swept \in Nat /\ failures \in Nat
    /\ crowded \subseteq Runs /\ repeated \subseteq Runs /\ deaf \subseteq Runs

(* What is named exists, and a run that goes on has found a folder. *)
NamesInv ==
    /\ settings <= folders /\ folders <= MaxFolders /\ failures <= MaxFailures + 1
    /\ live <= Len(defs) /\ swept <= Len(defs)
    /\ \A r \in Runs :
         /\ found[r] <= Len(defs) /\ mine[r] <= Len(defs) /\ watched[r] <= Len(defs)
         /\ tries[r] < Attempts[r] /\ folder[r] <= folders
         /\ exec[r] \in {"store", "lookup", "drop", "create"} => folder[r] # 0

ShapeInv == RunShape /\ WorldShape /\ NamesInv

Mine(r)     == exec[r] \in {"perform", "enqueue"}
Watching(r) == poll[r] \in {"byId", "byKey", "cleanup"}

(* The definitions a run has made are its own ones, and only those are        *)
(* performed, watched and deleted at its end.                                 *)
OwnInv(r) ==
    /\ mine[r] # 0 <=> Mine(r)
    /\ mine[r] # 0 => defs[mine[r]].maker = r /\ ~defs[mine[r]].old /\ watched[r] # mine[r]
    /\ watched[r] # 0 <=> Watching(r)
    /\ watched[r] # 0 => defs[watched[r]].maker = r

TasksInv ==
    /\ OwnQueryPerformed
    /\ swept # 0 => defs[swept].old
    /\ \A r, s \in Runs : r # s /\ InProgress(r) /\ InProgress(s) => r \in crowded

(* What a run that is alone finds under the key. *)
AloneInv(r) ==
    /\ r \notin crowded /\ Mine(r) => live \in {0, mine[r]}
    /\ r \notin crowded \cup deaf =>
         /\ exec[r] = "drop" => live \in {0, found[r]}
         /\ exec[r] = "create" => live = 0
         /\ exec[r] = "perform" => live = mine[r]
    /\ r \notin crowded \cup repeated =>
         /\ Watching(r) => live \in {0, watched[r]}
         /\ poll[r] # "none" => exec[r] \in {"ack", "end"}
         /\ poll[r] = "cleanup" /\ status[r] = "ready" => ~Running(watched[r])
    /\ status[r] = "ready" => poll[r] \in {"cleanup", "end"}

Inv == ShapeInv /\ TasksInv /\ \A r \in Runs : OwnInv(r) /\ AloneInv(r)

LEMMA InitInv == ASSUME Init  PROVE Inv
<1>1. RunShape
  BY NumbersAssumption DEF Init, RunShape, Execs, Polls
<1>2. defs \in Seq(Definitions) /\ Len(defs) = 0
  BY EmptySeq DEF Init
<1>3. WorldShape
  BY <1>2 DEF Init, WorldShape
<1>4. NamesInv
  BY <1>2, NumbersAssumption DEF Init, NamesInv
<1>5. TasksInv
  BY <1>2 DEF Init, TasksInv, OwnQueryPerformed, InProgress, Executing
<1>6. \A r \in Runs : OwnInv(r) /\ AloneInv(r)
  BY DEF Init, OwnInv, AloneInv, Mine, Watching
<1> QED  BY <1>1, <1>3, <1>4, <1>5, <1>6 DEF Inv, ShapeInv

(* The parts that name definitions that are there. *)
LEMMA Names ==
    ASSUME Inv, NEW r \in Runs
    PROVE  /\ Len(defs) \in Nat
           /\ mine[r] # 0 => mine[r] \in 1 .. Len(defs)
           /\ watched[r] # 0 => watched[r] \in 1 .. Len(defs)
           /\ swept # 0 => swept \in 1 .. Len(defs)
           /\ live # 0 => live \in 1 .. Len(defs)
<1>1. Len(defs) \in Nat
  BY LenProperties DEF Inv, ShapeInv, WorldShape
<1>2. mine[r] \in Nat /\ watched[r] \in Nat /\ swept \in Nat /\ live \in Nat
  BY DEF Inv, ShapeInv, WorldShape, RunShape
<1>3. mine[r] <= Len(defs) /\ watched[r] <= Len(defs) /\ swept <= Len(defs) /\ live <= Len(defs)
  BY DEF Inv, ShapeInv, NamesInv
<1> QED  BY <1>1, <1>2, <1>3
-----------------------------------------------------------------------------
(* The parts of the actions *)

LEMMA StepShape ==
    ASSUME RunShape, NEW r \in Runs, NEW from, NEW to \in Execs, Step(r, from, to)
    PROVE  /\ exec' \in [Runs -> Execs] /\ exec[r] = from /\ exec'[r] = to
           /\ \A s \in Runs : s # r => exec'[s] = exec[s]
  BY DEF RunShape, Step

LEMMA ForgetShape ==
    ASSUME RunShape, NEW r \in Runs, Forget(r)
    PROVE  /\ folder' \in [Runs -> Nat] /\ found' \in [Runs -> Nat] /\ mine' \in [Runs -> Nat]
           /\ folder'[r] = 0 /\ found'[r] = 0 /\ mine'[r] = 0
           /\ \A s \in Runs : s # r => /\ folder'[s] = folder[s] /\ found'[s] = found[s]
                                       /\ mine'[s] = mine[s]
  BY DEF RunShape, Forget

LEMMA FailShape ==
    ASSUME RunShape, NamesInv, NEW r \in Runs, FailAttempt(r)
    PROVE  /\ exec' \in [Runs -> Execs] /\ exec'[r] \in {"settings", "hookLookup"}
           /\ tries' \in [Runs -> Nat] /\ tries'[r] < Attempts[r]
           /\ status' \in [Runs -> {"open", "ready", "failed"}]
           /\ status'[r] = "ready" => status[r] = "ready"
           /\ folder' \in [Runs -> Nat] /\ found' \in [Runs -> Nat] /\ mine' \in [Runs -> Nat]
           /\ folder'[r] = 0 /\ found'[r] = 0 /\ mine'[r] = 0
           /\ UNCHANGED <<settings, poll, watched, stopped, swept>>
           /\ \A s \in Runs : s # r => /\ exec'[s] = exec[s] /\ folder'[s] = folder[s]
                                       /\ found'[s] = found[s] /\ mine'[s] = mine[s]
                                       /\ tries'[s] = tries[s] /\ status'[s] = status[s]
<1>1. tries[r] \in Nat /\ Attempts[r] \in Nat /\ Attempts[r] > 0 /\ tries[r] < Attempts[r]
  BY NumbersAssumption DEF RunShape, NamesInv
<1>2. PICK last \in BOOLEAN :
         /\ last <=> tries[r] + 1 >= Attempts[r]
         /\ tries' = [tries EXCEPT ![r] = IF last THEN 0 ELSE @ + 1]
         /\ exec' = [exec EXCEPT ![r] = IF last THEN "hookLookup" ELSE "settings"]
         /\ status' = [status EXCEPT ![r] = IF last /\ @ = "open" THEN "failed" ELSE @]
  BY DEF FailAttempt
<1>3. /\ tries' \in [Runs -> Nat] /\ tries'[r] < Attempts[r]
      /\ \A s \in Runs : s # r => tries'[s] = tries[s]
  BY <1>1, <1>2 DEF RunShape
<1>4. /\ exec' \in [Runs -> Execs] /\ exec'[r] \in {"settings", "hookLookup"}
      /\ \A s \in Runs : s # r => exec'[s] = exec[s]
  BY <1>2 DEF RunShape, Execs
<1>5. /\ status' \in [Runs -> {"open", "ready", "failed"}]
      /\ status'[r] = "ready" => status[r] = "ready"
      /\ \A s \in Runs : s # r => status'[s] = status[s]
  BY <1>2 DEF RunShape
<1>6. Forget(r) /\ UNCHANGED <<settings, poll, watched, stopped, swept>>
  BY DEF FailAttempt, pollVars
<1> QED  BY <1>3, <1>4, <1>5, <1>6, ForgetShape

LEMMA NewShape ==
    ASSUME WorldShape, NEW r \in Runs, folder[r] \in 1 .. MaxFolders, NewDefinition(r)
    PROVE  /\ defs' \in Seq(Definitions) /\ Len(defs) \in Nat /\ Len(defs') = Len(defs) + 1
           /\ live' = Len(defs) + 1 /\ folders' = folders
           /\ defs'[live'].maker = r /\ ~defs'[live'].old /\ defs'[live'].task = "none"
           /\ \A d \in 1 .. Len(defs) : defs'[d] = defs[d]
<1> DEFINE new == [maker |-> r, folder |-> folder[r], by |-> None, task |-> "none",
                   old |-> FALSE]
<1>1. new \in Definitions
  BY DEF Definitions
<1>2. /\ defs' = Append(defs, new) /\ live' = Len(defs') /\ folders' = folders
  BY DEF NewDefinition
<1>3. /\ defs' \in Seq(Definitions) /\ Len(defs') = Len(defs) + 1
      /\ defs'[Len(defs) + 1] = new
      /\ \A d \in 1 .. Len(defs) : defs'[d] = defs[d]
  BY <1>1, <1>2, AppendProperties DEF WorldShape
<1>4. Len(defs) \in Nat
  BY LenProperties DEF WorldShape
<1> QED  BY <1>2, <1>3, <1>4

LEMMA ChangeShape ==
    ASSUME WorldShape, NEW d \in 1 .. Len(defs), NEW x \in Definitions,
           defs' = [defs EXCEPT ![d] = x]
    PROVE  /\ defs' \in Seq(Definitions) /\ Len(defs') = Len(defs) /\ defs'[d] = x
           /\ \A e \in 1 .. Len(defs) : e # d => defs'[e] = defs[e]
  BY ExceptSeq DEF WorldShape
-----------------------------------------------------------------------------
(* A step of one run.  While it goes on every other one that goes on is beside *)
(* it, so that nothing is said of what that one finds under the key.          *)
Only(r) ==
    \A s \in Runs \ {r} :
      /\ exec'[s] = exec[s] /\ poll'[s] = poll[s] /\ tries'[s] = tries[s]
      /\ folder'[s] = folder[s] /\ found'[s] = found[s] /\ mine'[s] = mine[s]
      /\ watched'[s] = watched[s] /\ status'[s] = status[s]

DefsGrow ==
    /\ Len(defs') \in Nat /\ Len(defs') >= Len(defs)
    /\ \A d \in 1 .. Len(defs) : defs'[d].maker = defs[d].maker /\ defs'[d].old = defs[d].old

LEMMA NamesKept ==
    ASSUME Inv, NEW r \in Runs, Only(r), Len(defs') \in Nat, Len(defs') >= Len(defs),
           folders' \in folders .. MaxFolders, settings' <= folders',
           failures' <= MaxFailures + 1, live' <= Len(defs'), swept' = swept,
           found'[r] <= Len(defs'), mine'[r] <= Len(defs'), watched'[r] <= Len(defs'),
           tries'[r] < Attempts[r], folder'[r] <= folders',
           exec'[r] \in {"store", "lookup", "drop", "create"} => folder'[r] # 0
    PROVE  NamesInv'
<1>1. /\ folders \in Nat /\ folders' \in Nat /\ folders <= folders' /\ folders' <= MaxFolders
      /\ Len(defs) \in Nat /\ swept \in Nat
      /\ \A s \in Runs : /\ found[s] \in Nat /\ mine[s] \in Nat /\ watched[s] \in Nat
                         /\ folder[s] \in Nat
  BY Names, NumbersAssumption DEF Inv, ShapeInv, WorldShape, RunShape
<1>2. swept' <= Len(defs')
  BY <1>1 DEF Inv, ShapeInv, NamesInv
<1>3. ASSUME NEW s \in Runs
      PROVE  /\ found'[s] <= Len(defs') /\ mine'[s] <= Len(defs') /\ watched'[s] <= Len(defs')
             /\ tries'[s] < Attempts[s] /\ folder'[s] <= folders'
             /\ exec'[s] \in {"store", "lookup", "drop", "create"} => folder'[s] # 0
  <2>1. CASE s = r
    BY <2>1
  <2>2. CASE s # r
    <3>1. /\ found[s] <= Len(defs) /\ mine[s] <= Len(defs) /\ watched[s] <= Len(defs)
          /\ tries[s] < Attempts[s] /\ folder[s] <= folders
          /\ exec[s] \in {"store", "lookup", "drop", "create"} => folder[s] # 0
      BY DEF Inv, ShapeInv, NamesInv
    <3> QED  BY <1>1, <2>2, <3>1 DEF Only
  <2> QED  BY <2>1, <2>2
<1> QED  BY <1>1, <1>2, <1>3 DEF NamesInv

LEMMA RunStep ==
    ASSUME Inv, NEW r \in Runs, InProgress(r), ShapeInv', Only(r), DefsGrow,
           crowded' = crowded, swept' = swept, repeated \subseteq repeated',
           deaf \subseteq deaf', OwnQueryPerformed', OwnInv(r)', AloneInv(r)'
    PROVE  Inv'
<1>1. \A s \in Runs : s # r => (InProgress(s)' <=> InProgress(s))
  BY DEF Only, InProgress, Executing
<1>2. TasksInv'
  <2>1. swept' # 0 => defs'[swept'].old
    BY Names DEF DefsGrow, Inv, TasksInv
  <2>2. \A s, t \in Runs : s # t /\ InProgress(s)' /\ InProgress(t)' => s \in crowded'
    BY <1>1 DEF Inv, TasksInv
  <2> QED  BY <2>1, <2>2 DEF TasksInv
<1>3. ASSUME NEW s \in Runs, s # r  PROVE OwnInv(s)'
  <2>1. OwnInv(s)
    BY DEF Inv
  <2>2. mine'[s] = mine[s] /\ watched'[s] = watched[s] /\ exec'[s] = exec[s] /\ poll'[s] = poll[s]
    BY <1>3 DEF Only
  <2>3. /\ mine[s] # 0 => mine[s] \in 1 .. Len(defs)
        /\ watched[s] # 0 => watched[s] \in 1 .. Len(defs)
    BY Names
  <2> QED  BY <2>1, <2>2, <2>3 DEF OwnInv, Mine, Watching, DefsGrow
<1>4. ASSUME NEW s \in Runs, s # r  PROVE AloneInv(s)'
  <2>1. AloneInv(s)
    BY DEF Inv
  <2>2. InProgress(s) => s \in crowded
    BY <1>4 DEF Inv, TasksInv
  <2>3. exec'[s] = exec[s] /\ poll'[s] = poll[s] /\ status'[s] = status[s]
    BY <1>4 DEF Only
  <2> QED  BY <2>1, <2>2, <2>3 DEF AloneInv, Mine, Watching, InProgress, Executing
<1> QED  BY <1>2, <1>3, <1>4 DEF Inv

(* Most steps perform nothing. *)
LEMMA NothingPerformed ==
    ASSUME OwnQueryPerformed, defs' = defs
    PROVE  OwnQueryPerformed'
  BY DEF OwnQueryPerformed
-----------------------------------------------------------------------------
(* execute, but for the definition it creates *)

Moves(r) == \/ FindFolder(r) \/ MakeFolder(r) \/ StoreFolder(r) \/ Lookup(r) \/ Drop(r)
            \/ Acknowledge(r) \/ HookLookup(r) \/ HookDrop(r) \/ OldOneSurvives(r)

LEMMA MoveShape ==
    ASSUME Inv, NEW r \in Runs, Moves(r)
    PROVE  /\ RunShape' /\ Only(r) /\ Executing(r)
           /\ UNCHANGED <<defs, swept, poll, watched, stopped, status, mine, crowded, repeated>>
           /\ ~Mine(r) /\ ~Mine(r)' /\ live' \in {live, 0} /\ deaf \subseteq deaf'
           /\ deaf' \subseteq Runs
           /\ exec'[r] = "drop" => live' = live /\ found'[r] = live
           /\ exec'[r] = "create" => r \in deaf' \/ live = 0
                                       \/ (exec[r] = "drop" /\ live' = IF live = found[r] THEN 0
                                                                       ELSE live)
           /\ exec[r] \in {"ack", "end"} => exec'[r] \in {"ack", "end"}
           /\ found'[r] \in {found[r], 0, live} /\ tries'[r] < Attempts[r]
           /\ failures' \in Nat /\ failures' <= MaxFailures + 1
<1> USE DEF mceVars, executeVars, pollVars, historyVars
<1>x. {"lookup", "store", "make", "drop", "create", "ack", "end", "hookLookup", "hookDrop"}
        \subseteq Execs
  BY DEF Execs
<1>0. /\ RunShape /\ live \in Nat /\ folders \in Nat /\ settings \in Nat /\ failures \in Nat
      /\ failures <= MaxFailures + 1 /\ tries[r] < Attempts[r] /\ deaf \subseteq Runs
  BY DEF Inv, ShapeInv, WorldShape, NamesInv
<1>1. CASE FindFolder(r)
  <2>1. PICK to \in {"lookup", "store", "make"}, f \in Nat :
           Step(r, "settings", to) /\ folder' = [folder EXCEPT ![r] = f]
    <3>1. PICK f \in IF settings # 0 \/ folders = 0 THEN {settings} ELSE 1 .. folders :
             folder' = [folder EXCEPT ![r] = f]
      BY <1>1 DEF FindFolder
    <3>2. f \in Nat
      BY <1>0, <3>1
    <3>3. PICK to \in {"lookup", "store", "make"} : Step(r, "settings", to)
      BY <1>1 DEF FindFolder
    <3> QED  BY <3>1, <3>2, <3>3
  <2>2. /\ exec' \in [Runs -> Execs] /\ exec[r] = "settings" /\ exec'[r] = to
        /\ \A s \in Runs : s # r => exec'[s] = exec[s]
    BY <1>x, <1>0, <2>1, StepShape
  <2>3. folder' \in [Runs -> Nat] /\ \A s \in Runs : s # r => folder'[s] = folder[s]
    BY <1>0, <2>1 DEF RunShape
  <2>4. UNCHANGED <<live, defs, swept, poll, watched, stopped, status, mine, found, tries,
                    crowded, repeated, deaf, failures>>
    BY <1>1 DEF FindFolder
  <2>5. RunShape' /\ Only(r)
    BY <1>0, <2>2, <2>3, <2>4 DEF RunShape, Only
  <2> QED  BY <1>0, <2>1, <2>2, <2>4, <2>5 DEF Executing, Mine
<1>2. CASE MakeFolder(r)
  <2>1. Step(r, "make", "store") /\ folders' = folders + 1
        /\ folder' = [folder EXCEPT ![r] = folders']
        /\ UNCHANGED <<live, defs, swept, poll, watched, stopped, status, mine, found, tries,
                       crowded, repeated, deaf, failures>>
    BY <1>2 DEF MakeFolder
  <2>2. /\ exec' \in [Runs -> Execs] /\ exec[r] = "make" /\ exec'[r] = "store"
        /\ \A s \in Runs : s # r => exec'[s] = exec[s]
    BY <1>x, <1>0, <2>1, StepShape
  <2>3. folder' \in [Runs -> Nat] /\ \A s \in Runs : s # r => folder'[s] = folder[s]
    BY <1>0, <2>1 DEF RunShape
  <2>4. RunShape' /\ Only(r)
    BY <1>0, <2>1, <2>2, <2>3 DEF RunShape, Only
  <2> QED  BY <1>0, <2>1, <2>2, <2>4 DEF Executing, Mine
<1>3. CASE StoreFolder(r) \/ Acknowledge(r)
  <2>1. PICK to \in {"lookup", "end"} :
           /\ Step(r, IF to = "lookup" THEN "store" ELSE "ack", to)
           /\ tries' \in {tries, [tries EXCEPT ![r] = 0]}
           /\ UNCHANGED <<live, defs, swept, poll, watched, stopped, status, mine, found,
                          folder, crowded, repeated, deaf, failures>>
    BY <1>3 DEF StoreFolder, Acknowledge
  <2>2. /\ exec' \in [Runs -> Execs] /\ exec'[r] = to
        /\ exec[r] = (IF to = "lookup" THEN "store" ELSE "ack")
        /\ \A s \in Runs : s # r => exec'[s] = exec[s]
    BY <1>x, <1>0, <2>1, StepShape
  <2>3. /\ tries' \in [Runs -> Nat] /\ \A s \in Runs : s # r => tries'[s] = tries[s]
        /\ tries'[r] < Attempts[r]
    BY <1>0, <2>1, NumbersAssumption DEF RunShape
  <2>4. RunShape' /\ Only(r)
    BY <1>0, <2>1, <2>2, <2>3 DEF RunShape, Only
  <2> QED  BY <1>0, <2>1, <2>2, <2>3, <2>4 DEF Executing, Mine
<1>4. CASE Lookup(r) \/ HookLookup(r)
  <2>1. PICK from \in {"lookup", "hookLookup"} :
           /\ Step(r, from, IF from = "lookup" THEN (IF live # 0 THEN "drop" ELSE "create")
                            ELSE (IF live # 0 THEN "hookDrop" ELSE "end"))
           /\ found' = [found EXCEPT ![r] = live]
           /\ UNCHANGED <<live, defs, swept, poll, watched, stopped, status, mine, tries,
                          folder, crowded, repeated, deaf, failures>>
    BY <1>4 DEF Lookup, HookLookup
  <2>2. /\ exec' \in [Runs -> Execs] /\ exec[r] = from
        /\ exec'[r] = (IF from = "lookup" THEN (IF live # 0 THEN "drop" ELSE "create")
                       ELSE (IF live # 0 THEN "hookDrop" ELSE "end"))
        /\ \A s \in Runs : s # r => exec'[s] = exec[s]
    BY <1>x, <1>0, <2>1, StepShape
  <2>3. /\ found' \in [Runs -> Nat] /\ found'[r] = live
        /\ \A s \in Runs : s # r => found'[s] = found[s]
    BY <1>0, <2>1 DEF RunShape
  <2>4. RunShape' /\ Only(r)
    BY <1>0, <2>1, <2>2, <2>3 DEF RunShape, Only
  <2> QED  BY <1>0, <2>1, <2>2, <2>3, <2>4 DEF Executing, Mine
<1>5. CASE Drop(r) \/ HookDrop(r)
  <2>1. PICK from \in {"drop", "hookDrop"} :
           /\ Step(r, from, IF from = "drop" THEN "create" ELSE "end")
           /\ found' = [found EXCEPT ![r] = 0] /\ Delete(found[r])
           /\ UNCHANGED <<defs, swept, poll, watched, stopped, status, mine, tries,
                          folder, crowded, repeated, deaf, failures>>
    BY <1>5 DEF Drop, HookDrop
  <2>2. /\ exec' \in [Runs -> Execs] /\ exec[r] = from
        /\ exec'[r] = (IF from = "drop" THEN "create" ELSE "end")
        /\ \A s \in Runs : s # r => exec'[s] = exec[s]
    BY <1>x, <1>0, <2>1, StepShape
  <2>3. /\ found' \in [Runs -> Nat] /\ found'[r] = 0
        /\ \A s \in Runs : s # r => found'[s] = found[s]
    BY <1>0, <2>1 DEF RunShape
  <2>4. live' = (IF live = found[r] THEN 0 ELSE live)
    BY <2>1 DEF Delete
  <2>5. RunShape' /\ Only(r)
    BY <1>0, <2>1, <2>2, <2>3 DEF RunShape, Only
  <2> QED  BY <1>0, <2>1, <2>2, <2>3, <2>4, <2>5 DEF Executing, Mine
<1>6. CASE OldOneSurvives(r)
  <2>1. PICK from \in {"lookup", "drop", "hookLookup", "hookDrop"} :
           /\ Step(r, from, IF from \in {"lookup", "drop"} THEN "create" ELSE "end")
           /\ found' = [found EXCEPT ![r] = 0]
           /\ deaf' = IF exec[r] \in {"lookup", "drop"} THEN deaf \cup {r} ELSE deaf
           /\ Fault("mce")
           /\ UNCHANGED <<live, defs, swept, poll, watched, stopped, status, mine, tries,
                          folder, crowded, repeated>>
    <3>1. \E from \in {"lookup", "drop", "hookLookup", "hookDrop"} :
             Step(r, from, IF from \in {"lookup", "drop"} THEN "create" ELSE "end")
      BY <1>6 DEF OldOneSurvives
    <3>2. /\ found' = [found EXCEPT ![r] = 0] /\ Fault("mce")
          /\ deaf' = IF exec[r] \in {"lookup", "drop"} THEN deaf \cup {r} ELSE deaf
          /\ UNCHANGED <<live, defs, swept, poll, watched, stopped, status, mine, tries,
                         folder, crowded, repeated>>
      BY <1>6 DEF OldOneSurvives
    <3> QED  BY <3>1, <3>2
  <2>2. /\ exec' \in [Runs -> Execs] /\ exec[r] = from
        /\ exec'[r] = (IF from \in {"lookup", "drop"} THEN "create" ELSE "end")
        /\ \A s \in Runs : s # r => exec'[s] = exec[s]
    BY <1>x, <1>0, <2>1, StepShape
  <2>3. /\ found' \in [Runs -> Nat] /\ found'[r] = 0
        /\ \A s \in Runs : s # r => found'[s] = found[s]
    BY <1>0, <2>1 DEF RunShape
  <2>4. failures' \in Nat /\ failures' <= MaxFailures + 1
    BY <1>0, <2>1, NumbersAssumption DEF Fault
  <2>5. RunShape' /\ Only(r)
    BY <1>0, <2>1, <2>2, <2>3 DEF RunShape, Only
  <2>6. deaf \subseteq deaf' /\ deaf' \subseteq Runs /\ (exec'[r] = "create" => r \in deaf')
    BY <1>0, <2>1, <2>2
  <2> QED  BY <1>0, <2>1, <2>2, <2>3, <2>4, <2>5, <2>6 DEF Executing, Mine
<1> QED  BY <1>1, <1>2, <1>3, <1>4, <1>5, <1>6 DEF Moves

LEMMA MoveNames ==
    ASSUME Inv, NEW r \in Runs, Moves(r)
    PROVE  /\ folders' \in folders .. MaxFolders /\ settings' \in Nat /\ settings' <= folders'
           /\ folder'[r] <= folders' /\ swept' = swept
           /\ exec'[r] \in {"store", "lookup", "drop", "create"} => folder'[r] # 0
<1> USE DEF mceVars, executeVars, pollVars, historyVars
<1>0. /\ exec \in [Runs -> Execs] /\ folder \in [Runs -> Nat]
      /\ folders \in Nat /\ settings \in Nat /\ settings <= folders /\ folders <= MaxFolders
      /\ MaxFolders \in Nat /\ folder[r] \in Nat /\ folder[r] <= folders
      /\ exec[r] \in {"store", "lookup", "drop", "create"} => folder[r] # 0
  BY NumbersAssumption DEF Inv, ShapeInv, RunShape, WorldShape, NamesInv
<1>1. CASE FindFolder(r)
  <2>1. PICK f \in IF settings # 0 \/ folders = 0 THEN {settings} ELSE 1 .. folders :
             folder' = [folder EXCEPT ![r] = f]
    BY <1>1 DEF FindFolder
  <2>2. UNCHANGED <<settings, folders, swept>>
    BY <1>1 DEF FindFolder
  <2>3. exec'[r] = IF settings # 0 THEN "lookup" ELSE IF folders # 0 THEN "store" ELSE "make"
    BY <1>0, <1>1 DEF FindFolder, Step
  <2>4. folder'[r] = f /\ f <= folders /\ (settings # 0 \/ folders # 0 => f # 0)
    <3>1. CASE settings # 0 \/ folders = 0
      BY <1>0, <2>1, <3>1
    <3>2. CASE settings = 0 /\ folders # 0
      BY <1>0, <2>1, <3>2
    <3> QED  BY <3>1, <3>2
  <2> QED  BY <1>0, <2>2, <2>3, <2>4
<1>2. CASE MakeFolder(r)
  BY <1>0, <1>2 DEF MakeFolder, Step
<1>3. CASE StoreFolder(r)
  BY <1>0, <1>3 DEF StoreFolder, Step
<1>4. CASE Lookup(r) \/ Drop(r) \/ OldOneSurvives(r)
  <2>1. UNCHANGED <<settings, folders, swept, folder>>
    BY <1>4 DEF Lookup, Drop, OldOneSurvives
  <2>2. exec'[r] \in {"drop", "create"} => exec[r] \in {"lookup", "drop"}
    BY <1>0, <1>4 DEF Lookup, Drop, OldOneSurvives, Step
  <2>3. exec'[r] \notin {"store", "lookup"}
    BY <1>0, <1>4 DEF Lookup, Drop, OldOneSurvives, Step
  <2> QED  BY <1>0, <2>1, <2>2, <2>3
<1>5. CASE HookLookup(r) \/ HookDrop(r) \/ Acknowledge(r)
  <2>1. UNCHANGED <<settings, folders, swept, folder>>
    BY <1>5 DEF HookLookup, HookDrop, Acknowledge
  <2>2. exec'[r] \in {"hookDrop", "end"}
    BY <1>0, <1>5 DEF HookLookup, HookDrop, Acknowledge, Step
  <2> QED  BY <1>0, <2>1, <2>2
<1> QED  BY <1>1, <1>2, <1>3, <1>4, <1>5 DEF Moves

LEMMA MoveStep ==
    ASSUME Inv, NEW r \in Runs, Moves(r)
    PROVE  Inv'
<1>1. /\ RunShape' /\ Only(r) /\ Executing(r)
      /\ UNCHANGED <<defs, swept, poll, watched, stopped, status, mine, crowded, repeated>>
      /\ ~Mine(r) /\ ~Mine(r)' /\ live' \in {live, 0} /\ deaf \subseteq deaf'
      /\ deaf' \subseteq Runs
      /\ exec'[r] = "drop" => live' = live /\ found'[r] = live
      /\ exec'[r] = "create" => r \in deaf' \/ live = 0
                                  \/ (exec[r] = "drop" /\ live' = IF live = found[r] THEN 0
                                                                  ELSE live)
      /\ exec[r] \in {"ack", "end"} => exec'[r] \in {"ack", "end"}
      /\ found'[r] \in {found[r], 0, live} /\ tries'[r] < Attempts[r]
      /\ failures' \in Nat /\ failures' <= MaxFailures + 1
  BY MoveShape
<1>2. /\ folders' \in folders .. MaxFolders /\ settings' \in Nat /\ settings' <= folders'
      /\ folder'[r] <= folders' /\ swept' = swept
      /\ exec'[r] \in {"store", "lookup", "drop", "create"} => folder'[r] # 0
  BY MoveNames
<1>3. /\ Len(defs) \in Nat /\ live \in Nat /\ live <= Len(defs) /\ found[r] <= Len(defs)
      /\ mine[r] <= Len(defs) /\ watched[r] <= Len(defs) /\ folders \in Nat
      /\ defs \in Seq(Definitions) /\ swept \in Nat /\ crowded \subseteq Runs
      /\ repeated \subseteq Runs
  BY Names DEF Inv, ShapeInv, NamesInv, WorldShape
<1>4. NamesInv'
  BY <1>1, <1>2, <1>3, NamesKept
<1>5. WorldShape'
  BY <1>1, <1>2, <1>3 DEF WorldShape
<1>6. OwnQueryPerformed'
  BY <1>1, NothingPerformed DEF Inv, TasksInv
<1>7. OwnInv(r)'
  BY <1>1 DEF Inv, OwnInv, Watching, Mine
<1>8. AloneInv(r)'
  <2>1. AloneInv(r)
    BY DEF Inv
  <2>2. r \notin crowded' \cup deaf' =>
           /\ exec'[r] = "drop" => live' \in {0, found'[r]}
           /\ exec'[r] = "create" => live' = 0
    BY <1>1, <2>1 DEF AloneInv
  <2>3. r \notin crowded' \cup repeated' =>
         /\ Watching(r)' => live' \in {0, watched'[r]}
         /\ poll'[r] # "none" => exec'[r] \in {"ack", "end"}
         /\ poll'[r] = "cleanup" /\ status'[r] = "ready" => ~Running(watched[r])'
    BY <1>1, <2>1 DEF AloneInv, Watching, Running
  <2>4. exec'[r] # "perform"
    BY <1>1 DEF Mine
  <2> QED  BY <1>1, <2>1, <2>2, <2>3, <2>4 DEF AloneInv
<1>9. DefsGrow /\ InProgress(r)
  BY <1>1, <1>3 DEF DefsGrow, InProgress
<1> QED  BY <1>1, <1>2, <1>4, <1>5, <1>6, <1>7, <1>8, <1>9, RunStep DEF ShapeInv
-----------------------------------------------------------------------------
(* execute, when it fails.  What it created may stay behind. *)

Fails(r) ==
    \/ MceThrows(r) \/ CreateUnanswered(r) \/ Crash(r)
    \/ (Create(r) /\ live # 0) \/ (Perform(r) /\ live # mine[r])

LEMMA NewKept ==
    ASSUME Inv, NEW r \in Runs, exec[r] = "create", NewDefinition(r)
    PROVE  /\ defs' \in Seq(Definitions) /\ Len(defs) \in Nat /\ Len(defs') = Len(defs) + 1
           /\ live' = Len(defs) + 1 /\ folders' = folders
           /\ defs'[live'].maker = r /\ ~defs'[live'].old
           /\ \A d \in 1 .. Len(defs) : defs'[d] = defs[d]
           /\ OwnQueryPerformed'
<1>1. folder[r] \in Nat /\ folder[r] # 0 /\ folder[r] <= MaxFolders
  <2>1. folder[r] \in Nat /\ folders \in Nat
    BY DEF Inv, ShapeInv, RunShape, WorldShape
  <2>2. folder[r] # 0 /\ folder[r] <= folders /\ folders <= MaxFolders
    BY DEF Inv, ShapeInv, NamesInv
  <2> QED  BY <2>1, <2>2, NumbersAssumption
<1>2. folder[r] \in 1 .. MaxFolders
  BY <1>1, NumbersAssumption
<1>3. /\ defs' \in Seq(Definitions) /\ Len(defs) \in Nat /\ Len(defs') = Len(defs) + 1
      /\ live' = Len(defs) + 1 /\ folders' = folders
      /\ defs'[live'].maker = r /\ ~defs'[live'].old /\ defs'[live'].task = "none"
      /\ \A d \in 1 .. Len(defs) : defs'[d] = defs[d]
  BY <1>2, NewShape DEF Inv, ShapeInv
<1>4. \A d \in 1 .. Len(defs') : d \in 1 .. Len(defs) \/ d = live'
  BY <1>3
<1>5. OwnQueryPerformed'
  BY <1>3, <1>4 DEF Inv, TasksInv, OwnQueryPerformed
<1> QED  BY <1>3, <1>5

LEMMA FailsShape ==
    ASSUME Inv, NEW r \in Runs, Fails(r)
    PROVE  /\ RunShape' /\ Only(r) /\ Executing(r) /\ exec'[r] \in {"settings", "hookLookup"}
           /\ folder'[r] = 0 /\ found'[r] = 0 /\ mine'[r] = 0 /\ tries'[r] < Attempts[r]
           /\ UNCHANGED <<settings, poll, watched, swept, crowded, deaf>>
           /\ repeated \subseteq repeated' /\ repeated' \subseteq Runs
           /\ status'[r] = "ready" => status[r] = "ready"
           /\ r \notin crowded \cup repeated' => poll[r] = "none"
           /\ failures' \in Nat /\ failures' <= MaxFailures + 1
           /\ \/ UNCHANGED <<folders, defs, live>>
              \/ exec[r] = "create" /\ NewDefinition(r)
<1> USE DEF mceVars, executeVars, pollVars, historyVars
<1>0. /\ RunShape /\ NamesInv /\ failures \in Nat /\ failures <= MaxFailures + 1
      /\ repeated \subseteq Runs /\ tries[r] < Attempts[r]
  BY DEF Inv, ShapeInv, WorldShape, NamesInv
<1>1. r \notin crowded \cup repeated /\ poll[r] # "none" => exec[r] \in {"ack", "end"}
  BY DEF Inv, AloneInv
<1>2. CASE Crash(r)
  <2>1. /\ exec[r] \in {"make", "store", "lookup", "drop", "create", "perform", "enqueue", "ack"}
        /\ exec' = [exec EXCEPT ![r] = "settings"] /\ Forget(r) /\ Fault("crash")
        /\ repeated' = IF poll[r] # "none" THEN repeated \cup {r} ELSE repeated
        /\ UNCHANGED <<settings, folders, defs, live, tries, poll, watched, stopped, status,
                       swept, crowded, deaf>>
    BY <1>2 DEF Crash
  <2>2. /\ exec' \in [Runs -> Execs] /\ exec'[r] = "settings"
        /\ \A s \in Runs : s # r => exec'[s] = exec[s]
    BY <1>0, <2>1 DEF RunShape, Execs
  <2>3. /\ folder' \in [Runs -> Nat] /\ found' \in [Runs -> Nat] /\ mine' \in [Runs -> Nat]
        /\ folder'[r] = 0 /\ found'[r] = 0 /\ mine'[r] = 0
        /\ \A s \in Runs : s # r => /\ folder'[s] = folder[s] /\ found'[s] = found[s]
                                    /\ mine'[s] = mine[s]
    BY <1>0, <2>1, ForgetShape
  <2>4. RunShape' /\ Only(r)
    BY <1>0, <2>1, <2>2, <2>3 DEF RunShape, Only
  <2>5. failures' \in Nat /\ failures' <= MaxFailures + 1
    BY <1>0, <2>1, NumbersAssumption DEF Fault
  <2>6. repeated \subseteq repeated' /\ repeated' \subseteq Runs
        /\ (r \notin crowded \cup repeated' => poll[r] = "none")
    BY <1>0, <2>1
  <2> QED  BY <1>0, <2>1, <2>2, <2>3, <2>4, <2>5, <2>6 DEF Executing
<1>3. CASE MceThrows(r) \/ CreateUnanswered(r) \/ (Create(r) /\ live # 0)
             \/ (Perform(r) /\ live # mine[r])
  <2>1. /\ FailAttempt(r) /\ UNCHANGED <<crowded, repeated, deaf>>
        /\ exec[r] \in {"settings", "make", "create", "perform"}
        /\ \/ UNCHANGED <<folders, defs, live>>
           \/ exec[r] = "create" /\ NewDefinition(r)
        /\ Fault("mce") \/ failures' = failures
    <3>1. CASE MceThrows(r)
      BY <3>1 DEF MceThrows
    <3>2. CASE CreateUnanswered(r)
      BY <3>2 DEF CreateUnanswered
    <3>3. CASE Create(r) /\ live # 0
      BY <3>3 DEF Create
    <3>4. CASE Perform(r) /\ live # mine[r]
      BY <3>4 DEF Perform, Performed
    <3> QED  BY <1>3, <3>1, <3>2, <3>3, <3>4
  <2>2. /\ exec' \in [Runs -> Execs] /\ exec'[r] \in {"settings", "hookLookup"}
        /\ tries' \in [Runs -> Nat] /\ tries'[r] < Attempts[r]
        /\ status' \in [Runs -> {"open", "ready", "failed"}]
        /\ status'[r] = "ready" => status[r] = "ready"
        /\ folder' \in [Runs -> Nat] /\ found' \in [Runs -> Nat] /\ mine' \in [Runs -> Nat]
        /\ folder'[r] = 0 /\ found'[r] = 0 /\ mine'[r] = 0
        /\ UNCHANGED <<settings, poll, watched, stopped, swept>>
        /\ \A s \in Runs : s # r => /\ exec'[s] = exec[s] /\ folder'[s] = folder[s]
                                    /\ found'[s] = found[s] /\ mine'[s] = mine[s]
                                    /\ tries'[s] = tries[s] /\ status'[s] = status[s]
    BY <1>0, <2>1, FailShape
  <2>3. RunShape' /\ Only(r)
    BY <1>0, <2>2 DEF RunShape, Only
  <2>4. failures' \in Nat /\ failures' <= MaxFailures + 1
    BY <1>0, <2>1, NumbersAssumption DEF Fault
  <2> QED  BY <1>0, <1>1, <2>1, <2>2, <2>3, <2>4 DEF Executing
<1> QED  BY <1>2, <1>3 DEF Fails

LEMMA FailsStep ==
    ASSUME Inv, NEW r \in Runs, Fails(r)
    PROVE  Inv'
<1>1. /\ RunShape' /\ Only(r) /\ Executing(r) /\ exec'[r] \in {"settings", "hookLookup"}
      /\ folder'[r] = 0 /\ found'[r] = 0 /\ mine'[r] = 0 /\ tries'[r] < Attempts[r]
      /\ UNCHANGED <<settings, poll, watched, swept, crowded, deaf>>
      /\ repeated \subseteq repeated' /\ repeated' \subseteq Runs
      /\ status'[r] = "ready" => status[r] = "ready"
      /\ r \notin crowded \cup repeated' => poll[r] = "none"
      /\ failures' \in Nat /\ failures' <= MaxFailures + 1
      /\ \/ UNCHANGED <<folders, defs, live>>
         \/ exec[r] = "create" /\ NewDefinition(r)
  BY FailsShape
<1>2. /\ Len(defs) \in Nat /\ live \in Nat /\ live <= Len(defs) /\ watched[r] <= Len(defs)
      /\ watched[r] \in Nat /\ defs \in Seq(Definitions) /\ swept \in Nat
      /\ crowded \subseteq Runs /\ deaf \subseteq Runs /\ settings \in Nat /\ folders \in Nat
      /\ settings <= folders /\ folders <= MaxFolders /\ MaxFolders \in Nat
  BY Names, NumbersAssumption DEF Inv, ShapeInv, NamesInv, WorldShape, RunShape
<1>3. /\ defs' \in Seq(Definitions) /\ Len(defs') \in Nat /\ Len(defs') >= Len(defs)
      /\ live' \in Nat /\ live' <= Len(defs') /\ folders' = folders
      /\ \A d \in 1 .. Len(defs) : defs'[d].maker = defs[d].maker /\ defs'[d].old = defs[d].old
      /\ OwnQueryPerformed'
  <2>1. CASE UNCHANGED <<folders, defs, live>>
    BY <1>2, <2>1, NothingPerformed DEF Inv, TasksInv
  <2>2. CASE exec[r] = "create" /\ NewDefinition(r)
    BY <1>2, <2>2, NewKept
  <2> QED  BY <1>1, <2>1, <2>2
<1>4. NamesInv'
  BY <1>1, <1>2, <1>3, NamesKept
<1>5. WorldShape'
  BY <1>1, <1>2, <1>3 DEF WorldShape
<1>6. OwnInv(r)'
  BY <1>1, <1>3, Names DEF Inv, OwnInv, Watching, Mine
<1>7. AloneInv(r)'
  BY <1>1 DEF Inv, AloneInv, Watching, Mine
<1>8. DefsGrow /\ InProgress(r)
  BY <1>1, <1>3 DEF DefsGrow, InProgress
<1> QED  BY <1>1, <1>3, <1>4, <1>5, <1>6, <1>7, <1>8, RunStep DEF ShapeInv
-----------------------------------------------------------------------------
(* execute, when it succeeds: from the definition to the poll job *)

(* What a step may rely on. *)
LEMMA Given ==
    ASSUME Inv, NEW r \in Runs
    PROVE  /\ Len(defs) \in Nat /\ defs \in Seq(Definitions)
           /\ live \in Nat /\ live <= Len(defs) /\ swept \in Nat
           /\ settings \in Nat /\ folders \in Nat /\ settings <= folders
           /\ folders <= MaxFolders /\ MaxFolders \in Nat /\ folders \in folders .. MaxFolders
           /\ failures \in Nat /\ failures <= MaxFailures + 1
           /\ crowded \subseteq Runs /\ deaf \subseteq Runs /\ repeated \subseteq Runs
           /\ found[r] \in Nat /\ mine[r] \in Nat /\ watched[r] \in Nat
           /\ found[r] <= Len(defs) /\ mine[r] <= Len(defs) /\ watched[r] <= Len(defs)
           /\ tries[r] < Attempts[r] /\ folder[r] <= folders
           /\ exec[r] \in {"store", "lookup", "drop", "create"} => folder[r] # 0
           /\ RunShape /\ OwnQueryPerformed /\ OwnInv(r) /\ AloneInv(r)
<1>1. RunShape /\ WorldShape /\ NamesInv /\ TasksInv /\ OwnInv(r) /\ AloneInv(r)
  BY DEF Inv, ShapeInv
<1>2. Len(defs) \in Nat /\ MaxFolders \in Nat
  BY Names, NumbersAssumption
<1>3. found[r] \in Nat /\ mine[r] \in Nat /\ watched[r] \in Nat
  BY <1>1 DEF RunShape
<1> QED  BY <1>1, <1>2, <1>3 DEF WorldShape, NamesInv, TasksInv

LEMMA CreateStep ==
    ASSUME Inv, NEW r \in Runs, Create(r), live = 0
    PROVE  Inv'
<1> USE DEF executeVars, pollVars, historyVars
<1>1. /\ NewDefinition(r) /\ mine' = [mine EXCEPT ![r] = live']
      /\ Step(r, "create", "perform")
      /\ UNCHANGED <<settings, tries, folder, found, poll, watched, stopped, status, swept,
                     crowded, repeated, deaf, failures>>
  BY DEF Create
<1>2. /\ defs' \in Seq(Definitions) /\ Len(defs) \in Nat /\ Len(defs') = Len(defs) + 1
      /\ live' = Len(defs) + 1 /\ folders' = folders
      /\ defs'[live'].maker = r /\ ~defs'[live'].old
      /\ \A d \in 1 .. Len(defs) : defs'[d] = defs[d]
      /\ OwnQueryPerformed'
  BY <1>1, NewKept DEF Step
<1>3. /\ exec' \in [Runs -> Execs] /\ exec[r] = "create" /\ exec'[r] = "perform"
      /\ \A s \in Runs : s # r => exec'[s] = exec[s]
  BY <1>1, Given, StepShape DEF Execs
<1>4. /\ mine' \in [Runs -> Nat] /\ mine'[r] = live' /\ live' \in Nat
      /\ \A s \in Runs : s # r => mine'[s] = mine[s]
  BY <1>1, <1>2, Given DEF RunShape
<1>5. RunShape' /\ Only(r)
  BY <1>1, <1>3, <1>4, Given DEF RunShape, Only
<1>6. WorldShape'
  BY <1>1, <1>2, <1>4, Given DEF WorldShape
<1>7. /\ found'[r] <= Len(defs') /\ mine'[r] <= Len(defs') /\ watched'[r] <= Len(defs')
      /\ live' <= Len(defs') /\ Len(defs') \in Nat /\ Len(defs') >= Len(defs)
      /\ watched[r] # mine'[r] /\ mine'[r] # 0
  BY <1>1, <1>2, <1>4, Given
<1>8. NamesInv'
  BY <1>1, <1>2, <1>3, <1>5, <1>7, Given, NamesKept
<1>9. DefsGrow /\ InProgress(r)
  BY <1>2, <1>3, <1>7 DEF DefsGrow, InProgress, Executing
<1>10. OwnInv(r)'
  BY <1>1, <1>2, <1>3, <1>4, <1>7, Given, Names DEF OwnInv, Mine, Watching
<1>11. AloneInv(r)'
  <2>1. r \notin crowded \cup repeated => poll[r] = "none"
    BY <1>3, Given DEF AloneInv
  <2>2. status[r] = "ready" => poll[r] \in {"cleanup", "end"}
    BY Given DEF AloneInv
  <2> QED  BY <1>1, <1>3, <1>4, <2>1, <2>2 DEF AloneInv, Mine, Watching
<1> QED  BY <1>1, <1>2, <1>5, <1>6, <1>8, <1>9, <1>10, <1>11, RunStep DEF ShapeInv

LEMMA PerformStep ==
    ASSUME Inv, NEW r \in Runs, Perform(r), live = mine[r]
    PROVE  Inv'
<1> USE DEF executeVars, pollVars, historyVars
<1> DEFINE x == [defs[mine[r]] EXCEPT !.by = r, !.task = "running"]
<1>1. /\ defs' = [defs EXCEPT ![mine[r]].by = r, ![mine[r]].task = "running"]
      /\ Step(r, "perform", "enqueue") /\ mine[r] # 0
      /\ UNCHANGED <<settings, folders, live, tries, folder, found, mine, poll, watched,
                     stopped, status, swept, crowded, repeated, deaf, failures>>
  BY DEF Perform, Performed
<1>2. /\ mine[r] \in 1 .. Len(defs) /\ defs[mine[r]] \in Definitions
      /\ defs[mine[r]].maker = r
  BY <1>1, Names, Given, ElementOfSeq DEF OwnInv
<1>3. x \in Definitions /\ x.maker = defs[mine[r]].maker /\ x.old = defs[mine[r]].old
      /\ x.by = r
  BY <1>2 DEF Definitions
<1>4. defs' = [defs EXCEPT ![mine[r]] = x]
  BY <1>1
<1>5. /\ defs' \in Seq(Definitions) /\ Len(defs') = Len(defs) /\ defs'[mine[r]] = x
      /\ \A e \in 1 .. Len(defs) : e # mine[r] => defs'[e] = defs[e]
  <2> HIDE DEF x
  <2> QED  BY <1>2, <1>3, <1>4, ChangeShape DEF Inv, ShapeInv
<1> HIDE DEF x
<1>6. OwnQueryPerformed'
  <2>1. \A d \in 1 .. Len(defs') : d = mine[r] \/ (d \in 1 .. Len(defs) /\ defs'[d] = defs[d])
    BY <1>5
  <2> QED  BY <1>2, <1>3, <1>5, <2>1, Given DEF OwnQueryPerformed
<1>7. /\ exec' \in [Runs -> Execs] /\ exec[r] = "perform" /\ exec'[r] = "enqueue"
      /\ \A s \in Runs : s # r => exec'[s] = exec[s]
  BY <1>1, Given, StepShape DEF Execs
<1>8. RunShape' /\ Only(r)
  BY <1>1, <1>7, Given DEF RunShape, Only
<1>9. WorldShape'
  BY <1>1, <1>5, Given DEF WorldShape
<1>10. NamesInv'
  <2>1. /\ Len(defs') \in Nat /\ Len(defs') >= Len(defs) /\ live' <= Len(defs')
        /\ found'[r] <= Len(defs') /\ mine'[r] <= Len(defs') /\ watched'[r] <= Len(defs')
        /\ folder'[r] <= folders' /\ tries'[r] < Attempts[r] /\ settings' <= folders'
        /\ folders' \in folders .. MaxFolders /\ failures' <= MaxFailures + 1
    BY <1>1, <1>5, Given
  <2> QED  BY <1>1, <1>7, <1>8, <2>1, NamesKept
<1>11. DefsGrow /\ InProgress(r)
  <2>1. \A e \in 1 .. Len(defs) : defs'[e].maker = defs[e].maker /\ defs'[e].old = defs[e].old
    <3> SUFFICES ASSUME NEW e \in 1 .. Len(defs)
                 PROVE  defs'[e].maker = defs[e].maker /\ defs'[e].old = defs[e].old
      OBVIOUS
    <3>1. CASE e = mine[r]
      BY <1>3, <1>5, <3>1
    <3>2. CASE e # mine[r]
      BY <1>5, <3>2
    <3> QED  BY <3>1, <3>2
  <2>2. Len(defs') \in Nat /\ Len(defs') >= Len(defs)
    BY <1>5, Given
  <2>3. InProgress(r)
    BY <1>7 DEF InProgress, Executing
  <2> QED  BY <2>1, <2>2, <2>3 DEF DefsGrow
<1>12. OwnInv(r)'
  BY <1>1, <1>7, <1>11, Given, Names DEF OwnInv, Mine, Watching, DefsGrow
<1>13. AloneInv(r)'
  <2>1. r \notin crowded \cup repeated => poll[r] = "none"
    BY <1>7, Given DEF AloneInv
  <2>2. status[r] = "ready" => poll[r] \in {"cleanup", "end"}
    BY Given DEF AloneInv
  <2> QED  BY <1>1, <1>7, <2>1, <2>2 DEF AloneInv, Mine, Watching
<1> QED  BY <1>1, <1>6, <1>8, <1>9, <1>10, <1>11, <1>12, <1>13, RunStep DEF ShapeInv

LEMMA EnqueueStep ==
    ASSUME Inv, NEW r \in Runs, EnqueuePoll(r)
    PROVE  Inv'
<1> USE DEF mceVars, pollVars, historyVars
<1>1. /\ Step(r, "enqueue", "ack") /\ Forget(r)
      /\ UNCHANGED <<settings, folders, defs, live, tries, stopped, status, swept, crowded,
                     repeated, deaf, failures>>
      /\ poll' = IF poll[r] = "none" THEN [poll EXCEPT ![r] = "byId"] ELSE poll
      /\ watched' = IF poll[r] = "none" THEN [watched EXCEPT ![r] = mine[r]] ELSE watched
  BY DEF EnqueuePoll
<1>2. /\ exec' \in [Runs -> Execs] /\ exec[r] = "enqueue" /\ exec'[r] = "ack"
      /\ \A s \in Runs : s # r => exec'[s] = exec[s]
  BY <1>1, Given, StepShape DEF Execs
<1>3. /\ folder' \in [Runs -> Nat] /\ found' \in [Runs -> Nat] /\ mine' \in [Runs -> Nat]
      /\ folder'[r] = 0 /\ found'[r] = 0 /\ mine'[r] = 0
      /\ \A s \in Runs : s # r => /\ folder'[s] = folder[s] /\ found'[s] = found[s]
                                  /\ mine'[s] = mine[s]
  BY <1>1, Given, ForgetShape
<1>4. /\ poll' \in [Runs -> Polls] /\ watched' \in [Runs -> Nat]
      /\ poll'[r] = IF poll[r] = "none" THEN "byId" ELSE poll[r]
      /\ watched'[r] = IF poll[r] = "none" THEN mine[r] ELSE watched[r]
      /\ \A s \in Runs : s # r => poll'[s] = poll[s] /\ watched'[s] = watched[s]
  BY <1>1, Given DEF RunShape, Polls
<1>5. RunShape' /\ Only(r)
  BY <1>1, <1>2, <1>3, <1>4, Given DEF RunShape, Only
<1>6. WorldShape'
  BY <1>1, Given DEF WorldShape
<1>7. NamesInv'
  <2>1. folder'[r] <= folders' /\ found'[r] <= Len(defs') /\ mine'[r] <= Len(defs')
        /\ watched'[r] <= Len(defs')
    BY <1>1, <1>3, <1>4, Given
  <2> QED  BY <1>1, <1>2, <1>5, <2>1, Given, NamesKept
<1>8. DefsGrow /\ InProgress(r) /\ OwnQueryPerformed'
  BY <1>1, <1>2, Given, NothingPerformed DEF DefsGrow, InProgress, Executing
<1>9. OwnInv(r)'
  BY <1>1, <1>2, <1>3, <1>4, Given DEF OwnInv, Mine, Watching
<1>10. AloneInv(r)'
  <2>1. /\ r \notin crowded \cup repeated => poll[r] = "none"
        /\ r \notin crowded => live \in {0, mine[r]}
        /\ status[r] = "ready" => poll[r] \in {"cleanup", "end"}
    BY <1>2, Given DEF AloneInv, Mine
  <2> QED  BY <1>1, <1>2, <1>4, <2>1 DEF AloneInv, Mine, Watching
<1> QED  BY <1>1, <1>5, <1>6, <1>7, <1>8, <1>9, <1>10, RunStep DEF ShapeInv
-----------------------------------------------------------------------------
(* poll *)

LEMMA SettleShape ==
    ASSUME RunShape, NEW r \in Runs, NEW to \in {"ready", "failed"}, Settle(r, to)
    PROVE  /\ poll' \in [Runs -> Polls] /\ poll'[r] = "cleanup"
           /\ status' \in [Runs -> {"open", "ready", "failed"}]
           /\ status'[r] = "ready" => status[r] = "ready" \/ to = "ready"
           /\ stopped' \in [Runs -> 0 .. Confirmations - 1]
           /\ \A s \in Runs : s # r => poll'[s] = poll[s] /\ status'[s] = status[s]
<1>1. poll' \in [Runs -> Polls] /\ poll'[r] = "cleanup"
      /\ \A s \in Runs : s # r => poll'[s] = poll[s]
  BY DEF RunShape, Settle, Polls
<1>2. /\ status' \in [Runs -> {"open", "ready", "failed"}]
      /\ status'[r] = "ready" => status[r] = "ready" \/ to = "ready"
      /\ \A s \in Runs : s # r => status'[s] = status[s]
  BY DEF RunShape, Settle
<1>3. stopped' \in [Runs -> 0 .. Confirmations - 1]
  <2>1. 0 \in 0 .. Confirmations - 1
    BY NumbersAssumption
  <2> QED  BY <2>1 DEF RunShape, Settle
<1> QED  BY <1>1, <1>2, <1>3

LEMMA HeardShape ==
    ASSUME RunShape, NEW r \in Runs, NEW running \in BOOLEAN, Heard(r, running)
    PROVE  /\ poll' \in [Runs -> Polls] /\ poll'[r] \in {"byId", "cleanup"}
           /\ status' \in [Runs -> {"open", "ready", "failed"}]
           /\ status'[r] = "ready" =>
                status[r] = "ready" \/ (~running /\ poll'[r] = "cleanup")
           /\ stopped' \in [Runs -> 0 .. Confirmations - 1]
           /\ \A s \in Runs : s # r => poll'[s] = poll[s] /\ status'[s] = status[s]
<1>1. CASE ~running /\ stopped[r] + 1 >= Confirmations
  <2>1. Settle(r, "ready")
    BY <1>1 DEF Heard
  <2> QED  BY <1>1, <2>1, SettleShape
<1>2. CASE ~(~running /\ stopped[r] + 1 >= Confirmations)
  <2>1. /\ poll' = [poll EXCEPT ![r] = "byId"]
        /\ stopped' = [stopped EXCEPT ![r] = IF running THEN 0 ELSE @ + 1]
        /\ UNCHANGED status
    BY <1>2 DEF Heard
  <2>2. stopped[r] \in 0 .. Confirmations - 1
    BY DEF RunShape
  <2>3. (IF running THEN 0 ELSE stopped[r] + 1) \in 0 .. Confirmations - 1
    BY <1>2, <2>2, NumbersAssumption
  <2>4. stopped' \in [Runs -> 0 .. Confirmations - 1]
    BY <2>1, <2>3 DEF RunShape
  <2>5. poll' \in [Runs -> Polls] /\ poll'[r] = "byId"
        /\ \A s \in Runs : s # r => poll'[s] = poll[s]
    BY <2>1 DEF RunShape, Polls
  <2> QED  BY <2>1, <2>4, <2>5 DEF RunShape
<1> QED  BY <1>1, <1>2

Asks(r) == AskById(r) \/ AskByKey(r) \/ AskComplete(r) \/ MarkFailed(r)

LEMMA AsksShape ==
    ASSUME Inv, NEW r \in Runs, Asks(r)
    PROVE  /\ UNCHANGED <<settings, folders, defs, live, exec, tries, folder, found, mine,
                          swept, crowded, repeated, deaf, watched, failures>>
           /\ poll' \in [Runs -> Polls] /\ status' \in [Runs -> {"open", "ready", "failed"}]
           /\ stopped' \in [Runs -> 0 .. Confirmations - 1]
           /\ poll[r] \in {"byId", "byKey"} /\ poll'[r] \in {"byId", "byKey", "cleanup"}
           /\ \A s \in Runs : s # r => poll'[s] = poll[s] /\ status'[s] = status[s]
           /\ status'[r] = "ready" => poll'[r] = "cleanup"
           /\ status'[r] = "ready" /\ r \notin crowded \cup repeated => ~Running(watched[r])
<1> USE DEF mceVars, executeVars, historyVars, executeAndMceVars
<1>1. /\ UNCHANGED <<settings, folders, defs, live, exec, tries, folder, found, mine,
                     swept, crowded, repeated, deaf, watched, failures>>
      /\ poll[r] \in {"byId", "byKey"}
  BY DEF Asks, AskById, AskByKey, AskComplete, MarkFailed
<1>2. status[r] # "ready"
  BY <1>1, Given DEF AloneInv
<1>3. RunShape
  BY Given
<1>4. CASE AskById(r)
  <2>1. CASE live = watched[r]
    <3>1. Heard(r, Running(watched[r]))
      BY <1>4, <2>1 DEF AskById
    <3>2. Running(watched[r]) \in BOOLEAN
      BY DEF Running
    <3> QED  BY <1>1, <1>2, <1>3, <3>1, <3>2, HeardShape
  <2>2. CASE live # watched[r]
    <3>1. poll' = [poll EXCEPT ![r] = "byKey"] /\ UNCHANGED <<stopped, status>>
      BY <1>4, <2>2 DEF AskById
    <3>2. poll' \in [Runs -> Polls] /\ poll'[r] = "byKey"
          /\ \A s \in Runs : s # r => poll'[s] = poll[s]
      BY <1>3, <3>1 DEF RunShape, Polls
    <3> QED  BY <1>1, <1>2, <1>3, <3>1, <3>2 DEF RunShape
  <2> QED  BY <2>1, <2>2
<1>5. CASE AskByKey(r)
  <2>1. Heard(r, live = 0 \/ Running(live)) /\ poll[r] = "byKey"
    BY <1>5 DEF AskByKey
  <2>2. (live = 0 \/ Running(live)) \in BOOLEAN
    OBVIOUS
  <2>3. r \notin crowded \cup repeated => live \in {0, watched[r]}
    BY <2>1, Given DEF AloneInv, Watching
  <2> QED  BY <1>1, <1>2, <1>3, <2>1, <2>2, <2>3, HeardShape
<1>6. CASE AskComplete(r)
  <2>1. Settle(r, "ready") /\ ~Running(watched[r])
    BY <1>6 DEF AskComplete, Running
  <2> QED  BY <1>1, <1>2, <1>3, <2>1, SettleShape
<1>7. CASE MarkFailed(r)
  <2>1. Settle(r, "failed")
    BY <1>7 DEF MarkFailed
  <2> QED  BY <1>1, <1>2, <1>3, <2>1, SettleShape
<1> QED  BY <1>4, <1>5, <1>6, <1>7 DEF Asks

LEMMA AsksStep ==
    ASSUME Inv, NEW r \in Runs, Asks(r)
    PROVE  Inv'
<1>1. /\ UNCHANGED <<settings, folders, defs, live, exec, tries, folder, found, mine,
                     swept, crowded, repeated, deaf, watched, failures>>
      /\ poll' \in [Runs -> Polls] /\ status' \in [Runs -> {"open", "ready", "failed"}]
      /\ stopped' \in [Runs -> 0 .. Confirmations - 1]
      /\ poll[r] \in {"byId", "byKey"} /\ poll'[r] \in {"byId", "byKey", "cleanup"}
      /\ \A s \in Runs : s # r => poll'[s] = poll[s] /\ status'[s] = status[s]
      /\ status'[r] = "ready" => poll'[r] = "cleanup"
      /\ status'[r] = "ready" /\ r \notin crowded \cup repeated => ~Running(watched[r])
  BY AsksShape
<1>2. RunShape' /\ Only(r)
  BY <1>1, Given DEF RunShape, Only
<1>3. WorldShape' /\ NamesInv'
  BY <1>1 DEF Inv, ShapeInv, WorldShape, NamesInv
<1>4. DefsGrow /\ InProgress(r) /\ OwnQueryPerformed'
  BY <1>1, Given, NothingPerformed DEF DefsGrow, InProgress
<1>5. OwnInv(r)'
  BY <1>1, Given DEF OwnInv, Mine, Watching
<1>6. AloneInv(r)'
  BY <1>1, Given DEF AloneInv, Mine, Watching, Running
<1> QED  BY <1>1, <1>2, <1>3, <1>4, <1>5, <1>6, RunStep DEF ShapeInv

LEMMA CleanupStep ==
    ASSUME Inv, NEW r \in Runs, Cleanup(r) \/ CleanupFails(r)
    PROVE  Inv'
<1> USE DEF mceVars, executeVars, historyVars, executeAndMceVars
<1>1. /\ UNCHANGED <<settings, folders, defs, exec, tries, folder, found, mine, swept, stopped,
                     status, crowded, repeated, deaf>>
      /\ poll[r] = "cleanup" /\ poll' = [poll EXCEPT ![r] = "end"]
      /\ watched' = [watched EXCEPT ![r] = 0]
      /\ failures' = failures \/ (failures < MaxFailures /\ failures' = failures + 1)
      /\ live' = live \/ (live = watched[r] /\ live' = 0)
  BY DEF Cleanup, CleanupFails, CleanUp, Delete, Fault
<1>2. /\ poll' \in [Runs -> Polls] /\ poll'[r] = "end"
      /\ \A s \in Runs : s # r => poll'[s] = poll[s]
  BY <1>1, Given DEF RunShape, Polls
<1>3. /\ watched' \in [Runs -> Nat] /\ watched'[r] = 0
      /\ \A s \in Runs : s # r => watched'[s] = watched[s]
  BY <1>1, Given DEF RunShape
<1>4. RunShape' /\ Only(r)
  BY <1>1, <1>2, <1>3, Given DEF RunShape, Only
<1>5. /\ failures' \in Nat /\ failures' <= MaxFailures + 1
      /\ live' \in Nat /\ live' <= Len(defs)
  BY <1>1, Given, NumbersAssumption
<1>6. WorldShape'
  BY <1>1, <1>5, Given DEF WorldShape
<1>7. NamesInv'
  BY <1>1, <1>3, <1>4, <1>5, Given, NamesKept
<1>8. DefsGrow /\ InProgress(r) /\ OwnQueryPerformed'
  BY <1>1, Given, NothingPerformed DEF DefsGrow, InProgress
<1>9. OwnInv(r)'
  BY <1>1, <1>2, <1>3, Given DEF OwnInv, Mine, Watching
<1>10. AloneInv(r)'
  <2>1. watched[r] # 0 /\ (mine[r] # 0 => watched[r] # mine[r]) /\ (Mine(r) => mine[r] # 0)
    BY <1>1, Given DEF OwnInv, Watching
  <2>2. live' \in {live, 0} /\ (Mine(r) /\ live = mine[r] => live' = live)
    BY <1>1, <2>1
  <2> QED  BY <1>1, <1>2, <2>1, <2>2, Given DEF AloneInv, Mine, Watching
<1> QED  BY <1>1, <1>4, <1>6, <1>7, <1>8, <1>9, <1>10, RunStep DEF ShapeInv
-----------------------------------------------------------------------------
(* A run begins; Marketing Cloud, time and the sweep *)

LEMMA BeginStep ==
    ASSUME Inv, NEW r \in Runs, Begin(r)
    PROVE  Inv'
<1> USE DEF mceVars, executeVars, pollVars
<1> DEFINE others == {s \in Runs \ {r} : InProgress(s)}
<1>1. /\ Step(r, "idle", "settings")
      /\ crowded' = crowded \cup others \cup {s \in {r} : others # {}}
      /\ UNCHANGED <<settings, folders, defs, live, tries, folder, found, mine, poll, watched,
                     stopped, status, swept, failures, repeated, deaf>>
  BY DEF Begin
<1>2. /\ exec' \in [Runs -> Execs] /\ exec[r] = "idle" /\ exec'[r] = "settings"
      /\ \A s \in Runs : s # r => exec'[s] = exec[s]
  BY <1>1, Given, StepShape DEF Execs
<1>3. /\ crowded \subseteq crowded' /\ crowded' \subseteq Runs
      /\ \A s \in Runs : s # r /\ InProgress(s) => s \in crowded' /\ r \in crowded'
  <2>1. \A s \in Runs : s # r /\ InProgress(s) => s \in others
    OBVIOUS
  <2> HIDE DEF others
  <2>2. others \subseteq Runs
    BY DEF others
  <2> QED  BY <1>1, <2>1, <2>2, Given
<1>4. RunShape' /\ Only(r)
  BY <1>1, <1>2, Given DEF RunShape, Only
<1>5. WorldShape'
  BY <1>1, <1>3, Given DEF WorldShape
<1>6. NamesInv'
  BY <1>1, <1>2, <1>4, Given, NamesKept
<1>7. TasksInv'
  <2>1. OwnQueryPerformed'
    BY <1>1, Given, NothingPerformed
  <2>2. \A s \in Runs : s # r => (InProgress(s)' <=> InProgress(s))
    BY <1>1, <1>2 DEF InProgress, Executing
  <2>3. \A s, t \in Runs : s # t /\ InProgress(s)' /\ InProgress(t)' => s \in crowded'
    <3> SUFFICES ASSUME NEW s \in Runs, NEW t \in Runs, s # t, InProgress(s)', InProgress(t)'
                 PROVE  s \in crowded'
      OBVIOUS
    <3>1. CASE s # r
      BY <1>3, <2>2, <3>1
    <3>2. CASE s = r
      BY <1>3, <2>2, <3>2
    <3> QED  BY <3>1, <3>2
  <2>4. swept' # 0 => defs'[swept'].old
    BY <1>1 DEF Inv, TasksInv
  <2> QED  BY <2>1, <2>3, <2>4 DEF TasksInv
<1>8. ASSUME NEW s \in Runs  PROVE OwnInv(s)' /\ AloneInv(s)'
  <2>1. CASE s = r
    <3>1. OwnInv(r)'
      BY <1>1, <1>2, Given DEF OwnInv, Mine, Watching
    <3>2. AloneInv(r)'
      <4>1. /\ r \notin crowded \cup repeated => poll[r] = "none"
            /\ status[r] = "ready" => poll[r] \in {"cleanup", "end"}
        BY <1>2, Given DEF AloneInv
      <4> QED  BY <1>1, <1>2, <1>3, <4>1 DEF AloneInv, Mine, Watching
    <3> QED  BY <2>1, <3>1, <3>2
  <2>2. CASE s # r
    <3>1. OwnInv(s)'
      BY <1>1, <1>2, <2>2, Given DEF OwnInv, Mine, Watching
    <3>2. AloneInv(s)'
      BY <1>1, <1>2, <1>3, <2>2, Given DEF AloneInv, Mine, Watching, Running
    <3> QED  BY <3>1, <3>2
  <2> QED  BY <2>1, <2>2
<1> QED  BY <1>4, <1>5, <1>6, <1>7, <1>8 DEF Inv, ShapeInv

(* A step that no run takes. *)
LEMMA OutsideStep ==
    ASSUME Inv, WorldShape', NamesInv', DefsGrow, OwnQueryPerformed',
           UNCHANGED <<exec, poll, tries, folder, found, mine, watched, stopped, status,
                       crowded, repeated, deaf>>,
           live' \in {live, 0}, swept' # 0 => defs'[swept'].old,
           \A r \in Runs : mine[r] # 0 => (live = mine[r] => live' = live)
                                        /\ ~defs'[mine[r]].old,
           \A d \in 1 .. Len(defs) : Running(d)' => Running(d)
    PROVE  Inv'
<1>1. RunShape'
  BY DEF Inv, ShapeInv, RunShape
<1>2. \A r \in Runs : InProgress(r)' <=> InProgress(r)
  BY DEF InProgress, Executing
<1>3. TasksInv'
  BY <1>2 DEF Inv, TasksInv
<1>4. ASSUME NEW r \in Runs  PROVE OwnInv(r)' /\ AloneInv(r)'
  <2>1. OwnInv(r)'
    <3>1. /\ OwnInv(r)
          /\ mine[r] # 0 => mine[r] \in 1 .. Len(defs)
          /\ watched[r] # 0 => watched[r] \in 1 .. Len(defs)
      BY Given, Names
    <3>2. /\ mine[r] # 0 => defs'[mine[r]].maker = defs[mine[r]].maker /\ ~defs'[mine[r]].old
          /\ watched[r] # 0 => defs'[watched[r]].maker = defs[watched[r]].maker
      BY <3>1 DEF DefsGrow
    <3>3. mine' = mine /\ watched' = watched /\ exec' = exec /\ poll' = poll
      OBVIOUS
    <3> QED  BY <3>1, <3>2, <3>3 DEF OwnInv, Mine, Watching
  <2>2. AloneInv(r)'
    <3>1. /\ Mine(r)' <=> Mine(r)
          /\ Watching(r)' <=> Watching(r)
          /\ Mine(r) <=> mine[r] # 0
          /\ Watching(r) <=> watched[r] # 0
      BY Given DEF Mine, Watching, OwnInv
    <3>2. exec[r] = "perform" => Mine(r)
      BY DEF Mine
    <3>3. poll[r] = "cleanup" => Watching(r)
      BY DEF Watching
    <3>4. poll[r] = "cleanup" => (Running(watched[r])' => Running(watched[r]))
      BY <3>1, <3>3, Names
    <3>5. Running(watched[r])' <=> defs'[watched'[r]].task = "running"
      BY DEF Running
    <3> QED  BY <3>1, <3>2, <3>4, Given DEF AloneInv
  <2> QED  BY <2>1, <2>2
<1> QED  BY <1>1, <1>3, <1>4 DEF Inv, ShapeInv

LEMMA TaskEndsStep ==
    ASSUME Inv, NEW d \in 1 .. Len(defs), TaskEnds(d)
    PROVE  Inv'
<1> USE DEF executeVars, pollVars, historyVars
<1> DEFINE x == [defs[d] EXCEPT !.task = "over"]
<1>0. WorldShape /\ NamesInv /\ TasksInv
  BY DEF Inv, ShapeInv
<1>1. /\ defs' = [defs EXCEPT ![d] = x] /\ Running(d)
      /\ UNCHANGED <<settings, folders, live, exec, tries, folder, found, mine, poll, watched,
                     stopped, status, swept, failures, crowded, repeated, deaf>>
  BY DEF TaskEnds
<1>2. defs[d] \in Definitions
  BY <1>0, ElementOfSeq DEF WorldShape
<1>3. x \in Definitions /\ x.maker = defs[d].maker /\ x.old = defs[d].old
      /\ x.by = defs[d].by /\ x.task = "over"
  BY <1>2 DEF Definitions
<1> HIDE DEF x
<1>4. /\ defs' \in Seq(Definitions) /\ Len(defs') = Len(defs) /\ defs'[d] = x
      /\ \A e \in 1 .. Len(defs) : e # d => defs'[e] = defs[e]
  BY <1>0, <1>1, <1>3, ChangeShape
<1>5. \A e \in 1 .. Len(defs) :
         /\ defs'[e].maker = defs[e].maker /\ defs'[e].old = defs[e].old
         /\ defs'[e].by = defs[e].by /\ (defs'[e].task # "none" => defs[e].task # "none")
         /\ (defs'[e].task = "running" => defs[e].task = "running")
  <2> SUFFICES ASSUME NEW e \in 1 .. Len(defs)
               PROVE  /\ defs'[e].maker = defs[e].maker /\ defs'[e].old = defs[e].old
                      /\ defs'[e].by = defs[e].by
                      /\ (defs'[e].task # "none" => defs[e].task # "none")
                      /\ (defs'[e].task = "running" => defs[e].task = "running")
    OBVIOUS
  <2>1. CASE e = d
    BY <1>1, <1>3, <1>4, <2>1 DEF Running
  <2>2. CASE e # d
    BY <1>4, <2>2
  <2> QED  BY <2>1, <2>2
<1>6. WorldShape' /\ NamesInv'
  BY <1>0, <1>1, <1>4 DEF WorldShape, NamesInv
<1>7. OwnQueryPerformed'
  BY <1>0, <1>4, <1>5 DEF TasksInv, OwnQueryPerformed
<1>8. DefsGrow
  BY <1>0, <1>4, <1>5, LenProperties DEF DefsGrow, WorldShape
<1>9. swept' # 0 => defs'[swept'].old
  <2>1. swept # 0 => swept \in 1 .. Len(defs) /\ defs[swept].old
    <3>1. swept \in Nat /\ swept <= Len(defs) /\ Len(defs) \in Nat
      BY <1>0, LenProperties DEF WorldShape, NamesInv
    <3> QED  BY <1>0, <3>1 DEF TasksInv
  <2> QED  BY <1>1, <1>5, <2>1
<1>10. \A r \in Runs : mine[r] # 0 => ~defs'[mine[r]].old
  BY <1>5, Given, Names DEF OwnInv
<1>11. \A e \in 1 .. Len(defs) : Running(e)' => Running(e)
  BY <1>5 DEF Running
<1> QED  BY <1>1, <1>6, <1>7, <1>8, <1>9, <1>10, <1>11, OutsideStep

LEMMA DayStep ==
    ASSUME Inv, Day
    PROVE  Inv'
<1> USE DEF executeVars, pollVars, historyVars
<1> DEFINE x == [defs[live] EXCEPT !.old = TRUE]
<1>0. WorldShape /\ NamesInv /\ TasksInv
  BY DEF Inv, ShapeInv
<1>1. /\ defs' = [defs EXCEPT ![live] = x] /\ live # 0 /\ \A r \in Runs : ~InProgress(r)
      /\ UNCHANGED <<settings, folders, live, exec, tries, folder, found, mine, poll, watched,
                     stopped, status, swept, failures, crowded, repeated, deaf>>
  BY DEF Day
<1>2. live \in 1 .. Len(defs) /\ Len(defs) \in Nat
  <2>1. live \in Nat /\ live <= Len(defs) /\ Len(defs) \in Nat
    BY <1>0, LenProperties DEF WorldShape, NamesInv
  <2> QED  BY <1>1, <2>1
<1>3. defs[live] \in Definitions
  BY <1>0, <1>2, ElementOfSeq DEF WorldShape
<1>4. x \in Definitions /\ x.maker = defs[live].maker /\ x.old
      /\ x.by = defs[live].by /\ x.task = defs[live].task
  BY <1>3 DEF Definitions
<1> HIDE DEF x
<1>5. /\ defs' \in Seq(Definitions) /\ Len(defs') = Len(defs) /\ defs'[live] = x
      /\ \A e \in 1 .. Len(defs) : e # live => defs'[e] = defs[e]
  BY <1>0, <1>1, <1>2, <1>4, ChangeShape
<1>6. \A e \in 1 .. Len(defs) :
         /\ defs'[e].maker = defs[e].maker /\ (defs[e].old => defs'[e].old)
         /\ defs'[e].by = defs[e].by /\ defs'[e].task = defs[e].task
  <2> SUFFICES ASSUME NEW e \in 1 .. Len(defs)
               PROVE  /\ defs'[e].maker = defs[e].maker /\ (defs[e].old => defs'[e].old)
                      /\ defs'[e].by = defs[e].by /\ defs'[e].task = defs[e].task
    OBVIOUS
  <2>1. CASE e = live
    BY <1>4, <1>5, <2>1
  <2>2. CASE e # live
    BY <1>5, <2>2
  <2> QED  BY <2>1, <2>2
<1>7. WorldShape' /\ NamesInv' /\ RunShape'
  BY <1>0, <1>1, <1>5 DEF WorldShape, NamesInv, Inv, ShapeInv, RunShape
<1>8. \A r \in Runs : ~InProgress(r)'
  BY <1>1 DEF InProgress, Executing
<1>9. TasksInv'
  <2>1. OwnQueryPerformed'
    BY <1>0, <1>5, <1>6 DEF TasksInv, OwnQueryPerformed
  <2>2. swept # 0 => swept \in 1 .. Len(defs) /\ defs[swept].old
    <3>1. swept \in Nat /\ swept <= Len(defs) /\ Len(defs) \in Nat
      BY <1>0, LenProperties DEF WorldShape, NamesInv
    <3> QED  BY <1>0, <3>1 DEF TasksInv
  <2>3. swept' # 0 => defs'[swept'].old
    BY <1>1, <1>6, <2>2
  <2> QED  BY <1>8, <2>1, <2>3 DEF TasksInv
<1>10. ASSUME NEW r \in Runs  PROVE OwnInv(r)' /\ AloneInv(r)'
  <2>1. /\ exec[r] \in {"idle", "end"} /\ poll[r] \in {"none", "end"}
    BY <1>1 DEF InProgress, Executing
  <2>2. OwnInv(r)'
    BY <1>1, <2>1, Given DEF OwnInv, Mine, Watching
  <2>3. AloneInv(r)'
    BY <1>1, <2>1, Given DEF AloneInv, Mine, Watching
  <2> QED  BY <2>2, <2>3
<1> QED  BY <1>7, <1>9, <1>10 DEF Inv, ShapeInv

LEMMA SweepsStep ==
    ASSUME Inv, SweepStep \/ SweepFails
    PROVE  Inv'
<1> USE DEF mceVars, executeVars, pollVars, historyVars
<1>0. WorldShape /\ NamesInv /\ TasksInv
  BY DEF Inv, ShapeInv
<1>1. /\ UNCHANGED <<settings, folders, defs, exec, tries, folder, found, mine, poll, watched,
                     stopped, status, crowded, repeated, deaf>>
      /\ failures' \in {failures, MaxFailures + 1}
      /\ \/ live' = live /\ swept' = live /\ live # 0 /\ defs[live].old
         \/ live' = live /\ swept' = 0
         \/ live' = 0 /\ swept' = 0 /\ live = swept /\ swept # 0
  BY DEF SweepStep, SweepLists, ToSweep, SweepDeletes, SweepFails, Delete
<1>2. /\ Len(defs) \in Nat /\ live \in Nat /\ live <= Len(defs) /\ MaxFailures \in Nat
      /\ failures \in Nat /\ failures <= MaxFailures + 1
  BY <1>0, LenProperties, NumbersAssumption DEF WorldShape, NamesInv
<1>3. /\ live' \in Nat /\ live' <= Len(defs) /\ swept' \in Nat /\ swept' <= Len(defs)
      /\ failures' \in Nat /\ failures' <= MaxFailures + 1
  BY <1>1, <1>2
<1>4. WorldShape' /\ NamesInv'
  BY <1>0, <1>1, <1>3 DEF WorldShape, NamesInv
<1>5. DefsGrow /\ OwnQueryPerformed'
  BY <1>0, <1>1, <1>2, NothingPerformed DEF DefsGrow, TasksInv
<1>6. swept' # 0 => defs'[swept'].old
  BY <1>1
<1>7. \A r \in Runs : mine[r] # 0 => (live = mine[r] => live' = live)
                                   /\ ~defs'[mine[r]].old
  <2> SUFFICES ASSUME NEW r \in Runs, mine[r] # 0
               PROVE  (live = mine[r] => live' = live) /\ ~defs'[mine[r]].old
    OBVIOUS
  <2>1. ~defs[mine[r]].old
    BY Given DEF OwnInv
  <2>2. swept # 0 => defs[swept].old
    BY <1>0 DEF TasksInv
  <2> QED  BY <1>1, <2>1, <2>2
<1>8. \A d \in 1 .. Len(defs) : Running(d)' => Running(d)
  BY <1>1 DEF Running
<1>9. live' \in {live, 0}
  BY <1>1
<1> QED  BY <1>1, <1>4, <1>5, <1>6, <1>7, <1>8, <1>9, OutsideStep
-----------------------------------------------------------------------------
LEMMA Split ==
    ASSUME Inv, [Next]_vars
    PROVE  \/ UNCHANGED vars
           \/ \E r \in Runs : \/ Begin(r) \/ Moves(r) \/ Fails(r) \/ (Create(r) /\ live = 0)
                              \/ (Perform(r) /\ live = mine[r]) \/ EnqueuePoll(r) \/ Asks(r)
                              \/ Cleanup(r) \/ CleanupFails(r)
           \/ \E d \in 1 .. Len(defs) : TaskEnds(d)
           \/ Day \/ SweepStep \/ SweepFails
  BY DEF Next, ExecuteStep, PollStep, FaultStep, Moves, Fails, Asks

LEMMA NextInv == ASSUME Inv, [Next]_vars  PROVE Inv'
<1>1. CASE UNCHANGED vars
  BY <1>1 DEF vars, mceVars, executeVars, pollVars, historyVars, Inv, ShapeInv, RunShape,
     WorldShape, NamesInv, TasksInv, OwnQueryPerformed, OwnInv, AloneInv, Mine, Watching,
     InProgress, Executing, Running
<1>2. ASSUME NEW r \in Runs, Begin(r) \/ Moves(r) \/ Fails(r) \/ (Create(r) /\ live = 0)
      PROVE  Inv'
  BY <1>2, BeginStep, MoveStep, FailsStep, CreateStep
<1>3. ASSUME NEW r \in Runs, (Perform(r) /\ live = mine[r]) \/ EnqueuePoll(r) \/ Asks(r)
                             \/ Cleanup(r) \/ CleanupFails(r)
      PROVE  Inv'
  BY <1>3, PerformStep, EnqueueStep, AsksStep, CleanupStep
<1>4. CASE \E d \in 1 .. Len(defs) : TaskEnds(d)
  BY <1>4, TaskEndsStep
<1>5. CASE Day \/ SweepStep \/ SweepFails
  BY <1>5, DayStep, SweepsStep
<1> QED  BY <1>1, <1>2, <1>3, <1>4, <1>5, Split

LEMMA AlwaysInv == Spec => []Inv
<1>1. Init => Inv
  BY InitInv
<1>2. Inv /\ [Next]_vars => Inv'
  BY NextInv
<1> QED  BY <1>1, <1>2, PTL DEF Spec

(* Every name is that of a definition Marketing Cloud has or had, and the     *)
(* counters of retries, polls and failures stay within their limits.          *)
THEOREM TypeCorrect == Spec => []TypeOK
<1>1. Inv => TypeOK
  <2> SUFFICES ASSUME Inv PROVE TypeOK
    OBVIOUS
  <2>1. RunShape /\ WorldShape /\ NamesInv /\ Len(defs) \in Nat
    BY LenProperties DEF Inv, ShapeInv, WorldShape
  <2>2. /\ settings \in 0 .. folders /\ folders \in 0 .. MaxFolders
        /\ failures \in 0 .. MaxFailures + 1
    BY <2>1, NumbersAssumption DEF WorldShape, NamesInv
  <2>3. live \in 0 .. Len(defs) /\ swept \in 0 .. Len(defs)
    BY <2>1 DEF WorldShape, NamesInv
  <2>4. ASSUME NEW r \in Runs
        PROVE  /\ tries[r] \in 0 .. Attempts[r] - 1 /\ folder[r] \in 0 .. MaxFolders
               /\ found[r] \in 0 .. Len(defs) /\ mine[r] \in 0 .. Len(defs)
               /\ watched[r] \in 0 .. Len(defs)
    <3>1. /\ tries[r] \in Nat /\ Attempts[r] \in Nat /\ folder[r] \in Nat /\ found[r] \in Nat
          /\ mine[r] \in Nat /\ watched[r] \in Nat /\ folders \in Nat /\ MaxFolders \in Nat
      BY <2>1, NumbersAssumption DEF RunShape, WorldShape
    <3>2. /\ tries[r] < Attempts[r] /\ folder[r] <= folders /\ folders <= MaxFolders
          /\ found[r] <= Len(defs) /\ mine[r] <= Len(defs) /\ watched[r] <= Len(defs)
      BY <2>1 DEF NamesInv
    <3> QED  BY <2>1, <3>1, <3>2
  <2>5. /\ folder \in [Runs -> 0 .. MaxFolders] /\ found \in [Runs -> 0 .. Len(defs)]
        /\ mine \in [Runs -> 0 .. Len(defs)] /\ watched \in [Runs -> 0 .. Len(defs)]
    BY <2>1, <2>4 DEF RunShape
  <2>6. \A h \in {crowded, repeated, deaf} : h \subseteq Runs
    BY <2>1 DEF WorldShape
  <2> QED  BY <2>1, <2>2, <2>3, <2>4, <2>5, <2>6 DEF TypeOK, RunShape, WorldShape, Execs, Polls
<1> QED  BY <1>1, AlwaysInv, PTL

(* A run performs the definition it created and no other run's, however many  *)
(* of them use the key at once (runToTempFlow keeps the objectId).            *)
THEOREM OwnPerformed == Spec => []OwnQueryPerformed
<1>1. Inv => OwnQueryPerformed
  BY DEF Inv, TasksInv
<1> QED  BY <1>1, AlwaysInv, PTL

(* Marketing Cloud refuses the creation or the start of a query only to runs  *)
(* that were beside another one or did not notice a failure.                  *)
THEOREM RefusedOnlyForAReason == Spec => []RefusedForAReason
<1>1. Inv => RefusedForAReason
  BY DEF Inv, AloneInv, RefusedForAReason
<1> QED  BY <1>1, AlwaysInv, PTL

(* A run that was alone, and not executed again beside its poll job, is ready *)
(* when its own task is over and not before.                                  *)
THEOREM ReadyWhenOver == Spec => []ReadyIsOver
<1>1. Inv => ReadyIsOver
  <2> SUFFICES ASSUME Inv, NEW r \in Runs \ (crowded \cup repeated),
                      status[r] = "ready", poll[r] = "cleanup"
               PROVE  ~Running(watched[r])
    BY DEF ReadyIsOver
  <2> QED  BY DEF Inv, AloneInv
<1> QED  BY <1>1, AlwaysInv, PTL

(* The end of a run deletes no definition but its own.                        *)
THEOREM SparesOthers == Spec => OthersAreSpared
<1>1. ASSUME Inv, [Next]_vars, NEW r \in Runs, poll[r] = "cleanup", poll'[r] = "end",
             live' # live
      PROVE  defs[live].maker = r
  <2>1. CASE \E s \in Runs : Cleanup(s)
    <3>1. PICK s \in Runs : Cleanup(s)
      BY <2>1
    <3>2. s = r
      BY <1>1, <3>1, Given DEF Cleanup, RunShape
    <3>3. live = watched[r] /\ watched[r] # 0
      BY <1>1, <3>1, <3>2, Given DEF Cleanup, CleanUp, Delete, OwnInv, Watching
    <3> QED  BY <1>1, <3>3, Given DEF OwnInv
  <2>2. CASE \E s \in Runs : CleanupFails(s)
    BY <1>1, <2>2 DEF CleanupFails, executeAndMceVars, mceVars
  <2>3. CASE \E s \in Runs : Begin(s) \/ Moves(s) \/ Fails(s)
    <3>1. poll' = poll
      BY <1>1, <2>3, MoveShape, FailsShape DEF Begin, pollVars
    <3> QED  BY <1>1, <3>1
  <2>4. CASE \E s \in Runs : (Create(s) /\ live = 0) \/ (Perform(s) /\ live = mine[s])
    <3>1. poll' = poll
      BY <2>4 DEF Create, Perform, Performed, pollVars
    <3> QED  BY <1>1, <3>1
  <2>5. CASE \E s \in Runs : EnqueuePoll(s)
    BY <1>1, <2>5 DEF EnqueuePoll, mceVars
  <2>6. CASE \E s \in Runs : Asks(s)
    BY <1>1, <2>6, AsksShape
  <2>7. CASE UNCHANGED vars
    BY <1>1, <2>7 DEF vars, mceVars
  <2>8. CASE \/ \E d \in 1 .. Len(defs) : TaskEnds(d)
             \/ Day \/ SweepStep \/ SweepFails
    <3>1. poll' = poll
      BY <2>8 DEF TaskEnds, Day, SweepStep, SweepLists, SweepDeletes, SweepFails, pollVars
    <3> QED  BY <1>1, <3>1
  <2> QED  BY <1>1, <2>1, <2>2, <2>3, <2>4, <2>5, <2>6, <2>7, <2>8, Split
<1>2. Inv /\ [Next]_vars =>
        [\A r \in Runs :
           poll[r] = "cleanup" /\ poll'[r] = "end" /\ live' # live
             => defs[live].maker = r]_vars
  BY <1>1
<1> QED  BY <1>2, AlwaysInv, PTL DEF Spec, OthersAreSpared
=============================================================================
