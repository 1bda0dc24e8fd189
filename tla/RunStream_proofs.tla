--------------------------- MODULE RunStream_proofs ---------------------------
(* What holds of RunStream for any number of tabs, any limit and any number  *)
(* of events.                                                                 *)
EXTENDS RunStream, FiniteSetTheorems, TLAPS

(* The steps of one tab's stream, in the groups the proofs go through. *)
OpenStep(c)   == Open(c) \/ SetExpiry(c)
EventStep(c)  == Subscribe(c) \/ ReadCache(c) \/ Attach(c) \/ Receive(c) \/ Miss(c)
ReturnStep(c) == Refuse(c) \/ Leave(c) \/ Disconnect(c) \/ StreamThrows(c)
LeakStep(c)   == ExpiryThrows(c) \/ GiveBackThrows(c)

LEMMA NextCases ==
    Next => \/ Publish \/ Cache \/ Crash \/ KeyExpires
            \/ \E c \in Conns :
                 OpenStep(c) \/ EventStep(c) \/ ReturnStep(c) \/ LeakStep(c)
  BY DEF Next, Fault, ServerStep, OpenStep, EventStep, ReturnStep, LeakStep
-----------------------------------------------------------------------------
(* Type correctness *)

LEMMA SetsFinite ==
    /\ IsFiniteSet(Counted) /\ Cardinality(Counted) \in Nat
    /\ IsFiniteSet(Admitted) /\ Cardinality(Admitted) \in Nat
    /\ Admitted \subseteq Counted
    /\ Cardinality(Admitted) <= Cardinality(Counted)
<1>1. Admitted \subseteq Counted /\ Counted \subseteq Conns /\ Admitted \subseteq Conns
  BY DEF Admitted, Counted
<1>2. IsFiniteSet(Counted) /\ IsFiniteSet(Admitted)
  BY <1>1, ConnsAssumption, FS_Subset
<1>3. Cardinality(Admitted) <= Cardinality(Counted)
  BY <1>1, <1>2, FS_Subset
<1> QED  BY <1>1, <1>2, <1>3, FS_CardinalityType

LEMMA GotoType ==
    ASSUME at \in [Conns -> Places], NEW c \in Conns, NEW p \in Places, Goto(c, p)
    PROVE  /\ at' \in [Conns -> Places]
           /\ at'[c] = p
           /\ \A d \in Conns : d # c => at'[d] = at[d]
  BY DEF Goto

LEMMA CloseType ==
    ASSUME TypeOK, NEW c \in Conns, Close(c)
    PROVE  /\ at' \in [Conns -> Places]
           /\ heard' \in [Conns -> 0 .. Final] /\ got' \in [Conns -> 0 .. Final]
           /\ since' \in [Conns -> 0 .. Final] /\ shown' = shown
  BY GotoType, NumbersAssumption DEF Close, TypeOK, Places

LEMMA EventType == ASSUME TypeOK, NEW c \in Conns, EventStep(c)  PROVE TypeOK'
<1> USE NumbersAssumption
<1>1. CASE Subscribe(c)
  BY <1>1, GotoType DEF Subscribe, TypeOK, Places, historyVars
<1>2. CASE ReadCache(c)
  BY <1>2, GotoType DEF ReadCache, TypeOK, Places, historyVars
<1>3. CASE Attach(c)
  BY <1>3, GotoType DEF Attach, TypeOK, Places, historyVars
<1>4. CASE Receive(c)
  BY <1>4 DEF Receive, TypeOK, historyVars
<1>5. CASE Miss(c)
  BY <1>5 DEF Miss, TypeOK, historyVars
<1> QED  BY <1>1, <1>2, <1>3, <1>4, <1>5 DEF EventStep

LEMMA PlaceType ==
    ASSUME TypeOK, NEW c \in Conns, OpenStep(c) \/ ReturnStep(c) \/ LeakStep(c)
    PROVE  TypeOK'
<1>1. CASE Open(c)
  BY <1>1, GotoType DEF Open, TypeOK, Places, streamVars, historyVars
<1>2. CASE SetExpiry(c)
  BY <1>2, GotoType DEF SetExpiry, TypeOK, Places, streamVars, historyVars
<1>3. CASE ReturnStep(c)
  BY <1>3, CloseType DEF ReturnStep, Refuse, Leave, Disconnect, StreamThrows,
                         Finalize, TypeOK, historyVars
<1>4. CASE LeakStep(c)
  <2>1. ttl' \in BOOLEAN
    BY <1>4 DEF LeakStep, ExpiryThrows, GiveBackThrows, TypeOK
  <2>2. /\ Close(c) /\ lost' = lost + 1
        /\ UNCHANGED <<published, cached, count, forgotten>>
    BY <1>4 DEF LeakStep, ExpiryThrows, GiveBackThrows, Leak
  <2> QED  BY <2>1, <2>2, CloseType DEF TypeOK
<1> QED  BY <1>1, <1>2, <1>3, <1>4 DEF OpenStep

LEMMA OtherType ==
    ASSUME TypeOK, Publish \/ Cache \/ Crash \/ KeyExpires  PROVE TypeOK'
<1>1. CASE Publish \/ Cache
  BY <1>1, NumbersAssumption DEF Publish, Cache, TypeOK, streamVars, historyVars
<1>2. CASE Crash
  <2>1. lost' \in Nat
    BY <1>2, SetsFinite DEF Crash, TypeOK
  <2>2. at' \in [Conns -> Places]
    BY <1>2 DEF Crash, Places
  <2> QED  BY <1>2, <2>1, <2>2, NumbersAssumption DEF Crash, TypeOK
<1>3. CASE KeyExpires
  <2>1. ttl' \in BOOLEAN /\ forgotten' \in Nat
    BY <1>3, SetsFinite DEF KeyExpires
  <2> QED  BY <1>3, <2>1 DEF KeyExpires, TypeOK, streamVars
<1> QED  BY <1>1, <1>2, <1>3

(* Every variable keeps its type, whatever fails. *)
THEOREM TypeCorrect == Spec => []TypeOK
<1>1. Init => TypeOK
  <2> SUFFICES ASSUME Init  PROVE TypeOK
    OBVIOUS
  <2>1. ttl \in BOOLEAN
    BY DEF Init
  <2> QED  BY <2>1, NumbersAssumption DEF Init, TypeOK, Places
<1>2. TypeOK /\ [Next]_vars => TypeOK'
  <2> SUFFICES ASSUME TypeOK, [Next]_vars  PROVE TypeOK'
    OBVIOUS
  <2>1. CASE Next
    BY <2>1, NextCases, EventType, PlaceType, OtherType
  <2>2. CASE UNCHANGED vars
    BY <2>2 DEF vars, streamVars, historyVars, TypeOK
  <2> QED  BY <2>1, <2>2
<1> QED  BY <1>1, <1>2, PTL DEF Spec
-----------------------------------------------------------------------------
(* The events of a stream *)

(* The last live event taken in is the one shown, and nothing is taken in    *)
(* that was not published.                                                   *)
DeliveryInv ==
    \A c \in Conns :
        /\ heard[c] <= published
        /\ at[c] = "live" => since[c] <= heard[c]
        /\ at[c] = "live" /\ since[c] < heard[c] => shown[c] = heard[c]

LEMMA DeliveryKept ==
    ASSUME TypeOK, TypeOK', DeliveryInv, [Next]_vars  PROVE DeliveryInv'
<1> SUFFICES ASSUME NEW d \in Conns
             PROVE  (/\ heard[d] <= published
                     /\ at[d] = "live" => since[d] <= heard[d]
                     /\ at[d] = "live" /\ since[d] < heard[d] => shown[d] = heard[d])'
  BY DEF DeliveryInv
<1>0. /\ heard[d] <= published
      /\ at[d] = "live" => since[d] <= heard[d]
      /\ at[d] = "live" /\ since[d] < heard[d] => shown[d] = heard[d]
  BY DEF DeliveryInv
<1> USE <1>0
<1>1. CASE Publish \/ Cache \/ KeyExpires \/ UNCHANGED vars
  BY <1>1 DEF Publish, Cache, KeyExpires, vars, streamVars, TypeOK
<1>2. CASE Crash
  BY <1>2 DEF Crash, TypeOK
<1>3. ASSUME NEW c \in Conns, OpenStep(c) \/ ReturnStep(c) \/ LeakStep(c)
      PROVE  /\ UNCHANGED <<published, shown>> /\ heard'[d] <= published
             /\ at'[d] = "live" => at[d] = "live" /\ UNCHANGED <<heard[d], since[d]>>
  <2>1. CASE OpenStep(c)
    BY <2>1 DEF OpenStep, Open, SetExpiry, Goto, TypeOK, streamVars
  <2>2. CASE ReturnStep(c) \/ LeakStep(c)
    <3>1. Close(c) /\ UNCHANGED <<published, shown>>
      BY <2>2 DEF ReturnStep, Refuse, Leave, Disconnect, StreamThrows, Finalize,
                  LeakStep, ExpiryThrows, GiveBackThrows, Leak, Close
    <3> QED  BY <3>1 DEF Close, Goto, TypeOK
  <2> QED  BY <1>3, <2>1, <2>2
<1>4. ASSUME NEW c \in Conns, EventStep(c)
      PROVE  (/\ heard[d] <= published
              /\ at[d] = "live" => since[d] <= heard[d]
              /\ at[d] = "live" /\ since[d] < heard[d] => shown[d] = heard[d])'
  <2>1. CASE Subscribe(c)
    BY <2>1 DEF Subscribe, Goto, TypeOK
  <2>2. CASE ReadCache(c)
    BY <2>2 DEF ReadCache, Goto, TypeOK
  <2>3. CASE Attach(c)
    BY <2>3 DEF Attach, Goto, TypeOK
  <2>4. CASE Receive(c)
    BY <2>4 DEF Receive, TypeOK
  <2>5. CASE Miss(c)
    BY <2>5 DEF Miss, TypeOK
  <2> QED  BY <1>4, <2>1, <2>2, <2>3, <2>4, <2>5 DEF EventStep
<1> QED  BY <1>1, <1>2, <1>3, <1>4, NextCases

(* A stream that has taken in all live events shows the newest one. *)
THEOREM StreamsCatchUp == Spec => []CatchesUp
<1>1. Init => DeliveryInv
  BY DEF Init, DeliveryInv
<1>2. TypeOK /\ TypeOK' /\ DeliveryInv /\ [Next]_vars => DeliveryInv'
  BY DeliveryKept
<1>3. TypeOK /\ DeliveryInv => CatchesUp
  BY DEF DeliveryInv, CatchesUp
<1> QED  BY <1>1, <1>2, <1>3, TypeCorrect, PTL DEF Spec

(* A tab that knows the outcome has no stream, or one that has begun to send.*)
KnowingInv == \A c \in Conns : shown[c] = Final => at[c] \in {"closed", "live"}

LEMMA KnowingKept ==
    ASSUME TypeOK, KnowingInv, [Next]_vars
    PROVE  /\ KnowingInv'
           /\ \A c \in Conns : shown[c] = Final => shown'[c] = Final
<1> SUFFICES ASSUME NEW d \in Conns
             PROVE  /\ shown'[d] = Final => at'[d] \in {"closed", "live"}
                    /\ shown[d] = Final => shown'[d] = Final
  BY DEF KnowingInv
<1>0. shown[d] = Final => at[d] \in {"closed", "live"}
  BY DEF KnowingInv
<1> USE <1>0
<1>1. CASE Publish \/ Cache \/ KeyExpires \/ Crash \/ UNCHANGED vars
  BY <1>1 DEF Publish, Cache, KeyExpires, Crash, vars, streamVars, TypeOK
<1>2. ASSUME NEW c \in Conns, OpenStep(c)
      PROVE  shown'[d] = shown[d] /\ (shown[d] = Final => at'[d] \in {"closed", "live"})
  <2>1. CASE Open(c)
    BY <2>1, NumbersAssumption DEF Open, Goto, TypeOK, streamVars
  <2>2. CASE SetExpiry(c)
    BY <2>2 DEF SetExpiry, Goto, TypeOK, streamVars
  <2> QED  BY <1>2, <2>1, <2>2 DEF OpenStep
<1>3. ASSUME NEW c \in Conns, ReturnStep(c) \/ LeakStep(c)
      PROVE  shown'[d] = shown[d] /\ (shown[d] = Final => at'[d] \in {"closed", "live"})
  <2>1. shown' = shown /\ Goto(c, "closed")
    BY <1>3 DEF ReturnStep, Refuse, Leave, Disconnect, StreamThrows, Finalize,
                LeakStep, ExpiryThrows, GiveBackThrows, Leak, Close
  <2> QED  BY <2>1 DEF Goto, TypeOK
<1>4. ASSUME NEW c \in Conns, EventStep(c)
      PROVE  /\ shown'[d] = Final => at'[d] \in {"closed", "live"}
             /\ shown[d] = Final => shown'[d] = Final
  <2>1. CASE Subscribe(c) \/ ReadCache(c) \/ Miss(c)
    BY <2>1 DEF Subscribe, ReadCache, Miss, Goto, TypeOK
  <2>2. CASE Attach(c)
    BY <2>2 DEF Attach, Goto, TypeOK
  <2>3. CASE Receive(c)
    BY <2>3, NumbersAssumption DEF Receive, TypeOK
  <2> QED  BY <1>4, <2>1, <2>2, <2>3 DEF EventStep
<1> QED  BY <1>1, <1>2, <1>3, <1>4, NextCases

(* The outcome is the last thing a tab is shown. *)
THEOREM OutcomeIsLast == Spec => OutcomeStays
<1>1. Init => KnowingInv
  BY DEF Init, KnowingInv
<1>2. TypeOK /\ KnowingInv /\ [Next]_vars
        => KnowingInv' /\ [\A c \in Conns : shown[c] = Final => shown'[c] = Final]_vars
  BY KnowingKept
<1> QED  BY <1>1, <1>2, TypeCorrect, PTL DEF Spec, OutcomeStays
-----------------------------------------------------------------------------
(* The limit *)

AdmittedPlaces == {"under", "admitted", "subscribed", "read", "live"}

(* What a stream's move does to the two sets that are counted. *)
LEMMA GotoSets ==
    ASSUME TypeOK, NEW c \in Conns, NEW p \in Places, Goto(c, p)
    PROVE  /\ Counted' = IF p = "closed" THEN Counted \ {c} ELSE Counted \cup {c}
           /\ Admitted' = IF p \in AdmittedPlaces THEN Admitted \cup {c}
                                                  ELSE Admitted \ {c}
<1> at'[c] = p /\ \A d \in Conns : d # c => at'[d] = at[d]
  BY DEF Goto, TypeOK
<1> QED  BY DEF Counted, Admitted, AdmittedPlaces, Places

(* Steps that move a stream within the places that are counted and let in, or *)
(* within those that are not let in, and events, leave both sets alone.      *)
LEMMA SetsUntouched ==
    ASSUME TypeOK,
           \/ Publish \/ Cache \/ UNCHANGED vars
           \/ \E c \in Conns : SetExpiry(c) \/ EventStep(c)
    PROVE  UNCHANGED <<count, historyVars, Counted, Admitted>>
<1>1. CASE Publish \/ Cache \/ UNCHANGED vars
  BY <1>1 DEF Publish, Cache, vars, Counted, Admitted
<1>2. ASSUME NEW c \in Conns, SetExpiry(c)
      PROVE  UNCHANGED <<count, historyVars, Counted, Admitted>>
  <2>1. CASE at[c] = "over"
    BY <1>2, <2>1, GotoSets DEF SetExpiry, Places, AdmittedPlaces, Counted, Admitted
  <2>2. CASE at[c] = "under"
    BY <1>2, <2>2, GotoSets DEF SetExpiry, Places, AdmittedPlaces, Counted, Admitted
  <2> QED  BY <1>2, <2>1, <2>2 DEF SetExpiry
<1>3. ASSUME NEW c \in Conns, EventStep(c)
      PROVE  UNCHANGED <<count, historyVars, Counted, Admitted>>
  <2>1. CASE Subscribe(c) \/ ReadCache(c) \/ Attach(c)
    BY <2>1, GotoSets DEF Subscribe, ReadCache, Attach, Places, AdmittedPlaces,
                          Counted, Admitted
  <2>2. CASE Receive(c) \/ Miss(c)
    BY <2>2 DEF Receive, Miss, Counted, Admitted
  <2> QED  BY <1>3, <2>1, <2>2 DEF EventStep
<1> QED  BY <1>1, <1>2, <1>3

LEMMA OpenSets ==
    ASSUME TypeOK, NEW c \in Conns, Open(c)
    PROVE  /\ count' = count + 1 /\ UNCHANGED historyVars
           /\ Cardinality(Counted') = Cardinality(Counted) + 1
           /\ count + 1 > Limit => Admitted' = Admitted
<1>1. c \notin Counted /\ c \notin Admitted
  BY DEF Open, Counted, Admitted
<1>2. Counted' = Counted \cup {c}
  BY GotoSets DEF Open, Places
<1>3. Cardinality(Counted') = Cardinality(Counted) + 1
  BY <1>1, <1>2, SetsFinite, FS_AddElement
<1>4. count + 1 > Limit => Admitted' = Admitted
  BY <1>1, GotoSets DEF Open, Places, AdmittedPlaces
<1> QED  BY <1>3, <1>4 DEF Open

(* A stream that ends was counted before and is not afterwards. *)
LEMMA CloseSets ==
    ASSUME TypeOK, NEW c \in Conns, at[c] # "closed", Goto(c, "closed")
    PROVE  /\ Cardinality(Counted') = Cardinality(Counted) - 1
           /\ Admitted' \subseteq Admitted
           /\ Cardinality(Admitted') <= Cardinality(Admitted)
<1>1. Counted' = Counted \ {c} /\ Admitted' = Admitted \ {c} /\ c \in Counted
  BY GotoSets DEF Places, AdmittedPlaces, Counted
<1> QED  BY <1>1, SetsFinite, FS_RemoveElement, FS_Subset

LEMMA ReturnIsClose ==
    ASSUME NEW c \in Conns, ReturnStep(c)
    PROVE  /\ at[c] # "closed" /\ Goto(c, "closed")
           /\ count' = count - 1 /\ UNCHANGED historyVars
  BY DEF ReturnStep, Refuse, Leave, Disconnect, StreamThrows, Finalize, Close

LEMMA LeakIsClose ==
    ASSUME NEW c \in Conns, LeakStep(c)
    PROVE  /\ at[c] # "closed" /\ Goto(c, "closed")
           /\ UNCHANGED <<count, forgotten>> /\ lost' = lost + 1
  BY DEF LeakStep, ExpiryThrows, GiveBackThrows, Leak, Close

(* The key counts the streams there are and the places failures left behind, *)
(* less the streams it forgot.                                               *)
LimitInv == PlacesAreHeld /\ StreamsBounded

LEMMA LimitKept == ASSUME TypeOK, LimitInv, [Next]_vars  PROVE LimitInv'
<1> count \in Int /\ lost \in Nat /\ forgotten \in Nat /\ Limit \in Nat
  BY NumbersAssumption DEF TypeOK
<1> /\ count = Cardinality(Counted) + lost - forgotten
    /\ Cardinality(Admitted) <= Limit + forgotten
  BY DEF LimitInv, PlacesAreHeld, StreamsBounded
<1> USE DEF PlacesAreHeld, StreamsBounded, historyVars
<1>a. /\ Cardinality(Counted') \in Nat /\ Cardinality(Admitted') \in Nat
      /\ Cardinality(Admitted') <= Cardinality(Counted')
  <2>1. Counted' \subseteq Conns /\ Admitted' \subseteq Counted'
    BY DEF Counted, Admitted
  <2> QED  BY <2>1, ConnsAssumption, FS_Subset, FS_CardinalityType
<1>1. CASE \/ Publish \/ Cache \/ UNCHANGED vars
           \/ \E c \in Conns : SetExpiry(c) \/ EventStep(c)
  <2>1. UNCHANGED <<count, historyVars, Counted, Admitted>>
    BY <1>1, SetsUntouched
  <2> QED  BY <2>1 DEF LimitInv
<1>2. CASE Crash
  <2>1. /\ Counted' = {} /\ Admitted' = {} /\ UNCHANGED <<count, forgotten>>
        /\ lost' = lost + Cardinality(Counted)
    BY <1>2 DEF Crash, Counted, Admitted
  <2> QED  BY <2>1, SetsFinite, FS_EmptySet DEF LimitInv
<1>3. CASE KeyExpires
  <2>1. /\ Counted' = Counted /\ Admitted' = Admitted
        /\ count' = 0 /\ lost' = 0 /\ forgotten' = Cardinality(Counted)
    BY <1>3 DEF KeyExpires, Counted, Admitted
  <2> QED  BY <2>1, SetsFinite DEF LimitInv
<1>4. ASSUME NEW c \in Conns, Open(c)  PROVE LimitInv'
  <2>1. /\ count' = count + 1 /\ UNCHANGED historyVars
        /\ Cardinality(Counted') = Cardinality(Counted) + 1
        /\ count + 1 > Limit => Admitted' = Admitted
    BY <1>4, OpenSets
  <2>2. CASE count + 1 > Limit
    BY <2>1, <2>2, SetsFinite DEF LimitInv
  <2>3. CASE ~(count + 1 > Limit)
    BY <2>1, <2>3, <1>a, SetsFinite DEF LimitInv
  <2> QED  BY <2>2, <2>3
<1>5. ASSUME NEW c \in Conns, ReturnStep(c)  PROVE LimitInv'
  BY <1>5, <1>a, ReturnIsClose, CloseSets, SetsFinite DEF LimitInv
<1>6. ASSUME NEW c \in Conns, LeakStep(c)  PROVE LimitInv'
  BY <1>6, <1>a, LeakIsClose, CloseSets, SetsFinite DEF LimitInv
<1> QED  BY <1>1, <1>2, <1>3, <1>4, <1>5, <1>6, NextCases DEF OpenStep

LEMMA LimitInvariant == Spec => []LimitInv
<1>1. Init => LimitInv
  <2> SUFFICES ASSUME Init  PROVE LimitInv
    OBVIOUS
  <2>1. Counted = {} /\ Admitted = {}
    BY DEF Init, Counted, Admitted
  <2> QED  BY <2>1, FS_EmptySet, NumbersAssumption
           DEF Init, LimitInv, PlacesAreHeld, StreamsBounded
<1>2. TypeOK /\ LimitInv /\ [Next]_vars => LimitInv'
  BY LimitKept
<1> QED  BY <1>1, <1>2, TypeCorrect, PTL DEF Spec

(* Redis may fail, the key may expire and the API may die: no more streams   *)
(* are let in than the limit and the streams the key forgot.                 *)
THEOREM LimitHolds == Spec => []StreamsBounded
<1>1. LimitInv => StreamsBounded
  BY DEF LimitInv
<1> QED  BY <1>1, LimitInvariant, PTL

(* No place in the limit is lost but by the named failures, and none is      *)
(* given back twice.                                                         *)
THEOREM NoPlaceLost == Spec => []PlacesAreHeld
<1>1. LimitInv => PlacesAreHeld
  BY DEF LimitInv
<1> QED  BY <1>1, LimitInvariant, PTL
=============================================================================
