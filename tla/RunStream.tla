------------------------------ MODULE RunStream ------------------------------
(* The event streams (SSE) of one user on one run: the worker publishes the   *)
(* run's events on a Redis channel and caches the last; the API counts the    *)
(* user's streams in a Redis key, subscribes, reads the cached event and then *)
(* passes live events on; the browser shows the last event it was sent and    *)
(* closes the stream at the outcome.                                          *)
(*                                                                            *)
(* A run's events are numbered 1 .. Final in the order the worker publishes   *)
(* them; Final is the outcome.  streamRunEvents is cut at its awaits.         *)
EXTENDS Integers, FiniteSets

CONSTANTS
    Conns,      \* the tabs, each with at most one stream at a time
    Limit,      \* streams a user may have open: 5
    Final,      \* number of the event that announces the outcome
    MaxCount,   \* bound: no fault may leave more than this in the limit key
    Faults      \* the kinds of failure that may happen

ASSUME ConnsAssumption == IsFiniteSet(Conns)
ASSUME NumbersAssumption == /\ Limit \in Nat \ {0} /\ Final \in Nat \ {0}
                            /\ MaxCount \in Nat
ASSUME FaultsAssumption == Faults \subseteq {"redis", "crash", "expiry"}

VARIABLES
    published,  \* the last event published on run-status:<runId>
    cached,     \* the event in run-status:last:<runId> (0: none)
    count,      \* sse-limit:<userId>
    ttl,        \* whether that key has a time to live
    lost,       \* history: places in the limit that failures left behind
    forgotten,  \* history: streams that were open when the key last expired
    at,         \* how far the stream of each tab is
    heard,      \* the last event its Redis connection has taken in
    got,        \* the cached event read for it
    shown,      \* the last event sent to the tab (0: none)
    since       \* the last event before its live events

streamVars == <<heard, got, shown, since>>
historyVars == <<lost, forgotten>>
vars == <<published, cached, count, ttl, historyVars, at, streamVars>>

Init ==
    /\ published = 0 /\ cached = 0
    /\ count = 0 /\ ttl = FALSE /\ lost = 0 /\ forgotten = 0
    /\ at = [c \in Conns |-> "closed"]
    /\ heard = [c \in Conns |-> 0]
    /\ got = [c \in Conns |-> 0]
    /\ shown = [c \in Conns |-> 0]
    /\ since = [c \in Conns |-> 0]

Goto(c, p) == at' = [at EXCEPT ![c] = p]

(* The end of a stream: what it kept goes, what the tab shows stays. *)
Close(c) ==
    /\ Goto(c, "closed")
    /\ heard' = [heard EXCEPT ![c] = 0]
    /\ got' = [got EXCEPT ![c] = 0]
    /\ since' = [since EXCEPT ![c] = 0]
    /\ UNCHANGED shown

(* The streams that were let in, and those that hold a place in the limit. *)
Admitted == {c \in Conns : at[c] \in {"under", "admitted", "subscribed", "read", "live"}}
Counted  == {c \in Conns : at[c] # "closed"}
-----------------------------------------------------------------------------
(* publishStatusEvent: PUBLISH, then SET, of one event after the other. *)

Publish ==
    /\ published = cached
    /\ published < Final
    /\ published' = published + 1
    /\ UNCHANGED <<cached, count, ttl, historyVars, at, streamVars>>

Cache ==
    /\ cached < published
    /\ cached' = published
    /\ UNCHANGED <<published, count, ttl, historyVars, at, streamVars>>
-----------------------------------------------------------------------------
(* streamRunEvents: the limit.  A definition with a Mutant_ prefix is a       *)
(* plausible slip in the one it precedes, kept to show what notices it.       *)

Mutant_CheckBeforeCounting(c) ==
    /\ at[c] = "closed"
    /\ shown[c] < Final
    /\ count' = count + 1
    /\ Goto(c, IF count > Limit THEN "over" ELSE "under")
    /\ UNCHANGED <<published, cached, ttl, historyVars, streamVars>>

(* INCR counts the stream and tells whether it is one too many.  A tab opens *)
(* a stream, first or again after a lost one, until it knows the outcome.    *)
Open(c) ==
    /\ at[c] = "closed"
    /\ shown[c] < Final
    /\ count' = count + 1
    /\ Goto(c, IF count + 1 > Limit THEN "over" ELSE "under")
    /\ UNCHANGED <<published, cached, ttl, historyVars, streamVars>>

(* EXPIRE, for a stream that will be refused as well. *)
SetExpiry(c) ==
    /\ at[c] \in {"over", "under"}
    /\ ttl' = TRUE
    /\ Goto(c, IF at[c] = "over" THEN "refusing" ELSE "admitted")
    /\ UNCHANGED <<published, cached, count, historyVars, streamVars>>

Mutant_RefusedStaysCounted(c) ==
    /\ at[c] = "refusing"
    /\ Close(c)
    /\ UNCHANGED <<published, cached, count, ttl, historyVars>>

Refuse(c) ==
    /\ at[c] = "refusing"
    /\ count' = count - 1
    /\ Close(c)
    /\ UNCHANGED <<published, cached, ttl, historyVars>>
-----------------------------------------------------------------------------
(* streamRunEvents: the cached event, then the live ones. *)

Subscribe(c) ==
    /\ at[c] = "admitted"
    /\ heard' = [heard EXCEPT ![c] = published]
    /\ Goto(c, "subscribed")
    /\ UNCHANGED <<published, cached, count, ttl, historyVars, got, shown, since>>

(* Redis executes the GET; its answer travels on another connection than the *)
(* subscription's messages.                                                  *)
ReadCache(c) ==
    /\ at[c] = "subscribed"
    /\ got' = [got EXCEPT ![c] = cached]
    /\ Goto(c, "read")
    /\ UNCHANGED <<published, cached, count, ttl, historyVars, heard, shown, since>>

(* concat listens only after the cached event was sent: a message that       *)
(* arrives before finds no listener.                                         *)
Miss(c) ==
    /\ at[c] \in {"subscribed", "read"}
    /\ heard[c] < published
    /\ heard' = [heard EXCEPT ![c] = @ + 1]
    /\ UNCHANGED <<published, cached, count, ttl, historyVars, at, got, shown, since>>

Mutant_OutcomeNotReplayed(c) ==
    /\ at[c] = "read"
    /\ shown' = [shown EXCEPT ![c] = IF got[c] \in 1 .. Final - 1 THEN got[c] ELSE @]
    /\ since' = [since EXCEPT ![c] = heard[c]]
    /\ got' = [got EXCEPT ![c] = 0]
    /\ Goto(c, "live")
    /\ UNCHANGED <<published, cached, count, ttl, historyVars, heard>>

(* The answer to GET arrives: its event, if any, is sent, and the listener   *)
(* is attached.                                                              *)
Attach(c) ==
    /\ at[c] = "read"
    /\ shown' = [shown EXCEPT ![c] = IF got[c] > 0 THEN got[c] ELSE @]
    /\ since' = [since EXCEPT ![c] = heard[c]]
    /\ got' = [got EXCEPT ![c] = 0]
    /\ Goto(c, "live")
    /\ UNCHANGED <<published, cached, count, ttl, historyVars, heard>>

(* A slip that takes a message for a hint and sends what the cache holds. *)
Mutant_MessageAsHint(c) ==
    /\ at[c] = "live"
    /\ shown[c] < Final
    /\ heard[c] < published
    /\ heard' = [heard EXCEPT ![c] = @ + 1]
    /\ shown' = [shown EXCEPT ![c] = cached]
    /\ UNCHANGED <<published, cached, count, ttl, historyVars, at, got, since>>

Mutant_KeepsListening(c) ==
    /\ at[c] = "live"
    /\ heard[c] < published
    /\ heard' = [heard EXCEPT ![c] = @ + 1]
    /\ shown' = [shown EXCEPT ![c] = heard[c] + 1]
    /\ UNCHANGED <<published, cached, count, ttl, historyVars, at, got, since>>

(* A live event is passed on; the tab takes none after the outcome. *)
Receive(c) ==
    /\ at[c] = "live"
    /\ shown[c] < Final
    /\ heard[c] < published
    /\ heard' = [heard EXCEPT ![c] = @ + 1]
    /\ shown' = [shown EXCEPT ![c] = heard[c] + 1]
    /\ UNCHANGED <<published, cached, count, ttl, historyVars, at, got, since>>

(* The stream ends, and finalize gives its place back. *)
Finalize(c) ==
    /\ count' = count - 1
    /\ Close(c)
    /\ UNCHANGED <<published, cached, ttl, historyVars>>

(* handleTerminalState: the tab closes its stream at the outcome... *)
Leave(c) == at[c] = "live" /\ shown[c] = Final /\ Finalize(c)

(* ... or goes away, or the connection drops. *)
Disconnect(c) == at[c] = "live" /\ Finalize(c)
-----------------------------------------------------------------------------
(* Failures. *)

(* A place in the limit that nobody gives back. *)
Leak(c) ==
    /\ count <= MaxCount
    /\ lost' = lost + 1
    /\ Close(c)
    /\ UNCHANGED <<published, cached, count, forgotten>>

(* INCR is done, EXPIRE throws, with the time to live set or not: the call   *)
(* is outside the try.                                                       *)
ExpiryThrows(c) ==
    /\ "redis" \in Faults
    /\ at[c] \in {"over", "under"}
    /\ ttl' \in {ttl, TRUE}
    /\ Leak(c)

(* A DECR that throws: of a refused stream, after a failed SUBSCRIBE, or in  *)
(* finalize, which does not wait for it.                                     *)
GiveBackThrows(c) ==
    /\ "redis" \in Faults
    /\ at[c] \in {"refusing", "admitted", "subscribed", "live"}
    /\ Leak(c)
    /\ UNCHANGED ttl

(* SUBSCRIBE or GET throws: the place is given back. *)
StreamThrows(c) ==
    /\ "redis" \in Faults
    /\ at[c] \in {"admitted", "subscribed"}
    /\ Finalize(c)

(* The API process dies with all its streams; the key stays. *)
Crash ==
    /\ "crash" \in Faults
    /\ count <= MaxCount
    /\ lost' = lost + Cardinality(Counted)
    /\ at' = [c \in Conns |-> "closed"]
    /\ heard' = [c \in Conns |-> 0]
    /\ got' = [c \in Conns |-> 0]
    /\ since' = [c \in Conns |-> 0]
    /\ UNCHANGED <<published, cached, count, ttl, forgotten, shown>>

(* An hour after the last stream was opened the key expires, whatever is     *)
(* still open.                                                               *)
KeyExpires ==
    /\ "expiry" \in Faults
    /\ ttl
    /\ count' = 0
    /\ ttl' = FALSE
    /\ lost' = 0
    /\ forgotten' = Cardinality(Counted)
    /\ UNCHANGED <<published, cached, at, streamVars>>
-----------------------------------------------------------------------------
ServerStep(c) ==
    \/ SetExpiry(c) \/ Refuse(c) \/ Subscribe(c) \/ ReadCache(c)
    \/ Attach(c) \/ Receive(c)

Fault == \/ Crash \/ KeyExpires
         \/ \E c \in Conns : ExpiryThrows(c) \/ GiveBackThrows(c) \/ StreamThrows(c)

Next == \/ Publish \/ Cache
        \/ \E c \in Conns : \/ Open(c) \/ ServerStep(c) \/ Miss(c)
                           \/ Leave(c) \/ Disconnect(c)
        \/ Fault

Spec == Init /\ [][Next]_vars

(* The API goes on with the streams it has begun and a tab closes its stream *)
(* at the outcome.  That events are published is not assumed.                *)
Fairness == \A c \in Conns : WF_vars(ServerStep(c)) /\ WF_vars(Leave(c))

FairSpec == Spec /\ Fairness
-----------------------------------------------------------------------------
(* Properties *)

Places == {"closed", "over", "under", "refusing", "admitted", "subscribed",
           "read", "live"}

TypeOK ==
    /\ published \in 0 .. Final /\ cached \in 0 .. Final
    /\ count \in Int /\ ttl \in BOOLEAN /\ lost \in Nat /\ forgotten \in Nat
    /\ at \in [Conns -> Places]
    /\ heard \in [Conns -> 0 .. Final]
    /\ got \in [Conns -> 0 .. Final]
    /\ shown \in [Conns -> 0 .. Final]
    /\ since \in [Conns -> 0 .. Final]

(* "Up to 5 concurrent connections per user": INCR and the check are two     *)
(* steps, and still no more streams are let in than the limit and the        *)
(* streams the key forgot when it expired under them.                        *)
StreamsBounded == Cardinality(Admitted) <= Limit + forgotten

(* The key counts the streams that are opening, open or being refused and    *)
(* the places the named failures left behind, less the streams it forgot: no *)
(* place is lost on any other way, and none is given back twice.             *)
PlacesAreHeld == count = Cardinality(Counted) + lost - forgotten

(* A stream that has taken in all live events, and at least one, shows the   *)
(* newest: no cached event overtakes it.                                     *)
CatchesUp ==
    \A c \in Conns :
        at[c] = "live" /\ heard[c] = published /\ since[c] < published
            => shown[c] = published

(* A tab that was shown the outcome is shown nothing else afterwards, not    *)
(* even the earlier messages that were under way while it read the cache.    *)
OutcomeStays ==
    [][\A c \in Conns : shown[c] = Final => shown'[c] = Final]_vars

(* The outcome reaches every stream: one that is live before it is published *)
(* as a message, one that subscribes after it was cached from the cache.      *)
OutcomeArrives ==
    \A c \in Conns :
        \/ at[c] = "live" /\ since[c] < Final /\ published = Final
        \/ at[c] = "subscribed" /\ cached = Final
            ~> shown[c] = Final \/ at[c] = "closed"
=============================================================================
