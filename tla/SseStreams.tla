----------------------------- MODULE SseStreams -----------------------------
(***************************************************************************)
(* Admission, eviction and teardown of SSE connections: the slot           *)
(* accounting of realtime/broadcaster.js together with the lifecycle that  *)
(* realtime.routes.js `openStream` gives each connection.                  *)
(*                                                                         *)
(* JavaScript runs one callback at a time, so each action below is the     *)
(* code between two awaits.  `openStream` is Connect (makeRoom and         *)
(* subscribe, no await in between), then the awaited setup, then           *)
(* SetupDone or SetupFails; the socket may close, a delivery may throw, a  *)
(* newcomer may evict the stream or SIGTERM may arrive at any point.       *)
(***************************************************************************)
EXTENDS Integers, FiniteSets

CONSTANTS Stream,          \* connection attempts, each used once
          Building,
          Ip,
          CapPerBuilding,  \* MAX_SUBSCRIBERS_PER_BUILDING
          CapTotal         \* MAX_SUBSCRIBERS_TOTAL

ASSUME StreamFinite == IsFiniteSet(Stream)
ASSUME CapsPositive == /\ CapPerBuilding \in Nat \ {0}
                       /\ CapTotal \in Nat \ {0}

VARIABLES
  phase,        \* how far `openStream` has run for each connection
  building,     \* the building each connection subscribed to
  ip,           \* req.ip of each connection
  arrival,      \* position in the insertion order of the `slots` Set, 0 outside it
  slots,        \* the `slots` Set
  active,       \* connections whose `active` flag in subscribe() is true
  perBuilding,  \* the `perBuilding` Map (absent = 0)
  total,        \* `totalSubscribers`
  cleaned,      \* connections whose `cleaned` flag is true
  ended,        \* connections whose response has been ended by the server
  heartbeat,    \* connections whose heartbeat interval is running
  closers,      \* the `closers` Set
  closed        \* closeAll() has run (SIGTERM)

accounting == <<slots, arrival, active, perBuilding, total>>
lifecycle  == <<cleaned, ended, heartbeat, closers>>
identity   == <<building, ip>>
vars == <<phase, identity, accounting, lifecycle, closed>>

Phase == {"new", "setup", "open", "failed", "refused"}

Opened == {s \in Stream : phase[s] \in {"setup", "open", "failed"}}

Init ==
  /\ phase = [s \in Stream |-> "new"]
  /\ building \in [Stream -> Building]
  /\ ip \in [Stream -> Ip]
  /\ arrival = [s \in Stream |-> 0]
  /\ slots = {} /\ active = {}
  /\ perBuilding = [b \in Building |-> 0]
  /\ total = 0
  /\ cleaned = {} /\ ended = {} /\ heartbeat = {} /\ closers = {}
  /\ closed = FALSE

-----------------------------------------------------------------------------
(* Accounting *)

Monus(m, n) == IF m > n THEN m - n ELSE 0

SlotsOf(b) == {s \in slots : building[s] = b}

(* The counters after unsubscribe() of the connections in V: a connection  *)
(* that is no longer active changes nothing, and no counter goes negative. *)
PerBuildingWithout(V) ==
  [b \in Building |->
     Monus(perBuilding[b], Cardinality({s \in V \cap active : building[s] = b}))]
TotalWithout(V) == Monus(total, Cardinality(V \cap active))

(* Mutant: the server-wide cap is off by one.                              *)
AtCapacityLate(pb, t, b) == t > CapTotal \/ pb[b] >= CapPerBuilding
AtCapacity(pb, t, b) == t >= CapTotal \/ pb[b] >= CapPerBuilding

(* Mutant: a full building asks every slot of the server.                  *)
CandidatesEverywhere(b) == slots
(* Who could make room for a newcomer to b: the building's own slots when  *)
(* the building is full, every slot when only the server is.               *)
Candidates(b) ==
  IF perBuilding[b] >= CapPerBuilding THEN SlotsOf(b) ELSE slots

(* The oldest stream of an IP that holds the most of the candidate slots;  *)
(* between equal IPs the one met first, hence the oldest stream of them.   *)
Outranks(C, s, t) ==
  LET held(i) == Cardinality({x \in C : ip[x] = i})
  IN  \/ held(ip[s]) > held(ip[t])
      \/ held(ip[s]) = held(ip[t]) /\ arrival[s] <= arrival[t]
(* Mutant: the newest candidate goes, whoever holds it.                    *)
VictimNewest(b) ==
  LET C == Candidates(b) IN {s \in C : \A t \in C : arrival[s] >= arrival[t]}
Victim(b) ==
  LET C == Candidates(b) IN {s \in C : \A t \in C : Outranks(C, s, t)}

(* The streams makeRoom(b) evicts: none, or one.                           *)
Evicted(b) == IF AtCapacity(perBuilding, total, b) THEN Victim(b) ELSE {}

-----------------------------------------------------------------------------
(* Steps of a connection *)

(* The insertion order once the connections in V have lost their slots.    *)
ArrivalWithout(V) == [s \in Stream |-> IF s \in V THEN 0 ELSE arrival[s]]

(* Mutant: a second unsubscribe is counted again.                          *)
CleanupTwice(V) ==
  /\ cleaned' = cleaned \cup V
  /\ heartbeat' = heartbeat \ V
  /\ closers' = closers \ V
  /\ slots' = slots \ V
  /\ arrival' = ArrivalWithout(V)
  /\ active' = active \ V
  /\ perBuilding' = [b \in Building |->
       Monus(perBuilding[b], Cardinality({s \in V : building[s] = b}))]
  /\ total' = Monus(total, Cardinality(V))

(* cleanup() of every connection in V: at most once each, it stops the     *)
(* heartbeat, unsubscribes and unregisters the closer.                     *)
Cleanup(V) ==
  /\ cleaned' = cleaned \cup V
  /\ heartbeat' = heartbeat \ V
  /\ closers' = closers \ V
  /\ slots' = slots \ V
  /\ arrival' = ArrivalWithout(V)
  /\ active' = active \ V
  /\ perBuilding' = PerBuildingWithout(V)
  /\ total' = TotalWithout(V)

(* openStream up to its first await: make room, then take a slot, or       *)
(* answer 503 when there is still none.                                    *)
Connect(s) ==
  /\ phase[s] = "new"
  /\ LET b    == building[s]
         V    == Evicted(b)
         pb   == PerBuildingWithout(V)
         t    == TotalWithout(V)
         room == ~ AtCapacity(pb, t, b)
     IN  /\ phase' = [phase EXCEPT ![s] = IF room THEN "setup" ELSE "refused"]
         /\ arrival' = [ArrivalWithout(V) EXCEPT
                           ![s] = IF room THEN Cardinality(Opened) + 1 ELSE 0]
         /\ slots' = (slots \ V) \cup (IF room THEN {s} ELSE {})
         /\ active' = (active \ V) \cup (IF room THEN {s} ELSE {})
         /\ perBuilding' = IF room THEN [pb EXCEPT ![b] = @ + 1] ELSE pb
         /\ total' = IF room THEN t + 1 ELSE t
         /\ cleaned' = cleaned \cup V
         /\ ended' = ended \cup V
         /\ heartbeat' = heartbeat \ V
         /\ closers' = closers \ V
  /\ UNCHANGED <<building, ip, closed>>

(* Mutant: no check of `cleaned` after the awaits.                         *)
SetupDoneUnchecked(s) ==
  /\ phase[s] = "setup"
  /\ phase' = [phase EXCEPT ![s] = "open"]
  /\ heartbeat' = heartbeat \cup {s}
  /\ closers' = closers \cup {s}
  /\ UNCHANGED <<identity, accounting, cleaned, ended, closed>>

(* Setup finished: the heartbeat starts and the closer is registered,      *)
(* unless the connection went away meanwhile.                              *)
SetupDone(s) ==
  /\ phase[s] = "setup"
  /\ phase' = [phase EXCEPT ![s] = "open"]
  /\ LET kept == IF s \in cleaned THEN {} ELSE {s}
     IN  /\ heartbeat' = heartbeat \cup kept
         /\ closers' = closers \cup kept
  /\ UNCHANGED <<identity, accounting, cleaned, ended, closed>>

(* An await of the setup rejected: tear down and end the response.         *)
SetupFails(s) ==
  /\ phase[s] = "setup"
  /\ phase' = [phase EXCEPT ![s] = "failed"]
  /\ Cleanup({s})
  /\ ended' = ended \cup {s}
  /\ UNCHANGED <<identity, closed>>

(* req 'close', res 'error', or a throwing write while delivering.         *)
Hangup(s) ==
  /\ s \in Opened \ cleaned
  /\ Cleanup({s})
  /\ UNCHANGED <<phase, identity, ended, closed>>

(* A heartbeat write throws: only the interval is cleared.                 *)
HeartbeatFails(s) ==
  /\ s \in heartbeat
  /\ heartbeat' = heartbeat \ {s}
  /\ UNCHANGED <<phase, identity, accounting, cleaned, ended, closers, closed>>

(* SIGTERM: every registered closer ends its response; the accounting is   *)
(* dropped although the streams themselves have yet to clean up.           *)
CloseAll ==
  /\ ~ closed
  /\ closed' = TRUE
  /\ ended' = ended \cup closers
  /\ closers' = {}
  /\ slots' = {}
  /\ arrival' = ArrivalWithout(Stream)
  /\ perBuilding' = [b \in Building |-> 0]
  /\ total' = 0
  /\ UNCHANGED <<phase, identity, active, cleaned, heartbeat>>

Next ==
  \/ \E s \in Stream : \/ Connect(s) \/ SetupDone(s) \/ SetupFails(s)
                       \/ Hangup(s) \/ HeartbeatFails(s)
  \/ CloseAll

Spec == Init /\ [][Next]_vars

-----------------------------------------------------------------------------
(* Properties *)

(* Types, and the sets that can only hold connections that were admitted.  *)
TypeOK ==
  /\ phase \in [Stream -> Phase]
  /\ building \in [Stream -> Building]
  /\ ip \in [Stream -> Ip]
  /\ arrival \in [Stream -> Nat]
  /\ perBuilding \in [Building -> Nat]
  /\ total \in Nat
  /\ closed \in BOOLEAN
  /\ slots \subseteq active
  /\ active \subseteq Opened
  /\ cleaned \subseteq Opened
  /\ ended \subseteq Opened
  /\ heartbeat \subseteq Opened
  /\ closers \subseteq Opened

(* The counters agree with the slots held, stream by stream, whatever the  *)
(* order of evictions, hang-ups and failed setups.  Once closeAll() has    *)
(* reset them, streams that clean up late subtract from the slots of       *)
(* newcomers, so they may only fall short of the truth, never exceed it.   *)
SlotAccounting ==
  /\ \A b \in Building :
       IF closed THEN perBuilding[b] <= Cardinality(SlotsOf(b))
                 ELSE perBuilding[b] = Cardinality(SlotsOf(b))
  /\ IF closed THEN total <= Cardinality(slots)
               ELSE total = Cardinality(slots)

(* The caps bound the connections really open, not just the counters.      *)
CapsHold ==
  ~ closed => /\ Cardinality(slots) <= CapTotal
              /\ \A b \in Building : Cardinality(SlotsOf(b)) <= CapPerBuilding

(* "A full building makes room rather than refusing the newest occupant":  *)
(* with caps of at least one, a slot can always be evicted, so the 503 of  *)
(* openStream is never answered, not even during shutdown.                 *)
NewcomerAdmitted == \A s \in Stream : phase[s] # "refused"

(* A connection that is gone leaves nothing behind once its handler has    *)
(* returned: no slot, no heartbeat interval, no closer; and one that is    *)
(* still there keeps its slot and its closer until closeAll() takes them.  *)
NothingLeaks ==
  /\ active = Opened \ cleaned
  /\ heartbeat \cap cleaned = {}
  /\ closers \cap cleaned = {}
  /\ ~ closed => /\ slots = active
                 /\ closers = {s \in Stream : phase[s] = "open"} \ cleaned

(* A slot is taken from a connection only by a newcomer that found no      *)
(* room, and then from an IP that holds at least as many slots of the full *)
(* scope as any other, the oldest it has there: an IP with one slot is     *)
(* safe while another holds two.  (After closeAll() the counters fall      *)
(* short, and a full building may pass for one that has room.)             *)
FairEviction ==
  [][\A s \in Stream : (~ closed /\ phase[s] = "new" /\ phase'[s] = "setup") =>
       LET b     == building[s]
           full  == Cardinality(SlotsOf(b)) >= CapPerBuilding
           scope == IF full THEN SlotsOf(b) ELSE slots
           of(i) == {x \in scope : ip[x] = i}
       IN  \A v \in slots \ slots' :
             /\ full \/ Cardinality(slots) >= CapTotal
             /\ v \in scope
             /\ \A i \in Ip : Cardinality(of(i)) <= Cardinality(of(ip[v]))
             /\ \A x \in of(ip[v]) : arrival[v] <= arrival[x]]_vars

=============================================================================
