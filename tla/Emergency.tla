----------------------------- MODULE Emergency -----------------------------
(***************************************************************************)
(* Emergency mode of one building (emergency/emergencyService.js): trigger *)
(* and resolve as the database transactions they are, occupants' reports,  *)
(* the status cache in front of the poll route, and the frames published.  *)
(*                                                                         *)
(* PostgreSQL runs the transactions at READ COMMITTED.  A conditional      *)
(* updateMany on the building row answers 0 at once when the committed row *)
(* does not match; when it does it takes the row's lock, waiting for the   *)
(* holder and looking again.  The variables mode, message and events are   *)
(* the committed state, so a transaction writes them when it commits.      *)
(***************************************************************************)
EXTENDS Integers, Sequences, FiniteSets

CONSTANTS
  Admin,        \* trigger and resolve requests, each made once
  Occupant,     \* occupants' reports, each made once
  Poll,         \* status polls, each made once
  Message, NoMessage, Nobody,
  MaxRestarts   \* bound: restarts of the process

ASSUME NoMessageIsNone == NoMessage \notin Message
ASSUME NobodyIsNone == Nobody \notin Admin \cup Poll

VARIABLES
  mode,       \* Building.emergencyMode
  message,    \* Building.emergencyMessage
  events,     \* the EmergencyEvent rows, oldest first
  lock,       \* who holds the lock of the building row
  op,         \* what each admin request asks for
  pc,         \* where each admin request stands
  result,     \* the event each trigger returns: its index, 0 for none
  reports,    \* where each occupant's report stands
  frame,      \* the last emergency_started or emergency_ended frame published
  version,    \* number of commits so far (not state of the code)
  at,         \* the version each request's commit made
  announced,  \* the newest version whose requester has dropped the cache entry
  cache,      \* the poll whose read the cached promise is, or Nobody
  reading,    \* how far the read each poll started has come
  seen,       \* the version a read saw
  joined,     \* the poll whose read answers this one
  since,      \* `announced` when the poll arrived
  restarts

database == <<mode, message, events>>
requests == <<lock, pc, result, frame>>
polls    == <<reading, seen, joined, since>>
vars == <<database, requests, op, reports, version, at, announced, cache, polls,
          restarts>>

Requester == Admin \cup Occupant
EventRow == [status : {"ACTIVE", "RESOLVED"}, message : Message \cup {NoMessage},
             scanned : Nat]
Op == [kind : {"trigger"}, text : Message \cup {NoMessage}]
        \cup [kind : {"resolve"}, text : {NoMessage}]
Pc == {"begin", "flipped", "ending", "active", "amending", "locked",
       "committed", "returned", "done", "failed"}
Frame == [type : {"none", "ended"}, event : {0}]
           \cup [type : {"started"}, event : 1..Len(events)]

Init ==
  /\ mode = FALSE /\ message = NoMessage /\ events = <<>>
  /\ lock = Nobody
  /\ op \in [Admin -> Op]
  /\ pc = [a \in Admin |-> "begin"]
  /\ result = [a \in Admin |-> 0]
  /\ reports = [o \in Occupant |-> "begin"]
  /\ frame = [type |-> "none", event |-> 0]
  /\ version = 0 /\ announced = 0
  /\ at = [r \in Requester |-> 0]
  /\ cache = Nobody
  /\ reading = [p \in Poll |-> "none"]
  /\ seen = [p \in Poll |-> 0] /\ since = [p \in Poll |-> 0]
  /\ joined = [p \in Poll |-> Nobody]
  /\ restarts = 0

-----------------------------------------------------------------------------
Active == {e \in 1..Len(events) : events[e].status = "ACTIVE"}

(* findFirst over the ACTIVE rows, newest first.                           *)
Newest(S) == {e \in S : \A f \in S : f <= e}
FindActive == IF Active = {} THEN 0 ELSE CHOOSE e \in Newest(Active) : TRUE

Step(a, from, to) == pc[a] = from /\ pc' = [pc EXCEPT ![a] = to]

Committed(r) ==
  /\ version' = version + 1
  /\ at' = [at EXCEPT ![r] = version + 1]

(* A transition that waited for the row lock goes on only after the        *)
(* holder's COMMIT was answered, and has several more round trips to its   *)
(* own COMMIT: the one event loop has announced the first by then.         *)
EarlierAnnounced(a) == \A b \in Admin \ {a} : pc[b] # "committed"

-----------------------------------------------------------------------------
(* triggerEmergency *)

(* Mutant: the mode is set whatever it was.                                *)
TriggerFlipUnguarded(a) ==
  /\ op[a].kind = "trigger"
  /\ lock = Nobody /\ lock' = a /\ Step(a, "begin", "flipped")
  /\ UNCHANGED <<database, result, frame, op, reports, version, at, announced,
                 cache, polls, restarts>>

(* updateMany where emergencyMode is false.                                *)
TriggerFlip(a) ==
  /\ op[a].kind = "trigger"
  /\ \/ /\ mode
        /\ Step(a, "begin", "active") /\ UNCHANGED lock
     \/ /\ ~ mode /\ lock = Nobody
        /\ Step(a, "begin", "flipped") /\ lock' = a
  /\ UNCHANGED <<database, result, frame, op, reports, version, at, announced,
                 cache, polls, restarts>>

TriggerCommit(a) ==
  /\ EarlierAnnounced(a)
  /\ Step(a, "flipped", "committed")
  /\ mode' = TRUE
  /\ message' = IF op[a].text # NoMessage THEN op[a].text ELSE message
  /\ events' = Append(events, [status |-> "ACTIVE", message |-> message',
                               scanned |-> 0])
  /\ result' = [result EXCEPT ![a] = Len(events')]
  /\ lock' = Nobody
  /\ Committed(a)
  /\ UNCHANGED <<frame, op, reports, announced, cache, polls, restarts>>

(* Already active: which event?  Without a new message that is all.        *)
FindExisting(a) ==
  /\ Step(a, "active", IF op[a].text = NoMessage THEN "returned" ELSE "amending")
  /\ result' = [result EXCEPT ![a] = FindActive]
  /\ UNCHANGED <<database, lock, frame, op, reports, version, at, announced, cache,
                 polls, restarts>>

(* With one: the audit row, then the building row, whatever its mode.      *)
AmendBuilding(a) ==
  /\ lock = Nobody /\ lock' = a
  /\ Step(a, "amending", "locked")
  /\ UNCHANGED <<database, result, frame, op, reports, version, at, announced,
                 cache, polls, restarts>>

(* Mutant: the event found before is amended, whatever its status.         *)
AmendedExisting(a) == {result[a]}
Amended(a) == Active

(* Then the ACTIVE events.                                                 *)
AmendCommit(a) ==
  /\ EarlierAnnounced(a)
  /\ Step(a, "locked", "committed")
  /\ message' = op[a].text
  /\ events' = [e \in 1..Len(events) |->
                  IF e \in Amended(a) THEN [events[e] EXCEPT !.message = op[a].text]
                                      ELSE events[e]]
  /\ lock' = Nobody
  /\ Committed(a)
  /\ UNCHANGED <<mode, result, frame, op, reports, announced, cache, polls, restarts>>

-----------------------------------------------------------------------------
(* resolveEmergency *)

(* updateMany where emergencyMode is true.                                 *)
ResolveFlip(a) ==
  /\ op[a].kind = "resolve"
  /\ \/ /\ ~ mode
        /\ Step(a, "begin", "returned") /\ UNCHANGED lock
     \/ /\ mode /\ lock = Nobody
        /\ Step(a, "begin", "ending") /\ lock' = a
  /\ UNCHANGED <<database, result, frame, op, reports, version, at, announced,
                 cache, polls, restarts>>

ResolveCommit(a) ==
  /\ EarlierAnnounced(a)
  /\ Step(a, "ending", "committed")
  /\ mode' = FALSE
  /\ events' = [e \in 1..Len(events) |->
                  IF e \in Active THEN [events[e] EXCEPT !.status = "RESOLVED"]
                                  ELSE events[e]]
  /\ lock' = Nobody
  /\ Committed(a)
  /\ UNCHANGED <<message, result, frame, op, reports, announced, cache, polls,
                 restarts>>

(* A statement of the transaction fails, or the transaction times out.     *)
Rollback(a) ==
  /\ pc[a] \in {"flipped", "ending", "active", "amending", "locked"}
  /\ pc' = [pc EXCEPT ![a] = "failed"]
  /\ lock' = IF lock = a THEN Nobody ELSE lock
  /\ UNCHANGED <<database, result, frame, op, reports, version, at, announced,
                 cache, polls, restarts>>

(* Mutant: the end is announced whether or not this request brought it.    *)
EndsAlways(a) == op[a].kind = "resolve"
Ends(a) == op[a].kind = "resolve" /\ pc[a] = "committed"

(* Mutant: an announcement without an event.                               *)
StartsAlways(a) == op[a].kind = "trigger" /\ pc[a] = "committed"
Starts(a) == op[a].kind = "trigger" /\ pc[a] = "committed" /\ result[a] # 0

(* After the transaction, in one synchronous step: drop the cached status, *)
(* publish the frame.  (A re-tap without a message publishes nothing; an   *)
(* amendment that had found no active event does not either.)              *)
Announce(a) ==
  /\ pc[a] \in {"committed", "returned"}
  /\ pc' = [pc EXCEPT ![a] = "done"]
  /\ frame' = IF Ends(a) THEN [type |-> "ended", event |-> 0]
              ELSE IF Starts(a) THEN [type |-> "started", event |-> result[a]]
              ELSE frame
  /\ announced' = IF at[a] > announced THEN at[a] ELSE announced
  /\ cache' = Nobody
  /\ UNCHANGED <<database, lock, result, op, reports, version, at, polls, restarts>>

-----------------------------------------------------------------------------
(* recordAction *)

(* One transaction: increment the ACTIVE event; without one, nothing.      *)
Report(o) ==
  /\ reports[o] = "begin"
  /\ IF Active = {}
     THEN /\ reports' = [reports EXCEPT ![o] = "done"]
          /\ UNCHANGED <<events, version, at>>
     ELSE /\ reports' = [reports EXCEPT ![o] = "committed"]
          /\ events' = [e \in 1..Len(events) |->
                          IF e \in Active THEN [events[e] EXCEPT !.scanned = @ + 1]
                                           ELSE events[e]]
          /\ Committed(o)
  /\ UNCHANGED <<mode, message, requests, op, announced, cache, polls, restarts>>

(* Mutant: the cached status survives a report.                            *)
ReportAnnouncedOnly(o) ==
  /\ reports[o] = "committed"
  /\ reports' = [reports EXCEPT ![o] = "done"]
  /\ announced' = IF at[o] > announced THEN at[o] ELSE announced
  /\ UNCHANGED <<database, requests, op, version, at, cache, polls, restarts>>

(* Then the cache entry goes and the log frame leaves.  (The counters that *)
(* are read back and published after this change nothing more.)            *)
ReportAnnounced(o) ==
  /\ reports[o] = "committed"
  /\ reports' = [reports EXCEPT ![o] = "done"]
  /\ announced' = IF at[o] > announced THEN at[o] ELSE announced
  /\ cache' = Nobody
  /\ UNCHANGED <<database, requests, op, version, at, polls, restarts>>

-----------------------------------------------------------------------------
(* getStatusCached *)

(* The entry is there and young enough: share its promise.                 *)
PollHits(p) ==
  /\ joined[p] = Nobody /\ cache # Nobody
  /\ joined' = [joined EXCEPT ![p] = cache]
  /\ since' = [since EXCEPT ![p] = announced]
  /\ UNCHANGED <<database, requests, op, reports, version, at, announced, cache,
                 reading, seen, restarts>>

(* No entry, or one that has expired (it may have at any time): start a    *)
(* read and cache its promise at once.                                     *)
PollMisses(p) ==
  /\ joined[p] = Nobody
  /\ joined' = [joined EXCEPT ![p] = p]
  /\ since' = [since EXCEPT ![p] = announced]
  /\ reading' = [reading EXCEPT ![p] = "building"]
  /\ cache' = p
  /\ UNCHANGED <<database, requests, op, reports, version, at, announced, seen,
                 restarts>>

(* getStatus: the building row, then the event if the mode was on.         *)
ReadBuilding(p) ==
  /\ reading[p] = "building"
  /\ reading' = [reading EXCEPT ![p] = IF mode THEN "event" ELSE "done"]
  /\ seen' = [seen EXCEPT ![p] = version]
  /\ UNCHANGED <<database, requests, op, reports, version, at, announced, cache,
                 joined, since, restarts>>
ReadEvent(p) ==
  /\ reading[p] = "event"
  /\ reading' = [reading EXCEPT ![p] = "done"]
  /\ UNCHANGED <<database, requests, op, reports, version, at, announced, cache,
                 seen, joined, since, restarts>>

(* Either query rejects: whatever entry is there now goes.                 *)
ReadFails(p) ==
  /\ reading[p] \in {"building", "event"}
  /\ reading' = [reading EXCEPT ![p] = "failed"]
  /\ cache' = Nobody
  /\ UNCHANGED <<database, requests, op, reports, version, at, announced, seen,
                 joined, since, restarts>>

-----------------------------------------------------------------------------
(* The process restarts: transactions roll back, what was to be announced  *)
(* is not, and memory is lost.                                             *)
Restart ==
  /\ restarts < MaxRestarts
  /\ restarts' = restarts + 1
  /\ lock' = Nobody
  /\ pc' = [a \in Admin |-> IF pc[a] \in {"begin", "done"} THEN pc[a] ELSE "failed"]
  /\ reports' = [o \in Occupant |->
                   IF reports[o] = "committed" THEN "done" ELSE reports[o]]
  /\ reading' = [p \in Poll |->
                   IF reading[p] \in {"building", "event"} THEN "failed" ELSE reading[p]]
  /\ cache' = Nobody
  /\ announced' = version
  /\ UNCHANGED <<database, result, frame, op, version, at, seen, joined, since>>

Next ==
  \/ \E a \in Admin :
       \/ TriggerFlip(a) \/ TriggerCommit(a)
       \/ FindExisting(a) \/ AmendBuilding(a) \/ AmendCommit(a)
       \/ ResolveFlip(a) \/ ResolveCommit(a)
       \/ Rollback(a) \/ Announce(a)
  \/ \E o \in Occupant : Report(o) \/ ReportAnnounced(o)
  \/ \E p \in Poll : \/ PollHits(p) \/ PollMisses(p)
                     \/ ReadBuilding(p) \/ ReadEvent(p) \/ ReadFails(p)
  \/ Restart

Spec == Init /\ [][Next]_vars

-----------------------------------------------------------------------------
(* Properties *)

TypeOK ==
  /\ mode \in BOOLEAN /\ message \in Message \cup {NoMessage}
  /\ events \in Seq(EventRow)
  /\ lock \in Admin \cup {Nobody}
  /\ op \in [Admin -> Op] /\ pc \in [Admin -> Pc]
  /\ result \in [Admin -> 0..Len(events)]
  /\ reports \in [Occupant -> {"begin", "committed", "done"}]
  /\ frame \in Frame
  /\ version \in Nat /\ announced \in 0..version /\ restarts \in Nat
  /\ at \in [Requester -> 0..version]
  /\ cache \in Poll \cup {Nobody}
  /\ reading \in [Poll -> {"none", "building", "event", "done", "failed"}]
  /\ seen \in [Poll -> 0..version] /\ since \in [Poll -> 0..version]
  /\ joined \in [Poll -> Poll \cup {Nobody}]

(* The building is in emergency mode exactly while one event is ACTIVE,    *)
(* and that is the newest: two admins, a double tap or a failure half way  *)
(* can neither open two emergencies nor leave one open with the mode off.  *)
ActiveIffMode == Active = IF mode THEN {Len(events)} ELSE {}

(* "A change is never hidden behind the cache": a poll that arrives after  *)
(* a change was announced is answered by a read made after its commit,     *)
(* even when it shares the promise of an earlier poll.                     *)
FreshPolls ==
  \A p \in Poll : joined[p] # Nobody /\ reading[joined[p]] \in {"event", "done"} =>
                  seen[joined[p]] >= since[p]

Settled == \A a \in Admin : pc[a] \in {"begin", "done", "failed"}

(* When the requests have been answered and the alarm is on, the last      *)
(* frame the occupants received announced it, never its end (as long as    *)
(* the process stays up: a crash between commit and publish loses frames). *)
AlarmNeverSilenced ==
  Settled /\ mode /\ restarts = 0 => frame.type = "started"

(* "Explicit, idempotent emergency transitions", which cannot "flip the    *)
(* wrong way when two admins raced": when the requests have been answered  *)
(* and the alarm is off, the last frame is not one that announced it.      *)
EndIsLastWord ==
  Settled /\ ~ mode /\ restarts = 0 => frame.type # "started"

(* The service implements the incident log it promises.                    *)
Incidents == INSTANCE IncidentLog WITH
  alarm <- mode, standing <- message, incidents <- events
ImplementsIncidentLog == Incidents!Spec

=============================================================================
