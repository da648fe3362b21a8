-------------------------- MODULE EmergencyProofs --------------------------
(***************************************************************************)
(* For any number of admins, occupants, polls and restarts: emergency mode *)
(* and its event change together, the last frame never silences an alarm   *)
(* that is on, the status cache hides no announced change, and the service *)
(* implements the incident log.                                            *)
(***************************************************************************)
EXTENDS Emergency, SequenceTheorems, TLAPS

(* A transaction that has changed, or will change, the building row holds  *)
(* its lock, and nobody else can have changed the mode it found.           *)
HoldsLock(a) == pc[a] \in {"flipped", "ending", "locked"}
Locking ==
  \A a \in Admin :
    /\ HoldsLock(a) => lock = a
    /\ pc[a] \in {"flipped", "active", "amending", "locked"} => op[a].kind = "trigger"
    /\ pc[a] \in {"amending", "locked"} => op[a].text # NoMessage
    /\ pc[a] = "ending" => op[a].kind = "resolve" /\ mode
    /\ pc[a] = "flipped" => ~ mode

ModeInv == TypeOK /\ ActiveIffMode /\ Locking

(* A resolve that is still to be announced has ended the alarm, and an     *)
(* alarm the occupants have not heard of has a trigger to announce it.     *)
Unannounced ==
  /\ \A a \in Admin : pc[a] = "committed" /\ op[a].kind = "resolve" => ~ mode
  /\ mode /\ restarts = 0 /\ frame.type # "started" =>
       \E a \in Admin : pc[a] = "committed" /\ op[a].kind = "trigger" /\ result[a] # 0

(* The cached promise is that of the poll that started it, and its read is *)
(* no older than what has been announced.                                  *)
HasRead(p) == reading[p] \in {"event", "done"}
CacheFresh ==
  /\ cache # Nobody => /\ joined[cache] = cache
                       /\ HasRead(cache) => seen[cache] >= announced
  /\ \A p \in Poll : joined[p] # Nobody => joined[joined[p]] = joined[p]

-----------------------------------------------------------------------------
(* Types *)

LEMMA TypeInit == Init => TypeOK
<1> SUFFICES ASSUME Init PROVE TypeOK
  OBVIOUS
<1>1. events = <<>> /\ events \in Seq(EventRow)
  BY DEF Init
<1>2. /\ mode \in BOOLEAN /\ message \in Message \cup {NoMessage}
      /\ lock \in Admin \cup {Nobody}
      /\ op \in [Admin -> Op] /\ pc \in [Admin -> Pc]
  BY DEF Init, Pc
<1>3. /\ result \in [Admin -> 0..Len(events)]
      /\ reports \in [Occupant -> {"begin", "committed", "done"}]
  BY <1>1 DEF Init
<1>4. frame \in Frame
  BY DEF Init, Frame
<1>5. /\ version \in Nat /\ announced \in 0..version /\ restarts \in Nat
      /\ at \in [Requester -> 0..version]
      /\ cache \in Poll \cup {Nobody}
      /\ reading \in [Poll -> {"none", "building", "event", "done", "failed"}]
      /\ seen \in [Poll -> 0..version] /\ since \in [Poll -> 0..version]
      /\ joined \in [Poll -> Poll \cup {Nobody}]
  BY DEF Init
<1> QED
  BY <1>1, <1>2, <1>3, <1>4, <1>5 DEF TypeOK

(* An update of one column leaves a row, with the other columns.           *)
LEMMA RowUpdated ==
  ASSUME NEW r \in EventRow
  PROVE  /\ \A text \in Message \cup {NoMessage} :
              /\ [r EXCEPT !.message = text] \in EventRow
              /\ [r EXCEPT !.message = text].status = r.status
         /\ [r EXCEPT !.status = "RESOLVED"] \in EventRow
         /\ [r EXCEPT !.status = "RESOLVED"].status = "RESOLVED"
         /\ [r EXCEPT !.scanned = @ + 1] \in EventRow
         /\ [r EXCEPT !.scanned = @ + 1].status = r.status
  BY DEF EventRow

(* An updateMany leaves the number of events.                              *)
LEMMA RowsUpdated ==
  ASSUME TypeOK, NEW rows \in [1..Len(events) -> EventRow]
  PROVE  rows \in Seq(EventRow) /\ Len(rows) = Len(events)
<1>1. Len(events) \in Nat
  BY DEF TypeOK
<1>2. rows \in Seq(EventRow)
  BY <1>1
<1>3. Len(rows) = Len(events)
  BY <1>1, <1>2
<1> QED
  BY <1>2, <1>3

LEMMA EventRows == TypeOK => \A e \in 1..Len(events) : events[e] \in EventRow
  BY ElementOfSeq DEF TypeOK

(* The event a repeated trigger finds.                                     *)
LEMMA FoundEvent == TypeOK /\ ActiveIffMode => FindActive \in 0..Len(events)
<1> SUFFICES ASSUME TypeOK, ActiveIffMode PROVE FindActive \in 0..Len(events)
  OBVIOUS
<1>1. Len(events) \in Nat
  BY DEF TypeOK
<1>2. CASE mode
  <2>1. Active = {Len(events)}
    BY <1>2 DEF ActiveIffMode
  <2>2. Active # {} /\ Newest(Active) \subseteq Active /\ Newest(Active) # {}
    BY <1>1, <2>1 DEF Newest
  <2>3. FindActive \in Newest(Active)
    BY <2>2 DEF FindActive
  <2> QED
    BY <1>1, <2>1, <2>2, <2>3
<1>3. CASE ~ mode
  BY <1>1, <1>3 DEF ActiveIffMode, FindActive
<1> QED
  BY <1>2, <1>3

LEMMA TypeStep == TypeOK /\ ActiveIffMode /\ [Next]_vars => TypeOK'
<1> SUFFICES ASSUME TypeOK, ActiveIffMode, [Next]_vars PROVE TypeOK'
  OBVIOUS
<1> USE DEF TypeOK, Step, Committed, Requester, Pc, Frame,
            vars, database, requests, polls
<1>1. ASSUME NEW a \in Admin, TriggerFlip(a) PROVE TypeOK'
  BY <1>1 DEF TriggerFlip
<1>2. ASSUME NEW a \in Admin, TriggerCommit(a) PROVE TypeOK'
  <2>1. op[a].text \in Message \cup {NoMessage} /\ message' \in Message \cup {NoMessage}
    BY <1>2 DEF TriggerCommit, Op
  <2>2. events' \in Seq(EventRow) /\ Len(events') = Len(events) + 1 /\ Len(events) \in Nat
    <3>1. [status |-> "ACTIVE", message |-> message', scanned |-> 0] \in EventRow
      BY <2>1 DEF EventRow
    <3> QED
      BY <1>2, <3>1 DEF TriggerCommit
  <2>3. result' \in [Admin -> 0..Len(events')]
    BY <1>2, <2>2 DEF TriggerCommit
  <2>4. frame' \in Frame'
    BY <1>2, <2>2 DEF TriggerCommit
  <2>5. /\ mode' \in BOOLEAN /\ lock' \in Admin \cup {Nobody}
        /\ pc' \in [Admin -> Pc]
        /\ version' \in Nat /\ announced' \in 0..version'
        /\ at' \in [Requester -> 0..version']
        /\ seen' \in [Poll -> 0..version'] /\ since' \in [Poll -> 0..version']
    BY <1>2 DEF TriggerCommit
  <2> QED
    BY <1>2, <2>1, <2>2, <2>3, <2>4, <2>5 DEF TriggerCommit
<1>3. ASSUME NEW a \in Admin, FindExisting(a) PROVE TypeOK'
  BY <1>3, FoundEvent DEF FindExisting
<1>4. ASSUME NEW a \in Admin, AmendBuilding(a) PROVE TypeOK'
  BY <1>4 DEF AmendBuilding
<1>5. ASSUME NEW a \in Admin, AmendCommit(a) PROVE TypeOK'
  <2>1. op[a].text \in Message \cup {NoMessage}
    BY DEF Op
  <2>2. events' \in [1..Len(events) -> EventRow]
    <3>1. \A e \in 1..Len(events) : events[e] \in EventRow /\ [events[e] EXCEPT !.message = op[a].text] \in EventRow
      BY <2>1, EventRows, RowUpdated
    <3> QED
      BY <1>5, <3>1 DEF AmendCommit
  <2>3. events' \in Seq(EventRow) /\ Len(events') = Len(events)
    BY <2>2, RowsUpdated
  <2> QED
    BY <1>5, <2>1, <2>3 DEF AmendCommit
<1>6. ASSUME NEW a \in Admin, ResolveFlip(a) PROVE TypeOK'
  BY <1>6 DEF ResolveFlip
<1>7. ASSUME NEW a \in Admin, ResolveCommit(a) PROVE TypeOK'
  <2>1. events' \in [1..Len(events) -> EventRow]
    <3>1. \A e \in 1..Len(events) : events[e] \in EventRow /\ [events[e] EXCEPT !.status = "RESOLVED"] \in EventRow
      BY EventRows, RowUpdated
    <3> QED
      BY <1>7, <3>1 DEF ResolveCommit
  <2>2. events' \in Seq(EventRow) /\ Len(events') = Len(events)
    BY <2>1, RowsUpdated
  <2>3. /\ mode' = FALSE /\ lock' = Nobody /\ Step(a, "ending", "committed") /\ Committed(a)
        /\ UNCHANGED <<message, result, frame, op, reports, announced, cache, polls, restarts>>
    BY <1>7 DEF ResolveCommit
  <2>4. /\ result' \in [Admin -> 0..Len(events')] /\ frame' \in Frame'
        /\ op' \in [Admin -> Op] /\ message' \in Message \cup {NoMessage}
    BY <2>2, <2>3
  <2>5. mode' \in BOOLEAN /\ lock' \in Admin \cup {Nobody}
    BY <2>3
  <2>6. pc' \in [Admin -> Pc]
    BY <2>3
  <2>7. /\ version' \in Nat /\ announced' \in 0..version'
        /\ at' \in [Requester -> 0..version']
        /\ seen' \in [Poll -> 0..version'] /\ since' \in [Poll -> 0..version']
    BY <2>3
  <2> QED
    BY <2>2, <2>3, <2>4, <2>5, <2>6, <2>7
<1>8. ASSUME NEW a \in Admin, Rollback(a) PROVE TypeOK'
  BY <1>8 DEF Rollback
<1>9. ASSUME NEW a \in Admin, Announce(a) PROVE TypeOK'
  BY <1>9 DEF Announce, Starts
<1>10. ASSUME NEW o \in Occupant, Report(o) PROVE TypeOK'
  <2>1. CASE Active = {}
    BY <1>10, <2>1 DEF Report
  <2>2. CASE Active # {}
    <3>1. events' \in [1..Len(events) -> EventRow]
      <4>1. \A e \in 1..Len(events) : events[e] \in EventRow /\ [events[e] EXCEPT !.scanned = @ + 1] \in EventRow
        BY EventRows, RowUpdated
      <4> QED
        BY <1>10, <2>2, <4>1 DEF Report
    <3>2. events' \in Seq(EventRow) /\ Len(events') = Len(events)
      BY <3>1, RowsUpdated
    <3>3. /\ reports' = [reports EXCEPT ![o] = "committed"] /\ Committed(o)
          /\ UNCHANGED <<mode, message, requests, op, announced, cache, polls, restarts>>
      BY <1>10, <2>2 DEF Report
    <3> QED
      BY <3>2, <3>3
  <2> QED
    BY <2>1, <2>2
<1>11. ASSUME NEW o \in Occupant, ReportAnnounced(o) PROVE TypeOK'
  BY <1>11 DEF ReportAnnounced
<1>12. ASSUME NEW p \in Poll, PollHits(p) PROVE TypeOK'
  BY <1>12 DEF PollHits
<1>13. ASSUME NEW p \in Poll, PollMisses(p) PROVE TypeOK'
  BY <1>13 DEF PollMisses
<1>14. ASSUME NEW p \in Poll, ReadBuilding(p) PROVE TypeOK'
  BY <1>14 DEF ReadBuilding
<1>15. ASSUME NEW p \in Poll, ReadEvent(p) PROVE TypeOK'
  BY <1>15 DEF ReadEvent
<1>16. ASSUME NEW p \in Poll, ReadFails(p) PROVE TypeOK'
  BY <1>16 DEF ReadFails
<1>17. CASE Restart
  BY <1>17 DEF Restart
<1>18. CASE UNCHANGED vars
  BY <1>18
<1> QED
  BY <1>1, <1>2, <1>3, <1>4, <1>5, <1>6, <1>7, <1>8, <1>9, <1>10, <1>11, <1>12,
     <1>13, <1>14, <1>15, <1>16, <1>17, <1>18 DEF Next

-----------------------------------------------------------------------------
(* The mode and its event *)

LEMMA ModeInit == Init => ActiveIffMode /\ Locking
  BY DEF Init, ActiveIffMode, Active, Locking, HoldsLock

LEMMA QuietMode == ActiveIffMode /\ UNCHANGED <<mode, events>> => ActiveIffMode'
  BY DEF ActiveIffMode, Active

(* Writes that leave the status of every event leave the active ones.      *)
LEMMA SameStatus ==
  ASSUME TypeOK, ActiveIffMode, mode' = mode, Len(events') = Len(events),
         \A e \in 1..Len(events) : events'[e].status = events[e].status
  PROVE  ActiveIffMode'
  BY DEF TypeOK, ActiveIffMode, Active

LEMMA ActiveStep == ModeInv /\ [Next]_vars => ActiveIffMode'
<1> SUFFICES ASSUME TypeOK, ActiveIffMode, Locking, [Next]_vars PROVE ActiveIffMode'
  BY DEF ModeInv
<1> Len(events) \in Nat
  BY DEF TypeOK
<1>1. ASSUME NEW a \in Admin, TriggerCommit(a) PROVE ActiveIffMode'
  <2>1. Active = {}
    BY <1>1 DEF TriggerCommit, Step, Locking, ActiveIffMode
  <2>2. /\ mode'
        /\ events' = Append(events, [status |-> "ACTIVE", message |-> message',
                                     scanned |-> 0])
        /\ events \in Seq(EventRow)
    BY <1>1 DEF TriggerCommit, TypeOK
  <2>3. /\ Len(events') = Len(events) + 1
        /\ \A e \in 1..Len(events) : events'[e] = events[e]
        /\ events'[Len(events) + 1].status = "ACTIVE"
    BY <2>2
  <2> QED
    BY <2>1, <2>2, <2>3 DEF ActiveIffMode, Active
<1>2. ASSUME NEW a \in Admin, AmendCommit(a) PROVE ActiveIffMode'
  <2>1. op[a].text \in Message \cup {NoMessage}
    BY DEF TypeOK, Op
  <2>2. \A e \in 1..Len(events) : [events[e] EXCEPT !.message = op[a].text].status = events[e].status
    BY <2>1, EventRows, RowUpdated
  <2>3. events' = [e \in 1..Len(events) |->
                     IF e \in Amended(a) THEN [events[e] EXCEPT !.message = op[a].text]
                                         ELSE events[e]]
    BY <1>2 DEF AmendCommit
  <2>4. \A e \in 1..Len(events) : events'[e].status = events[e].status
    BY <2>2, <2>3
  <2>5. \A e \in 1..Len(events) : events[e] \in EventRow /\ [events[e] EXCEPT !.message = op[a].text] \in EventRow
    BY <2>1, EventRows, RowUpdated
  <2>6. events' \in [1..Len(events) -> EventRow]
    BY <2>3, <2>5
  <2>7. Len(events') = Len(events) /\ mode' = mode
    BY <1>2, <2>6, RowsUpdated DEF AmendCommit
  <2> QED
    BY <2>4, <2>7, SameStatus
<1>3. ASSUME NEW a \in Admin, ResolveCommit(a) PROVE ActiveIffMode'
  <2>1. events' = [e \in 1..Len(events) |->
                     IF e \in Active THEN [events[e] EXCEPT !.status = "RESOLVED"]
                                     ELSE events[e]]
    BY <1>3 DEF ResolveCommit
  <2>2. \A e \in 1..Len(events) : /\ events[e] \in EventRow
                                  /\ [events[e] EXCEPT !.status = "RESOLVED"] \in EventRow
                                  /\ [events[e] EXCEPT !.status = "RESOLVED"].status = "RESOLVED"
    BY EventRows, RowUpdated
  <2>3. events' \in [1..Len(events) -> EventRow]
    BY <2>1, <2>2
  <2>4. Len(events') = Len(events) /\ ~ mode'
    BY <1>3, <2>3, RowsUpdated DEF ResolveCommit
  <2>5. \A e \in 1..Len(events) : events'[e].status # "ACTIVE"
    <3> TAKE e \in 1..Len(events)
    <3>1. CASE e \in Active
      BY <2>1, <2>2, <3>1
    <3>2. CASE e \notin Active
      BY <2>1, <3>2 DEF Active
    <3> QED
      BY <3>1, <3>2
  <2> QED
    BY <2>4, <2>5 DEF ActiveIffMode, Active
<1>4. ASSUME NEW o \in Occupant, Report(o) PROVE ActiveIffMode'
  <2>1. CASE Active = {}
    BY <1>4, <2>1, QuietMode DEF Report
  <2>2. CASE Active # {}
    <3>1. events' = [e \in 1..Len(events) |->
                       IF e \in Active THEN [events[e] EXCEPT !.scanned = @ + 1]
                                       ELSE events[e]]
      BY <1>4, <2>2 DEF Report
    <3>2. \A e \in 1..Len(events) : /\ events[e] \in EventRow
                                    /\ [events[e] EXCEPT !.scanned = @ + 1] \in EventRow
                                    /\ [events[e] EXCEPT !.scanned = @ + 1].status = events[e].status
      BY EventRows, RowUpdated
    <3>3. events' \in [1..Len(events) -> EventRow]
      BY <3>1, <3>2
    <3>4. Len(events') = Len(events) /\ mode' = mode
      BY <1>4, <3>3, RowsUpdated DEF Report
    <3>5. \A e \in 1..Len(events) : events'[e].status = events[e].status
      BY <3>1, <3>2
    <3> QED
      BY <3>4, <3>5, SameStatus
  <2> QED
    BY <2>1, <2>2
<1>5. ASSUME NEW a \in Admin,
             TriggerFlip(a) \/ FindExisting(a) \/ AmendBuilding(a) \/ ResolveFlip(a)
               \/ Rollback(a) \/ Announce(a)
      PROVE  ActiveIffMode'
  BY <1>5, QuietMode DEF TriggerFlip, FindExisting, AmendBuilding, ResolveFlip, Rollback,
                         Announce, database
<1>6. ASSUME NEW o \in Occupant, ReportAnnounced(o) PROVE ActiveIffMode'
  BY <1>6, QuietMode DEF ReportAnnounced, database
<1>7. ASSUME NEW p \in Poll,
             PollHits(p) \/ PollMisses(p) \/ ReadBuilding(p) \/ ReadEvent(p) \/ ReadFails(p)
      PROVE  ActiveIffMode'
  BY <1>7, QuietMode DEF PollHits, PollMisses, ReadBuilding, ReadEvent, ReadFails, database
<1>8. CASE Restart \/ UNCHANGED vars
  BY <1>8, QuietMode DEF Restart, vars, database
<1> QED
  BY <1>1, <1>2, <1>3, <1>4, <1>5, <1>6, <1>7, <1>8 DEF Next

LEMMA QuietLocking == Locking /\ UNCHANGED <<mode, lock, op, pc>> => Locking'
  BY DEF Locking, HoldsLock

LEMMA LockingStep == ModeInv /\ [Next]_vars => Locking'
<1> SUFFICES ASSUME TypeOK, Locking, [Next]_vars PROVE Locking'
  BY DEF ModeInv
<1> USE NobodyIsNone DEF TypeOK, Locking, HoldsLock, Step, database, requests
<1>1. ASSUME NEW a \in Admin, TriggerFlip(a) PROVE Locking'
  BY <1>1 DEF TriggerFlip
<1>2. ASSUME NEW a \in Admin, TriggerCommit(a) PROVE Locking'
  BY <1>2 DEF TriggerCommit
<1>3. ASSUME NEW a \in Admin, FindExisting(a) PROVE Locking'
  BY <1>3 DEF FindExisting
<1>4. ASSUME NEW a \in Admin, AmendBuilding(a) PROVE Locking'
  BY <1>4 DEF AmendBuilding
<1>5. ASSUME NEW a \in Admin, AmendCommit(a) PROVE Locking'
  BY <1>5 DEF AmendCommit
<1>6. ASSUME NEW a \in Admin, ResolveFlip(a) PROVE Locking'
  BY <1>6 DEF ResolveFlip
<1>7. ASSUME NEW a \in Admin, ResolveCommit(a) PROVE Locking'
  BY <1>7 DEF ResolveCommit
<1>8. ASSUME NEW a \in Admin, Rollback(a) PROVE Locking'
  BY <1>8 DEF Rollback
<1>9. ASSUME NEW a \in Admin, Announce(a) PROVE Locking'
  BY <1>9 DEF Announce
<1>10. ASSUME NEW o \in Occupant, Report(o) \/ ReportAnnounced(o) PROVE Locking'
  BY <1>10, QuietLocking DEF Report, ReportAnnounced
<1>11. ASSUME NEW p \in Poll,
              PollHits(p) \/ PollMisses(p) \/ ReadBuilding(p) \/ ReadEvent(p) \/ ReadFails(p)
       PROVE  Locking'
  BY <1>11, QuietLocking DEF PollHits, PollMisses, ReadBuilding, ReadEvent, ReadFails
<1>12. CASE Restart
  BY <1>12 DEF Restart
<1>13. CASE UNCHANGED vars
  BY <1>13, QuietLocking DEF vars
<1> QED
  BY <1>1, <1>2, <1>3, <1>4, <1>5, <1>6, <1>7, <1>8, <1>9, <1>10, <1>11, <1>12,
     <1>13 DEF Next

(* Types, mode and locks together are invariant.                           *)
THEOREM ModeInvariant == Spec => []ModeInv
<1>1. Init => ModeInv
  BY TypeInit, ModeInit DEF ModeInv
<1>2. ModeInv /\ [Next]_vars => ModeInv'
  BY TypeStep, ActiveStep, LockingStep DEF ModeInv
<1> QED
  BY <1>1, <1>2, PTL DEF Spec

(* The types of the emergency service.                                     *)
THEOREM TypeTheorem == Spec => []TypeOK
  BY ModeInvariant, PTL DEF ModeInv

(* Emergency mode and its one active event change together, whoever races. *)
THEOREM ModeTheorem == Spec => []ActiveIffMode
  BY ModeInvariant, PTL DEF ModeInv

-----------------------------------------------------------------------------
(* The last frame *)

LEMMA QuietAlarm ==
  Unannounced /\ UNCHANGED <<mode, requests, op, restarts>> => Unannounced'
  BY DEF Unannounced, requests

LEMMA UnannouncedStep == ModeInv /\ Unannounced /\ [Next]_vars => Unannounced'
<1> SUFFICES ASSUME TypeOK, Locking, Unannounced, [Next]_vars PROVE Unannounced'
  BY DEF ModeInv
<1> USE DEF TypeOK, Unannounced, Step, database
<1>1. ASSUME NEW a \in Admin, TriggerFlip(a) PROVE Unannounced'
  BY <1>1 DEF TriggerFlip
<1>2. ASSUME NEW a \in Admin, TriggerCommit(a) PROVE Unannounced'
  <2>1. op[a].kind = "trigger" /\ pc'[a] = "committed" /\ op' = op
    BY <1>2 DEF TriggerCommit, Locking
  <2>2. result'[a] # 0
    BY <1>2 DEF TriggerCommit
  <2>3. \A b \in Admin : pc'[b] = "committed" => b = a
    BY <1>2 DEF TriggerCommit, EarlierAnnounced
  <2> QED
    BY <2>1, <2>2, <2>3
<1>3. ASSUME NEW a \in Admin, FindExisting(a) PROVE Unannounced'
  BY <1>3 DEF FindExisting
<1>4. ASSUME NEW a \in Admin, AmendBuilding(a) PROVE Unannounced'
  BY <1>4 DEF AmendBuilding
<1>5. ASSUME NEW a \in Admin, AmendCommit(a) PROVE Unannounced'
  BY <1>5 DEF AmendCommit, Locking
<1>6. ASSUME NEW a \in Admin, ResolveFlip(a) PROVE Unannounced'
  BY <1>6 DEF ResolveFlip
<1>7. ASSUME NEW a \in Admin, ResolveCommit(a) PROVE Unannounced'
  <2>1. ~ mode'
    BY <1>7 DEF ResolveCommit
  <2> QED
    BY <2>1
<1>8. ASSUME NEW a \in Admin, Rollback(a) PROVE Unannounced'
  BY <1>8 DEF Rollback
<1>9. ASSUME NEW a \in Admin, Announce(a) PROVE Unannounced'
  <2>1. /\ pc' = [pc EXCEPT ![a] = "done"] /\ pc[a] \in {"committed", "returned"}
        /\ UNCHANGED <<mode, op, result, restarts>>
    BY <1>9 DEF Announce
  <2>2. CASE Ends(a)
    BY <2>1, <2>2 DEF Ends
  <2>3. CASE ~ Ends(a) /\ Starts(a)
    BY <1>9, <2>1, <2>3 DEF Announce
  <2>4. CASE ~ Ends(a) /\ ~ Starts(a)
    <3>1. frame' = frame
      BY <1>9, <2>4 DEF Announce
    <3> QED
      BY <2>1, <2>4, <3>1 DEF Starts
  <2> QED
    BY <2>2, <2>3, <2>4
<1>10. ASSUME NEW o \in Occupant, Report(o) \/ ReportAnnounced(o) PROVE Unannounced'
  BY <1>10, QuietAlarm DEF Report, ReportAnnounced
<1>11. ASSUME NEW p \in Poll,
              PollHits(p) \/ PollMisses(p) \/ ReadBuilding(p) \/ ReadEvent(p) \/ ReadFails(p)
       PROVE  Unannounced'
  BY <1>11, QuietAlarm DEF PollHits, PollMisses, ReadBuilding, ReadEvent, ReadFails
<1>12. CASE Restart
  <2>1. restarts' # 0
    BY <1>12 DEF Restart
  <2> QED
    BY <1>12, <2>1 DEF Restart
<1>13. CASE UNCHANGED vars
  BY <1>13, QuietAlarm DEF vars
<1> QED
  BY <1>1, <1>2, <1>3, <1>4, <1>5, <1>6, <1>7, <1>8, <1>9, <1>10, <1>11, <1>12,
     <1>13 DEF Next

(* While the process stays up, the occupants' last frame never tells them  *)
(* that an alarm has ended that is on when the requests are answered.      *)
THEOREM AlarmTheorem == Spec => []AlarmNeverSilenced
<1>1. Init => Unannounced
  BY DEF Init, Unannounced
<1>2. ModeInv /\ Unannounced /\ [Next]_vars => Unannounced'
  BY UnannouncedStep
<1>3. Unannounced => AlarmNeverSilenced
  BY DEF Unannounced, AlarmNeverSilenced, Settled
<1> QED
  BY <1>1, <1>2, <1>3, ModeInvariant, PTL DEF Spec

-----------------------------------------------------------------------------
(* The status cache *)

CacheInv == CacheFresh /\ FreshPolls

LEMMA QuietCache ==
  CacheInv /\ UNCHANGED <<announced, cache, polls>> => CacheInv'
  BY DEF CacheInv, CacheFresh, FreshPolls, HasRead, polls

(* A step of a requester either leaves the cache and what has been         *)
(* announced, or drops the entry.                                          *)
LEMMA DroppedCache ==
  CacheInv /\ cache' = Nobody /\ UNCHANGED polls => CacheInv'
  BY DEF CacheInv, CacheFresh, FreshPolls, HasRead, polls

LEMMA CacheStep == ModeInv /\ CacheInv /\ [Next]_vars => CacheInv'
<1> SUFFICES ASSUME TypeOK, CacheInv, [Next]_vars PROVE CacheInv'
  BY DEF ModeInv
<1>1. ASSUME NEW a \in Admin,
             TriggerFlip(a) \/ TriggerCommit(a) \/ FindExisting(a) \/ AmendBuilding(a)
               \/ AmendCommit(a) \/ ResolveFlip(a) \/ ResolveCommit(a) \/ Rollback(a)
      PROVE  CacheInv'
  <2>1. UNCHANGED <<announced, cache, polls>>
    BY <1>1 DEF TriggerFlip, TriggerCommit, FindExisting, AmendBuilding, AmendCommit,
                ResolveFlip, ResolveCommit, Rollback
  <2> QED
    BY <2>1, QuietCache
<1>2. ASSUME NEW a \in Admin, Announce(a) PROVE CacheInv'
  BY <1>2, DroppedCache DEF Announce
<1>3. ASSUME NEW o \in Occupant, Report(o) PROVE CacheInv'
  BY <1>3, QuietCache DEF Report
<1>4. ASSUME NEW o \in Occupant, ReportAnnounced(o) PROVE CacheInv'
  BY <1>4, DroppedCache DEF ReportAnnounced
<1> USE NobodyIsNone DEF TypeOK, CacheInv, CacheFresh, FreshPolls, HasRead
<1>5. ASSUME NEW p \in Poll, PollHits(p) PROVE CacheInv'
  BY <1>5 DEF PollHits
<1>6. ASSUME NEW p \in Poll, PollMisses(p) PROVE CacheInv'
  BY <1>6 DEF PollMisses
<1>7. ASSUME NEW p \in Poll, ReadBuilding(p) PROVE CacheInv'
  BY <1>7 DEF ReadBuilding
<1>8. ASSUME NEW p \in Poll, ReadEvent(p) PROVE CacheInv'
  BY <1>8 DEF ReadEvent
<1>9. ASSUME NEW p \in Poll, ReadFails(p) PROVE CacheInv'
  BY <1>9 DEF ReadFails
<1>10. CASE Restart
  BY <1>10 DEF Restart
<1>11. CASE UNCHANGED vars
  BY <1>11, QuietCache DEF vars
<1> QED
  BY <1>1, <1>2, <1>3, <1>4, <1>5, <1>6, <1>7, <1>8, <1>9, <1>10, <1>11 DEF Next

(* A poll that comes after an announcement is answered by a read that saw  *)
(* what was announced, whoever started that read.                          *)
THEOREM FreshTheorem == Spec => []FreshPolls
<1>1. Init => CacheInv
  BY DEF Init, CacheInv, CacheFresh, FreshPolls, HasRead
<1>2. ModeInv /\ CacheInv /\ [Next]_vars => CacheInv'
  BY CacheStep
<1>3. CacheInv => FreshPolls
  BY DEF CacheInv
<1> QED
  BY <1>1, <1>2, <1>3, ModeInvariant, PTL DEF Spec

-----------------------------------------------------------------------------
(* The incident log *)

(* An updateMany of the one active event.                                  *)
LEMMA UpdateOne ==
  ASSUME NEW S, NEW s \in Seq(S), NEW n \in 1..Len(s), NEW row
  PROVE  [e \in 1..Len(s) |-> IF e = n THEN row ELSE s[e]] = [s EXCEPT ![n] = row]
  OBVIOUS

(* Every step of the service is one step of the incident log or none.      *)
LEMMA IncidentStep ==
  ModeInv /\ [Next]_vars => Incidents!Next \/ UNCHANGED Incidents!vars
<1> SUFFICES ASSUME TypeOK, ActiveIffMode, Locking, [Next]_vars
             PROVE  Incidents!Next \/ UNCHANGED Incidents!vars
  BY DEF ModeInv
<1>0. /\ events \in Seq(EventRow) /\ Len(events) \in Nat /\ mode \in BOOLEAN
      /\ Active \subseteq 1..Len(events)
      /\ mode => Active = {Len(events)} /\ Len(events) \in 1..Len(events)
      /\ ~ mode => Active = {}
  <2>1. events \in Seq(EventRow) /\ Len(events) \in Nat /\ mode \in BOOLEAN
    BY DEF TypeOK
  <2> QED
    BY <2>1 DEF Active, ActiveIffMode
<1>1. ASSUME NEW a \in Admin, TriggerCommit(a) PROVE Incidents!Start
  <2>1. op[a].text \in Message \cup {NoMessage}
    BY DEF TypeOK, Op
  <2>2. ~ mode
    BY <1>1 DEF TriggerCommit, Step, Locking
  <2>3. message' \in Message \cup {message}
    BY <1>1, <2>1 DEF TriggerCommit
  <2> QED
    BY <1>1, <2>2, <2>3 DEF TriggerCommit, Incidents!Start
<1>2. ASSUME NEW a \in Admin, AmendCommit(a) PROVE Incidents!Amend
  <2>1. op[a].text \in Message
    BY <1>2 DEF TypeOK, Op, AmendCommit, Step, Locking
  <2>2. /\ message' = op[a].text /\ mode' = mode
        /\ events' = [e \in 1..Len(events) |->
                        IF e \in Active THEN [events[e] EXCEPT !.message = op[a].text]
                                        ELSE events[e]]
    BY <1>2 DEF AmendCommit, Amended
  <2>3. CASE mode
    <3> DEFINE row == [events[Len(events)] EXCEPT !.message = op[a].text]
    <3>1. events' = [e \in 1..Len(events) |-> IF e = Len(events) THEN row ELSE events[e]]
      BY <1>0, <2>2, <2>3
    <3>2. events' = [events EXCEPT ![Len(events)] = row]
      BY <1>0, <2>3, <3>1, UpdateOne
    <3> QED
      BY <2>1, <2>2, <2>3, <3>2 DEF Incidents!Amend
  <2>4. CASE ~ mode
    <3>1. events' = [e \in 1..Len(events) |-> events[e]]
      BY <1>0, <2>2, <2>4
    <3>2. events' = events
      BY <1>0, <3>1
    <3> QED
      BY <2>1, <2>2, <2>4, <3>2 DEF Incidents!Amend
  <2> QED
    BY <2>3, <2>4
<1>3. ASSUME NEW a \in Admin, ResolveCommit(a) PROVE Incidents!End
  <2>1. mode
    BY <1>3 DEF ResolveCommit, Step, Locking
  <2>2. /\ mode' = FALSE /\ message' = message
        /\ events' = [e \in 1..Len(events) |->
                        IF e \in Active THEN [events[e] EXCEPT !.status = "RESOLVED"]
                                        ELSE events[e]]
    BY <1>3 DEF ResolveCommit
  <2> DEFINE row == [events[Len(events)] EXCEPT !.status = "RESOLVED"]
  <2>3. events' = [e \in 1..Len(events) |-> IF e = Len(events) THEN row ELSE events[e]]
    BY <1>0, <2>1, <2>2
  <2>4. events' = [events EXCEPT ![Len(events)] = row]
    BY <1>0, <2>1, <2>3, UpdateOne
  <2> QED
    BY <2>1, <2>2, <2>4 DEF Incidents!End
<1>4. ASSUME NEW o \in Occupant, Report(o) PROVE Incidents!Report \/ UNCHANGED Incidents!vars
  <2>1. CASE Active = {}
    BY <1>4, <2>1 DEF Report, Incidents!vars
  <2>2. CASE Active # {}
    <3>1. mode
      BY <1>0, <2>2
    <3>2. /\ mode' = mode /\ message' = message
          /\ events' = [e \in 1..Len(events) |->
                          IF e \in Active THEN [events[e] EXCEPT !.scanned = @ + 1]
                                          ELSE events[e]]
      BY <1>4, <2>2 DEF Report
    <3> DEFINE row == [events[Len(events)] EXCEPT !.scanned = @ + 1]
    <3>3. events' = [e \in 1..Len(events) |-> IF e = Len(events) THEN row ELSE events[e]]
      BY <1>0, <3>1, <3>2
    <3>4. events' = [events EXCEPT ![Len(events)] = row]
      BY <1>0, <3>1, <3>3, UpdateOne
    <3> QED
      BY <3>1, <3>2, <3>4 DEF Incidents!Report
  <2> QED
    BY <2>1, <2>2
<1>5. ASSUME NEW a \in Admin,
             TriggerFlip(a) \/ FindExisting(a) \/ AmendBuilding(a) \/ ResolveFlip(a)
               \/ Rollback(a) \/ Announce(a)
      PROVE  UNCHANGED Incidents!vars
  BY <1>5 DEF TriggerFlip, FindExisting, AmendBuilding, ResolveFlip, Rollback, Announce,
              database, Incidents!vars
<1>6. ASSUME NEW o \in Occupant, ReportAnnounced(o) PROVE UNCHANGED Incidents!vars
  BY <1>6 DEF ReportAnnounced, database, Incidents!vars
<1>7. ASSUME NEW p \in Poll,
             PollHits(p) \/ PollMisses(p) \/ ReadBuilding(p) \/ ReadEvent(p) \/ ReadFails(p)
      PROVE  UNCHANGED Incidents!vars
  BY <1>7 DEF PollHits, PollMisses, ReadBuilding, ReadEvent, ReadFails, database,
              Incidents!vars
<1>8. CASE Restart \/ UNCHANGED vars
  BY <1>8 DEF Restart, vars, database, Incidents!vars
<1> QED
  BY <1>1, <1>2, <1>3, <1>4, <1>5, <1>6, <1>7, <1>8 DEF Next, Incidents!Next

(* The service implements the incident log: no race of requests, failure   *)
(* or restart changes a closed incident, or opens a second one.            *)
THEOREM Implementation == Spec => ImplementsIncidentLog
<1>1. Init => Incidents!Init
  BY DEF Init, Incidents!Init
<1>2. ModeInv /\ [Next]_vars => [Incidents!Next]_(Incidents!vars)
  BY IncidentStep
<1> QED
  BY <1>1, <1>2, ModeInvariant, PTL DEF Spec, ImplementsIncidentLog, Incidents!Spec

=============================================================================
