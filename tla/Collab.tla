------------------------------- MODULE Collab -------------------------------
(***************************************************************************)
(* The rooms of the collaborative editor (collab/collab.js): one socket    *)
(* per open editor tab, one room per building.                             *)
(*                                                                         *)
(* `editor:join` awaits the permission check and does the rest in one      *)
(* synchronous step.  While it waits the socket may ask to join again,     *)
(* leave or disconnect.                                                    *)
(***************************************************************************)
EXTENDS Naturals, Sequences, FiniteSets

CONSTANTS
  Socket,
  Building, NoRoom,
  CanEdit,       \* the pairs <<socket, building>> the permission check allows
  MaxRoomSize,   \* MAX_ROOM_SIZE
  Palette        \* number of CURSOR_COLORS

ASSUME SocketFinite == IsFiniteSet(Socket)
ASSUME NoRoomIsNone == NoRoom \notin Building
ASSUME SizesPositive == MaxRoomSize \in Nat \ {0} /\ Palette \in Nat \ {0}
ASSUME CanEditRelation == CanEdit \subseteq Socket \X Building

VARIABLES
  connected,  \* sockets that are connected
  gone,       \* sockets that have disconnected
  pending,    \* the joins of each socket whose permission check is under way
  rooms,      \* the sockets of each room (no entry: none)
  roomKey,    \* socket.data.roomKey
  color,      \* the colour of each socket's peer record, 1 being the first
  roster,     \* the peers in the last editor:presence sent to each socket
  crowded     \* rooms whose palette has run out since they were last empty

roomVars == <<connected, gone, pending, rooms, roomKey, color, roster, crowded>>

Colors == 1..Palette
NoColor == 0

RoomsInit ==
  /\ connected = {} /\ gone = {}
  /\ pending = [s \in Socket |-> {}]
  /\ rooms = [b \in Building |-> {}]
  /\ roomKey = [s \in Socket |-> NoRoom]
  /\ color = [s \in Socket |-> NoColor]
  /\ roster = [s \in Socket |-> {}]
  /\ crowded = {}

-----------------------------------------------------------------------------
Connect(s) ==
  /\ s \notin connected \cup gone
  /\ connected' = connected \cup {s}
  /\ UNCHANGED <<gone, pending, rooms, roomKey, color, roster, crowded>>

(* editor:join up to the await.                                            *)
Join(s, b) ==
  /\ s \in connected
  /\ pending' = [pending EXCEPT ![s] = @ \cup {b}]
  /\ UNCHANGED <<connected, gone, rooms, roomKey, color, roster, crowded>>

(* The rooms after leaveRoom(s), which deletes the peer of roomKey's room. *)
(* Mutant: roomKey is reset, the peer stays.                               *)
LeftKeepsPeer(s) == rooms
Left(s) == IF roomKey[s] = NoRoom THEN rooms
           ELSE [rooms EXCEPT ![roomKey[s]] = @ \ {s}]

Refused(s, b) ==
  /\ pending' = [pending EXCEPT ![s] = @ \ {b}]
  /\ UNCHANGED <<connected, gone, rooms, roomKey, color, roster, crowded>>

(* Mutant: the new peer is not counted.                                    *)
RoomFullLate(b) == Cardinality(rooms[b]) > MaxRoomSize
RoomFull(b) == Cardinality(rooms[b]) >= MaxRoomSize

(* pickColor, over the peers of the room: the first that is free, or the   *)
(* first.  Mutant: chosen by the number of peers.                          *)
PickedByCount(S) == (Cardinality(S) % Palette) + 1
Picked(S) ==
  LET free == Colors \ {color[t] : t \in S}
  IN  IF free = {} THEN 1 ELSE CHOOSE k \in free : \A l \in free : k <= l

(* editor:join after the await: refuse, or leave the old room and enter.   *)
(* A socket that has the last place of a full room is refused there too.   *)
JoinChecked(s, b) ==
  /\ b \in pending[s]
  /\ IF <<s, b>> \notin CanEdit \/ RoomFull(b)
     THEN Refused(s, b)
     ELSE LET left    == Left(s)
              entered == [left EXCEPT ![b] = @ \cup {s}]
          IN  /\ pending' = [pending EXCEPT ![s] = @ \ {b}]
              /\ rooms' = entered
              /\ roomKey' = [roomKey EXCEPT ![s] = b]
              /\ color' = [color EXCEPT ![s] = Picked(left[b])]
              /\ crowded' = {x \in crowded : left[x] # {}}
                              \cup (IF {color[t] : t \in left[b]} = Colors THEN {b} ELSE {})
              /\ roster' = [t \in Socket |->
                   IF t \in entered[b] THEN entered[b]
                   ELSE IF roomKey[s] # NoRoom /\ t \in left[roomKey[s]] THEN left[roomKey[s]]
                   ELSE roster[t]]
              /\ UNCHANGED <<connected, gone>>

(* leaveRoom, which does nothing without a room.                           *)
(* Mutant: the ones who stay are not told.                                 *)
LeavesSilently(s) ==
  /\ rooms' = Left(s)
  /\ roomKey' = [roomKey EXCEPT ![s] = NoRoom]
  /\ color' = [color EXCEPT ![s] = NoColor]
  /\ crowded' = {x \in crowded : Left(s)[x] # {}}
  /\ roster' = [roster EXCEPT ![s] = {}]
Leaves(s) ==
  /\ rooms' = Left(s)
  /\ roomKey' = [roomKey EXCEPT ![s] = NoRoom]
  /\ color' = [color EXCEPT ![s] = NoColor]
  /\ crowded' = {x \in crowded : Left(s)[x] # {}}
  /\ roster' = [t \in Socket |->
       IF t = s THEN {}
       ELSE IF roomKey[s] # NoRoom /\ t \in Left(s)[roomKey[s]] THEN Left(s)[roomKey[s]]
       ELSE roster[t]]

Leave(s) ==
  /\ s \in connected
  /\ Leaves(s)
  /\ UNCHANGED <<connected, gone, pending>>

(* A join that is waiting is not cancelled.                                *)
Disconnect(s) ==
  /\ s \in connected
  /\ connected' = connected \ {s} /\ gone' = gone \cup {s}
  /\ Leaves(s)
  /\ UNCHANGED pending

RoomsNext ==
  \E s \in Socket : \/ Connect(s) \/ Leave(s) \/ Disconnect(s)
                    \/ \E b \in Building : Join(s, b) \/ JoinChecked(s, b)

RoomsSpec == RoomsInit /\ [][RoomsNext]_roomVars

-----------------------------------------------------------------------------
(* Properties *)

RoomsTypeOK ==
  /\ connected \subseteq Socket /\ gone \subseteq Socket
  /\ pending \in [Socket -> SUBSET Building]
  /\ rooms \in [Building -> SUBSET Socket]
  /\ roomKey \in [Socket -> Building \cup {NoRoom}]
  /\ color \in [Socket -> Colors \cup {NoColor}]
  /\ \A b \in Building : \A s \in rooms[b] : color[s] \in Colors
  /\ roster \in [Socket -> SUBSET Socket]
  /\ crowded \subseteq Building

(* A socket is in the room its roomKey names and in no other, however many *)
(* joins it had under way and in whatever order they were allowed: the op  *)
(* and cursor relays use roomKey, presence uses the rooms.                 *)
OneRoom == \A s \in Socket, b \in Building : s \in rooms[b] <=> roomKey[s] = b

(* Rooms never exceed their size, although the check for a place and the   *)
(* permission check before it are of different moments.                    *)
RoomsBounded == \A b \in Building : Cardinality(rooms[b]) <= MaxRoomSize

(* "Two peers never share a color until the palette runs out", and after   *)
(* that they share only the first.                                         *)
ColorsDistinct ==
  \A b \in Building : \A s, t \in rooms[b] :
    s # t /\ color[s] = color[t] => b \in crowded /\ color[s] = 1

(* Every peer has been told of exactly the peers its room now has.         *)
PresenceCurrent ==
  \A b \in Building : \A s \in rooms[b] : roster[s] = rooms[b]

(* "presence: who is in the editor right now".  A socket that disconnects  *)
(* while its join awaits the permission check enters the room afterwards,  *)
(* and nothing takes it out.                                               *)
NoGhosts == \A b \in Building : rooms[b] \subseteq connected

=============================================================================
