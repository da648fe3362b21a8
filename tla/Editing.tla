------------------------------ MODULE Editing ------------------------------
(***************************************************************************)
(* Two things editors of one building do side by side: closing and opening   *)
(* its parts (Closures) and sitting in its collaborative room (Collab).       *)
(* Neither reads what the other writes, so a behaviour is of one of them.     *)
(***************************************************************************)
EXTENDS Closures, Collab

VARIABLE
  part   \* which of the two moves

editingVars == <<vars, roomVars, part>>

\* The other at rest.
NoRooms ==
  /\ connected = {} /\ gone = {} /\ pending = <<>> /\ rooms = [b \in Building |-> {}]
  /\ roomKey = [s \in Socket |-> NoRoom] /\ color = <<>> /\ roster = <<>> /\ crowded = {}
NoClosures ==
  /\ now = 0 /\ rows = [c \in Closure |-> None] /\ commits = <<>>
  /\ ask = [e \in Editor |-> CHOOSE q \in Request : TRUE] /\ pc = [e \in Editor |-> "done"]
  /\ current = <<>> /\ row = <<>> /\ at = <<>> /\ told = [c \in Closure |-> None]
  /\ announced = 0 /\ cache = Empty /\ route = [r \in Router |-> Idle] /\ raced = {}

EditingInit ==
  \/ part = "closures" /\ Init /\ NoRooms
  \/ part = "rooms" /\ RoomsInit /\ NoClosures

EditingNext ==
  /\ UNCHANGED part
  /\ \/ part = "closures" /\ Next /\ UNCHANGED roomVars
     \/ part = "rooms" /\ RoomsNext /\ UNCHANGED vars

EditingSpec == EditingInit /\ [][EditingNext]_editingVars

=============================================================================
