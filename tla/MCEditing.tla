----------------------------- MODULE MCEditing ------------------------------
(***************************************************************************)
(* Closures: one closure, in place or about to be created, two editors who    *)
(* race, and two route requests around every moment of it.  Rooms: of three    *)
(* at most, a palette of two, and one socket that may edit only one of the      *)
(* two buildings.                                                              *)
(***************************************************************************)
EXTENDS Editing, TLC

CONSTANTS Guest, Restricted

Ask(k, d) == [kind |-> k, id |-> CHOOSE c \in Closure : TRUE, data |-> d]
Requests ==
  { Ask("create", [startsAt |-> 1, endsAt |-> 3, scope |-> {"ids"}]),
    Ask("patch", [endsAt |-> Never] @@ [scope |-> {"floor"}]),
    Ask("patch", [f \in {"startsAt"} |-> 2]),
    Ask("delete", <<>>) }

Allowed == (Socket \X Building) \ {<<Guest, Restricted>>}

Symmetric == Permutations(Editor) \cup Permutations(Router)
             \cup Permutations(Socket \ {Guest}) \cup Permutations(Building \ {Restricted})
=============================================================================
