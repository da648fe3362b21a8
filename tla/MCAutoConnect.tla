---------------------------- MODULE MCAutoConnect ----------------------------
EXTENDS Editor

CONSTANTS e1, r1

Spot(x) == [floor |-> 1, place |-> <<x, 0>>, type |-> "NORMAL", poi |-> FALSE]

\* A corridor: four nodes in a row, nothing wired.
Corridor ==
  [site |-> [status |-> "here", owned |-> 1, extra |-> 0], last |-> 5,
   floors |-> 1 :> [number |-> 1, name |-> 1, walls |-> {}],
   nodes |-> 2 :> Spot(0) @@ 3 :> Spot(1) @@ 4 :> Spot(2) @@ 5 :> Spot(3),
   edges |-> <<>>]
TheMaps == {Corridor}

TheChanges ==
  { [op |-> "autoConnect", floor |-> 1],
    [op |-> "node", node |-> 3, place |-> <<1, 1>>, type |-> ""] }
Costs == [STAIRS |-> 400, ESCALATOR |-> 350, ELEVATOR |-> 300, WALKWAY |-> 400]
=============================================================================
