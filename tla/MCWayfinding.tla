----------------------------- MODULE MCWayfinding -----------------------------
(* Four small buildings.  Tower has two floors joined by stairs, a lift and    *)
(* a fire escape, a one-way door, an unscaled floor and a staff passage; Annex  *)
(* has three exits, a lift rated for evacuations, an S-bend and a long         *)
(* corridor; Island has no exit, rooms on one line, for tours, and a room to   *)
(* go out to and back from in sight of the stairs; Cellar a room nobody can    *)
(* leave.  Any two requests follow each other, each under any of the closures. *)
EXTENDS Wayfinding, TLC

Unmeasured == -1
Dark == <<<<"dark">>>>

Node(floor, x, y, type, poi) ==
  [floor |-> floor, x |-> x, y |-> y, type |-> type, vis |-> "PUBLIC", poi |-> poi, code |-> 0]

Walkway(a, b, px) ==
  [src |-> a, dst |-> b, dir |-> "BOTH", transit |-> "WALKWAY", accessible |-> TRUE,
   vis |-> "PUBLIC", tags |-> {}, rank |-> "PRIMARY", px |-> px, weight |-> px,
   lengthM |-> NoLength]

Flight(a, b, transit, accessible) ==
  [Walkway(a, b, 0) EXCEPT !.transit = transit, !.accessible = accessible]

\* Walls on some floors leave in sight what is on one line along an axis.
Walls(floors, w) ==
  [rated |-> w.rated, scale |-> w.scale, node |-> w.node, edge |-> w.edge, drawn |-> floors,
   hidden |-> {p \in kSubset(2, DOMAIN w.node) : \A a, b \in p :
                 a # b => /\ w.node[a].floor = w.node[b].floor /\ w.node[a].floor \in floors
                          /\ w.node[a].x # w.node[b].x /\ w.node[a].y # w.node[b].y}]

Tower == Walls({0},
  [rated |-> FALSE,
   scale |-> [f \in {0, 1} |-> IF f = 0 THEN 3 ELSE 0],
   node |-> ("o" :> Node(0, 9, 12, "ROOM", 7)) @@ ("h" :> Node(0, 9, 0, "HALL", 1))
         @@ ("x" :> Node(0, 0, 0, "EMERGENCY_EXIT", 0))
         @@ ("y" :> Node(0, 27, 0, "EMERGENCY_EXIT", 0))
         @@ ("u" :> Node(1, 9, 12, "HALL", 0)) @@ ("v" :> Node(1, 27, 12, "ROOM", 2)),
   edge |-> (1 :> [Walkway("o", "h", 12) EXCEPT !.tags = {Dark}])
         @@ (2 :> [Walkway("h", "x", 9) EXCEPT !.dir = "FORWARD"])
         @@ (3 :> [Walkway("h", "y", 18) EXCEPT !.rank = "SECONDARY"])
         @@ (4 :> Flight("h", "u", "STAIRS", FALSE))
         @@ (5 :> Flight("o", "u", "ELEVATOR", TRUE))
         @@ (6 :> [Walkway("u", "v", 18) EXCEPT !.weight = 40, !.tags = {Dark}])
         @@ (7 :> [Flight("v", "y", "STAIRS", FALSE) EXCEPT !.vis = "EMERGENCY_ONLY"])
         @@ (8 :> [Flight("v", "x", "WALKWAY", TRUE) EXCEPT !.vis = "STAFF"])])

Annex == Walls({0},
  [rated |-> TRUE,
   scale |-> [f \in {0, 1} |-> IF f = 0 THEN 3 ELSE 1],
   node |-> ("o" :> Node(0, 9, 50, "ROOM", 1)) @@ ("h" :> Node(0, 9, 3, "EMERGENCY_EXIT", 0))
         @@ ("v" :> Node(0, 12, 3, "HALL", 3)) @@ ("x" :> Node(0, 12, 0, "EMERGENCY_EXIT", 0))
         @@ ("u" :> [Node(1, 9, 5, "EMERGENCY_EXIT", 0) EXCEPT !.code = 5]),
   edge |-> (1 :> [Walkway("o", "h", 47) EXCEPT !.tags = {Dark}])
         @@ (2 :> [Walkway("v", "h", 3) EXCEPT !.dir = "REVERSE", !.lengthM = 2])
         @@ (3 :> Walkway("v", "x", 3))
         @@ (4 :> Flight("o", "u", "ELEVATOR", TRUE))
         @@ (5 :> Flight("u", "v", "ESCALATOR", FALSE))
         @@ (6 :> Walkway("v", "gone", 3))])

Island == Walls({0, 1},
  [rated |-> FALSE, scale |-> [f \in {0, 1} |-> 1],
   node |-> ("o" :> Node(0, 20, 0, "ROOM", 1)) @@ ("h" :> Node(0, 30, 0, "ROOM", 2))
         @@ ("u" :> Node(0, 10, 0, "ROOM", 3)) @@ ("v" :> Node(0, 60, 0, "ROOM", 4))
         @@ ("x" :> Node(1, 60, 0, "ROOM", 5)) @@ ("w" :> Node(1, 64, 0, "ROOM", 0)),
   edge |-> (1 :> Walkway("o", "h", 10)) @@ (2 :> Walkway("u", "o", 10))
         @@ (3 :> Walkway("h", "v", 30)) @@ (4 :> Flight("v", "x", "STAIRS", FALSE))
         @@ (5 :> Walkway("x", "w", 4))])

Cellar == Walls({},
  [rated |-> FALSE, scale |-> [f \in {0} |-> 1],
   node |-> ("o" :> Node(0, 0, 0, "EMERGENCY_EXIT", 0)) @@ ("u" :> Node(0, 5, 0, "ROOM", 0)),
   edge |-> 1 :> [Walkway("o", "u", 5) EXCEPT !.dir = "FORWARD"]])

AllBuildings == {Tower, Annex, Island, Cellar}

Closure(edges, nodes, floor, times) ==
  [edges |-> edges, nodes |-> nodes, floor |-> floor, times |-> times]
Closed ==
  { {},
    {Closure({2}, {}, NoLength, 0), Closure({3}, {}, NoLength, 5)},
    {Closure({}, {"h", "o"}, NoLength, 0), Closure({}, {}, 1, 3)},
    {Closure({2, 3, 7}, {}, 1, 0), Closure({}, {"h"}, NoLength, 2)},
    {Closure({}, {}, 0, 0), Closure({}, {"x"}, NoLength, 0)} }

At(n) == [via |-> "node", key |-> n]
Poi(k) == [via |-> "poi", key |-> k]
Ext(k) == [via |-> "ext", key |-> k]
Ask(mode, name, from, to) ==
  [mode |-> mode, name |-> name, explicit |-> name # "emergency",
   include |-> <<>>, exclude |-> <<>>, heading |-> 4, from |-> from, to |-> to]
Asked ==
  { Ask("evacuate", "emergency", "o", <<>>),
    Ask("evacuate", "elevator_first", "u", <<>>),
    [Ask("evacuate", "wheelchair", "u", <<>>) EXCEPT !.exclude = <<Dark>>],
    [Ask("evacuate", "emergency", "u", <<>>) EXCEPT !.include = <<Dark>>],
    [Ask("route", "wheelchair", "o", <<At("x")>>) EXCEPT !.heading = 1, !.exclude = <<Dark>>],
    [Ask("route", "wheelchair", "o", <<Poi(2), At("x")>>) EXCEPT !.exclude = <<Dark>>],
    Ask("route", "min_floor_changes", "o", <<At("h"), At("u"), At("v")>>),
    Ask("route", "walk", "o", <<Poi(2), Poi(2), Poi(3)>>),
    Ask("route", "elevator_first", "h", <<At("v"), At("x"), At("v")>>),
    Ask("route", "walk", "o", <<At("h"), At("u"), At("v"), At("x")>>),
    Ask("route", "walk", "o", <<>>),
    Ask("route", "walk", "v", <<At("w"), At("v"), At("w")>>),
    Ask("route", "walk", "x", <<Ext(5)>>) }
=============================================================================
