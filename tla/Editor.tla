------------------------------- MODULE Editor -------------------------------
(***************************************************************************)
(* A building's map while several editors change it and routes read it:     *)
(* routes/buildings/buildings.js, routes/nodes.js, the map editor's routes, *)
(* edgeService.js and the graph cache (wayfinding/graphCache.js).            *)
(*                                                                          *)
(* A request is a task of an editor.  It moves one query or transaction at a *)
(* time, so that others come between, and may fail at any of them.  Lengths  *)
(* are squared distances.  A row's audit entry is written in its transaction  *)
(* and is not modelled; nor are names, labels, images, codes and scales.     *)
(***************************************************************************)
EXTENDS AutoConnect, Functions

CONSTANTS
  Editor, Reader,   \* requests that change the map, and that need its graph
  Maps,             \* what the building may be to begin with
  Changes,          \* what an editor may ask for
  MaxChanges,       \* how often
  MaxFloors,        \* the owner's plan: floorLimitFor
  MaxBuildings,     \* and buildingLimitFor
  TransitCost       \* DEFAULT_TRANSIT_COST

ASSUME EditorLimits == MaxChanges \in Nat /\ MaxFloors \in Nat /\ MaxBuildings \in Nat

\* To begin with a building is within its plan, its edges join nodes it has and
\* are as long as these are apart.
ASSUME EditorMaps ==
  \A m \in Maps :
    /\ m.site = [status |-> m.site.status, owned |-> m.site.owned, extra |-> m.site.extra]
    /\ m.site.owned \in Nat /\ m.site.extra \in Nat /\ m.site.owned - m.site.extra <= MaxBuildings
    /\ IsFiniteSet(DOMAIN m.floors) /\ Cardinality(DOMAIN m.floors) <= MaxFloors
    /\ m.last \in Nat /\ DOMAIN m.nodes \subseteq 1 .. m.last /\ IsFiniteSet(DOMAIN m.edges)
    /\ \A n \in DOMAIN m.nodes : {"floor", "place", "type", "poi"} \subseteq DOMAIN m.nodes[n]
    /\ \A p \in DOMAIN m.edges :
         LET a == m.nodes[p[1]]
             b == m.nodes[p[2]]
         IN /\ {p[1], p[2]} \subseteq DOMAIN m.nodes
            /\ {"id", "length", "weight", "transit", "late"} \subseteq DOMAIN m.edges[p]
            /\ ~m.edges[p].late
            /\ m.edges[p].length = IF a.floor # b.floor THEN 0 ELSE Square(a.place, b.place)

\* Every request names its operation, a new building its floors in their order.
ASSUME EditorChanges ==
  \A c \in Changes : "op" \in DOMAIN c /\ (c.op = "new" => c.names \in Seq(ToSet(c.names)))

VARIABLES
  site,        \* the building: "planned", "here", "gone" or, with its owner, "orphaned"; how
               \* many the owner has, and how many of them no count saw coming
  floors,      \* id -> [number, name, walls]
  nodes,       \* id -> [floor, place, type, poi]
  edges,       \* <<id, id>> -> [id, length, weight, transit, late]; late: written off the mark
  last,        \* the last id given out
  uncounted,   \* floors that no count of the plan's limit saw coming
  edit,        \* what each editor's request has come to
  changes,     \* how many were asked for
  graph,       \* the cached graph: "none", "current" or "stale"
  reading,     \* the graph each reader is loading, or "idle"
  missed       \* no invalidation was to follow the change that made the cached graph stale: its
               \* request failed first, its handler has none, or the graph was loaded too early

rows == <<site, floors, nodes, edges, last, uncounted>>
cache == <<graph, reading, missed>>
mapVars == <<rows, cache, edit, changes>>

Here == site.status = "here"

(***************************************************************************)
(* Tasks                                                                    *)
(***************************************************************************)

\* What f says, and g where f says nothing; one row more.
Over(f, g) == [x \in DOMAIN f \cup DOMAIN g |-> IF x \in DOMAIN f THEN f[x] ELSE g[x]]
Adding(f, x, row) == [y \in DOMAIN f \cup {x} |-> IF y \in DOMAIN f THEN f[y] ELSE row]

Rest == [step |-> "rest", dirty |-> FALSE]

Doing(e, op, step) == edit[e].step = step /\ edit[e].want.op \in op

\* On to the next step, remembering more.
On(e, step, more) == edit' = [edit EXCEPT ![e] = Over(more, [@ EXCEPT !.step = step])]

\* What is cached, and what is being loaded, is no longer the map.
Outdate ==
  /\ graph' = IF graph = "current" THEN "stale" ELSE graph
  /\ reading' = [r \in Reader |-> IF reading[r] = "current" THEN "stale" ELSE reading[r]]
  /\ UNCHANGED <<missed, changes>>

Commit(e, step, more) == On(e, step, Over([dirty |-> TRUE], more)) /\ Outdate

Advance(e, step, more) == On(e, step, more) /\ UNCHANGED <<rows, cache, changes>>

\* The length two nodes' edge should have, and whether it has it.
Span(p) ==
  LET a == nodes[p[1]]
      b == nodes[p[2]]
  IN IF a.floor # b.floor THEN 0 ELSE Square(a.place, b.place)
Wrong(p) == edges[p].length # Span(p)

Moving(t) == t.dirty /\ t.want.op \in {"node", "putNode"}

\* A request ends where it stands, in an error or because its handler has no
\* more to do: nothing is undone, nobody is told.
Stop(e) ==
  /\ edit' = [edit EXCEPT ![e] = Rest]
  /\ missed' = (missed \/ (edit[e].dirty /\ graph = "stale"))
  /\ edges' = [p \in DOMAIN edges |->
       IF Moving(edit[e]) /\ edit[e].want.node \in {p[1], p[2]} /\ Wrong(p)
       THEN [edges[p] EXCEPT !.late = TRUE] ELSE edges[p]]
  /\ UNCHANGED <<site, floors, nodes, last, uncounted, changes, graph, reading>>

Abandon(e) == edit[e] # Rest /\ Stop(e)

\* The last call of a handler that changed the map; (mutant) one forgets it.
ClearedButLinks(c) == IF c.op = "link" THEN graph ELSE "none"
Cleared(c) == "none"

Invalidate(e) ==
  /\ edit[e].step = "invalidate"
  /\ graph' = Cleared(edit[e].want)
  /\ missed' = FALSE
  /\ edit' = [edit EXCEPT ![e] = Rest]
  /\ UNCHANGED <<rows, reading, changes>>

(***************************************************************************)
(* The graph cache                                                          *)
(***************************************************************************)

Miss(r) ==
  /\ Here /\ reading[r] = "idle" /\ graph = "none"
  /\ reading' = [reading EXCEPT ![r] = "current"]
  /\ UNCHANGED <<rows, graph, missed, edit, changes>>

\* Validation drops the cached graph first.
Validate(r) ==
  /\ Here /\ reading[r] = "idle" /\ graph # "none"
  /\ graph' = "none" /\ missed' = FALSE
  /\ reading' = [reading EXCEPT ![r] = "current"]
  /\ UNCHANGED <<rows, edit, changes>>

Store(r) ==
  /\ reading[r] # "idle"
  /\ graph' = reading[r]
  /\ missed' = (reading[r] = "stale")
  /\ reading' = [reading EXCEPT ![r] = "idle"]
  /\ UNCHANGED <<rows, edit, changes>>

\* A minute is over, or other buildings took the place.
Evict ==
  /\ graph # "none"
  /\ graph' = "none" /\ missed' = FALSE
  /\ UNCHANGED <<rows, reading, edit, changes>>

(***************************************************************************)
(* Asking: what is read first, and what is refused                          *)
(***************************************************************************)

FloorAt(n) == {f \in DOMAIN floors : floors[f].number = n}
NodesOn(f) == {n \in DOMAIN nodes : nodes[n].floor = f}
Touching(n) == {p \in DOMAIN edges : n \in {p[1], p[2]}}
Both(pair) == {pair[1], pair[2]}

\* The plan's limit; (mutant) off by one.
FullLate(count) == count > MaxFloors
Full(count) == count >= MaxFloors

\* What each route refuses before it writes anything.
LacksRow(c) ==
  \/ c.op \in {"renumber", "dropFloor", "autoConnect", "addNode"} /\ c.floor \notin DOMAIN floors
  \/ c.op \in {"node", "putNode", "dropNode", "poi", "dropPoi"} /\ c.node \notin DOMAIN nodes
  \/ c.op \in {"edge", "dropEdge"} /\ c.pair \notin DOMAIN edges
  \/ c.op \in {"dropAt", "post", "replace", "profile", "dropBuilding", "erase"} /\ ~Here
RefusesFloor(c) == c.op = "floor" /\ (~Here \/ Full(Cardinality(DOMAIN floors)))
RefusesBuilding(c) ==
  c.op = "new" /\ (site.status = "orphaned" \/ site.owned >= MaxBuildings \/ Len(c.names) > MaxFloors)
RefusesEdge(c) == c.op = "connect" /\ ~(Both(c.pair) \subseteq DOMAIN nodes)
RefusesLink(c) ==
  c.op = "link" /\ (\/ ~(Both(c.pair) \subseteq DOMAIN nodes)
                    \/ nodes[c.pair[1]].floor = nodes[c.pair[2]].floor)
RefusesJoin(c) ==
  c.op = "join" /\ (c.pair[1] = c.pair[2] \/ ~(Both(c.pair) \subseteq DOMAIN nodes))

Refuses(c) ==
  LacksRow(c) \/ RefusesFloor(c) \/ RefusesBuilding(c) \/ RefusesEdge(c) \/ RefusesLink(c) \/ RefusesJoin(c)

\* The floor that carries a name; of two, the later.
Named(name) == {f \in DOMAIN floors : floors[f].name = name}
Matched(names) ==
  [i \in DOMAIN names |-> IF Named(names[i]) = {} THEN 0 ELSE Max(Named(names[i]))]

Seen(c) ==
  CASE c.op = "floor" -> Cardinality(DOMAIN floors)
    [] c.op = "new" -> site.owned
    [] c.op \in {"post", "dropAt"} -> FloorAt(c.number)
    [] c.op = "replace" -> Matched(c.names)
    [] c.op = "autoConnect" -> [n \in NodesOn(c.floor) |-> nodes[n].place]
    [] c.op \in {"poi", "dropPoi"} -> nodes[c.node].type
    [] c.op \in {"edge", "dropEdge"} ->
         [edge |-> edges[c.pair], length |-> Span(c.pair),
          crossing |-> nodes[c.pair[1]].floor # nodes[c.pair[2]].floor]
    [] OTHER -> 0

FirstStep(c) ==
  CASE c.op = "autoConnect" -> "plan"
    [] c.op \in {"connect", "link", "join"} -> "take"
    [] c.op = "post" /\ FloorAt(c.number) = {} -> "floorFor"
    [] OTHER -> "write"

Receive(e) ==
  /\ edit[e] = Rest /\ changes < MaxChanges
  /\ changes' = changes + 1
  /\ \E c \in Changes :
       edit' = [edit EXCEPT ![e] =
         IF Refuses(c) THEN Rest
         ELSE [step |-> FirstStep(c), dirty |-> FALSE, want |-> c, seen |-> Seen(c),
               pairs |-> IF c.op \in {"connect", "link", "join"} THEN <<c.pair>> ELSE <<>>,
               cuts |-> <<>>, left |-> <<>>]]
  /\ UNCHANGED <<rows, cache>>

(***************************************************************************)
(* Buildings and floors                                                     *)
(***************************************************************************)

NewFloor(number, name) == [number |-> number, name |-> name, walls |-> {}]

\* A row for a floor, if the building is there and the number free.
CanAdd(number) == Here /\ FloorAt(number) = {}
AddFloor(number, name, counted) ==
  /\ last' = last + 1
  /\ floors' = Adding(floors, last', NewFloor(number, name))
  /\ uncounted' = IF counted THEN uncounted ELSE uncounted \cup {last'}
  /\ UNCHANGED <<site, nodes, edges>>

\* The floors that stay; what is on the others goes with them.
KeepFloors(kept) ==
  LET stays == {n \in DOMAIN nodes : nodes[n].floor \in kept}
  IN /\ floors' = Restrict(floors, kept)
     /\ nodes' = Restrict(nodes, stays)
     /\ edges' = Restrict(edges, {p \in DOMAIN edges : Both(p) \subseteq stays})

\* POST /api/building/new: the building with its roles, unless its owner is gone
\* by now, then floor by floor; nothing is invalidated.  Only the first building
\* is followed from there.
Found(e) ==
  /\ site' = [site EXCEPT !.status = IF @ = "planned" THEN "here" ELSE @, !.owned = @ + 1,
                          !.extra = IF site.owned > edit[e].seen THEN @ + 1 ELSE @]
  /\ IF site.status = "planned" THEN On(e, "stack", [left |-> edit[e].want.names])
                                ELSE edit' = [edit EXCEPT ![e] = Rest]
  /\ UNCHANGED <<floors, nodes, edges, last, uncounted, cache, changes>>

CreateBuilding(e) ==
  Doing(e, {"new"}, "write") /\ IF site.status = "orphaned" THEN Stop(e) ELSE Found(e)

StackFloor(e) ==
  LET left == edit[e].left
      number == Len(edit[e].want.names) - Len(left) + 1
  IN /\ edit[e].step = "stack"
     /\ IF left = <<>> \/ ~CanAdd(number) THEN Stop(e)
        ELSE /\ AddFloor(number, Head(left), Cardinality(DOMAIN floors) < number)
             /\ Commit(e, "stack", [left |-> Tail(left)])

CreateFloor(e) ==
  LET c == edit[e].want
  IN /\ Doing(e, {"floor"}, "write")
     /\ IF CanAdd(c.number)
        THEN /\ AddFloor(c.number, c.number, Cardinality(DOMAIN floors) <= edit[e].seen)
             /\ Commit(e, "invalidate", <<>>)
        ELSE Stop(e)

PatchFloor(e) ==
  LET c == edit[e].want
  IN /\ Doing(e, {"renumber"}, "write")
     /\ IF c.floor \in DOMAIN floors /\ FloorAt(c.number) \subseteq {c.floor}
        THEN /\ floors' = [floors EXCEPT ![c.floor].number = c.number]
             /\ Commit(e, "invalidate", <<>>)
             /\ UNCHANGED <<site, nodes, edges, last, uncounted>>
        ELSE Stop(e)

DeleteFloor(e) ==
  LET c == edit[e].want
  IN /\ Doing(e, {"dropFloor"}, "write")
     /\ IF c.floor \in DOMAIN floors
        THEN /\ KeepFloors(DOMAIN floors \ {c.floor})
             /\ Commit(e, "invalidate", <<>>)
             /\ UNCHANGED <<site, last, uncounted>>
        ELSE Stop(e)

\* The legacy route names the floor by its number, and is content if there is none.
DeleteFloorAt(e) ==
  /\ Doing(e, {"dropAt"}, "write")
  /\ IF edit[e].seen # {} /\ edit[e].seen \subseteq DOMAIN floors
     THEN /\ KeepFloors(DOMAIN floors \ edit[e].seen)
          /\ Commit(e, "invalidate", <<>>)
          /\ UNCHANGED <<site, last, uncounted>>
     ELSE Stop(e)

DeleteBuilding(e) ==
  /\ Doing(e, {"dropBuilding"}, "write")
  /\ IF Here
     THEN /\ site' = [site EXCEPT !.status = "gone", !.owned = @ - 1]
          /\ KeepFloors({})
          /\ Commit(e, "invalidate", <<>>)
          /\ UNCHANGED <<last, uncounted>>
     ELSE Stop(e)

\* Buildings also go without a word to the cache: an administrator deletes one
\* (admin.js), or the owner's account goes with all of them (settings.js, admin.js).
EraseBuilding(e) ==
  LET all == edit[e].want.op = "eraseOwner"
  IN /\ Doing(e, {"erase", "eraseOwner"}, "write")
     /\ IF Here \/ all
        THEN /\ site' = [site EXCEPT !.status = IF all THEN "orphaned" ELSE "gone",
                                     !.owned = IF all THEN 0 ELSE @ - 1]
             /\ KeepFloors({})
             /\ Commit(e, "end", <<>>)
             /\ UNCHANGED <<last, uncounted>>
        ELSE Stop(e)

SaveProfile(e) ==
  /\ Doing(e, {"profile"}, "write")
  /\ IF Here THEN Commit(e, "invalidate", <<>>) /\ UNCHANGED rows ELSE Stop(e)

\* PUT /api/building/:id, 1: floors that are not named any more go.
DropUnnamed(e) ==
  LET plan == edit[e].seen
  IN /\ Doing(e, {"replace"}, "write")
     /\ KeepFloors(DOMAIN floors \cap ToSet(plan))
     /\ Commit(e, "park", <<>>)
     /\ UNCHANGED <<site, last, uncounted>>

\* 2: those that stay are parked at negative numbers, one after the other, all or
\* none.  A floor is gone, or its number is taken by one that is not parked yet.
CannotPark(plan, i) ==
  plan[i] # 0 /\ (\/ plan[i] \notin DOMAIN floors
                  \/ \E f \in DOMAIN floors \ {plan[j] : j \in 1 .. i} : floors[f].number = -i)

\* The names asked for differ, so that none is parked twice.
Parked(plan) ==
  [f \in DOMAIN floors |-> IF f \in ToSet(plan)
                           THEN [floors[f] EXCEPT !.number = -Max({i \in DOMAIN plan : plan[i] = f})]
                           ELSE floors[f]]

ParkFloors(e) ==
  LET plan == edit[e].seen
  IN /\ Doing(e, {"replace"}, "park")
     /\ IF \E i \in DOMAIN plan : CannotPark(plan, i) THEN Stop(e)
        ELSE /\ floors' = Parked(plan)
             /\ Commit(e, "fill", [left |-> SelectSeq([i \in DOMAIN plan |-> i], LAMBDA i : plan[i] = 0)])
             /\ UNCHANGED <<site, nodes, edges, last, uncounted>>

\* 3: the new ones are created there.  Nothing counts them.
FillFloor(e) ==
  LET t == edit[e]
      i == Head(t.left)
  IN /\ Doing(e, {"replace"}, "fill")
     /\ IF t.left = <<>> THEN Advance(e, "settle", [left |-> [j \in DOMAIN t.seen |-> j]])
        ELSE IF CanAdd(-i)
             THEN /\ AddFloor(-i, t.want.names[i], FALSE)
                  /\ Commit(e, "fill", [left |-> Tail(t.left), seen |-> [t.seen EXCEPT ![i] = last']])
             ELSE Stop(e)

\* 4: each gets its number.
SettleFloor(e) ==
  LET t == edit[e]
      i == Head(t.left)
  IN /\ Doing(e, {"replace"}, "settle")
     /\ IF t.left = <<>> THEN (IF Here THEN Advance(e, "invalidate", <<>>) ELSE Stop(e))
        ELSE IF t.seen[i] \in DOMAIN floors /\ FloorAt(i) \subseteq {t.seen[i]}
             THEN /\ floors' = [floors EXCEPT ![t.seen[i]].number = i]
                  /\ Commit(e, "settle", [left |-> Tail(t.left)])
                  /\ UNCHANGED <<site, nodes, edges, last, uncounted>>
             ELSE Stop(e)

(***************************************************************************)
(* Nodes                                                                    *)
(***************************************************************************)

\* The legacy route makes a floor for the node if there is none (floorFor).
FloorFor(e) ==
  LET c == edit[e].want
  IN /\ Doing(e, {"post"}, "floorFor")
     /\ IF CanAdd(c.number)
        THEN /\ AddFloor(c.number, c.number, FALSE)
             /\ Commit(e, "write", [seen |-> {last'}])
        ELSE Stop(e)

AddNode(floor, place) ==
  /\ last' = last + 1
  /\ nodes' = Adding(nodes, last', [floor |-> floor, place |-> place, type |-> "NORMAL", poi |-> FALSE])
  /\ UNCHANGED <<site, floors, edges, uncounted>>

CreateNode(e) ==
  LET c == edit[e].want
  IN /\ Doing(e, {"addNode"}, "write")
     /\ IF c.floor \in DOMAIN floors
        THEN AddNode(c.floor, c.place) /\ Commit(e, "invalidate", <<>>)
        ELSE Stop(e)

\* The legacy route goes on to wire the new node.
PostNode(e) ==
  LET c == edit[e].want
      pairs == [i \in DOMAIN c.links |-> <<last + 1, c.links[i]>>]
  IN /\ Doing(e, {"post"}, "write")
     /\ IF edit[e].seen \subseteq DOMAIN floors
        THEN /\ \E f \in edit[e].seen : AddNode(f, c.place)
             /\ Commit(e, IF pairs = <<>> THEN "invalidate" ELSE "take", [pairs |-> pairs])
        ELSE Stop(e)

\* What is left to do when a node and its edges are saved.
AfterMove(c) == IF c.op = "putNode" /\ c.linked THEN "diff" ELSE "invalidate"

UpdateNode(e) ==
  LET c == edit[e].want
      moved == c.place # <<>>
  IN IF c.node \in DOMAIN nodes
     THEN /\ nodes' = [nodes EXCEPT ![c.node].place = IF moved THEN c.place ELSE @,
                                    ![c.node].type = IF c.type = "" THEN @ ELSE c.type]
          /\ Commit(e, IF moved THEN "place" ELSE AfterMove(c), <<>>)
          /\ UNCHANGED <<site, floors, edges, last, uncounted>>
     ELSE Stop(e)

PatchNode(e) == Doing(e, {"node"}, "write") /\ UpdateNode(e)
PutNode(e) == Doing(e, {"putNode"}, "write") /\ UpdateNode(e)

\* recomputeEdgesForNode: the node, its edges, and for each the other end and the length.
ReadPlace(e) ==
  LET c == edit[e].want
  IN /\ Doing(e, {"node", "putNode"}, "place")
     /\ IF c.node \in DOMAIN nodes THEN Advance(e, "edges", [seen |-> nodes[c.node]])
                                   ELSE Advance(e, AfterMove(c), <<>>)

\* (mutant) only the edges that start at the node.
TouchedFrom(n) == {p \in DOMAIN edges : p[1] = n}
Touched(n) == Touching(n)

NextEdge(e, left) ==
  On(e, IF left = <<>> THEN AfterMove(edit[e].want) ELSE "other", [left |-> left])

ReadEdges(e) ==
  LET left == SetToSeq({[pair |-> p, edge |-> edges[p]] : p \in Touched(edit[e].want.node)})
  IN /\ Doing(e, {"node", "putNode"}, "edges")
     /\ NextEdge(e, left)
     /\ UNCHANGED <<rows, cache, changes>>

OtherEnd(pair, n) == IF pair[1] = n THEN pair[2] ELSE pair[1]

ReadOther(e) ==
  LET t == edit[e]
      other == OtherEnd(Head(t.left).pair, t.want.node)
  IN /\ Doing(e, {"node", "putNode"}, "other")
     /\ IF other \in DOMAIN nodes /\ nodes[other].floor = t.seen.floor
        THEN On(e, "length", [length |-> Square(t.seen.place, nodes[other].place)])
        ELSE NextEdge(e, Tail(t.left))
     /\ UNCHANGED <<rows, cache, changes>>

SaveLength(e) ==
  LET t == edit[e]
      p == Head(t.left).pair
      was == Head(t.left).edge
  IN /\ Doing(e, {"node", "putNode"}, "length")
     /\ IF p \in DOMAIN edges /\ edges[p].id = was.id
        THEN /\ edges' = [edges EXCEPT ![p].length = t.length, ![p].late = t.length # Span(p),
                                       ![p].weight = IF was.weight = was.length THEN t.length ELSE @]
             /\ NextEdge(e, Tail(t.left))
             /\ Outdate
             /\ UNCHANGED <<site, floors, nodes, last, uncounted>>
        ELSE Stop(e)

DeleteNode(e) ==
  LET n == edit[e].want.node
  IN /\ Doing(e, {"dropNode"}, "write")
     /\ IF n \in DOMAIN nodes
        THEN /\ nodes' = Restrict(nodes, DOMAIN nodes \ {n})
             /\ edges' = Restrict(edges, DOMAIN edges \ Touching(n))
             /\ Commit(e, "invalidate", <<>>)
             /\ UNCHANGED <<site, floors, last, uncounted>>
        ELSE Stop(e)

\* The node's type follows, unless the type read before already said so.
SavePoi(e) ==
  LET n == edit[e].want.node
  IN /\ Doing(e, {"poi"}, "write")
     /\ IF n \in DOMAIN nodes
        THEN /\ nodes' = [nodes EXCEPT ![n].poi = TRUE,
                                       ![n].type = IF edit[e].seen = "POI" THEN @ ELSE "POI"]
             /\ Commit(e, "invalidate", <<>>)
             /\ UNCHANGED <<site, floors, edges, last, uncounted>>
        ELSE Stop(e)

\* A node that is gone fails only the change of its type.
RemovePoi(e) ==
  LET n == edit[e].want.node
      was == edit[e].seen
  IN /\ Doing(e, {"dropPoi"}, "write")
     /\ IF n \in DOMAIN nodes
        THEN /\ nodes' = [nodes EXCEPT ![n].poi = FALSE,
                                       ![n].type = IF was = "POI" THEN "NORMAL" ELSE @]
             /\ Commit(e, "invalidate", <<>>)
             /\ UNCHANGED <<site, floors, edges, last, uncounted>>
        ELSE IF was = "POI" THEN Stop(e) ELSE Advance(e, "invalidate", <<>>)

(***************************************************************************)
(* Edges                                                                    *)
(***************************************************************************)

NormalizePair(a, b) == IF a < b THEN <<a, b>> ELSE <<b, a>>

\* computeEdgeGeometry, with the transit it is for; the weight is 0 if none is given.
Geometry(a, b, transit, weight) ==
  LET crossing == a.floor # b.floor
      length == IF crossing THEN 0 ELSE Square(a.place, b.place)
  IN [length |-> length, transit |-> transit,
      weight |-> IF weight # 0 THEN weight ELSE IF crossing THEN TransitCost[transit] ELSE length]

\* Auto-connect: the nodes were read with the request, the edges are read now.
Plan(e) ==
  LET c == edit[e].want
      place == edit[e].seen
      walls == IF c.floor \in DOMAIN floors THEN floors[c.floor].walls ELSE {}
      known == {p \in DOMAIN edges : Both(p) \subseteq DOMAIN place}
      pairs == PlanAutoConnect(place, known, walls)
  IN /\ Doing(e, {"autoConnect"}, "plan")
     /\ Advance(e, IF pairs = <<>> THEN "invalidate" ELSE "take", [pairs |-> pairs])

\* Whether a pair that cannot be wired is passed over.
Lenient(c) == c.op \in {"autoConnect", "post", "putNode"}

\* The legacy routes infer stairs between floors.
Transit(c, crossing) ==
  IF c.op \in {"connect", "link"} THEN c.transit
  ELSE IF crossing /\ c.op # "autoConnect" THEN "STAIRS" ELSE "WALKWAY"

NextPair(t) ==
  IF Len(t.pairs) > 1 THEN "take" ELSE IF t.cuts # <<>> THEN "cut" ELSE "invalidate"

PassOver(e) ==
  IF Lenient(edit[e].want) THEN Advance(e, NextPair(edit[e]), [pairs |-> Tail(edit[e].pairs)])
                           ELSE Stop(e)

\* createEdge: both ends are read, then the row is written.
TakeEnds(e) ==
  LET t == edit[e]
      pair == Head(t.pairs)
      a == nodes[pair[1]]
      b == nodes[pair[2]]
      transit == Transit(t.want, a.floor # b.floor)
      weight == IF t.want.op = "connect" THEN t.want.weight ELSE 0
  IN /\ t.step = "take"
     /\ IF /\ Both(pair) \subseteq DOMAIN nodes /\ pair[1] # pair[2]
           /\ ~(transit = "WALKWAY" /\ a.floor # b.floor)
        THEN Advance(e, "insert", [seen |-> Geometry(a, b, transit, weight)])
        ELSE PassOver(e)

InsertEdge(e) ==
  LET t == edit[e]
      p == NormalizePair(Head(t.pairs)[1], Head(t.pairs)[2])
  IN /\ t.step = "insert"
     /\ IF p \notin DOMAIN edges /\ Both(p) \subseteq DOMAIN nodes
        THEN /\ last' = last + 1
             /\ edges' = Adding(edges, p, Over([id |-> last', late |-> t.seen.length # Span(p)], t.seen))
             /\ Commit(e, NextPair(t), [pairs |-> Tail(t.pairs)])
             /\ UNCHANGED <<site, floors, nodes, uncounted>>
        ELSE PassOver(e)

\* The legacy PUT: the neighbours asked for against the neighbours there are.
\* A list that is none answers 400, when the node is saved already.
Diff(e) ==
  LET c == edit[e].want
      before == {OtherEnd(p, c.node) : p \in Touching(c.node)}
      after == ToSet(c.links) \cap DOMAIN nodes
      Pairs(s) == [i \in 1 .. Cardinality(s) |-> <<c.node, SetToSeq(s)[i]>>]
      t == [edit[e] EXCEPT !.pairs = <<>>, !.cuts = Pairs(before \ after)]
  IN /\ Doing(e, {"putNode"}, "diff")
     /\ IF ~c.listed THEN Stop(e)
        ELSE Advance(e, IF after \subseteq before THEN NextPair(t) ELSE "take",
               [pairs |-> Pairs(after \ before), cuts |-> t.cuts])

CutLink(e) ==
  LET t == edit[e]
      p == NormalizePair(Head(t.cuts)[1], Head(t.cuts)[2])
  IN /\ t.step = "cut"
     /\ On(e, IF Len(t.cuts) > 1 THEN "cut" ELSE "invalidate", [cuts |-> Tail(t.cuts)])
     /\ edges' = Restrict(edges, DOMAIN edges \ {p})
     /\ IF p \in DOMAIN edges THEN Outdate ELSE UNCHANGED <<cache, changes>>
     /\ UNCHANGED <<site, floors, nodes, last, uncounted>>

\* The weight of a patched edge: given, reset to what tracks, or the new default.
PatchedWeight(c, was, crossing, length) ==
  LET transit == IF c.transit = "" THEN was.transit ELSE c.transit
      Default(k) == IF crossing THEN TransitCost[k] ELSE length
  IN CASE c.weight = "reset" -> Default(transit)
       [] c.weight = "given" -> c.value
       [] c.weight = "kept" /\ c.transit # "" /\ crossing /\ was.weight = Default(was.transit) ->
            Default(c.transit)
       [] OTHER -> 0

PatchEdge(e) ==
  LET t == edit[e]
      c == t.want
      weight == PatchedWeight(c, t.seen.edge, t.seen.crossing, t.seen.length)
  IN /\ Doing(e, {"edge"}, "write")
     /\ IF c.pair \in DOMAIN edges /\ edges[c.pair].id = t.seen.edge.id
        THEN /\ edges' = [edges EXCEPT ![c.pair].weight = IF weight = 0 THEN @ ELSE weight,
                                       ![c.pair].transit = IF c.transit = "" THEN @ ELSE c.transit]
             /\ Commit(e, "invalidate", <<>>)
             /\ UNCHANGED <<site, floors, nodes, last, uncounted>>
        ELSE Stop(e)

DeleteEdge(e) ==
  LET t == edit[e]
      p == t.want.pair
  IN /\ Doing(e, {"dropEdge"}, "write")
     /\ IF p \in DOMAIN edges /\ edges[p].id = t.seen.edge.id
        THEN /\ edges' = Restrict(edges, DOMAIN edges \ {p})
             /\ Commit(e, "invalidate", <<>>)
             /\ UNCHANGED <<site, floors, nodes, last, uncounted>>
        ELSE Stop(e)

(***************************************************************************)
(* The specification                                                        *)
(***************************************************************************)

MapInit ==
  /\ \E m \in Maps :
       /\ site = m.site /\ floors = m.floors /\ nodes = m.nodes /\ edges = m.edges /\ last = m.last
  /\ uncounted = {}
  /\ edit = [e \in Editor |-> Rest] /\ changes = 0
  /\ graph = "none" /\ reading = [r \in Reader |-> "idle"] /\ missed = FALSE

EditorStep(e) ==
  \/ Receive(e) \/ Abandon(e) \/ Invalidate(e)
  \/ CreateBuilding(e) \/ StackFloor(e) \/ DeleteBuilding(e) \/ EraseBuilding(e) \/ SaveProfile(e)
  \/ CreateFloor(e) \/ PatchFloor(e) \/ DeleteFloor(e) \/ DeleteFloorAt(e)
  \/ DropUnnamed(e) \/ ParkFloors(e) \/ FillFloor(e) \/ SettleFloor(e)
  \/ CreateNode(e) \/ PatchNode(e) \/ DeleteNode(e) \/ SavePoi(e) \/ RemovePoi(e)
  \/ FloorFor(e) \/ PostNode(e) \/ PutNode(e)
  \/ ReadPlace(e) \/ ReadEdges(e) \/ ReadOther(e) \/ SaveLength(e)
  \/ Plan(e) \/ TakeEnds(e) \/ InsertEdge(e) \/ Diff(e) \/ CutLink(e)
  \/ PatchEdge(e) \/ DeleteEdge(e)

MapNext ==
  \/ \E e \in Editor : EditorStep(e)
  \/ \E r \in Reader : Miss(r) \/ Validate(r) \/ Store(r)
  \/ Evict

EditorSpec == MapInit /\ [][MapNext]_mapVars

(***************************************************************************)
(* Properties                                                               *)
(***************************************************************************)

\* An edge between two nodes of a floor is as long as they are apart, unless
\* one of them has just moved and its edges are still being recomputed, or the
\* length was written by a request that had read a place which was left by then
\* (or one that failed half way).  No order of moving, wiring and cutting loses
\* an edge that nobody is about to set right.
LengthsTrackPositions ==
  \A p \in DOMAIN edges :
    \/ ~Wrong(p) \/ edges[p].late
    \/ \E e \in Editor :
         /\ Moving(edit[e]) /\ edit[e].want.node \in {p[1], p[2]}
         /\ edit[e].step \in {"place", "edges", "other", "length"}

\* Routes are computed on an out-of-date graph only while a request that changed
\* the map is still under way; when one ended before it came to the invalidation,
\* in an error or because its handler has none (a building created floor by floor,
\* or erased by an administrator or with its owner's account); or when a load that
\* began before a change was stored after it.  Every other change of the map
\* reaches the next route.
StaleGraphExplained ==
  graph = "stale" => missed \/ \E e \in Editor : edit[e].dirty

\* A building and its owner stay within the plan but for the floors and
\* buildings that no count saw: those of a legacy node or a replaced building,
\* and those that were created between another's count and its create.
WithinPlan ==
  /\ Cardinality(DOMAIN floors \ uncounted) <= MaxFloors
  /\ site.owned - site.extra <= MaxBuildings

\* What the route promises of auto-connect: "Idempotent - running it twice creates
\* nothing new".  Once a run has wired all it planned, on a floor nobody else is
\* editing, planning again finds nothing.  It does not hold: the shortcuts a node
\* may have are counted within one plan, so every run may add some.
AutoConnectIdempotent ==
  \A e \in Editor :
    Doing(e, {"autoConnect"}, "invalidate") /\ (\A d \in Editor \ {e} : edit[d] = Rest) =>
      LET f == edit[e].want.floor
          known == {p \in DOMAIN edges : Both(p) \subseteq NodesOn(f)}
      IN f \in DOMAIN floors =>
           PlanAutoConnect([n \in NodesOn(f) |-> nodes[n].place], known, floors[f].walls) = <<>>

=============================================================================
