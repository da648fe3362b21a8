------------------------------ MODULE Routing ------------------------------
(***************************************************************************)
(* What a route is searched over: the graph built from the rows of one      *)
(* building (graphService.js), the seconds an edge costs under a profile     *)
(* (costModel.js), what a profile may see (profiles.js), and what the        *)
(* closures in force block or penalise (closures.js).  No state here: every  *)
(* operator is a function of the rows, the closures and the query.           *)
(*                                                                         *)
(* A building's rows are a record [node, edge, scale, drawn, hidden, rated]: *)
(*   node[n]  [floor, x, y, type, vis, poi, code]                           *)
(*            (poi: the number that names its POI, code: externalId; else 0) *)
(*   edge[e]  [src, dst, dir, transit, accessible, vis, tags, rank,          *)
(*             px, weight, lengthM]             (lengthM: NoLength or metres)*)
(*   scale[f] pixels per metre of floor f, 0 when the floor has none        *)
(*   drawn    the floors whose drawing has walls                            *)
(*   hidden   the pairs of nodes {a, b} with a wall between them            *)
(*   rated    routingProfile.elevatorEvacuationRated                        *)
(* A floor is known by its level (verticalOrder, else floorNumber): an        *)
(* abstraction, two floors of one level being one here.                      *)
(* Durations are counted in half seconds, so that the 1.5 of a SECONDARY     *)
(* edge stays a whole number.                                               *)
(***************************************************************************)
EXTENDS Integers, FiniteSets, FiniteSetsExt, SequencesExt

CONSTANTS
  NoLength,          \* an edge row without a surveyed length
  AssumedScale,      \* ASSUMED_PIXELS_PER_METER
  StairsPerFloor,    \* half seconds of stairs per floor
  EscalatorEntry,    \* half seconds to step on an escalator ...
  EscalatorPerFloor, \* ... and to ride it one floor
  LiftWait,          \* half seconds waiting for a lift ...
  LiftPerFloor,      \* ... and riding it one floor
  ChangePenalty,     \* floorChangePenaltySec of min_floor_changes
  LastResort         \* LAST_RESORT_CLOSURE_PENALTY

ASSUME RoutingCosts ==
  /\ AssumedScale \in Nat \ {0} /\ LastResort \in Nat \ {0}
  /\ \A c \in {StairsPerFloor, EscalatorEntry, EscalatorPerFloor, LiftWait,
               LiftPerFloor, ChangePenalty} : c \in Nat /\ c % 2 = 0

ProfileNames == {"walk", "wheelchair", "elevator_first", "min_floor_changes", "emergency"}

(***************************************************************************)
(* The graph                                                                *)
(***************************************************************************)

\* The length of an edge in metres.  A surveyed length wins; else the pixels
\* of the drawing (the weight when someone changed it by hand) over the scale
\* of the floor, one being assumed where none is known; a flight has none.
Assumed(w, r) ==
  /\ r.lengthM = NoLength
  /\ w.node[r.src].floor = w.node[r.dst].floor
  /\ w.scale[w.node[r.src].floor] <= 0

LengthM(w, r) ==
  LET scale == IF Assumed(w, r) THEN AssumedScale ELSE w.scale[w.node[r.src].floor]
      pixels == IF r.weight # r.px THEN r.weight ELSE r.px
  IN CASE r.lengthM # NoLength -> r.lengthM
       [] r.lengthM = NoLength /\ w.node[r.src].floor # w.node[r.dst].floor -> 0
       [] OTHER -> pixels \div scale

\* The rows as a graph: edges whose two nodes were both read, each as one hop
\* per direction it may be walked.
LoadBuildingGraph(w) ==
  LET whole == {e \in DOMAIN w.edge :
                  {w.edge[e].src, w.edge[e].dst} \subseteq DOMAIN w.node}
      ahead == {e \in whole : w.edge[e].dir \in {"BOTH", "FORWARD"}}
      back  == {e \in whole : w.edge[e].dir \in {"BOTH", "REVERSE"}}
  IN [node  |-> w.node, scale |-> w.scale, rated |-> w.rated,
      drawn |-> w.drawn, hidden |-> w.hidden,
      edge  |-> [e \in whole |-> w.edge[e]],
      hops  |-> {[edge |-> e, from |-> w.edge[e].src, to |-> w.edge[e].dst] : e \in ahead}
         \cup {[edge |-> e, from |-> w.edge[e].dst, to |-> w.edge[e].src] : e \in back}]

ExitsOf(g) == {n \in DOMAIN g.node : g.node[n].type = "EMERGENCY_EXIT"}

CrossFloor(g, h) == g.node[h.from].floor # g.node[h.to].floor

(***************************************************************************)
(* What an edge costs                                                       *)
(***************************************************************************)

\* A named profile: what it requires, multiplies, blocks and penalises.
ResolveProfile(g, name) ==
  [name    |-> name,
   access  |-> name = "wheelchair",
   times   |-> [t \in {"WALKWAY", "STAIRS", "ESCALATOR", "ELEVATOR"} |->
                  CASE name = "elevator_first" /\ t = "STAIRS" -> 3
                    [] name = "elevator_first" /\ t = "ESCALATOR" -> 2
                    [] OTHER -> 1],
   penalty |-> IF name = "min_floor_changes" THEN ChangePenalty ELSE 0,
   blocked |-> IF name = "emergency" /\ ~g.rated THEN {"ELEVATOR"} ELSE {}]

FloorDelta(g, h) ==
  LET d == g.node[h.from].floor - g.node[h.to].floor
  IN Max({1, d, -d})

\* A WALKWAY that changes floor is a flight of stairs nobody typed as one.
PricedAs(g, h) ==
  LET t == g.edge[h.edge].transit
  IN IF t = "WALKWAY" /\ CrossFloor(g, h) THEN "STAIRS" ELSE t

\* Half seconds to take hop h, without what only steers the search.
BareDuration(g, h) ==
  CASE PricedAs(g, h) = "STAIRS"    -> StairsPerFloor * FloorDelta(g, h)
    [] PricedAs(g, h) = "ESCALATOR" -> EscalatorEntry + EscalatorPerFloor * FloorDelta(g, h)
    [] PricedAs(g, h) = "ELEVATOR"  -> LiftWait + LiftPerFloor * FloorDelta(g, h)
    [] OTHER                        -> 2 * LengthM(g, g.edge[h.edge])

EdgeDuration(g, p, h) ==
  (BareDuration(g, h) + (IF CrossFloor(g, h) THEN p.penalty ELSE 0))
    * p.times[PricedAs(g, h)]

\* An infinite cost forbids the edge.
Forbidden(g, p, h) == g.edge[h.edge].transit \in p.blocked

\* The cost of a hop: its duration, half as much again on a SECONDARY edge,
\* times the penalty of the closures on it.
CostFn(g, p, overlay, h) ==
  overlay.times[h.edge] *
  ((EdgeDuration(g, p, h) * (IF g.edge[h.edge].rank = "SECONDARY" THEN 3 ELSE 2)) \div 2)

(***************************************************************************)
(* What the closures block or penalise.  A closure is a record             *)
(* [edges, nodes, floor, times], times 0 for a block; floor NoLength unless  *)
(* it closes a whole floor.                                                 *)
(***************************************************************************)

EdgesOnFloor(g, f) ==
  {e \in DOMAIN g.edge : /\ g.node[g.edge[e].src].floor = f
                         /\ g.node[g.edge[e].dst].floor = f}

EdgesTouching(g, N) == {e \in DOMAIN g.edge : {g.edge[e].src, g.edge[e].dst} \cap N # {}}

\* Named edges and nodes come before the floor.
ScopeOf(g, c) ==
  IF c.edges # {} \/ c.nodes # {}
  THEN [edges |-> c.edges \cap DOMAIN g.edge, nodes |-> c.nodes \cap DOMAIN g.node]
  ELSE [edges |-> EdgesOnFloor(g, c.floor), nodes |-> {}]

\* The entries of the fingerprint, in the order they are sorted into.
Fingerprint(times, slowed, shutEdges, shutNodes) ==
  SetToSeq({<<"m", e, times[e]>> : e \in slowed} \cup {<<"e", e>> : e \in shutEdges}
           \cup {<<"n", n>> : n \in shutNodes})

\* Blocks first; a penalty never touches what is blocked, and penalties on
\* one edge compound.  print is the fingerprint.
BuildOverlay(g, closures) ==
  LET blocking   == {c \in closures : c.times = 0}
      penalizing == closures \ blocking
      shutEdges  == UNION {ScopeOf(g, c).edges : c \in blocking}
      shutNodes  == UNION {ScopeOf(g, c).nodes : c \in blocking}
      On(e)      == {c \in penalizing :
                       e \in ScopeOf(g, c).edges \cup EdgesTouching(g, ScopeOf(g, c).nodes)}
      times      == [e \in DOMAIN g.edge |->
                       IF e \in shutEdges THEN 1 ELSE MapThenFoldSet(LAMBDA a, b : a * b, 1,
                            LAMBDA c : c.times, LAMBDA S : CHOOSE c \in S : TRUE, On(e))]
  IN [times |-> times, edges |-> shutEdges, nodes |-> shutNodes,
      print |-> Fingerprint(times, {e \in DOMAIN g.edge \ shutEdges : On(e) # {}},
                            shutEdges, shutNodes)]

\* The traveller's own node is never closed to the traveller; the fingerprint
\* stays the building's.
OverlayForOrigin(overlay, origin) == [overlay EXCEPT !.nodes = @ \ {origin}]

\* (mutant) closed nodes stay closed.
SoftenOverlayEdges(g, overlay) ==
  LET times == [e \in DOMAIN g.edge |->
                  overlay.times[e] * (IF e \in overlay.edges THEN LastResort ELSE 1)]
  IN [times |-> times, edges |-> {}, nodes |-> overlay.nodes, print |-> overlay.print]

\* Every block turned into a heavy penalty, a closed node into one on each
\* edge that touches it.
SoftenOverlay(g, overlay) ==
  LET touched == EdgesTouching(g, overlay.nodes)
      Heavier(e) == (IF e \in overlay.edges THEN LastResort ELSE 1)
                  * (IF e \in touched THEN LastResort ELSE 1)
      times == [e \in DOMAIN g.edge |-> overlay.times[e] * Heavier(e)]
  IN [times |-> times, edges |-> {}, nodes |-> {}, print |-> overlay.print]

(***************************************************************************)
(* What a search may take.  A filter is a record [name, overlay, tags,       *)
(* include, exclude, access].                                               *)
(***************************************************************************)

\* The public audience: staff-only parts are never shown, emergency ones only
\* under the emergency profile.
VisibilityAllowed(vis, name) ==
  vis = "PUBLIC" \/ (vis = "EMERGENCY_ONLY" /\ name = "emergency")

VisibilityFilter(g, name, h) ==
  /\ VisibilityAllowed(g.edge[h.edge].vis, name)
  /\ VisibilityAllowed(g.node[h.to].vis, name)

TagFilter(g, q, h) ==
  LET tags == g.edge[h.edge].tags
  IN /\ tags \cap Range(q.exclude) = {}
     /\ q.include # <<>> => tags \cap Range(q.include) # {}

OverlayFilter(overlay, h) ==
  /\ h.edge \notin overlay.edges
  /\ {h.from, h.to} \cap overlay.nodes = {}

Passes(g, q, f, h) ==
  /\ VisibilityFilter(g, f.name, h)
  /\ OverlayFilter(f.overlay, h)
  /\ f.tags => TagFilter(g, q, h)
  /\ f.access => g.edge[h.edge].accessible

\* The hops a search under filter f and profile p may take.
Legal(g, q, f, p) == {h \in g.hops : Passes(g, q, f, h) /\ ~Forbidden(g, p, h)}

=============================================================================
