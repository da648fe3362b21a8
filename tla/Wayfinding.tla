----------------------------- MODULE Wayfinding -----------------------------
(***************************************************************************)
(* The planner together with what it tells the visitor.  Once a plan is      *)
(* found, its path is assembled into walks and flights, and each walk is put  *)
(* into words: simplified, its turns found, confirmations added, its length   *)
(* shared out.  The code does this before it looks for other exits; none of   *)
(* it reads or writes what the searches use, so here it comes last.          *)
(***************************************************************************)
EXTENDS Planning, Guidance

\* The tags of a request have none of the signs that a field's key puts between
\* them.
PlainTags(tags) ==
  LET words == {tags[i][1] : i \in DOMAIN tags} \ {<<c>> : c \in {"#", ",", "|"}}
  IN tags \in Seq({<<w>> : w \in words})
ASSUME WayfindingTags == \A qq \in Queries : PlainTags(qq.include) /\ PlainTags(qq.exclude)

VARIABLE route  \* the answer's route: its parts, and how far it is told

NoRoute == [stage |-> "none"]

allVars == <<vars, route>>

Answered == phase = "idle" /\ reply.status = 200
Told == route.stage = "told"
Relaxed == Flags(plan.rung)

WInit == Init /\ route = NoRoute

\* A new request, once the one before has been answered in full.
Request(qq, closures) ==
  /\ Answered => Told
  /\ Arrive(qq, closures)
  /\ route' = NoRoute

Search == Plan /\ UNCHANGED route

\* The legs of a tour, with the totals up to each of their stops.
Stops ==
  LET Part(i) == [walks |-> Segments(graph, plan.legs[i]), flights |-> Transitions(graph, plan.legs[i])]
      leg == [i \in DOMAIN plan.legs |-> Part(i)]
  IN [i \in DOMAIN plan.legs |->
        [node |-> plan.legs[i][Len(plan.legs[i])],
         metres |-> Sum([j \in 1 .. i |-> Metres(leg[j].walks)]),
         secs |-> Sum([j \in 1 .. i |-> Seconds(leg[j].walks, leg[j].flights)])]]

\* The path cut into its parts.
Assemble ==
  /\ Answered /\ route.stage = "none"
  /\ route' = [stage |-> "parts", walks |-> Segments(graph, plan.path),
                flights |-> Transitions(graph, plan.path),
                stops |-> IF Len(plan.legs) > 1 THEN Stops ELSE <<>>]
  /\ UNCHANGED vars

Measure ==
  LET steps == Steps(route.walks, route.flights)
  IN
  /\ route.stage = "parts"
  /\ route' = [stage |-> "walk", walks |-> route.walks, flights |-> route.flights,
                stops |-> route.stops, steps |-> steps,
                warnings |-> Warnings(graph, plan.path, route.walks, steps,
                               FilterAt(plan.rung).overlay, Wheelchair,
                               "accessibleRouteUnavailable" \in Relaxed),
                k |-> 1, points |-> <<>>, cum |-> <<>>, turns |-> <<>>, told |-> <<>>]
  /\ UNCHANGED vars

\* The k-th walk is closed: on to the next, or everything is told.
Close(said) ==
  route' = [route EXCEPT
    !.told = @ \o said \o <<Closing(route.walks, route.flights, route.k)>>,
    !.k = @ + 1, !.stage = IF route.k = Len(route.walks) THEN "told" ELSE "walk",
    !.points = <<>>, !.cum = <<>>, !.turns = <<>>]

\* A walk of one point has nothing to tell but what closes it.
Simplify ==
  /\ route.stage = "walk"
  /\ \E line \in {Distinct(graph, route.walks[route.k].points)} :
     \E points \in {SimplifiedPoints(graph, route.walks[route.k].floor, line)} :
       IF Len(points) < 2 THEN Close(<<>>)
       ELSE route' = [route EXCEPT !.stage = "turns", !.points = points,
                                   !.cum = Cumulative(graph, points)]
  /\ UNCHANGED vars

FindTurns ==
  /\ route.stage = "turns"
  /\ route' = [route EXCEPT !.stage = "marks",
       !.turns = Turns(graph, route.walks[route.k], route.points, route.cum)]
  /\ UNCHANGED vars

AddConfirmations ==
  /\ route.stage = "marks"
  /\ route' = [route EXCEPT !.stage = "share",
       !.turns = Marks(graph, route.walks[route.k], route.points, route.cum, route.turns,
                       plan.path[Len(plan.path)])]
  /\ UNCHANGED vars

Share ==
  /\ route.stage = "share"
  /\ Close(WalkInstructions(graph, route.walks[route.k], route.k, route.points, route.cum,
                            route.turns, q.heading))
  /\ UNCHANGED vars

Guide == Assemble \/ Measure \/ Simplify \/ FindTurns \/ AddConfirmations \/ Share

\* What the server does of itself, once a request has come.
Work == Search \/ Guide

WNext == Work \/ \E qq \in Queries, closures \in ClosureSets : Request(qq, closures)

WSpec == WInit /\ [][WNext]_allVars /\ WF_allVars(Work)

(***************************************************************************)
(* Reference definitions                                                    *)
(***************************************************************************)

\* The nodes that hops lead to from n.
Reachable(hops, n) ==
  LET seen[k \in 0 .. Cardinality(DOMAIN graph.node)] ==
        IF k = 0 THEN {n}
        ELSE LET s == seen[k - 1] IN s \cup {h.to : h \in {x \in hops : x.from \in s}}
  IN seen[Cardinality(DOMAIN graph.node)]

\* Closed for good reasons, read off the closures themselves.
ShutEdge(e) == \E c \in request.closures :
  /\ c.times = 0
  /\ \/ e \in c.edges
     \/ c.edges = {} /\ c.nodes = {} /\ e \in EdgesOnFloor(graph, c.floor)
ShutNode(n) == n # q.from /\ \E c \in request.closures : c.times = 0 /\ n \in c.nodes

\* Penalised: named, touching a node that is named, or on a penalised floor.
Slowed(e) == \E c \in request.closures :
  /\ c.times > 1
  /\ \/ e \in c.edges \cup EdgesTouching(graph, c.nodes)
     \/ c.edges = {} /\ c.nodes = {} /\ e \in EdgesOnFloor(graph, c.floor)

\* Hops lead nowhere the answer had to go: to no exit, or not along some leg
\* of the tour in the order chosen for it.
Barred(hops) ==
  IF Evacuating THEN Reachable(hops, q.from) \cap ExitsOf(graph) = {}
  ELSE \E i \in DOMAIN plan.legs :
         LET leg == plan.legs[i] IN leg[Len(leg)] \notin Reachable(hops, leg[1])

\* What nobody may be sent along in an emergency, closures aside.
OpenInEmergency(h) ==
  /\ VisibilityFilter(graph, "emergency", h)
  /\ graph.edge[h.edge].transit = "ELEVATOR" => graph.rated

\* The hop a path takes from its i-th node.
HopAt(p, i) == PathEdges(graph, p)[i]

(***************************************************************************)
(* Properties                                                               *)
(***************************************************************************)

\* A node is settled at the least cost it can be reached at under the rules
\* of the attempt that is running, forwards or, for a safety field, from the
\* exits backwards; a search that runs dry has settled all there is.
CheapestSettled ==
  phase \in {"search", "field", "unwind"} =>
    LET best == Cheapest(Usable, IF phase = "field" THEN ExitsOf(graph) ELSE {Source})
    IN /\ \A n \in settled : n \in DOMAIN best /\ dist[n] = best[n]
       /\ heap = {} /\ phase # "unwind" => settled = DOMAIN best

\* No route, and no other exit offered beside it, crosses an edge or enters a
\* node that is closed, unless it says that closures were ignored; and even
\* then an evacuation takes no lift that is not rated for it and nothing the
\* public may not see.
KeepsOut ==
  Answered =>
    \A p \in {plan.path} \cup plan.others : \A i \in 1 .. Len(p) - 1 :
      LET h == HopAt(p, i) IN
      /\ IF Evacuating THEN OpenInEmergency(h) ELSE VisibilityFilter(graph, q.name, h)
      /\ "closuresIgnored" \notin Relaxed => ~ShutEdge(h.edge) /\ ~ShutNode(h.to)

\* An evacuation that is told there is no way out really has none: no exit
\* can be reached even through closed parts, off the requested tags and over
\* stairs.
NobodyStranded ==
  (phase = "idle" /\ reply.status = 404 /\ Evacuating) =>
    Reachable({h \in graph.hops : OpenInEmergency(h)}, q.from) \cap ExitsOf(graph) = {}

\* The answer says exactly what was given up.  Without its flag a wish holds
\* on the whole route.  With it no route (of a tour: not every leg) keeps the
\* wish together with those ranked above it: tags rank below accessibility,
\* and that below the closures.  Each part that is not step-free, once that is
\* given up, and each that a closure penalises, is in the warnings.
FlagsHonest ==
  (Answered /\ Told) =>
    LET p == plan.path
        hops == {HopAt(p, i) : i \in 1 .. Len(p) - 1}
        asked == FilterAt(1)
        NoWay(filter) == Barred(Legal(graph, q, filter, ctx.profile))
    IN /\ "tagConstraintsRelaxed" \notin Relaxed => \A h \in hops : TagFilter(graph, q, h)
       /\ Wheelchair /\ "accessibleRouteUnavailable" \notin Relaxed =>
            \A h \in hops : graph.edge[h.edge].accessible
       /\ "tagConstraintsRelaxed" \in Relaxed => NoWay(asked)
       /\ "accessibleRouteUnavailable" \in Relaxed => NoWay([asked EXCEPT !.tags = FALSE])
       /\ "closuresIgnored" \in Relaxed => NoWay([asked EXCEPT !.tags = FALSE, !.access = FALSE])
       /\ "accessibleRouteUnavailable" \in Relaxed =>
            \A h \in hops : ~graph.edge[h.edge].accessible =>
              \E w \in route.warnings :
                /\ w.code = "INACCESSIBLE_STEP"
                /\ LET s == route.steps[w.at].step
                   IN IF s.kind = "walk" THEN h \in Range(route.walks[s.index].hops)
                      ELSE h = route.flights[s.index].hop
       /\ \A i \in 1 .. Len(p) - 1 :
            (Slowed(HopAt(p, i).edge) /\ ~ShutEdge(HopAt(p, i).edge)) =>
              [code |-> "CLOSURE_ON_ROUTE", at |-> i] \in route.warnings

\* The instructions tell the whole route once: their distances and times add
\* up to the totals beside them, each floor change is announced once and in
\* its place, every walk has an instruction, and the last one is the arrival.
\* Only a walk that ends where it began, out and back to a stop that was
\* smoothed away, may have its metres and seconds untold.
GuidanceAddsUp ==
  Told =>
    LET ins == route.told
        walks == route.walks
        floors == Len(walks) - 1
        Ends(k) == {graph.node[walks[k].nodes[1]], graph.node[walks[k].nodes[Len(walks[k].nodes)]]}
        back == {k \in DOMAIN walks : \A a, b \in Ends(k) : Pixels(a, b) = 0}
        Spoken(untold) == [k \in DOMAIN walks |->
          IF k \in untold THEN [walks[k] EXCEPT !.metres = 0, !.secs = 0] ELSE walks[k]]
    IN /\ \E untold \in SUBSET back :
            /\ Sum([i \in DOMAIN ins |-> ins[i].metres]) = Metres(Spoken(untold))
            /\ Sum([i \in DOMAIN ins |-> ins[i].secs]) = Seconds(Spoken(untold), route.flights)
       /\ \A i \in DOMAIN ins : ins[i].metres >= 0 /\ ins[i].secs >= 0
       /\ {i \in DOMAIN ins : ins[i].kind = "arrive"} = {Len(ins)}
       /\ Cardinality({i \in DOMAIN ins : ins[i].kind = "transit"}) = floors
       /\ {ins[i].segment : i \in DOMAIN ins} = 1 .. floors + 1
       /\ \A i \in 2 .. Len(ins) : ins[i].segment =
            ins[i - 1].segment + (IF ins[i - 1].kind = "transit" THEN 1 ELSE 0)

\* Ordering the stops of a tour keeps the start first and every stop in, and
\* whatever 2-opt has done so far, the tour is no longer than the nearest-
\* neighbour tour it began with.
TourNeverLonger ==
  phase = "order" =>
    LET Length(s) == Sum([k \in 1 .. Len(s) - 1 |-> LegCost(s[k], s[k + 1])])
    IN /\ tour[1] = 1 /\ Range(tour) = 1 .. Len(ctx.stops) + 1
       /\ Length(tour) <= Length(NearestNeighborOrder(graph, q, ctx.stops))

\* Every request is answered, its route told to the end: 2-opt stops
\* improving, every search runs dry or reaches its target, and the ladder of
\* attempts ends.
EveryRequestAnswered == (phase # "idle") ~> (phase = "idle" /\ (reply.status = 200 => Told))

=============================================================================
