------------------------------ MODULE Guidance ------------------------------
(***************************************************************************)
(* What the visitor is told about a path: routeAssembler.js cuts it at the   *)
(* floor changes, measures it and lists what to warn about; smoothing.js and *)
(* instructions.js turn each part into instructions.                        *)
(*                                                                         *)
(* Abstracted: a bearing is one of four quarters (0 north, clockwise), a     *)
(* slanted line having that of its longer side; a line is as long as its     *)
(* two sides together; and of what makes a landmark good only an             *)
(* unambiguous name and its nearness count.  Distances shown are in tenths   *)
(* of a metre, times in seconds.                                            *)
(***************************************************************************)
EXTENDS Routing, SequencesExt

CONSTANTS
  MergeWithin,     \* MERGE_WITHIN_M: turns closer than this are one decision
  StraightMinLeg,  \* STRAIGHT_MIN_LEG_M: a longer leg wants a confirmation
  LandmarkRadius   \* LANDMARK_RADIUS_M

ASSUME GuidanceDistances ==
  MergeWithin \in Nat /\ StraightMinLeg \in Nat /\ LandmarkRadius \in Nat

RoundDiv(a, b) == (2 * a + b) \div (2 * b)
Sum(s) == FoldLeft(LAMBDA acc, n : acc + n, 0, s)
Abs(n) == IF n < 0 THEN -n ELSE n

\* What s has at the positions in a set, in order.
Picked(s, at) ==
  LET upto[k \in 0 .. Len(s)] ==
        IF k = 0 THEN <<>>
        ELSE IF k \in at THEN Append(upto[k - 1], s[k]) ELSE upto[k - 1]
  IN upto[Len(s)]

(***************************************************************************)
(* The parts of a path (routeAssembler.js)                                  *)
(***************************************************************************)

ScaleOf(g, f) == IF g.scale[f] > 0 THEN g.scale[f] ELSE AssumedScale

\* Pixels between two points of one axis-parallel corridor.
Pixels(a, b) == Abs(a.x - b.x) + Abs(a.y - b.y)

\* The hop the path takes between each two of its nodes.
PathEdges(g, path) ==
  [i \in 1 .. Len(path) - 1 |->
     CHOOSE h \in g.hops : h.from = path[i] /\ h.to = path[i + 1]]

\* The positions at which a new floor begins, in order.
FloorStarts(g, path) ==
  Picked([i \in DOMAIN path |-> i],
         {i \in DOMAIN path : i = 1 \/ g.node[path[i]].floor # g.node[path[i - 1]].floor})

\* A node that is never smoothed away.
Protected(g, n) ==
  g.node[n].type \in {"TRANSIT", "EMERGENCY_EXIT", "POI", "ENTRANCE"} \/ g.node[n].poi # 0

\* smoothPolyline: from each node kept to the farthest one in sight, though
\* never past a protected one.  A floor without walls is drawn as walked.
Smoothed(g, floor, nodes) ==
  LET ahead(i) == {j \in i + 1 .. Len(nodes) : \A k \in i + 1 .. j :
                     /\ {nodes[i], nodes[k]} \notin g.hidden
                     /\ k < j => ~Protected(g, nodes[k])}
      kept[j \in DOMAIN nodes] ==
        j = 1 \/ \E i \in 1 .. j - 1 : j = Max(ahead(i) \cup {i + 1}) /\ kept[i]
  IN IF floor \in g.drawn
     THEN Picked(nodes, {j \in DOMAIN nodes : j \in {1, Len(nodes)} \/ kept[j]})
     ELSE nodes

\* The walks: one per stretch on one floor, measured in pixels of the drawing
\* and timed edge by edge, free of what only steers the search; points is
\* the line drawn for it.
Segments(g, path) ==
  LET starts == FloorStarts(g, path)
      hops == PathEdges(g, path)
      Final(k) == IF k = Len(starts) THEN Len(path) ELSE starts[k + 1] - 1
      Walk(k) ==
        LET nodes == SubSeq(path, starts[k], Final(k))
            own == SubSeq(hops, starts[k], Final(k) - 1)
            floor == g.node[path[starts[k]]].floor
            px == Sum([i \in DOMAIN own |-> Pixels(g.node[own[i].from], g.node[own[i].to])])
        IN [floor |-> floor, nodes |-> nodes, hops |-> own, first |-> starts[k],
            points |-> Smoothed(g, floor, nodes),
            metres |-> RoundDiv(10 * px, ScaleOf(g, floor)),
            secs |-> RoundDiv(Sum([i \in DOMAIN own |-> BareDuration(g, own[i])]), 2),
            accessible |-> \A i \in DOMAIN own : g.edge[own[i].edge].accessible,
            assumed |-> \E i \in DOMAIN own : Assumed(g, g.edge[own[i].edge])]
  IN [k \in DOMAIN starts |-> Walk(k)]

\* The flights between them.
Transitions(g, path) ==
  LET starts == FloorStarts(g, path)
      hops == PathEdges(g, path)
      Flight(k) == LET h == hops[starts[k + 1] - 1]
        IN [hop |-> h, secs |-> RoundDiv(BareDuration(g, h), 2),
            accessible |-> g.edge[h.edge].accessible,
            up |-> g.node[h.to].floor > g.node[h.from].floor]
  IN [k \in 1 .. Len(starts) - 1 |-> Flight(k)]

\* Walks and flights interleaved, the arrival last, each with the distance and
\* the time before it.
Steps(walks, flights) ==
  LET Plain(i) == LET k == (i + 1) \div 2
        IN CASE i = 2 * Len(walks) -> [kind |-> "arrive", index |-> 0, metres |-> 0, secs |-> 0, accessible |-> TRUE]
             [] i % 2 = 1 -> [kind |-> "walk", index |-> k, metres |-> walks[k].metres,
                              secs |-> walks[k].secs, accessible |-> walks[k].accessible]
             [] OTHER -> [kind |-> "transit", index |-> k, metres |-> 0,
                          secs |-> flights[k].secs, accessible |-> flights[k].accessible]
  IN [i \in 1 .. 2 * Len(walks) |->
        [step |-> Plain(i), metres |-> Sum([j \in 1 .. i - 1 |-> Plain(j).metres]),
         secs |-> Sum([j \in 1 .. i - 1 |-> Plain(j).secs])]]

\* What the visitor is warned about: assumed scales, parts that are not
\* step-free when that was asked and could not be had, and penalised edges.
Warnings(g, path, walks, steps, overlay, wheelchair, relaxed) ==
  LET hops == PathEdges(g, path)
  IN {[code |-> "SCALE_ASSUMED", at |-> walks[k].floor] : k \in {i \in DOMAIN walks : walks[i].assumed}}
     \cup {[code |-> "INACCESSIBLE_STEP", at |-> i] :
             i \in {j \in DOMAIN steps : wheelchair /\ relaxed /\ ~steps[j].step.accessible}}
     \cup {[code |-> "CLOSURE_ON_ROUTE", at |-> i] : i \in {j \in DOMAIN hops : overlay.times[hops[j].edge] # 1}}

(***************************************************************************)
(* The instructions for one walk (smoothing.js, instructions.js)            *)
(***************************************************************************)

Quarter(a, b) ==
  IF Abs(b.y - a.y) >= Abs(b.x - a.x) THEN IF b.y < a.y THEN 0 ELSE 2
  ELSE IF b.x > a.x THEN 1 ELSE 3

\* The square of a distance; and, times the square of the chord's length,
\* that of a point from the chord (from its ends, when they coincide).
Square(a, b) == (a.x - b.x) * (a.x - b.x) + (a.y - b.y) * (a.y - b.y)
Off(p, a, b) ==
  LET cross == (b.y - a.y) * (p.x - a.x) - (b.x - a.x) * (p.y - a.y)
  IN IF Square(a, b) = 0 THEN Square(p, a) ELSE cross * cross

\* The turn from one quarter to another.
ClassifyTurn(from, to) ==
  CASE (to - from) % 4 = 0 -> "straight" [] (to - from) % 4 = 1 -> "right"
    [] (to - from) % 4 = 2 -> "uturn"    [] OTHER -> "left"

\* dedupe: a point drawn where the one before it is goes.
Distinct(g, pts) ==
  Picked(pts, {i \in DOMAIN pts : i = 1 \/ Pixels(g.node[pts[i]], g.node[pts[i - 1]]) # 0})

\* perpendicularDistance > eps, with eps 0.4 m: the ends of the chord may
\* coincide.
Strays(g, scale, p, a, b) ==
  25 * Off(g.node[p], g.node[a], g.node[b])
    > 4 * scale * scale * Max({1, Square(g.node[a], g.node[b])})

\* douglasPeucker: of the points between two that are kept, the first of
\* those farthest off the line is kept when it strays more than 0.4 m.
Bends(g, scale, pts) ==
  LET between(c) == c[1] + 1 .. c[2] - 1
      off(i, c) == Off(g.node[pts[i]], g.node[pts[c[1]]], g.node[pts[c[2]]])
      worst(c) == Min({i \in between(c) : \A j \in between(c) : off(j, c) <= off(i, c)})
      keeps[c \in (1 .. Len(pts)) \X (1 .. Len(pts))] ==
        IF \A i \in between(c) : ~Strays(g, scale, pts[i], pts[c[1]], pts[c[2]]) THEN {}
        ELSE {worst(c)} \cup keeps[<<c[1], worst(c)>>] \cup keeps[<<worst(c), c[2]>>]
  IN keeps[<<1, Len(pts)>>]

\* The points of a line that is put into words: its ends and its bends.  Only
\* when no bend is left can two neighbours coincide.
SimplifiedPoints(g, floor, pts) ==
  LET bends == Bends(g, ScaleOf(g, floor), pts)
  IN Picked(pts, {i \in DOMAIN pts : i \in {1, Len(pts)} \/ i \in bends})

\* Pixels from the first point to each point.
Cumulative(g, pts) ==
  [i \in DOMAIN pts |-> Sum([j \in 1 .. i - 1 |-> Pixels(g.node[pts[j]], g.node[pts[j + 1]])])]

\* The turns on the way: corners closer than the merge distance to the first
\* of them are one decision, judged from the way in to the way out.
Decisions(g, pts, cum, within) ==
  LET Q(i) == Quarter(g.node[pts[i]], g.node[pts[i + 1]])
      raw == 2 .. Len(pts) - 1
      Final(i) == Max({j \in raw : j >= i /\ cum[j] - cum[i] < within} \cup {i})
      \* where a group of corners begins
      starts[i \in raw] == i = 2 \/ \E k \in 2 .. i - 1 : starts[k] /\ Final(k) = i - 1
      firsts == Picked([i \in DOMAIN pts |-> i],
                  {i \in raw : starts[i] /\ ClassifyTurn(Q(i - 1), Q(Final(i))) # "straight"})
  IN [k \in DOMAIN firsts |->
        [at |-> cum[firsts[k]], node |-> pts[firsts[k]],
         kind |-> ClassifyTurn(Q(firsts[k] - 1), Q(Final(firsts[k])))]]

\* The point so many pixels down the line.
PointAlong(g, pts, cum, px) ==
  LET i == Max({j \in 1 .. Len(pts) - 1 : cum[j] <= px})
      a == g.node[pts[i]]
      b == g.node[pts[i + 1]]
      Part(u, v) == IF v >= u THEN u + ((v - u) * (px - cum[i])) \div (cum[i + 1] - cum[i])
                    ELSE u - ((u - v) * (px - cum[i])) \div (cum[i + 1] - cum[i])
  IN [x |-> Part(a.x, b.x), y |-> Part(a.y, b.y)]

\* The nodes with a POI on the floor, within the radius, the destination's aside.
PoisAround(g, floor, point, destination) ==
  {n \in DOMAIN g.node : /\ g.node[n].poi # 0 /\ n # destination
                         /\ g.node[n].floor = floor
                         /\ Pixels(g.node[n], point) <= LandmarkRadius * ScaleOf(g, floor)}

NameIsUnique(g, around, n) == \A m \in around : m # n => g.node[m].poi # g.node[n].poi

\* The landmark of a point: an unambiguous name first, then the nearest.
PickLandmark(g, around, point) ==
  {n \in around : \A m \in around :
     LET Worse(k) == <<NameIsUnique(g, around, k), Pixels(g.node[k], point)>>
     IN \/ Worse(n)[1] /\ ~Worse(m)[1]
        \/ Worse(n)[1] = Worse(m)[1] /\ Worse(n)[2] <= Worse(m)[2]}

\* A confirmation half-way down a leg long enough for one, when a landmark
\* with an unambiguous name is near.
Confirmed(g, seg, pts, cum, from, to, destination) ==
  LET mid == PointAlong(g, pts, cum, from + (to - from) \div 2)
      around == PoisAround(g, seg.floor, mid, destination)
  IN /\ to - from > StraightMinLeg * ScaleOf(g, seg.floor)
     /\ \E n \in PickLandmark(g, around, mid) : NameIsUnique(g, around, n)

\* (mutant) every share is rounded for itself.
AllocateEach(marks, total) ==
  LET whole == marks[Len(marks)]
  IN [i \in 1 .. Len(marks) - 1 |->
        IF whole > 0 THEN RoundDiv(total * (marks[i + 1] - marks[i]), whole) ELSE 0]

\* total split over the marks in proportion, so that the parts add up to it.
Allocate(marks, total) ==
  LET whole == marks[Len(marks)]
      Upto(i) == IF whole > 0 THEN RoundDiv(total * marks[i], whole) ELSE 0
  IN [i \in 1 .. Len(marks) - 1 |-> Upto(i + 1) - (IF i = 1 THEN 0 ELSE Upto(i))]

Instruction(kind, metres, secs, k, node) ==
  [kind |-> kind, metres |-> metres, secs |-> secs, segment |-> k, node |-> node]

\* The opening of a walk; on the first one it says which way to turn from
\* where the phone points (heading, 4 when unknown, or with no line to follow).
Opener(k, metres, secs, node, quarter, heading) ==
  LET turn == IF heading = 4 THEN "straight" ELSE ClassifyTurn(heading, quarter)
  IN Instruction(IF k # 1 THEN "straight" ELSE IF turn = "straight" THEN "depart" ELSE turn,
                 metres, secs, k, node)

\* The turns of a walk, its opening first.
Turns(g, seg, pts, cum) ==
  <<[at |-> 0, node |-> pts[1], kind |-> "open"]>>
  \o Decisions(g, pts, cum, MergeWithin * ScaleOf(g, seg.floor))

\* Where the visitor is told something: the turns, and the confirmations
\* between them.
Marks(g, seg, pts, cum, turns, destination) ==
  LET Until(i) == IF i < Len(turns) THEN turns[i + 1].at ELSE cum[Len(cum)]
      Between(i) == turns[i].at + (Until(i) - turns[i].at) \div 2
      Told(i) == IF Confirmed(g, seg, pts, cum, turns[i].at, Until(i), destination)
                 THEN <<turns[i], [at |-> Between(i), node |-> "none", kind |-> "straight"]>>
                 ELSE <<turns[i]>>
  IN FlattenSeq([i \in DOMAIN turns |-> Told(i)])

\* The instructions of a walk: its metres and seconds shared out over the marks.
WalkInstructions(g, seg, k, pts, cum, marks, heading) ==
  LET at == [i \in DOMAIN marks |-> marks[i].at] \o <<cum[Len(cum)]>>
      metres == Allocate(at, seg.metres)
      secs == Allocate(at, seg.secs)
  IN [i \in DOMAIN marks |->
        IF marks[i].kind = "open"
        THEN Opener(k, metres[i], secs[i], pts[1], Quarter(g.node[pts[1]], g.node[pts[2]]),
                    IF Pixels(g.node[pts[1]], g.node[pts[2]]) = 0 THEN 4 ELSE heading)
        ELSE Instruction(marks[i].kind, metres[i], secs[i], k, marks[i].node)]

\* What closes a walk: the flight that follows it, or the arrival.
Closing(walks, flights, k) ==
  IF k = Len(walks)
  THEN Instruction("arrive", 0, 0, k, walks[k].nodes[Len(walks[k].nodes)])
  ELSE Instruction("transit", 0, flights[k].secs, k, flights[k].hop.from)

\* What a route comes to.
Metres(walks) == Sum([k \in DOMAIN walks |-> walks[k].metres])
Seconds(walks, flights) == Sum([k \in DOMAIN walks |-> walks[k].secs])
                           + Sum([k \in DOMAIN flights |-> flights[k].secs])

=============================================================================
