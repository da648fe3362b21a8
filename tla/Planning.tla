------------------------------ MODULE Planning ------------------------------
(***************************************************************************)
(* One building's route planner: wayfinding.routes.js takes a request,       *)
(* planning.js and multiStop.js decide which searches it needs, dijkstra.js   *)
(* and safetyField.js run them one settled node at a time.                   *)
(*                                                                         *)
(* Planning is synchronous code, so one request is planned from start to     *)
(* end; what a request leaves to the next are the safety fields, cached per   *)
(* graph under the fingerprint of the closures.  Each request meets the      *)
(* closures that are in force when it comes.                                *)
(***************************************************************************)
EXTENDS Routing, Sequences

CONSTANTS
  Buildings,        \* the rows of the buildings considered
  ClosureSets,      \* the closures that may be in force
  Queries,          \* the requests that may come
  MaxRequests,      \* how many come (bound)
  MaxFields,        \* MAX_FIELDS_PER_GRAPH
  MaxDestinations,  \* MAX_DESTINATIONS
  MaxAlternatives,  \* alternativeExits' max
  ChangeMetres      \* FLOOR_CHANGE_PENALTY_M

ASSUME PlanningBounds ==
  /\ {MaxRequests, MaxFields, MaxDestinations, MaxAlternatives} \subseteq Nat \ {0}
  /\ ChangeMetres \in Nat

\* The rows as they are stored: no two edges join the same two nodes.
ASSUME PlanningRows ==
  \A w \in Buildings :
    /\ IsFiniteSet(DOMAIN w.node) /\ "none" \notin DOMAIN w.node
    /\ IsFiniteSet(DOMAIN w.edge)
    /\ \A n \in DOMAIN w.node :
         {w.node[n].floor, w.node[n].x, w.node[n].y, w.scale[w.node[n].floor]} \subseteq Int
    /\ \A e \in DOMAIN w.edge :
         /\ w.edge[e].transit \in {"WALKWAY", "STAIRS", "ESCALATOR", "ELEVATOR"}
         /\ w.edge[e].px \in Nat /\ w.edge[e].weight \in Nat
         /\ w.edge[e].lengthM \in Nat \cup {NoLength}
         /\ \A f \in DOMAIN w.edge :
              {w.edge[e].src, w.edge[e].dst} = {w.edge[f].src, w.edge[f].dst} => e = f

\* Finitely many closures at a time, each a block or a penalty.
ASSUME PlanningClosures ==
  \A closures \in ClosureSets : IsFiniteSet(closures) /\ \A c \in closures : c.times \in Nat

\* A request names finitely many destinations, and a profile there is.
ASSUME PlanningQueries ==
  \A qq \in Queries : IsFiniteSet(DOMAIN qq.to) /\ qq.name \in ProfileNames

VARIABLES
  graph,    \* the loaded graph
  fields,   \* its safety fields, least recently used first
  request,  \* the query being answered, with the closures it met
  ctx,      \* its overlays, profile and ladder of attempts
  phase,    \* "idle", "order", "field", "walk", "search", "unwind"
  tour,     \* the order of the stops: positions in <<from>> \o stops
  scan,     \* 2-opt: the pair looked at, and whether this pass improved
  stage,    \* "primary" or "alternative"
  rung,     \* the attempt of the ladder; one past its end is the last resort
  skip,     \* the exits that are not targets
  dist, prev, settled, heap,  \* the search
  cursor, path,  \* the node reached, and the path collected from it
  plan,     \* what has been found for the request
  reply,    \* what was answered last
  served    \* how many were answered (bound)

searchVars == <<dist, prev, settled, heap>>
vars == <<graph, fields, request, ctx, phase, tour, scan, stage, rung, skip,
          searchVars, cursor, path, plan, reply, served>>

None == "none"
Empty == [n \in {} |-> 0]
Nothing == [path |-> <<>>, cost |-> 0, rung |-> 0, legs |-> <<>>, others |-> {}]
NoReply == [status |-> 0, recorded |-> None]

q == request.query
Evacuating == q.mode = "evacuate"
Wheelchair == q.name = "wheelchair"
HasTags == q.include # <<>> \/ q.exclude # <<>>

(***************************************************************************)
(* The request                                                              *)
(***************************************************************************)

\* A destination names a node, a POI or an external code; None when there is
\* no such thing.
ResolveDestination(g, d) ==
  LET named == CASE d.via = "poi" -> {n \in DOMAIN g.node : g.node[n].poi = d.key}
                 [] d.via = "ext" -> {n \in DOMAIN g.node : g.node[n].code = d.key}
                 [] OTHER         -> {d.key} \cap DOMAIN g.node
  IN IF named = {} THEN None ELSE CHOOSE n \in named : TRUE

\* Adjacent repeats collapse.
ParseDestinations(to) ==
  LET kept == {i \in DOMAIN to : i = 1 \/ to[i] # to[i - 1]}
      At(k) == CHOOSE i \in kept : Cardinality({j \in kept : j <= i}) = k
  IN [k \in 1 .. Cardinality(kept) |-> to[At(k)]]

\* The cost preference an evacuation may layer on the emergency profile.
CostOverlayName(qq) ==
  IF qq.explicit /\ qq.name \notin {"wheelchair", "emergency"} THEN qq.name ELSE None

\* The attempts of a request, strictest first: tags are given up before
\* accessibility, and what is given up stays so.
Ladder(qq) ==
  LET wheel == qq.name = "wheelchair"
      tags == qq.include # <<>> \/ qq.exclude # <<>>
  IN <<[label |-> None, tags |-> tags, access |-> wheel]>>
     \o (IF tags THEN <<[label |-> "tagConstraintsRelaxed", tags |-> FALSE, access |-> wheel]>>
         ELSE <<>>)
     \o (IF wheel THEN <<[label |-> "accessibleRouteUnavailable", tags |-> FALSE, access |-> FALSE]>>
         ELSE <<>>)

\* (mutant) the profile that was asked for replaces the emergency profile.
EffectiveProfileAsked(g, qq) ==
  IF CostOverlayName(qq) # None \/ qq.mode # "evacuate"
  THEN ResolveProfile(g, qq.name) ELSE ResolveProfile(g, "emergency")

\* The profile of the costs: evacuations block what the emergency profile
\* blocks, whatever profile was asked for.
EffectiveProfile(g, qq) ==
  LET base == ResolveProfile(g, "emergency")
      wish == ResolveProfile(g, CostOverlayName(qq))
  IN CASE qq.mode # "evacuate" -> ResolveProfile(g, qq.name)
       [] qq.mode = "evacuate" /\ CostOverlayName(qq) = None -> base
       [] OTHER -> [base EXCEPT !.times = wish.times, !.penalty = wish.penalty]

\* applyOverlay and buildRoutingContext, once per request.
Context(g, qq, closures) ==
  LET overlay == BuildOverlay(g, closures)
  IN [overlay |-> overlay, own |-> OverlayForOrigin(overlay, qq.from),
      soft |-> OverlayForOrigin(SoftenOverlay(g, overlay), qq.from),
      profile |-> EffectiveProfile(g, qq), ladder |-> Ladder(qq),
      last |-> ResolveProfile(g, "emergency"),
      stops |-> [i \in DOMAIN ParseDestinations(qq.to) |->
                   ResolveDestination(g, ParseDestinations(qq.to)[i])]]

(***************************************************************************)
(* What the running search may take                                         *)
(***************************************************************************)

IsLastResort(r) == r > Len(ctx.ladder)

FilterAt(r) ==
  [name    |-> IF Evacuating THEN "emergency" ELSE q.name,
   overlay |-> IF IsLastResort(r) THEN ctx.soft ELSE ctx.own,
   tags    |-> ~IsLastResort(r) /\ ctx.ladder[r].tags,
   access  |-> ~IsLastResort(r) /\ ctx.ladder[r].access]

ProfileAt(r) == IF IsLastResort(r) THEN ctx.last ELSE ctx.profile

\* (mutant) an attempt reports its own label, not what came before it.
FlagsOfAttempt(r) ==
  IF IsLastResort(r) THEN {"closuresIgnored"} ELSE {ctx.ladder[r].label} \ {None}

\* What an answer says was given up: every label up to the attempt that found
\* it; the last resort gives up all that was asked.
Flags(r) ==
  IF IsLastResort(r)
  THEN {"closuresIgnored"} \cup {ctx.ladder[k].label : k \in 2 .. Len(ctx.ladder)}
  ELSE {ctx.ladder[k].label : k \in 2 .. r}

Reversed(h) == [h EXCEPT !.from = h.to, !.to = h.from]

\* A field is searched backwards from the exits: every hop is judged in the
\* direction it will be walked, and then followed against it.
Usable == IF phase = "field"
          THEN {Reversed(h) : h \in Legal(graph, q, FilterAt(1), ctx.profile)}
          ELSE Legal(graph, q, FilterAt(rung), ProfileAt(rung))

Cost(h) == CostFn(graph, ProfileAt(rung), FilterAt(rung).overlay, h)

Goal(n) == IF Evacuating THEN n \in ExitsOf(graph) \ skip
           ELSE n = ctx.stops[tour[Len(plan.legs) + 2] - 1]

\* Where the search starts: where the traveller is, or the stop before.
Source == IF Evacuating \/ plan.legs = <<>> THEN q.from ELSE ctx.stops[tour[Len(plan.legs) + 1] - 1]

(***************************************************************************)
(* One search (dijkstra.js, safetyField.js, minHeap.js)                     *)
(***************************************************************************)

StartFrom(sources) ==
  /\ dist' = [n \in sources |-> 0] /\ prev' = Empty /\ settled' = {}
  /\ heap' = {[priority |-> 0, node |-> n] : n \in sources}

\* pop: some entry of least priority.
Pop(item) == item \in heap /\ \A other \in heap : item.priority <= other.priority

\* (mutant) a node keeps the first cost it was given.
RelaxOnce(n, d) ==
  LET out == {h \in Usable : h.from = n /\ h.to \notin DOMAIN dist}
      Candidate(m) == d + Min({Cost(h) : h \in {k \in out : k.to = m}})
      fresh == {h.to : h \in out}
  IN /\ dist' = [m \in DOMAIN dist \cup fresh |-> IF m \in fresh THEN Candidate(m) ELSE dist[m]]
     /\ prev' = [m \in DOMAIN prev \cup fresh |-> IF m \in fresh THEN n ELSE prev[m]]
     /\ heap' = (heap \ {[priority |-> d, node |-> n]})
                \cup {[priority |-> Candidate(m), node |-> m] : m \in fresh}

\* Relax every hop out of n; of parallel hops the cheapest.
Relax(n, d) ==
  LET out == {h \in Usable : h.from = n /\ h.to \notin settled \cup {n}}
      Candidate(m) == d + Min({Cost(h) : h \in {k \in out : k.to = m}})
      better == {m \in {h.to : h \in out} : m \in DOMAIN dist => Candidate(m) < dist[m]}
  IN /\ dist' = [m \in DOMAIN dist \cup better |-> IF m \in better THEN Candidate(m) ELSE dist[m]]
     /\ prev' = [m \in DOMAIN prev \cup better |-> IF m \in better THEN n ELSE prev[m]]
     /\ heap' = (heap \ {[priority |-> d, node |-> n]})
                \cup {[priority |-> Candidate(m), node |-> m] : m \in better}

\* A duplicate of a settled node is stale.
DropStale ==
  /\ phase \in {"search", "field"}
  /\ \E item \in heap : Pop(item) /\ item.node \in settled /\ heap' = heap \ {item}
  /\ UNCHANGED <<graph, fields, request, ctx, phase, tour, scan, stage, rung, skip,
                 dist, prev, settled, cursor, path, plan, reply, served>>

Settle ==
  /\ phase \in {"search", "field"}
  /\ \E item \in heap :
       /\ Pop(item) /\ item.node \notin settled
       /\ phase = "search" => ~Goal(item.node)
       /\ settled' = settled \cup {item.node}
       /\ Relax(item.node, item.priority)
  /\ UNCHANGED <<graph, fields, request, ctx, phase, tour, scan, stage, rung, skip,
                 cursor, path, plan, reply, served>>

\* The target is settled: its path is collected along prev.
Reach ==
  /\ phase = "search"
  /\ \E item \in heap :
       /\ Pop(item) /\ item.node \notin settled /\ Goal(item.node)
       /\ settled' = settled \cup {item.node}
       /\ heap' = heap \ {item}
       /\ cursor' = item.node
       /\ plan' = IF stage = "primary" THEN [plan EXCEPT !.cost = @ + item.priority] ELSE plan
  /\ phase' = "unwind" /\ path' = <<>>
  /\ UNCHANGED <<graph, fields, request, ctx, tour, scan, stage, rung, skip,
                 dist, prev, reply, served>>

(***************************************************************************)
(* A request comes                                                          *)
(***************************************************************************)

\* A text is a sequence of tokens, a sign that separates being a token of its
\* own.  join puts one between any two of the texts.
Sign(c) == <<<<c>>>>

Joined(texts, c) ==
  LET upTo[k \in 0 .. Len(texts)] ==
        IF k = 0 THEN <<>>
        ELSE IF k = 1 THEN texts[1]
        ELSE upTo[k - 1] \o Sign(c) \o texts[k]
  IN upTo[Len(texts)]

\* A field's key, of a request and the overlay it meets: the preference (None
\* standing for an empty one) and the tags as they were given make the name, the
\* fingerprint of the overlay the rest.
KeyText(qq, overlay) ==
  LET kind  == <<<<"emergency">>, <<"#">>, <<CostOverlayName(qq)>>, <<"#">>>>
      tags  == Joined(qq.include, ",") \o Sign("#") \o Joined(qq.exclude, ",")
      print == Joined([i \in DOMAIN overlay.print |-> <<overlay.print[i]>>], "|")
  IN kind \o tags \o Sign("|") \o print

\* (mutant) the key of a field leaves the closures out.
FieldKeyOpen == KeyText(q, [ctx.overlay EXCEPT !.print = <<>>])

\* What a field is cached under.
FieldKey == KeyText(q, ctx.overlay)

\* The route handlers' early answers: too many or no destinations, or one
\* that does not exist here.  Only what has an origin and is well formed is
\* recorded.
Rejection(g, qq) ==
  LET to == ParseDestinations(qq.to)
  IN IF qq.mode = "evacuate" THEN 0
     ELSE CASE Len(to) > MaxDestinations -> 422
            [] to = <<>> -> 400
            [] /\ Len(to) \in 1 .. MaxDestinations
               /\ \E i \in DOMAIN to : ResolveDestination(g, to[i]) = None -> 404
            [] OTHER -> 0

\* The distance between two stops as the ordering estimates it.
EstimateLegCost(g, a, b) ==
  LET u == g.node[a]  v == g.node[b]
      ScaleAt(n) == IF g.scale[n.floor] > 0 THEN g.scale[n.floor] ELSE AssumedScale
      d2 == (u.x - v.x) * (u.x - v.x) + (u.y - v.y) * (u.y - v.y)
      up == IF u.floor > v.floor THEN u.floor - v.floor ELSE v.floor - u.floor
  IN IF u.floor = v.floor THEN CHOOSE d \in 0 .. d2 : d * d <= d2 /\ (d + 1) * (d + 1) > d2
     ELSE ChangeMetres * Max({1, up}) * ((ScaleAt(u) + ScaleAt(v)) \div 2)

TourPoint(g, qq, stops, k) == IF k = 1 THEN qq.from ELSE stops[k - 1]
LegCost(j, k) == EstimateLegCost(graph, TourPoint(graph, q, ctx.stops, j),
                                 TourPoint(graph, q, ctx.stops, k))

\* nearestNeighborOrder: the nearest stop not yet visited, the first of equals.
NearestNeighborOrder(g, qq, stops) ==
  LET C(j, k) == EstimateLegCost(g, TourPoint(g, qq, stops, j), TourPoint(g, qq, stops, k))
      order[k \in 1 .. Len(stops) + 1] ==
        IF k = 1 THEN <<1>>
        ELSE LET done == {order[k - 1][i] : i \in 1 .. k - 1}
                 here == order[k - 1][k - 1]
                 left == (1 .. Len(stops) + 1) \ done
                 near == {j \in left : \A m \in left : C(here, j) <= C(here, m)}
             IN Append(order[k - 1], Min(near))
  IN order[Len(stops) + 1]

RequestOrder(stops) == [k \in 1 .. Len(stops) + 1 |-> k]
HasDuplicate(stops) == \E i, j \in DOMAIN stops : i # j /\ stops[i] = stops[j]

\* A new request: refused, or its context built and its first step taken.
Arrive(qq, closures) ==
  LET c == Context(graph, qq, closures)
  IN
  /\ phase = "idle" /\ served < MaxRequests
  /\ qq.from \in DOMAIN graph.node
  /\ request' = [query |-> qq, closures |-> closures]
  /\ plan' = Nothing /\ rung' = 1 /\ stage' = "primary" /\ skip' = {}
  /\ cursor' = None /\ path' = <<>>
  /\ IF Rejection(graph, qq) # 0
     THEN /\ phase' = "idle"
          /\ reply' = [status |-> Rejection(graph, qq),
                       recorded |-> IF Rejection(graph, qq) = 404 THEN "failed" ELSE None]
          /\ served' = served + 1
          /\ ctx' = [c EXCEPT !.stops = <<>>]
          /\ tour' = <<>> /\ scan' = <<>>
          /\ dist' = Empty /\ prev' = Empty /\ settled' = {} /\ heap' = {}
     ELSE /\ reply' = NoReply /\ ctx' = c /\ UNCHANGED served
          /\ tour' = IF qq.mode = "evacuate" \/ HasDuplicate(c.stops)
                     THEN RequestOrder(c.stops)
                     ELSE NearestNeighborOrder(graph, qq, c.stops)
          /\ scan' = <<2, 3, FALSE>>
          /\ phase' = IF qq.mode = "evacuate"
                      THEN IF qq.name = "wheelchair" \/ qq.from \in c.overlay.nodes
                           THEN "search" ELSE "lookup"
                      ELSE IF Len(c.stops) > 1 /\ ~HasDuplicate(c.stops) THEN "order" ELSE "search"
          /\ StartFrom({qq.from})
  /\ UNCHANGED <<graph, fields>>

\* (mutant) a tie counts as an improvement.
DeltaOrTie(i, j) ==
  LegCost(tour[i - 1], tour[j]) - LegCost(tour[i - 1], tour[i]) - 1
  + (IF j < Len(tour) THEN LegCost(tour[i], tour[j + 1]) - LegCost(tour[j], tour[j + 1]) ELSE 0)

\* 2-opt, one pair of the tour: reverse the stretch between them when that
\* shortens the tour; an open path, so the last stretch has no edge after it.
Delta(i, j) ==
  LegCost(tour[i - 1], tour[j]) - LegCost(tour[i - 1], tour[i])
  + (IF j < Len(tour) THEN LegCost(tour[i], tour[j + 1]) - LegCost(tour[j], tour[j + 1]) ELSE 0)

\* (mutant) the stretch ends one short of its last stop.
ReverseStretchShort(s, i, j) == [k \in DOMAIN s |-> IF k \in i .. j - 1 THEN s[i + j - k] ELSE s[k]]

ReverseStretch(s, i, j) == [k \in DOMAIN s |-> IF k \in i .. j THEN s[i + j - k] ELSE s[k]]

TwoOpt ==
  LET i == scan[1]  j == scan[2]
      better == Delta(i, j) < 0
      improved == scan[3] \/ better
  IN
  /\ phase = "order"
  /\ tour' = IF better THEN ReverseStretch(tour, i, j) ELSE tour
  /\ CASE j < Len(tour) -> scan' = <<i, j + 1, improved>> /\ UNCHANGED phase
       [] j = Len(tour) /\ i < Len(tour) - 1 -> scan' = <<i + 1, i + 2, improved>> /\ UNCHANGED phase
       [] OTHER -> /\ scan' = <<2, 3, FALSE>>
                   /\ phase' = IF improved THEN "order" ELSE "search"
  /\ UNCHANGED <<graph, fields, request, ctx, stage, rung, skip, searchVars,
                 cursor, path, plan, reply, served>>

(***************************************************************************)
(* The safety field                                                         *)
(***************************************************************************)

Kept(k) == {i \in DOMAIN fields : fields[i].key = k}
Without(s, i) == [k \in 1 .. Len(s) - 1 |-> IF k < i THEN s[k] ELSE s[k + 1]]

\* Follow the cached field, or fall back to the ladder when the origin has no
\* way out in it.
Follow(field) ==
  IF q.from \in DOMAIN field.dist
  THEN /\ phase' = "walk" /\ cursor' = q.from /\ path' = <<q.from>>
       /\ prev' = field.next /\ dist' = field.dist /\ settled' = {} /\ heap' = {}
       /\ plan' = [plan EXCEPT !.cost = field.dist[q.from]]
  ELSE /\ phase' = "search" /\ cursor' = None /\ path' = <<>>
       /\ StartFrom({q.from}) /\ UNCHANGED plan

FieldHit ==
  /\ phase = "lookup"
  /\ \E i \in Kept(FieldKey) :
       /\ fields' = Append(Without(fields, i), fields[i])
       /\ Follow(fields[i])
  /\ UNCHANGED <<graph, request, ctx, tour, scan, stage, rung, skip, reply, served>>

FieldMiss ==
  /\ phase = "lookup" /\ Kept(FieldKey) = {}
  /\ phase' = "field"
  /\ StartFrom(ExitsOf(graph))
  /\ UNCHANGED <<graph, fields, request, ctx, tour, scan, stage, rung, skip,
                 cursor, path, plan, reply, served>>

FieldDone ==
  LET field == [key |-> FieldKey, dist |-> dist, next |-> prev]
      all == Append(fields, field)
  IN
  /\ phase = "field" /\ heap = {}
  /\ fields' = IF Len(all) > MaxFields THEN Tail(all) ELSE all
  /\ Follow(field)
  /\ UNCHANGED <<graph, request, ctx, tour, scan, stage, rung, skip, reply, served>>

(***************************************************************************)
(* What comes of a search                                                   *)
(***************************************************************************)

Answer(status) ==
  /\ phase' = "idle" /\ served' = served + 1
  /\ reply' = [status |-> status, recorded |-> IF status = 200 THEN "found" ELSE "failed"]
  /\ dist' = Empty /\ prev' = Empty /\ settled' = {} /\ heap' = {}

\* The route is known: an evacuation goes on to the other exits, unless it is
\* a last resort or there are none.
RouteKnown(found) ==
  LET exit == found.path[Len(found.path)]
  IN IF Evacuating /\ ~IsLastResort(rung) /\ ExitsOf(graph) # {exit}
     THEN /\ phase' = "search" /\ stage' = "alternative" /\ skip' = {exit}
          /\ StartFrom({q.from}) /\ UNCHANGED <<reply, served>>
     ELSE Answer(200) /\ UNCHANGED <<stage, skip>>

\* One step of collecting a path: along the field's next hops ...
WalkOn ==
  /\ phase = "walk"
  /\ IF cursor \in DOMAIN prev
     THEN /\ cursor' = prev[cursor] /\ path' = Append(path, prev[cursor])
          /\ UNCHANGED <<phase, stage, skip, searchVars, plan, reply, served>>
     ELSE /\ plan' = [plan EXCEPT !.path = path, !.rung = 1]
          /\ cursor' = None /\ path' = <<>>
          /\ RouteKnown(plan')
  /\ UNCHANGED <<graph, fields, request, ctx, tour, scan, rung>>

\* ... or back along prev.
Unwind ==
  /\ phase = "unwind" /\ cursor # None
  /\ path' = <<cursor>> \o path
  /\ cursor' = IF cursor \in DOMAIN prev THEN prev[cursor] ELSE None
  /\ UNCHANGED <<graph, fields, request, ctx, phase, tour, scan, stage, rung, skip,
                 searchVars, plan, reply, served>>

\* The path is whole: the leg of a tour, the route itself, or another exit.
Collected ==
  LET legs == Append(plan.legs, path)
      whole == IF plan.path = <<>> THEN path ELSE plan.path \o Tail(path)
      exit == path[Len(path)]
  IN
  /\ phase = "unwind" /\ cursor = None
  /\ path' = <<>>
  /\ IF stage = "alternative"
     THEN /\ plan' = [plan EXCEPT !.others = @ \cup {path}]
          /\ skip' = skip \cup {exit}
          /\ IF Cardinality(plan.others) + 1 < MaxAlternatives
             THEN phase' = "search" /\ StartFrom({q.from}) /\ UNCHANGED <<reply, served>>
             ELSE Answer(200)
          /\ UNCHANGED stage
     ELSE /\ plan' = [plan EXCEPT !.path = whole, !.rung = rung, !.legs = legs]
          /\ IF ~Evacuating /\ Len(legs) < Len(ctx.stops)
             THEN /\ phase' = "search" /\ StartFrom({exit})
                  /\ UNCHANGED <<stage, skip, reply, served>>
             ELSE RouteKnown(plan')
  /\ UNCHANGED <<graph, fields, request, ctx, tour, scan, rung, cursor>>

\* Nothing reached: the next attempt (a tour begins again with its first leg),
\* the last resort when closures are what is in the way, or no route.
Exhausted ==
  LET lastLadder == rung >= Len(ctx.ladder)
      blocks == ctx.overlay.edges # {} \/ ctx.overlay.nodes # {}
  IN
  /\ phase = "search" /\ heap = {}
  /\ CASE stage = "alternative" -> Answer(200) /\ UNCHANGED <<rung, plan>>
       [] stage = "primary" /\ (~lastLadder \/ (Evacuating /\ rung = Len(ctx.ladder) /\ blocks)) ->
            /\ rung' = rung + 1 /\ plan' = Nothing
            /\ StartFrom({q.from}) /\ UNCHANGED <<phase, reply, served>>
       [] OTHER -> Answer(404) /\ plan' = Nothing /\ UNCHANGED rung
  /\ UNCHANGED <<graph, fields, request, ctx, tour, scan, stage, skip, cursor, path>>

Init ==
  /\ \E w \in Buildings : graph = LoadBuildingGraph(w)
  /\ fields = <<>> /\ phase = "idle" /\ tour = <<>> /\ scan = <<>>
  /\ request = [query |-> [mode |-> None], closures |-> {}]
  /\ ctx = [ladder |-> <<>>]
  /\ stage = "primary" /\ rung = 1 /\ skip = {}
  /\ dist = Empty /\ prev = Empty /\ settled = {} /\ heap = {}
  /\ cursor = None /\ path = <<>> /\ plan = Nothing
  /\ reply = NoReply /\ served = 0

\* What the planner does of itself, once a request has come.
Plan == TwoOpt \/ FieldHit \/ FieldMiss \/ FieldDone \/ DropStale \/ Settle \/ Reach
        \/ WalkOn \/ Unwind \/ Collected \/ Exhausted

Next == Plan \/ \E qq \in Queries, closures \in ClosureSets : Arrive(qq, closures)

Spec == Init /\ [][Next]_vars /\ WF_vars(Plan)

(***************************************************************************)
(* The cache of fields                                                      *)
(***************************************************************************)

\* The least cost from the sources to each node that hops lead to.
Cheapest(hops, sources) ==
  LET best[k \in 0 .. Cardinality(DOMAIN graph.node)] ==
        IF k = 0 THEN [n \in sources |-> 0]
        ELSE LET b == best[k - 1]
                 Ways(n) == {b[h.from] + Cost(h) : h \in {x \in hops : x.to = n /\ x.from \in DOMAIN b}}
                 old(n) == IF n \in DOMAIN b THEN {b[n]} ELSE {}
             IN [n \in {m \in DOMAIN graph.node : Ways(m) \cup old(m) # {}} |-> Min(Ways(n) \cup old(n))]
  IN best[Cardinality(DOMAIN graph.node)]

\* "`name` must distinguish every variant that changes the field": a safety
\* field another occupant's request computed answers this request as one
\* computed for it would.  Every distance in it is right under the closures,
\* the tags and the preference of the request that follows it.
FieldAgrees ==
  phase = "walk" =>
    dist = Cheapest({Reversed(h) : h \in Legal(graph, q, FilterAt(1), ctx.profile)}, ExitsOf(graph))

=============================================================================
