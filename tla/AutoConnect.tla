----------------------------- MODULE AutoConnect -----------------------------
(***************************************************************************)
(* Wiring a floor's nodes into one walkable graph (mapEditor/autoConnect.js). *)
(* A node is a number and a place <<x, y>>, a pair of nodes <<a, b>> with     *)
(* a < b, a wall a pair of places.  Distances are compared by their squares,  *)
(* which is what sorting and the shortcut limit need.                        *)
(***************************************************************************)
EXTENDS Integers, Sequences, FiniteSets, SequencesExt

CONSTANTS
  MaxShortcut,      \* the longest shortcut (DEFAULT_MAX_SHORTCUT)
  ExtraNeighbors,   \* shortcuts per node (DEFAULT_EXTRA_NEIGHBORS)
  MaxNewEdges       \* MAX_NEW_EDGES

ASSUME AutoConnectLimits == MaxShortcut \in Nat /\ ExtraNeighbors \in Nat /\ MaxNewEdges \in Nat

Square(p, q) == (p[1] - q[1]) * (p[1] - q[1]) + (p[2] - q[2]) * (p[2] - q[2])

\* On which side of p -> q the point r lies.
Side(p, q, r) ==
  LET v == (q[2] - p[2]) * (r[1] - q[1]) - (q[1] - p[1]) * (r[2] - q[2])
  IN CASE v > 0 -> 1 [] v < 0 -> -1 [] OTHER -> 0

\* A proper crossing: touching ends, or a point on the line, do not count.
SegmentsIntersect(a, b, c, d) ==
  /\ Side(a, b, c) # Side(a, b, d) /\ Side(c, d, a) # Side(c, d, b)
  /\ 0 \notin {Side(a, b, c), Side(a, b, d), Side(c, d, a), Side(c, d, b)}

Blocked(p, q, walls) == \E w \in walls : SegmentsIntersect(p, q, w[1], w[2])

\* The pairs that may be wired, closest first, ties in the order of the nodes.
Candidates(place, edges, walls) ==
  SetToSortSeq({e \in (DOMAIN place) \X (DOMAIN place) :
                  e[1] < e[2] /\ e \notin edges /\ ~Blocked(place[e[1]], place[e[2]], walls)},
    LAMBDA d, e : LET l == Square(place[d[1]], place[d[2]])
                      m == Square(place[e[1]], place[e[2]])
                  IN \/ l < m
                     \/ l = m /\ (d[1] < e[1] \/ (d[1] = e[1] /\ d[2] < e[2])))

\* The nodes that are connected to a (what the union-find's root stands for).
Component(a, nodes, edges) ==
  LET Grow(s, i) == s \cup {n \in nodes : \E m \in s : <<m, n>> \in edges \/ <<n, m>> \in edges}
  IN FoldLeft(Grow, {a}, [i \in 1 .. Cardinality(nodes) |-> i])

Degree(n, planned) == Cardinality({i \in DOMAIN planned : n \in {planned[i][1], planned[i][2]}})

\* Connectivity first, then shortcuts; the degree counts this plan's edges only.
PlanAutoConnect(place, edges, walls) ==
  LET nodes == DOMAIN place
      candidates == Candidates(place, edges, walls)
      Wired(planned) == edges \cup ToSet(planned)
      Join(planned, e) ==
        IF Len(planned) < MaxNewEdges /\ e[2] \notin Component(e[1], nodes, Wired(planned))
        THEN Append(planned, e) ELSE planned
      Shorten(planned, e) ==
        IF /\ Len(planned) < MaxNewEdges
           /\ Square(place[e[1]], place[e[2]]) <= MaxShortcut * MaxShortcut
           /\ e \notin Wired(planned)
           /\ Degree(e[1], planned) < ExtraNeighbors \/ Degree(e[2], planned) < ExtraNeighbors
        THEN Append(planned, e) ELSE planned
  IN FoldLeft(Shorten, FoldLeft(Join, <<>>, candidates), candidates)

=============================================================================
