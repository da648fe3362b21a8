-------------------------- MODULE WayfindingProofs --------------------------
(***************************************************************************)
(* Proofs about what a visitor is told (Planning.tla, Guidance.tla), on top   *)
(* of those about the planner (RouteProofs.tla): that an answer says what was *)
(* given up, and that the instructions add up to the route.                  *)
(***************************************************************************)
EXTENDS RouteProofs

(***************************************************************************)
(* What a selection of positions picks                                      *)
(***************************************************************************)

(* The recursion of Picked.                                                 *)
Picks(s, at, u) ==
  u = [k \in 0 .. Len(s) |->
         IF k = 0 THEN <<>> ELSE IF k \in at THEN Append(u[k - 1], s[k]) ELSE u[k - 1]]

(* r has what s has at the positions in A, in order: m gives the positions. *)
Indexed(T, s, A, r, m) ==
  /\ r \in Seq(T) /\ m \in [1 .. Len(r) -> A]
  /\ \A j \in 1 .. Len(r) : r[j] = s[m[j]]
  /\ \A i, j \in 1 .. Len(r) : i < j => m[i] < m[j]
  /\ \A x \in A : \E j \in 1 .. Len(r) : m[j] = x

(* The recursion is well defined,                                           *)
LEMMA PicksExists ==
  ASSUME NEW T, NEW s \in Seq(T), NEW at
  PROVE  \E u : Picks(s, at, u) /\ u \in [0 .. Len(s) -> Seq(T)]
<1> DEFINE N == Len(s)
           F == [k \in 1 .. N |-> [r \in Seq(T) |-> IF k \in at THEN Append(r, s[k]) ELSE r]]
<1>1. N \in Nat /\ \A k \in 1 .. N : s[k] \in T
  BY LenProperties, ElementOfSeq
<1>2. <<>> \in Seq(T)
  BY EmptySeq
<1>3. \A k \in 1 .. N : \A r \in Seq(T) : Append(r, s[k]) \in Seq(T)
  BY <1>1, AppendProperties
<1> HIDE DEF N
<1>4. IsStep(N, Seq(T), F)
  BY <1>3 DEF IsStep
<1>5. PICK u : Iterates(u, N, Seq(T), <<>>, F)
  <2> HIDE DEF F
  <2> QED
    BY <1>1, <1>2, <1>4, IterationExists
<1>6. u \in [0 .. N -> Seq(T)] /\ u[0] = <<>> /\ \A k \in 1 .. N : u[k] = F[k][u[k - 1]]
  BY <1>5 DEF Iterates
<1>7. \A k \in 1 .. N : u[k - 1] \in Seq(T)
  <2>1. \A k \in 1 .. N : k - 1 \in 0 .. N
    BY <1>1
  <2> QED
    BY <1>6, <2>1
<1>8. \A k \in 1 .. N : u[k] = IF k \in at THEN Append(u[k - 1], s[k]) ELSE u[k - 1]
  BY <1>6, <1>7
<1> HIDE DEF F
<1>9. \A k \in 0 .. N : u[k] = IF k = 0 THEN <<>> ELSE IF k \in at THEN Append(u[k - 1], s[k]) ELSE u[k - 1]
  <2>1. \A k \in 0 .. N : k = 0 \/ (k # 0 /\ k \in 1 .. N)
    BY <1>1
  <2> QED
    BY <1>6, <1>8, <2>1
<1>10. Picks(s, at, u)
  BY <1>6, <1>9 DEF Picks, N
<1> QED
  BY <1>6, <1>10 DEF N

(* One position more is picked,                                             *)
LEMMA IndexedMore ==
  ASSUME NEW T, NEW s, NEW k \in Nat \ {0}, NEW A \in SUBSET (1 .. k - 1),
         NEW r, NEW m, Indexed(T, s, A, r, m), s[k] \in T
  PROVE  \E n : Indexed(T, s, A \cup {k}, Append(r, s[k]), n)
<1> DEFINE t == Append(r, s[k])
           L == Len(r)
           n == [j \in 1 .. L + 1 |-> IF j <= L THEN m[j] ELSE k]
<1>1. /\ r \in Seq(T) /\ m \in [1 .. L -> A] /\ L \in Nat
      /\ \A j \in 1 .. L : r[j] = s[m[j]]
      /\ \A i, j \in 1 .. L : i < j => m[i] < m[j]
      /\ \A x \in A : \E j \in 1 .. L : m[j] = x
  BY LenProperties DEF Indexed
<1>2. /\ t \in Seq(T) /\ Len(t) = L + 1 /\ t[L + 1] = s[k] /\ \A i \in 1 .. L : t[i] = r[i]
  BY <1>1, OneMore
<1> HIDE DEF t, L
<1>3. /\ \A j \in 1 .. L : n[j] = m[j] /\ m[j] \in A
      /\ n[L + 1] = k /\ n \in [1 .. L + 1 -> A \cup {k}]
  BY <1>1
<1>4. \A j \in 1 .. L + 1 : j \in 1 .. L \/ j = L + 1
  BY <1>1
<1> HIDE DEF n
<1>5. \A j \in 1 .. L + 1 : t[j] = s[n[j]]
  BY <1>1, <1>2, <1>3, <1>4
<1>6. \A i, j \in 1 .. L + 1 : i < j => n[i] < n[j]
  <2> SUFFICES ASSUME NEW i \in 1 .. L + 1, NEW j \in 1 .. L + 1, i < j PROVE n[i] < n[j]
    OBVIOUS
  <2>1. i \in 1 .. L
    BY <1>1
  <2>2. CASE j \in 1 .. L
    BY <1>1, <1>3, <2>1, <2>2
  <2>3. CASE j = L + 1
    <3>1. m[i] \in 1 .. k - 1
      BY <1>3, <2>1
    <3> QED
      BY <1>3, <2>1, <2>3, <3>1
  <2> QED
    BY <1>4, <2>2, <2>3
<1>7. \A x \in A \cup {k} : \E j \in 1 .. L + 1 : n[j] = x
  <2>1. \A j \in 1 .. L : j \in 1 .. L + 1
    BY <1>1
  <2>2. L + 1 \in 1 .. L + 1
    BY <1>1
  <2>3. ASSUME NEW x \in A PROVE \E j \in 1 .. L + 1 : n[j] = x
    <3>1. PICK j \in 1 .. L : m[j] = x
      BY <1>1
    <3> QED
      BY <1>3, <2>1, <3>1
  <2> QED
    BY <1>3, <2>2, <2>3
<1>8. Indexed(T, s, A \cup {k}, t, n)
  BY <1>2, <1>3, <1>5, <1>6, <1>7 DEF Indexed
<1> QED
  BY <1>8 DEF t

(* The positions in A up to k.                                              *)
UpTil(A, k) == {x \in A : x <= k}
OneByOne(A, N) ==
  /\ UpTil(A, 0) = {} /\ UpTil(A, N) = A
  /\ \A k \in Nat \ {0} :
       /\ UpTil(A, k - 1) \in SUBSET (1 .. k - 1)
       /\ k \in A => UpTil(A, k) = UpTil(A, k - 1) \cup {k}
       /\ k \notin A => UpTil(A, k) = UpTil(A, k - 1)

(* One position more is the last or none.                                   *)
LEMMA UpTilIs ==
  ASSUME NEW N \in Nat, NEW A, \A x \in A : x \in Nat /\ 1 <= x /\ x <= N
  PROVE  OneByOne(A, N)
<1>1. {x \in A : x <= 0} = {} /\ {x \in A : x <= N} = A
  OBVIOUS
<1>2. ASSUME NEW k \in Nat \ {0}
      PROVE  /\ UpTil(A, k - 1) \in SUBSET (1 .. k - 1)
             /\ k \in A => UpTil(A, k) = UpTil(A, k - 1) \cup {k}
             /\ k \notin A => UpTil(A, k) = UpTil(A, k - 1)
  <2>1. {x \in A : x <= k - 1} \in SUBSET (1 .. k - 1)
    OBVIOUS
  <2>2. \A x \in A : x <= k <=> x <= k - 1 \/ x = k
    OBVIOUS
  <2>3. k \in A => {x \in A : x <= k} = {x \in A : x <= k - 1} \cup {k}
    BY <2>2, Zenon
  <2>4. k \notin A => {x \in A : x <= k} = {x \in A : x <= k - 1}
    OBVIOUS
  <2> QED
    BY <2>1, <2>3, <2>4 DEF UpTil
<1> QED
  BY <1>1, <1>2 DEF UpTil, OneByOne

(* and Picked picks what it says.                                           *)
LEMMA PickedIs ==
  ASSUME NEW T, NEW s \in Seq(T), NEW at \in SUBSET (1 .. Len(s))
  PROVE  \E m : Indexed(T, s, at, Picked(s, at), m)
<1> DEFINE N == Len(s)
           u == CHOOSE u : Picks(s, at, u)
           G == {k \in 0 .. N : \E m : Indexed(T, s, UpTil(at, k), u[k], m)}
<1>1. Picked(s, at) = u[N]
  BY Zenon DEF Picked, Picks
<1>2. Picks(s, at, u)
  BY PicksExists
<1>3. N \in Nat /\ \A k \in 1 .. N : s[k] \in T
  BY LenProperties, ElementOfSeq
<1>0. \A x \in at : x \in Nat /\ 1 <= x /\ x <= N
  BY <1>3
<1> HIDE DEF u, N
<1>4. \A k \in 0 .. N : u[k] = IF k = 0 THEN <<>> ELSE IF k \in at THEN Append(u[k - 1], s[k]) ELSE u[k - 1]
  BY <1>2, Zenon DEF Picks, N
<1>10. /\ UpTil(at, 0) = {} /\ UpTil(at, N) = at
      /\ \A k \in Nat \ {0} : /\ UpTil(at, k - 1) \in SUBSET (1 .. k - 1)
                              /\ k \in at => UpTil(at, k) = UpTil(at, k - 1) \cup {k}
                              /\ k \notin at => UpTil(at, k) = UpTil(at, k - 1)
  <2>1. N \in Nat
    BY <1>3
  <2> QED
    <3>1. OneByOne(at, N)
      BY <1>0, <2>1, UpTilIs
    <3> QED
      BY <3>1 DEF OneByOne
<1>5. 0 \in G
  <2>1. u[0] = <<>> /\ 0 \in 0 .. N
    BY <1>3, <1>4
  <2>2. UpTil(at, 0) = {}
    BY <1>10
  <2>3. /\ <<>> \in Seq(T) /\ Len(<<>>) = 0 /\ 1 .. Len(<<>>) = {} /\ <<>> \in [1 .. Len(<<>>) -> {}]
    OBVIOUS
  <2>4. Indexed(T, s, {}, <<>>, <<>>)
    <3>1. Len(<<>>) = 0 /\ \A j \in 1 .. Len(<<>>) : FALSE
      OBVIOUS
    <3> QED
      BY <2>3, <3>1 DEF Indexed
  <2>5. Indexed(T, s, UpTil(at, 0), u[0], <<>>)
    BY <2>1, <2>2, <2>4
  <2> QED
    BY <2>1, <2>5
<1>6. ASSUME NEW k \in 1 .. N, k - 1 \in G PROVE k \in G
  <2>1. k \in Nat \ {0} /\ k \in 0 .. N /\ k # 0
    BY <1>3
  <2>2. PICK m : Indexed(T, s, UpTil(at, k - 1), u[k - 1], m)
    BY <1>6
  <2>3. CASE k \in at
    <3>1. u[k] = Append(u[k - 1], s[k])
      BY <1>4, <2>1, <2>3
    <3>2. UpTil(at, k) = UpTil(at, k - 1) \cup {k}
      BY <1>10, <2>1, <2>3
    <3>3. UpTil(at, k - 1) \in SUBSET (1 .. k - 1)
      BY <1>10, <2>1
    <3>4. s[k] \in T
      BY <1>3
    <3>5. \E n : Indexed(T, s, UpTil(at, k - 1) \cup {k}, Append(u[k - 1], s[k]), n)
      BY <2>1, <2>2, <3>3, <3>4, IndexedMore
    <3> QED
      BY <2>1, <3>1, <3>2, <3>5
  <2>4. CASE k \notin at
    <3>1. u[k] = u[k - 1]
      BY <1>4, <2>1, <2>4
    <3>2. UpTil(at, k) = UpTil(at, k - 1)
      BY <1>10, <2>1, <2>4
    <3> QED
      BY <2>1, <2>2, <3>1, <3>2
  <2> QED
    BY <2>3, <2>4
<1>7. G = 0 .. N
  <2>1. G \in SUBSET (0 .. N)
    OBVIOUS
  <2> HIDE DEF G
  <2> QED
    BY <1>3, <1>5, <1>6, <2>1, UpTo
<1>8. N \in G
  BY <1>3, <1>7
<1>9. UpTil(at, N) = at
  BY <1>10
<1>11. \E m : Indexed(T, s, at, u[N], m)
  BY <1>8, <1>9
<1> QED
  BY <1>1, <1>11 DEF N

(* Between two positions picked one after the other none is.                *)
LEMMA NothingBetween ==
  ASSUME NEW T, NEW s, NEW A \in SUBSET Nat, NEW r, NEW m, Indexed(T, s, A, r, m),
         NEW j \in 1 .. Len(r) - 1, NEW x \in A
  PROVE  x <= m[j] \/ m[j + 1] <= x
<1>1. Len(r) \in Nat
  BY LenProperties DEF Indexed
<1>2. PICK i \in 1 .. Len(r) : m[i] = x
  BY DEF Indexed
<1>3. j \in 1 .. Len(r) /\ j + 1 \in 1 .. Len(r)
  BY <1>1
<1>4. i = j \/ i = j + 1 \/ i < j \/ j + 1 < i
  BY <1>1
<1>5. m[i] \in Nat /\ m[j] \in Nat /\ m[j + 1] \in Nat
  BY <1>3 DEF Indexed
<1>6. (i < j => m[i] < m[j]) /\ (j + 1 < i => m[j + 1] < m[i])
  BY <1>3 DEF Indexed
<1> QED
  BY <1>2, <1>4, <1>5, <1>6

(***************************************************************************)
(* The parts of a path                                                      *)
(***************************************************************************)

(* The positions st at which the parts of a path begin: the first, and more. *)
Cuts(p, st) ==
  /\ Len(st) \in Nat \ {0} /\ st[1] = 1 /\ Len(p) \in Nat
  /\ DOMAIN st = 1 .. Len(st)
  /\ \A j \in 1 .. Len(st) : st[j] \in 1 .. Len(p)
  /\ \A i, j \in 1 .. Len(st) : i < j => st[i] < st[j]

(* Where the k-th part ends.                                                *)
EndOf(p, st, k) == IF k = Len(st) THEN Len(p) ELSE st[k + 1] - 1

(* The floors of a path begin at cuts, the first at its first node.         *)
LEMMA FloorsCut ==
  ASSUME NEW g, NEW X, NEW p \in Seq(X), p # <<>>
  PROVE  Cuts(p, FloorStarts(g, p))
<1> DEFINE L == Len(p)
           s == [i \in DOMAIN p |-> i]
           A == {i \in DOMAIN p : i = 1 \/ g.node[p[i]].floor # g.node[p[i - 1]].floor}
           st == FloorStarts(g, p)
<1>1. L \in Nat \ {0} /\ DOMAIN p = 1 .. L
  BY EmptySeq, LenProperties
<1>2. s \in [1 .. L -> 1 .. L] /\ 1 \in A
  BY <1>1
<1>3. s \in Seq(1 .. L) /\ Len(s) = L
  <2> HIDE DEF s, L
  <2> QED
    BY <1>1, <1>2, Sequential
<1>4. st = Picked(s, A) /\ A \in SUBSET (1 .. L) /\ \A i \in 1 .. L : s[i] = i
  BY <1>1 DEF FloorStarts
<1> HIDE DEF L, s, A, st
<1>5. PICK m : Indexed(1 .. L, s, A, st, m)
  BY <1>3, <1>4, PickedIs
<1>6. /\ st \in Seq(1 .. L) /\ m \in [1 .. Len(st) -> A]
      /\ \A j \in 1 .. Len(st) : st[j] = s[m[j]]
      /\ \A i, j \in 1 .. Len(st) : i < j => m[i] < m[j]
      /\ \E j \in 1 .. Len(st) : m[j] = 1
  BY <1>2, <1>5 DEF Indexed
<1>7. \A j \in 1 .. Len(st) : st[j] = m[j] /\ m[j] \in 1 .. L
  BY <1>4, <1>6
<1>8. Len(st) \in Nat /\ DOMAIN st = 1 .. Len(st)
  BY <1>6, LenProperties
<1>9. PICK j \in 1 .. Len(st) : m[j] = 1
  BY <1>6
<1>10. j = 1
  <2> SUFFICES ASSUME j # 1 PROVE FALSE
    OBVIOUS
  <2>1. 1 \in 1 .. Len(st) /\ 1 < j
    BY <1>8
  <2>2. m[1] < 1 /\ m[1] \in 1 .. L
    BY <1>6, <1>7, <1>9, <2>1
  <2> QED
    BY <1>1, <2>2
<1>11. Len(st) \in Nat \ {0} /\ st[1] = 1
  BY <1>7, <1>8, <1>9, <1>10
<1> QED
  BY <1>1, <1>6, <1>7, <1>8, <1>11 DEF Cuts, L, st

(* Every part has a node of the path, and ends before the next begins.      *)
LEMMA PartsFit ==
  ASSUME NEW p, NEW st, Cuts(p, st), NEW k \in 1 .. Len(st)
  PROVE  /\ st[k] \in 1 .. Len(p) /\ EndOf(p, st, k) \in Nat
         /\ st[k] <= EndOf(p, st, k) /\ EndOf(p, st, k) <= Len(p)
<1>1. /\ Len(st) \in Nat \ {0} /\ Len(p) \in Nat /\ st[k] \in 1 .. Len(p)
  BY DEF Cuts
<1>2. CASE k = Len(st)
  BY <1>1, <1>2 DEF EndOf
<1>3. CASE k # Len(st)
  <2>1. k + 1 \in 1 .. Len(st) /\ k < k + 1
    BY <1>1, <1>3
  <2>2. st[k + 1] \in 1 .. Len(p) /\ st[k] < st[k + 1]
    BY <2>1 DEF Cuts
  <2>3. EndOf(p, st, k) = st[k + 1] - 1
    BY <1>3 DEF EndOf
  <2> QED
    BY <1>1, <2>2, <2>3
<1> QED
  BY <1>2, <1>3

(* Every hop of a path lies within a part or leads to the next.             *)
LEMMA HopsLie ==
  ASSUME NEW p, NEW st, Cuts(p, st), NEW i \in 1 .. Len(p) - 1
  PROVE  \E k \in 1 .. Len(st) : \/ st[k] <= i /\ i < EndOf(p, st, k)
                                 \/ k # Len(st) /\ i = st[k + 1] - 1
<1> DEFINE S == {j \in 1 .. Len(st) : st[j] <= i}
<1>1. /\ Len(st) \in Nat \ {0} /\ st[1] = 1 /\ Len(p) \in Nat
      /\ \A j \in 1 .. Len(st) : st[j] \in 1 .. Len(p)
  BY DEF Cuts
<1>2. S \in SUBSET (1 .. Len(st)) /\ S # {}
  <2>1. 1 \in 1 .. Len(st) /\ st[1] <= i
    BY <1>1
  <2> QED
    BY <2>1
<1>3. Max(S) \in S /\ \A j \in S : j <= Max(S)
  <2> DEFINE N == Len(st)
  <2>1. N \in Nat /\ S \in SUBSET (1 .. N)
    BY <1>1, <1>2
  <2> HIDE DEF S, N
  <2> QED
    BY <1>2, <2>1, MaxOf
<1> DEFINE k == Max(S)
<1>4. k \in 1 .. Len(st) /\ st[k] <= i
  BY <1>3
<1>5. k # Len(st) => k + 1 \in 1 .. Len(st) /\ ~ (st[k + 1] <= i)
  <2> SUFFICES ASSUME k # Len(st) PROVE k + 1 \in 1 .. Len(st) /\ ~ (st[k + 1] <= i)
    OBVIOUS
  <2> HIDE DEF k
  <2>1. k + 1 \in 1 .. Len(st) /\ k \in Nat
    BY <1>1, <1>4
  <2>2. k + 1 \notin S
    <3>1. \A j \in S : j <= k
      BY <1>3 DEF k
    <3>2. ~ (k + 1 <= k)
      BY <2>1
    <3> QED
      BY <3>1, <3>2
  <2> QED
    BY <2>1, <2>2
<1> HIDE DEF k
<1>6. CASE k = Len(st)
  <2>1. EndOf(p, st, k) = Len(p)
    BY <1>6 DEF EndOf
  <2>2. i < Len(p)
    BY <1>1
  <2> QED
    BY <1>4, <2>1, <2>2
<1>7. CASE k # Len(st)
  <2>1. EndOf(p, st, k) = st[k + 1] - 1
    BY <1>7 DEF EndOf
  <2>2. st[k + 1] \in 1 .. Len(p) /\ ~ (st[k + 1] <= i)
    BY <1>1, <1>5, <1>7
  <2>3. i < st[k + 1] - 1 \/ i = st[k + 1] - 1
    BY <1>1, <2>2
  <2> QED
    BY <1>4, <1>7, <2>1, <2>3
<1> QED
  BY <1>6, <1>7

(* The hops a path takes, and those of its k-th walk.                       *)
OwnHops(g, p, st, k) == SubSeq(PathEdges(g, p), st[k], EndOf(p, st, k) - 1)

(* The k-th walk and the k-th flight of a path cut at st.                   *)
WalkOf(g, p, st, k) ==
  LET own == OwnHops(g, p, st, k)
      floor == g.node[p[st[k]]].floor
      px == Sum([i \in DOMAIN own |-> Pixels(g.node[own[i].from], g.node[own[i].to])])
  IN [floor |-> floor, nodes |-> SubSeq(p, st[k], EndOf(p, st, k)), hops |-> own, first |-> st[k],
      points |-> Smoothed(g, floor, SubSeq(p, st[k], EndOf(p, st, k))),
      metres |-> RoundDiv(10 * px, ScaleOf(g, floor)),
      secs |-> RoundDiv(Sum([i \in DOMAIN own |-> BareDuration(g, own[i])]), 2),
      accessible |-> \A i \in DOMAIN own : g.edge[own[i].edge].accessible,
      assumed |-> \E i \in DOMAIN own : Assumed(g, g.edge[own[i].edge])]
FlightOf(g, p, st, k) ==
  LET h == PathEdges(g, p)[st[k + 1] - 1]
  IN [hop |-> h, secs |-> RoundDiv(BareDuration(g, h), 2),
      accessible |-> g.edge[h.edge].accessible,
      up |-> g.node[h.to].floor > g.node[h.from].floor]

(* A path's walks and flights are those.                                    *)
LEMMA PartsAre ==
  ASSUME NEW g, NEW p
  PROVE  /\ Segments(g, p) = [k \in DOMAIN FloorStarts(g, p) |-> WalkOf(g, p, FloorStarts(g, p), k)]
         /\ Transitions(g, p) =
              [k \in 1 .. Len(FloorStarts(g, p)) - 1 |-> FlightOf(g, p, FloorStarts(g, p), k)]
<1>1. Segments(g, p) = [k \in DOMAIN FloorStarts(g, p) |-> WalkOf(g, p, FloorStarts(g, p), k)]
  BY Zenon DEF Segments, WalkOf, OwnHops, EndOf
<1>2. Transitions(g, p) =
              [k \in 1 .. Len(FloorStarts(g, p)) - 1 |-> FlightOf(g, p, FloorStarts(g, p), k)]
  BY Zenon DEF Transitions, FlightOf
<1> QED
  BY <1>1, <1>2

(* The hops of a walk are those the path takes within it.                   *)
LEMMA OwnHopsAre ==
  ASSUME NEW g, NEW p, NEW st, Cuts(p, st), NEW k \in 1 .. Len(st)
  PROVE  /\ DOMAIN OwnHops(g, p, st, k) = 1 .. EndOf(p, st, k) - st[k]
         /\ Len(OwnHops(g, p, st, k)) = EndOf(p, st, k) - st[k]
         /\ \A i \in 1 .. EndOf(p, st, k) - st[k] :
              OwnHops(g, p, st, k)[i] = PathEdges(g, p)[st[k] + i - 1]
<1> DEFINE h == PathEdges(g, p)
           a == st[k]
           b == EndOf(p, st, k)
           own == SubSeq(h, a, b - 1)
           T == {h[i] : i \in a .. b - 1}
<1>1. a \in Nat /\ b \in Nat /\ a <= b
  BY PartsFit
<1> HIDE DEF a, b, h
<1>2. \A i \in a .. b - 1 : h[i] \in T
  OBVIOUS
<1> HIDE DEF T
<1>3. /\ own \in Seq(T) /\ Len(own) = IF a <= b - 1 THEN (b - 1) - a + 1 ELSE 0
      /\ \A i \in 1 .. (b - 1) - a + 1 : own[i] = h[a + i - 1]
  BY <1>1, <1>2, SubSeqProperties
<1>4. Len(own) = b - a /\ (b - 1) - a + 1 = b - a
  BY <1>1, <1>3
<1>5. DOMAIN own = 1 .. Len(own)
  BY <1>3, LenProperties
<1>6. /\ DOMAIN own = 1 .. b - a /\ Len(own) = b - a
      /\ \A i \in 1 .. b - a : own[i] = h[a + i - 1]
  BY <1>3, <1>4, <1>5
<1>7. own = OwnHops(g, p, st, k)
  BY DEF OwnHops, a, b, h
<1> QED
  BY <1>6, <1>7 DEF a, b, h

(***************************************************************************)
(* The answer's route, from its parts to the last instruction               *)
(***************************************************************************)

Walks == Segments(graph, plan.path)
Flights == Transitions(graph, plan.path)
Warned ==
  Warnings(graph, plan.path, Walks, Steps(Walks, Flights), FilterAt(plan.rung).overlay,
           Wheelchair, "accessibleRouteUnavailable" \in Relaxed)

(* A route whose parts, steps and warnings are w, f, s and g.               *)
Measured(r, w, f, s, g) ==
  /\ DOMAIN r = {"stage", "walks", "flights", "stops", "steps", "warnings",
                 "k", "points", "cum", "turns", "told"}
  /\ r.walks = w /\ r.flights = f /\ r.steps = s /\ r.warnings = g

Telling == {"walk", "turns", "marks", "share", "told"}

(* Only a request that was answered has a route; its parts are those of the *)
(* path, and its steps and warnings those of the parts.                     *)
RouteInv ==
  /\ route.stage \in {"none", "parts"} \cup Telling
  /\ route.stage # "none" => Answered
  /\ route.stage = "parts" => route.walks = Walks /\ route.flights = Flights
  /\ route.stage \in Telling => Measured(route, Walks, Flights, Steps(Walks, Flights), Warned)

(* A walk closed, simplified, and with its turns found.                     *)
AfterWalk(r, said, k, stg) ==
  [r EXCEPT !.told = said, !.k = k, !.stage = stg, !.points = <<>>, !.cum = <<>>, !.turns = <<>>]
AfterLine(r, points, cum) == [r EXCEPT !.stage = "turns", !.points = points, !.cum = cum]
AfterTurns(r, stg, turns) == [r EXCEPT !.stage = stg, !.turns = turns]

(* Telling changes nothing that was measured.                               *)
LEMMA MeasuredStays ==
  ASSUME NEW r, NEW w, NEW f, NEW s, NEW g, Measured(r, w, f, s, g),
         NEW a, NEW b, NEW c
  PROVE  /\ Measured(AfterWalk(r, a, b, c), w, f, s, g) /\ AfterWalk(r, a, b, c).stage = c
         /\ Measured(AfterLine(r, a, b), w, f, s, g) /\ AfterLine(r, a, b).stage = "turns"
         /\ Measured(AfterTurns(r, a, b), w, f, s, g) /\ AfterTurns(r, a, b).stage = a
<1>1. Measured(AfterWalk(r, a, b, c), w, f, s, g) /\ AfterWalk(r, a, b, c).stage = c
  BY DEF Measured, AfterWalk
<1>2. Measured(AfterLine(r, a, b), w, f, s, g) /\ AfterLine(r, a, b).stage = "turns"
  BY DEF Measured, AfterLine
<1>3. Measured(AfterTurns(r, a, b), w, f, s, g) /\ AfterTurns(r, a, b).stage = a
  BY DEF Measured, AfterTurns
<1> QED
  BY <1>1, <1>2, <1>3

(* What is read off the plan stays while the plan does.                     *)
LEMMA SamePlan ==
  ASSUME UNCHANGED vars
  PROVE  /\ Walks' = Walks /\ Flights' = Flights /\ Warned' = Warned /\ (Answered' <=> Answered)
<1>1. UNCHANGED <<graph, request, ctx>> /\ UNCHANGED <<phase, plan, reply>>
  BY DEF vars
<1>2. /\ (Evacuating' <=> Evacuating) /\ (Wheelchair' <=> Wheelchair) /\ q' = q
  BY <1>1, SameRequest
<1>3. Relaxed' = Relaxed
  BY <1>1 DEF Relaxed, Flags, IsLastResort
<1>4. Wheelchair' = Wheelchair
  BY <1>2 DEF Wheelchair
<1>5. FilterAt(plan.rung)' = FilterAt(plan.rung)
  BY <1>1, <1>2 DEF FilterAt, IsLastResort
<1>6. Walks' = Walks /\ Flights' = Flights /\ (Answered' <=> Answered)
  BY <1>1 DEF Walks, Flights, Answered
<1>7. Warned' = Warned
  BY <1>1, <1>3, <1>4, <1>5, <1>6 DEF Warned
<1> QED
  BY <1>6, <1>7

(* Closing a walk goes on to the next, or ends.                             *)
LEMMA ClosingStays ==
  ASSUME RouteInv, UNCHANGED vars, route.stage \in Telling, NEW said, Close(said)
  PROVE  RouteInv'
<1> DEFINE a == route.told \o said \o <<Closing(route.walks, route.flights, route.k)>>
           b == IF route.k = Len(route.walks) THEN "told" ELSE "walk"
<1>1. route' = AfterWalk(route, a, route.k + 1, b)
  BY DEF Close, AfterWalk
<1>2. Measured(route, Walks, Flights, Steps(Walks, Flights), Warned) /\ Answered
  BY DEF RouteInv, Telling
<1>3. /\ Measured(route', Walks, Flights, Steps(Walks, Flights), Warned)
      /\ route'.stage = b
  <2> HIDE DEF a, b
  <2> QED
    BY <1>1, <1>2, MeasuredStays
<1>4. b \in Telling
  BY DEF Telling
<1> QED
  BY <1>2, <1>3, <1>4, SamePlan DEF RouteInv, Telling

(* Every step keeps the route that of the path.                             *)
LEMMA RouteNext ==
  ASSUME RouteInv, [WNext]_allVars
  PROVE  RouteInv'
<1>1. CASE UNCHANGED allVars
  <2>1. UNCHANGED vars /\ route' = route
    BY <1>1 DEF allVars
  <2> QED
    BY <2>1, SamePlan DEF RouteInv, Telling
<1>2. CASE Search
  <2>1. phase # "idle"
    BY <1>2 DEF Search, Plan, TwoOpt, FieldHit, FieldMiss, FieldDone, DropStale, Settle, Reach,
                WalkOn, Unwind, Collected, Exhausted
  <2>2. route.stage = "none" /\ route' = route
    BY <1>2, <2>1 DEF Search, RouteInv, Answered
  <2> QED
    BY <2>2 DEF RouteInv, Telling
<1>3. ASSUME NEW qq \in Queries, NEW C \in ClosureSets, Request(qq, C)
      PROVE  RouteInv'
  <2>1. route'.stage = "none"
    BY <1>3 DEF Request, NoRoute
  <2> QED
    BY <2>1 DEF RouteInv, Telling
<1>4. CASE Guide
  <2>1. UNCHANGED vars
    BY <1>4 DEF Guide, Assemble, Measure, Simplify, FindTurns, AddConfirmations, Share
  <2>2. CASE Assemble
    <3>1. route'.stage = "parts" /\ route'.walks = Walks /\ route'.flights = Flights /\ Answered
      BY <2>2 DEF Assemble, Walks, Flights
    <3> QED
      BY <2>1, <3>1, SamePlan DEF RouteInv, Telling
  <2>3. CASE Measure
    <3>1. route.stage = "parts"
      BY <2>3 DEF Measure
    <3>2. route.walks = Walks /\ route.flights = Flights /\ Answered
      BY <3>1 DEF RouteInv
    <3>3. route' = [stage |-> "walk", walks |-> Walks, flights |-> Flights,
                stops |-> route.stops, steps |-> Steps(Walks, Flights), warnings |-> Warned,
                k |-> 1, points |-> <<>>, cum |-> <<>>, turns |-> <<>>, told |-> <<>>]
      BY <2>3, <3>2 DEF Measure, Warned
    <3>4. Measured(route', Walks, Flights, Steps(Walks, Flights), Warned) /\ route'.stage = "walk"
      BY <3>3 DEF Measured
    <3> QED
      BY <2>1, <3>2, <3>4, SamePlan DEF RouteInv, Telling
  <2>4. CASE Simplify
    <3>1. route.stage \in Telling
      BY <2>4 DEF Simplify, Telling
    <3>2. Measured(route, Walks, Flights, Steps(Walks, Flights), Warned) /\ Answered
      BY <3>1 DEF RouteInv, Telling
    <3>3. \/ Close(<<>>)
          \/ \E c, d : route' = AfterLine(route, c, d)
      BY <2>4 DEF Simplify, AfterLine
    <3>4. CASE \E c, d : route' = AfterLine(route, c, d)
      <4>1. /\ Measured(route', Walks, Flights, Steps(Walks, Flights), Warned)
            /\ route'.stage = "turns"
        BY <3>2, <3>4, MeasuredStays
      <4> QED
        BY <2>1, <3>2, <4>1, SamePlan DEF RouteInv, Telling
    <3> QED
      BY <2>1, <3>1, <3>3, <3>4, ClosingStays
  <2>5. CASE FindTurns \/ AddConfirmations
    <3>1. route.stage \in Telling
      BY <2>5 DEF FindTurns, AddConfirmations, Telling
    <3>2. Measured(route, Walks, Flights, Steps(Walks, Flights), Warned) /\ Answered
      BY <3>1 DEF RouteInv, Telling
    <3>3. \/ \E e : route' = AfterTurns(route, "marks", e)
          \/ \E e : route' = AfterTurns(route, "share", e)
      BY <2>5 DEF FindTurns, AddConfirmations, AfterTurns
    <3>4. /\ Measured(route', Walks, Flights, Steps(Walks, Flights), Warned)
          /\ route'.stage \in {"marks", "share"}
      BY <3>2, <3>3, MeasuredStays
    <3> QED
      BY <2>1, <3>2, <3>3, <3>4, SamePlan DEF RouteInv, Telling
  <2>6. CASE Share
    <3>1. route.stage \in Telling /\ \E said : Close(said)
      BY <2>6 DEF Share, Telling
    <3> QED
      BY <2>1, <3>1, ClosingStays
  <2> QED
    BY <1>4, <2>2, <2>3, <2>4, <2>5, <2>6 DEF Guide
<1> QED
  BY <1>1, <1>2, <1>3, <1>4 DEF WNext, Work

(***************************************************************************)
(* What the attempts before the one that found the route did not find       *)
(***************************************************************************)

(* The legs of a request: an evacuation has one, a tour one to each stop.    *)
LegCount == IF Evacuating THEN 1 ELSE Len(ctx.stops)
LegSource(m) == IF Evacuating \/ m = 1 THEN q.from ELSE ctx.stops[tour[m] - 1]
LegTarget(m, n) == IF Evacuating THEN n \in ExitsOf(graph) ELSE n = ctx.stops[tour[m + 1] - 1]

(* The k-th attempt could not have found every leg; and a leg leads from     *)
(* where it starts to where it goes.                                        *)
Blind(k, m) == \A n \in Reachable(HopsOf(graph, q, ctx, k), LegSource(m)) : ~LegTarget(m, n)
Missed(k) == \E m \in 1 .. LegCount : Blind(k, m)
Led(leg, m) == leg[1] = LegSource(m) /\ LegTarget(m, leg[Len(leg)])

(* Every attempt before the running one missed some leg, and the legs that    *)
(* were collected are the first of the tour, all of them once it is answered. *)
TriedInv ==
  Live =>
    /\ ~Evacuating =>
         /\ Placed(graph, q, ctx.stops)
         /\ \A m \in 1 .. Len(plan.legs) : Led(plan.legs[m], m)
         /\ phase # "idle" => Len(plan.legs) < Len(ctx.stops)
         /\ phase = "idle" => Len(plan.legs) = Len(ctx.stops)
    /\ \A k \in 1 .. Len(ctx.ladder) : k < rung => Missed(k)
    /\ phase = "order" => rung = 1

(* What does not change what was tried.                                     *)
LEMMA SameTries ==
  ASSUME UNCHANGED <<graph, request, ctx>>
  PROVE  /\ (Evacuating' <=> Evacuating) /\ q' = q
         /\ tour' = tour => /\ \A n, m : Led(n, m)' <=> Led(n, m)
                            /\ \A k : Missed(k)' <=> Missed(k)
<1>1. q' = q /\ (Evacuating' <=> Evacuating)
  BY SameRequest
<1>2. ASSUME tour' = tour
      PROVE  /\ LegCount' = LegCount
             /\ \A m : LegSource(m)' = LegSource(m)
             /\ \A m, n : LegTarget(m, n)' <=> LegTarget(m, n)
  BY <1>1, <1>2 DEF LegCount, LegSource, LegTarget
<1>3. ASSUME tour' = tour PROVE \A n, m : Led(n, m)' <=> Led(n, m)
  BY <1>2, <1>3 DEF Led
<1>4. ASSUME tour' = tour PROVE \A k : Missed(k)' <=> Missed(k)
  <2>1. \A k : HopsOf(graph, q, ctx, k)' = HopsOf(graph, q, ctx, k)
    BY <1>1
  <2>2. ASSUME NEW k, NEW m
        PROVE  Reachable(HopsOf(graph, q, ctx, k), LegSource(m))'
                 = Reachable(HopsOf(graph, q, ctx, k), LegSource(m))
    <3>1. HopsOf(graph, q, ctx, k)' = HopsOf(graph, q, ctx, k) /\ LegSource(m)' = LegSource(m)
      BY <1>2, <1>4, <2>1
    <3> QED
      BY <3>1 DEF Reachable
  <2>3. \A k, m : Blind(k, m)' <=> Blind(k, m)
    BY <1>2, <1>4, <2>2 DEF Blind
  <2> QED
    BY <1>2, <1>4, <2>3 DEF Missed
<1> QED
  BY <1>1, <1>3, <1>4

(* A step within an attempt.                                                *)
LEMMA TriedStays ==
  ASSUME TriedInv, Live, UNCHANGED <<graph, request, ctx>>, tour' = tour, rung' = rung,
         ~Evacuating => plan'.legs = plan.legs /\ (phase' = "idle" <=> phase = "idle"),
         phase' = "order" => phase = "order"
  PROVE  TriedInv'
<1>1. /\ (Evacuating' <=> Evacuating) /\ q' = q
      /\ (\A n, m : Led(n, m)' <=> Led(n, m)) /\ (\A k : Missed(k)' <=> Missed(k))
  BY SameTries
<1>2. ASSUME ~Evacuating
      PROVE  /\ Placed(graph, q, ctx.stops)'
             /\ \A m \in 1 .. Len(plan'.legs) : Led(plan.legs[m], m)'
             /\ phase' # "idle" => Len(plan'.legs) < Len(ctx'.stops)
             /\ phase' = "idle" => Len(plan'.legs) = Len(ctx'.stops)
  <2>1. /\ Placed(graph, q, ctx.stops)
        /\ \A m \in 1 .. Len(plan.legs) : Led(plan.legs[m], m)
        /\ phase # "idle" => Len(plan.legs) < Len(ctx.stops)
        /\ phase = "idle" => Len(plan.legs) = Len(ctx.stops)
    BY <1>2 DEF TriedInv
  <2>2. ASSUME NEW m \in 1 .. Len(plan'.legs) PROVE Led(plan.legs[m], m)'
    <3>1. plan'.legs[m] = plan.legs[m] /\ Led(plan.legs[m], m)
      BY <1>2, <2>1
    <3>2. \A n : Led(n, m)' <=> Led(n, m)
      BY <1>1
    <3> QED
      BY <3>1, <3>2 DEF Led
  <2> QED
    BY <1>1, <1>2, <2>1, <2>2
<1>3. (\A k \in 1 .. Len(ctx.ladder) : k < rung => Missed(k))'
  BY <1>1 DEF TriedInv
<1>4. (phase = "order" => rung = 1)'
  BY DEF TriedInv
<1> QED
  BY <1>1, <1>2, <1>3, <1>4 DEF TriedInv

(* A request comes.                                                         *)
LEMMA ArriveTries ==
  ASSUME SearchesInv, NEW qq \in Queries, NEW C \in ClosureSets, Arrive(qq, C)
  PROVE  TriedInv'
<1>1. /\ graph' = graph /\ qq.from \in DOMAIN graph.node
      /\ request' = [query |-> qq, closures |-> C]
      /\ plan' = Nothing /\ rung' = 1
  BY DEF Arrive
<1>2. q' = qq
  BY <1>1 DEF q
<1>3. CASE Rejection(graph, qq) # 0
  <2>1. phase' = "idle" /\ reply'.status = Rejection(graph, qq)
    BY <1>3 DEF Arrive
  <2>2. Rejection(graph, qq) # 200
    BY DEF Rejection
  <2> QED
    BY <2>1, <2>2 DEF TriedInv, Live
<1>4. CASE Rejection(graph, qq) = 0
  <2>1. ctx' = Context(graph, qq, C) /\ phase' # "idle"
    BY <1>4 DEF Arrive
  <2>2. ~Evacuating' => Placed(graph', q', ctx'.stops) /\ Len(ctx'.stops) > 0
    <3>1. qq.mode # "evacuate" => /\ Placed(graph, qq, Context(graph, qq, C).stops)
                                  /\ Len(Context(graph, qq, C).stops) > 0
      BY <1>1, <1>4, StopsPlaced DEF SearchesInv, GraphInv
    <3> QED
      BY <1>1, <1>2, <2>1, <3>1 DEF Evacuating
  <2>3. Len(plan'.legs) = 0
    BY <1>1 DEF Nothing
  <2>4. \A k \in 1 .. Len(ctx'.ladder) : ~ (k < rung')
    BY <1>1
  <2> QED
    BY <1>1, <2>1, <2>2, <2>3, <2>4 DEF TriedInv
<1> QED
  BY <1>3, <1>4

(* A search is for the leg after those collected.                           *)
LEMMA LegSought ==
  ASSUME SearchesInv, TriedInv, phase \in {"search", "unwind"}, stage = "primary"
  PROVE  \E m \in 1 .. LegCount :
           /\ Source = LegSource(m) /\ \A n : Goal(n) <=> LegTarget(m, n)
           /\ ~Evacuating => m = Len(plan.legs) + 1
<1>1. Live /\ skip = {} /\ PlanTyped(Nodes, plan)
  BY DEF SearchesInv, ContextInv, Live
<1>2. CASE Evacuating
  <2>1. 1 \in 1 .. LegCount
    BY <1>2 DEF LegCount
  <2>2. Source = LegSource(1) /\ \A n : Goal(n) <=> LegTarget(1, n)
    BY <1>1, <1>2 DEF Source, LegSource, Goal, LegTarget
  <2> QED
    BY <1>2, <2>1, <2>2
<1>3. CASE ~Evacuating
  <2> DEFINE m == Len(plan.legs) + 1
  <2>1. Placed(graph, q, ctx.stops) /\ Len(plan.legs) < Len(ctx.stops)
    BY <1>1, <1>3 DEF TriedInv
  <2>2. /\ Len(plan.legs) \in Nat /\ Len(ctx.stops) \in Nat
        /\ (Len(plan.legs) = 0 <=> plan.legs = <<>>)
    BY <1>1, <2>1, LenProperties, EmptySeq DEF Placed, PlanTyped
  <2>3. m \in 1 .. LegCount
    BY <1>3, <2>1, <2>2 DEF LegCount
  <2>4. m = 1 <=> plan.legs = <<>>
    BY <2>2
  <2>5. Source = LegSource(m)
    BY <1>3, <2>4 DEF Source, LegSource
  <2>6. Len(plan.legs) + 2 = m + 1
    BY <2>2
  <2> HIDE DEF m
  <2>7. \A n : Goal(n) <=> LegTarget(m, n)
    BY <1>3, <2>6 DEF Goal, LegTarget
  <2> QED
    BY <2>3, <2>5, <2>7 DEF m
<1> QED
  BY <1>2, <1>3

(* One that runs dry has missed its leg,                                    *)
LEMMA ExhaustedMisses ==
  ASSUME SearchesInv, TriedInv, phase = "search", heap = {}, stage = "primary"
  PROVE  Missed(rung)
<1>1. PICK m \in 1 .. LegCount : Source = LegSource(m) /\ \A n : Goal(n) <=> LegTarget(m, n)
  BY LegSought
<1>2. /\ Searching(Nodes, Legals, Prices, {Source}, dist, prev, settled, heap)
      /\ \A n \in settled : ~Goal(n)
  BY DEF SearchesInv, SearchInv
<1>3. Source \in settled /\ \A h \in Legals : h.from \in settled => h.to \in settled
  BY <1>2 DEF Searching
<1>4. Reachable(Legals, Source) \subseteq settled
  <2>1. IsFiniteSet(Nodes)
    BY DEF SearchesInv, GraphInv, WellFormed, Nodes
  <2> QED
    BY <1>3, <2>1, ReachableWithin
<1>5. Blind(rung, m)
  BY <1>1, <1>2, <1>4 DEF Blind, Legals
<1> QED
  BY <1>5 DEF Missed

(* so the next attempt follows one that missed.                             *)
LEMMA ExhaustedTries ==
  ASSUME SearchesInv, TriedInv, Exhausted
  PROVE  TriedInv'
<1>1. /\ phase = "search" /\ heap = {} /\ UNCHANGED <<graph, request, ctx>> /\ UNCHANGED <<stage, tour>>
  BY DEF Exhausted
<1>2. stage \in {"primary", "alternative"} /\ (stage = "alternative" => Evacuating) /\ Live
      /\ rung \in 1 .. Len(ctx.ladder) + 1
  BY <1>1 DEF SearchesInv, ContextInv, Live
<1>3. CASE stage = "alternative"
  <2>1. UNCHANGED <<rung, plan>> /\ phase' = "idle"
    BY <1>3 DEF Exhausted, Answer
  <2> QED
    BY <1>1, <1>2, <1>3, <2>1, TriedStays
<1>4. CASE stage = "primary"
  <2>1. plan' = Nothing /\ \/ phase' = "search" /\ rung' = rung + 1
                           \/ phase' = "idle" /\ reply'.status = 404
    BY <1>1, <1>4 DEF Exhausted, Answer
  <2>2. CASE phase' = "idle" /\ reply'.status = 404
    BY <2>2 DEF TriedInv, Live
  <2>3. CASE phase' = "search" /\ rung' = rung + 1
    <3>1. /\ (Evacuating' <=> Evacuating) /\ q' = q
          /\ (\A k : Missed(k)' <=> Missed(k))
      BY <1>1, SameTries
    <3>2. Len(plan'.legs) = 0
      BY <2>1 DEF Nothing
    <3>3. ASSUME ~Evacuating
          PROVE  Placed(graph', q', ctx'.stops) /\ Len(plan'.legs) < Len(ctx'.stops)
      <4>1. /\ Placed(graph, q, ctx.stops) /\ Len(plan.legs) < Len(ctx.stops)
            /\ PlanTyped(Nodes, plan)
        BY <1>1, <1>2, <3>3 DEF TriedInv, SearchesInv, ContextInv
      <4>2. Len(plan.legs) \in Nat /\ Len(ctx.stops) \in Nat
        BY <4>1, LenProperties DEF Placed, PlanTyped
      <4> QED
        BY <1>1, <3>1, <3>2, <4>1, <4>2
    <3>4. ASSUME NEW k \in 1 .. Len(ctx.ladder), k < rung + 1 PROVE Missed(k)
      <4>1. CASE k < rung
        BY <1>2, <4>1 DEF TriedInv
      <4>2. CASE k = rung
        BY <1>1, <1>4, <4>2, ExhaustedMisses
      <4> QED
        BY <1>2, <3>4, <4>1, <4>2
    <3>5. (\A k \in 1 .. Len(ctx.ladder) : k < rung => Missed(k))'
      BY <1>1, <2>3, <3>1, <3>4
    <3> QED
      BY <2>3, <3>1, <3>2, <3>3, <3>5 DEF TriedInv
  <2> QED
    BY <2>1, <2>2, <2>3
<1> QED
  BY <1>2, <1>3, <1>4

(* A path is collected.                                                     *)
LEMMA CollectedTries ==
  ASSUME SearchesInv, TriedInv, Collected
  PROVE  TriedInv'
<1> DEFINE legs == Append(plan.legs, path)
           whole == IF plan.path = <<>> THEN path ELSE plan.path \o Tail(path)
           exit == path[Len(path)]
<1>1. /\ phase = "unwind" /\ cursor = None /\ UNCHANGED <<graph, request, ctx>>
      /\ UNCHANGED <<tour, rung>>
  BY DEF Collected
<1>2. /\ PlanTyped(Nodes, plan) /\ stage \in {"primary", "alternative"} /\ Live
      /\ stage = "alternative" => Evacuating
  BY <1>1 DEF SearchesInv, ContextInv, Live
<1>3. phase' \in {"search", "idle"}
  BY DEF Collected, RouteKnown, Answer
<1>4. CASE Evacuating
  BY <1>1, <1>2, <1>3, <1>4, TriedStays
<1>5. CASE ~Evacuating
  <2>1. path # <<>> /\ path[1] = Source /\ Goal(exit) /\ Chain(Nodes, path, Legals)
    BY <1>1 DEF SearchesInv, UnwindInv
  <2>2. /\ plan' = WithLeg(plan, whole, rung, legs)
        /\ IF Len(legs) < Len(ctx.stops)
           THEN phase' = "search"
           ELSE phase' = "idle"
    BY <1>2, <1>5 DEF Collected, WithLeg, RouteKnown, Answer
  <2>3. /\ legs \in Seq(Seq(Nodes)) /\ Len(legs) = Len(plan.legs) + 1 /\ Len(plan.legs) \in Nat
        /\ legs[Len(plan.legs) + 1] = path
        /\ \A m \in 1 .. Len(plan.legs) : legs[m] = plan.legs[m]
    <3> DEFINE X == Seq(Nodes)
    <3>1. plan.legs \in Seq(X) /\ path \in X
      BY <1>2, <2>1 DEF Chain, PlanTyped
    <3> HIDE DEF X
    <3>2. /\ Append(plan.legs, path) \in Seq(X) /\ Len(Append(plan.legs, path)) = Len(plan.legs) + 1
          /\ Len(plan.legs) \in Nat
          /\ Append(plan.legs, path)[Len(plan.legs) + 1] = path
          /\ \A m \in 1 .. Len(plan.legs) : Append(plan.legs, path)[m] = plan.legs[m]
      BY <3>1, OneMore, LenProperties
    <3> QED
      BY <3>2 DEF X
  <2>4. /\ Placed(graph, q, ctx.stops) /\ Len(ctx.stops) \in Nat
        /\ \A m \in 1 .. Len(plan.legs) : Led(plan.legs[m], m)
        /\ Len(plan.legs) < Len(ctx.stops)
        /\ \A k \in 1 .. Len(ctx.ladder) : k < rung => Missed(k)
    BY <1>1, <1>2, <1>5, LenProperties DEF TriedInv, Placed
  <2>5. Led(path, Len(plan.legs) + 1)
    BY <1>1, <1>2, <1>5, <2>1, LegSought DEF Led
  <2> HIDE DEF legs, whole
  <2>6. plan'.legs = legs
    BY <1>2, <2>2, <2>3, LongerPlan
  <2>7. ASSUME NEW m \in 1 .. Len(legs) PROVE Led(legs[m], m)
    <3>1. m \in 1 .. Len(plan.legs) \/ m = Len(plan.legs) + 1
      BY <2>3
    <3> QED
      BY <2>3, <2>4, <2>5, <3>1
  <2>8. /\ (Evacuating' <=> Evacuating) /\ q' = q
        /\ (\A n, m : Led(n, m)' <=> Led(n, m)) /\ (\A k : Missed(k)' <=> Missed(k))
    BY <1>1, SameTries
  <2>9. \A m \in 1 .. Len(plan'.legs) : Led(plan.legs[m], m)'
    BY <2>6, <2>7, <2>8 DEF Led
  <2>10. /\ phase' # "idle" => Len(plan'.legs) < Len(ctx'.stops)
         /\ phase' = "idle" => Len(plan'.legs) = Len(ctx'.stops)
    BY <1>1, <2>2, <2>3, <2>4, <2>6
  <2>11. Placed(graph', q', ctx'.stops)
    BY <1>1, <2>4, <2>8
  <2> QED
    BY <1>1, <1>3, <2>4, <2>8, <2>9, <2>10, <2>11 DEF TriedInv
<1> QED
  BY <1>4, <1>5

(* A field is followed, or the ladder taken.                                *)
LEMMA FollowTries ==
  ASSUME SearchesInv, TriedInv, phase \in {"lookup", "field"},
         UNCHANGED <<graph, request, ctx, tour, stage, rung>>, NEW f, Follow(f)
  PROVE  TriedInv'
<1>1. Evacuating /\ Live
  BY DEF SearchesInv, FieldInv, Live
<1>2. phase' \in {"walk", "search"}
  BY DEF Follow
<1> QED
  BY <1>1, <1>2, TriedStays

(* Every step keeps what was tried.                                         *)
LEMMA TriedNext ==
  ASSUME SearchesInv, TourInv, TriedInv, [WNext]_allVars
  PROVE  TriedInv'
<1>1. CASE UNCHANGED vars
  <2>1. UNCHANGED <<graph, request, ctx>> /\ UNCHANGED <<phase, tour, stage, rung, plan, reply>>
    BY <1>1 DEF vars
  <2>2. CASE Live
    BY <2>1, <2>2, TriedStays DEF TriedInv, Live
  <2>3. CASE ~Live
    BY <2>1, <2>3 DEF TriedInv, Live
  <2> QED
    BY <2>2, <2>3
<1>2. CASE Plan
  <2>1. CASE TwoOpt
    <3>1. /\ phase = "order" /\ phase' \in {"order", "search"}
          /\ UNCHANGED <<graph, request, ctx>> /\ UNCHANGED <<stage, rung, plan>>
      BY <2>1 DEF TwoOpt
    <3>2. ~Evacuating /\ Live /\ plan = Nothing
      BY <3>1 DEF SearchesInv, OrderInv, Live
    <3>3. Placed(graph, q, ctx.stops) /\ Len(plan.legs) < Len(ctx.stops) /\ rung = 1
      BY <3>1, <3>2 DEF TriedInv
    <3>4. plan.legs = <<>> /\ Len(plan.legs) = 0
      BY <3>2 DEF Nothing
    <3>5. (Evacuating' <=> Evacuating) /\ q' = q
      BY <3>1, SameTries
    <3>6. (\A m \in 1 .. Len(plan.legs) : Led(plan.legs[m], m))'
      BY <3>1, <3>4
    <3>7. (\A k \in 1 .. Len(ctx.ladder) : k < rung => Missed(k))'
      BY <3>1, <3>3
    <3> QED
      BY <3>1, <3>3, <3>5, <3>6, <3>7 DEF TriedInv
  <2>2. CASE FieldHit
    <3>1. PICK i \in Kept(FieldKey) : Follow(fields[i])
      BY <2>2 DEF FieldHit
    <3>2. UNCHANGED <<graph, request, ctx, tour, stage, rung>> /\ phase = "lookup"
      BY <2>2 DEF FieldHit
    <3> QED
      BY <3>1, <3>2, FollowTries
  <2>3. CASE FieldMiss
    <3>1. UNCHANGED <<graph, request, ctx, tour, stage, rung>> /\ plan' = plan
          /\ phase = "lookup" /\ phase' = "field"
      BY <2>3 DEF FieldMiss
    <3> QED
      BY <3>1, TriedStays DEF Live
  <2>4. CASE FieldDone
    <3>1. /\ UNCHANGED <<graph, request, ctx, tour, stage, rung>> /\ phase = "field"
          /\ \E f : Follow(f)
      BY <2>4 DEF FieldDone
    <3> QED
      BY <3>1, FollowTries
  <2>5. CASE DropStale \/ Settle \/ Unwind
    <3>1. UNCHANGED <<graph, request, ctx, tour, stage, rung>> /\ UNCHANGED <<plan, phase>>
          /\ phase # "idle"
      BY <2>5 DEF DropStale, Settle, Unwind
    <3> QED
      BY <3>1, TriedStays DEF Live
  <2>6. CASE Reach
    <3>1. UNCHANGED <<graph, request, ctx, tour, stage, rung>> /\ phase = "search" /\ phase' = "unwind"
      BY <2>6 DEF Reach
    <3>2. \/ plan' = plan
          \/ \E c : plan' = [plan EXCEPT !.cost = c]
      BY <2>6 DEF Reach
    <3>3. PlanTyped(Nodes, plan)
      BY <3>1 DEF SearchesInv, ContextInv, Live
    <3>4. \A c : [plan EXCEPT !.cost = c].legs = plan.legs /\ [plan EXCEPT !.cost = c].path = plan.path
      BY <3>3, CostedPlan
    <3>5. plan'.path = plan.path /\ plan'.legs = plan.legs
      BY <3>2, <3>4
    <3> QED
      BY <3>1, <3>5, TriedStays DEF Live
  <2>7. CASE WalkOn
    <3>1. /\ phase = "walk" /\ UNCHANGED <<graph, request, ctx>> /\ UNCHANGED <<tour, rung>>
      BY <2>7 DEF WalkOn
    <3>2. Evacuating /\ Live
      BY <3>1 DEF SearchesInv, FieldInv, Live
    <3>3. CASE cursor \in DOMAIN prev
      <4>1. UNCHANGED <<phase, stage, plan>>
        BY <2>7, <3>3 DEF WalkOn
      <4> QED
        BY <3>1, <3>2, <4>1, TriedStays
    <3>4. CASE cursor \notin DOMAIN prev
      <4>1. \/ phase' = "search" /\ stage' = "alternative"
            \/ phase' = "idle"
        BY <2>7, <3>4 DEF WalkOn, RouteKnown, Answer
      <4> QED
        BY <3>1, <3>2, <4>1, TriedStays
    <3> QED
      BY <3>3, <3>4
  <2> QED
    BY <1>2, <2>1, <2>2, <2>3, <2>4, <2>5, <2>6, <2>7, CollectedTries, ExhaustedTries DEF Plan
<1>3. ASSUME NEW qq \in Queries, NEW C \in ClosureSets, Request(qq, C)
      PROVE  TriedInv'
  BY <1>3, ArriveTries DEF Request
<1>4. CASE Guide
  BY <1>1, <1>4 DEF Guide, Assemble, Measure, Simplify, FindTurns, AddConfirmations, Share
<1>5. CASE UNCHANGED allVars
  BY <1>1, <1>5 DEF allVars
<1> QED
  BY <1>2, <1>3, <1>4, <1>5 DEF WNext, Work, Search

(***************************************************************************)
(* The answer says exactly what was given up                                *)
(***************************************************************************)

(* What the flags of an attempt tell of it.                                 *)
LEMMA FlagsTell ==
  ASSUME ctx.ladder = Ladder(q), rung \in 1 .. Len(ctx.ladder) + 1
  PROVE  /\ HasTags /\ "tagConstraintsRelaxed" \notin Flags(rung) => FilterOf(q, ctx, rung).tags
         /\ Wheelchair /\ "accessibleRouteUnavailable" \notin Flags(rung) =>
              FilterOf(q, ctx, rung).access
         /\ "tagConstraintsRelaxed" \in Flags(rung) => rung >= 2
         /\ "accessibleRouteUnavailable" \in Flags(rung) =>
              Wheelchair /\ Len(ctx.ladder) >= 2 /\ rung >= Len(ctx.ladder)
         /\ "closuresIgnored" \in Flags(rung) => rung > Len(ctx.ladder)
<1> DEFINE l == ctx.ladder
           n == Len(l)
<1>1. /\ n \in 1 .. 3
      /\ (l[1].tags <=> HasTags) /\ (l[1].access <=> Wheelchair)
      /\ HasTags => /\ n >= 2 /\ l[2].label = "tagConstraintsRelaxed" /\ (l[2].access <=> Wheelchair)
      /\ Wheelchair => /\ n = (IF HasTags THEN 3 ELSE 2)
                       /\ l[n].label = "accessibleRouteUnavailable"
      /\ ~Wheelchair => n = (IF HasTags THEN 2 ELSE 1)
  BY LadderIs DEF HasTags, Wheelchair
<1>2. \A r : /\ FilterOf(q, ctx, r).tags <=> ~ (r > n) /\ l[r].tags
             /\ FilterOf(q, ctx, r).access <=> ~ (r > n) /\ l[r].access
  BY DEF FilterOf
<1>3. Flags(rung) = IF rung > n THEN {"closuresIgnored"} \cup {l[k].label : k \in 2 .. n}
                    ELSE {l[k].label : k \in 2 .. rung}
  BY DEF Flags, IsLastResort
<1>4. rung \in 1 .. n + 1
  OBVIOUS
<1> HIDE DEF n, l
<1>5. \A k \in 2 .. n : k <= rung => l[k].label \in Flags(rung)
  BY <1>1, <1>3, <1>4
<1>6. ASSUME HasTags, "tagConstraintsRelaxed" \notin Flags(rung) PROVE FilterOf(q, ctx, rung).tags
  <2>1. ~ (2 <= rung)
    BY <1>1, <1>5, <1>6
  <2>2. rung = 1 /\ ~ (1 > n)
    BY <1>1, <1>4, <2>1
  <2> QED
    BY <1>1, <1>2, <1>6, <2>2
<1>7. ASSUME Wheelchair, "accessibleRouteUnavailable" \notin Flags(rung)
      PROVE  FilterOf(q, ctx, rung).access
  <2>1. ~ (n <= rung)
    <3>1. n \in 2 .. n /\ l[n].label = "accessibleRouteUnavailable"
      BY <1>1, <1>7
    <3> QED
      BY <1>5, <1>7, <3>1
  <2>2. rung = 1 \/ (rung = 2 /\ n = 3)
    BY <1>1, <1>4, <2>1
  <2>3. n = 3 => HasTags
    BY <1>1
  <2>4. l[rung].access /\ ~ (rung > n)
    BY <1>1, <1>7, <2>1, <2>2, <2>3
  <2> QED
    BY <1>2, <2>4
<1>8. ASSUME "accessibleRouteUnavailable" \in Flags(rung)
      PROVE  Wheelchair /\ n >= 2 /\ rung >= n
  <2>1. PICK k \in 2 .. n : k <= rung /\ l[k].label = "accessibleRouteUnavailable"
    <3>1. CASE rung > n
      <4>1. PICK k \in 2 .. n : l[k].label = "accessibleRouteUnavailable"
        BY <1>3, <1>8, <3>1
      <4> QED
        BY <1>1, <1>4, <3>1, <4>1
    <3>2. CASE ~ (rung > n)
      <4>1. PICK k \in 2 .. rung : l[k].label = "accessibleRouteUnavailable"
        BY <1>3, <1>8, <3>2
      <4> QED
        BY <1>1, <1>4, <3>2, <4>1
    <3> QED
      BY <3>1, <3>2
  <2>2. ~ (k = 2 /\ HasTags)
    BY <1>1, <2>1
  <2>3. Wheelchair
    BY <1>1, <2>1, <2>2
  <2>4. k = n
    BY <1>1, <2>1, <2>2, <2>3
  <2> QED
    BY <1>1, <1>4, <2>1, <2>3, <2>4
<1>9. ASSUME "tagConstraintsRelaxed" \in Flags(rung) PROVE rung >= 2
  <2>1. \E k \in 2 .. n : k <= rung
    <3>1. CASE rung > n
      <4>1. PICK k \in 2 .. n : l[k].label = "tagConstraintsRelaxed"
        BY <1>3, <1>9, <3>1
      <4> QED
        BY <1>1, <1>4, <3>1, <4>1
    <3>2. CASE ~ (rung > n)
      <4>1. PICK k \in 2 .. rung : l[k].label = "tagConstraintsRelaxed"
        BY <1>3, <1>9, <3>2
      <4> QED
        BY <1>1, <1>4, <3>2, <4>1
    <3> QED
      BY <3>1, <3>2
  <2> QED
    BY <1>1, <1>4, <2>1
<1>10. ASSUME "closuresIgnored" \in Flags(rung), ~ (rung > n) PROVE FALSE
  <2>1. PICK k \in 2 .. rung : l[k].label = "closuresIgnored"
    BY <1>3, <1>10
  <2>2. k \in 2 .. n
    BY <1>1, <1>4, <1>10, <2>1
  <2>3. l[k].label \in {"tagConstraintsRelaxed", "accessibleRouteUnavailable"}
    <3>1. k = 2 \/ k = 3
      BY <1>1, <2>2
    <3> QED
      BY <1>1, <2>2, <3>1
  <2> QED
    BY <2>1, <2>3
<1> QED
  BY <1>6, <1>7, <1>8, <1>9, <1>10 DEF n, l

(* An attempt of the ladder allows every hop that its filter does, under the  *)
(* profile asked for.                                                       *)
LEMMA AttemptAllows ==
  ASSUME NEW r, ~ (r > Len(ctx.ladder)), NEW e,
         e.name = FilterOf(q, ctx, r).name, e.overlay = ctx.own,
         e.tags <=> ctx.ladder[r].tags, e.access <=> ctx.ladder[r].access
  PROVE  HopsOf(graph, q, ctx, r) = Legal(graph, q, e, ctx.profile)
<1> DEFINE f == FilterOf(q, ctx, r)
<1>1. /\ f.overlay = ctx.own /\ (f.tags <=> ctx.ladder[r].tags)
      /\ (f.access <=> ctx.ladder[r].access) /\ ProfileOf(ctx, r) = ctx.profile
  BY DEF FilterOf, ProfileOf
<1> HIDE DEF f
<1>2. \A h : Passes(graph, q, f, h) <=> Passes(graph, q, e, h)
  BY <1>1 DEF Passes, f
<1>3. Legal(graph, q, f, ctx.profile) = Legal(graph, q, e, ctx.profile)
  BY <1>2 DEF Legal
<1> QED
  BY <1>1, <1>3 DEF HopsOf, f

(* The first attempt allows what was asked for, the last of the ladder what   *)
(* is left of it without tags and accessibility.                            *)
LEMMA EndsTried ==
  ASSUME ctx.ladder = Ladder(q)
  PROVE  /\ HopsOf(graph, q, ctx, 1) = Legal(graph, q, FilterAt(1), ctx.profile)
         /\ HopsOf(graph, q, ctx, Len(ctx.ladder))
              = Legal(graph, q, [FilterAt(1) EXCEPT !.tags = FALSE, !.access = FALSE], ctx.profile)
<1> DEFINE l == ctx.ladder
           n == Len(l)
           e == [FilterAt(1) EXCEPT !.tags = FALSE, !.access = FALSE]
<1>1. /\ n \in 1 .. 3 /\ (l[1].tags <=> HasTags) /\ (l[1].access <=> Wheelchair)
      /\ HasTags => n >= 2 /\ ~l[2].tags /\ (l[2].access <=> Wheelchair)
      /\ Wheelchair => ~l[n].tags /\ ~l[n].access
      /\ ~Wheelchair => n = (IF HasTags THEN 2 ELSE 1)
  BY LadderIs DEF HasTags, Wheelchair
<1>2. ~ (1 > n) /\ ~ (n > n)
  BY <1>1
<1>3. ~l[n].tags /\ ~l[n].access
  <2>1. CASE Wheelchair
    BY <1>1, <2>1
  <2>2. CASE ~Wheelchair /\ HasTags
    BY <1>1, <2>2
  <2>3. CASE ~Wheelchair /\ ~HasTags
    BY <1>1, <2>3
  <2> QED
    BY <2>1, <2>2, <2>3
<1>4. FilterAt(1) = FilterOf(q, ctx, 1) /\ ProfileOf(ctx, 1) = ctx.profile
  BY <1>2, AttemptIs DEF ProfileOf
<1>5. /\ e.name = (IF q.mode = "evacuate" THEN "emergency" ELSE q.name)
      /\ e.overlay = ctx.own /\ ~e.tags /\ ~e.access
  BY <1>2, <1>4 DEF FilterOf
<1>6. FilterOf(q, ctx, n).name = (IF q.mode = "evacuate" THEN "emergency" ELSE q.name)
  BY DEF FilterOf
<1> HIDE DEF e, n
<1>7. HopsOf(graph, q, ctx, n) = Legal(graph, q, e, ctx.profile)
  BY <1>2, <1>3, <1>5, <1>6, AttemptAllows DEF n
<1> QED
  BY <1>4, <1>7 DEF HopsOf, e, n

(* The attempt before the one that gives up accessibility allows every hop  *)
(* that honours it.                                                         *)
LEMMA StepFreeTried ==
  ASSUME ctx.ladder = Ladder(q), Wheelchair, Len(ctx.ladder) >= 2
  PROVE  HopsOf(graph, q, ctx, Len(ctx.ladder) - 1)
           = Legal(graph, q, [FilterAt(1) EXCEPT !.tags = FALSE], ctx.profile)
<1> DEFINE l == ctx.ladder
           n == Len(l)
           f == FilterOf(q, ctx, n - 1)
           e == [FilterOf(q, ctx, 1) EXCEPT !.tags = FALSE]
<1>1. /\ n \in 1 .. 3 /\ (l[1].tags <=> HasTags) /\ l[1].access
      /\ HasTags => n = 3 /\ ~l[2].tags /\ l[2].access
      /\ ~HasTags => n = 2
  BY LadderIs DEF HasTags, Wheelchair
<1>2. ~ (n - 1 > n) /\ ~ (1 > n)
  BY <1>1
<1>3. /\ f.name = (IF q.mode = "evacuate" THEN "emergency" ELSE q.name) /\ f.overlay = ctx.own
      /\ (f.tags <=> l[n - 1].tags) /\ (f.access <=> l[n - 1].access)
  BY <1>2 DEF FilterOf
<1>4. /\ e.name = (IF q.mode = "evacuate" THEN "emergency" ELSE q.name) /\ e.overlay = ctx.own
      /\ ~e.tags /\ (e.access <=> l[1].access)
  BY <1>2 DEF FilterOf
<1>5. ~l[n - 1].tags /\ l[n - 1].access
  <2>1. CASE HasTags
    <3>1. n - 1 = 2
      BY <1>1, <2>1
    <3> QED
      BY <1>1, <2>1, <3>1
  <2>2. CASE ~HasTags
    <3>1. n - 1 = 1
      BY <1>1, <2>2
    <3> QED
      BY <1>1, <2>2, <3>1
  <2> QED
    BY <2>1, <2>2
<1>6. ProfileOf(ctx, n - 1) = ctx.profile
  BY <1>2 DEF ProfileOf
<1>7. FilterAt(1) = FilterOf(q, ctx, 1)
  BY AttemptIs
<1> HIDE DEF f, e, n
<1>8. \A h : Passes(graph, q, f, h) <=> Passes(graph, q, e, h)
  BY <1>1, <1>3, <1>4, <1>5 DEF Passes
<1>9. Legal(graph, q, f, ctx.profile) = Legal(graph, q, e, ctx.profile)
  BY <1>8 DEF Legal
<1> QED
  BY <1>6, <1>7, <1>9 DEF HopsOf, f, e, n

(* A product of numbers that are not 0 is no less than any of them.         *)
LEMMA ProductAbove ==
  ASSUME NEW S, IsFiniteSet(S), \A c \in S : c.times \in Nat \ {0}, NEW c \in S
  PROVE  Product(S) \in Nat /\ c.times <= Product(S)
<1> DEFINE f == CHOOSE f : IsProduct(S, f)
           N == Cardinality(S)
           Over(s) == f[s] \in Nat \ {0} /\ \A x \in s : x.times <= f[s]
           G == {k \in 0 .. N : \A s \in SUBSET S : Cardinality(s) = k => Over(s)}
<1>1. IsProduct(S, f)
  BY ProductExists
<1>2. N \in Nat
  BY FS_CardinalityType
<1> HIDE DEF f
<1>3. \A s \in SUBSET S : f[s] = IF s = {} THEN 1
          ELSE (CHOOSE x \in s : TRUE).times * f[s \ {CHOOSE x \in s : TRUE}]
  BY <1>1 DEF IsProduct
<1>4. \A s \in SUBSET S : IsFiniteSet(s) /\ Cardinality(s) \in Nat
  BY FS_Subset, FS_CardinalityType
<1>5. 0 \in G
  <2>1. \A s \in SUBSET S : Cardinality(s) = 0 => s = {}
    BY <1>4, FS_EmptySet
  <2>2. Over({})
    <3>1. {} \in SUBSET S
      OBVIOUS
    <3>2. f[{}] = 1
      BY <1>3, <3>1
    <3> QED
      BY <3>2
  <2> HIDE DEF Over
  <2> QED
    BY <1>2, <2>1, <2>2
<1>6. ASSUME NEW k \in 1 .. N, k - 1 \in G PROVE k \in G
  <2> SUFFICES ASSUME NEW s \in SUBSET S, Cardinality(s) = k
               PROVE  Over(s)
    BY <1>2
  <2> DEFINE x == CHOOSE y \in s : TRUE
             r == s \ {x}
  <2>1. s # {}
    BY FS_EmptySet
  <2>2. x \in s
    BY <2>1
  <2>3. Cardinality(r) = k - 1 /\ r \in SUBSET S
    BY <1>4, <2>2, FS_RemoveElement
  <2>4. Over(r)
    <3> HIDE DEF Over, r
    <3> QED
      BY <1>6, <2>3
  <2>5. f[s] = x.times * f[r]
    BY <1>3, <2>1
  <2>6. x.times \in Nat \ {0}
    BY <2>2
  <2>7. \A a, b \in Nat \ {0} : a * b \in Nat \ {0} /\ a <= a * b /\ b <= a * b
    <3> SUFFICES ASSUME NEW a \in Nat \ {0}, NEW b \in Nat \ {0}
                 PROVE  a * b \in Nat \ {0} /\ a <= a * b /\ b <= a * b
      OBVIOUS
    <3>1. a * (b - 1) \in Nat /\ (a - 1) * b \in Nat
      BY TimesNatural
    <3>2. a * b = a * (b - 1) + a /\ a * b = (a - 1) * b + b
      OBVIOUS
    <3> HIDE DEF Over
    <3>3. a * b \in Nat
      BY TimesNatural
    <3> QED
      BY <3>1, <3>2, <3>3
  <2>8. \A y \in s : y = x \/ y \in r
    OBVIOUS
  <2>9. \A y \in s : y.times \in Nat
    OBVIOUS
  <2> HIDE DEF x, r
  <2>10. f[r] \in Nat \ {0} /\ \A y \in r : y.times <= f[r]
    BY <2>4
  <2>11. f[s] \in Nat \ {0} /\ x.times <= f[s] /\ f[r] <= f[s]
    BY <2>5, <2>6, <2>7, <2>10
  <2>12. ASSUME NEW y \in s PROVE y.times <= f[s]
    <3>1. CASE y = x
      BY <2>11, <3>1
    <3>2. CASE y \in r
      BY <2>9, <2>10, <2>11, <3>2
    <3> QED
      BY <2>8, <3>1, <3>2
  <2> QED
    BY <2>11, <2>12
<1>7. G = 0 .. N
  <2>1. G \in SUBSET (0 .. N)
    OBVIOUS
  <2> HIDE DEF G, N
  <2> QED
    BY <1>2, <1>5, <1>6, <2>1, UpTo
<1>8. Over(S)
  <2> HIDE DEF Over
  <2> QED
    BY <1>2, <1>7
<1> QED
  BY <1>8 DEF Product, f

(* An edge that a closure penalises, and none shuts, is priced above 1.     *)
LEMMA PenaltyShows ==
  ASSUME NEW e \in DOMAIN graph.edge, WellFormed(graph), request.closures \in ClosureSets,
         Slowed(e), ~ShutEdge(e)
  PROVE  /\ BuildOverlay(graph, request.closures).times[e] \in Nat
         /\ BuildOverlay(graph, request.closures).times[e] > 1
         /\ e \notin BuildOverlay(graph, request.closures).edges
<1> DEFINE C == request.closures
           blocking == {x \in C : x.times = 0}
           penalizing == C \ blocking
           On(d) == {x \in penalizing :
                       d \in ScopeOf(graph, x).edges \cup EdgesTouching(graph, ScopeOf(graph, x).nodes)}
           shut == UNION {ScopeOf(graph, x).edges : x \in blocking}
           times == [d \in DOMAIN graph.edge |-> IF d \in shut THEN 1 ELSE Product(On(d))]
<1>1. \A S : MapThenFoldSet(LAMBDA a, b : a * b, 1, LAMBDA x : x.times,
                           LAMBDA T : CHOOSE x \in T : TRUE, S) = Product(S)
  BY DEF MapThenFoldSet, Product, IsProduct
<1>2. BuildOverlay(graph, C).times = times /\ BuildOverlay(graph, C).edges = shut
  BY <1>1 DEF BuildOverlay
<1>3. IsFiniteSet(C) /\ \A x \in C : x.times \in Nat
  BY PlanningClosures
<1>4. e \notin shut
  <2> SUFFICES ASSUME NEW x \in blocking, e \in ScopeOf(graph, x).edges PROVE FALSE
    OBVIOUS
  <2>1. e \in x.edges \/ (x.edges = {} /\ x.nodes = {} /\ e \in EdgesOnFloor(graph, x.floor))
    BY DEF ScopeOf
  <2> QED
    BY <2>1 DEF ShutEdge
<1>9. PICK c \in C : /\ c.times > 1
                     /\ \/ e \in c.edges \cup EdgesTouching(graph, c.nodes)
                        \/ c.edges = {} /\ c.nodes = {} /\ e \in EdgesOnFloor(graph, c.floor)
  BY DEF Slowed
<1>5. c \in On(e)
  <2>1. c \in penalizing
    BY <1>3, <1>9
  <2>2. e \in ScopeOf(graph, c).edges \cup EdgesTouching(graph, ScopeOf(graph, c).nodes)
    <3>1. CASE e \in c.edges
      BY <3>1 DEF ScopeOf
    <3>2. CASE e \in EdgesTouching(graph, c.nodes)
      <4>1. PICK n \in {graph.edge[e].src, graph.edge[e].dst} : n \in c.nodes
        BY <3>2 DEF EdgesTouching
      <4>2. n \in DOMAIN graph.node
        BY <4>1 DEF WellFormed
      <4>3. n \in ScopeOf(graph, c).nodes
        BY <4>1, <4>2 DEF ScopeOf
      <4> QED
        BY <4>1, <4>3 DEF EdgesTouching
    <3>3. CASE c.edges = {} /\ c.nodes = {} /\ e \in EdgesOnFloor(graph, c.floor)
      BY <3>3 DEF ScopeOf
    <3> QED
      BY <1>9, <3>1, <3>2, <3>3
  <2> QED
    BY <2>1, <2>2
<1>6. IsFiniteSet(On(e)) /\ \A x \in On(e) : x.times \in Nat \ {0}
  BY <1>3, FS_Subset
<1> HIDE DEF On, shut
<1>7. Product(On(e)) \in Nat /\ c.times <= Product(On(e))
  BY <1>5, <1>6, ProductAbove
<1>8. Product(On(e)) > 1
  BY <1>3, <1>7, <1>9
<1> QED
  BY <1>2, <1>4, <1>7, <1>8

(* So it is in every overlay the request is planned with.                   *)
LEMMA PenaltyKept ==
  ASSUME NEW e \in DOMAIN graph.edge, WellFormed(graph), request.closures \in ClosureSets,
         Slowed(e), ~ShutEdge(e), ctx = Context(graph, q, request.closures), NEW r
  PROVE  FilterAt(r).overlay.times[e] # 1
<1> DEFINE o == BuildOverlay(graph, request.closures)
<1>1. o.times[e] \in Nat /\ o.times[e] > 1 /\ e \notin o.edges
  BY PenaltyShows
<1>2. /\ ctx.own = OverlayForOrigin(ctx.overlay, q.from)
      /\ ctx.soft = OverlayForOrigin(SoftenOverlay(graph, ctx.overlay), q.from)
      /\ ctx.overlay = o
  BY ContextLaid
<1> HIDE DEF o
<1>3. \A x : OverlayForOrigin(x, q.from).times = x.times
  BY DEF OverlayForOrigin
<1>4. SoftenOverlay(graph, o).times[e]
        = o.times[e] * ((IF e \in o.edges THEN LastResort ELSE 1)
                        * (IF e \in EdgesTouching(graph, o.nodes) THEN LastResort ELSE 1))
  BY DEF SoftenOverlay
<1>5. SoftenOverlay(graph, o).times[e] # 1
  <2>1. PICK h \in Nat \ {0} : SoftenOverlay(graph, o).times[e] = o.times[e] * h
    <3>1. LastResort \in Nat \ {0}
      BY RoutingCosts
    <3>2. CASE e \in EdgesTouching(graph, o.nodes)
      BY <1>1, <1>4, <3>1, <3>2
    <3>3. CASE e \notin EdgesTouching(graph, o.nodes)
      BY <1>1, <1>4, <3>3
    <3> QED
      BY <3>2, <3>3
  <2>2. o.times[e] * (h - 1) \in Nat
    BY <1>1, TimesNatural
  <2>3. o.times[e] * h = o.times[e] * (h - 1) + o.times[e]
    BY <1>1
  <2> QED
    BY <1>1, <2>1, <2>2, <2>3
<1>6. FilterAt(r).overlay \in {ctx.own, ctx.soft}
  BY DEF FilterAt
<1> QED
  BY <1>1, <1>2, <1>3, <1>5, <1>6

(* The steps are the walks and the flights in turn.                         *)
LEMMA StepsAre ==
  ASSUME NEW n \in Nat, NEW w, Len(w) = n, NEW f
  PROVE  /\ DOMAIN Steps(w, f) = 1 .. 2 * n
         /\ \A k \in 1 .. n :
              /\ Steps(w, f)[2 * k - 1].step.kind = "walk"
              /\ Steps(w, f)[2 * k - 1].step.index = k
              /\ Steps(w, f)[2 * k - 1].step.accessible = w[k].accessible
         /\ \A k \in 1 .. n - 1 :
              /\ Steps(w, f)[2 * k].step.kind = "transit"
              /\ Steps(w, f)[2 * k].step.index = k
              /\ Steps(w, f)[2 * k].step.accessible = f[k].accessible
<1> DEFINE Plain(i) ==
             LET k == (i + 1) \div 2
             IN CASE i = 2 * Len(w) -> [kind |-> "arrive", index |-> 0, metres |-> 0, secs |-> 0, accessible |-> TRUE]
                  [] i % 2 = 1 -> [kind |-> "walk", index |-> k, metres |-> w[k].metres,
                                   secs |-> w[k].secs, accessible |-> w[k].accessible]
                  [] OTHER -> [kind |-> "transit", index |-> k, metres |-> 0,
                               secs |-> f[k].secs, accessible |-> f[k].accessible]
           Before(i) == Sum([j \in 1 .. i - 1 |-> Plain(j).metres])
           Since(i) == Sum([j \in 1 .. i - 1 |-> Plain(j).secs])
<1>1. Steps(w, f) = [i \in 1 .. 2 * n |-> [step |-> Plain(i), metres |-> Before(i), secs |-> Since(i)]]
  BY Zenon DEF Steps
<1>2. ASSUME NEW k \in 1 .. n
      PROVE  /\ Plain(2 * k - 1).kind = "walk" /\ Plain(2 * k - 1).index = k
             /\ Plain(2 * k - 1).accessible = w[k].accessible
  <2>1. ((2 * k - 1) + 1) \div 2 = k /\ 2 * k - 1 # 2 * n /\ (2 * k - 1) % 2 = 1
    OBVIOUS
  <2> QED
    BY <2>1
<1>3. ASSUME NEW k \in 1 .. n - 1
      PROVE  /\ Plain(2 * k).kind = "transit" /\ Plain(2 * k).index = k
             /\ Plain(2 * k).accessible = f[k].accessible
  <2>1. (2 * k + 1) \div 2 = k /\ 2 * k # 2 * n /\ (2 * k) % 2 # 1
    OBVIOUS
  <2> QED
    BY <2>1
<1> HIDE DEF Plain, Before, Since
<1>4. \A k \in 1 .. n : 2 * k - 1 \in 1 .. 2 * n /\ 2 * k \in 1 .. 2 * n
  OBVIOUS
<1>5. \A i \in 1 .. 2 * n : Steps(w, f)[i].step = Plain(i)
  BY <1>1
<1>6. DOMAIN Steps(w, f) = 1 .. 2 * n
  BY <1>1
<1>7. ASSUME NEW k \in 1 .. n
      PROVE  /\ Steps(w, f)[2 * k - 1].step.kind = "walk"
             /\ Steps(w, f)[2 * k - 1].step.index = k
             /\ Steps(w, f)[2 * k - 1].step.accessible = w[k].accessible
  <2>1. Steps(w, f)[2 * k - 1].step = Plain(2 * k - 1)
    BY <1>4, <1>5
  <2> QED
    BY <1>2, <2>1
<1>8. ASSUME NEW k \in 1 .. n - 1
      PROVE  /\ Steps(w, f)[2 * k].step.kind = "transit"
             /\ Steps(w, f)[2 * k].step.index = k
             /\ Steps(w, f)[2 * k].step.accessible = f[k].accessible
  <2>1. k \in 1 .. n
    OBVIOUS
  <2>2. Steps(w, f)[2 * k].step = Plain(2 * k)
    BY <1>4, <1>5, <2>1
  <2> QED
    BY <1>3, <2>2
<1> QED
  BY <1>6, <1>7, <1>8

(* A part that is not step-free is among the warnings, when that is given up. *)
Noted(g, w, h, k) ==
  /\ k.code = "INACCESSIBLE_STEP"
  /\ LET s == Steps(Segments(g, w), Transitions(g, w))[k.at].step
     IN IF s.kind = "walk" THEN h \in Range(Segments(g, w)[s.index].hops)
        ELSE h = Transitions(g, w)[s.index].hop

(* A hop that is not step-free is on a step the warnings name.              *)
LEMMA StepsNoted ==
  ASSUME NEW g, NEW X, NEW p \in Seq(X), NEW i \in 1 .. Len(p) - 1,
         ~g.edge[PathEdges(g, p)[i].edge].accessible, NEW o
  PROVE  \E k \in Warnings(g, p, Segments(g, p), Steps(Segments(g, p), Transitions(g, p)), o, TRUE, TRUE) :
           Noted(g, p, PathEdges(g, p)[i], k)
<1> DEFINE st == FloorStarts(g, p)
           w == Segments(g, p)
           f == Transitions(g, p)
           steps == Steps(w, f)
           h == PathEdges(g, p)[i]
           n == Len(st)
<1>1. Cuts(p, st)
  <2>1. p # <<>>
    BY EmptySeq
  <2> QED
    BY <2>1, FloorsCut
<1>2. /\ n \in Nat \ {0} /\ DOMAIN st = 1 .. n
  BY <1>1 DEF Cuts
<1>3. /\ w = [k \in 1 .. n |-> WalkOf(g, p, st, k)]
      /\ f = [k \in 1 .. n - 1 |-> FlightOf(g, p, st, k)]
  BY <1>2, PartsAre
<1>4. Len(w) = n
  <2> HIDE DEF st, n, w
  <2>1. w \in [1 .. n -> {WalkOf(g, p, st, k) : k \in 1 .. n}]
    BY <1>3
  <2> QED
    BY <1>2, <2>1, Sequential
<1> HIDE DEF st, n, w, f, h
<1>5. PICK k \in 1 .. n : \/ st[k] <= i /\ i < EndOf(p, st, k)
                          \/ k # n /\ i = st[k + 1] - 1
  BY <1>1, HopsLie DEF n
<1> DEFINE S == Steps(w, f)
           Found(x) == [code |-> "INACCESSIBLE_STEP", at |-> x]
<1>6. /\ DOMAIN S = 1 .. 2 * n
      /\ S[2 * k - 1].step.kind = "walk" /\ S[2 * k - 1].step.index = k
      /\ S[2 * k - 1].step.accessible = w[k].accessible
      /\ k \in 1 .. n - 1 => /\ S[2 * k].step.kind = "transit" /\ S[2 * k].step.index = k
                             /\ S[2 * k].step.accessible = f[k].accessible
  BY <1>2, <1>4, StepsAre
<1>7. \A x \in DOMAIN S : ~S[x].step.accessible =>
        Found(x) \in Warnings(g, p, w, S, o, TRUE, TRUE)
  BY DEF Warnings
<1>8. CASE st[k] <= i /\ i < EndOf(p, st, k)
  <2> DEFINE own == OwnHops(g, p, st, k)
             j == i - st[k] + 1
  <2>1. st[k] \in Nat /\ EndOf(p, st, k) \in Nat
    BY <1>1, PartsFit DEF n
  <2>2. j \in 1 .. EndOf(p, st, k) - st[k] /\ st[k] + j - 1 = i
    BY <1>8, <2>1
  <2>3. j \in DOMAIN own /\ own[j] = h
    <3> HIDE DEF j
    <3>1. /\ DOMAIN own = 1 .. EndOf(p, st, k) - st[k]
          /\ \A x \in 1 .. EndOf(p, st, k) - st[k] : own[x] = PathEdges(g, p)[st[k] + x - 1]
      BY <1>1, OwnHopsAre DEF n
    <3> QED
      BY <2>2, <3>1 DEF h
  <2>4. ~WalkOf(g, p, st, k).accessible /\ WalkOf(g, p, st, k).hops = own
    <3>1. ~g.edge[own[j].edge].accessible
      BY <2>3 DEF h
    <3> HIDE DEF own, j
    <3>2. /\ WalkOf(g, p, st, k).accessible = \A x \in DOMAIN OwnHops(g, p, st, k) : g.edge[OwnHops(g, p, st, k)[x].edge].accessible
          /\ WalkOf(g, p, st, k).hops = OwnHops(g, p, st, k)
      BY DEF WalkOf
    <3> QED
      BY <2>3, <3>1, <3>2 DEF own
  <2>5. ~w[k].accessible /\ h \in Range(w[k].hops)
    <3>1. w[k] = WalkOf(g, p, st, k)
      BY <1>3
    <3> HIDE DEF own, j
    <3> QED
      BY <2>3, <2>4, <3>1 DEF Range
  <2>6. 2 * k - 1 \in DOMAIN S
    BY <1>2, <1>6
  <2>7. Found(2 * k - 1) \in Warnings(g, p, w, S, o, TRUE, TRUE)
    <3> HIDE DEF S, Found
    <3> QED
      BY <1>6, <1>7, <2>5, <2>6
  <2>8. Noted(g, p, h, Found(2 * k - 1))
    <3>1. Found(2 * k - 1).code = "INACCESSIBLE_STEP" /\ Found(2 * k - 1).at = 2 * k - 1
      OBVIOUS
    <3> HIDE DEF Found
    <3> QED
      BY <1>6, <2>5, <3>1 DEF Noted, w, f
  <2> QED
    BY <2>7, <2>8 DEF w, f, h
<1>9. CASE k # n /\ i = st[k + 1] - 1
  <2>1. k \in 1 .. n - 1
    BY <1>2, <1>9
  <2>2. f[k].hop = h /\ f[k].accessible = g.edge[h.edge].accessible
    <3>1. f[k] = FlightOf(g, p, st, k)
      BY <1>3, <2>1
    <3>2. /\ FlightOf(g, p, st, k).hop = PathEdges(g, p)[st[k + 1] - 1]
          /\ FlightOf(g, p, st, k).accessible = g.edge[PathEdges(g, p)[st[k + 1] - 1].edge].accessible
      BY DEF FlightOf
    <3> QED
      BY <1>9, <3>1, <3>2 DEF h
  <2>3. ~f[k].accessible
    BY <2>2 DEF h
  <2>4. 2 * k \in DOMAIN S
    BY <1>2, <1>6
  <2>5. Found(2 * k) \in Warnings(g, p, w, S, o, TRUE, TRUE)
    <3> HIDE DEF S, Found
    <3> QED
      BY <1>6, <1>7, <2>1, <2>3, <2>4
  <2>6. Noted(g, p, h, Found(2 * k))
    <3>1. Found(2 * k).code = "INACCESSIBLE_STEP" /\ Found(2 * k).at = 2 * k
      OBVIOUS
    <3> HIDE DEF Found
    <3> QED
      BY <1>6, <2>1, <2>2, <3>1 DEF Noted, w, f
  <2> QED
    BY <2>5, <2>6 DEF w, f, h
<1> QED
  BY <1>5, <1>8, <1>9

(* What an attempt before missed, no route could have.                      *)
LEMMA MissedIsBarred ==
  ASSUME TriedInv, Answered, NEW k, Missed(k)
  PROVE  Barred(HopsOf(graph, q, ctx, k))
<1>1. Live /\ phase = "idle"
  BY DEF Live, Answered
<1>2. PICK m \in 1 .. LegCount : Blind(k, m)
  BY DEF Missed
<1>3. CASE Evacuating
  <2>1. LegSource(m) = q.from /\ \A n : LegTarget(m, n) <=> n \in ExitsOf(graph)
    BY <1>3 DEF LegSource, LegTarget
  <2> QED
    BY <1>2, <1>3, <2>1 DEF Blind, Barred
<1>4. CASE ~Evacuating
  <2>1. Len(plan.legs) = Len(ctx.stops) /\ \A i \in 1 .. Len(plan.legs) : Led(plan.legs[i], i)
    BY <1>1, <1>4 DEF TriedInv
  <2>2. m \in 1 .. Len(plan.legs) /\ Led(plan.legs[m], m)
    BY <1>4, <2>1 DEF LegCount
  <2>3. LET leg == plan.legs[m] IN leg[Len(leg)] \notin Reachable(HopsOf(graph, q, ctx, k), leg[1])
    BY <1>2, <2>2 DEF Blind, Led
  <2> QED
    BY <1>4, <2>2, <2>3 DEF Barred
<1> QED
  BY <1>3, <1>4

(* The flags of an answered request are honest.                             *)
LEMMA AnswersAreHonest ==
  ASSUME SearchesInv, RoutesInv, TriedInv, RouteInv
  PROVE  FlagsHonest
<1> SUFFICES ASSUME Answered, Told PROVE FlagsHonest
  BY Zenon DEF FlagsHonest
<1> DEFINE p == plan.path
           hops == {HopAt(p, i) : i \in 1 .. Len(p) - 1}
           asked == FilterAt(1)
           NoWay(filter) == Barred(Legal(graph, q, filter, ctx.profile))
<1>1. Live /\ phase = "idle"
  BY DEF Live, Answered
<1>2. /\ WellFormed(graph) /\ request.closures \in ClosureSets
      /\ ctx = Context(graph, q, request.closures)
      /\ rung \in 1 .. Len(ctx.ladder) + 1 /\ PlanTyped(Nodes, plan)
  BY <1>1 DEF SearchesInv, GraphInv, ContextInv
<1>3. Chain(Nodes, p, Legals) /\ plan.rung = rung /\ Relaxed = Flags(rung)
  BY <1>1 DEF RoutesInv, Drawn, Relaxed
<1>4. ctx.ladder = Ladder(q)
  BY <1>2, ContextLaid
<1>5. /\ Len(ctx.ladder) \in 1 .. 3 /\ rung \in 1 .. Len(ctx.ladder) + 1
      /\ \A k \in 1 .. Len(ctx.ladder) : k < rung => Barred(HopsOf(graph, q, ctx, k))
  BY <1>1, <1>2, <1>4, LadderIs, MissedIsBarred DEF TriedInv
<1>6. Measured(route, Walks, Flights, Steps(Walks, Flights), Warned)
  BY DEF RouteInv, Told, Telling
<1>7. ASSUME NEW i \in 1 .. Len(p) - 1
      PROVE  /\ HopAt(p, i) \in Legals /\ HopAt(p, i).edge \in DOMAIN graph.edge
             /\ Passes(graph, q, FilterOf(q, ctx, rung), HopAt(p, i))
  <2>1. Legals \subseteq graph.hops
    BY DEF Legals, HopsOf, Legal
  <2>2. HopAt(p, i) \in Legals
    BY <1>2, <1>3, <2>1, HopTaken
  <2> QED
    BY <1>2, <2>1, <2>2 DEF Legals, HopsOf, Legal, WellFormed
<1>8. ASSUME "tagConstraintsRelaxed" \notin Relaxed, NEW h \in hops
      PROVE  TagFilter(graph, q, h)
  <2>1. CASE HasTags
    <3>1. FilterOf(q, ctx, rung).tags
      BY <1>2, <1>3, <1>4, <1>8, <2>1, FlagsTell
    <3> QED
      BY <1>7, <3>1 DEF Passes
  <2>2. CASE ~HasTags
    <3>1. q.include = <<>> /\ q.exclude = <<>> /\ Range(<<>>) = {}
      BY <2>2 DEF HasTags, Range
    <3> QED
      BY <3>1 DEF TagFilter
  <2> QED
    BY <2>1, <2>2
<1>9. ASSUME Wheelchair, "accessibleRouteUnavailable" \notin Relaxed, NEW h \in hops
      PROVE  graph.edge[h.edge].accessible
  <2>1. FilterOf(q, ctx, rung).access
    BY <1>2, <1>3, <1>4, <1>9, FlagsTell
  <2> QED
    BY <1>7, <2>1 DEF Passes
<1>13. ASSUME "tagConstraintsRelaxed" \in Relaxed PROVE NoWay(asked)
  <2>1. 1 \in 1 .. Len(ctx.ladder) /\ 1 < rung
    BY <1>2, <1>3, <1>4, <1>5, <1>13, FlagsTell
  <2>2. Barred(HopsOf(graph, q, ctx, 1))
    BY <1>5, <2>1
  <2> QED
    BY <1>4, <2>2, EndsTried
<1>10. ASSUME "accessibleRouteUnavailable" \in Relaxed PROVE NoWay([asked EXCEPT !.tags = FALSE])
  <2>1. Wheelchair /\ Len(ctx.ladder) >= 2 /\ rung >= Len(ctx.ladder)
    BY <1>2, <1>3, <1>4, <1>10, FlagsTell
  <2>2. Len(ctx.ladder) - 1 \in 1 .. Len(ctx.ladder) /\ Len(ctx.ladder) - 1 < rung
    BY <1>5, <2>1
  <2>3. Barred(HopsOf(graph, q, ctx, Len(ctx.ladder) - 1))
    BY <1>5, <2>2
  <2> QED
    BY <1>4, <2>1, <2>3, StepFreeTried
<1>14. ASSUME "closuresIgnored" \in Relaxed
       PROVE  NoWay([asked EXCEPT !.tags = FALSE, !.access = FALSE])
  <2>1. rung > Len(ctx.ladder)
    BY <1>2, <1>3, <1>4, <1>14, FlagsTell
  <2>2. Len(ctx.ladder) \in 1 .. Len(ctx.ladder) /\ Len(ctx.ladder) < rung
    <3>1. Len(ctx.ladder) \in 1 .. 3 /\ rung \in 1 .. Len(ctx.ladder) + 1
      BY <1>5
    <3> QED
      BY <2>1, <3>1
  <2>3. Barred(HopsOf(graph, q, ctx, Len(ctx.ladder)))
    BY <1>5, <2>2
  <2> QED
    BY <1>4, <2>3, EndsTried
<1>11. ASSUME "accessibleRouteUnavailable" \in Relaxed, NEW h \in hops,
              ~graph.edge[h.edge].accessible
       PROVE  \E w \in route.warnings :
                 /\ w.code = "INACCESSIBLE_STEP"
                 /\ LET s == route.steps[w.at].step
                    IN IF s.kind = "walk" THEN h \in Range(route.walks[s.index].hops)
                       ELSE h = route.flights[s.index].hop
  <2>1. Wheelchair
    BY <1>2, <1>3, <1>4, <1>11, FlagsTell
  <2>2. PICK i \in 1 .. Len(p) - 1 : h = HopAt(p, i)
    OBVIOUS
  <2>3. p \in Seq(Nodes)
    BY <1>3 DEF Chain
  <2>4. ~graph.edge[PathEdges(graph, p)[i].edge].accessible /\ h = PathEdges(graph, p)[i]
    BY <1>11, <2>2 DEF HopAt
  <2> DEFINE o == FilterAt(plan.rung).overlay
  <2>5. \E w \in Warnings(graph, p, Walks, Steps(Walks, Flights), o, TRUE, TRUE) :
          Noted(graph, p, h, w)
    <3> HIDE DEF o, p
    <3>1. \E w \in Warnings(graph, p, Segments(graph, p), Steps(Segments(graph, p), Transitions(graph, p)), o, TRUE, TRUE) :
            Noted(graph, p, PathEdges(graph, p)[i], w)
      BY <2>3, <2>4, StepsNoted
    <3> QED
      BY <2>4, <3>1 DEF Walks, Flights, p
  <2>6. Warned = Warnings(graph, p, Walks, Steps(Walks, Flights), o, TRUE, TRUE)
    BY <1>11, <2>1 DEF Warned, Warnings
  <2> HIDE DEF o
  <2>7. PICK w \in route.warnings : Noted(graph, p, h, w)
    BY <1>6, <2>5, <2>6 DEF Measured
  <2> QED
    BY <1>6, <2>7 DEF Noted, Measured, Walks, Flights
<1>12. ASSUME NEW i \in 1 .. Len(p) - 1, Slowed(HopAt(p, i).edge), ~ShutEdge(HopAt(p, i).edge)
       PROVE  [code |-> "CLOSURE_ON_ROUTE", at |-> i] \in route.warnings
  <2>1. FilterAt(plan.rung).overlay.times[HopAt(p, i).edge] # 1
    BY <1>2, <1>7, <1>12, PenaltyKept
  <2>2. i \in DOMAIN PathEdges(graph, p) /\ HopAt(p, i) = PathEdges(graph, p)[i]
    BY DEF PathEdges, HopAt
  <2>3. [code |-> "CLOSURE_ON_ROUTE", at |-> i] \in Warned
    BY <2>1, <2>2 DEF Warned, Warnings
  <2> QED
    BY <1>6, <2>3 DEF Measured
<1> HIDE DEF hops, p, asked, NoWay
<1> QED
  BY <1>8, <1>9, <1>10, <1>11, <1>12, <1>13, <1>14, ZenonT(60) DEF FlagsHonest, hops, p, asked, NoWay

(* planning.js, routeAssembler.js: without a flag the wish holds on the whole *)
(* route.  With one the attempts above it found nothing, and there was       *)
(* nothing: no route (of a tour: not every leg) keeps the wish together with  *)
(* all that was asked and ranks above it.  Each part that is not step-free,   *)
(* once that is given up, and each that a closure penalises, by naming it or  *)
(* a node it touches or its floor, is in the warnings.                       *)
THEOREM AnswersTellTheTruth ==
  WSpec => []FlagsHonest
<1>1. WInit => TriedInv /\ TourInv /\ RouteInv
  BY DEF WInit, Init, NoReply, TriedInv, Live, TourInv, RouteInv, NoRoute, Telling
<1>2. SearchesInv /\ TourInv /\ TriedInv /\ [WNext]_allVars => TourInv' /\ TriedInv'
  BY TourNext, TriedNext
<1>3. RouteInv /\ [WNext]_allVars => RouteInv'
  BY RouteNext
<1>4. SearchesInv /\ RoutesInv /\ TriedInv /\ RouteInv => FlagsHonest
  BY AnswersAreHonest
<1> QED
  BY <1>1, <1>2, <1>3, <1>4, SearchesAreSound, RoutesAreDrawn, PTL DEF WSpec

(***************************************************************************)
(* Shares                                                                   *)
(***************************************************************************)

(* Greater factors make greater products.                                   *)
LEMMA TimesMonotone ==
  ASSUME NEW a \in Int, NEW b \in Int, a <= b, NEW d \in Nat
  PROVE  a * d <= b * d
OBVIOUS

(* How often a divisor goes into a number.                                  *)
LEMMA DivIs ==
  ASSUME NEW a \in Int, NEW d \in Nat \ {0}
  PROVE  a \div d \in Int /\ (a \div d) * d <= a /\ a < (a \div d) * d + d
OBVIOUS

(* A multiple divided.                                                      *)
LEMMA DivExact ==
  ASSUME NEW a \in Int, NEW d \in Nat \ {0}, NEW x \in Int, x * d <= a, a < x * d + d
  PROVE  a \div d = x
<1> DEFINE y == a \div d
<1>1. y \in Int /\ y * d <= a /\ a < y * d + d
  BY DivIs
<1> HIDE DEF y
<1>2. (y + 1) * d = y * d + d /\ (x + 1) * d = x * d + d
  BY <1>1
<1>3. ~ (y + 1 <= x)
  <2> SUFFICES ASSUME y + 1 <= x PROVE FALSE
    OBVIOUS
  <2>1. (y + 1) * d <= x * d
    BY <1>1, TimesMonotone
  <2>2. x * d \in Int /\ y * d \in Int
    BY <1>1
  <2> QED
    BY <1>1, <1>2, <2>1, <2>2
<1>4. ~ (x + 1 <= y)
  <2> SUFFICES ASSUME x + 1 <= y PROVE FALSE
    OBVIOUS
  <2>1. (x + 1) * d <= y * d
    BY <1>1, TimesMonotone
  <2>2. x * d \in Int /\ y * d \in Int
    BY <1>1
  <2> QED
    BY <1>1, <1>2, <2>1, <2>2
<1>5. y = x
  BY <1>1, <1>3, <1>4
<1> QED
  BY <1>5 DEF y

(* A greater number divided is no less.                                     *)
LEMMA DivMonotone ==
  ASSUME NEW a \in Int, NEW b \in Int, a <= b, NEW d \in Nat \ {0}
  PROVE  a \div d <= b \div d
<1> DEFINE x == a \div d
           y == b \div d
<1>1. x \in Int /\ x * d <= a /\ a < x * d + d
  BY DivIs
<1>2. y \in Int /\ y * d <= b /\ b < y * d + d
  BY DivIs
<1> HIDE DEF x, y
<1>3. (y + 1) * d = y * d + d
  BY <1>2
<1>4. ~ (y + 1 <= x)
  <2> SUFFICES ASSUME y + 1 <= x PROVE FALSE
    OBVIOUS
  <2>1. (y + 1) * d <= x * d
    BY <1>1, <1>2, TimesMonotone
  <2>2. x * d \in Int /\ y * d \in Int
    BY <1>1, <1>2
  <2> QED
    BY <1>1, <1>2, <1>3, <2>1, <2>2
<1>5. x <= y
  BY <1>1, <1>2, <1>4
<1> QED
  BY <1>5 DEF x, y

(* A rounded share: a number, exact for the whole, and greater for more.    *)
LEMMA RoundedShare ==
  ASSUME NEW t \in Nat, NEW w \in Nat \ {0}, NEW a \in Nat, NEW b \in Nat, a <= b
  PROVE  /\ RoundDiv(t * a, w) \in Nat
         /\ RoundDiv(t * a, w) <= RoundDiv(t * b, w)
         /\ RoundDiv(t * w, w) = t
         /\ RoundDiv(t * 0, w) = 0
<1> DEFINE d == 2 * w
<1>1. d \in Nat \ {0} /\ w < d
  OBVIOUS
<1>2. t * a \in Nat /\ t * b \in Nat /\ t * w \in Nat
  BY TimesNatural
<1>3. t * a <= t * b
  <2>1. a * t <= b * t
    BY TimesMonotone
  <2>2. a * t = t * a /\ b * t = t * b
    OBVIOUS
  <2> QED
    BY <2>1, <2>2
<1>4. t * d = 2 * (t * w)
  OBVIOUS
<1>5. RoundDiv(t * a, w) \in Nat
  <2>1. (2 * (t * a) + w) \div d \in Nat
    <3> HIDE DEF d
    <3>1. 2 * (t * a) + w \in Nat
      BY <1>2
    <3> QED
      BY <1>1, <3>1, DivNatural
  <2> QED
    BY <2>1 DEF RoundDiv
<1>6. RoundDiv(t * a, w) <= RoundDiv(t * b, w)
  <2>1. (2 * (t * a) + w) \div d <= (2 * (t * b) + w) \div d
    <3> HIDE DEF d
    <3>1. 2 * (t * a) + w \in Int /\ 2 * (t * b) + w \in Int /\ 2 * (t * a) + w <= 2 * (t * b) + w
      BY <1>2, <1>3
    <3> QED
      BY <1>1, <3>1, DivMonotone
  <2> QED
    BY <2>1 DEF RoundDiv
<1>7. RoundDiv(t * w, w) = t
  <2>1. (2 * (t * w) + w) \div d = t
    <3> HIDE DEF d
    <3>1. 2 * (t * w) + w \in Int /\ t * d <= 2 * (t * w) + w /\ 2 * (t * w) + w < t * d + d
      BY <1>1, <1>2, <1>4
    <3> QED
      BY <1>1, <3>1, DivExact
  <2> QED
    BY <2>1 DEF RoundDiv
<1>8. RoundDiv(t * 0, w) = 0
  <2>0. t * 0 = 0
    OBVIOUS
  <2>1. (2 * 0 + w) \div d = 0
    <3> HIDE DEF d
    <3>1. 2 * 0 + w \in Int /\ 0 * d <= 2 * 0 + w /\ 2 * 0 + w < 0 * d + d
      BY <1>1
    <3> QED
      BY <1>1, <3>1, DivExact
  <2> QED
    BY <2>0, <2>1 DEF RoundDiv
<1> QED
  BY <1>5, <1>6, <1>7, <1>8

(* Marks that never go back.                                                *)
Onward(at, n) ==
  /\ DOMAIN at = 1 .. n + 1 /\ Len(at) = n + 1
  /\ \A i \in 1 .. n + 1 : at[i] \in Nat
  /\ \A i \in 1 .. n : at[i] <= at[i + 1]

Shares(r, n, total) ==
  /\ DOMAIN r = 1 .. n
  /\ \A i \in 1 .. n : r[i] \in Nat
  /\ Sum(r) = total

(* The shares between such marks are numbers, and add up to the total; to     *)
(* nothing when the marks never leave the start.                            *)
LEMMA SharesAddUp ==
  ASSUME NEW n \in Nat \ {0}, NEW at, Onward(at, n), NEW total \in Nat
  PROVE  Shares(Allocate(at, total), n, IF at[n + 1] > 0 THEN total ELSE 0)
<1> DEFINE w == at[n + 1]
           Upto(i) == IF w > 0 THEN RoundDiv(total * at[i], w) ELSE 0
           r == [i \in 1 .. n |-> Upto(i + 1) - (IF i = 1 THEN 0 ELSE Upto(i))]
           g == [k \in 0 .. n |-> IF k = 0 THEN 0 ELSE Upto(k + 1)]
<1>1. Allocate(at, total) = r
  <2>1. Len(at) = n + 1 /\ Len(at) - 1 = n
    BY DEF Onward
  <2>2. Allocate(at, total) =
          [i \in 1 .. Len(at) - 1 |->
             (IF at[Len(at)] > 0 THEN RoundDiv(total * at[i + 1], at[Len(at)]) ELSE 0)
             - (IF i = 1 THEN 0
                ELSE IF at[Len(at)] > 0 THEN RoundDiv(total * at[i], at[Len(at)]) ELSE 0)]
    BY Zenon DEF Allocate
  <2> QED
    BY Zenon, <2>1, <2>2
<1>2. w \in Nat /\ (w > 0 => w \in Nat \ {0})
  <2>1. n + 1 \in 1 .. n + 1
    OBVIOUS
  <2>2. w \in Nat
    BY <2>1 DEF Onward
  <2> HIDE DEF w
  <2> QED
    BY <2>2
<1>3. \A i \in 1 .. n + 1 : Upto(i) \in Nat
  <2> SUFFICES ASSUME NEW i \in 1 .. n + 1 PROVE Upto(i) \in Nat
    OBVIOUS
  <2>1. at[i] \in Nat /\ at[i] <= at[i]
    BY DEF Onward
  <2> HIDE DEF w
  <2>2. w > 0 => RoundDiv(total * at[i], w) \in Nat
    BY <1>2, <2>1, RoundedShare
  <2> QED
    BY <1>2, <2>2
<1>4. \A i \in 1 .. n : Upto(i) <= Upto(i + 1)
  <2> SUFFICES ASSUME NEW i \in 1 .. n PROVE Upto(i) <= Upto(i + 1)
    OBVIOUS
  <2>0. i \in 1 .. n + 1 /\ i + 1 \in 1 .. n + 1
    OBVIOUS
  <2>1. at[i] \in Nat /\ at[i + 1] \in Nat /\ at[i] <= at[i + 1]
    BY <2>0 DEF Onward
  <2> HIDE DEF w
  <2>2. w > 0 => RoundDiv(total * at[i], w) <= RoundDiv(total * at[i + 1], w)
    BY <1>2, <2>1, RoundedShare
  <2> QED
    BY <1>2, <2>2
<1>5. Upto(n + 1) = IF at[n + 1] > 0 THEN total ELSE 0
  <2> HIDE DEF w
  <2>1. w > 0 => RoundDiv(total * w, w) = total
    BY <1>2, RoundedShare
  <2> QED
    BY <1>2, <2>1 DEF w
<1> HIDE DEF w, Upto
<1>6. \A i \in 1 .. n : r[i] \in Nat
  BY <1>3, <1>4
<1>7. Adds(r, n, g)
  <2>1. g \in [0 .. n -> Int] /\ g[0] = 0
    BY <1>3
  <2>2. \A k \in 1 .. n : g[k] = g[k - 1] + r[k]
    BY <1>3
  <2> HIDE DEF g, r
  <2> QED
    BY <2>1, <2>2 DEF Adds
<1>8. Sum(r) = g[n]
  <2>1. Numbers(r, n)
    BY <1>6 DEF Numbers
  <2> HIDE DEF g, r
  <2> QED
    BY <1>7, <2>1, SumIs
<1>9. g[n] = IF at[n + 1] > 0 THEN total ELSE 0
  BY <1>5
<1>10. DOMAIN r = 1 .. n
  OBVIOUS
<1> HIDE DEF r, g
<1>11. Shares(r, n, IF at[n + 1] > 0 THEN total ELSE 0)
  BY <1>6, <1>8, <1>9, <1>10 DEF Shares
<1> QED
  BY <1>1, <1>11

(* The sum of two sequences one after the other is that of their sums.      *)
LEMMA SumJoins ==
  ASSUME NEW n \in Nat, NEW s, Numbers(s, n), NEW m \in Nat, NEW t, Numbers(t, m),
         NEW u, DOMAIN u = 1 .. n + m,
         \A i \in 1 .. n : u[i] = s[i], \A i \in 1 .. m : u[n + i] = t[i]
  PROVE  Sum(u) = Sum(s) + Sum(t) /\ Sum(s) \in Int /\ Sum(t) \in Int
<1>1. PICK g : Adds(s, n, g) /\ g[n] = Sum(s) /\ Sum(s) \in Int
  BY SumAdds
<1>2. PICK h : Adds(t, m, h) /\ h[m] = Sum(t) /\ Sum(t) \in Int
  BY SumAdds
<1> DEFINE e == [k \in 0 .. n + m |-> IF k <= n THEN g[k] ELSE g[n] + h[k - n]]
<1>3. /\ g \in [0 .. n -> Int] /\ g[0] = 0 /\ \A k \in 1 .. n : g[k] = g[k - 1] + s[k]
      /\ h \in [0 .. m -> Int] /\ h[0] = 0 /\ \A k \in 1 .. m : h[k] = h[k - 1] + t[k]
  BY <1>1, <1>2 DEF Adds
<1>4. \A k \in 1 .. n + m : u[k] \in Int /\ e[k] = e[k - 1] + u[k]
  <2> SUFFICES ASSUME NEW k \in 1 .. n + m PROVE u[k] \in Int /\ e[k] = e[k - 1] + u[k]
    OBVIOUS
  <2>1. CASE k <= n
    <3>1. k \in 1 .. n /\ k - 1 \in 0 .. n
      BY <2>1
    <3>2. e[k] = g[k] /\ e[k - 1] = g[k - 1] /\ u[k] = s[k]
      BY <2>1, <3>1
    <3> QED
      BY <1>3, <3>1, <3>2 DEF Numbers
  <2>2. CASE ~ (k <= n)
    <3>1. k - n \in 1 .. m /\ n + (k - n) = k /\ (k - 1) - n = (k - n) - 1 /\ (k - n) - 1 \in 0 .. m
      BY <2>2
    <3>2. u[k] = t[k - n] /\ t[k - n] \in Int
      BY <3>1 DEF Numbers
    <3>3. e[k] = g[n] + h[k - n]
      BY <2>2
    <3>4. e[k - 1] = g[n] + h[(k - n) - 1]
      <4>1. CASE k - 1 = n
        <5>1. (k - n) - 1 = 0 /\ e[k - 1] = g[n]
          BY <4>1
        <5> QED
          BY <1>1, <1>3, <5>1
      <4>2. CASE k - 1 # n
        <5>1. ~ (k - 1 <= n)
          BY <2>2, <4>2
        <5> QED
          BY <3>1, <5>1
      <4> QED
        BY <4>1, <4>2
    <3>5. h[k - n] = h[(k - n) - 1] + t[k - n] /\ h[(k - n) - 1] \in Int /\ g[n] \in Int
      BY <1>1, <1>3, <3>1
    <3> QED
      BY <3>2, <3>3, <3>4, <3>5
  <2> QED
    BY <2>1, <2>2
<1>5. e \in [0 .. n + m -> Int] /\ e[0] = 0
  <2>1. \A k \in 0 .. n + m : e[k] \in Int
    <3> SUFFICES ASSUME NEW k \in 0 .. n + m PROVE e[k] \in Int
      OBVIOUS
    <3>1. CASE k <= n
      BY <1>3, <3>1
    <3>2. CASE ~ (k <= n)
      <4>1. k - n \in 0 .. m
        BY <3>2
      <4>2. h[k - n] \in Int /\ g[n] \in Int
        BY <1>1, <1>3, <4>1
      <4> QED
        BY <3>2, <4>2
    <3> QED
      BY <3>1, <3>2
  <2> QED
    BY <1>3, <2>1
<1>6. e[n + m] = g[n] + h[m]
  <2>1. CASE m = 0
    BY <1>1, <1>3, <2>1
  <2>2. CASE m # 0
    BY <2>2
  <2> QED
    BY <2>1, <2>2
<1> HIDE DEF e
<1>7. Numbers(u, n + m) /\ Adds(u, n + m, e)
  BY <1>4, <1>5 DEF Numbers, Adds
<1>8. Sum(u) = e[n + m]
  BY <1>7, SumIs
<1> QED
  BY <1>1, <1>2, <1>6, <1>8

(***************************************************************************)
(* The line of a walk                                                       *)
(***************************************************************************)

Spot(g, n) == <<g.node[n].x, g.node[n].y>>

(* Pixels are a distance.                                                   *)
LEMMA PixelsApart ==
  ASSUME NEW g, WellFormed(g), NEW a \in DOMAIN g.node, NEW b \in DOMAIN g.node
  PROVE  /\ Pixels(g.node[a], g.node[b]) \in Nat
         /\ Pixels(g.node[a], g.node[b]) = 0 <=> Spot(g, a) = Spot(g, b)
<1>1. /\ g.node[a].x \in Int /\ g.node[a].y \in Int
      /\ g.node[b].x \in Int /\ g.node[b].y \in Int
  BY DEF WellFormed
<1>2. ASSUME NEW u \in Int, NEW v \in Int
      PROVE  Abs(u - v) \in Nat /\ (Abs(u - v) = 0 <=> u = v)
  BY DEF Abs
<1> DEFINE dx == Abs(g.node[a].x - g.node[b].x)
           dy == Abs(g.node[a].y - g.node[b].y)
<1>3. /\ dx \in Nat /\ (dx = 0 <=> g.node[a].x = g.node[b].x)
      /\ dy \in Nat /\ (dy = 0 <=> g.node[a].y = g.node[b].y)
  BY <1>1, <1>2, ZenonT(60)
<1>4. Pixels(g.node[a], g.node[b]) = dx + dy
  BY DEF Pixels
<1> HIDE DEF dx, dy
<1>5. dx + dy \in Nat /\ (dx + dy = 0 <=> dx = 0 /\ dy = 0)
  BY <1>3
<1> QED
  BY <1>3, <1>4, <1>5 DEF Spot

(* A line of nodes; and one that keeps the ends of another.                  *)
Line(g, s) == s \in Seq(DOMAIN g.node) /\ Len(s) \in Nat \ {0} /\ DOMAIN s = 1 .. Len(s)
KeepsEnds(g, r, s) ==
  /\ Line(g, r)
  /\ Spot(g, r[1]) = Spot(g, s[1]) /\ Spot(g, r[Len(r)]) = Spot(g, s[Len(s)])

(* What is picked first, when the first is.                                 *)
LEMMA FirstPicked ==
  ASSUME NEW T, NEW s, NEW A \in SUBSET (Nat \ {0}), 1 \in A, NEW r, NEW m, Indexed(T, s, A, r, m)
  PROVE  Len(r) \in Nat \ {0} /\ m[1] = 1 /\ r[1] = s[1]
<1>1. /\ r \in Seq(T) /\ m \in [1 .. Len(r) -> A]
      /\ \A i, j \in 1 .. Len(r) : i < j => m[i] < m[j]
      /\ \A j \in 1 .. Len(r) : r[j] = s[m[j]]
  BY DEF Indexed
<1>2. PICK j \in 1 .. Len(r) : m[j] = 1
  BY DEF Indexed
<1>3. Len(r) \in Nat
  BY <1>1, LenProperties
<1>4. j = 1
  <2> SUFFICES ASSUME j # 1 PROVE FALSE
    OBVIOUS
  <2>1. 1 \in 1 .. Len(r) /\ 1 < j
    BY <1>3
  <2>2. m[1] < 1 /\ m[1] \in Nat \ {0}
    BY <1>1, <1>2, <2>1
  <2> QED
    BY <2>2
<1> QED
  BY <1>1, <1>2, <1>3, <1>4

(* The points of a walk that are not where the one before is.                *)
Moves(g, s) ==
  {i \in DOMAIN s : i = 1 \/ Pixels(g.node[s[i]], g.node[s[i - 1]]) # 0}

Stays(g, s, a, b) ==
  \A i \in Nat : a < i /\ i <= b => Spot(g, s[i]) = Spot(g, s[i - 1])

(* Where nothing moves, one is where the first is.                          *)
LEMMA StaysPut ==
  ASSUME NEW g, NEW s, NEW a \in Nat, NEW b \in Nat, a <= b, Stays(g, s, a, b)
  PROVE  Spot(g, s[b]) = Spot(g, s[a])
<1> DEFINE N == b - a
           G == {k \in 0 .. N : Spot(g, s[a + k]) = Spot(g, s[a])}
<1>1. N \in Nat /\ a + N = b
  OBVIOUS
<1>2. 0 \in G
  BY <1>1
<1>3. ASSUME NEW k \in 1 .. N, k - 1 \in G PROVE k \in G
  <2>1. a + k \in Nat /\ a < a + k /\ a + k <= b /\ (a + k) - 1 = a + (k - 1)
    OBVIOUS
  <2>2. Spot(g, s[a + (k - 1)]) = Spot(g, s[a])
    BY <1>3
  <2>3. Spot(g, s[a + k]) = Spot(g, s[(a + k) - 1])
    BY <2>1 DEF Stays
  <2> QED
    BY <2>1, <2>2, <2>3
<1>4. G = 0 .. N
  <2>1. G \in SUBSET (0 .. N)
    OBVIOUS
  <2> HIDE DEF G, N
  <2> QED
    BY <1>1, <1>2, <1>3, <2>1, UpTo
<1>5. N \in G
  BY <1>1, <1>4
<1> QED
  BY <1>1, <1>5

(* Picking some points of a line, its ends among them.                      *)
LEMMA EndsPicked ==
  ASSUME NEW g, NEW s, Line(g, s), NEW A \in SUBSET (1 .. Len(s)), 1 \in A, Len(s) \in A
  PROVE  KeepsEnds(g, Picked(s, A), s)
<1> DEFINE V == DOMAIN g.node
           r == Picked(s, A)
           L == Len(s)
<1>1. s \in Seq(V) /\ L \in Nat \ {0} /\ DOMAIN s = 1 .. L
  BY DEF Line
<1> HIDE DEF V
<1>2. PICK m : Indexed(V, s, A, r, m)
  BY <1>1, PickedIs
<1> HIDE DEF r
<1>3. A \in SUBSET (Nat \ {0})
  BY <1>1
<1>4. Len(r) \in Nat \ {0} /\ m[1] = 1 /\ r[1] = s[1]
  BY <1>2, <1>3, FirstPicked
<1>5. /\ r \in Seq(V) /\ m \in [1 .. Len(r) -> A]
      /\ \A j \in 1 .. Len(r) : r[j] = s[m[j]]
      /\ \A i, j \in 1 .. Len(r) : i < j => m[i] < m[j]
      /\ \A x \in A : \E j \in 1 .. Len(r) : m[j] = x
  BY <1>2 DEF Indexed
<1>6. PICK j \in 1 .. Len(r) : m[j] = L
  BY <1>5
<1>7. Len(r) \in 1 .. Len(r)
  BY <1>4
<1>8. j = Len(r)
  <2> SUFFICES ASSUME j < Len(r) PROVE FALSE
    BY <1>4
  <2>1. m[j] < m[Len(r)] /\ m[Len(r)] \in 1 .. L
    BY <1>5, <1>7
  <2> QED
    BY <1>1, <1>6, <2>1
<1>9. r[Len(r)] = s[L]
  BY <1>5, <1>6, <1>7, <1>8
<1>10. Line(g, r)
  BY <1>4, <1>5, LenProperties DEF Line, V
<1>11. KeepsEnds(g, r, s)
  BY <1>4, <1>9, <1>10 DEF KeepsEnds
<1> QED
  BY <1>11 DEF r

(* Coincident points dropped, the ends are where they were.                  *)
LEMMA DistinctKeeps ==
  ASSUME NEW g, WellFormed(g), NEW s, Line(g, s)
  PROVE  KeepsEnds(g, Distinct(g, s), s)
<1> DEFINE V == DOMAIN g.node
           A == Moves(g, s)
           r == Picked(s, A)
           L == Len(s)
<1>1. /\ s \in Seq(V) /\ L \in Nat \ {0} /\ DOMAIN s = 1 .. L
      /\ \A i \in 1 .. L : s[i] \in V
  BY ElementOfSeq DEF Line
<1>2. A \in SUBSET (1 .. L) /\ 1 \in A
  BY <1>1 DEF Moves
<1>3. ASSUME NEW i \in 1 .. L, i # 1, i \notin A
      PROVE  Spot(g, s[i]) = Spot(g, s[i - 1])
  <2>1. i - 1 \in 1 .. L
    BY <1>1, <1>3
  <2>2. Pixels(g.node[s[i]], g.node[s[i - 1]]) = 0 <=> Spot(g, s[i]) = Spot(g, s[i - 1])
    BY <1>1, <2>1, PixelsApart
  <2> QED
    BY <1>1, <1>3, <2>2 DEF Moves
<1> HIDE DEF A, V
<1>4. PICK m : Indexed(V, s, A, r, m)
  BY <1>1, <1>2, PickedIs
<1> HIDE DEF r
<1>5. A \in SUBSET (Nat \ {0})
  BY <1>2
<1>6. Len(r) \in Nat \ {0} /\ m[1] = 1 /\ r[1] = s[1]
  BY <1>2, <1>4, <1>5, FirstPicked
<1>7. /\ r \in Seq(V) /\ m \in [1 .. Len(r) -> A]
      /\ \A j \in 1 .. Len(r) : r[j] = s[m[j]]
      /\ \A i, j \in 1 .. Len(r) : i < j => m[i] < m[j]
      /\ \A x \in A : \E j \in 1 .. Len(r) : m[j] = x
  BY <1>4 DEF Indexed
<1> DEFINE b == m[Len(r)]
<1>8. Len(r) \in 1 .. Len(r)
  BY <1>6
<1>9. b \in 1 .. L /\ r[Len(r)] = s[b]
  BY <1>2, <1>7, <1>8
<1> HIDE DEF b
<1>10. ASSUME NEW i \in Nat, b < i, i <= L PROVE Spot(g, s[i]) = Spot(g, s[i - 1])
  <2>1. i \in 1 .. L /\ i # 1
    BY <1>9, <1>10
  <2>2. i \notin A
    <3> SUFFICES ASSUME i \in A PROVE FALSE
      OBVIOUS
    <3>1. PICK j \in 1 .. Len(r) : m[j] = i
      BY <1>7
    <3>2. j = Len(r) \/ j < Len(r)
      BY <1>6
    <3>3. j < Len(r) => i < b
      BY <1>7, <1>8, <3>1 DEF b
    <3> QED
      BY <1>9, <1>10, <3>1, <3>2, <3>3 DEF b
  <2> QED
    BY <1>3, <2>1, <2>2
<1>11. Spot(g, s[L]) = Spot(g, s[b])
  <2>1. b \in Nat /\ L \in Nat /\ b <= L
    BY <1>1, <1>9
  <2> HIDE DEF L
  <2>2. Stays(g, s, b, L)
    BY <1>10 DEF L, Stays
  <2> HIDE DEF b
  <2> QED
    BY <2>1, <2>2, StaysPut
<1>12. Line(g, r)
  BY <1>6, <1>7, LenProperties DEF Line, V
<1>13. KeepsEnds(g, r, s)
  BY <1>6, <1>9, <1>11, <1>12 DEF KeepsEnds
<1>14. Distinct(g, s) = r
  BY Zenon DEF Distinct, Moves, A, r
<1> QED
  BY <1>13, <1>14

(* A line that is smoothed keeps its ends,                                   *)
LEMMA SmoothedKeeps ==
  ASSUME NEW g, NEW floor, NEW s, Line(g, s)
  PROVE  KeepsEnds(g, Smoothed(g, floor, s), s)
<1> DEFINE ahead(i) == {j \in i + 1 .. Len(s) : \A k \in i + 1 .. j :
                          /\ {s[i], s[k]} \notin g.hidden
                          /\ k < j => ~Protected(g, s[k])}
           kept == CHOOSE f : f = [j \in DOMAIN s |->
                     j = 1 \/ \E i \in 1 .. j - 1 : j = Max(ahead(i) \cup {i + 1}) /\ f[i]]
           A == {j \in DOMAIN s : j \in {1, Len(s)} \/ kept[j]}
<1>1. Smoothed(g, floor, s) = IF floor \in g.drawn THEN Picked(s, A) ELSE s
  BY Zenon DEF Smoothed
<1> HIDE DEF kept
<1>2. Len(s) \in Nat \ {0} /\ DOMAIN s = 1 .. Len(s)
  BY DEF Line
<1>3. A \in SUBSET (1 .. Len(s)) /\ 1 \in A /\ Len(s) \in A
  BY <1>2
<1> HIDE DEF A
<1>4. KeepsEnds(g, Picked(s, A), s)
  BY <1>3, EndsPicked
<1>5. KeepsEnds(g, s, s)
  BY DEF KeepsEnds
<1> QED
  BY <1>1, <1>4, <1>5

(* and so does one put into words.                                          *)
LEMMA SimplifiedKeeps ==
  ASSUME NEW g, WellFormed(g), NEW floor, NEW s, Line(g, s)
  PROVE  KeepsEnds(g, SimplifiedPoints(g, floor, Distinct(g, s)), s)
<1> DEFINE r == Distinct(g, s)
           bends == Bends(g, ScaleOf(g, floor), r)
           A == {i \in DOMAIN r : i \in {1, Len(r)} \/ i \in bends}
<1>1. SimplifiedPoints(g, floor, r) = Picked(r, A)
  BY Zenon DEF SimplifiedPoints
<1>2. KeepsEnds(g, r, s)
  BY DistinctKeeps
<1> HIDE DEF r, bends
<1>3. Line(g, r) /\ Len(r) \in Nat \ {0} /\ DOMAIN r = 1 .. Len(r)
  BY <1>2 DEF KeepsEnds, Line
<1>4. A \in SUBSET (1 .. Len(r)) /\ 1 \in A /\ Len(r) \in A
  BY <1>3
<1> HIDE DEF A
<1>5. KeepsEnds(g, Picked(r, A), r)
  BY <1>3, <1>4, EndsPicked
<1>6. KeepsEnds(g, Picked(r, A), s)
  BY <1>2, <1>5 DEF KeepsEnds
<1> QED
  BY <1>1, <1>6 DEF r

(* What never falls from one place to the next never falls.                 *)
LEMMA NeverFalls ==
  ASSUME NEW n \in Nat, NEW c, \A i \in 1 .. n : c[i] \in Int,
         \A i \in 1 .. n - 1 : c[i] <= c[i + 1],
         NEW a \in 1 .. n, NEW b \in 1 .. n, a <= b
  PROVE  c[a] <= c[b]
<1> DEFINE N == b - a
           G == {k \in 0 .. N : c[a] <= c[a + k]}
<1>1. N \in Nat /\ a + N = b /\ a + 0 = a /\ c[a] \in Int
  OBVIOUS
<1>2. 0 \in G
  BY <1>1
<1>3. ASSUME NEW k \in 1 .. N, k - 1 \in G PROVE k \in G
  <2>1. a + (k - 1) \in 1 .. n - 1 /\ (a + (k - 1)) + 1 = a + k
        /\ a + (k - 1) \in 1 .. n /\ a + k \in 1 .. n
    OBVIOUS
  <2>2. c[a] <= c[a + (k - 1)]
    BY <1>3
  <2>3. c[a + (k - 1)] <= c[a + k]
    BY <2>1
  <2>4. c[a + (k - 1)] \in Int /\ c[a + k] \in Int
    BY <2>1
  <2> QED
    BY <1>1, <2>2, <2>3, <2>4
<1>4. G = 0 .. N
  <2>1. G \in SUBSET (0 .. N)
    OBVIOUS
  <2> HIDE DEF G, N
  <2> QED
    BY <1>1, <1>2, <1>3, <2>1, UpTo
<1>5. N \in G
  <2> HIDE DEF G, N
  <2> QED
    BY <1>1, <1>4
<1> QED
  BY <1>1, <1>5

(* Lengths along a line of n points.                                        *)
Rising(c, n) ==
  /\ DOMAIN c = 1 .. n /\ Len(c) = n
  /\ c[1] = 0 /\ \A i \in 1 .. n : c[i] \in Nat
  /\ \A i, j \in 1 .. n : i <= j => c[i] <= c[j]

(* The lengths along a line; one that is as long as nothing ends where it     *)
(* begins.                                                                  *)
LEMMA CumulativeRises ==
  ASSUME NEW g, WellFormed(g), NEW s, Line(g, s)
  PROVE  /\ Rising(Cumulative(g, s), Len(s))
         /\ Cumulative(g, s)[Len(s)] = 0 => Spot(g, s[1]) = Spot(g, s[Len(s)])
<1> DEFINE n == Len(s)
           Px(j) == Pixels(g.node[s[j]], g.node[s[j + 1]])
           d == [j \in 1 .. n - 1 |-> Px(j)]
           c == Cumulative(g, s)
<1>1. /\ n \in Nat /\ n >= 1 /\ DOMAIN s = 1 .. n
      /\ \A i \in 1 .. n : s[i] \in DOMAIN g.node
  BY ElementOfSeq DEF Line
<1>2. \A j \in 1 .. n - 1 : Px(j) \in Nat /\ (Px(j) = 0 => Spot(g, s[j]) = Spot(g, s[j + 1]))
  <2> SUFFICES ASSUME NEW j \in 1 .. n - 1
               PROVE  Px(j) \in Nat /\ (Px(j) = 0 => Spot(g, s[j]) = Spot(g, s[j + 1]))
    OBVIOUS
  <2>1. j \in 1 .. n /\ j + 1 \in 1 .. n
    BY <1>1
  <2>2. s[j] \in DOMAIN g.node /\ s[j + 1] \in DOMAIN g.node
    BY <1>1, <2>1
  <2> QED
    BY <2>2, PixelsApart
<1>4. c = [i \in 1 .. n |-> Sum([j \in 1 .. i - 1 |-> Px(j)])]
  <2>1. c = [i \in DOMAIN s |-> Sum([j \in 1 .. i - 1 |-> Px(j)])]
    BY Zenon DEF Cumulative
  <2> HIDE DEF Px, n, c
  <2> QED
    BY <1>1, <2>1
<1> HIDE DEF n, Px, c
<1>5. n - 1 \in Nat /\ Numbers(d, n - 1)
  BY <1>1, <1>2 DEF Numbers
<1>6. PICK e : Adds(d, n - 1, e)
  <2> HIDE DEF d
  <2> QED
    BY <1>5, AddsExist
<1>7. /\ e \in [0 .. n - 1 -> Int] /\ e[0] = 0
      /\ \A k \in 1 .. n - 1 : e[k] = e[k - 1] + Px(k)
  <2> USE <1>6 DEF Adds
  <2>1. e \in [0 .. n - 1 -> Int] /\ e[0] = 0
    OBVIOUS
  <2>2. \A k \in 1 .. n - 1 : e[k] = e[k - 1] + d[k]
    OBVIOUS
  <2> QED
    BY <2>1, <2>2
<1>8. ASSUME NEW i \in 1 .. n PROVE c[i] = e[i - 1]
  <2> DEFINE t == [j \in 1 .. i - 1 |-> Px(j)]
             u == [k \in 0 .. i - 1 |-> e[k]]
  <2>1. i - 1 \in Nat /\ Numbers(t, i - 1)
    <3>1. \A j \in 1 .. i - 1 : j \in 1 .. n - 1
      BY <1>1
    <3> QED
      BY <1>2, <3>1 DEF Numbers
  <2>2. Adds(t, i - 1, u)
    <3>1. \A k \in 0 .. i - 1 : k \in 0 .. n - 1
      BY <1>1
    <3>2. u \in [0 .. i - 1 -> Int] /\ u[0] = 0
      BY <1>7, <3>1
    <3>3. \A k \in 1 .. i - 1 : k \in 1 .. n - 1 /\ k \in 0 .. i - 1 /\ k - 1 \in 0 .. i - 1
      BY <1>1
    <3>4. \A k \in 1 .. i - 1 : u[k] = u[k - 1] + t[k]
      BY <1>7, <3>3
    <3> HIDE DEF t, u
    <3> QED
      BY <3>2, <3>4 DEF Adds
  <2>3. u[i - 1] = e[i - 1]
    BY <2>1
  <2>4. c[i] = Sum(t)
    BY <1>4
  <2> HIDE DEF t, u
  <2>5. Sum(t) = u[i - 1]
    BY <2>1, <2>2, SumIs
  <2> QED
    BY <2>3, <2>4, <2>5
<1>9. \A i \in 1 .. n - 1 : c[i + 1] = c[i] + Px(i)
  <2> SUFFICES ASSUME NEW i \in 1 .. n - 1 PROVE c[i + 1] = c[i] + Px(i)
    OBVIOUS
  <2>1. i \in 1 .. n /\ i + 1 \in 1 .. n /\ (i + 1) - 1 = i
    BY <1>1
  <2>2. c[i + 1] = e[i] /\ c[i] = e[i - 1]
    BY <1>8, <2>1
  <2> QED
    BY <1>7, <2>2
<1>10. \A i \in 1 .. n : c[i] \in Int
  <2> SUFFICES ASSUME NEW i \in 1 .. n PROVE c[i] \in Int
    OBVIOUS
  <2>1. i - 1 \in 0 .. n - 1
    BY <1>1
  <2> QED
    BY <1>7, <1>8, <2>1
<1>11. \A i \in 1 .. n - 1 : c[i] <= c[i + 1]
  <2> SUFFICES ASSUME NEW i \in 1 .. n - 1 PROVE c[i] <= c[i + 1]
    OBVIOUS
  <2>1. i \in 1 .. n
    BY <1>1
  <2>2. c[i] \in Int /\ Px(i) \in Nat /\ c[i + 1] = c[i] + Px(i)
    BY <1>2, <1>9, <1>10, <2>1
  <2> QED
    BY <2>2
<1>12. \A i, j \in 1 .. n : i <= j => c[i] <= c[j]
  BY <1>1, <1>10, <1>11, NeverFalls
<1>13. c[1] = 0
  <2>1. 1 \in 1 .. n
    BY <1>1
  <2>2. c[1] = e[0]
    BY <1>8, <2>1
  <2> QED
    BY <1>7, <2>2
<1>14. \A i \in 1 .. n : c[i] \in Nat
  <2> SUFFICES ASSUME NEW i \in 1 .. n PROVE c[i] \in Nat
    OBVIOUS
  <2>1. 1 \in 1 .. n /\ 1 <= i
    BY <1>1
  <2>2. c[1] <= c[i] /\ c[i] \in Int
    BY <1>10, <1>12, <2>1
  <2> QED
    BY <1>13, <2>2
<1>15. ASSUME c[n] = 0 PROVE Spot(g, s[1]) = Spot(g, s[n])
  <2>1. ASSUME NEW i \in Nat, 1 < i, i <= n PROVE Spot(g, s[i]) = Spot(g, s[i - 1])
    <3> DEFINE j == i - 1
    <3>1. j \in 1 .. n - 1 /\ j \in 1 .. n /\ j + 1 \in 1 .. n /\ n \in 1 .. n /\ j + 1 <= n /\ j + 1 = i
      BY <1>1, <2>1
    <3> HIDE DEF j
    <3>2. c[j + 1] = c[j] + Px(j) /\ c[j + 1] <= c[n] /\ c[j] \in Nat /\ Px(j) \in Nat
      BY <1>2, <1>9, <1>12, <1>14, <3>1
    <3>3. Px(j) = 0
      <4>1. c[j + 1] \in Nat
        BY <1>14, <3>1
      <4> QED
        BY <1>15, <3>2, <4>1
    <3>4. Spot(g, s[j]) = Spot(g, s[j + 1])
      BY <1>2, <3>1, <3>3
    <3> QED
      BY <3>1, <3>4 DEF j
  <2>2. 1 \in Nat /\ n \in Nat /\ 1 <= n
    BY <1>1
  <2>3. Stays(g, s, 1, n)
    BY <2>1 DEF Stays
  <2> QED
    BY <2>2, <2>3, StaysPut
<1>16. DOMAIN c = 1 .. n /\ Len(c) = n
  <2>1. DOMAIN c = 1 .. n
    BY <1>4
  <2>2. c \in [1 .. n -> Nat]
    BY <1>4, <1>14
  <2> QED
    BY <1>1, <2>1, <2>2, Sequential
<1>17. Rising(c, n)
  BY <1>12, <1>13, <1>14, <1>16 DEF Rising
<1> QED
  BY <1>15, <1>17 DEF c, n

(***************************************************************************)
(* The marks of a walk                                                      *)
(***************************************************************************)

Ways == {"straight", "right", "uturn", "left"}
MarkSet(g) == [at : Nat, node : DOMAIN g.node \cup {"none"}, kind : Ways \cup {"open"}]

(* Marks that begin with the opening and never go back, none beyond top.     *)
Marked(g, s, top) ==
  /\ s \in Seq(MarkSet(g)) /\ Len(s) \in Nat \ {0} /\ DOMAIN s = 1 .. Len(s)
  /\ s[1].at = 0 /\ s[1].kind = "open"
  /\ \A i \in 1 .. Len(s) : i # 1 => s[i].kind \in Ways
  /\ \A i \in 1 .. Len(s) - 1 : s[i].at <= s[i + 1].at
  /\ s[Len(s)].at <= top

(* One mark more.                                                           *)
LEMMA MarkedMore ==
  ASSUME NEW g, NEW s, NEW x \in Nat, Marked(g, s, x), NEW y \in Nat,
         NEW m \in MarkSet(g), m.kind \in Ways, x <= m.at, m.at <= y
  PROVE  Marked(g, Append(s, m), y)
<1> DEFINE L == Len(s)
           t == Append(s, m)
<1>1. s \in Seq(MarkSet(g)) /\ L \in Nat \ {0}
  BY DEF Marked
<1>2. /\ t \in Seq(MarkSet(g)) /\ Len(t) = L + 1 /\ t[L + 1] = m
      /\ \A i \in 1 .. L : t[i] = s[i]
  BY <1>1, OneMore
<1> HIDE DEF t, L
<1>3. DOMAIN t = 1 .. L + 1
  BY <1>2, LenProperties
<1>4. t[1].at = 0 /\ t[1].kind = "open"
  BY <1>1, <1>2 DEF Marked, L
<1>5. \A i \in 1 .. L + 1 : i # 1 => t[i].kind \in Ways
  <2> SUFFICES ASSUME NEW i \in 1 .. L + 1, i # 1 PROVE t[i].kind \in Ways
    OBVIOUS
  <2>1. i \in 1 .. L \/ i = L + 1
    BY <1>1
  <2> QED
    BY <1>2, <2>1 DEF Marked, L
<1>6. \A i \in 1 .. L : t[i].at <= t[i + 1].at
  <2> SUFFICES ASSUME NEW i \in 1 .. L PROVE t[i].at <= t[i + 1].at
    OBVIOUS
  <2>1. CASE i = L
    <3>1. s[L].at <= x /\ s[L] \in MarkSet(g)
      BY <1>1, ElementOfSeq DEF Marked, L
    <3>2. s[L].at \in Nat /\ m.at \in Nat
      BY <3>1 DEF MarkSet
    <3> QED
      BY <1>2, <2>1, <3>1, <3>2
  <2>2. CASE i # L
    <3>1. i \in 1 .. L - 1 /\ i + 1 \in 1 .. L
      BY <1>1, <2>2
    <3> QED
      BY <1>2, <3>1 DEF Marked, L
  <2> QED
    BY <2>1, <2>2
<1>7. (L + 1) - 1 = L /\ L + 1 \in Nat \ {0}
  BY <1>1
<1> QED
  <2>1. Marked(g, t, y)
    BY <1>2, <1>3, <1>4, <1>5, <1>6, <1>7 DEF Marked
  <2> QED
    BY <2>1 DEF t

(* A turn is one of the four ways.                                          *)
LEMMA TurnsAWay ==
  ASSUME NEW a, NEW b
  PROVE  ClassifyTurn(a, b) \in Ways
BY DEF ClassifyTurn, Ways

(* Decisions at the points m of a line, in order.                           *)
Decided(g, s, c, D, m) ==
  /\ D \in Seq(MarkSet(g)) /\ Len(D) \in Nat /\ DOMAIN D = 1 .. Len(D)
  /\ m \in [1 .. Len(D) -> 1 .. Len(s)]
  /\ \A k \in 1 .. Len(D) : D[k].at = c[m[k]] /\ D[k].kind \in Ways
  /\ \A i, j \in 1 .. Len(D) : i < j => m[i] < m[j]

(* The decisions of a line: marks at points picked in order.                 *)
LEMMA DecisionsAre ==
  ASSUME NEW g, NEW s, Line(g, s), NEW c, Rising(c, Len(s)), NEW w
  PROVE  \E m : Decided(g, s, c, Decisions(g, s, c, w), m)
<1> DEFINE Q(i) == Quarter(g.node[s[i]], g.node[s[i + 1]])
           raw == 2 .. Len(s) - 1
           Past(i) == Max({j \in raw : j >= i /\ c[j] - c[i] < w} \cup {i})
           starts == CHOOSE f : f = [i \in raw |-> i = 2 \/ \E k \in 2 .. i - 1 : f[k] /\ Past(k) = i - 1]
           S == {i \in raw : starts[i] /\ ClassifyTurn(Q(i - 1), Q(Past(i))) # "straight"}
           id == [i \in DOMAIN s |-> i]
           F == Picked(id, S)
           Kind(k) == ClassifyTurn(Q(F[k] - 1), Q(Past(F[k])))
           D == [k \in DOMAIN F |-> [at |-> c[F[k]], node |-> s[F[k]], kind |-> Kind(k)]]
<1>1. Decisions(g, s, c, w) = D
  BY Zenon DEF Decisions
<1>2. \A k : Kind(k) \in Ways
  <2> HIDE DEF Q, Past
  <2> QED
    BY TurnsAWay
<1>3. /\ Len(s) \in Nat \ {0} /\ DOMAIN s = 1 .. Len(s)
      /\ \A i \in 1 .. Len(s) : s[i] \in DOMAIN g.node
  BY ElementOfSeq DEF Line
<1>4. S \in SUBSET (1 .. Len(s))
  <2>1. S \in SUBSET raw
    OBVIOUS
  <2>2. \A i \in raw : i \in 1 .. Len(s)
    BY <1>3
  <2> HIDE DEF S, raw
  <2> QED
    BY <2>1, <2>2
<1> HIDE DEF S, raw, starts, Kind
<1>5. id \in Seq(1 .. Len(s)) /\ Len(id) = Len(s) /\ \A i \in 1 .. Len(s) : id[i] = i
  <2>1. id \in [1 .. Len(s) -> 1 .. Len(s)]
    BY <1>3
  <2>2. \A i \in 1 .. Len(s) : id[i] = i
    BY <1>3
  <2>3. Len(s) \in Nat
    BY <1>3
  <2> DEFINE N == Len(s)
  <2> HIDE DEF id, N
  <2>4. id \in Seq(1 .. N) /\ Len(id) = N
    BY <2>1, <2>3, Sequential DEF N
  <2> QED
    BY <2>2, <2>4 DEF N
<1> HIDE DEF id
<1>6. PICK m : Indexed(1 .. Len(s), id, S, F, m)
  BY <1>4, <1>5, PickedIs
<1> HIDE DEF F
<1>7. /\ F \in Seq(1 .. Len(s)) /\ m \in [1 .. Len(F) -> S]
      /\ \A j \in 1 .. Len(F) : F[j] = id[m[j]]
      /\ \A i, j \in 1 .. Len(F) : i < j => m[i] < m[j]
  BY <1>6 DEF Indexed
<1> DEFINE n == Len(F)
<1>8. n \in Nat /\ DOMAIN F = 1 .. n
  BY <1>7, LenProperties
<1>9. m \in [1 .. n -> 1 .. Len(s)]
  BY <1>4, <1>7
<1>10. \A k \in 1 .. n : F[k] = m[k] /\ F[k] \in 1 .. Len(s)
  BY <1>5, <1>7, <1>9
<1> HIDE DEF n
<1>11. \A k \in 1 .. n : /\ D[k].at = c[m[k]] /\ D[k].kind \in Ways
                         /\ D[k] \in MarkSet(g)
  <2> SUFFICES ASSUME NEW k \in 1 .. n
               PROVE  D[k].at = c[m[k]] /\ D[k].kind \in Ways /\ D[k] \in MarkSet(g)
    OBVIOUS
  <2>1. D[k] = [at |-> c[F[k]], node |-> s[F[k]], kind |-> Kind(k)]
    BY <1>8
  <2>2. c[F[k]] \in Nat /\ s[F[k]] \in DOMAIN g.node
    BY <1>3, <1>10 DEF Rising
  <2> QED
    BY <1>2, <1>10, <2>1, <2>2 DEF MarkSet
<1>12. D \in Seq(MarkSet(g)) /\ Len(D) = n /\ DOMAIN D = 1 .. n
  <2>1. DOMAIN D = 1 .. n
    BY <1>8
  <2>2. D \in [1 .. n -> MarkSet(g)]
    BY <1>8, <1>11
  <2> HIDE DEF D
  <2> QED
    BY <1>8, <2>1, <2>2, Sequential
<1>13. \A i, j \in 1 .. n : i < j => m[i] < m[j]
  BY <1>7 DEF n
<1> HIDE DEF D
<1>14. Decided(g, s, c, D, m)
  BY <1>8, <1>9, <1>11, <1>12, <1>13 DEF Decided
<1> QED
  BY <1>1, <1>14

(* The turns of a walk: its opening, and its decisions.                     *)
LEMMA TurnsMarked ==
  ASSUME NEW g, WellFormed(g), NEW s, Line(g, s), NEW c, Rising(c, Len(s)), NEW seg
  PROVE  Marked(g, Turns(g, seg, s, c), c[Len(c)])
<1> DEFINE L == Len(s)
           w == MergeWithin * ScaleOf(g, seg.floor)
           D == Decisions(g, s, c, w)
           o == [at |-> 0, node |-> s[1], kind |-> "open"]
           t == <<o>> \o D
           n == Len(D)
<1>1. L \in Nat \ {0} /\ \A i \in 1 .. L : s[i] \in DOMAIN g.node
  BY ElementOfSeq DEF Line
<1>2. /\ Len(c) = L /\ \A i \in 1 .. L : c[i] \in Nat
      /\ \A i, j \in 1 .. L : i <= j => c[i] <= c[j]
  BY DEF Rising
<1>3. PICK m : Decided(g, s, c, D, m)
  <2> HIDE DEF w
  <2> QED
    BY DecisionsAre
<1>4. Turns(g, seg, s, c) = t
  BY Zenon DEF Turns
<1> HIDE DEF w, D
<1>5. /\ D \in Seq(MarkSet(g)) /\ n \in Nat
      /\ m \in [1 .. n -> 1 .. L]
      /\ \A k \in 1 .. n : D[k].at = c[m[k]] /\ D[k].kind \in Ways
      /\ \A i, j \in 1 .. n : i < j => m[i] < m[j]
  BY <1>3 DEF Decided
<1>6. o \in MarkSet(g) /\ o.at = 0 /\ o.kind = "open"
  <2>1. s[1] \in DOMAIN g.node
    BY <1>1
  <2> QED
    BY <2>1 DEF MarkSet
<1> HIDE DEF o
<1>7. <<o>> \in Seq(MarkSet(g)) /\ Len(<<o>>) = 1 /\ <<o>>[1] = o
  BY <1>6
<1>8. /\ t \in Seq(MarkSet(g)) /\ Len(t) = 1 + n
      /\ t[1] = o /\ \A i \in 1 .. n : t[1 + i] = D[i]
  <2> DEFINE p == <<o>>
  <2>1. p \in Seq(MarkSet(g)) /\ Len(p) = 1 /\ p[1] = o
    BY <1>7
  <2> HIDE DEF p, n
  <2>2. /\ p \o D \in Seq(MarkSet(g)) /\ Len(p \o D) = Len(p) + Len(D)
        /\ \A i \in 1 .. Len(p) + Len(D) :
             (p \o D)[i] = IF i <= Len(p) THEN p[i] ELSE D[i - Len(p)]
    BY <1>5, <2>1, ConcatProperties
  <2>3. Len(p \o D) = 1 + n /\ \A i \in 1 .. 1 + n : (p \o D)[i] = IF i <= 1 THEN p[i] ELSE D[i - 1]
    BY <2>1, <2>2 DEF n
  <2>4. (p \o D)[1] = o
    BY <1>5, <2>1, <2>3
  <2>5. \A i \in 1 .. n : 1 + i \in 1 .. 1 + n /\ ~ (1 + i <= 1) /\ (1 + i) - 1 = i
    BY <1>5
  <2>6. \A i \in 1 .. n : (p \o D)[1 + i] = D[i]
    BY <2>3, <2>5
  <2> QED
    BY <2>2, <2>3, <2>4, <2>6 DEF p
<1> HIDE DEF t, n
<1>9. \A i \in 1 .. 1 + n : i = 1 \/ (i - 1 \in 1 .. n /\ i = 1 + (i - 1))
  BY <1>5
<1>10. \A i \in 1 .. 1 + n : i # 1 => t[i].kind \in Ways
  <2> SUFFICES ASSUME NEW i \in 1 .. 1 + n, i # 1 PROVE t[i].kind \in Ways
    OBVIOUS
  <2>1. i - 1 \in 1 .. n /\ i = 1 + (i - 1)
    BY <1>9
  <2>2. t[1 + (i - 1)] = D[i - 1] /\ D[i - 1].kind \in Ways
    BY <1>5, <1>8, <2>1
  <2> QED
    BY <2>1, <2>2
<1>11. \A i \in 1 .. n : c[m[i]] \in Nat /\ c[m[i]] <= c[L]
  <2> SUFFICES ASSUME NEW i \in 1 .. n PROVE c[m[i]] \in Nat /\ c[m[i]] <= c[L]
    OBVIOUS
  <2>1. m[i] \in 1 .. L /\ L \in 1 .. L /\ m[i] <= L
    BY <1>1, <1>5
  <2> QED
    BY <1>2, <2>1
<1>12. \A i \in 1 .. n : t[i].at <= t[i + 1].at
  <2> SUFFICES ASSUME NEW i \in 1 .. n PROVE t[i].at <= t[i + 1].at
    OBVIOUS
  <2>0. t[1 + i] = D[i] /\ D[i].at = c[m[i]]
    BY <1>5, <1>8
  <2>1. t[1 + i].at = c[m[i]] /\ 1 + i = i + 1
    BY <2>0
  <2>2. CASE i = 1
    BY <1>6, <1>8, <1>11, <2>1, <2>2
  <2>3. CASE i # 1
    <3>1. i - 1 \in 1 .. n /\ 1 + (i - 1) = i /\ i - 1 < i
      BY <1>5, <2>3
    <3>2. t[i].at = c[m[i - 1]]
      BY <1>5, <1>8, <3>1
    <3>3. m[i - 1] < m[i] /\ m[i - 1] \in 1 .. L /\ m[i] \in 1 .. L
      BY <1>5, <3>1
    <3>4. m[i - 1] <= m[i]
      BY <1>1, <3>3
    <3>5. c[m[i - 1]] <= c[m[i]]
      BY <1>2, <3>3, <3>4
    <3> QED
      BY <2>1, <3>2, <3>5
  <2> QED
    BY <2>2, <2>3
<1>13. t[1 + n].at <= c[L]
  <2>1. CASE n = 0
    <3>1. L \in 1 .. L
      BY <1>1
    <3>2. c[L] \in Nat /\ t[1 + n] = o
      BY <1>2, <1>8, <2>1, <3>1
    <3> QED
      BY <1>6, <3>2
  <2>2. CASE n # 0
    <3>1. n \in 1 .. n
      BY <1>5, <2>2
    <3> QED
      BY <1>5, <1>8, <1>11, <3>1, ZenonT(60)
  <2> QED
    BY <2>1, <2>2
<1>14. DOMAIN t = 1 .. 1 + n /\ (1 + n) - 1 = n /\ 1 + n \in Nat \ {0}
  <2>1. n \in Nat
    BY <1>5
  <2>2. t \in Seq(MarkSet(g)) /\ Len(t) = 1 + n
    BY <1>8
  <2>3. DOMAIN t = 1 .. Len(t)
    BY <2>2, LenProperties
  <2> QED
    BY <2>1, <2>2, <2>3
<1>15. Marked(g, t, c[L])
  BY <1>6, <1>8, <1>10, <1>12, <1>13, <1>14 DEF Marked
<1> QED
  BY <1>2, <1>4, <1>15

(* The first k of some sequences, one after the other.                      *)
Joins(T, f, n, e) ==
  /\ e \in [1 .. n -> Seq(T)] /\ e[1] = f[1]
  /\ \A k \in 2 .. n : e[k] = e[k - 1] \o f[k]

Flattens(f, e) == e = [i \in 1 .. Len(f) |-> IF i = 1 THEN f[i] ELSE e[i - 1] \o f[i]]

(* The flattened sequence is where those joins end.                         *)
LEMMA FlattenIs ==
  ASSUME NEW T, NEW n \in Nat \ {0}, NEW f, f \in [1 .. n -> Seq(T)]
  PROVE  \E e : Joins(T, f, n, e) /\ FlattenSeq(f) = e[n]
<1>1. Len(f) = n
  <2> DEFINE X == Seq(T)
  <2> HIDE DEF X
  <2>1. f \in [1 .. n -> X]
    BY DEF X
  <2> QED
    BY <2>1, Sequential
<1> DEFINE F == [k \in 1 .. n |-> [r \in Seq(T) |-> IF k = 1 THEN f[k] ELSE r \o f[k]]]
<1>2. IsStep(n, Seq(T), F)
  <2>1. \A k \in 1 .. n : f[k] \in Seq(T)
    OBVIOUS
  <2>2. \A k \in 1 .. n : \A r \in Seq(T) : r \o f[k] \in Seq(T)
    BY <2>1, ConcatProperties
  <2> QED
    BY <2>1, <2>2 DEF IsStep
<1>3. <<>> \in Seq(T)
  BY EmptySeq
<1>4. PICK u : Iterates(u, n, Seq(T), <<>>, F)
  <2> HIDE DEF F
  <2> QED
    BY <1>2, <1>3, IterationExists
<1>5. /\ u \in [0 .. n -> Seq(T)]
      /\ \A k \in 1 .. n : u[k - 1] \in Seq(T) /\ u[k] = IF k = 1 THEN f[k] ELSE u[k - 1] \o f[k]
  <2>1. u \in [0 .. n -> Seq(T)] /\ \A k \in 1 .. n : u[k] = F[k][u[k - 1]]
    <3> HIDE DEF F
    <3> QED
      BY <1>4 DEF Iterates
  <2>2. \A k \in 1 .. n : k - 1 \in 0 .. n
    OBVIOUS
  <2> QED
    BY <2>1, <2>2
<1> HIDE DEF F
<1> DEFINE v == [k \in 1 .. n |-> u[k]]
<1>6. v = [i \in 1 .. n |-> IF i = 1 THEN f[i] ELSE v[i - 1] \o f[i]]
  <2>1. \A i \in 1 .. n : i # 1 => v[i - 1] = u[i - 1]
    OBVIOUS
  <2>2. \A i \in 1 .. n : v[i] = IF i = 1 THEN f[i] ELSE v[i - 1] \o f[i]
    BY <1>5, <2>1
  <2> QED
    BY <2>2
<1> HIDE DEF v
<1>7. Flattens(f, v)
  BY <1>1, <1>6 DEF Flattens
<1> DEFINE e == CHOOSE w : Flattens(f, w)
<1>8. Flattens(f, e)
  BY <1>7
<1>9. FlattenSeq(f) = e[n]
  <2>1. Len(f) # 0
    BY <1>1
  <2>2. FlattenSeq(f) = e[Len(f)]
    BY Zenon, <2>1 DEF FlattenSeq, Flattens
  <2> QED
    BY <1>1, <2>2
<1> HIDE DEF e
<1>10. DOMAIN e = 1 .. n /\ e = [i \in 1 .. n |-> e[i]]
  BY <1>1, <1>8 DEF Flattens
<1>11. \A i \in 1 .. n : e[i] = IF i = 1 THEN f[i] ELSE e[i - 1] \o f[i]
  <2>1. \A i \in 1 .. Len(f) : e[i] = IF i = 1 THEN f[i] ELSE e[i - 1] \o f[i]
    BY <1>8, Zenon DEF Flattens
  <2> QED
    BY <1>1, <2>1
<1>12. e[1] = f[1] /\ \A k \in 2 .. n : e[k] = e[k - 1] \o f[k]
  <2>1. 1 \in 1 .. n /\ \A k \in 2 .. n : k \in 1 .. n /\ k # 1
    OBVIOUS
  <2>2. e[1] = f[1]
    BY <1>11, <2>1, Zenon
  <2>3. \A k \in 2 .. n : e[k] = e[k - 1] \o f[k]
    BY <1>11, <2>1, Zenon
  <2> QED
    BY <2>2, <2>3
<1>13. \A i \in 1 .. n : e[i] \in Seq(T)
  <2> DEFINE N == n - 1
             G == {k \in 0 .. N : e[k + 1] \in Seq(T)}
  <2>1. N \in Nat
    OBVIOUS
  <2>2. 0 \in G
    <3>1. e[0 + 1] \in Seq(T)
      BY <1>12
    <3> QED
      BY <2>1, <3>1
  <2>3. ASSUME NEW k \in 1 .. N, k - 1 \in G PROVE k \in G
    <3>1. k + 1 \in 2 .. n /\ (k + 1) - 1 = (k - 1) + 1 /\ k \in 0 .. N /\ k + 1 \in 1 .. n
      OBVIOUS
    <3>2. e[k + 1] = e[(k - 1) + 1] \o f[k + 1] /\ e[(k - 1) + 1] \in Seq(T) /\ f[k + 1] \in Seq(T)
      BY <1>12, <2>3, <3>1
    <3>3. e[(k - 1) + 1] \o f[k + 1] \in Seq(T)
      BY <3>2, ConcatProperties
    <3>4. e[k + 1] \in Seq(T)
      BY <3>2, <3>3
    <3> QED
      BY <3>1, <3>4
  <2>4. G = 0 .. N
    <3>1. G \in SUBSET (0 .. N)
      OBVIOUS
    <3> HIDE DEF G, N
    <3> QED
      BY <2>1, <2>2, <2>3, <3>1, UpTo
  <2>5. \A i \in 1 .. n : i - 1 \in 0 .. N /\ (i - 1) + 1 = i
    OBVIOUS
  <2>6. \A i \in 1 .. n : i - 1 \in G
    <3> HIDE DEF G, N
    <3> QED
      BY <2>4, <2>5
  <2> QED
    BY <2>5, <2>6
<1>14. DOMAIN e = 1 .. n
  BY <1>10
<1>15. e \in [1 .. n -> Seq(T)]
  BY <1>10, <1>13, <1>14
<1>16. Joins(T, f, n, e)
  BY <1>12, <1>15 DEF Joins
<1> QED
  BY <1>9, <1>16

(* One or two items after a sequence.                                       *)
LEMMA OneJoined ==
  ASSUME NEW T, NEW s \in Seq(T), NEW a \in T
  PROVE  s \o <<a>> = Append(s, a)
<1> DEFINE p == <<a>>
<1>1. p \in Seq(T) /\ Len(p) = 1 /\ p[1] = a
  OBVIOUS
<1> HIDE DEF p
<1>2. /\ s \o p \in Seq(T) /\ Len(s \o p) = Len(s) + 1
      /\ \A i \in 1 .. Len(s) + 1 : (s \o p)[i] = IF i <= Len(s) THEN s[i] ELSE p[i - Len(s)]
  <2>1. /\ s \o p \in Seq(T) /\ Len(s \o p) = Len(s) + Len(p)
        /\ \A i \in 1 .. Len(s) + Len(p) :
             (s \o p)[i] = IF i <= Len(s) THEN s[i] ELSE p[i - Len(s)]
    BY <1>1, ConcatProperties
  <2> QED
    BY <1>1, <2>1
<1>3. /\ Append(s, a) \in Seq(T) /\ Len(Append(s, a)) = Len(s) + 1
      /\ Append(s, a)[Len(s) + 1] = a /\ \A i \in 1 .. Len(s) : Append(s, a)[i] = s[i]
  BY OneMore
<1>4. Len(s) \in Nat
  BY LenProperties
<1>5. ASSUME NEW i \in 1 .. Len(s) + 1 PROVE (s \o p)[i] = Append(s, a)[i]
  <2>1. CASE i \in 1 .. Len(s)
    BY <1>2, <1>3, <1>4, <2>1
  <2>2. CASE i \notin 1 .. Len(s)
    <3>1. i = Len(s) + 1 /\ ~ (i <= Len(s)) /\ i - Len(s) = 1
      BY <1>4, <2>2
    <3> QED
      BY <1>1, <1>2, <1>3, <3>1
  <2> QED
    BY <2>1, <2>2
<1>6. s \o p = Append(s, a)
  BY <1>2, <1>3, <1>5, SeqEqual
<1> QED
  BY <1>6 DEF p

(* A pair, one item after the other.                                        *)
LEMMA PairIs ==
  ASSUME NEW T, NEW a \in T, NEW b \in T
  PROVE  Append(<<a>>, b) = <<a, b>>
<1> DEFINE p == <<a>>
           r == <<a, b>>
           t == Append(p, b)
<1>1. p \in Seq(T) /\ Len(p) = 1 /\ p[1] = a
  OBVIOUS
<1>2. r \in Seq(T) /\ Len(r) = 2 /\ r[1] = a /\ r[2] = b
  OBVIOUS
<1> HIDE DEF p, r
<1>0. p \in Seq(T)
  BY <1>1
<1>3. /\ t \in Seq(T) /\ Len(t) = Len(p) + 1 /\ t[Len(p) + 1] = b
      /\ \A i \in 1 .. Len(p) : t[i] = p[i]
  BY <1>0, OneMore
<1> HIDE DEF t
<1>4. Len(t) = 2 /\ t[2] = b /\ t[1] = a
  BY <1>1, <1>3
<1>5. \A i \in 1 .. 2 : i = 1 \/ i = 2
  OBVIOUS
<1>6. t = r
  BY <1>2, <1>3, <1>4, <1>5, SeqEqual
<1> QED
  BY <1>6 DEF t, r, p

(* Two items joined.                                                        *)
LEMMA TwoJoined ==
  ASSUME NEW T, NEW s \in Seq(T), NEW a \in T, NEW b \in T
  PROVE  s \o <<a, b>> = Append(Append(s, a), b)
<1>1. Append(s, a) \in Seq(T) /\ <<a>> \in Seq(T) /\ <<b>> \in Seq(T)
  BY OneMore
<1>2. Append(s, a) = s \o <<a>> /\ Append(Append(s, a), b) = Append(s, a) \o <<b>>
  BY <1>1, OneJoined
<1>3. (s \o <<a>>) \o <<b>> = s \o (<<a>> \o <<b>>)
  BY <1>1, ConcatAssociative
<1>4. <<a>> \o <<b>> = <<a, b>>
  BY <1>1, OneJoined, PairIs
<1> QED
  BY <1>2, <1>3, <1>4

(* Marks that stay below a point stay below any further one.                *)
LEMMA MarkedHigher ==
  ASSUME NEW g, NEW s, NEW x \in Nat, Marked(g, s, x), NEW y \in Nat, x <= y
  PROVE  Marked(g, s, y)
<1>1. s[Len(s)] \in MarkSet(g)
  <2>1. Len(s) \in 1 .. Len(s)
    BY DEF Marked
  <2> QED
    BY <2>1, ElementOfSeq DEF Marked
<1>2. s[Len(s)].at \in Nat /\ s[Len(s)].at <= x
  BY <1>1 DEF Marked, MarkSet
<1>3. s[Len(s)].at <= y
  BY <1>2
<1> QED
  BY <1>3 DEF Marked

(* Marks, and then a turn or a turn with its confirmation.                   *)
LEMMA MarkedFurther ==
  ASSUME NEW g, NEW s, NEW x \in Nat, Marked(g, s, x), NEW y \in Nat,
         NEW t \in MarkSet(g), t.kind \in Ways, x <= t.at, t.at <= y,
         NEW u \in MarkSet(g), u.kind \in Ways, t.at <= u.at, u.at <= y
  PROVE  Marked(g, s \o <<t>>, y) /\ Marked(g, s \o <<t, u>>, y)
<1>1. s \in Seq(MarkSet(g)) /\ t.at \in Nat
  BY DEF Marked, MarkSet
<1>2. s \o <<t>> = Append(s, t) /\ s \o <<t, u>> = Append(Append(s, t), u)
  BY <1>1, OneJoined, TwoJoined
<1>3. Marked(g, Append(s, t), t.at)
  BY <1>1, MarkedMore
<1>4. Marked(g, Append(s, t), y)
  BY <1>1, <1>3, MarkedHigher
<1>5. Marked(g, Append(Append(s, t), u), y)
  BY <1>1, <1>3, MarkedMore
<1> QED
  BY <1>2, <1>4, <1>5

(* The confirmations come between the turns.                                *)
LEMMA MarksMarked ==
  ASSUME NEW g, NEW seg, NEW p, NEW c, NEW top, top = c[Len(c)], top \in Nat,
         NEW ts, Marked(g, ts, top), NEW dest
  PROVE  Marked(g, Marks(g, seg, p, c, ts, dest), top)
<1> DEFINE n == Len(ts)
           Until(i) == IF i < Len(ts) THEN ts[i + 1].at ELSE c[Len(c)]
           Between(i) == ts[i].at + (Until(i) - ts[i].at) \div 2
           Sure(i) == [at |-> Between(i), node |-> "none", kind |-> "straight"]
           Said(i) == IF Confirmed(g, seg, p, c, ts[i].at, Until(i), dest)
                      THEN <<ts[i], Sure(i)>> ELSE <<ts[i]>>
           f == [i \in 1 .. n |-> Said(i)]
           M == MarkSet(g)
<1>1. /\ ts \in Seq(M) /\ n \in Nat \ {0} /\ DOMAIN ts = 1 .. n
      /\ ts[1].at = 0 /\ ts[1].kind = "open"
      /\ \A i \in 1 .. n : i # 1 => ts[i].kind \in Ways
      /\ \A i \in 1 .. n - 1 : ts[i].at <= ts[i + 1].at
      /\ ts[n].at <= top
  BY DEF Marked
<1>2. Marks(g, seg, p, c, ts, dest) = FlattenSeq(f)
  <2>1. Marks(g, seg, p, c, ts, dest) = FlattenSeq([i \in DOMAIN ts |-> Said(i)])
    BY Zenon DEF Marks
  <2> HIDE DEF n, Said
  <2> QED
    BY <1>1, <2>1
<1>3. \A i \in 1 .. n : ts[i] \in M /\ ts[i].at \in Nat
  <2>1. \A i \in 1 .. n : ts[i] \in M
    BY <1>1, ElementOfSeq
  <2> QED
    BY <2>1 DEF MarkSet
<1>4. \A i \in 1 .. n : /\ Until(i) \in Nat /\ ts[i].at <= Until(i)
                        /\ i # n => Until(i) = ts[i + 1].at
                        /\ i = n => Until(i) = top
  <2> SUFFICES ASSUME NEW i \in 1 .. n
               PROVE  /\ Until(i) \in Nat /\ ts[i].at <= Until(i)
                      /\ i # n => Until(i) = ts[i + 1].at
                      /\ i = n => Until(i) = top
    OBVIOUS
  <2>1. CASE i = n
    BY <1>1, <1>3, <2>1
  <2>2. CASE i # n
    <3>0. n \in Nat
      BY <1>1
    <3>1. i < n /\ i \in 1 .. n - 1 /\ i + 1 \in 1 .. n
      <4> HIDE DEF n
      <4> QED
        BY <2>2, <3>0
    <3>2. Until(i) = ts[i + 1].at
      BY <3>1
    <3>3. ts[i].at <= ts[i + 1].at /\ ts[i + 1].at \in Nat
      BY <1>1, <1>3, <3>1
    <3> HIDE DEF Until
    <3> QED
      BY <2>2, <3>2, <3>3
  <2> QED
    BY <2>1, <2>2
<1> HIDE DEF Until
<1>5. \A i \in 1 .. n : /\ Sure(i) \in M /\ Sure(i).kind \in Ways
                        /\ ts[i].at <= Sure(i).at /\ Sure(i).at <= Until(i)
  <2> SUFFICES ASSUME NEW i \in 1 .. n
               PROVE  /\ Sure(i) \in M /\ Sure(i).kind \in Ways
                      /\ ts[i].at <= Sure(i).at /\ Sure(i).at <= Until(i)
    OBVIOUS
  <2> DEFINE a == ts[i].at
             b == Until(i)
  <2>1. a \in Nat /\ b \in Nat /\ a <= b
    BY <1>3, <1>4
  <2>2. Between(i) = a + (b - a) \div 2
    OBVIOUS
  <2> HIDE DEF a, b, Between
  <2>3. a + (b - a) \div 2 \in Nat /\ a <= a + (b - a) \div 2 /\ a + (b - a) \div 2 <= b
    BY <2>1
  <2>4. Sure(i).at = Between(i) /\ Sure(i).kind = "straight" /\ Sure(i).node = "none"
    OBVIOUS
  <2> QED
    BY <2>2, <2>3, <2>4 DEF MarkSet, Ways, a, b
<1> HIDE DEF Sure
<1>6. \A i \in 1 .. n : f[i] = <<ts[i]>> \/ f[i] = <<ts[i], Sure(i)>>
  OBVIOUS
<1>7. f \in [1 .. n -> Seq(M)]
  <2>1. \A i \in 1 .. n : <<ts[i]>> \in Seq(M) /\ <<ts[i], Sure(i)>> \in Seq(M)
    BY <1>3, <1>5
  <2> DEFINE X == Seq(M)
  <2> HIDE DEF X, M
  <2>2. \A i \in 1 .. n : f[i] \in X
    BY <1>6, <2>1 DEF X
  <2>3. f \in [1 .. n -> X]
    BY <2>2
  <2> QED
    BY <2>3 DEF X
<1> HIDE DEF f, n, M
<1>8. PICK e : Joins(M, f, n, e) /\ FlattenSeq(f) = e[n]
  BY <1>1, <1>7, FlattenIs
<1>9. /\ e \in [1 .. n -> Seq(M)] /\ e[1] = f[1]
      /\ \A k \in 2 .. n : e[k] = e[k - 1] \o f[k]
  BY <1>8 DEF Joins
<1> DEFINE N == n - 1
           G == {k \in 0 .. N : Marked(g, e[k + 1], Until(k + 1))}
<1>10. N \in Nat /\ N + 1 = n
  BY <1>1
<1>11. 0 \in G
  <2>1. 1 \in 1 .. n /\ ts[1].at = 0 /\ ts[1].kind = "open" /\ ts[1] \in M
    BY <1>1, <1>3
  <2> DEFINE o == <<ts[1]>>
  <2>2. Marked(g, o, 0)
    <3>1. o \in Seq(M) /\ Len(o) = 1 /\ o[1] = ts[1]
      BY <2>1
    <3> HIDE DEF o
    <3>2. DOMAIN o = 1 .. 1
      BY <3>1, LenProperties
    <3>3. (\A i \in 1 .. 1 : i # 1 => FALSE) /\ (\A i \in 1 .. 1 - 1 : FALSE)
      OBVIOUS
    <3> QED
      BY <2>1, <3>1, <3>2, <3>3 DEF Marked, M
  <2>3. Until(1) \in Nat /\ 0 <= Until(1)
    BY <1>4, <2>1
  <2>4. Marked(g, o, Until(1))
    BY <2>2, <2>3, MarkedHigher
  <2>5. Marked(g, <<ts[1], Sure(1)>>, Until(1))
    <3>1. Sure(1) \in M /\ Sure(1).kind \in Ways /\ Sure(1).at <= Until(1) /\ ts[1].at <= Sure(1).at
      BY <1>5, <2>1
    <3>2. Marked(g, Append(o, Sure(1)), Until(1))
      BY <2>1, <2>2, <2>3, <3>1, MarkedMore DEF M
    <3>3. Append(o, Sure(1)) = <<ts[1], Sure(1)>>
      BY <2>1, <3>1, PairIs
    <3> QED
      BY <3>2, <3>3
  <2>6. Marked(g, e[1], Until(1))
    BY <1>6, <1>9, <2>1, <2>4, <2>5
  <2>7. 0 + 1 = 1 /\ 0 \in 0 .. N
    BY <1>10
  <2> QED
    BY <2>6, <2>7
<1>12. ASSUME NEW k \in 1 .. N, k - 1 \in G PROVE k \in G
  <2> DEFINE i == k + 1
  <2>1. /\ i \in 2 .. n /\ i - 1 = k /\ (k - 1) + 1 = k /\ k \in 1 .. n /\ k # n /\ i \in 1 .. n /\ i # 1
        /\ k \in 0 .. N
    BY <1>10
  <2>2. Marked(g, e[k], Until(k))
    BY <1>12, <2>1
  <2> HIDE DEF i
  <2>3. Until(k) = ts[i].at /\ Until(k) \in Nat
    BY <1>4, <2>1 DEF i
  <2>4. Until(i) \in Nat /\ ts[i].at <= Until(i) /\ ts[i] \in M /\ ts[i].kind \in Ways
        /\ ts[i].at <= ts[i].at
    BY <1>1, <1>3, <1>4, <2>1
  <2>5. Sure(i) \in M /\ Sure(i).kind \in Ways /\ ts[i].at <= Sure(i).at /\ Sure(i).at <= Until(i)
    BY <1>5, <2>1
  <2>6. Marked(g, e[k] \o <<ts[i]>>, Until(i)) /\ Marked(g, e[k] \o <<ts[i], Sure(i)>>, Until(i))
    BY <2>2, <2>3, <2>4, <2>5, MarkedFurther DEF M
  <2>7. e[i] = e[k] \o f[i]
    BY <1>9, <2>1
  <2>8. Marked(g, e[i], Until(i))
    BY <1>6, <2>1, <2>6, <2>7
  <2> QED
    BY <2>1, <2>8 DEF i
<1>13. G = 0 .. N
  <2>1. G \in SUBSET (0 .. N)
    OBVIOUS
  <2> HIDE DEF G, N
  <2> QED
    BY <1>10, <1>11, <1>12, <2>1, UpTo
<1>14. N \in G
  <2> HIDE DEF G, N
  <2> QED
    BY <1>10, <1>13
<1>15. Marked(g, e[n], Until(n))
  BY <1>10, <1>14
<1>16. Until(n) = top
  <2>1. n \in 1 .. n
    BY <1>1
  <2> QED
    BY <1>4, <2>1
<1> QED
  BY <1>2, <1>8, <1>15, <1>16

(***************************************************************************)
(* What is said about a walk                                                *)
(***************************************************************************)

Kinds == Ways \cup {"depart", "transit", "arrive"}
InstructionSet(g) ==
  [kind : Kinds, metres : Nat, secs : Nat, segment : Nat, node : DOMAIN g.node \cup {"none"}]

MetresOf(r) == [i \in DOMAIN r |-> r[i].metres]
SecsOf(r) == [i \in DOMAIN r |-> r[i].secs]

(* Instructions for the k-th walk that come to so many metres and seconds,   *)
(* none of them closing it.                                                 *)
Spoken(g, r, k, metres, secs) ==
  /\ r \in Seq(InstructionSet(g))
  /\ \A i \in 1 .. Len(r) : r[i].segment = k /\ r[i].kind \notin {"transit", "arrive"}
  /\ Sum(MetresOf(r)) = metres /\ Sum(SecsOf(r)) = secs

(* The same numbers have the same sum.                                      *)
LEMMA SumSame ==
  ASSUME NEW n \in Nat, NEW s, Numbers(s, n), NEW t, DOMAIN t = 1 .. n,
         \A i \in 1 .. n : t[i] = s[i]
  PROVE  Sum(t) = Sum(s)
<1>1. PICK g : Adds(s, n, g) /\ g[n] = Sum(s)
  BY SumAdds
<1>2. Numbers(t, n)
  BY DEF Numbers
<1>3. Adds(t, n, g)
  BY <1>1 DEF Adds
<1> QED
  BY <1>1, <1>2, <1>3, SumIs

(* Nothing said comes to nothing.                                           *)
LEMMA NothingSaid ==
  ASSUME NEW g, NEW k
  PROVE  Spoken(g, <<>>, k, 0, 0)
<1>1. <<>> \in Seq(InstructionSet(g)) /\ Len(<<>>) = 0
  BY EmptySeq
<1>2. \A i \in 1 .. Len(<<>>) : FALSE
  BY <1>1
<1>3. ASSUME NEW s, DOMAIN s = 1 .. 0 PROVE Sum(s) = 0
  <2> DEFINE e == [x \in 0 .. 0 |-> 0]
  <2>1. Numbers(s, 0) /\ Adds(s, 0, e)
    BY <1>3 DEF Numbers, Adds
  <2>2. e[0] = 0
    OBVIOUS
  <2> HIDE DEF e
  <2> QED
    BY <2>1, <2>2, SumIs
<1>4. DOMAIN MetresOf(<<>>) = 1 .. 0 /\ DOMAIN SecsOf(<<>>) = 1 .. 0
  BY DEF MetresOf, SecsOf
<1>5. Sum(MetresOf(<<>>)) = 0 /\ Sum(SecsOf(<<>>)) = 0
  BY <1>3, <1>4
<1> QED
  BY <1>1, <1>2, <1>5 DEF Spoken

(* What is told at each mark shares out the metres and seconds of the walk,  *)
(* unless its line leads nowhere.                                           *)
LEMMA InstructionsSpoken ==
  ASSUME NEW g, NEW seg, seg.metres \in Nat, seg.secs \in Nat, NEW k \in Nat,
         NEW p, Line(g, p), NEW c, Rising(c, Len(p)),
         NEW ms, Marked(g, ms, c[Len(c)]), NEW heading
  PROVE  Spoken(g, WalkInstructions(g, seg, k, p, c, ms, heading), k,
                IF c[Len(c)] > 0 THEN seg.metres ELSE 0, IF c[Len(c)] > 0 THEN seg.secs ELSE 0)
<1> DEFINE n == Len(ms)
           top == c[Len(c)]
           own == [i \in DOMAIN ms |-> ms[i].at]
           at == own \o <<top>>
           metres == Allocate(at, seg.metres)
           secs == Allocate(at, seg.secs)
           allM == IF top > 0 THEN seg.metres ELSE 0
           allS == IF top > 0 THEN seg.secs ELSE 0
           dir == Quarter(g.node[p[1]], g.node[p[2]])
           facing == IF Pixels(g.node[p[1]], g.node[p[2]]) = 0 THEN 4 ELSE heading
           r == [i \in DOMAIN ms |->
                   IF ms[i].kind = "open" THEN Opener(k, metres[i], secs[i], p[1], dir, facing)
                   ELSE Instruction(ms[i].kind, metres[i], secs[i], k, ms[i].node)]
<1>1. WalkInstructions(g, seg, k, p, c, ms, heading) = r
  BY Zenon DEF WalkInstructions
<1>2. top \in Nat
  <2>1. Len(p) \in Nat \ {0} /\ Len(c) = Len(p)
        /\ \A i \in 1 .. Len(p) : c[i] \in Nat
    BY DEF Rising, Line
  <2>2. Len(p) \in 1 .. Len(p)
    BY <2>1
  <2> QED
    BY <2>1, <2>2
<1> HIDE DEF top
<1>3. /\ ms \in Seq(MarkSet(g)) /\ n \in Nat \ {0} /\ DOMAIN ms = 1 .. n
      /\ ms[1].at = 0 /\ ms[1].kind = "open"
      /\ \A i \in 1 .. n : i # 1 => ms[i].kind \in Ways
      /\ \A i \in 1 .. n - 1 : ms[i].at <= ms[i + 1].at
      /\ ms[n].at <= top
  BY DEF Marked, top
<1>4. \A i \in 1 .. n : ms[i] \in MarkSet(g)
  BY <1>3, ElementOfSeq
<1> HIDE DEF n
<1>5. own \in Seq(Nat) /\ Len(own) = n /\ \A i \in 1 .. n : own[i] = ms[i].at
  <2>1. \A i \in 1 .. n : own[i] = ms[i].at /\ ms[i].at \in Nat
    BY <1>3, <1>4 DEF MarkSet
  <2>2. own \in [1 .. n -> Nat]
    BY <1>3, <2>1
  <2>3. n \in Nat
    BY <1>3
  <2> HIDE DEF own
  <2> QED
    BY <2>1, <2>2, <2>3, Sequential
<1> HIDE DEF own
<1>6. Onward(at, n)
  <2>1. at = Append(own, top)
    BY <1>2, <1>5, OneJoined
  <2>2. /\ at \in Seq(Nat) /\ Len(at) = n + 1 /\ at[n + 1] = top
        /\ \A i \in 1 .. n : at[i] = own[i]
    <3>1. /\ Append(own, top) \in Seq(Nat) /\ Len(Append(own, top)) = Len(own) + 1
          /\ Append(own, top)[Len(own) + 1] = top
          /\ \A i \in 1 .. Len(own) : Append(own, top)[i] = own[i]
      BY <1>2, <1>5, OneMore
    <3> HIDE DEF at
    <3> QED
      BY <1>5, <2>1, <3>1
  <2> HIDE DEF at
  <2>3. DOMAIN at = 1 .. n + 1
    BY <2>2, LenProperties
  <2>4. \A i \in 1 .. n + 1 : at[i] \in Nat
    BY <2>2, ElementOfSeq
  <2>5. ASSUME NEW i \in 1 .. n PROVE at[i] <= at[i + 1]
    <3>1. at[i] = ms[i].at
      BY <1>5, <2>2
    <3>2. CASE i = n
      BY <1>3, <2>2, <3>1, <3>2
    <3>3. CASE i # n
      <4>1. i \in 1 .. n - 1 /\ i + 1 \in 1 .. n
        BY <1>3, <3>3
      <4>2. at[i + 1] = ms[i + 1].at
        BY <1>5, <2>2, <4>1
      <4> QED
        BY <1>3, <3>1, <4>1, <4>2
    <3> QED
      BY <3>2, <3>3
  <2> QED
    BY <1>2, <2>2, <2>3, <2>4, <2>5 DEF Onward
<1>20. at[n + 1] = top
  <2>1. at = Append(own, top)
    BY <1>2, <1>5, OneJoined
  <2>2. Append(own, top)[Len(own) + 1] = top
    BY <1>2, <1>5, OneMore
  <2> HIDE DEF at
  <2> QED
    BY <1>5, <2>1, <2>2
<1> HIDE DEF at
<1>7. Shares(metres, n, allM) /\ Shares(secs, n, allS)
  BY <1>3, <1>6, <1>20, SharesAddUp
<1>8. /\ DOMAIN metres = 1 .. n /\ DOMAIN secs = 1 .. n
      /\ \A i \in 1 .. n : metres[i] \in Nat /\ secs[i] \in Nat
      /\ Sum(metres) = allM /\ Sum(secs) = allS
  BY <1>7 DEF Shares
<1> HIDE DEF metres, secs, dir, facing, allM, allS
<1>9. p[1] \in DOMAIN g.node
  <2>1. 1 \in 1 .. Len(p) /\ p \in Seq(DOMAIN g.node)
    BY DEF Line
  <2> QED
    BY <2>1, ElementOfSeq
<1>10. ASSUME NEW i \in 1 .. n
       PROVE  /\ r[i] \in InstructionSet(g) /\ r[i].metres = metres[i] /\ r[i].secs = secs[i]
              /\ r[i].segment = k /\ r[i].kind \notin {"transit", "arrive"}
  <2>1. CASE ms[i].kind = "open"
    <3> DEFINE turn == IF facing = 4 THEN "straight" ELSE ClassifyTurn(facing, dir)
               kind == IF k # 1 THEN "straight" ELSE IF turn = "straight" THEN "depart" ELSE turn
    <3>1. turn \in Ways
      <4>1. "straight" \in Ways
        BY DEF Ways
      <4> QED
        BY <4>1, TurnsAWay
    <3> HIDE DEF turn
    <3>2. kind \in Ways \cup {"depart"}
      BY <3>1 DEF Ways
    <3>3. r[i] = Instruction(kind, metres[i], secs[i], k, p[1])
      <4>1. r[i] = Opener(k, metres[i], secs[i], p[1], dir, facing)
        BY <1>3, <2>1
      <4> HIDE DEF r
      <4> QED
        BY <4>1, Zenon DEF Opener, turn
    <3> HIDE DEF kind, r
    <3> QED
      BY <1>8, <1>9, <3>2, <3>3 DEF Instruction, InstructionSet, Kinds, Ways
  <2>2. CASE ms[i].kind # "open"
    <3>1. r[i] = Instruction(ms[i].kind, metres[i], secs[i], k, ms[i].node)
      BY <1>3, <2>2
    <3>2. ms[i].kind \in Ways
      BY <1>3, <2>2
    <3>3. ms[i].node \in DOMAIN g.node \cup {"none"}
      BY <1>4 DEF MarkSet
    <3> HIDE DEF r
    <3> QED
      BY <1>8, <3>1, <3>2, <3>3 DEF Instruction, InstructionSet, Kinds, Ways
  <2> QED
    BY <2>1, <2>2
<1>11. DOMAIN r = 1 .. n
  BY <1>3
<1>12. r \in [1 .. n -> InstructionSet(g)]
  BY <1>3, <1>10
<1>13. n \in Nat
  BY <1>3
<1> HIDE DEF r
<1>14. r \in Seq(InstructionSet(g)) /\ Len(r) = n
  BY <1>12, <1>13, Sequential
<1>15. Sum(MetresOf(r)) = allM
  <2>1. Numbers(metres, n) /\ DOMAIN MetresOf(r) = 1 .. n
    BY <1>8, <1>11 DEF Numbers, MetresOf
  <2>2. \A i \in 1 .. n : MetresOf(r)[i] = metres[i]
    BY <1>10, <1>11 DEF MetresOf
  <2> QED
    BY <1>8, <1>13, <2>1, <2>2, SumSame
<1>16. Sum(SecsOf(r)) = allS
  <2>1. Numbers(secs, n) /\ DOMAIN SecsOf(r) = 1 .. n
    BY <1>8, <1>11 DEF Numbers, SecsOf
  <2>2. \A i \in 1 .. n : SecsOf(r)[i] = secs[i]
    BY <1>10, <1>11 DEF SecsOf
  <2> QED
    BY <1>8, <1>13, <2>1, <2>2, SumSame
<1>17. Spoken(g, r, k, allM, allS)
  BY <1>10, <1>14, <1>15, <1>16 DEF Spoken
<1> QED
  BY <1>1, <1>17 DEF allM, allS, top

(* Natural numbers sum up to one, and zeros to zero.                        *)
LEMMA SumNatural ==
  ASSUME NEW n \in Nat, NEW s, DOMAIN s = 1 .. n, \A i \in 1 .. n : s[i] \in Nat
  PROVE  Sum(s) \in Nat /\ ((\A i \in 1 .. n : s[i] = 0) => Sum(s) = 0)
<1>1. Numbers(s, n)
  BY DEF Numbers
<1>2. PICK g : Adds(s, n, g) /\ g[n] = Sum(s)
  BY <1>1, SumAdds
<1>3. g \in [0 .. n -> Int] /\ g[0] = 0 /\ \A k \in 1 .. n : g[k] = g[k - 1] + s[k]
  BY <1>2 DEF Adds
<1> DEFINE G == {k \in 0 .. n : g[k] \in Nat /\ ((\A i \in 1 .. n : s[i] = 0) => g[k] = 0)}
<1>4. 0 \in G /\ G \in SUBSET (0 .. n)
  BY <1>3
<1>5. ASSUME NEW k \in 1 .. n, k - 1 \in G PROVE k \in G
  <2>1. g[k] = g[k - 1] + s[k] /\ s[k] \in Nat /\ k \in 0 .. n
    BY <1>3
  <2>2. g[k - 1] \in Nat /\ ((\A i \in 1 .. n : s[i] = 0) => g[k - 1] = 0)
    BY <1>5
  <2> QED
    BY <2>1, <2>2
<1>6. n \in G
  <2>1. G = 0 .. n
    <3> HIDE DEF G
    <3> QED
      BY <1>4, <1>5, UpTo
  <2> QED
    BY <2>1
<1> QED
  BY <1>2, <1>6

(* Walks and flights in turn: every walk a line, drawn from the one end to    *)
(* the other, measured and timed; every flight timed.                       *)
PartsTyped(g, w, f) ==
  /\ Len(w) \in Nat \ {0} /\ DOMAIN w = 1 .. Len(w) /\ DOMAIN f = 1 .. Len(w) - 1
  /\ \A k \in 1 .. Len(w) :
       /\ w[k].metres \in Nat /\ w[k].secs \in Nat /\ Line(g, w[k].nodes)
       /\ KeepsEnds(g, w[k].points, w[k].nodes)
  /\ \A k \in 1 .. Len(w) - 1 : f[k].secs \in Nat /\ f[k].hop.from \in DOMAIN g.node

(* A rounded quotient is a natural number.                                  *)
LEMMA RoundNatural ==
  ASSUME NEW a \in Nat, NEW b \in Nat \ {0}
  PROVE  RoundDiv(a, b) \in Nat /\ RoundDiv(0, b) = 0
<1> DEFINE c == 2 * a + b
           d == 2 * b
<1>1. c \in Nat /\ d \in Nat \ {0} /\ b \in Nat /\ b < d
  OBVIOUS
<1>2. RoundDiv(a, b) = c \div d /\ RoundDiv(0, b) = b \div d
  BY DEF RoundDiv
<1> HIDE DEF c, d
<1>3. 0 * d <= b /\ b < 0 * d + d
  BY <1>1
<1>4. c \div d \in Nat /\ b \div d = 0
  BY <1>1, <1>3, DivNatural, DivExact
<1> QED
  BY <1>2, <1>4

(* The parts of a path along hops of the graph are such.                    *)
LEMMA PathPartsTyped ==
  ASSUME WellFormed(graph), NEW H, H \subseteq graph.hops, NEW p, Chain(Nodes, p, H), p # <<>>
  PROVE  PartsTyped(graph, Segments(graph, p), Transitions(graph, p))
<1> DEFINE st == FloorStarts(graph, p)
           n == Len(st)
           w == Segments(graph, p)
           f == Transitions(graph, p)
           E(k) == EndOf(p, st, k)
           h == PathEdges(graph, p)
<1>1. p \in Seq(Nodes)
  BY DEF Chain
<1>2. Cuts(p, st)
  BY <1>1, FloorsCut
<1>3. /\ n \in Nat \ {0} /\ DOMAIN st = 1 .. n
      /\ \A k \in 1 .. n : st[k] \in 1 .. Len(p)
      /\ \A i, j \in 1 .. n : i < j => st[i] < st[j]
      /\ Len(p) \in Nat
  BY <1>2 DEF Cuts
<1>4. /\ w = [k \in 1 .. n |-> WalkOf(graph, p, st, k)]
      /\ f = [k \in 1 .. n - 1 |-> FlightOf(graph, p, st, k)]
  BY <1>3, PartsAre
<1>5. Len(w) = n
  <2>1. w \in [1 .. n -> {WalkOf(graph, p, st, k) : k \in 1 .. n}]
    BY <1>4
  <2> HIDE DEF w, n
  <2> QED
    BY <1>3, <2>1, Sequential
<1>6. ASSUME NEW i \in 1 .. Len(p) - 1
      PROVE  /\ h[i].from = p[i] /\ h[i].to = p[i + 1] /\ p[i] \in Nodes /\ p[i + 1] \in Nodes
             /\ BareDuration(graph, h[i]) \in Nat
  <2>1. HopAt(p, i) \in H /\ HopAt(p, i).from = p[i] /\ HopAt(p, i).to = p[i + 1]
    BY HopTaken
  <2>2. HopAt(p, i) = h[i]
    BY DEF HopAt
  <2>3. i \in 1 .. Len(p) /\ i + 1 \in 1 .. Len(p)
    BY <1>3
  <2>4. p[i] \in Nodes /\ p[i + 1] \in Nodes
    BY <1>1, <2>3, ElementOfSeq
  <2>5. Along(graph, h[i])
    BY <2>1, <2>2 DEF WellFormed, Along
  <2> QED
    BY <2>1, <2>2, <2>4, <2>5, BareDurationNatural
<1> HIDE DEF n, h, w, f
<1>7. ASSUME NEW k \in 1 .. n
      PROVE  /\ w[k].metres \in Nat /\ w[k].secs \in Nat /\ Line(graph, w[k].nodes)
             /\ KeepsEnds(graph, w[k].points, w[k].nodes)
  <2> DEFINE own == OwnHops(graph, p, st, k)
             m == E(k) - st[k]
             floor == graph.node[p[st[k]]].floor
             px == [i \in DOMAIN own |-> Pixels(graph.node[own[i].from], graph.node[own[i].to])]
             bare == [i \in DOMAIN own |-> BareDuration(graph, own[i])]
             nodes == SubSeq(p, st[k], E(k))
             scale == ScaleOf(graph, floor)
  <2>1. st[k] \in 1 .. Len(p) /\ E(k) \in Nat /\ st[k] <= E(k) /\ E(k) <= Len(p)
    BY <1>2, PartsFit DEF n
  <2>2. m \in Nat /\ st[k] \in Nat \ {0} /\ st[k] + m = E(k)
    BY <1>3, <2>1
  <2>3. DOMAIN own = 1 .. m /\ \A i \in 1 .. m : own[i] = h[st[k] + i - 1]
    BY <1>2, OwnHopsAre DEF n, h
  <2>4. w[k] = WalkOf(graph, p, st, k)
    BY <1>4
  <2>5. /\ w[k].metres = RoundDiv(10 * Sum(px), scale)
        /\ w[k].secs = RoundDiv(Sum(bare), 2)
        /\ w[k].nodes = nodes /\ w[k].points = Smoothed(graph, floor, nodes)
    <3>1. /\ WalkOf(graph, p, st, k).metres = RoundDiv(10 * Sum(px), scale)
          /\ WalkOf(graph, p, st, k).secs = RoundDiv(Sum(bare), 2)
          /\ WalkOf(graph, p, st, k).nodes = nodes
          /\ WalkOf(graph, p, st, k).points = Smoothed(graph, floor, nodes)
      BY DEF WalkOf
    <3> QED
      BY <2>4, <3>1
  <2>6. scale \in Nat \ {0}
    <3>1. p[st[k]] \in Nodes
      BY <1>1, <2>1, ElementOfSeq
    <3>2. graph.scale[floor] \in Int
      BY <3>1 DEF WellFormed, Nodes
    <3> HIDE DEF floor
    <3> QED
      BY <3>2, RoutingCosts DEF ScaleOf
  <2> HIDE DEF scale, floor
  <2>7. ASSUME NEW i \in 1 .. m
        PROVE  /\ st[k] + i - 1 \in 1 .. Len(p) - 1 /\ (st[k] + i - 1) + 1 = st[k] + (i + 1) - 1
               /\ px[i] \in Nat /\ bare[i] \in Nat
    <3> DEFINE j == st[k] + i - 1
    <3>1. j \in 1 .. Len(p) - 1 /\ j + 1 = st[k] + (i + 1) - 1
      BY <1>3, <2>1, <2>2
    <3> HIDE DEF m, j
    <3>2. own[i] = h[j] /\ i \in DOMAIN own
      BY <2>3 DEF j
    <3> HIDE DEF own
    <3>3. /\ h[j].from = p[j] /\ h[j].to = p[j + 1] /\ p[j] \in Nodes /\ p[j + 1] \in Nodes
          /\ BareDuration(graph, h[j]) \in Nat
      BY <1>6, <3>1
    <3>4. px[i] = Pixels(graph.node[p[j]], graph.node[p[j + 1]]) /\ bare[i] = BareDuration(graph, h[j])
      BY <3>2, <3>3
    <3> HIDE DEF px, bare
    <3>5. px[i] \in Nat
      BY <3>3, <3>4, PixelsApart DEF Nodes
    <3>6. bare[i] \in Nat
      BY <3>3, <3>4
    <3> QED
      BY <3>1, <3>5, <3>6 DEF j
  <2>8. DOMAIN px = 1 .. m /\ DOMAIN bare = 1 .. m
    BY <2>3
  <2> HIDE DEF px, bare, own, m
  <2>9. Sum(px) \in Nat /\ Sum(bare) \in Nat
    BY <2>2, <2>7, <2>8, SumNatural
  <2>10. 10 * Sum(px) \in Nat
    BY <2>9
  <2>11. w[k].metres \in Nat /\ w[k].secs \in Nat
    <3> DEFINE tot == 10 * Sum(px)
    <3>1. tot \in Nat
      BY <2>10
    <3>2. w[k].metres = RoundDiv(tot, scale)
      BY <2>5
    <3> HIDE DEF tot
    <3>3. RoundDiv(tot, scale) \in Nat
      BY <2>6, <3>1, RoundNatural
    <3>4. 2 \in Nat \ {0}
      OBVIOUS
    <3>5. RoundDiv(Sum(bare), 2) \in Nat
      BY <2>9, <3>4, RoundNatural
    <3> QED
      BY <2>5, <3>2, <3>3, <3>5
  <2>12. /\ nodes \in Seq(Nodes) /\ Len(nodes) = m + 1
         /\ \A i \in 1 .. m + 1 : nodes[i] = p[st[k] + i - 1]
    <3>1. \A i \in st[k] .. E(k) : p[i] \in Nodes
      <4> SUFFICES ASSUME NEW i \in st[k] .. E(k) PROVE p[i] \in Nodes
        OBVIOUS
      <4>1. i \in 1 .. Len(p)
        BY <1>3, <2>1
      <4> QED
        BY <1>1, <4>1, ElementOfSeq
    <3>2. st[k] \in Int /\ E(k) \in Int
      BY <2>1, <2>2
    <3> HIDE DEF E, st
    <3>3. /\ nodes \in Seq(Nodes)
          /\ Len(nodes) = IF st[k] <= E(k) THEN E(k) - st[k] + 1 ELSE 0
          /\ \A i \in 1 .. E(k) - st[k] + 1 : nodes[i] = p[st[k] + i - 1]
      BY <3>1, <3>2, SubSeqProperties
    <3>4. E(k) - st[k] + 1 = m + 1
      BY DEF m
    <3> HIDE DEF nodes
    <3> QED
      BY <2>1, <3>3, <3>4
  <2> HIDE DEF nodes
  <2>13. Line(graph, nodes)
    BY <2>2, <2>12, LenProperties DEF Line, Nodes
  <2>14. KeepsEnds(graph, Smoothed(graph, floor, nodes), nodes)
    BY <2>13, SmoothedKeeps
  <2> QED
    BY <2>5, <2>11, <2>13, <2>14
<1>8. ASSUME NEW k \in 1 .. n - 1
      PROVE  f[k].secs \in Nat /\ f[k].hop.from \in DOMAIN graph.node
  <2> DEFINE j == st[k + 1] - 1
  <2>1. k \in 1 .. n /\ k + 1 \in 1 .. n /\ k < k + 1
    BY <1>3
  <2>2. st[k] \in 1 .. Len(p) /\ st[k + 1] \in 1 .. Len(p) /\ st[k] < st[k + 1]
    BY <1>3, <2>1
  <2>3. j \in 1 .. Len(p) - 1
    BY <1>3, <2>2
  <2>4. f[k].hop = h[j] /\ f[k].secs = RoundDiv(BareDuration(graph, h[j]), 2)
    <3>1. f[k] = FlightOf(graph, p, st, k)
      BY <1>4
    <3>2. /\ FlightOf(graph, p, st, k).hop = h[j]
          /\ FlightOf(graph, p, st, k).secs = RoundDiv(BareDuration(graph, h[j]), 2)
      BY DEF FlightOf, h
    <3> QED
      BY <3>1, <3>2
  <2> HIDE DEF j
  <2>5. h[j].from \in Nodes /\ BareDuration(graph, h[j]) \in Nat
    BY <1>6, <2>3
  <2>6. RoundDiv(BareDuration(graph, h[j]), 2) \in Nat
    BY <2>5, RoundNatural
  <2> QED
    BY <2>4, <2>5, <2>6 DEF Nodes
<1>9. DOMAIN w = 1 .. n /\ DOMAIN f = 1 .. n - 1
  BY <1>4
<1> HIDE DEF st
<1>10. PartsTyped(graph, w, f)
  BY <1>3, <1>5, <1>7, <1>8, <1>9 DEF PartsTyped
<1> QED
  BY <1>10 DEF w, f

(* The points a walk is told along.  It is heard when they lead somewhere,   *)
(* and what is told of it are then its metres and seconds.                   *)
Pts(g, walk) == SimplifiedPoints(g, walk.floor, Distinct(g, walk.points))
Heard(g, walk) == Cumulative(g, Pts(g, walk))[Len(Pts(g, walk))] > 0
ToldMetres(g, walk) == IF Heard(g, walk) THEN walk.metres ELSE 0
ToldSecs(g, walk) == IF Heard(g, walk) THEN walk.secs ELSE 0

WalkMetres(g, w) == [j \in 1 .. Len(w) |-> ToldMetres(g, w[j])]
WalkSecs(g, w) == [j \in 1 .. Len(w) |-> ToldSecs(g, w[j])]
FlightSecs(w, f) == [j \in 1 .. Len(w) - 1 |-> f[j].secs]
FlightsBy(w, k) == IF k = Len(w) THEN Len(w) - 1 ELSE k

(* t tells the first k walks and the flights they close with.               *)
Comes(g, w, f, t, k) ==
  /\ \A e : Adds(WalkMetres(g, w), Len(w), e) => Sum(MetresOf(t)) = e[k]
  /\ \A e, h : Adds(WalkSecs(g, w), Len(w), e) /\ Adds(FlightSecs(w, f), Len(w) - 1, h)
                 => Sum(SecsOf(t)) = e[k] + h[FlightsBy(w, k)]
Runs(w, t, k) ==
  /\ \A i \in 1 .. Len(t) : t[i].kind = "arrive" <=> (k = Len(w) /\ i = Len(t))
  /\ {t[i].segment : i \in 1 .. Len(t)} = 1 .. k
  /\ \A i \in 2 .. Len(t) :
       t[i].segment = t[i - 1].segment + (IF t[i - 1].kind = "transit" THEN 1 ELSE 0)
  /\ IF k = 0 THEN Len(t) = 0
     ELSE /\ Len(t) > 0 /\ t[Len(t)].segment = k
          /\ t[Len(t)].kind = IF k = Len(w) THEN "arrive" ELSE "transit"
Transits(t) == {i \in 1 .. Len(t) : t[i].kind = "transit"}
Tells(g, w, f, t, k) ==
  /\ t \in Seq(InstructionSet(g))
  /\ Comes(g, w, f, t, k) /\ Runs(w, t, k) /\ Cardinality(Transits(t)) = FlightsBy(w, k)

(* Before anything is told.                                                 *)
LEMMA TellsNothing ==
  ASSUME NEW g, NEW w, NEW f, PartsTyped(g, w, f)
  PROVE  Tells(g, w, f, <<>>, 0)
<1>1. Len(w) \in Nat \ {0} /\ FlightsBy(w, 0) = 0
  BY DEF PartsTyped, FlightsBy
<1>2. <<>> \in Seq(InstructionSet(g)) /\ Len(<<>>) = 0
  BY EmptySeq
<1>3. Sum(MetresOf(<<>>)) = 0 /\ Sum(SecsOf(<<>>)) = 0
  BY NothingSaid DEF Spoken
<1>4. Comes(g, w, f, <<>>, 0)
  BY <1>1, <1>3 DEF Comes, Adds
<1>5. 1 .. Len(<<>>) = {} /\ 2 .. Len(<<>>) = {} /\ 1 .. 0 = {}
  BY <1>2
<1>6. Runs(w, <<>>, 0)
  BY <1>2, <1>5 DEF Runs
<1>7. Transits(<<>>) = {}
  BY <1>5 DEF Transits
<1> QED
  BY <1>1, <1>2, <1>4, <1>6, <1>7, FS_EmptySet DEF Tells

(* What two sequences of instructions come to.                              *)
LEMMA SaidJoins ==
  ASSUME NEW g, NEW r \in Seq(InstructionSet(g)), NEW t \in Seq(InstructionSet(g))
  PROVE  /\ Sum(MetresOf(r \o t)) = Sum(MetresOf(r)) + Sum(MetresOf(t))
         /\ Sum(SecsOf(r \o t)) = Sum(SecsOf(r)) + Sum(SecsOf(t))
         /\ Sum(MetresOf(r)) \in Int /\ Sum(SecsOf(r)) \in Int
<1> DEFINE n == Len(r)
           m == Len(t)
           u == r \o t
<1>1. /\ u \in Seq(InstructionSet(g)) /\ Len(u) = n + m
      /\ \A i \in 1 .. n + m : u[i] = IF i <= n THEN r[i] ELSE t[i - n]
  BY ConcatProperties
<1>2. /\ n \in Nat /\ m \in Nat
      /\ DOMAIN r = 1 .. n /\ DOMAIN t = 1 .. m /\ DOMAIN u = 1 .. n + m
  BY <1>1, LenProperties
<1>3. /\ \A i \in 1 .. n : r[i] \in InstructionSet(g)
      /\ \A i \in 1 .. m : t[i] \in InstructionSet(g)
  BY ElementOfSeq
<1> HIDE DEF n, m, u
<1>4. \A i \in 1 .. n : u[i] = r[i]
  <2> SUFFICES ASSUME NEW i \in 1 .. n PROVE u[i] = r[i]
    OBVIOUS
  <2>1. i \in 1 .. n + m /\ i <= n
    BY <1>2
  <2> QED
    BY <1>1, <2>1
<1>5. \A i \in 1 .. m : u[n + i] = t[i]
  <2> SUFFICES ASSUME NEW i \in 1 .. m PROVE u[n + i] = t[i]
    OBVIOUS
  <2>1. n + i \in 1 .. n + m /\ ~ (n + i <= n) /\ (n + i) - n = i
    BY <1>2
  <2>2. u[n + i] = t[(n + i) - n]
    BY <1>1, <2>1
  <2> QED
    BY <2>1, <2>2
<1>6. \A i \in 1 .. m : n + i \in 1 .. n + m
  BY <1>2
<1>7. \A i \in 1 .. n : i \in 1 .. n + m
  BY <1>2
<1>8. Numbers(MetresOf(r), n) /\ Numbers(MetresOf(t), m) /\ Numbers(SecsOf(r), n) /\ Numbers(SecsOf(t), m)
  BY <1>2, <1>3 DEF Numbers, MetresOf, SecsOf, InstructionSet
<1>9. /\ DOMAIN MetresOf(u) = 1 .. n + m
      /\ \A i \in 1 .. n : MetresOf(u)[i] = MetresOf(r)[i]
      /\ \A i \in 1 .. m : MetresOf(u)[n + i] = MetresOf(t)[i]
  BY <1>2, <1>4, <1>5, <1>6, <1>7 DEF MetresOf
<1>10. /\ DOMAIN SecsOf(u) = 1 .. n + m
       /\ \A i \in 1 .. n : SecsOf(u)[i] = SecsOf(r)[i]
       /\ \A i \in 1 .. m : SecsOf(u)[n + i] = SecsOf(t)[i]
  BY <1>2, <1>4, <1>5, <1>6, <1>7 DEF SecsOf
<1>11. ASSUME NEW a, NEW b, NEW c, Numbers(a, n), Numbers(b, m), DOMAIN c = 1 .. n + m,
              \A i \in 1 .. n : c[i] = a[i], \A i \in 1 .. m : c[n + i] = b[i]
       PROVE  Sum(c) = Sum(a) + Sum(b)
  <2>1. n \in Nat /\ m \in Nat
    BY <1>2
  <2> QED
    BY <2>1, <1>11, SumJoins, SMTT(30)
<1>12. ASSUME NEW a, NEW k \in Nat, Numbers(a, k) PROVE Sum(a) \in Int
  BY <1>12, SumAdds DEF Adds
<1>13. Sum(MetresOf(u)) = Sum(MetresOf(r)) + Sum(MetresOf(t))
  BY <1>8, <1>9, <1>11
<1>14. Sum(SecsOf(u)) = Sum(SecsOf(r)) + Sum(SecsOf(t))
  BY <1>8, <1>10, <1>11
<1>15. Sum(MetresOf(r)) \in Int /\ Sum(SecsOf(r)) \in Int
  BY <1>2, <1>8, <1>12
<1> QED
  BY <1>13, <1>14, <1>15 DEF u

(* and one of them.                                                         *)
LEMMA SaidOne ==
  ASSUME NEW g, NEW c \in InstructionSet(g)
  PROVE  Sum(MetresOf(<<c>>)) = c.metres /\ Sum(SecsOf(<<c>>)) = c.secs
<1> DEFINE p == <<c>>
<1>1. DOMAIN p = 1 .. 1 /\ p[1] = c /\ c.metres \in Int /\ c.secs \in Int
  BY DEF InstructionSet
<1> HIDE DEF p
<1>2. ASSUME NEW s, DOMAIN s = 1 .. 1, s[1] \in Int PROVE Sum(s) = s[1]
  <2> DEFINE e == [x \in 0 .. 1 |-> IF x = 0 THEN 0 ELSE s[1]]
  <2>1. Numbers(s, 1)
    BY <1>2 DEF Numbers
  <2>2. e \in [0 .. 1 -> Int] /\ e[0] = 0 /\ e[1] = s[1]
    BY <1>2
  <2>3. \A k \in 1 .. 1 : e[k] = e[k - 1] + s[k]
    BY <1>2
  <2> HIDE DEF e
  <2>4. Adds(s, 1, e)
    BY <2>2, <2>3 DEF Adds
  <2> QED
    BY <2>1, <2>2, <2>4, SumIs
<1>3. /\ DOMAIN MetresOf(p) = 1 .. 1 /\ MetresOf(p)[1] = c.metres
      /\ DOMAIN SecsOf(p) = 1 .. 1 /\ SecsOf(p)[1] = c.secs
  BY <1>1 DEF MetresOf, SecsOf
<1>4. Sum(MetresOf(p)) = c.metres /\ Sum(SecsOf(p)) = c.secs
  BY <1>1, <1>2, <1>3
<1> QED
  BY <1>4 DEF p

(* What closes a walk.                                                      *)
LEMMA ClosingIs ==
  ASSUME NEW g, NEW w, NEW f, PartsTyped(g, w, f), NEW k \in 1 .. Len(w)
  PROVE  /\ Closing(w, f, k) \in InstructionSet(g)
         /\ Closing(w, f, k).metres = 0 /\ Closing(w, f, k).segment = k
         /\ k = Len(w) => Closing(w, f, k).kind = "arrive" /\ Closing(w, f, k).secs = 0
         /\ k # Len(w) => /\ Closing(w, f, k).kind = "transit"
                          /\ Closing(w, f, k).secs = f[k].secs /\ f[k].secs \in Nat
<1>1. Len(w) \in Nat \ {0} /\ k \in Nat
  BY DEF PartsTyped
<1>2. CASE k = Len(w)
  <2> DEFINE v == w[k].nodes
  <2>1. v[Len(v)] \in DOMAIN g.node
    <3>1. v \in Seq(DOMAIN g.node) /\ Len(v) \in 1 .. Len(v)
      BY DEF PartsTyped, Line
    <3> HIDE DEF v
    <3> QED
      BY <3>1, ElementOfSeq
  <2>2. Closing(w, f, k) = Instruction("arrive", 0, 0, k, v[Len(v)])
    BY <1>2 DEF Closing
  <2> HIDE DEF v
  <2> QED
    BY <1>1, <1>2, <2>1, <2>2 DEF Instruction, InstructionSet, Kinds
<1>3. CASE k # Len(w)
  <2>1. k \in 1 .. Len(w) - 1
    BY <1>1, <1>3
  <2>2. f[k].secs \in Nat /\ f[k].hop.from \in DOMAIN g.node
    BY <2>1 DEF PartsTyped
  <2>3. Closing(w, f, k) = Instruction("transit", 0, f[k].secs, k, f[k].hop.from)
    BY <1>3 DEF Closing
  <2> QED
    BY <1>1, <1>3, <2>2, <2>3 DEF Instruction, InstructionSet, Kinds
<1> QED
  BY <1>2, <1>3

(* u is t, then r, then c.                                                  *)
Follows(u, t, r, c) ==
  /\ Len(t) \in Nat /\ Len(r) \in Nat /\ Len(u) = Len(t) + Len(r) + 1
  /\ \A i \in 1 .. Len(t) : u[i] = t[i]
  /\ \A i \in 1 .. Len(r) : u[Len(t) + i] = r[i]
  /\ u[Len(u)] = c

(* Three parts joined follow each other so.                                 *)
LEMMA JoinFollows ==
  ASSUME NEW X, NEW t \in Seq(X), NEW r \in Seq(X), NEW c \in X
  PROVE  (t \o r) \o <<c>> \in Seq(X) /\ Follows((t \o r) \o <<c>>, t, r, c)
<1> DEFINE a == Len(t)
           b == Len(r)
           s == t \o r
           u == s \o <<c>>
<1>1. /\ s \in Seq(X) /\ Len(s) = a + b
      /\ \A i \in 1 .. a + b : s[i] = IF i <= a THEN t[i] ELSE r[i - a]
  BY ConcatProperties
<1>2. a \in Nat /\ b \in Nat
  BY LenProperties
<1> HIDE DEF s
<1>0. s \in Seq(X)
  BY <1>1
<1>3. u = Append(s, c)
  BY <1>0, OneJoined
<1>4. /\ u \in Seq(X) /\ Len(u) = Len(s) + 1 /\ u[Len(s) + 1] = c
      /\ \A i \in 1 .. Len(s) : u[i] = s[i]
  <2>1. /\ Append(s, c) \in Seq(X) /\ Len(Append(s, c)) = Len(s) + 1 /\ Append(s, c)[Len(s) + 1] = c
        /\ \A i \in 1 .. Len(s) : Append(s, c)[i] = s[i]
    BY <1>0, OneMore
  <2> HIDE DEF u
  <2> QED
    BY <1>3, <2>1
<1> HIDE DEF a, b, u
<1>5. ASSUME NEW i \in 1 .. a PROVE u[i] = t[i]
  <2>1. i \in 1 .. a + b /\ i <= a
    BY <1>2
  <2> QED
    BY <1>1, <1>4, <2>1
<1>6. ASSUME NEW i \in 1 .. b PROVE u[a + i] = r[i]
  <2>1. a + i \in 1 .. a + b /\ ~ (a + i <= a) /\ (a + i) - a = i
    BY <1>2
  <2>2. u[a + i] = s[a + i] /\ s[a + i] = r[(a + i) - a]
    BY <1>1, <1>4, <2>1
  <2> QED
    BY <2>1, <2>2
<1>7. Len(u) = a + b + 1 /\ u[Len(u)] = c
  BY <1>1, <1>4
<1>8. Follows(u, t, r, c)
  BY <1>2, <1>5, <1>6, <1>7 DEF Follows, a, b
<1> QED
  BY <1>4, <1>8 DEF u, s

(* Where an instruction of u is from.                                       *)
LEMMA FollowsCases ==
  ASSUME NEW u, NEW t, NEW r, NEW c, Follows(u, t, r, c), NEW i \in 1 .. Len(u)
  PROVE  \/ i \in 1 .. Len(t) /\ u[i] = t[i]
         \/ i > Len(t) /\ i < Len(u) /\ \E j \in 1 .. Len(r) : u[i] = r[j]
         \/ i = Len(u) /\ u[i] = c
<1> DEFINE a == Len(t)
           b == Len(r)
           n == Len(u)
<1>1. a \in Nat /\ b \in Nat /\ n = a + b + 1 /\ i \in 1 .. n
  BY DEF Follows
<1>2. /\ \A j \in 1 .. a : u[j] = t[j]
      /\ \A j \in 1 .. b : u[a + j] = r[j]
      /\ u[n] = c
  BY DEF Follows
<1> HIDE DEF a, b, n
<1>3. CASE i <= a
  <2>1. i \in 1 .. a
    BY <1>1, <1>3
  <2> QED
    BY <1>2, <2>1 DEF a
<1>4. CASE i > a /\ i < n
  <2>1. i - a \in 1 .. b /\ a + (i - a) = i
    BY <1>1, <1>4
  <2>2. u[a + (i - a)] = r[i - a]
    BY <1>2, <2>1
  <2>3. u[i] = r[i - a]
    BY <2>1, <2>2
  <2>4. \E j \in 1 .. b : u[i] = r[j]
    BY <2>1, <2>3
  <2> QED
    BY <1>4, <2>4 DEF a, b, n
<1>5. CASE i = n
  BY <1>2, <1>5 DEF n
<1>6. i <= a \/ (i > a /\ i < n) \/ i = n
  BY <1>1
<1> QED
  BY <1>3, <1>4, <1>5, <1>6

(* The instructions of the next walk keep the order.                        *)
LEMMA RunsOn ==
  ASSUME NEW w, Len(w) \in Nat, NEW k \in 1 .. Len(w), NEW t, Runs(w, t, k - 1),
         NEW r, \A i \in 1 .. Len(r) : r[i].segment = k /\ r[i].kind \notin {"transit", "arrive"},
         NEW c, c.segment = k, c.kind = IF k = Len(w) THEN "arrive" ELSE "transit",
         NEW u, Follows(u, t, r, c)
  PROVE  Runs(w, u, k)
<1> DEFINE a == Len(t)
           n == Len(u)
<1>1. a \in Nat /\ n \in Nat /\ n > a /\ k \in Nat /\ k # 0 /\ k - 1 # Len(w)
  BY DEF Follows
<1>2. /\ \A i \in 1 .. a : t[i].kind # "arrive"
      /\ {t[i].segment : i \in 1 .. a} = 1 .. k - 1
      /\ \A i \in 2 .. a :
           t[i].segment = t[i - 1].segment + (IF t[i - 1].kind = "transit" THEN 1 ELSE 0)
      /\ k - 1 = 0 => a = 0
      /\ k - 1 # 0 => a > 0 /\ t[a].segment = k - 1 /\ t[a].kind = "transit"
  BY <1>1 DEF Runs
<1>3. /\ \A i \in 1 .. a : u[i] = t[i]
      /\ u[n] = c
  BY DEF Follows
<1>4. ASSUME NEW i \in 1 .. n, i > a, i < n
      PROVE  u[i].segment = k /\ u[i].kind \notin {"transit", "arrive"}
  BY <1>1, <1>4, FollowsCases
<1>5. \A i \in 1 .. n : (i \in 1 .. a /\ u[i] = t[i]) \/ (i > a /\ i < n) \/ (i = n /\ u[i] = c)
  BY FollowsCases
<1> HIDE DEF a, n
<1>6. \A i \in 1 .. n : u[i].kind = "arrive" <=> (k = Len(w) /\ i = n)
  <2> SUFFICES ASSUME NEW i \in 1 .. n
               PROVE  u[i].kind = "arrive" <=> (k = Len(w) /\ i = n)
    OBVIOUS
  <2>1. CASE i \in 1 .. a /\ u[i] = t[i]
    BY <1>1, <1>2, <2>1
  <2>2. CASE i > a /\ i < n
    BY <1>1, <1>4, <2>2
  <2>3. CASE i = n /\ u[i] = c
    BY <2>3
  <2> QED
    BY <1>5, <2>1, <2>2, <2>3
<1>7. {u[i].segment : i \in 1 .. n} = 1 .. k
  <2>1. ASSUME NEW i \in 1 .. n PROVE u[i].segment \in 1 .. k
    <3>1. CASE i \in 1 .. a /\ u[i] = t[i]
      <4>1. t[i].segment \in 1 .. k - 1
        BY <1>2, <3>1
      <4> QED
        BY <1>1, <3>1, <4>1
    <3>2. CASE i > a /\ i < n
      BY <1>1, <1>4, <3>2
    <3>3. CASE i = n /\ u[i] = c
      BY <1>1, <3>3
    <3> QED
      BY <1>5, <3>1, <3>2, <3>3
  <2>2. ASSUME NEW v \in 1 .. k PROVE \E i \in 1 .. n : u[i].segment = v
    <3>1. CASE v = k
      <4>1. n \in 1 .. n
        BY <1>1
      <4> QED
        BY <1>3, <3>1, <4>1
    <3>2. CASE v # k
      <4>1. v \in 1 .. k - 1
        BY <1>1, <3>2
      <4>2. PICK i \in 1 .. a : v = t[i].segment
        BY <1>2, <4>1
      <4>3. i \in 1 .. n /\ u[i] = t[i]
        BY <1>1, <1>3
      <4> QED
        BY <4>2, <4>3
    <3> QED
      BY <3>1, <3>2
  <2> QED
    BY <2>1, <2>2
<1>8. ASSUME NEW i \in 2 .. n
      PROVE  u[i].segment = u[i - 1].segment + (IF u[i - 1].kind = "transit" THEN 1 ELSE 0)
  <2>1. i \in 1 .. n /\ i - 1 \in 1 .. n /\ i - 1 # n /\ i - 1 < n
    BY <1>1
  <2>2. CASE i <= a
    <3>1. i \in 2 .. a /\ i \in 1 .. a /\ i - 1 \in 1 .. a
      BY <1>1, <2>2
    <3>2. u[i] = t[i] /\ u[i - 1] = t[i - 1]
      BY <1>3, <3>1
    <3> QED
      BY <1>2, <3>1, <3>2
  <2>3. CASE i > a
    <3>1. u[i].segment = k
      <4>1. CASE i = n
        BY <1>3, <4>1
      <4>2. CASE i # n
        <5>1. i > a /\ i < n
          BY <1>1, <2>1, <2>3, <4>2
        <5> QED
          BY <1>4, <2>1, <5>1
      <4> QED
        BY <4>1, <4>2
    <3>2. CASE i - 1 > a
      <4>1. u[i - 1].segment = k /\ u[i - 1].kind # "transit"
        BY <1>4, <2>1, <3>2
      <4> QED
        BY <1>1, <3>1, <4>1
    <3>3. CASE ~ (i - 1 > a)
      <4>1. i - 1 = a /\ a \in 1 .. a
        BY <1>1, <2>1, <2>3, <3>3
      <4>2. u[i - 1] = t[a]
        BY <1>3, <4>1
      <4>3. k - 1 # 0
        BY <1>1, <1>2, <4>1
      <4>4. u[i - 1].segment = k - 1 /\ u[i - 1].kind = "transit"
        BY <1>2, <4>2, <4>3
      <4> QED
        BY <1>1, <3>1, <4>4
    <3> QED
      BY <3>2, <3>3
  <2> QED
    BY <1>1, <2>2, <2>3
<1>9. n > 0 /\ u[n].segment = k /\ u[n].kind = IF k = Len(w) THEN "arrive" ELSE "transit"
  BY <1>1, <1>3
<1> QED
  BY <1>1, <1>6, <1>7, <1>8, <1>9 DEF Runs, n

(* Nothing of this closes the k-th walk.                                    *)
Inside(r, k) == \A i \in 1 .. Len(r) : r[i].segment = k /\ r[i].kind \notin {"transit", "arrive"}

(* What closes it, and the flights that are announced by that.              *)
ClosedBy(w, k) == IF k = Len(w) THEN "arrive" ELSE "transit"
OneMoreFlight(w, k) == IF k = Len(w) THEN 0 ELSE 1

(* One more flight is announced, unless the walk was the last.              *)
LEMMA TransitsOn ==
  ASSUME NEW w, NEW k, NEW t, NEW r, Inside(r, k),
         NEW c, c.kind = ClosedBy(w, k),
         NEW u, Follows(u, t, r, c)
  PROVE  /\ Cardinality(Transits(t)) \in Nat
         /\ Cardinality(Transits(u)) = Cardinality(Transits(t)) + OneMoreFlight(w, k)
<1> DEFINE a == Len(t)
           n == Len(u)
<1>1. a \in Nat /\ n \in Nat /\ n > a
  BY DEF Follows
<1>2. (\A i \in 1 .. a : u[i] = t[i]) /\ u[n] = c
  BY DEF Follows
<1>3. \A i \in 1 .. n : i > a /\ i < n => u[i].kind # "transit"
  BY <1>1, FollowsCases DEF Inside
<1>4. IsFiniteSet(Transits(t)) /\ Cardinality(Transits(t)) \in Nat
  <2>1. IsFiniteSet(1 .. a) /\ Transits(t) \in SUBSET (1 .. a)
    BY <1>1, FS_Interval DEF Transits
  <2> QED
    BY <2>1, FS_Subset, FS_CardinalityType
<1> HIDE DEF a, n
<1>5. n \notin Transits(t)
  BY <1>1 DEF Transits, a
<1>6. \A i \in 1 .. n : i \in 1 .. a \/ (i > a /\ i < n) \/ i = n
  BY <1>1
<1>7. \A i \in 1 .. a : i \in 1 .. n /\ i # n
  BY <1>1
<1>8. n \in 1 .. n
  BY <1>1
<1>9. CASE k = Len(w)
  <2>1. u[n].kind # "transit"
    BY <1>2, <1>9 DEF ClosedBy
  <2>2. Transits(u) = Transits(t)
    BY <1>2, <1>3, <1>6, <1>7, <2>1 DEF Transits, a, n
  <2> QED
    BY <1>4, <1>9, <2>2 DEF OneMoreFlight
<1>10. CASE k # Len(w)
  <2>1. u[n].kind = "transit"
    BY <1>2, <1>10 DEF ClosedBy
  <2>2. Transits(u) = Transits(t) \cup {n}
    BY <1>2, <1>3, <1>6, <1>7, <1>8, <2>1 DEF Transits, a, n
  <2> QED
    BY <1>4, <1>5, <1>10, <2>2, FS_AddElement DEF OneMoreFlight
<1> QED
  BY <1>4, <1>9, <1>10

(* The next walk told, and closed.                                          *)
LEMMA TellsOn ==
  ASSUME NEW g, NEW w, NEW f, PartsTyped(g, w, f), NEW k \in 1 .. Len(w),
         NEW t, Tells(g, w, f, t, k - 1),
         NEW r, Spoken(g, r, k, ToldMetres(g, w[k]), ToldSecs(g, w[k]))
  PROVE  Tells(g, w, f, (t \o r) \o <<Closing(w, f, k)>>, k)
<1> DEFINE c == Closing(w, f, k)
           s == t \o r
           u == s \o <<c>>
           n == Len(w)
<1>1. /\ c \in InstructionSet(g) /\ c.metres = 0 /\ c.segment = k
      /\ k = n => c.kind = "arrive" /\ c.secs = 0
      /\ k # n => c.kind = "transit" /\ c.secs = f[k].secs /\ f[k].secs \in Nat
  BY ClosingIs
<1>2. n \in Nat /\ k \in Nat /\ k # 0 /\ k <= n
  BY DEF PartsTyped
<1>3. t \in Seq(InstructionSet(g)) /\ r \in Seq(InstructionSet(g))
  BY DEF Tells, Spoken
<1>4. u \in Seq(InstructionSet(g)) /\ Follows(u, t, r, c)
  BY <1>1, <1>3, JoinFollows
<1>5. /\ \A i \in 1 .. Len(r) : r[i].segment = k /\ r[i].kind \notin {"transit", "arrive"}
      /\ Sum(MetresOf(r)) = ToldMetres(g, w[k]) /\ Sum(SecsOf(r)) = ToldSecs(g, w[k])
  BY DEF Spoken
<1>6. /\ Sum(MetresOf(s)) = Sum(MetresOf(t)) + Sum(MetresOf(r))
      /\ Sum(SecsOf(s)) = Sum(SecsOf(t)) + Sum(SecsOf(r))
  BY <1>3, SaidJoins
<1>7. s \in Seq(InstructionSet(g)) /\ <<c>> \in Seq(InstructionSet(g))
  <2>1. s \in Seq(InstructionSet(g))
    BY <1>3, ConcatProperties
  <2> QED
    BY <1>1, <2>1
<1> HIDE DEF s, c
<1>8. /\ Sum(MetresOf(u)) = Sum(MetresOf(s)) + Sum(MetresOf(<<c>>))
      /\ Sum(SecsOf(u)) = Sum(SecsOf(s)) + Sum(SecsOf(<<c>>))
      /\ Sum(MetresOf(s)) \in Int /\ Sum(SecsOf(s)) \in Int
  BY <1>7, SaidJoins
<1>9. Sum(MetresOf(<<c>>)) = c.metres /\ Sum(SecsOf(<<c>>)) = c.secs
  BY <1>1, SaidOne
<1> HIDE DEF u, n
<1>10. Sum(MetresOf(u)) = Sum(MetresOf(t)) + ToldMetres(g, w[k])
  BY <1>1, <1>5, <1>6, <1>8, <1>9
<1>11. Sum(SecsOf(u)) = Sum(SecsOf(t)) + ToldSecs(g, w[k]) + c.secs
  BY <1>5, <1>6, <1>8, <1>9
<1>12. Comes(g, w, f, t, k - 1) /\ Runs(w, t, k - 1) /\ Cardinality(Transits(t)) = FlightsBy(w, k - 1)
  BY DEF Tells
<1>13. FlightsBy(w, k - 1) = k - 1 /\ FlightsBy(w, k) = IF k = n THEN n - 1 ELSE k
  BY <1>2 DEF FlightsBy, n
<1>14. ASSUME NEW e, Adds(WalkMetres(g, w), n, e) PROVE Sum(MetresOf(u)) = e[k]
  <2>1. Sum(MetresOf(t)) = e[k - 1]
    BY <1>12, <1>14 DEF Comes, n
  <2>2. e[k] = e[k - 1] + WalkMetres(g, w)[k]
    BY <1>14 DEF Adds, n
  <2>3. WalkMetres(g, w)[k] = ToldMetres(g, w[k])
    BY DEF WalkMetres
  <2> QED
    BY <1>10, <2>1, <2>2, <2>3
<1>15. ASSUME NEW e, NEW h, Adds(WalkSecs(g, w), n, e), Adds(FlightSecs(w, f), n - 1, h)
       PROVE  Sum(SecsOf(u)) = e[k] + h[FlightsBy(w, k)]
  <2>1. Sum(SecsOf(t)) = e[k - 1] + h[k - 1]
    BY <1>12, <1>13, <1>15 DEF Comes, n
  <2>2. e[k] = e[k - 1] + ToldSecs(g, w[k])
    <3>1. e[k] = e[k - 1] + WalkSecs(g, w)[k]
      BY <1>15 DEF Adds, n
    <3> QED
      BY <3>1 DEF WalkSecs
  <2>3. e \in [0 .. n -> Int] /\ h \in [0 .. n - 1 -> Int]
    BY <1>15 DEF Adds
  <2>4. ToldSecs(g, w[k]) \in Nat
    <3>1. w[k].secs \in Nat
      BY DEF PartsTyped
    <3> QED
      BY <3>1 DEF ToldSecs
  <2>5. e[k - 1] \in Int /\ h[k - 1] \in Int
    <3>1. k - 1 \in 0 .. n /\ k - 1 \in 0 .. n - 1
      BY <1>2
    <3> QED
      BY <2>3, <3>1
  <2>6. CASE k = n
    <3>1. c.secs = 0 /\ FlightsBy(w, k) = k - 1
      BY <1>1, <1>13, <2>6
    <3> QED
      BY <1>11, <2>1, <2>2, <2>4, <2>5, <3>1
  <2>7. CASE k # n
    <3>1. c.secs = f[k].secs /\ f[k].secs \in Nat /\ FlightsBy(w, k) = k
      BY <1>1, <1>13, <2>7
    <3>2. k \in 1 .. n - 1
      BY <1>2, <2>7
    <3>3. h[k] = h[k - 1] + FlightSecs(w, f)[k]
      BY <1>15, <3>2 DEF Adds
    <3>4. FlightSecs(w, f)[k] = f[k].secs
      BY <3>2 DEF FlightSecs, n
    <3> QED
      BY <1>11, <2>1, <2>2, <2>4, <2>5, <3>1, <3>3, <3>4
  <2> QED
    BY <2>6, <2>7
<1>16. Comes(g, w, f, u, k)
  BY <1>14, <1>15 DEF Comes, n
<1>17. c.kind = IF k = n THEN "arrive" ELSE "transit"
  BY <1>1
<1>18. Runs(w, u, k)
  BY <1>1, <1>2, <1>4, <1>5, <1>12, <1>17, RunsOn DEF n
<1>19. Cardinality(Transits(u)) = FlightsBy(w, k)
  <2>1. Inside(r, k)
    BY <1>5 DEF Inside
  <2>2. c.kind = ClosedBy(w, k)
    BY <1>17 DEF n, ClosedBy
  <2>3. Follows(u, t, r, c)
    BY <1>4
  <2>4. Cardinality(Transits(u)) = Cardinality(Transits(t)) + OneMoreFlight(w, k)
    BY <2>1, <2>2, <2>3, TransitsOn
  <2> QED
    BY <1>2, <1>12, <1>13, <2>4 DEF n, OneMoreFlight
<1> QED
  BY <1>4, <1>16, <1>18, <1>19 DEF Tells, u, s, c

(* A route that is known has a node.                                        *)
FoundInv == (Live /\ (stage = "alternative" \/ phase = "idle")) => plan.path # <<>>

(* A path is collected.                                                     *)
LEMMA CollectedFinds ==
  ASSUME SearchesInv, RoutesInv, FoundInv, Collected
  PROVE  FoundInv'
<1> DEFINE legs == Append(plan.legs, path)
           whole == IF plan.path = <<>> THEN path ELSE plan.path \o Tail(path)
<1>1. phase = "unwind" /\ cursor = None /\ Live
  BY DEF Collected, Live
<1>2. PlanTyped(Nodes, plan) /\ stage \in {"primary", "alternative"}
  BY <1>1 DEF SearchesInv, ContextInv
<1>3. path # <<>> /\ Chain(Nodes, path, Legals)
  BY <1>1 DEF SearchesInv, UnwindInv
<1>4. CASE stage = "alternative"
  <2>1. plan' = [plan EXCEPT !.others = plan.others \cup {path}] /\ plan.path # <<>>
    BY <1>1, <1>4 DEF Collected, FoundInv
  <2>2. \A o : [plan EXCEPT !.others = o].path = plan.path
    BY <1>2 DEF PlanTyped
  <2> QED
    BY <2>1, <2>2 DEF FoundInv
<1>5. CASE stage = "primary"
  <2>1. plan' = WithLeg(plan, whole, rung, legs)
    BY <1>5 DEF Collected, WithLeg
  <2>2. path \in Seq(Nodes) /\ plan.path \in Seq(Nodes)
    BY <1>1, <1>3 DEF Chain, RoutesInv, Drawn
  <2>3. whole # <<>>
    <3>1. CASE plan.path = <<>>
      BY <1>3, <3>1
    <3>2. CASE plan.path # <<>>
      <4>1. Tail(path) \in Seq(Nodes)
        BY <1>3, <2>2, HeadTailProperties
      <4>2. Len(plan.path) \in Nat /\ Len(Tail(path)) \in Nat /\ Len(plan.path) # 0
        BY <2>2, <3>2, <4>1, LenProperties, EmptySeq
      <4>3. Len(plan.path \o Tail(path)) = Len(plan.path) + Len(Tail(path))
        BY <2>2, <4>1, ConcatProperties
      <4>4. Len(<<>>) = 0
        OBVIOUS
      <4>5. plan.path \o Tail(path) # <<>>
        BY <4>2, <4>3, <4>4
      <4> QED
        BY <3>2, <4>5
    <3> QED
      BY <3>1, <3>2
  <2> HIDE DEF whole, legs
  <2>4. WithLeg(plan, whole, rung, legs).path = whole
    BY <1>2 DEF PlanTyped, WithLeg
  <2> QED
    BY <2>1, <2>3, <2>4 DEF FoundInv
<1> QED
  BY <1>2, <1>4, <1>5

(* Every step keeps it.                                                     *)
LEMMA FoundNext ==
  ASSUME SearchesInv, RoutesInv, FoundInv, [WNext]_allVars
  PROVE  FoundInv'
<1>1. CASE UNCHANGED vars
  <2>1. UNCHANGED <<phase, stage, plan, reply>>
    BY <1>1 DEF vars
  <2> QED
    BY <2>1 DEF FoundInv, Live
<1>2. CASE Plan
  <2>1. CASE TwoOpt \/ FieldMiss \/ DropStale \/ Settle \/ Unwind
    <3>1. UNCHANGED <<stage, plan>> /\ phase # "idle" /\ phase' # "idle"
      BY <2>1 DEF TwoOpt, FieldMiss, DropStale, Settle, Unwind
    <3> QED
      BY <3>1 DEF FoundInv, Live
  <2>2. CASE FieldHit \/ FieldDone
    <3>1. /\ phase \in {"lookup", "field"} /\ stage' = stage
          /\ \E f : Follow(f)
      BY <2>2 DEF FieldHit, FieldDone
    <3>2. stage = "primary"
      BY <3>1 DEF SearchesInv, FieldInv
    <3>3. phase' \in {"walk", "search"}
      BY <3>1 DEF Follow
    <3> QED
      BY <3>1, <3>2, <3>3 DEF FoundInv
  <2>3. CASE Reach
    <3>1. phase = "search" /\ phase' = "unwind" /\ stage' = stage
      BY <2>3 DEF Reach
    <3>2. \/ plan' = plan
          \/ \E c : plan' = [plan EXCEPT !.cost = c]
      BY <2>3 DEF Reach
    <3>3. PlanTyped(Nodes, plan)
      BY <3>1 DEF SearchesInv, ContextInv, Live
    <3>4. \A c : [plan EXCEPT !.cost = c].path = plan.path
      BY <3>3, CostedPlan
    <3>5. plan'.path = plan.path
      BY <3>2, <3>4
    <3> QED
      BY <3>1, <3>5 DEF FoundInv, Live
  <2>4. CASE WalkOn
    <3>1. phase = "walk"
      BY <2>4 DEF WalkOn
    <3>2. /\ PlanTyped(Nodes, plan) /\ stage = "primary" /\ path # <<>>
      BY <3>1 DEF SearchesInv, ContextInv, FieldInv, Live
    <3>3. CASE cursor \in DOMAIN prev
      <4>1. UNCHANGED <<phase, stage, plan>>
        BY <2>4, <3>3 DEF WalkOn
      <4> QED
        BY <3>1, <3>2, <4>1 DEF FoundInv, Live
    <3>4. CASE cursor \notin DOMAIN prev
      <4>1. plan' = WithPath(plan, path, 1)
        BY <2>4, <3>4 DEF WalkOn, WithPath
      <4>2. WithPath(plan, path, 1).path = path
        BY <3>2 DEF PlanTyped, WithPath
      <4> QED
        BY <3>2, <4>1, <4>2 DEF FoundInv
    <3> QED
      BY <3>3, <3>4
  <2>5. CASE Exhausted
    <3>1. phase = "search" /\ stage' = stage
      BY <2>5 DEF Exhausted
    <3>2. stage \in {"primary", "alternative"} /\ Live
      BY <3>1 DEF SearchesInv, ContextInv, Live
    <3>3. CASE stage = "alternative"
      <4>1. plan' = plan
        BY <2>5, <3>3 DEF Exhausted
      <4> QED
        BY <3>1, <3>2, <3>3, <4>1 DEF FoundInv
    <3>4. CASE stage = "primary"
      <4>1. phase' = "search" \/ (phase' = "idle" /\ reply'.status = 404)
        BY <2>5, <3>1, <3>4 DEF Exhausted, Answer
      <4> QED
        BY <3>1, <3>4, <4>1 DEF FoundInv, Live
    <3> QED
      BY <3>2, <3>3, <3>4
  <2> QED
    BY <1>2, <2>1, <2>2, <2>3, <2>4, <2>5, CollectedFinds DEF Plan
<1>3. ASSUME NEW qq \in Queries, NEW C \in ClosureSets, Arrive(qq, C)
      PROVE  FoundInv'
  <2>1. CASE Rejection(graph, qq) # 0
    <3>1. phase' = "idle" /\ reply'.status = Rejection(graph, qq)
      BY <1>3, <2>1 DEF Arrive
    <3>2. Rejection(graph, qq) # 200
      BY DEF Rejection
    <3> QED
      BY <3>1, <3>2 DEF FoundInv, Live
  <2>2. CASE Rejection(graph, qq) = 0
    <3>1. phase' # "idle" /\ stage' = "primary"
      BY <1>3, <2>2 DEF Arrive
    <3> QED
      BY <3>1 DEF FoundInv
  <2> QED
    BY <2>1, <2>2
<1>4. CASE Guide
  BY <1>1, <1>4 DEF Guide, Assemble, Measure, Simplify, FindTurns, AddConfirmations, Share
<1>5. CASE UNCHANGED allVars
  BY <1>1, <1>5 DEF allVars
<1> QED
  BY <1>2, <1>3, <1>4, <1>5 DEF WNext, Work, Search, Request

(***************************************************************************)
(* A route is told walk by walk                                             *)
(***************************************************************************)

(* What is told so far: the walks before the k-th, of which the points, the  *)
(* lengths along them and the marks are being found.                        *)
ToldSo(g, w, f, r) ==
  /\ r.stage # "told" => r.k \in 1 .. Len(w) /\ Tells(g, w, f, r.told, r.k - 1)
  /\ r.stage = "told" => Tells(g, w, f, r.told, Len(w))
  /\ r.stage \in {"turns", "marks", "share"} =>
       /\ r.points = Pts(g, w[r.k]) /\ ~ (Len(r.points) < 2)
       /\ r.cum = Cumulative(g, r.points)
  /\ r.stage \in {"marks", "share"} => Marked(g, r.turns, r.cum[Len(r.cum)])
RouteFields == {"stage", "walks", "flights", "stops", "steps", "warnings",
                "k", "points", "cum", "turns", "told"}

(* What telling changes, and what it leaves.                                *)
LEMMA TellingChanges ==
  ASSUME NEW r, DOMAIN r = RouteFields, NEW a, NEW b, NEW c
  PROVE  /\ AfterWalk(r, a, b, c).told = a /\ AfterWalk(r, a, b, c).k = b
         /\ AfterWalk(r, a, b, c).stage = c
         /\ AfterLine(r, a, b).points = a /\ AfterLine(r, a, b).cum = b
         /\ AfterLine(r, a, b).told = r.told /\ AfterLine(r, a, b).k = r.k
         /\ AfterLine(r, a, b).stage = "turns"
         /\ AfterTurns(r, a, b).turns = b /\ AfterTurns(r, a, b).points = r.points
         /\ AfterTurns(r, a, b).cum = r.cum /\ AfterTurns(r, a, b).told = r.told
         /\ AfterTurns(r, a, b).k = r.k /\ AfterTurns(r, a, b).stage = a
<1>1. /\ AfterWalk(r, a, b, c).told = a /\ AfterWalk(r, a, b, c).k = b
      /\ AfterWalk(r, a, b, c).stage = c
  BY DEF AfterWalk, RouteFields
<1>2. /\ AfterLine(r, a, b).points = a /\ AfterLine(r, a, b).cum = b
      /\ AfterLine(r, a, b).told = r.told /\ AfterLine(r, a, b).k = r.k
      /\ AfterLine(r, a, b).stage = "turns"
  BY DEF AfterLine, RouteFields
<1>3. /\ AfterTurns(r, a, b).turns = b /\ AfterTurns(r, a, b).points = r.points
      /\ AfterTurns(r, a, b).cum = r.cum /\ AfterTurns(r, a, b).told = r.told
      /\ AfterTurns(r, a, b).k = r.k /\ AfterTurns(r, a, b).stage = a
  BY DEF AfterTurns, RouteFields
<1> QED
  BY <1>1, <1>2, <1>3

(* The points of a walk go from its first node to its last,                  *)
LEMMA PointsKeep ==
  ASSUME NEW g, WellFormed(g), NEW w, NEW f, PartsTyped(g, w, f), NEW k \in 1 .. Len(w)
  PROVE  KeepsEnds(g, Pts(g, w[k]), w[k].nodes)
<1>1. KeepsEnds(g, w[k].points, w[k].nodes)
  BY DEF PartsTyped
<1>2. Line(g, w[k].points)
  BY <1>1 DEF KeepsEnds
<1>3. KeepsEnds(g, Pts(g, w[k]), w[k].points)
  BY <1>2, SimplifiedKeeps DEF Pts
<1> QED
  BY <1>1, <1>3 DEF KeepsEnds

(* so that one which is not heard ends where it began.                       *)
LEMMA UnheardReturns ==
  ASSUME NEW g, WellFormed(g), NEW w, NEW f, PartsTyped(g, w, f), NEW k \in 1 .. Len(w),
         ~ Heard(g, w[k])
  PROVE  Spot(g, w[k].nodes[1]) = Spot(g, w[k].nodes[Len(w[k].nodes)])
<1> DEFINE p == Pts(g, w[k])
           c == Cumulative(g, p)
<1>1. KeepsEnds(g, p, w[k].nodes)
  BY PointsKeep
<1>2. ~ (c[Len(p)] > 0)
  BY DEF Heard
<1> HIDE DEF p
<1>3. Line(g, p) /\ Len(p) \in 1 .. Len(p)
  BY <1>1 DEF KeepsEnds, Line
<1>4. Rising(c, Len(p)) /\ (c[Len(p)] = 0 => Spot(g, p[1]) = Spot(g, p[Len(p)]))
  BY <1>3, CumulativeRises
<1> HIDE DEF c
<1>5. c[Len(p)] \in Nat
  BY <1>3, <1>4 DEF Rising
<1>6. Spot(g, p[1]) = Spot(g, p[Len(p)])
  BY <1>2, <1>4, <1>5
<1> QED
  BY <1>1, <1>6 DEF KeepsEnds

(* The line of a walk that is being told.                                   *)
LEMMA LineKnown ==
  ASSUME NEW g, WellFormed(g), NEW w, NEW f, PartsTyped(g, w, f), NEW r, ToldSo(g, w, f, r),
         r.stage \in {"turns", "marks", "share"}
  PROVE  Line(g, r.points) /\ Rising(r.cum, Len(r.points))
<1>1. /\ r.k \in 1 .. Len(w) /\ r.points = Pts(g, w[r.k])
      /\ ~ (Len(r.points) < 2) /\ r.cum = Cumulative(g, r.points)
  BY DEF ToldSo
<1>2. Line(g, r.points)
  BY <1>1, PointsKeep DEF KeepsEnds
<1>3. Rising(Cumulative(g, r.points), Len(r.points))
  BY <1>2, CumulativeRises
<1> QED
  BY <1>1, <1>2, <1>3

(* A walk is closed.                                                        *)
LEMMA WalkClosed ==
  ASSUME NEW g, NEW w, NEW f, PartsTyped(g, w, f), NEW r, DOMAIN r = RouteFields,
         r.k \in 1 .. Len(w), Tells(g, w, f, r.told, r.k - 1),
         NEW said, Spoken(g, said, r.k, ToldMetres(g, w[r.k]), ToldSecs(g, w[r.k]))
  PROVE  ToldSo(g, w, f, AfterWalk(r, (r.told \o said) \o <<Closing(w, f, r.k)>>, r.k + 1,
                                   IF r.k = Len(w) THEN "told" ELSE "walk"))
<1> DEFINE a == (r.told \o said) \o <<Closing(w, f, r.k)>>
           b == IF r.k = Len(w) THEN "told" ELSE "walk"
           s == AfterWalk(r, a, r.k + 1, b)
<1>1. Tells(g, w, f, a, r.k)
  BY TellsOn
<1> HIDE DEF a
<1>2. s.told = a /\ s.k = r.k + 1 /\ s.stage = b
  BY TellingChanges
<1> HIDE DEF s
<1>3. Len(w) \in Nat /\ r.k \in Nat
  BY DEF PartsTyped
<1>4. ASSUME NEW n \in Nat, NEW k \in 1 .. n, k # n PROVE k + 1 \in 1 .. n /\ (k + 1) - 1 = k
  BY <1>4
<1>5. ToldSo(g, w, f, s)
  <2>1. CASE r.k = Len(w)
    <3>1. s.stage = "told"
      BY <1>2, <2>1
    <3>2. Tells(g, w, f, s.told, Len(w))
      BY <1>1, <1>2, <2>1
    <3> QED
      BY <3>1, <3>2 DEF ToldSo
  <2>2. CASE r.k # Len(w)
    <3>1. s.k \in 1 .. Len(w) /\ s.k - 1 = r.k
      BY <1>2, <1>3, <1>4, <2>2
    <3>2. s.stage = "walk"
      BY <1>2, <2>2
    <3>3. Tells(g, w, f, s.told, s.k - 1)
      BY <1>1, <1>2, <3>1
    <3> QED
      BY <3>1, <3>2, <3>3 DEF ToldSo
  <2> QED
    BY <2>1, <2>2
<1> QED
  BY <1>5 DEF s, a

(* A walk of one point has nothing to tell.                                 *)
LEMMA PointSpoken ==
  ASSUME NEW g, WellFormed(g), NEW w, NEW f, PartsTyped(g, w, f), NEW k \in 1 .. Len(w),
         Len(Pts(g, w[k])) < 2
  PROVE  Spoken(g, <<>>, k, ToldMetres(g, w[k]), ToldSecs(g, w[k]))
<1> DEFINE p == Pts(g, w[k])
<1>1. Line(g, p)
  BY PointsKeep DEF KeepsEnds
<1>2. Len(p) < 2
  OBVIOUS
<1> HIDE DEF p
<1>3. Len(p) = 1
  BY <1>1, <1>2 DEF Line
<1>4. Cumulative(g, p)[Len(p)] = 0
  BY <1>1, <1>3, CumulativeRises DEF Rising
<1>5. ~ Heard(g, w[k])
  BY <1>4 DEF Heard, p
<1>6. ToldMetres(g, w[k]) = 0 /\ ToldSecs(g, w[k]) = 0
  BY <1>5 DEF ToldMetres, ToldSecs
<1> QED
  BY <1>6, NothingSaid

(* Its line is drawn,                                                       *)
LEMMA LineDrawn ==
  ASSUME NEW g, NEW w, NEW f, NEW r, DOMAIN r = RouteFields, ToldSo(g, w, f, r),
         r.stage = "walk", NEW p, p = Pts(g, w[r.k]), ~ (Len(p) < 2)
  PROVE  ToldSo(g, w, f, AfterLine(r, p, Cumulative(g, p)))
<1> DEFINE c == Cumulative(g, p)
           s == AfterLine(r, p, c)
<1> HIDE DEF c
<1>1. s.points = p /\ s.cum = c /\ s.told = r.told /\ s.k = r.k /\ s.stage = "turns"
  BY TellingChanges
<1> HIDE DEF s
<1>2. r.k \in 1 .. Len(w) /\ Tells(g, w, f, r.told, r.k - 1)
  BY DEF ToldSo
<1>3. ToldSo(g, w, f, s)
  BY <1>1, <1>2 DEF ToldSo, c
<1> QED
  BY <1>3 DEF s, c

(* its turns are found, or confirmations added to them,                      *)
LEMMA MarksFound ==
  ASSUME NEW g, NEW w, NEW f, NEW r, DOMAIN r = RouteFields, ToldSo(g, w, f, r),
         r.stage \in {"turns", "marks"}, NEW stg \in {"marks", "share"},
         NEW ms, Marked(g, ms, r.cum[Len(r.cum)])
  PROVE  ToldSo(g, w, f, AfterTurns(r, stg, ms))
<1> DEFINE s == AfterTurns(r, stg, ms)
<1>1. /\ s.turns = ms /\ s.points = r.points /\ s.cum = r.cum /\ s.told = r.told
      /\ s.k = r.k /\ s.stage = stg
  BY TellingChanges
<1> HIDE DEF s
<1>2. /\ r.k \in 1 .. Len(w) /\ Tells(g, w, f, r.told, r.k - 1)
      /\ r.points = Pts(g, w[r.k]) /\ ~ (Len(r.points) < 2)
      /\ r.cum = Cumulative(g, r.points)
  BY DEF ToldSo
<1>3. ToldSo(g, w, f, s)
  BY <1>1, <1>2 DEF ToldSo
<1> QED
  BY <1>3 DEF s

(* and its length is shared out.                                            *)
LEMMA WalkSpoken ==
  ASSUME NEW g, WellFormed(g), NEW w, NEW f, PartsTyped(g, w, f), NEW r, ToldSo(g, w, f, r),
         r.stage = "share", NEW heading
  PROVE  Spoken(g, WalkInstructions(g, w[r.k], r.k, r.points, r.cum, r.turns, heading), r.k,
                ToldMetres(g, w[r.k]), ToldSecs(g, w[r.k]))
<1>1. /\ r.k \in 1 .. Len(w) /\ r.points = Pts(g, w[r.k])
      /\ r.cum = Cumulative(g, r.points) /\ Marked(g, r.turns, r.cum[Len(r.cum)])
  BY DEF ToldSo
<1>2. Line(g, r.points) /\ Rising(r.cum, Len(r.points))
  BY LineKnown
<1>3. w[r.k].metres \in Nat /\ w[r.k].secs \in Nat /\ r.k \in Nat
  BY <1>1 DEF PartsTyped
<1> DEFINE top == r.cum[Len(r.cum)]
<1>4. top > 0 <=> Heard(g, w[r.k])
  <2>1. Len(r.cum) = Len(r.points)
    BY <1>2 DEF Rising
  <2> QED
    BY <1>1, <2>1 DEF Heard
<1>5. Spoken(g, WalkInstructions(g, w[r.k], r.k, r.points, r.cum, r.turns, heading), r.k,
             IF top > 0 THEN w[r.k].metres ELSE 0, IF top > 0 THEN w[r.k].secs ELSE 0)
  BY <1>1, <1>2, <1>3, InstructionsSpoken
<1> HIDE DEF top
<1>6. /\ ToldMetres(g, w[r.k]) = IF top > 0 THEN w[r.k].metres ELSE 0
      /\ ToldSecs(g, w[r.k]) = IF top > 0 THEN w[r.k].secs ELSE 0
  BY <1>4 DEF ToldMetres, ToldSecs
<1> QED
  BY <1>5, <1>6

(* An answer's route is told walk by walk.                                  *)
GuideInv == route.stage \in Telling => ToldSo(graph, Walks, Flights, route)

(* The parts of a route that was answered.                                  *)
LEMMA PartsKnown ==
  ASSUME SearchesInv, RoutesInv, FoundInv, Answered
  PROVE  WellFormed(graph) /\ PartsTyped(graph, Walks, Flights)
<1>1. Live /\ phase = "idle"
  BY DEF Answered, Live
<1>2. WellFormed(graph)
  BY DEF SearchesInv, GraphInv
<1>3. plan.path # <<>> /\ Chain(Nodes, plan.path, Legals)
  BY <1>1 DEF FoundInv, RoutesInv, Drawn
<1>4. Legals \subseteq graph.hops
  BY DEF Legals, HopsOf, Legal
<1> QED
  BY <1>2, <1>3, <1>4, PathPartsTyped DEF Walks, Flights

(* Telling reads the plan and leaves it alone.                              *)
LEMMA GuideStays ==
  ASSUME UNCHANGED vars, ToldSo(graph, Walks, Flights, route')
  PROVE  GuideInv'
<1>1. graph' = graph /\ Walks' = Walks /\ Flights' = Flights
  BY SamePlan DEF vars
<1> QED
  BY <1>1 DEF GuideInv

(* Every step of telling keeps to the walks.                                *)
LEMMA GuideTells ==
  ASSUME SearchesInv, RoutesInv, FoundInv, RouteInv, GuideInv, Guide
  PROVE  GuideInv'
<1>1. UNCHANGED vars
  BY DEF Guide, Assemble, Measure, Simplify, FindTurns, AddConfirmations, Share
<1>2. CASE Assemble
  <2>1. route'.stage = "parts"
    BY <1>2 DEF Assemble
  <2> QED
    BY <2>1 DEF GuideInv, Telling
<1>3. CASE Measure
  <2>1. Answered
    BY <1>3 DEF Measure, RouteInv
  <2>2. PartsTyped(graph, Walks, Flights)
    BY <2>1, PartsKnown
  <2>3. route'.stage = "walk" /\ route'.k = 1 /\ route'.told = <<>>
    BY <1>3 DEF Measure
  <2>4. 1 \in 1 .. Len(Walks) /\ 1 - 1 = 0
    BY <2>2 DEF PartsTyped
  <2>5. Tells(graph, Walks, Flights, <<>>, 0)
    BY <2>2, TellsNothing
  <2>6. ToldSo(graph, Walks, Flights, route')
    BY <2>3, <2>4, <2>5 DEF ToldSo
  <2> QED
    BY <1>1, <2>6, GuideStays
<1>4. ASSUME route.stage \in {"walk", "turns", "marks", "share"}
      PROVE  /\ WellFormed(graph) /\ PartsTyped(graph, Walks, Flights)
             /\ DOMAIN route = RouteFields /\ route.walks = Walks /\ route.flights = Flights
             /\ ToldSo(graph, Walks, Flights, route)
             /\ route.k \in 1 .. Len(Walks)
             /\ Tells(graph, Walks, Flights, route.told, route.k - 1)
  <2>1. route.stage \in Telling /\ route.stage # "told" /\ Answered
    BY <1>4 DEF Telling, RouteInv
  <2>2. Measured(route, Walks, Flights, Steps(Walks, Flights), Warned)
    BY <2>1 DEF RouteInv
  <2>3. ToldSo(graph, Walks, Flights, route)
    BY <2>1 DEF GuideInv
  <2>4. /\ route.k \in 1 .. Len(Walks)
        /\ Tells(graph, Walks, Flights, route.told, route.k - 1)
    BY <2>1, <2>3 DEF ToldSo
  <2> QED
    BY <2>1, <2>2, <2>3, <2>4, PartsKnown DEF Measured, RouteFields
<1>5. ASSUME NEW said, Close(said), route.stage \in {"walk", "share"},
             Spoken(graph, said, route.k, ToldMetres(graph, Walks[route.k]),
                    ToldSecs(graph, Walks[route.k]))
      PROVE  GuideInv'
  <2> DEFINE a == (route.told \o said) \o <<Closing(Walks, Flights, route.k)>>
             b == IF route.k = Len(Walks) THEN "told" ELSE "walk"
  <2>1. route.walks = Walks /\ route.flights = Flights
    BY <1>4, <1>5
  <2>2. route' = AfterWalk(route, a, route.k + 1, b)
    BY <1>5, <2>1 DEF Close, AfterWalk
  <2>3. ToldSo(graph, Walks, Flights, AfterWalk(route, a, route.k + 1, b))
    BY <1>4, <1>5, WalkClosed
  <2> HIDE DEF a, b
  <2>4. ToldSo(graph, Walks, Flights, route')
    BY <2>2, <2>3
  <2> QED
    BY <1>1, <2>4, GuideStays
<1>6. CASE Simplify
  <2> DEFINE p == Pts(graph, Walks[route.k])
  <2>1. route.stage = "walk"
    BY <1>6 DEF Simplify
  <2>2. route.walks = Walks
    BY <1>4, <2>1
  <2>3. IF Len(p) < 2 THEN Close(<<>>) ELSE route' = AfterLine(route, p, Cumulative(graph, p))
    BY <1>6, <2>2 DEF Simplify, AfterLine, Pts
  <2> HIDE DEF p
  <2>4. CASE Len(p) < 2
    <3>1. Spoken(graph, <<>>, route.k, ToldMetres(graph, Walks[route.k]),
               ToldSecs(graph, Walks[route.k]))
      BY <1>4, <2>1, <2>4, PointSpoken DEF p
    <3> QED
      BY <1>5, <2>1, <2>3, <2>4, <3>1
  <2>5. CASE ~ (Len(p) < 2)
    <3>1. ToldSo(graph, Walks, Flights, AfterLine(route, p, Cumulative(graph, p)))
      BY <1>4, <2>1, <2>5, LineDrawn DEF p
    <3>2. ToldSo(graph, Walks, Flights, route')
      BY <2>3, <2>5, <3>1
    <3> QED
      BY <1>1, <3>2, GuideStays
  <2> QED
    BY <2>4, <2>5
<1>7. ASSUME NEW stg \in {"marks", "share"}, NEW ms, route.stage \in {"turns", "marks"},
             route' = AfterTurns(route, stg, ms), Marked(graph, ms, route.cum[Len(route.cum)])
      PROVE  GuideInv'
  <2>1. ToldSo(graph, Walks, Flights, AfterTurns(route, stg, ms))
    BY <1>4, <1>7, MarksFound
  <2>2. ToldSo(graph, Walks, Flights, route')
    BY <1>7, <2>1
  <2> QED
    BY <1>1, <2>2, GuideStays
<1>8. CASE FindTurns
  <2> DEFINE ms == Turns(graph, Walks[route.k], route.points, route.cum)
  <2>1. route.stage = "turns"
    BY <1>8 DEF FindTurns
  <2>2. route.walks = Walks
    BY <1>4, <2>1
  <2>3. route' = AfterTurns(route, "marks", ms)
    BY <1>8, <2>2 DEF FindTurns, AfterTurns
  <2>4. Line(graph, route.points) /\ Rising(route.cum, Len(route.points)) /\ WellFormed(graph)
    BY <1>4, <2>1, LineKnown
  <2>5. Marked(graph, ms, route.cum[Len(route.cum)])
    BY <2>4, TurnsMarked
  <2> HIDE DEF ms
  <2> QED
    BY <1>7, <2>1, <2>3, <2>5
<1>9. CASE AddConfirmations
  <2> DEFINE ms == Marks(graph, Walks[route.k], route.points, route.cum, route.turns,
                         plan.path[Len(plan.path)])
  <2>1. route.stage = "marks"
    BY <1>9 DEF AddConfirmations
  <2>2. route.walks = Walks /\ ToldSo(graph, Walks, Flights, route)
    BY <1>4, <2>1
  <2>3. route' = AfterTurns(route, "share", ms)
    BY <1>9, <2>2 DEF AddConfirmations, AfterTurns
  <2>4. Line(graph, route.points) /\ Rising(route.cum, Len(route.points))
    BY <1>4, <2>1, LineKnown
  <2>5. route.cum[Len(route.cum)] \in Nat
    <3>1. Len(route.points) \in 1 .. Len(route.points)
      BY <2>4 DEF Line
    <3> QED
      BY <2>4, <3>1 DEF Rising
  <2>6. Marked(graph, route.turns, route.cum[Len(route.cum)])
    BY <2>1, <2>2 DEF ToldSo
  <2>7. Marked(graph, ms, route.cum[Len(route.cum)])
    BY <2>5, <2>6, MarksMarked
  <2> HIDE DEF ms
  <2> QED
    BY <1>7, <2>1, <2>3, <2>7
<1>10. CASE Share
  <2> DEFINE said == WalkInstructions(graph, Walks[route.k], route.k, route.points, route.cum,
                                      route.turns, q.heading)
  <2>1. route.stage = "share"
    BY <1>10 DEF Share
  <2>2. route.walks = Walks
    BY <1>4, <2>1
  <2>3. Close(said)
    BY <1>10, <2>2 DEF Share
  <2>4. Spoken(graph, said, route.k, ToldMetres(graph, Walks[route.k]),
             ToldSecs(graph, Walks[route.k]))
    BY <1>4, <2>1, WalkSpoken
  <2> HIDE DEF said
  <2> QED
    BY <1>5, <2>1, <2>3, <2>4
<1> QED
  BY <1>2, <1>3, <1>6, <1>8, <1>9, <1>10 DEF Guide

(* And so does every other step.                                            *)
LEMMA GuideNext ==
  ASSUME SearchesInv, RoutesInv, FoundInv, RouteInv, GuideInv, [WNext]_allVars
  PROVE  GuideInv'
<1>1. CASE UNCHANGED allVars
  <2>1. UNCHANGED vars /\ route' = route
    BY <1>1 DEF allVars
  <2>2. graph' = graph /\ Walks' = Walks /\ Flights' = Flights
    BY <2>1, SamePlan DEF vars
  <2> QED
    BY <2>1, <2>2 DEF GuideInv
<1>2. CASE Search
  <2>1. phase # "idle"
    BY <1>2 DEF Search, Plan, TwoOpt, FieldHit, FieldMiss, FieldDone, DropStale, Settle, Reach,
                WalkOn, Unwind, Collected, Exhausted
  <2>2. route.stage = "none" /\ route' = route
    BY <1>2, <2>1 DEF Search, RouteInv, Answered
  <2> QED
    BY <2>2 DEF GuideInv, Telling
<1>3. ASSUME NEW qq \in Queries, NEW C \in ClosureSets, Request(qq, C)
      PROVE  GuideInv'
  <2>1. route'.stage = "none"
    BY <1>3 DEF Request, NoRoute
  <2> QED
    BY <2>1 DEF GuideInv, Telling
<1> QED
  BY <1>1, <1>2, <1>3, GuideTells DEF WNext, Work

(* The walks as they are told.                                              *)
Timed(g, w) ==
  [k \in DOMAIN w |-> IF Heard(g, w[k]) THEN w[k] ELSE [w[k] EXCEPT !.metres = 0, !.secs = 0]]

(* The totals beside the instructions are sums over the walks and flights.   *)
LEMMA TotalsAre ==
  ASSUME NEW g, NEW w, NEW f, PartsTyped(g, w, f),
         \A k \in 1 .. Len(w) : {"metres", "secs"} \subseteq DOMAIN w[k],
         NEW t, Tells(g, w, f, t, Len(w))
  PROVE  /\ Sum(MetresOf(t)) = Metres(Timed(g, w))
         /\ Sum(SecsOf(t)) = Seconds(Timed(g, w), f)
<1> DEFINE n == Len(w)
           timed == Timed(g, w)
<1>1. /\ n \in Nat \ {0} /\ DOMAIN w = 1 .. n /\ DOMAIN f = 1 .. n - 1
      /\ \A k \in 1 .. n : w[k].metres \in Nat /\ w[k].secs \in Nat
      /\ \A k \in 1 .. n - 1 : f[k].secs \in Nat
  BY DEF PartsTyped
<1>2. \A k \in 1 .. n : ToldMetres(g, w[k]) \in Nat /\ ToldSecs(g, w[k]) \in Nat
  BY <1>1 DEF ToldMetres, ToldSecs
<1>3. \A k \in 1 .. n :
        timed[k].metres = ToldMetres(g, w[k]) /\ timed[k].secs = ToldSecs(g, w[k])
  <2> SUFFICES ASSUME NEW k \in 1 .. n
               PROVE  /\ timed[k].metres = ToldMetres(g, w[k])
                      /\ timed[k].secs = ToldSecs(g, w[k])
    OBVIOUS
  <2>1. {"metres", "secs"} \subseteq DOMAIN w[k] /\ k \in DOMAIN w
    BY <1>1
  <2>2. CASE ~ Heard(g, w[k])
    <3>1. timed[k] = [w[k] EXCEPT !.metres = 0, !.secs = 0]
      BY <2>1, <2>2 DEF Timed
    <3>2. /\ [w[k] EXCEPT !.metres = 0, !.secs = 0].metres = 0
          /\ [w[k] EXCEPT !.metres = 0, !.secs = 0].secs = 0
      BY <2>1
    <3> HIDE DEF timed
    <3> QED
      BY <2>2, <3>1, <3>2 DEF ToldMetres, ToldSecs
  <2>3. CASE Heard(g, w[k])
    <3>1. timed[k] = w[k]
      BY <2>1, <2>3 DEF Timed
    <3> HIDE DEF timed
    <3> QED
      BY <2>3, <3>1 DEF ToldMetres, ToldSecs
  <2> QED
    BY <2>2, <2>3
<1>4. DOMAIN timed = 1 .. n
  BY <1>1 DEF Timed
<1> HIDE DEF timed, n
<1>5. Numbers(WalkMetres(g, w), n) /\ Numbers(WalkSecs(g, w), n) /\ Numbers(FlightSecs(w, f), n - 1)
  <2>1. Numbers(WalkMetres(g, w), n)
    BY <1>1, <1>2 DEF Numbers, WalkMetres, n
  <2>2. Numbers(WalkSecs(g, w), n)
    BY <1>1, <1>2 DEF Numbers, WalkSecs, n
  <2>3. Numbers(FlightSecs(w, f), n - 1)
    <3>1. FlightSecs(w, f) = [j \in 1 .. n - 1 |-> f[j].secs]
      BY DEF FlightSecs, n
    <3>2. \A j \in 1 .. n - 1 : f[j].secs \in Int
      BY <1>1
    <3> QED
      BY <3>1, <3>2 DEF Numbers
  <2> QED
    BY <2>1, <2>2, <2>3
<1>6. n \in Nat /\ n - 1 \in Nat
  BY <1>1
<1>7. PICK a : Adds(WalkMetres(g, w), n, a) /\ a[n] = Sum(WalkMetres(g, w))
  BY <1>5, <1>6, SumAdds
<1>8. PICK e : Adds(WalkSecs(g, w), n, e) /\ e[n] = Sum(WalkSecs(g, w))
  BY <1>5, <1>6, SumAdds
<1>9. PICK h : Adds(FlightSecs(w, f), n - 1, h) /\ h[n - 1] = Sum(FlightSecs(w, f))
  BY <1>5, <1>6, SumAdds
<1>10. FlightsBy(w, n) = n - 1
  BY DEF FlightsBy, n
<1>11. Comes(g, w, f, t, n)
  BY DEF Tells, n
<1>12. Sum(MetresOf(t)) = Sum(WalkMetres(g, w))
  BY <1>7, <1>11 DEF Comes, n
<1>13. Sum(SecsOf(t)) = Sum(WalkSecs(g, w)) + Sum(FlightSecs(w, f))
  <2>1. Sum(SecsOf(t)) = e[n] + h[FlightsBy(w, n)]
    BY <1>8, <1>9, <1>11 DEF Comes, n
  <2> QED
    BY <1>8, <1>9, <1>10, <2>1
<1>14. Metres(timed) = Sum(WalkMetres(g, w))
  <2>1. [k \in DOMAIN timed |-> timed[k].metres] = WalkMetres(g, w)
    BY <1>3, <1>4 DEF WalkMetres, n
  <2> QED
    BY <2>1 DEF Metres
<1>15. Seconds(timed, f) = Sum(WalkSecs(g, w)) + Sum(FlightSecs(w, f))
  <2>1. [k \in DOMAIN timed |-> timed[k].secs] = WalkSecs(g, w)
    BY <1>3, <1>4 DEF WalkSecs, n
  <2>2. [k \in DOMAIN f |-> f[k].secs] = FlightSecs(w, f)
    BY <1>1 DEF FlightSecs, n
  <2> QED
    BY <2>1, <2>2 DEF Seconds
<1>16. Sum(SecsOf(t)) = Seconds(timed, f)
  BY <1>13, <1>15
<1> QED
  BY <1>12, <1>14, <1>16 DEF timed

(* So what is told in the end adds up.                                      *)
LEMMA ToldAddsUp ==
  ASSUME SearchesInv, RoutesInv, FoundInv, RouteInv, GuideInv
  PROVE  GuidanceAddsUp
<1> SUFFICES ASSUME Told PROVE GuidanceAddsUp
  BY DEF GuidanceAddsUp
<1>1. route.stage = "told" /\ route.stage \in Telling
  BY DEF Told, Telling
<1>2. Answered /\ route.walks = Walks /\ route.flights = Flights
  BY <1>1 DEF RouteInv, Measured, Telling
<1>3. PartsTyped(graph, route.walks, route.flights)
  BY <1>2, PartsKnown
<1> DEFINE w == route.walks
           f == route.flights
           n == Len(w)
           t == route.told
           timed == Timed(graph, w)
<1>4. n \in Nat \ {0} /\ DOMAIN w = 1 .. n
  BY <1>3 DEF PartsTyped
<1>5. Tells(graph, w, f, t, n)
  BY <1>1, <1>2 DEF GuideInv, ToldSo
<1>6. \A k \in 1 .. n : {"metres", "secs"} \subseteq DOMAIN w[k]
  <2> DEFINE st == FloorStarts(graph, plan.path)
  <2>1. w = [k \in DOMAIN st |-> WalkOf(graph, plan.path, st, k)]
    BY <1>2, PartsAre DEF Walks
  <2>2. \A k : {"metres", "secs"} \subseteq DOMAIN WalkOf(graph, plan.path, st, k)
    BY DEF WalkOf
  <2> HIDE DEF st, w, n
  <2> SUFFICES ASSUME NEW k \in 1 .. n PROVE {"metres", "secs"} \subseteq DOMAIN w[k]
    OBVIOUS
  <2>3. k \in DOMAIN w
    BY <1>4
  <2>4. w[k] = WalkOf(graph, plan.path, st, k)
    BY <2>1, <2>3
  <2> QED
    BY <2>2, <2>4
<1>7. Sum(MetresOf(t)) = Metres(timed) /\ Sum(SecsOf(t)) = Seconds(timed, f)
  BY <1>3, <1>5, <1>6, TotalsAre
<1>8. t \in Seq(InstructionSet(graph)) /\ Runs(w, t, n) /\ Cardinality(Transits(t)) = n - 1
  BY <1>5 DEF Tells, FlightsBy
<1> HIDE DEF w, f, n, t, timed
<1>9. DOMAIN t = 1 .. Len(t) /\ Len(t) \in Nat
  BY <1>8, LenProperties
<1>10. \A i \in DOMAIN t : t[i].metres >= 0 /\ t[i].secs >= 0
  <2>1. \A i \in 1 .. Len(t) : t[i] \in InstructionSet(graph)
    BY <1>8, ElementOfSeq
  <2> QED
    BY <1>9, <2>1 DEF InstructionSet
<1>11. /\ \A i \in 1 .. Len(t) : t[i].kind = "arrive" <=> i = Len(t)
       /\ {t[i].segment : i \in 1 .. Len(t)} = 1 .. n
       /\ \A i \in 2 .. Len(t) :
            t[i].segment = t[i - 1].segment + (IF t[i - 1].kind = "transit" THEN 1 ELSE 0)
       /\ Len(t) > 0
  <2>1. Len(w) = n /\ n # 0
    BY <1>4 DEF n
  <2>2. \A i \in 1 .. Len(t) : t[i].kind = "arrive" <=> (n = Len(w) /\ i = Len(t))
    BY <1>8 DEF Runs
  <2>3. IF n = 0 THEN Len(t) = 0 ELSE Len(t) > 0
    BY <1>8 DEF Runs
  <2>4. /\ {t[i].segment : i \in 1 .. Len(t)} = 1 .. n
        /\ \A i \in 2 .. Len(t) :
             t[i].segment = t[i - 1].segment + (IF t[i - 1].kind = "transit" THEN 1 ELSE 0)
    BY <1>8 DEF Runs
  <2>5. \A i \in 1 .. Len(t) : t[i].kind = "arrive" <=> i = Len(t)
    BY <2>1, <2>2
  <2>6. Len(t) > 0
    BY <2>1, <2>3, SMTT(30)
  <2> QED
    BY <2>4, <2>5, <2>6, Zenon
<1>12. {i \in DOMAIN t : t[i].kind = "arrive"} = {Len(t)}
  <2>0. Len(t) \in Nat /\ Len(t) > 0
    BY <1>9, <1>11
  <2>1. Len(t) \in 1 .. Len(t)
    BY <2>0
  <2> QED
    BY <1>9, <1>11, <2>1, ZenonT(60)
<1>13. {i \in DOMAIN t : t[i].kind = "transit"} = Transits(t)
  BY <1>9, SMTT(30) DEF Transits
<1>14. {t[i].segment : i \in DOMAIN t} = 1 .. (n - 1) + 1
  <2>1. (n - 1) + 1 = n
    BY <1>4
  <2> QED
    BY <1>9, <1>11, <2>1
<1>15. /\ Sum([i \in DOMAIN t |-> t[i].metres]) = Metres(timed)
       /\ Sum([i \in DOMAIN t |-> t[i].secs]) = Seconds(timed, f)
  BY <1>7 DEF MetresOf, SecsOf
<1>16. /\ Cardinality({i \in DOMAIN t : t[i].kind = "transit"}) = n - 1
       /\ \A i \in 2 .. Len(t) :
            t[i].segment = t[i - 1].segment + (IF t[i - 1].kind = "transit" THEN 1 ELSE 0)
  BY <1>8, <1>11, <1>13
<1> DEFINE untold == {k \in DOMAIN w : ~ Heard(graph, w[k])}
           spoken == [k \in DOMAIN w |-> IF k \in untold
                                         THEN [w[k] EXCEPT !.metres = 0, !.secs = 0] ELSE w[k]]
           Ends(k) == {graph.node[w[k].nodes[1]], graph.node[w[k].nodes[Len(w[k].nodes)]]}
           back == {k \in DOMAIN w : \A a, b \in Ends(k) : Pixels(a, b) = 0}
<1>18. timed = spoken
  BY DEF timed, Timed
<1>19. untold \in SUBSET back
  <2> SUFFICES ASSUME NEW k \in DOMAIN w, ~ Heard(graph, w[k])
               PROVE  \A a, b \in Ends(k) : Pixels(a, b) = 0
    OBVIOUS
  <2> DEFINE s == w[k].nodes
  <2>1. k \in 1 .. Len(w)
    BY <1>4 DEF n
  <2>2. PartsTyped(graph, w, f) /\ WellFormed(graph)
    BY <1>2, <1>3, PartsKnown DEF w, f
  <2>3. Line(graph, s)
    BY <2>1, <2>2 DEF PartsTyped
  <2>4. Spot(graph, s[1]) = Spot(graph, s[Len(s)])
    BY <2>1, <2>2, UnheardReturns
  <2> HIDE DEF s
  <2>5. s[1] \in DOMAIN graph.node /\ s[Len(s)] \in DOMAIN graph.node
    <3>1. /\ s \in Seq(DOMAIN graph.node) /\ 1 \in 1 .. Len(s) /\ Len(s) \in 1 .. Len(s)
      BY <2>3 DEF Line
    <3> QED
      BY <3>1, ElementOfSeq
  <2>6. \A x, y \in {s[1], s[Len(s)]} : Pixels(graph.node[x], graph.node[y]) = 0
    BY <2>2, <2>4, <2>5, PixelsApart
  <2>7. Ends(k) = {graph.node[x] : x \in {s[1], s[Len(s)]}}
    BY DEF s
  <2> QED
    BY <2>6, <2>7
<1>20. \E u \in SUBSET back :
         /\ Sum([i \in DOMAIN t |-> t[i].metres]) =
              Metres([k \in DOMAIN w |-> IF k \in u THEN [w[k] EXCEPT !.metres = 0, !.secs = 0]
                                         ELSE w[k]])
         /\ Sum([i \in DOMAIN t |-> t[i].secs]) =
              Seconds([k \in DOMAIN w |-> IF k \in u THEN [w[k] EXCEPT !.metres = 0, !.secs = 0]
                                          ELSE w[k]], f)
  BY <1>15, <1>18, <1>19
<1> QED
  BY <1>10, <1>12, <1>14, <1>16, <1>20, ZenonT(60) DEF GuidanceAddsUp, w, f, n, t

(***************************************************************************)
(* Result                                                                   *)
(***************************************************************************)

(* instructions.js: the instructions tell the whole route once, each change  *)
(* of floor in its place, and their distances and times add up to its        *)
(* totals, save those of walks that end where they began and whose way out   *)
(* and back was smoothed away.                                              *)
THEOREM InstructionsAddUp ==
  WSpec => []GuidanceAddsUp
<1>1. WInit => FoundInv /\ RouteInv /\ GuideInv
  BY DEF WInit, Init, NoReply, FoundInv, Live, RouteInv, GuideInv, NoRoute, Telling
<1>2. SearchesInv /\ RoutesInv /\ FoundInv /\ [WNext]_allVars => FoundInv'
  BY FoundNext
<1>3. RouteInv /\ [WNext]_allVars => RouteInv'
  BY RouteNext
<1>4. SearchesInv /\ RoutesInv /\ FoundInv /\ RouteInv /\ GuideInv /\ [WNext]_allVars => GuideInv'
  BY GuideNext
<1>5. SearchesInv /\ RoutesInv /\ FoundInv /\ RouteInv /\ GuideInv => GuidanceAddsUp
  BY ToldAddsUp
<1> QED
  BY <1>1, <1>2, <1>3, <1>4, <1>5, SearchesAreSound, RoutesAreDrawn, PTL DEF WSpec

=============================================================================
