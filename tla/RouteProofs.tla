-------------------------- MODULE RouteProofs -------------------------------
(***************************************************************************)
(* Proofs about the planner (Routing.tla, Planning.tla, Wayfinding.tla): that *)
(* searches settle nodes at their least cost, that a cached safety field      *)
(* answers a request as its own would, that no route crosses what is closed,  *)
(* that nobody is told there is no way out while there is one, and that       *)
(* ordering the stops never makes a tour longer.                             *)
(***************************************************************************)
EXTENDS Wayfinding, FiniteSetTheorems, SequenceTheorems, FunctionTheorems,
        WellFoundedInduction, TLAPS

(***************************************************************************)
(* Recursion                                                                *)
(***************************************************************************)

(* A nonempty set of naturals has a least element.                         *)
LEMMA LeastNatural ==
  ASSUME NEW S \in SUBSET Nat, S # {}
  PROVE  \E k \in S : \A l \in S : k <= l
<1> DEFINE R == OpToRel(<, Nat)
<1>1. IsWellFoundedOn(R, Nat)
  BY NatLessThanWellFounded
<1>2. \A x, y \in Nat : x < y => <<x, y>> \in R
  BY DEF OpToRel
<1>3. PICK x \in S : \A y \in S : ~ (<<y, x>> \in R)
  <2> HIDE DEF R
  <2> QED
    BY <1>1, WFMin
<1>4. \A y \in S : ~ (y < x)
  <2> HIDE DEF R
  <2> QED
    BY <1>2, <1>3
<1> QED
  BY <1>4

(* What holds at 0 and goes from each number to the next holds up to N.     *)
LEMMA UpTo ==
  ASSUME NEW N \in Nat, NEW G \in SUBSET (0 .. N), 0 \in G,
         \A k \in 1 .. N : k - 1 \in G => k \in G
  PROVE  G = 0 .. N
<1> SUFFICES ASSUME (0 .. N) \ G # {}
             PROVE  FALSE
  OBVIOUS
<1> DEFINE M == (0 .. N) \ G
<1>1. PICK k \in M : \A l \in M : k <= l
  <2>1. M \in SUBSET Nat /\ M # {}
    OBVIOUS
  <2> HIDE DEF M
  <2> QED
    BY <2>1, LeastNatural
<1>2. k \in 1 .. N /\ k - 1 \in 0 .. N
  BY <1>1
<1>3. k - 1 \in G
  BY <1>1, <1>2
<1> QED
  BY <1>1, <1>2, <1>3

(* g is the function of 0 .. N that begins with b and goes on by F.         *)
Iterates(g, N, T, b, F) ==
  g \in [0 .. N -> T] /\ g[0] = b /\ \A k \in 1 .. N : g[k] = F[k][g[k - 1]]

IsStep(N, T, F) == F \in [1 .. N -> [T -> T]]

(* A step function can be iterated N times from any start.                  *)
LEMMA IterationExists ==
  ASSUME NEW N \in Nat, NEW T, NEW b \in T, NEW F, IsStep(N, T, F)
  PROVE  \E g : Iterates(g, N, T, b, F)
<1> DEFINE Good(n) == \E g : Iterates(g, n, T, b, F)
           G == {n \in 0 .. N : Good(n)}
<1>1. 0 \in G
  <2> DEFINE g == [k \in 0 .. 0 |-> b]
  <2>1. Iterates(g, 0, T, b, F)
    BY DEF Iterates
  <2>2. Good(0)
    <3> HIDE DEF g
    <3> QED
      BY <2>1
  <2> HIDE DEF Good
  <2> QED
    BY <2>2
<1>2. ASSUME NEW n \in 1 .. N, n - 1 \in G
      PROVE  n \in G
  <2>1. PICK g : Iterates(g, n - 1, T, b, F)
    BY <1>2
  <2> DEFINE f == [k \in 0 .. n |-> IF k = n THEN F[n][g[n - 1]] ELSE g[k]]
  <2>2. g[n - 1] \in T /\ F[n] \in [T -> T] /\ g \in [0 .. n - 1 -> T]
    BY <2>1 DEF Iterates, IsStep
  <2>3. f \in [0 .. n -> T] /\ f[0] = b
    BY <2>1, <2>2 DEF Iterates
  <2>4. ASSUME NEW k \in 1 .. n
        PROVE  f[k] = F[k][f[k - 1]]
    <3>1. f[k - 1] = g[k - 1]
      OBVIOUS
    <3>2. k # n => f[k] = g[k] /\ k \in 1 .. n - 1
      OBVIOUS
    <3> QED
      BY <2>1, <3>1, <3>2 DEF Iterates
  <2>5. Iterates(f, n, T, b, F)
    <3> HIDE DEF f
    <3> QED
      BY <2>3, <2>4 DEF Iterates
  <2>6. Good(n)
    <3> HIDE DEF f
    <3> QED
      BY <2>5
  <2> HIDE DEF Good
  <2> QED
    BY <2>6
<1>3. G = 0 .. N
  <2> HIDE DEF G
  <2>1. G \in SUBSET (0 .. N)
    BY DEF G
  <2> QED
    BY <1>1, <1>2, <2>1, UpTo
<1>4. Good(N)
  <2> HIDE DEF Good
  <2> QED
    BY <1>3
<1> QED
  BY <1>4

(***************************************************************************)
(* The reference search: over nodes V and hops H of costs w, round by round   *)
(***************************************************************************)

(* A set of natural numbers has a least one.                                *)
LEMMA MinOf ==
  ASSUME NEW S \in SUBSET Nat, S # {}
  PROVE  Min(S) \in S /\ \A x \in S : Min(S) <= x
<1>1. \E k \in S : \A l \in S : k <= l
  BY LeastNatural
<1> QED
  BY <1>1, Zenon DEF Min

Network(V, H, w) ==
  IsFiniteSet(V) /\ \A h \in H : h.from \in V /\ h.to \in V /\ w[h] \in Nat

(* Costs of some of the nodes.                                             *)
Costs(V) == UNION {[D -> Nat] : D \in SUBSET V}

(* The costs to a node by way of the hops in H, from what the costs b are.  *)
WaysTo(H, w, b, n) == {b[h.from] + w[h] : h \in {x \in H : x.to = n /\ x.from \in DOMAIN b}}
Known(b, n) == IF n \in DOMAIN b THEN {b[n]} ELSE {}
Offers(H, w, b, n) == WaysTo(H, w, b, n) \cup Known(b, n)
Round(V, H, w, b) == [n \in {m \in V : Offers(H, w, b, m) # {}} |-> Min(Offers(H, w, b, n))]

Rounds(V, H, w, S, B) ==
  B = [k \in 0 .. Cardinality(V) |-> IF k = 0 THEN [n \in S |-> 0] ELSE Round(V, H, w, B[k - 1])]

(* What is offered is a natural number.                                     *)
LEMMA OffersTyped ==
  ASSUME NEW V, NEW H, NEW w, Network(V, H, w), NEW b \in Costs(V), NEW m
  PROVE  /\ Offers(H, w, b, m) \in SUBSET Nat
         /\ DOMAIN b \in SUBSET V /\ b \in [DOMAIN b -> Nat]
<1>1. PICK D \in SUBSET V : b \in [D -> Nat]
  BY DEF Costs
<1> QED
  BY <1>1 DEF WaysTo, Known, Offers, Network

(* A round makes costs of costs.                                            *)
LEMMA RoundTyped ==
  ASSUME NEW V, NEW H, NEW w, Network(V, H, w), NEW b \in Costs(V)
  PROVE  Round(V, H, w, b) \in Costs(V)
<1> DEFINE E == {m \in V : Offers(H, w, b, m) # {}}
<1>2. ASSUME NEW m \in E PROVE Min(Offers(H, w, b, m)) \in Nat
  BY OffersTyped, MinOf
<1>4. Round(V, H, w, b) \in [E -> Nat]
  BY <1>2 DEF Round
<1>5. E \in SUBSET V
  OBVIOUS
<1> HIDE DEF E
<1> QED
  BY <1>4, <1>5 DEF Costs

(* The rounds of the reference search are well defined.                     *)
LEMMA RoundsExist ==
  ASSUME NEW V, NEW H, NEW w, Network(V, H, w), NEW S \in SUBSET V
  PROVE  \E B : Rounds(V, H, w, S, B)
<1> DEFINE b0 == [n \in S |-> 0]
           N == Cardinality(V)
           F == [k \in 1 .. N |-> [b \in Costs(V) |-> Round(V, H, w, b)]]
<1>1. N \in Nat
  BY FS_CardinalityType DEF Network
<1>2. b0 \in Costs(V)
  BY DEF Costs
<1>3. IsStep(N, Costs(V), F)
  BY RoundTyped DEF IsStep
<1>4. PICK g : Iterates(g, N, Costs(V), b0, F)
  <2> HIDE DEF b0, F, N
  <2> QED
    BY <1>1, <1>2, <1>3, IterationExists
<1>5. \A k \in 1 .. N : F[k][g[k - 1]] = Round(V, H, w, g[k - 1])
  BY <1>1, <1>4 DEF Iterates
<1>6. Rounds(V, H, w, S, g)
  <2>1. ASSUME NEW k \in 0 .. N
        PROVE  g[k] = IF k = 0 THEN b0 ELSE Round(V, H, w, g[k - 1])
    <3> HIDE DEF F
    <3> QED
      BY <1>1, <1>4, <1>5 DEF Iterates
  <2> HIDE DEF F
  <2> QED
    BY <1>4, <2>1 DEF Rounds, Iterates
<1> QED
  BY <1>6

(* What the rounds compute.                                                *)
LEMMA RoundsAre ==
  ASSUME NEW V, NEW H, NEW w, Network(V, H, w), NEW S \in SUBSET V, NEW B, Rounds(V, H, w, S, B)
  PROVE  /\ B[0] = [n \in S |-> 0]
         /\ \A k \in 0 .. Cardinality(V) : B[k] \in Costs(V)
         /\ \A k \in 1 .. Cardinality(V) : B[k] = Round(V, H, w, B[k - 1])
<1> DEFINE N == Cardinality(V)
           G == {k \in 0 .. N : B[k] \in Costs(V)}
<1>1. N \in Nat
  BY FS_CardinalityType DEF Network
<1>2. B[0] = [n \in S |-> 0] /\ \A k \in 1 .. N : B[k] = Round(V, H, w, B[k - 1])
  BY <1>1 DEF Rounds
<1>3. 0 \in G
  BY <1>1, <1>2 DEF Costs
<1>4. ASSUME NEW k \in 1 .. N, k - 1 \in G PROVE k \in G
  <2>1. B[k] = Round(V, H, w, B[k - 1])
    BY <1>2
  <2>2. B[k - 1] \in Costs(V)
    BY <1>4
  <2> QED
    BY <1>1, <2>1, <2>2, RoundTyped
<1>5. G = 0 .. N
  <2>1. G \in SUBSET (0 .. N)
    OBVIOUS
  <2> HIDE DEF G, N
  <2> QED
    BY <1>1, <1>3, <1>4, <2>1, UpTo
<1> QED
  BY <1>1, <1>2, <1>5

(* One round: no cost but by a hop, none above what was known or what a hop *)
(* offers.                                                                 *)
LEMMA RoundIs ==
  ASSUME NEW V, NEW H, NEW w, Network(V, H, w), NEW b \in Costs(V),
         NEW c, c = Round(V, H, w, b)
  PROVE  /\ \A n \in DOMAIN b : n \in DOMAIN c /\ c[n] <= b[n]
         /\ \A h \in H : h.from \in DOMAIN b =>
              h.to \in DOMAIN c /\ c[h.to] <= b[h.from] + w[h]
         /\ \A n \in DOMAIN c : \/ n \in DOMAIN b /\ c[n] = b[n]
                                \/ \E h \in H : /\ h.to = n /\ h.from \in DOMAIN b
                                                /\ c[n] = b[h.from] + w[h]
<1>1. DOMAIN c = {m \in V : Offers(H, w, b, m) # {}}
  BY DEF Round
<1>2. ASSUME NEW n \in DOMAIN c
      PROVE  c[n] \in Offers(H, w, b, n) /\ \A x \in Offers(H, w, b, n) : c[n] <= x
  <2>1. c[n] = Min(Offers(H, w, b, n)) /\ Offers(H, w, b, n) # {}
    BY <1>1 DEF Round
  <2>2. Offers(H, w, b, n) \in SUBSET Nat
    BY OffersTyped
  <2> QED
    BY <2>1, <2>2, MinOf
<1>3. DOMAIN b \in SUBSET V
  BY OffersTyped
<1>4. ASSUME NEW n \in DOMAIN b PROVE n \in DOMAIN c /\ c[n] <= b[n]
  <2>1. b[n] \in Offers(H, w, b, n)
    BY DEF Offers, Known
  <2> QED
    BY <1>1, <1>2, <1>3, <2>1
<1>5. ASSUME NEW h \in H, h.from \in DOMAIN b PROVE h.to \in DOMAIN c /\ c[h.to] <= b[h.from] + w[h]
  <2>1. b[h.from] + w[h] \in Offers(H, w, b, h.to) /\ h.to \in V
    BY <1>5 DEF Offers, WaysTo, Network
  <2> QED
    BY <1>1, <1>2, <2>1
<1>6. ASSUME NEW n \in DOMAIN c
      PROVE  \/ n \in DOMAIN b /\ c[n] = b[n]
             \/ \E h \in H : /\ h.to = n /\ h.from \in DOMAIN b /\ c[n] = b[h.from] + w[h]
  BY <1>2 DEF Offers, WaysTo, Known
<1> QED
  BY <1>4, <1>5, <1>6

(* The round after the k-th.                                                *)
LEMMA RoundAfter ==
  ASSUME NEW V, NEW H, NEW w, Network(V, H, w), NEW S \in SUBSET V, NEW B, Rounds(V, H, w, S, B),
         NEW k \in Nat, k + 1 <= Cardinality(V)
  PROVE  B[k] \in Costs(V) /\ B[k + 1] \in Costs(V) /\ B[k + 1] = Round(V, H, w, B[k])
<1>1. Cardinality(V) \in Nat
  BY FS_CardinalityType DEF Network
<1>2. k + 1 \in 1 .. Cardinality(V) /\ k \in 0 .. Cardinality(V) /\ k + 1 \in 0 .. Cardinality(V)
      /\ (k + 1) - 1 = k
  BY <1>1
<1>3. B[k] \in Costs(V) /\ B[k + 1] \in Costs(V)
  BY <1>2, RoundsAre
<1>4. B[k + 1] = Round(V, H, w, B[(k + 1) - 1])
  BY <1>2 DEF Rounds
<1> QED
  BY <1>2, <1>3, <1>4

(* The rounds begin with the sources alone and end as costs.                *)
LEMMA FirstAndLastRound ==
  ASSUME NEW V, NEW H, NEW w, Network(V, H, w), NEW S \in SUBSET V, NEW B, Rounds(V, H, w, S, B)
  PROVE  B[0] = [n \in S |-> 0] /\ B[Cardinality(V)] \in Costs(V)
<1>1. Cardinality(V) \in Nat
  BY FS_CardinalityType DEF Network
<1>2. \A k \in 0 .. Cardinality(V) : B[k] \in Costs(V)
  BY RoundsAre
<1>3. 0 \in 0 .. Cardinality(V) /\ Cardinality(V) \in 0 .. Cardinality(V)
  BY <1>1
<1> QED
  BY <1>2, <1>3 DEF Rounds

(* Cheapest is what the last round says.                                   *)
LEMMA CheapestRounds ==
  ASSUME NEW H, NEW w, Network(DOMAIN graph.node, H, w), \A h \in H : Cost(h) = w[h],
         NEW S \in SUBSET DOMAIN graph.node
  PROVE  \E B : /\ Rounds(DOMAIN graph.node, H, w, S, B)
                /\ Cheapest(H, S) = B[Cardinality(DOMAIN graph.node)]
<1> DEFINE V == DOMAIN graph.node
           B == CHOOSE g : Rounds(V, H, w, S, g)
           C(b) == [n \in {m \in V : {b[h.from] + Cost(h) : h \in {x \in H : x.to = m /\ x.from \in DOMAIN b}}
                                      \cup Known(b, m) # {}} |->
                      Min({b[h.from] + Cost(h) : h \in {x \in H : x.to = n /\ x.from \in DOMAIN b}}
                           \cup Known(b, n))]
           R(g) == g = [k \in 0 .. Cardinality(V) |-> IF k = 0 THEN [n \in S |-> 0] ELSE C(g[k - 1])]
<1>1. Rounds(V, H, w, S, B)
  BY RoundsExist
<1>2. ASSUME NEW b PROVE C(b) = Round(V, H, w, b)
  <2>1. \A n : {b[h.from] + Cost(h) : h \in {x \in H : x.to = n /\ x.from \in DOMAIN b}} = WaysTo(H, w, b, n)
    BY DEF WaysTo
  <2> QED
    BY <2>1 DEF Round, Offers
<1>3. \A g : R(g) <=> Rounds(V, H, w, S, g)
  <2> HIDE DEF C
  <2> QED
    BY <1>2 DEF Rounds
<1>4. Cheapest(H, S) = (CHOOSE g : R(g))[Cardinality(V)]
  BY DEF Cheapest, Known
<1>5. (CHOOSE g : R(g)) = B
  <2> HIDE DEF R
  <2> QED
    BY <1>3
<1> QED
  BY <1>1, <1>4, <1>5

(***************************************************************************)
(* The search: distances d, predecessors p, settled nodes s and heap e       *)
(***************************************************************************)

Entry(c, n) == [priority |-> c, node |-> n]

(* Every node found and not settled waits in the heap at its distance; no   *)
(* entry is below a settled distance; hops out of settled nodes are         *)
(* relaxed; and each distance was come by over a hop from a settled node.    *)
Searching(V, H, w, S, d, p, s, e) ==
  /\ d \in Costs(V) /\ s \subseteq DOMAIN d
  /\ \A n \in S : n \in DOMAIN d /\ d[n] = 0
  /\ \A i \in e : /\ i = Entry(i.priority, i.node) /\ i.node \in DOMAIN d
                  /\ i.priority \in Nat /\ d[i.node] <= i.priority
  /\ \A n \in DOMAIN d \ s : Entry(d[n], n) \in e
  /\ \A n \in s, i \in e : d[n] <= i.priority
  /\ \A h \in H : h.from \in s => h.to \in DOMAIN d /\ d[h.to] <= d[h.from] + w[h]
  /\ DOMAIN p = DOMAIN d \ S
  /\ \A n \in DOMAIN p : p[n] \in s /\ \E h \in H : h.from = p[n] /\ h.to = n

(* No more rounds than there are settled nodes are needed for the distances.*)
Within(V, H, w, S, d, s) ==
  \A B : Rounds(V, H, w, S, B) =>
    \A n \in DOMAIN d : n \in DOMAIN B[Cardinality(s)] /\ B[Cardinality(s)][n] <= d[n]

Begun(S, d, p, s, e) ==
  /\ d = [n \in S |-> 0] /\ p = Empty /\ s = {}
  /\ e = {[priority |-> 0, node |-> n] : n \in S}

RelaxedTo(H, w, d, p, s, e, n, c, d1, p1, e1) ==
  LET out == {h \in H : h.from = n /\ h.to \notin s \cup {n}}
      Candidate(m) == c + Min({w[h] : h \in {k \in out : k.to = m}})
      better == {m \in {h.to : h \in out} : m \in DOMAIN d => Candidate(m) < d[m]}
  IN /\ d1 = [m \in DOMAIN d \cup better |-> IF m \in better THEN Candidate(m) ELSE d[m]]
     /\ p1 = [m \in DOMAIN p \cup better |-> IF m \in better THEN n ELSE p[m]]
     /\ e1 = (e \ {[priority |-> c, node |-> n]})
             \cup {[priority |-> Candidate(m), node |-> m] : m \in better}

(* A search that has just begun keeps the invariant of searching.           *)
LEMMA SearchBegins ==
  ASSUME NEW V, NEW H, NEW w, Network(V, H, w), NEW S \in SUBSET V,
         NEW d, NEW p, NEW s, NEW e, Begun(S, d, p, s, e)
  PROVE  Searching(V, H, w, S, d, p, s, e) /\ Within(V, H, w, S, d, s)
<1>1. d \in Costs(V)
  BY DEF Begun, Costs
<1>2. DOMAIN p = {}
  BY DEF Begun, Empty
<1>3. Searching(V, H, w, S, d, p, s, e)
  <2>1. DOMAIN d = S /\ s = {} /\ \A n \in S : d[n] = 0
    BY DEF Begun
  <2>2. \A i \in e : /\ i = Entry(i.priority, i.node) /\ i.node \in S /\ i.priority = 0
    BY DEF Begun, Entry
  <2>3. \A n \in S : Entry(d[n], n) \in e
    BY <2>1 DEF Begun, Entry
  <2> QED
    BY <1>1, <1>2, <2>1, <2>2, <2>3 DEF Searching
<1>4. Cardinality(s) = 0
  BY FS_EmptySet DEF Begun
<1>5. Within(V, H, w, S, d, s)
  BY <1>4, RoundsAre DEF Within, Begun
<1> QED
  BY <1>3, <1>5

(* The popped node is settled at its distance.                             *)
LEMMA PoppedAtDistance ==
  ASSUME NEW V, NEW H, NEW w, NEW S, NEW d, NEW p, NEW s, NEW e,
         Searching(V, H, w, S, d, p, s, e),
         NEW i \in e, \A j \in e : i.priority <= j.priority, i.node \notin s
  PROVE  i.node \in DOMAIN d /\ i.priority = d[i.node] /\ i.priority \in Nat
         /\ i = [priority |-> i.priority, node |-> i.node]
<1>1. Entry(d[i.node], i.node) \in e
  BY DEF Searching
<1>2. i.priority <= d[i.node]
  BY <1>1 DEF Entry
<1>3. d[i.node] \in Nat
  BY DEF Searching, Costs
<1> QED
  BY <1>2, <1>3 DEF Searching, Entry

(* One node more settled, one round further.                               *)
LEMMA RoundOfSettled ==
  ASSUME NEW V, NEW H, NEW w, Network(V, H, w), NEW S \in SUBSET V, NEW B, Rounds(V, H, w, S, B),
         NEW s \in SUBSET V, NEW n \in V, n \notin s
  PROVE  /\ B[Cardinality(s)] \in Costs(V) /\ B[Cardinality(s \cup {n})] \in Costs(V)
         /\ B[Cardinality(s \cup {n})] = Round(V, H, w, B[Cardinality(s)])
<1>1. IsFiniteSet(V) /\ s \cup {n} \in SUBSET V
  BY DEF Network
<1>2. /\ Cardinality(s) \in Nat /\ Cardinality(s \cup {n}) = Cardinality(s) + 1
      /\ Cardinality(V) \in Nat /\ Cardinality(s) + 1 <= Cardinality(V)
  <2>1. IsFiniteSet(s)
    BY <1>1, FS_Subset
  <2>2. Cardinality(s \cup {n}) = Cardinality(s) + 1 /\ Cardinality(s) \in Nat
    BY <2>1, FS_AddElement, FS_CardinalityType
  <2>3. Cardinality(s \cup {n}) <= Cardinality(V) /\ Cardinality(V) \in Nat
    BY <1>1, FS_Subset, FS_CardinalityType
  <2> QED
    BY <2>2, <2>3
<1> DEFINE k == Cardinality(s)
<1>3. k \in Nat /\ k + 1 <= Cardinality(V) /\ Cardinality(s \cup {n}) = k + 1
  BY <1>2
<1> HIDE DEF k
<1>4. B[k] \in Costs(V) /\ B[k + 1] \in Costs(V) /\ B[k + 1] = Round(V, H, w, B[k])
  BY <1>3, RoundAfter
<1> QED
  BY <1>3, <1>4 DEF k

(* Settling the least entry of the heap keeps it.                           *)
LEMMA SearchSettles ==
  ASSUME NEW V, NEW H, NEW w, Network(V, H, w), NEW S \in SUBSET V,
         NEW d, NEW p, NEW s, NEW e, NEW d1, NEW p1, NEW e1,
         Searching(V, H, w, S, d, p, s, e), Within(V, H, w, S, d, s),
         NEW i \in e, \A j \in e : i.priority <= j.priority, i.node \notin s,
         RelaxedTo(H, w, d, p, s, e, i.node, i.priority, d1, p1, e1)
  PROVE  /\ Searching(V, H, w, S, d1, p1, s \cup {i.node}, e1)
         /\ Within(V, H, w, S, d1, s \cup {i.node})
<1> DEFINE n == i.node
           c == i.priority
           t == s \cup {n}
           out == {h \in H : h.from = n /\ h.to \notin s \cup {n}}
           Prices(m) == {w[h] : h \in {k \in out : k.to = m}}
           Candidate(m) == c + Min(Prices(m))
           better == {m \in {h.to : h \in out} : m \in DOMAIN d => Candidate(m) < d[m]}
<1>1. /\ n \in DOMAIN d /\ c = d[n] /\ c \in Nat /\ i = [priority |-> c, node |-> n]
  BY PoppedAtDistance
<1>2. /\ d1 = [m \in DOMAIN d \cup better |-> IF m \in better THEN Candidate(m) ELSE d[m]]
      /\ p1 = [m \in DOMAIN p \cup better |-> IF m \in better THEN n ELSE p[m]]
      /\ e1 = (e \ {[priority |-> c, node |-> n]})
             \cup {[priority |-> Candidate(m), node |-> m] : m \in better}
  BY DEF RelaxedTo
<1>3. ASSUME NEW m \in {h.to : h \in out}
      PROVE  /\ Candidate(m) \in Nat /\ c <= Candidate(m) /\ m \in V /\ m \notin t
             /\ \E h \in out : h.to = m /\ Candidate(m) = c + w[h]
             /\ \A h \in out : h.to = m => Candidate(m) <= c + w[h]
  <2>1. Prices(m) \in SUBSET Nat /\ Prices(m) # {}
    BY DEF Network
  <2>2. Min(Prices(m)) \in Prices(m) /\ \A x \in Prices(m) : Min(Prices(m)) <= x
    BY <2>1, MinOf
  <2>3. \A h \in out : h.to = m => w[h] \in Prices(m)
    OBVIOUS
  <2>4. PICK h \in out : h.to = m /\ Min(Prices(m)) = w[h]
    BY <2>2
  <2>5. Min(Prices(m)) \in Nat /\ \A h1 \in out : h1.to = m => Min(Prices(m)) <= w[h1] /\ w[h1] \in Nat
    BY <2>1, <2>2, <2>3
  <2> HIDE DEF Prices
  <2>6. m \in V /\ m \notin t
    BY DEF Network
  <2> QED
    BY <1>1, <2>4, <2>5, <2>6
<1>4. /\ d \in [DOMAIN d -> Nat] /\ DOMAIN d \in SUBSET V
  BY DEF Searching, Costs
<1>5. better \in SUBSET V /\ \A m \in better : m \notin t /\ Candidate(m) \in Nat /\ c <= Candidate(m)
  BY <1>3
<1> HIDE DEF out, Candidate
<1>6. /\ DOMAIN d1 = DOMAIN d \cup better /\ d1 \in [DOMAIN d1 -> Nat] /\ DOMAIN d1 \in SUBSET V
      /\ \A m \in better : d1[m] = Candidate(m)
      /\ \A m \in DOMAIN d \ better : d1[m] = d[m]
      /\ \A m \in DOMAIN d : d1[m] <= d[m]
  <2>1. \A m \in better : m \in DOMAIN d => Candidate(m) < d[m]
    OBVIOUS
  <2> HIDE DEF better
  <2> QED
    BY <1>2, <1>4, <1>5, <2>1
<1>7. DOMAIN p1 = DOMAIN p \cup better /\ \A m \in DOMAIN p1 : p1[m] = IF m \in better THEN n ELSE p[m]
  <2> HIDE DEF better
  <2> QED
    BY <1>2
<1>8. better \cap S = {}
  <2>1. \A m \in S : m \in DOMAIN d /\ d[m] = 0
    BY DEF Searching
  <2> QED
    BY <1>5, <2>1
<1>9. ASSUME NEW m \in better PROVE \E h \in H : h.from = n /\ h.to = m /\ d1[m] = c + w[h]
  <2>1. m \in {h.to : h \in out}
    OBVIOUS
  <2>2. PICK h \in out : h.to = m /\ Candidate(m) = c + w[h]
    BY <1>3, <2>1
  <2> QED
    BY <1>6, <2>2 DEF out
<1>10. \A m \in t : m \in DOMAIN d /\ m \notin better /\ d1[m] = d[m] /\ d[m] <= c
  <2>1. \A m \in s : m \in DOMAIN d /\ d[m] <= c
    BY DEF Searching
  <2> HIDE DEF better
  <2> QED
    BY <1>1, <1>4, <1>5, <1>6, <2>1
<1>11. ASSUME NEW h \in H, h.from \in t
       PROVE  h.to \in DOMAIN d1 /\ d1[h.to] <= d1[h.from] + w[h]
  <2>1. w[h] \in Nat
    BY DEF Network
  <2>2. CASE h.from \in s
    <3>1. h.to \in DOMAIN d /\ d[h.to] <= d[h.from] + w[h]
      BY <2>2 DEF Searching
    <3>2. d1[h.to] <= d[h.to] /\ d1[h.from] = d[h.from] /\ h.from \in DOMAIN d1 /\ h.to \in DOMAIN d1
      BY <1>6, <1>10, <2>2, <3>1
    <3> HIDE DEF better
    <3> QED
      BY <1>4, <1>6, <2>1, <3>1, <3>2
  <2>3. CASE h.from = n /\ h.to \in t
    <3> HIDE DEF better
    <3> QED
      BY <1>1, <1>4, <1>6, <1>10, <2>1, <2>3
  <2>4. CASE h.from = n /\ h.to \notin t
    <3>1. h \in out
      BY <2>4 DEF out
    <3>2. Candidate(h.to) <= c + w[h] /\ Candidate(h.to) \in Nat
      BY <1>3, <3>1
    <3>3. d1[n] = c
      BY <1>1, <1>10
    <3>4. CASE h.to \in better
      BY <1>6, <2>4, <3>2, <3>3, <3>4
    <3>5. CASE h.to \notin better
      <4>1. h.to \in DOMAIN d /\ ~(Candidate(h.to) < d[h.to])
        BY <3>1, <3>5
      <4>2. d1[h.to] = d[h.to] /\ h.to \in DOMAIN d1
        BY <1>6, <3>5, <4>1
      <4> HIDE DEF better
      <4> QED
        BY <1>1, <1>4, <2>1, <2>4, <3>2, <3>3, <4>1, <4>2
    <3> QED
      BY <3>4, <3>5
  <2> QED
    BY <1>11, <2>2, <2>3, <2>4
<1>12. ASSUME NEW j \in e1
       PROVE  /\ j = Entry(j.priority, j.node) /\ j.node \in DOMAIN d1
              /\ j.priority \in Nat /\ d1[j.node] <= j.priority /\ c <= j.priority
  <2>1. CASE j \in e
    <3>1. /\ j = Entry(j.priority, j.node) /\ j.node \in DOMAIN d
          /\ j.priority \in Nat /\ d[j.node] <= j.priority /\ c <= j.priority
      BY <2>1 DEF Searching
    <3> HIDE DEF better
    <3> QED
      BY <1>4, <1>6, <3>1
  <2>2. CASE j \notin e
    <3>1. PICK m \in better : j = [priority |-> Candidate(m), node |-> m]
      BY <1>2, <2>2
    <3> QED
      BY <1>5, <1>6, <3>1 DEF Entry
  <2> QED
    BY <2>1, <2>2
<1>13. ASSUME NEW m \in DOMAIN d1 \ t PROVE Entry(d1[m], m) \in e1
  <2>1. CASE m \in better
    BY <1>2, <1>6, <2>1 DEF Entry
  <2>2. CASE m \notin better
    <3>1. m \in DOMAIN d \ s /\ m # n /\ d1[m] = d[m]
      BY <1>6, <2>2
    <3>2. Entry(d[m], m) \in e
      BY <3>1 DEF Searching
    <3>3. Entry(d[m], m) # [priority |-> c, node |-> n]
      BY <3>1 DEF Entry
    <3> QED
      BY <1>2, <3>1, <3>2, <3>3
  <2> QED
    BY <2>1, <2>2
<1>14. Searching(V, H, w, S, d1, p1, t, e1)
  <2>1. d1 \in Costs(V) /\ t \subseteq DOMAIN d1
    <3> HIDE DEF better
    <3> QED
      BY <1>6, <1>10 DEF Costs
  <2>2. \A m \in S : m \in DOMAIN d1 /\ d1[m] = 0
    BY <1>6, <1>8 DEF Searching
  <2>3. \A m \in t, j \in e1 : d1[m] <= j.priority
    <3> HIDE DEF better
    <3> QED
      BY <1>1, <1>4, <1>10, <1>12
  <2>4. DOMAIN p1 = DOMAIN d1 \ S
    <3> HIDE DEF better
    <3> QED
      BY <1>6, <1>7, <1>8 DEF Searching
  <2>5. ASSUME NEW m \in DOMAIN p1 PROVE p1[m] \in t /\ \E h \in H : h.from = p1[m] /\ h.to = m
    <3>1. CASE m \in better
      <4>1. p1[m] = n
        BY <1>7, <3>1
      <4> QED
        BY <1>9, <3>1, <4>1
    <3>2. CASE m \notin better
      <4>1. m \in DOMAIN p /\ p1[m] = p[m]
        BY <1>7, <3>2
      <4> QED
        BY <4>1 DEF Searching
    <3> QED
      BY <3>1, <3>2
  <2> HIDE DEF better, t
  <2> QED
    BY <1>11, <1>12, <1>13, <2>1, <2>2, <2>3, <2>4, <2>5 DEF Searching
<1>15. Within(V, H, w, S, d1, t)
  <2> SUFFICES ASSUME NEW B, Rounds(V, H, w, S, B), NEW m \in DOMAIN d1
               PROVE  m \in DOMAIN B[Cardinality(t)] /\ B[Cardinality(t)][m] <= d1[m]
    BY DEF Within
  <2> DEFINE k == Cardinality(s)
           l == Cardinality(t)
  <2>1. s \in SUBSET V /\ n \in V /\ n \notin s
    BY <1>1, <1>4, <1>10
  <2>3. B[k] \in Costs(V) /\ B[l] = Round(V, H, w, B[k]) /\ B[l] \in Costs(V)
    <3>1. \A x \in V \ s : /\ B[Cardinality(s)] \in Costs(V) /\ B[Cardinality(s \cup {x})] \in Costs(V)
                         /\ B[Cardinality(s \cup {x})] = Round(V, H, w, B[Cardinality(s)])
      <4> SUFFICES ASSUME NEW x \in V, x \notin s
                   PROVE  /\ B[Cardinality(s)] \in Costs(V) /\ B[Cardinality(s \cup {x})] \in Costs(V)
                          /\ B[Cardinality(s \cup {x})] = Round(V, H, w, B[Cardinality(s)])
        OBVIOUS
      <4> HIDE DEF n, t, k, l
      <4> QED
        BY <2>1, RoundOfSettled
    <3>2. n \in V \ s
      BY <2>1
    <3>3. /\ B[Cardinality(s)] \in Costs(V) /\ B[Cardinality(s \cup {n})] \in Costs(V)
          /\ B[Cardinality(s \cup {n})] = Round(V, H, w, B[Cardinality(s)])
      <4> HIDE DEF n
      <4> QED
        BY <3>1, <3>2
    <3>4. t = s \cup {n}
      OBVIOUS
    <3> QED
      BY <3>3, <3>4
  <2>4. \A x \in DOMAIN d : x \in DOMAIN B[k] /\ B[k][x] <= d[x]
    BY DEF Within
  <2>5. /\ \A x \in DOMAIN B[k] : x \in DOMAIN B[l] /\ B[l][x] <= B[k][x]
        /\ \A h \in H : h.from \in DOMAIN B[k] =>
             h.to \in DOMAIN B[l] /\ B[l][h.to] <= B[k][h.from] + w[h]
    <3> HIDE DEF k, l
    <3> QED
      BY <2>3, RoundIs
  <2>6. B[k] \in [DOMAIN B[k] -> Nat] /\ B[l] \in [DOMAIN B[l] -> Nat]
    <3> HIDE DEF k, l
    <3> QED
      BY <2>3 DEF Costs
  <2>7. CASE m \in better
    <3>1. PICK h \in H : h.from = n /\ h.to = m /\ d1[m] = c + w[h]
      BY <1>9, <2>7
    <3>2. w[h] \in Nat
      BY DEF Network
    <3>3. B[k][n] <= c /\ n \in DOMAIN B[k]
      BY <1>1, <2>4
    <3>4. m \in DOMAIN B[l] /\ B[l][m] <= B[k][n] + w[h]
      BY <2>5, <3>1, <3>3
    <3>5. B[l][m] \in Nat /\ B[k][n] \in Nat
      BY <2>6, <3>3, <3>4
    <3>6. m \in DOMAIN B[l] /\ B[l][m] <= d1[m]
      <4> HIDE DEF k, l, better
      <4> QED
        BY <1>1, <3>1, <3>2, <3>3, <3>4, <3>5
    <3> QED
      BY <3>6
  <2>8. CASE m \notin better
    <3>1. m \in DOMAIN d /\ d1[m] = d[m]
      BY <1>6, <2>8
    <3>2. m \in DOMAIN B[k] /\ B[k][m] <= d[m]
      BY <2>4, <3>1
    <3>3. m \in DOMAIN B[l] /\ B[l][m] <= B[k][m]
      BY <2>5, <3>2
    <3>4. B[l][m] \in Nat /\ B[k][m] \in Nat /\ d[m] \in Nat
      BY <1>4, <2>6, <3>1, <3>2, <3>3
    <3>6. m \in DOMAIN B[l] /\ B[l][m] <= d1[m]
      <4> HIDE DEF k, l, better
      <4> QED
        BY <3>1, <3>2, <3>3, <3>4
    <3> QED
      BY <3>6
  <2> QED
    BY <2>7, <2>8
<1> QED
  BY <1>14, <1>15

(* No round offers less than a settled distance, nor reaches beyond the heap *)
(* for less than its least entry.                                          *)
NotBelow(b, d, s, e) ==
  \A m \in DOMAIN b : /\ m \in s => d[m] <= b[m]
                      /\ m \notin s => \E i \in e : i.priority <= b[m]

(* The sources alone are not below the distances of a search.               *)
LEMMA StartNotBelow ==
  ASSUME NEW V, NEW H, NEW w, NEW S \in SUBSET V, NEW d, NEW p, NEW s, NEW e,
         Searching(V, H, w, S, d, p, s, e), NEW b, b = [n \in S |-> 0]
  PROVE  NotBelow(b, d, s, e)
<1> SUFFICES ASSUME NEW m \in S
             PROVE  /\ m \in s => d[m] <= 0
                    /\ m \notin s => \E i \in e : i.priority <= 0
  BY DEF NotBelow
<1>1. m \in DOMAIN d /\ d[m] = 0
  BY DEF Searching
<1>2. m \notin s => Entry(0, m) \in e
  BY <1>1 DEF Searching
<1>3. Entry(0, m).priority = 0
  BY DEF Entry
<1> QED
  BY <1>1, <1>2, <1>3

(* One round more is not below what is settled and what waits.              *)
LEMMA RoundNotBelow ==
  ASSUME NEW V, NEW H, NEW w, Network(V, H, w), NEW S \in SUBSET V, NEW d, NEW p, NEW s, NEW e,
         Searching(V, H, w, S, d, p, s, e),
         NEW b \in Costs(V), NotBelow(b, d, s, e), NEW b1, b1 = Round(V, H, w, b)
  PROVE  NotBelow(b1, d, s, e)
<1> SUFFICES ASSUME NEW m \in DOMAIN b1
             PROVE  /\ m \in s => d[m] <= b1[m]
                    /\ m \notin s => \E i \in e : i.priority <= b1[m]
  BY DEF NotBelow
<1>1. \/ m \in DOMAIN b /\ b1[m] = b[m]
      \/ \E h \in H : /\ h.to = m /\ h.from \in DOMAIN b /\ b1[m] = b[h.from] + w[h]
  BY RoundIs
<1>2. d \in [DOMAIN d -> Nat] /\ b \in [DOMAIN b -> Nat] /\ \A x \in s : x \in DOMAIN d
  BY DEF Searching, Costs
<1>3. \A i \in e : i.priority \in Nat
  BY DEF Searching
<1>4. CASE m \in DOMAIN b /\ b1[m] = b[m]
  BY <1>4 DEF NotBelow
<1>5. ASSUME NEW h \in H, h.to = m, h.from \in DOMAIN b, b1[m] = b[h.from] + w[h]
      PROVE  /\ m \in s => d[m] <= b1[m]
             /\ m \notin s => \E i \in e : i.priority <= b1[m]
  <2>1. w[h] \in Nat /\ b[h.from] \in Nat /\ b1[m] \in Nat /\ b[h.from] <= b1[m]
    <3>1. w[h] \in Nat /\ b[h.from] \in Nat
      BY <1>2, <1>5 DEF Network
    <3> QED
      BY <1>5, <3>1
  <2>2. CASE h.from \notin s
    <3>1. PICK i \in e : i.priority <= b[h.from]
      BY <1>5, <2>2 DEF NotBelow
    <3>2. i.priority <= b1[m]
      BY <1>3, <2>1, <3>1
    <3>3. m \in s => d[m] <= i.priority /\ d[m] \in Nat
      BY <1>2 DEF Searching
    <3> QED
      BY <1>3, <2>1, <3>2, <3>3
  <2>3. CASE h.from \in s
    <3>1. m \in DOMAIN d /\ d[m] <= d[h.from] + w[h]
      BY <1>5, <2>3 DEF Searching
    <3>2. d[h.from] <= b[h.from]
      BY <1>5, <2>3 DEF NotBelow
    <3>3. d[m] \in Nat /\ d[h.from] \in Nat
      BY <1>2, <2>3, <3>1
    <3>4. d[m] <= b1[m]
      BY <1>5, <2>1, <3>1, <3>2, <3>3
    <3>5. m \notin s => Entry(d[m], m) \in e
      BY <3>1 DEF Searching
    <3>6. Entry(d[m], m).priority = d[m]
      BY DEF Entry
    <3> QED
      BY <3>4, <3>5, <3>6
  <2> QED
    BY <2>2, <2>3
<1> QED
  BY <1>1, <1>4, <1>5

(* No round gets below what is settled and what waits.                      *)
LEMMA NeverBelow ==
  ASSUME NEW V, NEW H, NEW w, Network(V, H, w), NEW S \in SUBSET V, NEW d, NEW p, NEW s, NEW e,
         Searching(V, H, w, S, d, p, s, e), NEW B, Rounds(V, H, w, S, B)
  PROVE  NotBelow(B[Cardinality(V)], d, s, e)
<1> DEFINE N == Cardinality(V)
           G == {k \in 0 .. N : NotBelow(B[k], d, s, e)}
<1>1. N \in Nat
  BY FS_CardinalityType DEF Network
<1>2. 0 \in G
  <2>1. B[0] = [n \in S |-> 0]
    BY FirstAndLastRound
  <2>2. NotBelow(B[0], d, s, e)
    BY <2>1, StartNotBelow
  <2> QED
    BY <1>1, <2>2
<1>3. ASSUME NEW k \in 1 .. N, k - 1 \in G PROVE k \in G
  <2>1. k - 1 \in Nat /\ (k - 1) + 1 = k /\ (k - 1) + 1 <= N
    BY <1>1
  <2>2. B[k - 1] \in Costs(V) /\ B[k] = Round(V, H, w, B[k - 1])
    <3>1. B[(k - 1) + 1] = Round(V, H, w, B[k - 1]) /\ B[k - 1] \in Costs(V)
      BY <2>1, RoundAfter
    <3> QED
      BY <2>1, <3>1
  <2>3. NotBelow(B[k - 1], d, s, e)
    BY <1>3
  <2>4. NotBelow(B[k], d, s, e)
    BY <2>2, <2>3, RoundNotBelow
  <2> QED
    BY <1>1, <2>4
<1>4. G = 0 .. N
  <2>1. G \in SUBSET (0 .. N)
    OBVIOUS
  <2> HIDE DEF G, N
  <2> QED
    BY <1>1, <1>2, <1>3, <2>1, UpTo
<1> QED
  BY <1>1, <1>4

(* What is settled is settled for good, at the cheapest; and when the heap   *)
(* is empty everything that can be reached is settled.                      *)
Final(best, d, s, e) ==
  /\ \A n \in s : n \in DOMAIN best /\ d[n] = best[n]
  /\ \A n \in DOMAIN best \ s : \E i \in e : i.priority <= best[n]
  /\ \A n \in DOMAIN d : n \in DOMAIN best /\ best[n] <= d[n]
  /\ e = {} => s = DOMAIN best /\ d = best

(* What a search has settled is settled at the cost of the last round.      *)
LEMMA SettledForGood ==
  ASSUME NEW V, NEW H, NEW w, Network(V, H, w), NEW S \in SUBSET V, NEW d, NEW p, NEW s, NEW e,
         Searching(V, H, w, S, d, p, s, e), Within(V, H, w, S, d, s),
         NEW B, Rounds(V, H, w, S, B), NEW best, best = B[Cardinality(V)]
  PROVE  Final(best, d, s, e)
<1> DEFINE N == Cardinality(V)
           c == Cardinality(s)
           G == {k \in 0 .. N : k < c \/ \A n \in DOMAIN d : n \in DOMAIN B[k] /\ B[k][n] <= d[n]}
<1>1. N \in Nat /\ c \in Nat /\ c <= N
  <2>1. IsFiniteSet(V) /\ s \in SUBSET V
    BY DEF Network, Searching, Costs
  <2> QED
    BY <2>1, FS_Subset, FS_CardinalityType
<1>2. d \in [DOMAIN d -> Nat] /\ s \subseteq DOMAIN d
  BY DEF Searching, Costs
<1>3. \A n \in DOMAIN d : n \in DOMAIN B[c] /\ B[c][n] <= d[n]
  BY DEF Within
<1>4. 0 \in G
  BY <1>1, <1>3
<1>5. ASSUME NEW k \in 1 .. N, k - 1 \in G PROVE k \in G
  <2>1. CASE k < c
    BY <2>1
  <2>2. CASE k = c
    BY <1>1, <1>3, <2>2
  <2>3. CASE k > c
    <3>1. ~(k - 1 < c) /\ k - 1 \in Nat /\ (k - 1) + 1 = k /\ (k - 1) + 1 <= N
      BY <1>1, <2>3
    <3>2. \A n \in DOMAIN d : n \in DOMAIN B[k - 1] /\ B[k - 1][n] <= d[n]
      BY <1>5, <3>1
    <3>3. B[k - 1] \in Costs(V) /\ B[k] = Round(V, H, w, B[k - 1]) /\ B[k] \in Costs(V)
      <4>1. B[(k - 1) + 1] = Round(V, H, w, B[k - 1]) /\ B[k - 1] \in Costs(V) /\ B[(k - 1) + 1] \in Costs(V)
        BY <3>1, RoundAfter
      <4> QED
        BY <3>1, <4>1
    <3>4. \A n \in DOMAIN B[k - 1] : n \in DOMAIN B[k] /\ B[k][n] <= B[k - 1][n]
      BY <3>3, RoundIs
    <3>5. B[k - 1] \in [DOMAIN B[k - 1] -> Nat] /\ B[k] \in [DOMAIN B[k] -> Nat]
      BY <3>3 DEF Costs
    <3>6. \A n \in DOMAIN d : n \in DOMAIN B[k] /\ B[k][n] <= d[n]
      BY <1>2, <3>2, <3>4, <3>5
    <3> QED
      BY <3>6
  <2> QED
    BY <1>1, <2>1, <2>2, <2>3
<1>6. G = 0 .. N
  <2>1. G \in SUBSET (0 .. N)
    OBVIOUS
  <2> HIDE DEF G, N
  <2> QED
    BY <1>1, <1>4, <1>5, <2>1, UpTo
<1>7. \A n \in DOMAIN d : n \in DOMAIN best /\ best[n] <= d[n]
  BY <1>1, <1>6
<1>8. NotBelow(best, d, s, e)
  BY NeverBelow
<1>9. best \in Costs(V)
  BY FirstAndLastRound
<1>10. best \in [DOMAIN best -> Nat]
  BY <1>9 DEF Costs
<1>11. \A n \in s : n \in DOMAIN best /\ d[n] = best[n]
  BY <1>2, <1>7, <1>8, <1>10 DEF NotBelow
<1>12. \A n \in DOMAIN best \ s : \E i \in e : i.priority <= best[n]
  BY <1>8 DEF NotBelow
<1>13. ASSUME e = {} PROVE s = DOMAIN best /\ d = best
  <2>1. s = DOMAIN best
    BY <1>11, <1>12, <1>13
  <2>2. DOMAIN d = s
    BY <1>2, <1>13 DEF Searching
  <2> QED
    BY <1>2, <1>10, <1>11, <2>1, <2>2
<1> QED
  BY <1>7, <1>11, <1>12, <1>13 DEF Final

(* A stale entry can go.                                                   *)
LEMMA SearchDrops ==
  ASSUME NEW V, NEW H, NEW w, NEW S, NEW d, NEW p, NEW s, NEW e,
         Searching(V, H, w, S, d, p, s, e), NEW i \in e, i.node \in s
  PROVE  Searching(V, H, w, S, d, p, s, e \ {i})
<1>1. \A n \in DOMAIN d \ s : Entry(d[n], n) # i
  BY DEF Entry
<1> QED
  BY <1>1 DEF Searching

(* Reaching the target settles it at the cheapest as well.                 *)
LEMMA ReachedForGood ==
  ASSUME NEW V, NEW H, NEW w, Network(V, H, w), NEW S \in SUBSET V, NEW d, NEW p, NEW s, NEW e,
         Searching(V, H, w, S, d, p, s, e), Within(V, H, w, S, d, s),
         NEW i \in e, \A j \in e : i.priority <= j.priority, i.node \notin s,
         NEW B, Rounds(V, H, w, S, B), NEW best, best = B[Cardinality(V)]
  PROVE  \A n \in s \cup {i.node} : n \in DOMAIN best /\ d[n] = best[n]
<1>1. /\ \A n \in s : n \in DOMAIN best /\ d[n] = best[n]
      /\ \A n \in DOMAIN best \ s : \E j \in e : j.priority <= best[n]
      /\ \A n \in DOMAIN d : n \in DOMAIN best /\ best[n] <= d[n]
  <2>1. Final(best, d, s, e)
    BY SettledForGood
  <2> QED
    BY <2>1 DEF Final
<1>2. i.node \in DOMAIN d /\ i.priority = d[i.node] /\ i.priority \in Nat
  BY PoppedAtDistance
<1>3. \A j \in e : j.priority \in Nat
  BY DEF Searching
<1>4. best \in [DOMAIN best -> Nat]
  <2>1. best \in Costs(V)
    BY FirstAndLastRound
  <2> QED
    BY <2>1 DEF Costs
<1>5. best[i.node] = d[i.node]
  <2>1. PICK j \in e : j.priority <= best[i.node]
    BY <1>1, <1>2
  <2> QED
    BY <1>1, <1>2, <1>3, <1>4, <2>1
<1> QED
  BY <1>1, <1>2, <1>5

(***************************************************************************)
(* What things cost                                                         *)
(***************************************************************************)

(* The penalties of the closures in S, multiplied.                         *)
IsProduct(S, f) ==
  f = [s \in SUBSET S |-> IF s = {} THEN 1
                          ELSE (CHOOSE c \in s : TRUE).times * f[s \ {CHOOSE c \in s : TRUE}]]
Product(S) == (CHOOSE f : IsProduct(S, f))[S]

(* One factor more is taken.                                               *)
Factor(S, g) ==
  [s \in SUBSET S |-> IF s = {} THEN 1
                      ELSE (CHOOSE c \in s : TRUE).times * g[s \ {CHOOSE c \in s : TRUE}]]

(* The factors of a penalty are natural numbers.                            *)
LEMMA FactorTyped ==
  ASSUME NEW S, \A c \in S : c.times \in Nat, NEW g \in [SUBSET S -> Nat]
  PROVE  Factor(S, g) \in [SUBSET S -> Nat]
<1>1. ASSUME NEW s \in SUBSET S, s # {}
      PROVE  (CHOOSE c \in s : TRUE).times * g[s \ {CHOOSE c \in s : TRUE}] \in Nat
  <2> DEFINE x == CHOOSE c \in s : TRUE
  <2>1. x \in s
    BY <1>1
  <2>2. x.times \in Nat /\ g[s \ {x}] \in Nat
    BY <2>1
  <2> HIDE DEF x
  <2>3. \A a, b \in Nat : a * b \in Nat
    OBVIOUS
  <2> QED
    BY <2>2, <2>3 DEF x
<1> QED
  BY <1>1 DEF Factor

(* After k factors the subsets of fewer than k closures are done.          *)
DoneTo(S, k, g) == \A s \in SUBSET S : Cardinality(s) < k => Factor(S, g)[s] = g[s]

(* One factor more.                                                         *)
LEMMA DoneFurther ==
  ASSUME NEW S, IsFiniteSet(S), NEW k \in Nat, NEW g, DoneTo(S, k, g)
  PROVE  DoneTo(S, k + 1, Factor(S, g))
<1> SUFFICES ASSUME NEW s \in SUBSET S, Cardinality(s) < k + 1
             PROVE  Factor(S, Factor(S, g))[s] = Factor(S, g)[s]
  BY DEF DoneTo
<1>1. CASE s = {}
  BY <1>1 DEF Factor
<1>2. CASE s # {}
  <2> DEFINE x == CHOOSE c \in s : TRUE
  <2>1. x \in s
    BY <1>2
  <2>2. s \ {x} \in SUBSET S /\ Cardinality(s \ {x}) < k
    <3>1. IsFiniteSet(s)
      BY FS_Subset
    <3>2. Cardinality(s) \in Nat /\ Cardinality(s \ {x}) = Cardinality(s) - 1
      BY <2>1, <3>1, FS_CardinalityType, FS_RemoveElement
    <3> QED
      BY <3>2
  <2>3. Factor(S, g)[s \ {x}] = g[s \ {x}]
    BY <2>2 DEF DoneTo
  <2>4. \A f : Factor(S, f)[s] = x.times * f[s \ {x}]
    BY <1>2 DEF Factor
  <2> HIDE DEF x
  <2> QED
    BY <2>3, <2>4
<1> QED
  BY <1>1, <1>2

(* The fold that multiplies penalties is well defined.                      *)
LEMMA ProductExists ==
  ASSUME NEW S, IsFiniteSet(S), \A c \in S : c.times \in Nat
  PROVE  \E f : IsProduct(S, f)
<1> DEFINE N == Cardinality(S) + 1
           T == [SUBSET S -> Nat]
           b == [s \in SUBSET S |-> 0]
           F == [k \in 1 .. N |-> [g \in T |-> Factor(S, g)]]
<1>1. N \in Nat
  BY FS_CardinalityType
<1>2. b \in T
  OBVIOUS
<1>3. IsStep(N, T, F)
  BY FactorTyped DEF IsStep
<1>4. PICK g : Iterates(g, N, T, b, F)
  <2> HIDE DEF N, T, b, F
  <2> QED
    BY <1>1, <1>2, <1>3, IterationExists
<1>5. \A k \in 1 .. N : g[k - 1] \in T /\ g[k] = Factor(S, g[k - 1])
  <2>1. \A k \in 1 .. N : k - 1 \in 0 .. N
    BY <1>1
  <2>2. \A k \in 1 .. N : g[k] = F[k][g[k - 1]] /\ g[k - 1] \in T
    <3> HIDE DEF T, F, b
    <3> QED
      BY <1>4, <2>1 DEF Iterates
  <2>3. \A k \in 1 .. N, x \in T : F[k][x] = Factor(S, x)
    <3> HIDE DEF T, N
    <3> QED
      OBVIOUS
  <2> HIDE DEF T, N, F
  <2> QED
    BY <2>2, <2>3
<1> DEFINE G == {k \in 0 .. N : DoneTo(S, k, g[k])}
<1> HIDE DEF T, b, F
<1>6. 0 \in G
  <2>1. \A s \in SUBSET S : Cardinality(s) \in Nat
    BY FS_Subset, FS_CardinalityType
  <2> QED
    BY <1>1, <2>1 DEF DoneTo
<1>7. ASSUME NEW k \in 1 .. N, k - 1 \in G PROVE k \in G
  <2>1. DoneTo(S, k - 1, g[k - 1]) /\ k - 1 \in Nat /\ (k - 1) + 1 = k
    BY <1>1, <1>7
  <2>2. DoneTo(S, (k - 1) + 1, Factor(S, g[k - 1]))
    BY <2>1, DoneFurther
  <2>3. DoneTo(S, k, g[k])
    BY <1>5, <2>1, <2>2
  <2> QED
    BY <1>1, <2>3
<1>8. G = 0 .. N
  <2>1. G \in SUBSET (0 .. N)
    OBVIOUS
  <2> HIDE DEF G, N
  <2> QED
    BY <1>1, <1>6, <1>7, <2>1, UpTo
<1>9. DoneTo(S, N, g[N])
  BY <1>1, <1>8
<1>10. \A s \in SUBSET S : Cardinality(s) < N
  <2>1. ASSUME NEW s \in SUBSET S PROVE Cardinality(s) < N
    <3>1. Cardinality(s) \in Nat /\ Cardinality(S) \in Nat /\ Cardinality(s) <= Cardinality(S)
      BY FS_Subset, FS_CardinalityType
    <3> QED
      BY <3>1
  <2> QED
    BY <2>1
<1>11. DOMAIN g[N] = SUBSET S /\ g[N] = [s \in SUBSET S |-> g[N][s]]
  BY <1>1, <1>4 DEF Iterates, T
<1>12. g[N] = Factor(S, g[N])
  <2> HIDE DEF N
  <2>1. \A s \in SUBSET S : Factor(S, g[N])[s] = g[N][s]
    BY <1>9, <1>10 DEF DoneTo
  <2>2. Factor(S, g[N]) = [s \in SUBSET S |-> Factor(S, g[N])[s]]
    BY DEF Factor
  <2> QED
    BY <1>11, <2>1, <2>2
<1>13. IsProduct(S, g[N])
  <2> HIDE DEF N
  <2> QED
    BY <1>12 DEF IsProduct, Factor
<1> QED
  BY <1>13

(* A product of natural numbers is one.                                     *)
LEMMA ProductNatural ==
  ASSUME NEW S, IsFiniteSet(S), \A c \in S : c.times \in Nat
  PROVE  Product(S) \in Nat
<1> DEFINE f == CHOOSE f : IsProduct(S, f)
           N == Cardinality(S)
           G == {k \in 0 .. N : \A s \in SUBSET S : Cardinality(s) = k => f[s] \in Nat}
<1>1. IsProduct(S, f)
  BY ProductExists
<1>2. N \in Nat
  BY FS_CardinalityType
<1> HIDE DEF f
<1>3. \A s \in SUBSET S : f[s] = IF s = {} THEN 1
          ELSE (CHOOSE c \in s : TRUE).times * f[s \ {CHOOSE c \in s : TRUE}]
  BY <1>1 DEF IsProduct
<1>4. \A s \in SUBSET S : IsFiniteSet(s) /\ Cardinality(s) \in Nat
  BY FS_Subset, FS_CardinalityType
<1>5. 0 \in G
  <2>1. \A s \in SUBSET S : Cardinality(s) = 0 => s = {}
    BY <1>4, FS_EmptySet
  <2> QED
    BY <1>2, <1>3, <2>1
<1>6. ASSUME NEW k \in 1 .. N, k - 1 \in G PROVE k \in G
  <2> SUFFICES ASSUME NEW s \in SUBSET S, Cardinality(s) = k
               PROVE  f[s] \in Nat
    BY <1>2
  <2> DEFINE x == CHOOSE c \in s : TRUE
  <2>1. s # {}
    BY FS_EmptySet
  <2>2. x \in s
    BY <2>1
  <2>3. Cardinality(s \ {x}) = k - 1
    BY <1>4, <2>2, FS_RemoveElement
  <2>4. f[s \ {x}] \in Nat
    BY <1>6, <2>3
  <2>5. f[s] = x.times * f[s \ {x}]
    BY <1>3, <2>1
  <2>6. x.times \in Nat
    BY <2>2
  <2>7. \A a, b \in Nat : a * b \in Nat
    OBVIOUS
  <2> HIDE DEF x
  <2> QED
    BY <2>4, <2>5, <2>6, <2>7
<1>7. G = 0 .. N
  <2>1. G \in SUBSET (0 .. N)
    OBVIOUS
  <2> HIDE DEF G, N
  <2> QED
    BY <1>2, <1>5, <1>6, <2>1, UpTo
<1>8. f[S] \in Nat
  BY <1>2, <1>7
<1> QED
  BY <1>8 DEF Product, f

TransitTypes == {"WALKWAY", "STAIRS", "ESCALATOR", "ELEVATOR"}

(* What loading makes of the rows of a building.                           *)
WellFormed(g) ==
  /\ IsFiniteSet(DOMAIN g.node) /\ None \notin DOMAIN g.node
  /\ IsFiniteSet(DOMAIN g.edge)
  /\ \A n \in DOMAIN g.node :
       /\ g.node[n].floor \in Int /\ g.node[n].x \in Int /\ g.node[n].y \in Int
       /\ g.scale[g.node[n].floor] \in Int
  /\ \A e \in DOMAIN g.edge :
       /\ g.edge[e].transit \in TransitTypes /\ LengthM(g, g.edge[e]) \in Nat
       /\ g.edge[e].src \in DOMAIN g.node /\ g.edge[e].dst \in DOMAIN g.node
  /\ \A h \in g.hops : /\ h = [edge |-> h.edge, from |-> h.from, to |-> h.to]
                       /\ h.edge \in DOMAIN g.edge
                       /\ h.from \in DOMAIN g.node /\ h.to \in DOMAIN g.node
  /\ \A h, k \in g.hops : h.from = k.from /\ h.to = k.to => h = k

(* A natural number divided.                                                *)
LEMMA DivNatural ==
  ASSUME NEW a \in Nat, NEW b \in Nat \ {0}
  PROVE  a \div b \in Nat
OBVIOUS

(* Natural numbers multiplied.                                              *)
LEMMA TimesNatural ==
  ASSUME NEW a \in Nat, NEW b \in Nat
  PROVE  a * b \in Nat
OBVIOUS

(* loadBuildingGraph makes a well-formed graph of every stored building.    *)
LEMMA LoadedGraphs ==
  ASSUME NEW b \in Buildings
  PROVE  WellFormed(LoadBuildingGraph(b))
<1> DEFINE g == LoadBuildingGraph(b)
           whole == {e \in DOMAIN b.edge : {b.edge[e].src, b.edge[e].dst} \subseteq DOMAIN b.node}
<1>1. /\ IsFiniteSet(DOMAIN b.node) /\ None \notin DOMAIN b.node
      /\ IsFiniteSet(DOMAIN b.edge)
      /\ \A n \in DOMAIN b.node :
           /\ b.node[n].floor \in Int /\ b.node[n].x \in Int /\ b.node[n].y \in Int
           /\ b.scale[b.node[n].floor] \in Int
      /\ \A e \in DOMAIN b.edge :
           /\ b.edge[e].transit \in TransitTypes
           /\ b.edge[e].px \in Nat /\ b.edge[e].weight \in Nat
           /\ b.edge[e].lengthM \in Nat \cup {NoLength}
           /\ \A f \in DOMAIN b.edge :
                {b.edge[e].src, b.edge[e].dst} = {b.edge[f].src, b.edge[f].dst} => e = f
  BY PlanningRows DEF None, TransitTypes
<1>2. /\ g.node = b.node /\ g.scale = b.scale
      /\ DOMAIN g.edge = whole /\ \A e \in whole : g.edge[e] = b.edge[e]
  BY DEF LoadBuildingGraph
<1>3. \A h \in g.hops : \E e \in whole :
        \/ h = [edge |-> e, from |-> b.edge[e].src, to |-> b.edge[e].dst]
        \/ h = [edge |-> e, from |-> b.edge[e].dst, to |-> b.edge[e].src]
  BY DEF LoadBuildingGraph
<1> HIDE DEF g
<1>4. ASSUME NEW e \in DOMAIN g.edge
      PROVE  /\ g.edge[e].transit \in TransitTypes /\ LengthM(g, g.edge[e]) \in Nat
             /\ g.edge[e].src \in DOMAIN g.node /\ g.edge[e].dst \in DOMAIN g.node
  <2> DEFINE r == b.edge[e]
             scale == IF Assumed(g, r) THEN AssumedScale ELSE g.scale[g.node[r.src].floor]
             pixels == IF r.weight # r.px THEN r.weight ELSE r.px
  <2>1. /\ g.edge[e] = r /\ r.transit \in TransitTypes /\ r.lengthM \in Nat \cup {NoLength}
        /\ r.px \in Nat /\ r.weight \in Nat
        /\ r.src \in DOMAIN g.node /\ r.dst \in DOMAIN g.node
        /\ g.scale[g.node[r.src].floor] \in Int
    BY <1>1, <1>2
  <2>2. pixels \in Nat
    BY <2>1
  <2>3. r.lengthM = NoLength /\ g.node[r.src].floor = g.node[r.dst].floor => scale \in Nat \ {0}
    <3>1. AssumedScale \in Nat \ {0}
      BY RoutingCosts
    <3> HIDE DEF r
    <3> QED
      BY <2>1, <3>1 DEF Assumed
  <2>4. r.lengthM = NoLength /\ g.node[r.src].floor = g.node[r.dst].floor => pixels \div scale \in Nat
    <3> HIDE DEF r, pixels, scale
    <3> QED
      BY <2>2, <2>3, DivNatural
  <2>5. LengthM(g, r) = CASE r.lengthM # NoLength -> r.lengthM
          [] r.lengthM = NoLength /\ g.node[r.src].floor # g.node[r.dst].floor -> 0
          [] OTHER -> pixels \div scale
    <3> HIDE DEF r
    <3> QED
      BY DEF LengthM
  <2>6. LengthM(g, r) \in Nat
    <3> HIDE DEF r, pixels, scale
    <3> QED
      BY <2>1, <2>4, <2>5
  <2> QED
    BY <2>1, <2>6
<1>5. ASSUME NEW h \in g.hops
      PROVE  /\ h = [edge |-> h.edge, from |-> h.from, to |-> h.to]
             /\ h.edge \in whole /\ h.from \in DOMAIN g.node /\ h.to \in DOMAIN g.node
             /\ {h.from, h.to} = {b.edge[h.edge].src, b.edge[h.edge].dst}
  BY <1>2, <1>3
<1>6. ASSUME NEW h \in g.hops, NEW k \in g.hops, h.from = k.from, h.to = k.to
      PROVE  h = k
  <2>1. h.edge = k.edge
    <3>1. h.edge \in DOMAIN b.edge /\ k.edge \in DOMAIN b.edge
      BY <1>5
    <3>2. {b.edge[h.edge].src, b.edge[h.edge].dst} = {b.edge[k.edge].src, b.edge[k.edge].dst}
      BY <1>5, <1>6
    <3> QED
      BY <1>1, <3>1, <3>2
  <2> QED
    BY <1>5, <1>6, <2>1
<1>7. IsFiniteSet(DOMAIN g.edge)
  BY <1>1, <1>2, FS_Subset
<1>8. WellFormed(g)
  BY <1>1, <1>2, <1>4, <1>5, <1>6, <1>7 DEF WellFormed
<1> QED
  BY <1>8 DEF g

(* A profile as the cost model resolves it, and an overlay of this graph.   *)
Fair(p) == p.penalty \in Nat /\ p.times \in [TransitTypes -> Nat]
Laid(g, o) == o.times \in [DOMAIN g.edge -> Nat]

(* A hop that can be priced: along an edge of the graph, either way.        *)
Along(g, h) == h.edge \in DOMAIN g.edge /\ h.from \in DOMAIN g.node /\ h.to \in DOMAIN g.node

(* The floors a hop climbs are a natural number.                            *)
LEMMA FloorDeltaNatural ==
  ASSUME NEW g, WellFormed(g), NEW h, Along(g, h)
  PROVE  FloorDelta(g, h) \in Nat
<1> DEFINE d == g.node[h.from].floor - g.node[h.to].floor
           S == {1, d, -d}
<1>1. d \in Int
  BY DEF WellFormed, Along
<1> HIDE DEF d
<1>2. \E x \in S : \A y \in S : x >= y
  <2>1. CASE d >= 1
    BY <1>1, <2>1
  <2>2. CASE -d >= 1
    BY <1>1, <2>2
  <2>3. CASE d < 1 /\ -d < 1
    BY <1>1, <2>3
  <2> QED
    BY <1>1, <2>1, <2>2, <2>3
<1>3. Max(S) \in S /\ \A y \in S : Max(S) >= y
  BY <1>2, Zenon DEF Max
<1>4. Max(S) \in Int /\ Max(S) >= 1
  BY <1>1, <1>3
<1> QED
  BY <1>4 DEF FloorDelta, d

(* A hop takes a natural number of half seconds,                            *)
LEMMA BareDurationNatural ==
  ASSUME NEW g, WellFormed(g), NEW h, Along(g, h)
  PROVE  BareDuration(g, h) \in Nat
<1>1. FloorDelta(g, h) \in Nat /\ LengthM(g, g.edge[h.edge]) \in Nat
  BY FloorDeltaNatural DEF WellFormed, Along
<1>2. {StairsPerFloor, EscalatorEntry, EscalatorPerFloor, LiftWait, LiftPerFloor} \subseteq Nat
  BY RoutingCosts
<1>3. /\ StairsPerFloor * FloorDelta(g, h) \in Nat
      /\ EscalatorPerFloor * FloorDelta(g, h) \in Nat
      /\ LiftPerFloor * FloorDelta(g, h) \in Nat
  BY <1>1, <1>2, TimesNatural
<1> QED
  BY <1>1, <1>2, <1>3 DEF BareDuration

(* and costs one.                                                           *)
LEMMA CostNatural ==
  ASSUME NEW g, WellFormed(g), NEW p, Fair(p), NEW o, Laid(g, o), NEW h, Along(g, h)
  PROVE  CostFn(g, p, o, h) \in Nat
<1> DEFINE bare == BareDuration(g, h) + (IF CrossFloor(g, h) THEN p.penalty ELSE 0)
           t == p.times[PricedAs(g, h)]
           rank == IF g.edge[h.edge].rank = "SECONDARY" THEN 3 ELSE 2
<1>1. bare \in Nat
  BY BareDurationNatural DEF Fair
<1>2. PricedAs(g, h) \in TransitTypes
  BY DEF PricedAs, WellFormed, Along, TransitTypes
<1>3. t \in Nat
  BY <1>2 DEF Fair
<1>4. bare * t \in Nat
  <2> HIDE DEF bare, t
  <2> QED
    BY <1>1, <1>3, TimesNatural
<1>5. EdgeDuration(g, p, h) \in Nat
  <2>1. EdgeDuration(g, p, h) = bare * t
    BY DEF EdgeDuration
  <2> HIDE DEF bare, t
  <2> QED
    BY <1>4, <2>1
<1>6. rank \in Nat
  OBVIOUS
<1>7. (EdgeDuration(g, p, h) * rank) \div 2 \in Nat
  <2> HIDE DEF rank
  <2>1. EdgeDuration(g, p, h) * rank \in Nat
    BY <1>5, <1>6, TimesNatural
  <2> QED
    BY <2>1, DivNatural
<1>8. o.times[h.edge] \in Nat
  BY DEF Laid, Along
<1>9. o.times[h.edge] * ((EdgeDuration(g, p, h) * rank) \div 2) \in Nat
  <2> HIDE DEF rank
  <2> QED
    BY <1>7, <1>8, TimesNatural
<1> QED
  BY <1>9 DEF CostFn

(* Profiles are fair, and closures are laid over the graph.                *)
LEMMA ResolvedFair ==
  ASSUME NEW g, NEW name
  PROVE  Fair(ResolveProfile(g, name))
<1>1. ChangePenalty \in Nat
  BY RoutingCosts
<1> QED
  BY <1>1 DEF ResolveProfile, Fair, TransitTypes

(* Whatever preference is layered on it, the profile of the costs is fair.  *)
LEMMA EffectiveFair ==
  ASSUME NEW g, NEW a
  PROVE  Fair(EffectiveProfile(g, a))
<1> DEFINE base == ResolveProfile(g, "emergency")
           wish == ResolveProfile(g, CostOverlayName(a))
<1>1. Fair(base) /\ Fair(wish) /\ Fair(ResolveProfile(g, a.name))
  BY ResolvedFair
<1>2. [base EXCEPT !.times = wish.times, !.penalty = wish.penalty].times = wish.times
      /\ [base EXCEPT !.times = wish.times, !.penalty = wish.penalty].penalty = wish.penalty
  BY DEF ResolveProfile
<1> HIDE DEF base, wish
<1>3. Fair([base EXCEPT !.times = wish.times, !.penalty = wish.penalty])
  BY <1>1, <1>2 DEF Fair
<1>4. \/ EffectiveProfile(g, a) = ResolveProfile(g, a.name)
      \/ EffectiveProfile(g, a) = base
      \/ EffectiveProfile(g, a) = [base EXCEPT !.times = wish.times, !.penalty = wish.penalty]
  BY DEF EffectiveProfile, base, wish
<1> QED
  BY <1>1, <1>3, <1>4

(* The overlay of closures multiplies every edge by a natural number.       *)
LEMMA OverlayLaid ==
  ASSUME NEW g, NEW C \in ClosureSets
  PROVE  Laid(g, BuildOverlay(g, C))
<1> DEFINE blocking == {c \in C : c.times = 0}
           penalizing == C \ blocking
           On(e) == {c \in penalizing :
                       e \in ScopeOf(g, c).edges \cup EdgesTouching(g, ScopeOf(g, c).nodes)}
           shut == UNION {ScopeOf(g, c).edges : c \in blocking}
           times == [e \in DOMAIN g.edge |-> IF e \in shut THEN 1 ELSE Product(On(e))]
<1>1. ASSUME NEW e PROVE Product(On(e)) \in Nat
  <2>1. IsFiniteSet(On(e)) /\ \A c \in On(e) : c.times \in Nat
    BY PlanningClosures, FS_Subset
  <2> HIDE DEF On
  <2> QED
    BY <2>1, ProductNatural
<1>2. \A S : MapThenFoldSet(LAMBDA a, b : a * b, 1, LAMBDA c : c.times,
                           LAMBDA T : CHOOSE c \in T : TRUE, S) = Product(S)
  BY DEF MapThenFoldSet, Product, IsProduct
<1>3. BuildOverlay(g, C).times = times
  BY <1>2 DEF BuildOverlay
<1>4. times \in [DOMAIN g.edge -> Nat]
  <2> HIDE DEF On, shut
  <2> QED
    BY <1>1
<1> QED
  BY <1>3, <1>4 DEF Laid

(* So does the softened one of the last resort.                             *)
LEMMA SoftLaid ==
  ASSUME NEW g, NEW o, Laid(g, o)
  PROVE  Laid(g, SoftenOverlay(g, o))
<1> DEFINE Heavier(e) == (IF e \in o.edges THEN LastResort ELSE 1)
                         * (IF e \in EdgesTouching(g, o.nodes) THEN LastResort ELSE 1)
<1>1. LastResort \in Nat
  BY RoutingCosts
<1>2. LastResort * LastResort \in Nat
  BY <1>1, TimesNatural
<1>3. ASSUME NEW e \in DOMAIN g.edge PROVE o.times[e] * Heavier(e) \in Nat
  <2>1. Heavier(e) \in Nat
    BY <1>1, <1>2
  <2>2. o.times[e] \in Nat
    BY DEF Laid
  <2> HIDE DEF Heavier
  <2> QED
    BY <2>1, <2>2, TimesNatural
<1>4. SoftenOverlay(g, o).times = [e \in DOMAIN g.edge |-> o.times[e] * Heavier(e)]
  BY DEF SoftenOverlay
<1> HIDE DEF Heavier
<1> QED
  BY <1>3, <1>4 DEF Laid

(* What a request plans with.                                              *)
LEMMA ContextLaid ==
  ASSUME NEW g, NEW a, NEW C \in ClosureSets, NEW c, c = Context(g, a, C)
  PROVE  /\ Laid(g, c.overlay) /\ Laid(g, c.own) /\ Laid(g, c.soft)
         /\ Fair(c.profile) /\ Fair(c.last)
         /\ c.ladder = Ladder(a) /\ c.profile = EffectiveProfile(g, a)
         /\ c.last = ResolveProfile(g, "emergency")
         /\ c.overlay = BuildOverlay(g, C)
         /\ c.own = OverlayForOrigin(c.overlay, a.from)
         /\ c.soft = OverlayForOrigin(SoftenOverlay(g, c.overlay), a.from)
<1>1. /\ c.overlay = BuildOverlay(g, C)
      /\ c.own = OverlayForOrigin(c.overlay, a.from)
      /\ c.soft = OverlayForOrigin(SoftenOverlay(g, c.overlay), a.from)
      /\ c.profile = EffectiveProfile(g, a)
      /\ c.last = ResolveProfile(g, "emergency")
      /\ c.ladder = Ladder(a)
  BY DEF Context
<1>2. Laid(g, c.overlay) /\ Laid(g, SoftenOverlay(g, c.overlay))
  BY <1>1, OverlayLaid, SoftLaid
<1>3. ASSUME NEW o, Laid(g, o) PROVE Laid(g, OverlayForOrigin(o, a.from))
  <2>1. OverlayForOrigin(o, a.from).times = o.times
    BY DEF OverlayForOrigin
  <2> QED
    BY <1>3, <2>1 DEF Laid
<1> QED
  BY <1>1, <1>2, <1>3, EffectiveFair, ResolvedFair

(* A sequence of one to three parts.                                        *)
LEMMA JoinThree ==
  ASSUME NEW x, NEW y, NEW z, NEW T \in BOOLEAN, NEW W \in BOOLEAN,
         NEW s, s = (<<x>> \o (IF T THEN <<y>> ELSE <<>>)) \o (IF W THEN <<z>> ELSE <<>>)
  PROVE  /\ Len(s) = (IF T THEN 2 ELSE 1) + (IF W THEN 1 ELSE 0)
         /\ s[1] = x /\ (T => s[2] = y) /\ (W => s[Len(s)] = z)
<1> DEFINE S == {x, y, z}
           t == IF T THEN <<y>> ELSE <<>>
           u == IF W THEN <<z>> ELSE <<>>
           r == <<x>> \o t
<1>1. <<x>> \in Seq(S) /\ t \in Seq(S) /\ u \in Seq(S) /\ Len(<<x>>) = 1 /\ <<x>>[1] = x
  <2>1. \A e \in S : <<e>> \in Seq(S) /\ Len(<<e>>) = 1 /\ <<e>>[1] = e
    <3> HIDE DEF S
    <3> QED
      OBVIOUS
  <2>2. <<>> \in Seq(S)
    <3> HIDE DEF S
    <3> QED
      OBVIOUS
  <2> QED
    BY <2>1, <2>2
<1>2. Len(t) = (IF T THEN 1 ELSE 0) /\ (T => t[1] = y) /\ Len(u) = (IF W THEN 1 ELSE 0) /\ (W => u[1] = z)
  OBVIOUS
<1> HIDE DEF S, t, u
<1>3. /\ r \in Seq(S) /\ Len(r) = 1 + Len(t)
      /\ \A i \in 1 .. 1 + Len(t) : r[i] = IF i <= 1 THEN x ELSE t[i - 1]
  <2>1. /\ <<x>> \o t \in Seq(S) /\ Len(<<x>> \o t) = Len(<<x>>) + Len(t)
        /\ \A i \in 1 .. Len(<<x>>) + Len(t) : (<<x>> \o t)[i] = IF i <= Len(<<x>>) THEN <<x>>[i] ELSE t[i - Len(<<x>>)]
    BY <1>1, ConcatProperties
  <2>2. \A i \in 1 .. 1 + Len(t) : i <= 1 => i = 1
    BY <1>2
  <2> QED
    BY <1>1, <2>1, <2>2
<1> HIDE DEF r
<1>4. /\ Len(r \o u) = Len(r) + Len(u)
      /\ \A i \in 1 .. Len(r) + Len(u) : (r \o u)[i] = IF i <= Len(r) THEN r[i] ELSE u[i - Len(r)]
  BY <1>1, <1>3, ConcatProperties
<1>5. s = r \o u
  BY DEF r, t, u
<1>6. Len(s) = (IF T THEN 2 ELSE 1) + (IF W THEN 1 ELSE 0)
  BY <1>2, <1>3, <1>4, <1>5
<1>7. r[1] = x /\ (T => r[2] = y)
  BY <1>2, <1>3
<1>8. s[1] = x /\ (T => s[2] = y)
  BY <1>2, <1>3, <1>4, <1>5, <1>7
<1>9. W => s[Len(s)] = z
  BY <1>2, <1>3, <1>4, <1>5
<1> QED
  BY <1>6, <1>8, <1>9

(* The ladder has one to three attempts: first all that is wished, last none. *)
LEMMA LadderIs ==
  ASSUME NEW a
  PROVE  /\ Len(Ladder(a)) \in 1 .. 3
         /\ (Ladder(a)[1].tags <=> a.include # <<>> \/ a.exclude # <<>>)
         /\ (Ladder(a)[1].access <=> a.name = "wheelchair")
         /\ Ladder(a)[1].label = None
         /\ (a.include # <<>> \/ a.exclude # <<>>) =>
              /\ Len(Ladder(a)) >= 2
              /\ Ladder(a)[2].label = "tagConstraintsRelaxed" /\ ~Ladder(a)[2].tags
              /\ (Ladder(a)[2].access <=> a.name = "wheelchair")
         /\ a.name = "wheelchair" =>
              /\ Len(Ladder(a)) = (IF a.include # <<>> \/ a.exclude # <<>> THEN 3 ELSE 2)
              /\ Ladder(a)[Len(Ladder(a))].label = "accessibleRouteUnavailable"
              /\ ~Ladder(a)[Len(Ladder(a))].tags /\ ~Ladder(a)[Len(Ladder(a))].access
         /\ a.name # "wheelchair" =>
              Len(Ladder(a)) = (IF a.include # <<>> \/ a.exclude # <<>> THEN 2 ELSE 1)
<1>1. PICK T \in BOOLEAN : T = (a.include # <<>> \/ a.exclude # <<>>)
  OBVIOUS
<1>2. PICK W \in BOOLEAN : W = (a.name = "wheelchair")
  OBVIOUS
<1> DEFINE x == [label |-> None, tags |-> T, access |-> W]
           y == [label |-> "tagConstraintsRelaxed", tags |-> FALSE, access |-> W]
           z == [label |-> "accessibleRouteUnavailable", tags |-> FALSE, access |-> FALSE]
           s == Ladder(a)
<1>3. s = (<<x>> \o (IF T THEN <<y>> ELSE <<>>)) \o (IF W THEN <<z>> ELSE <<>>)
  BY <1>1, <1>2 DEF Ladder
<1>4. /\ x.label = None /\ (x.tags <=> T) /\ (x.access <=> W)
      /\ y.label = "tagConstraintsRelaxed" /\ ~y.tags /\ (y.access <=> W)
      /\ z.label = "accessibleRouteUnavailable" /\ ~z.tags /\ ~z.access
  OBVIOUS
<1> HIDE DEF x, y, z, s
<1>5. /\ Len(s) = (IF T THEN 2 ELSE 1) + (IF W THEN 1 ELSE 0)
      /\ s[1] = x /\ (T => s[2] = y) /\ (W => s[Len(s)] = z)
  BY <1>3, JoinThree
<1>6. /\ (T <=> a.include # <<>> \/ a.exclude # <<>>) /\ (W <=> a.name = "wheelchair")
  BY <1>1, <1>2
<1>7. /\ Len(s) \in 1 .. 3
      /\ (s[1].tags <=> T) /\ (s[1].access <=> W) /\ s[1].label = None
      /\ T => /\ Len(s) >= 2 /\ s[2].label = "tagConstraintsRelaxed" /\ ~s[2].tags
              /\ (s[2].access <=> W)
      /\ W => /\ Len(s) = (IF T THEN 3 ELSE 2) /\ s[Len(s)].label = "accessibleRouteUnavailable"
              /\ ~s[Len(s)].tags /\ ~s[Len(s)].access
      /\ ~W => Len(s) = (IF T THEN 2 ELSE 1)
  BY <1>4, <1>5
<1> QED
  BY <1>6, <1>7 DEF s

(***************************************************************************)
(* What a field's key tells                                                 *)
(***************************************************************************)

(* Texts are put one after the other: what they are made of.                *)
LEMMA RangeJoins ==
  ASSUME NEW T, NEW s \in Seq(T), NEW t \in Seq(T)
  PROVE  Range(s \o t) = Range(s) \cup Range(t)
BY RangeConcatenation

(* A text before a sign it does not have, and one after it, are known from   *)
(* the whole.                                                              *)
LEMMA CutOnce ==
  ASSUME NEW T, NEW x \in T, NEW s \in Seq(T), NEW t \in Seq(T), NEW u \in Seq(T), NEW v \in Seq(T),
         x \notin Range(s), x \notin Range(u),
         (s \o <<x>>) \o t = (u \o <<x>>) \o v
  PROVE  s = u /\ t = v
<1> DEFINE a == (s \o <<x>>) \o t
           b == (u \o <<x>>) \o v
<1>1. ASSUME NEW p \in Seq(T), NEW r \in Seq(T)
      PROVE  /\ (p \o <<x>>) \o r \in Seq(T)
             /\ Len((p \o <<x>>) \o r) = Len(p) + 1 + Len(r)
             /\ \A i \in 1 .. Len(p) : ((p \o <<x>>) \o r)[i] = p[i]
             /\ ((p \o <<x>>) \o r)[Len(p) + 1] = x
             /\ \A i \in 1 .. Len(r) : ((p \o <<x>>) \o r)[Len(p) + 1 + i] = r[i]
  <2>1. <<x>> \in Seq(T) /\ Len(<<x>>) = 1 /\ <<x>>[1] = x
    OBVIOUS
  <2>2. /\ p \o <<x>> \in Seq(T) /\ Len(p \o <<x>>) = Len(p) + 1
        /\ \A i \in 1 .. Len(p) + 1 : (p \o <<x>>)[i] = IF i <= Len(p) THEN p[i] ELSE <<x>>[i - Len(p)]
    BY <2>1, ConcatProperties
  <2> DEFINE h == p \o <<x>>
  <2>3. /\ h \in Seq(T) /\ Len(h) = Len(p) + 1 /\ h[Len(p) + 1] = x
        /\ \A i \in 1 .. Len(p) : h[i] = p[i]
    <3>1. Len(p) \in Nat
      BY LenProperties
    <3> QED
      BY <2>1, <2>2, <3>1
  <2> HIDE DEF h
  <2>4. /\ h \o r \in Seq(T) /\ Len(h \o r) = Len(h) + Len(r)
        /\ \A i \in 1 .. Len(h) + Len(r) : (h \o r)[i] = IF i <= Len(h) THEN h[i] ELSE r[i - Len(h)]
    BY <2>3, ConcatProperties
  <2>5. Len(p) \in Nat /\ Len(r) \in Nat
    BY LenProperties
  <2>6. /\ \A i \in 1 .. Len(p) : (h \o r)[i] = p[i]
        /\ (h \o r)[Len(p) + 1] = x
    BY <2>3, <2>4, <2>5
  <2>7. \A i \in 1 .. Len(r) : (h \o r)[Len(p) + 1 + i] = r[i]
    BY <2>3, <2>4, <2>5
  <2> QED
    BY <2>3, <2>4, <2>5, <2>6, <2>7 DEF h
<1>2. /\ a \in Seq(T) /\ Len(a) = Len(s) + 1 + Len(t)
      /\ \A i \in 1 .. Len(s) : a[i] = s[i]
      /\ a[Len(s) + 1] = x
      /\ \A i \in 1 .. Len(t) : a[Len(s) + 1 + i] = t[i]
  BY <1>1
<1>3. /\ b \in Seq(T) /\ Len(b) = Len(u) + 1 + Len(v)
      /\ \A i \in 1 .. Len(u) : b[i] = u[i]
      /\ b[Len(u) + 1] = x
      /\ \A i \in 1 .. Len(v) : b[Len(u) + 1 + i] = v[i]
  BY <1>1
<1>4. a = b
  OBVIOUS
<1>5. Len(s) \in Nat /\ Len(t) \in Nat /\ Len(u) \in Nat /\ Len(v) \in Nat
  BY LenProperties
<1>6. (\A i \in 1 .. Len(s) : s[i] # x) /\ (\A i \in 1 .. Len(u) : u[i] # x)
  BY LenProperties DEF Range
<1> HIDE DEF a, b
<1>7. Len(s) = Len(u)
  <2>1. ASSUME Len(s) < Len(u) PROVE FALSE
    <3>1. Len(s) + 1 \in 1 .. Len(u)
      BY <1>5, <2>1
    <3>2. a[Len(s) + 1] = u[Len(s) + 1] /\ u[Len(s) + 1] # x
      BY <1>3, <1>4, <1>6, <3>1
    <3> QED
      BY <1>2, <3>2
  <2>2. ASSUME Len(u) < Len(s) PROVE FALSE
    <3>1. Len(u) + 1 \in 1 .. Len(s)
      BY <1>5, <2>2
    <3>2. b[Len(u) + 1] = s[Len(u) + 1] /\ s[Len(u) + 1] # x
      BY <1>2, <1>4, <1>6, <3>1
    <3> QED
      BY <1>3, <3>2
  <2> QED
    BY <1>5, <2>1, <2>2
<1>8. Len(t) = Len(v)
  BY <1>2, <1>3, <1>4, <1>5, <1>7
<1>9. (\A i \in 1 .. Len(s) : s[i] = u[i]) /\ (\A i \in 1 .. Len(t) : t[i] = v[i])
  BY <1>2, <1>3, <1>4, <1>7, <1>8
<1> QED
  BY <1>7, <1>8, <1>9, SeqEqual

(* Two texts of one length, and what follows them.                         *)
LEMMA CutAt ==
  ASSUME NEW T, NEW s \in Seq(T), NEW t \in Seq(T), NEW u \in Seq(T), NEW v \in Seq(T),
         Len(s) = Len(u), s \o t = u \o v
  PROVE  s = u /\ t = v
<1>1. /\ Len(s \o t) = Len(s) + Len(t) /\ Len(u \o v) = Len(u) + Len(v)
      /\ \A i \in 1 .. Len(s) + Len(t) : (s \o t)[i] = IF i <= Len(s) THEN s[i] ELSE t[i - Len(s)]
      /\ \A i \in 1 .. Len(u) + Len(v) : (u \o v)[i] = IF i <= Len(u) THEN u[i] ELSE v[i - Len(u)]
  BY ConcatProperties
<1>2. Len(s) \in Nat /\ Len(t) \in Nat /\ Len(u) \in Nat /\ Len(v) \in Nat
  BY LenProperties
<1>3. Len(t) = Len(v)
  BY <1>1, <1>2
<1>4. \A i \in 1 .. Len(s) : s[i] = u[i]
  BY <1>1, <1>2
<1>5. ASSUME NEW i \in 1 .. Len(t) PROVE t[i] = v[i]
  <2>1. Len(s) + i \in 1 .. Len(s) + Len(t) /\ ~ (Len(s) + i <= Len(s)) /\ Len(s) + i - Len(s) = i
    BY <1>2
  <2>2. (s \o t)[Len(s) + i] = t[i] /\ (u \o v)[Len(s) + i] = v[i]
    BY <1>1, <1>3, <2>1
  <2> QED
    BY <2>2
<1> QED
  BY <1>3, <1>4, <1>5, SeqEqual

(* A text of four words, the second of them also its last.                  *)
FourWords(T, x, y, z, k) ==
  k \in Seq(T) /\ Len(k) = 4 /\ k[3] = z /\ Range(k) = {x, y, z}

LEMMA FourWordsAre ==
  ASSUME NEW T, NEW x \in T, NEW y \in T, NEW z \in T
  PROVE  FourWords(T, x, y, z, <<x, y, z, y>>)
<1> DEFINE k == <<x, y, z, y>>
<1>1. k \in Seq(T) /\ Len(k) = 4 /\ k[1] = x /\ k[2] = y /\ k[3] = z /\ k[4] = y
  OBVIOUS
<1> HIDE DEF k
<1>2. DOMAIN k = 1 .. 4
  BY <1>1, LenProperties
<1>3. \A i : i \in 1 .. 4 <=> i = 1 \/ i = 2 \/ i = 3 \/ i = 4
  BY SMT
<1>4. Range(k) = {x, y, z}
  BY <1>1, <1>2, <1>3 DEF Range
<1> QED
  BY <1>1, <1>4 DEF FourWords, k

(* A function of the first n numbers is a sequence.                         *)
LEMMA ListIsSeq ==
  ASSUME NEW n \in Nat, NEW X, NEW f \in [1 .. n -> X]
  PROVE  f \in Seq(X)
OBVIOUS

(* A sign alone.                                                           *)
LEMMA SignIs ==
  ASSUME NEW T, NEW c, <<c>> \in T
  PROVE  Sign(c) \in Seq(T) /\ Range(Sign(c)) = {<<c>>}
BY DEF Sign, Range

(* The words of texts that have one word each.                             *)
Word(texts) == {texts[i][1] : i \in DOMAIN texts}
Single(texts) == \A i \in DOMAIN texts : texts[i] = <<texts[i][1]>>

(* Joined texts are made of their words and the sign between them.          *)
Spells(s, T, W, c) ==
  /\ s \in Seq(T)
  /\ W \subseteq Range(s) /\ Range(s) \subseteq W \cup {<<c>>}

LEMMA JoinedSpells ==
  ASSUME NEW T, NEW texts, NEW S, texts \in Seq(S), Single(texts), Word(texts) \subseteq T,
         NEW c, <<c>> \in T
  PROVE  Spells(Joined(texts, c), T, Word(texts), c)
<1> DEFINE N == Len(texts)
           F == [k \in 1 .. N |-> [s \in Seq(T) |-> IF k = 1 THEN texts[1] ELSE s \o Sign(c) \o texts[k]]]
           IsJoin(f) == f = [k \in 0 .. N |-> IF k = 0 THEN <<>>
                                             ELSE IF k = 1 THEN texts[1]
                                             ELSE f[k - 1] \o Sign(c) \o texts[k]]
           f == CHOOSE f : IsJoin(f)
<1>1. N \in Nat /\ DOMAIN texts = 1 .. N
  BY LenProperties
<1>2. Sign(c) \in Seq(T) /\ Range(Sign(c)) = {<<c>>}
  BY SignIs
<1>3. ASSUME NEW i \in 1 .. N
      PROVE  /\ texts[i] \in Seq(T) /\ texts[i] = <<texts[i][1]>>
             /\ Range(texts[i]) = {texts[i][1]}
  <2> DEFINE w == texts[i][1]
  <2>1. texts[i] = <<w>> /\ w \in T
    BY <1>1 DEF Single, Word
  <2> HIDE DEF w
  <2>2. <<w>> \in Seq(T) /\ Range(<<w>>) = {w}
    BY <2>1 DEF Range
  <2> QED
    BY <2>1, <2>2 DEF w
<1>4. <<>> \in Seq(T)
  OBVIOUS
<1>5. \E g : IsJoin(g)
  <2>1. IsStep(N, Seq(T), F)
    <3>1. ASSUME NEW k \in 1 .. N, NEW s \in Seq(T)
          PROVE  (IF k = 1 THEN texts[1] ELSE s \o Sign(c) \o texts[k]) \in Seq(T)
      BY <1>2, <1>3, ConcatProperties
    <3> HIDE DEF N
    <3> QED
      BY <3>1 DEF IsStep
  <2>2. PICK g : Iterates(g, N, Seq(T), <<>>, F)
    <3> HIDE DEF N, F
    <3> QED
      BY <1>1, <1>4, <2>1, IterationExists
  <2>3. \A k \in 1 .. N : k - 1 \in 0 .. N
    BY <1>1
  <2>4. g \in [0 .. N -> Seq(T)] /\ g[0] = <<>> /\ \A k \in 1 .. N : g[k] = F[k][g[k - 1]]
    <3> HIDE DEF N, F
    <3> QED
      BY <2>2 DEF Iterates
  <2>5. \A k \in 1 .. N : g[k] = IF k = 1 THEN texts[1] ELSE g[k - 1] \o Sign(c) \o texts[k]
    <3> HIDE DEF N
    <3> QED
      BY <2>3, <2>4
  <2>6. IsJoin(g)
    <3> HIDE DEF F
    <3>1. ASSUME NEW k \in 0 .. N
          PROVE  g[k] = IF k = 0 THEN <<>> ELSE IF k = 1 THEN texts[1]
                        ELSE g[k - 1] \o Sign(c) \o texts[k]
      <4>1. CASE k = 0
        BY <2>4, <4>1
      <4>2. CASE k # 0
        <5>1. k \in 1 .. N
          BY <1>1, <4>2
        <5> HIDE DEF N
        <5> QED
          BY <2>5, <4>2, <5>1
      <4> QED
        BY <4>1, <4>2
    <3> HIDE DEF N
    <3> QED
      BY <2>4, <3>1
  <2> HIDE DEF IsJoin
  <2> QED
    BY <2>6
<1>6. IsJoin(f)
  <2> HIDE DEF IsJoin
  <2> QED
    BY <1>5
<1>7. Joined(texts, c) = f[N]
  BY DEF Joined
<1> HIDE DEF f
<1> DEFINE Words(k) == {texts[i][1] : i \in 1 .. k}
           G == {k \in 0 .. N : k > 0 => Spells(f[k], T, Words(k), c)}
<1>8. 0 \in G
  BY <1>1
<1>9. ASSUME NEW k \in 1 .. N, k - 1 \in G PROVE k \in G
  <2>1. CASE k = 1
    <3>1. f[1] = texts[1]
      BY <1>1, <1>6, <2>1
    <3>2. Words(1) = {texts[1][1]}
      OBVIOUS
    <3>3. Spells(f[1], T, Words(1), c)
      <4> HIDE DEF Words
      <4> QED
        BY <1>3, <2>1, <3>1, <3>2 DEF Spells
    <3> HIDE DEF Words
    <3> QED
      BY <1>1, <2>1, <3>3
  <2>2. CASE k # 1
    <3>1. k - 1 \in 1 .. N /\ k \in 0 .. N
      BY <1>1, <2>2
    <3>2. Spells(f[k - 1], T, Words(k - 1), c)
      BY <1>9, <3>1
    <3>3. f[k] = (f[k - 1] \o Sign(c)) \o texts[k]
      BY <1>6, <2>2, <3>1
    <3>4. Words(k) = Words(k - 1) \cup {texts[k][1]}
      <4>1. \A i : i \in 1 .. k <=> i \in 1 .. k - 1 \/ i = k
        BY <3>1
      <4> QED
        BY <4>1
    <3>5. /\ f[k - 1] \in Seq(T) /\ f[k - 1] \o Sign(c) \in Seq(T)
          /\ f[k] \in Seq(T)
      BY <1>2, <1>3, <3>2, <3>3, ConcatProperties DEF Spells
    <3>6. Range(f[k]) = (Range(f[k - 1]) \cup {<<c>>}) \cup {texts[k][1]}
      <4>1. Range(f[k - 1] \o Sign(c)) = Range(f[k - 1]) \cup Range(Sign(c))
        BY <1>2, <3>5, RangeJoins
      <4>2. Range((f[k - 1] \o Sign(c)) \o texts[k]) = Range(f[k - 1] \o Sign(c)) \cup Range(texts[k])
        <5>1. texts[k] \in Seq(T)
          BY <1>3
        <5>2. \A x \in Seq(T), y \in Seq(T) : Range(x \o y) = Range(x) \cup Range(y)
          BY RangeJoins
        <5> QED
          BY <3>5, <5>1, <5>2
      <4> QED
        BY <1>2, <1>3, <3>3, <4>1, <4>2
    <3> HIDE DEF Words
    <3>7. Spells(f[k], T, Words(k), c)
      BY <3>2, <3>4, <3>5, <3>6 DEF Spells
    <3> QED
      BY <3>1, <3>7
  <2> QED
    BY <2>1, <2>2
<1>10. G = 0 .. N
  <2>1. G \in SUBSET (0 .. N)
    OBVIOUS
  <2> HIDE DEF G, N
  <2> QED
    BY <1>1, <1>8, <1>9, <2>1, UpTo
<1>11. CASE N = 0
  <2>1. f[0] = <<>>
    BY <1>6, <1>11
  <2>2. Word(texts) = {} /\ Range(<<>>) = {}
    BY <1>1, <1>11 DEF Word, Range
  <2> QED
    BY <1>4, <1>7, <1>11, <2>1, <2>2 DEF Spells
<1>12. CASE N # 0
  <2>1. N > 0 /\ N \in 0 .. N
    BY <1>1, <1>12
  <2>3. Spells(f[N], T, Words(N), c)
    <3> HIDE DEF N, Words
    <3> QED
      BY <1>10, <2>1
  <2>2. Words(N) = Word(texts)
    BY <1>1 DEF Word
  <2> HIDE DEF N, Words
  <2> QED
    BY <1>7, <2>2, <2>3
<1> QED
  BY <1>11, <1>12

(* The fingerprint is a listing of its entries.                             *)
LEMMA Listing ==
  ASSUME NEW S, IsFiniteSet(S)
  PROVE  SetToSeq(S) \in Seq(S) /\ Range(SetToSeq(S)) = S
<1> DEFINE D == 1 .. Cardinality(S)
           f == SetToSeq(S)
<1>1. Cardinality(S) \in Nat /\ ExistsBijection(D, S)
  BY FS_CardinalityType
<1>2. \E h \in [D -> S] : IsInjective(h)
  <2>1. PICK h : h \in Bijection(D, S)
    BY <1>1 DEF ExistsBijection
  <2>2. h \in [D -> S] /\ \A a, b \in D : h[a] = h[b] => a = b
    <3> HIDE DEF D
    <3> QED
      BY <2>1, Fun_BijectionProperties
  <2> HIDE DEF D
  <2> QED
    BY <2>2 DEF IsInjective
<1>3. f \in [D -> S] /\ IsInjective(f)
  BY <1>2 DEF SetToSeq
<1> HIDE DEF f
<1>4. f \in Surjection(D, S)
  <2>1. f \in Injection(D, S)
    BY <1>3, Fun_IsInj DEF IsInjective
  <2>2. Cardinality(D) = Cardinality(S)
    BY <1>1, FS_Interval
  <2> QED
    BY <2>1, <2>2, FS_Injection
<1>5. Range(f) = S
  BY <1>4, Fun_SurjectionProperties
<1>6. f \in Seq(S)
  BY <1>1, <1>3
<1> QED
  BY <1>5, <1>6 DEF f

(* The image of a finite set.                                              *)
LEMMA ImageFinite ==
  ASSUME NEW S, IsFiniteSet(S), NEW f
  PROVE  IsFiniteSet({f[x] : x \in S})
<1> DEFINE T == {f[x] : x \in S}
           g == [x \in S |-> f[x]]
<1>1. g \in [S -> T] /\ \A t \in T : \E s \in S : g[s] = t
  OBVIOUS
<1> HIDE DEF T, g
<1>2. g \in Surjection(S, T)
  BY <1>1, Fun_IsSurj
<1>3. IsFiniteSet(T)
  BY <1>2, FS_Surjection
<1> QED
  BY <1>3 DEF T

(* The entries of a fingerprint.                                           *)
Entries(times, slowed, E, N) ==
  {<<"m", e, times[e]>> : e \in slowed} \cup {<<"e", e>> : e \in E} \cup {<<"n", n>> : n \in N}

LEMMA EntriesListed ==
  ASSUME NEW times, NEW slowed, NEW E, NEW N, IsFiniteSet(slowed), IsFiniteSet(E), IsFiniteSet(N)
  PROVE  LET p == Fingerprint(times, slowed, E, N)
             S == Entries(times, slowed, E, N)
         IN  p = SetToSeq(S) /\ p \in Seq(S) /\ Range(p) = S
<1> DEFINE A == {<<"m", e, times[e]>> : e \in slowed}
           B == {<<"e", e>> : e \in E}
           C == {<<"n", n>> : n \in N}
<1>1. IsFiniteSet(A)
  <2> DEFINE f == [e \in slowed |-> <<"m", e, times[e]>>]
  <2>1. A = {f[x] : x \in slowed}
    OBVIOUS
  <2> HIDE DEF f, A
  <2> QED
    BY <2>1, ImageFinite
<1>2. IsFiniteSet(B)
  <2> DEFINE f == [e \in E |-> <<"e", e>>]
  <2>1. B = {f[x] : x \in E}
    OBVIOUS
  <2> HIDE DEF f, B
  <2> QED
    BY <2>1, ImageFinite
<1>3. IsFiniteSet(C)
  <2> DEFINE f == [n \in N |-> <<"n", n>>]
  <2>1. C = {f[x] : x \in N}
    OBVIOUS
  <2> HIDE DEF f, C
  <2> QED
    BY <2>1, ImageFinite
<1>4. Entries(times, slowed, E, N) = (A \cup B) \cup C
  BY DEF Entries
<1>5. Fingerprint(times, slowed, E, N) = SetToSeq(Entries(times, slowed, E, N))
  BY DEF Fingerprint, Entries
<1> HIDE DEF A, B, C
<1>6. IsFiniteSet(Entries(times, slowed, E, N))
  BY <1>1, <1>2, <1>3, <1>4, FS_Union
<1> QED
  BY <1>5, <1>6, Listing

(* What the closures make of a graph, in these words.                       *)
Laying(g, o, slowed) ==
  /\ o = [times |-> o.times, edges |-> o.edges, nodes |-> o.nodes, print |-> o.print]
  /\ o.print = Fingerprint(o.times, slowed, o.edges, o.nodes)
  /\ slowed \subseteq DOMAIN g.edge /\ o.edges \subseteq DOMAIN g.edge
  /\ o.nodes \subseteq DOMAIN g.node /\ DOMAIN o.times = DOMAIN g.edge
  /\ o.times = [e \in DOMAIN g.edge |-> o.times[e]]
  /\ \A e \in DOMAIN g.edge \ slowed : o.times[e] = 1

LEMMA OverlayLays ==
  ASSUME NEW g, NEW C \in ClosureSets
  PROVE  \E slowed : Laying(g, BuildOverlay(g, C), slowed)
<1> DEFINE blocking == {c \in C : c.times = 0}
           penalizing == C \ blocking
           On(e) == {c \in penalizing :
                       e \in ScopeOf(g, c).edges \cup EdgesTouching(g, ScopeOf(g, c).nodes)}
           edges == UNION {ScopeOf(g, c).edges : c \in blocking}
           nodes == UNION {ScopeOf(g, c).nodes : c \in blocking}
           times == [e \in DOMAIN g.edge |-> IF e \in edges THEN 1 ELSE Product(On(e))]
           slowed == {e \in DOMAIN g.edge \ edges : On(e) # {}}
           o == BuildOverlay(g, C)
<1>1. \A S : MapThenFoldSet(LAMBDA a, b : a * b, 1, LAMBDA c : c.times,
                           LAMBDA T : CHOOSE c \in T : TRUE, S) = Product(S)
  BY DEF MapThenFoldSet, Product, IsProduct
<1>2. o = [times |-> times, edges |-> edges, nodes |-> nodes,
           print |-> Fingerprint(times, slowed, edges, nodes)]
  BY <1>1 DEF BuildOverlay
<1>3. Product({}) = 1
  <2>1. \E f : IsProduct({}, f)
    <3>1. IsFiniteSet({}) /\ \A c \in {} : c.times \in Nat
      BY FS_EmptySet
    <3> QED
      BY <3>1, ProductExists
  <2>2. IsProduct({}, CHOOSE f : IsProduct({}, f))
    BY <2>1
  <2> DEFINE f == CHOOSE f : IsProduct({}, f)
  <2>3. f[{}] = 1
    <3> HIDE DEF f
    <3>1. \A h : IsProduct({}, h) => h[{}] = 1
      BY DEF IsProduct
    <3> QED
      BY <2>2, <3>1 DEF f
  <2> QED
    BY <2>3 DEF Product
<1>4. \A e \in DOMAIN g.edge \ slowed : times[e] = 1
  <2> HIDE DEF On, edges
  <2> QED
    BY <1>3
<1>5. \A c : ScopeOf(g, c).edges \subseteq DOMAIN g.edge /\ ScopeOf(g, c).nodes \subseteq DOMAIN g.node
  BY DEF ScopeOf, EdgesOnFloor
<1>6. edges \subseteq DOMAIN g.edge /\ nodes \subseteq DOMAIN g.node
  BY <1>5
<1>7. slowed \subseteq DOMAIN g.edge /\ DOMAIN times = DOMAIN g.edge
      /\ times = [e \in DOMAIN g.edge |-> times[e]]
  OBVIOUS
<1> HIDE DEF times, edges, nodes, slowed, o
<1>8. o.times = times /\ o.edges = edges /\ o.nodes = nodes
      /\ o.print = Fingerprint(times, slowed, edges, nodes)
  BY <1>2
<1>9. Laying(g, o, slowed)
  BY <1>2, <1>4, <1>6, <1>7, <1>8 DEF Laying
<1> QED
  BY <1>9 DEF o

(* A fingerprint is a sequence of entries, none of them the sign that stands *)
(* between two.                                                            *)
Printed(o) == \E S : o.print \in Seq(S) /\ <<"|">> \notin S

LEMMA FingerprintTells ==
  ASSUME NEW g, WellFormed(g), NEW C \in ClosureSets, NEW D \in ClosureSets,
         Range(BuildOverlay(g, C).print) = Range(BuildOverlay(g, D).print)
  PROVE  BuildOverlay(g, C) = BuildOverlay(g, D)
<1> DEFINE o == BuildOverlay(g, C)
           p == BuildOverlay(g, D)
<1>1. PICK s : Laying(g, o, s)
  BY OverlayLays
<1>2. PICK t : Laying(g, p, t)
  BY OverlayLays
<1> HIDE DEF o, p
<1>3. IsFiniteSet(s) /\ IsFiniteSet(t) /\ IsFiniteSet(o.edges) /\ IsFiniteSet(p.edges)
      /\ IsFiniteSet(o.nodes) /\ IsFiniteSet(p.nodes)
  BY <1>1, <1>2, FS_Subset DEF Laying, WellFormed
<1> DEFINE S == Entries(o.times, s, o.edges, o.nodes)
           T == Entries(p.times, t, p.edges, p.nodes)
<1>4. o.print = SetToSeq(S) /\ Range(o.print) = S
  BY <1>1, <1>3, EntriesListed DEF Laying
<1>5. p.print = SetToSeq(T) /\ Range(p.print) = T
  BY <1>2, <1>3, EntriesListed DEF Laying
<1>6. S = T
  BY <1>4, <1>5 DEF o, p
<1>7. o.print = p.print
  BY <1>4, <1>5, <1>6
<1>8. \A e : <<"e", e>> \in S <=> e \in o.edges
  BY DEF Entries
<1>9. \A e : <<"e", e>> \in T <=> e \in p.edges
  BY DEF Entries
<1>10. o.edges = p.edges
  BY <1>6, <1>8, <1>9
<1>11. \A e : <<"n", e>> \in S <=> e \in o.nodes
  BY DEF Entries
<1>12. \A e : <<"n", e>> \in T <=> e \in p.nodes
  BY DEF Entries
<1>13. o.nodes = p.nodes
  BY <1>6, <1>11, <1>12
<1>14. \A e, x : <<"m", e, x>> \in S <=> e \in s /\ x = o.times[e]
  BY DEF Entries
<1>15. \A e, x : <<"m", e, x>> \in T <=> e \in t /\ x = p.times[e]
  BY DEF Entries
<1>16. ASSUME NEW e \in DOMAIN g.edge PROVE o.times[e] = p.times[e]
  <2> HIDE DEF S, T
  <2>1. CASE e \in s
    BY <1>6, <1>14, <1>15, <2>1
  <2>2. CASE e \in t
    BY <1>6, <1>14, <1>15, <2>2
  <2>3. CASE e \notin s /\ e \notin t
    BY <1>1, <1>2, <2>3 DEF Laying
  <2> QED
    BY <2>1, <2>2, <2>3
<1>17. o.times = p.times
  BY <1>1, <1>2, <1>16 DEF Laying
<1>18. o = p
  BY <1>1, <1>2, <1>7, <1>10, <1>13, <1>17 DEF Laying
<1> QED
  BY <1>18 DEF o, p

LEMMA OverlayPrinted ==
  ASSUME NEW g, WellFormed(g), NEW C \in ClosureSets
  PROVE  Printed(BuildOverlay(g, C))
<1> DEFINE o == BuildOverlay(g, C)
<1>1. PICK s : Laying(g, o, s)
  BY OverlayLays
<1> HIDE DEF o
<1>2. IsFiniteSet(s) /\ IsFiniteSet(o.edges) /\ IsFiniteSet(o.nodes)
  BY <1>1, FS_Subset DEF Laying, WellFormed
<1> DEFINE S == Entries(o.times, s, o.edges, o.nodes)
<1>3. o.print \in Seq(S)
  BY <1>1, <1>2, EntriesListed DEF Laying
<1>4. <<"|">> \notin S
  BY DEF Entries
<1> HIDE DEF S
<1> QED
  BY <1>3, <1>4 DEF Printed, o

(* What a key means: the preference, the tags wished and unwished, and what  *)
(* the closures block and slow.                                            *)
MeaningOf(a, o) == <<CostOverlayName(a), Range(a.include), Range(a.exclude), o>>

PlainlyTagged(a) == PlainTags(a.include) /\ PlainTags(a.exclude)

(* Plain tags are known from their words.                                   *)
LEMMA TagsAreWords ==
  ASSUME NEW tags, PlainTags(tags)
  PROVE  /\ \E S : tags \in Seq(S)
         /\ Single(tags) /\ Range(tags) = {<<w>> : w \in Word(tags)}
         /\ Word(tags) \cap {<<"#">>, <<",">>, <<"|">>} = {}
<1> DEFINE W == {tags[i][1] : i \in DOMAIN tags} \ {<<c>> : c \in {"#", ",", "|"}}
<1>1. tags \in Seq({<<w>> : w \in W})
  BY DEF PlainTags
<1>2. ASSUME NEW i \in DOMAIN tags
      PROVE  tags[i] = <<tags[i][1]>> /\ tags[i][1] \in W
  <2>1. tags[i] \in {<<w>> : w \in W}
    <3> HIDE DEF W
    <3> QED
      BY <1>1, LenProperties
  <2>2. PICK w \in W : tags[i] = <<w>>
    BY <2>1
  <2>3. tags[i][1] = w
    <3>1. <<w>>[1] = w
      OBVIOUS
    <3> HIDE DEF W
    <3> QED
      BY <2>2, <3>1
  <2> QED
    BY <2>2, <2>3
<1>3. Word(tags) \subseteq W
  BY <1>2 DEF Word
<1>4. W \cap {<<"#">>, <<",">>, <<"|">>} = {}
  OBVIOUS
<1> HIDE DEF W
<1>5. Single(tags)
  BY <1>2 DEF Single
<1>6. Range(tags) = {<<w>> : w \in Word(tags)}
  <2>1. ASSUME NEW x \in Range(tags) PROVE x \in {<<w>> : w \in Word(tags)}
    <3>1. PICK i \in DOMAIN tags : x = tags[i]
      BY DEF Range
    <3> QED
      BY <1>2, <3>1 DEF Word
  <2>2. ASSUME NEW w \in Word(tags) PROVE <<w>> \in Range(tags)
    <3>1. PICK i \in DOMAIN tags : w = tags[i][1]
      BY DEF Word
    <3>2. <<w>> = tags[i]
      BY <1>2, <3>1
    <3> QED
      BY <3>2 DEF Range
  <2> QED
    BY <2>1, <2>2
<1> QED
  BY <1>1, <1>3, <1>4, <1>5, <1>6

(* The parts of a key, and what each is made of.                            *)
KeyHead(a) == <<<<"emergency">>, <<"#">>, <<CostOverlayName(a)>>, <<"#">>>>
PrintTexts(o) == [i \in DOMAIN o.print |-> <<o.print[i]>>]
PrintText(o) == Joined(PrintTexts(o), "|")
Wished(a) == Joined(a.include, ",")
Unwished(a) == Joined(a.exclude, ",")

KeyMadeOf(T, a, o) ==
  /\ {<<"|">>, <<"#">>} \subseteq T
  /\ KeyHead(a) \in Seq(T) /\ Len(KeyHead(a)) = 4
  /\ KeyHead(a)[3] = <<CostOverlayName(a)>> /\ <<"|">> \notin Range(KeyHead(a))
  /\ Spells(Wished(a), T, Word(a.include), ",")
  /\ Spells(Unwished(a), T, Word(a.exclude), ",")
  /\ Spells(PrintText(o), T, Range(o.print), "|")
  /\ <<"|">> \notin Range(o.print)

LEMMA KeyIsMade ==
  ASSUME NEW a, a.name \in ProfileNames, PlainlyTagged(a), NEW o, Printed(o),
         NEW T, {<<"emergency">>, <<"#">>, <<CostOverlayName(a)>>, <<",">>, <<"|">>} \subseteq T,
         Word(a.include) \subseteq T, Word(a.exclude) \subseteq T, Range(o.print) \subseteq T
  PROVE  KeyMadeOf(T, a, o)
<1>1. CostOverlayName(a) \in ProfileNames \cup {None}
  BY DEF CostOverlayName
<1>2. <<CostOverlayName(a)>> # <<"|">>
  <2>1. CostOverlayName(a) # "|"
    BY <1>1 DEF ProfileNames, None
  <2> QED
    BY <2>1
<1>3. /\ KeyHead(a) \in Seq(T) /\ Len(KeyHead(a)) = 4
      /\ KeyHead(a)[3] = <<CostOverlayName(a)>> /\ <<"|">> \notin Range(KeyHead(a))
  <2>1. /\ <<"emergency">> \in T /\ <<"#">> \in T /\ <<CostOverlayName(a)>> \in T
        /\ <<"emergency">> # <<"|">> /\ <<"#">> # <<"|">>
    OBVIOUS
  <2>2. FourWords(T, <<"emergency">>, <<"#">>, <<CostOverlayName(a)>>, KeyHead(a))
    BY <2>1, FourWordsAre DEF KeyHead
  <2> QED
    BY <1>2, <2>1, <2>2 DEF FourWords
<1>4. Spells(Wished(a), T, Word(a.include), ",") /\ Spells(Unwished(a), T, Word(a.exclude), ",")
  BY TagsAreWords, JoinedSpells DEF PlainlyTagged, Wished, Unwished
<1>5. PICK S : o.print \in Seq(S) /\ <<"|">> \notin S
  BY DEF Printed
<1>6. /\ DOMAIN PrintTexts(o) = DOMAIN o.print
      /\ \A i \in DOMAIN o.print : PrintTexts(o)[i] = <<o.print[i]>> /\ PrintTexts(o)[i][1] = o.print[i]
  BY DEF PrintTexts
<1>7. PrintTexts(o) \in Seq({<<s>> : s \in S})
  <2> DEFINE X == {<<s>> : s \in S}
             n == Len(o.print)
  <2>1. DOMAIN o.print = 1 .. n /\ n \in Nat /\ \A i \in 1 .. n : o.print[i] \in S
    BY <1>5, LenProperties
  <2>2. PrintTexts(o) \in [1 .. n -> X]
    BY <2>1 DEF PrintTexts
  <2> HIDE DEF X, n
  <2>3. PrintTexts(o) \in Seq(X)
    BY <2>1, <2>2, ListIsSeq
  <2> QED
    BY <2>3 DEF X
<1>8. Single(PrintTexts(o)) /\ Word(PrintTexts(o)) = Range(o.print)
  BY <1>6 DEF Single, Word, Range
<1>9. Spells(PrintText(o), T, Range(o.print), "|")
  BY <1>7, <1>8, JoinedSpells DEF PrintText
<1>10. <<"|">> \notin Range(o.print)
  <2>1. \A i \in DOMAIN o.print : o.print[i] \in S
    BY <1>5, LenProperties
  <2>2. Range(o.print) \subseteq S
    BY <2>1 DEF Range
  <2> QED
    BY <1>5, <2>2
<1> QED
  BY <1>3, <1>4, <1>9, <1>10 DEF KeyMadeOf

(* Texts spelt alike have the same words.                                   *)
LEMMA SpeltAlike ==
  ASSUME NEW s, NEW T, NEW V, NEW W, NEW c, Spells(s, T, V, c), Spells(s, T, W, c),
         <<c>> \notin V, <<c>> \notin W
  PROVE  V = W
<1>1. V \subseteq Range(s) /\ Range(s) \subseteq V \cup {<<c>>}
  BY DEF Spells
<1>2. W \subseteq Range(s) /\ Range(s) \subseteq W \cup {<<c>>}
  BY DEF Spells
<1>3. ASSUME NEW x \in V PROVE x \in W
  <2>1. x \in W \cup {<<c>>} /\ x # <<c>>
    BY <1>1, <1>2
  <2> QED
    BY <2>1
<1>4. ASSUME NEW x \in W PROVE x \in V
  <2>1. x \in V \cup {<<c>>} /\ x # <<c>>
    BY <1>1, <1>2
  <2> QED
    BY <2>1
<1> QED
  BY <1>3, <1>4

(* A key that two requests share means the same to both.                    *)
LEMMA KeysMean ==
  ASSUME NEW a, NEW b, a.name \in ProfileNames, b.name \in ProfileNames, PlainlyTagged(a), PlainlyTagged(b),
         NEW o, NEW p, Printed(o), Printed(p), KeyText(a, o) = KeyText(b, p)
  PROVE  /\ CostOverlayName(a) = CostOverlayName(b)
         /\ Range(a.include) = Range(b.include) /\ Range(a.exclude) = Range(b.exclude)
         /\ Range(o.print) = Range(p.print)
<1> DEFINE Tokens(x, y) == {<<"emergency">>, <<"#">>, <<CostOverlayName(x)>>, <<",">>, <<"|">>}
                           \cup Word(x.include) \cup Word(x.exclude) \cup Range(y.print)
           T == Tokens(a, o) \cup Tokens(b, p)
           TagText(x) == Wished(x) \o Sign("#") \o Unwished(x)
<1>1. KeyMadeOf(T, a, o) /\ KeyMadeOf(T, b, p)
  <2>1. Tokens(a, o) \subseteq T /\ Tokens(b, p) \subseteq T
    OBVIOUS
  <2> HIDE DEF T
  <2> QED
    BY <2>1, KeyIsMade
<1> HIDE DEF T
<1>2. Sign("|") = <<<<"|">>>> /\ Sign("#") = <<<<"#">>>>
  BY DEF Sign
<1>3. ASSUME NEW x, NEW y, KeyMadeOf(T, x, y), PlainlyTagged(x)
      PROVE  /\ KeyHead(x) \in Seq(T) /\ Len(KeyHead(x)) = 4 /\ Wished(x) \in Seq(T)
             /\ Unwished(x) \in Seq(T) /\ PrintText(y) \in Seq(T)
             /\ TagText(x) \in Seq(T) /\ KeyHead(x) \o TagText(x) \in Seq(T)
             /\ <<"|">> \notin Range(KeyHead(x) \o TagText(x))
             /\ <<"#">> \notin Range(Wished(x))
             /\ KeyText(x, y) = ((KeyHead(x) \o TagText(x)) \o <<<<"|">>>>) \o PrintText(y)
  <2>1. /\ KeyHead(x) \in Seq(T) /\ Len(KeyHead(x)) = 4 /\ Wished(x) \in Seq(T)
        /\ Unwished(x) \in Seq(T) /\ PrintText(y) \in Seq(T)
        /\ <<"|">> \in T /\ <<"#">> \in T /\ <<"|">> \notin Range(KeyHead(x))
        /\ Range(Wished(x)) \subseteq Word(x.include) \cup {<<",">>}
        /\ Range(Unwished(x)) \subseteq Word(x.exclude) \cup {<<",">>}
    BY <1>3 DEF KeyMadeOf, Spells
  <2>2. (Word(x.include) \cup Word(x.exclude)) \cap {<<"#">>, <<",">>, <<"|">>} = {}
    BY <1>3, TagsAreWords DEF PlainlyTagged
  <2>3. <<",">> # <<"#">> /\ <<",">> # <<"|">> /\ <<"#">> # <<"|">>
    OBVIOUS
  <2>4. Sign("#") \in Seq(T) /\ Range(Sign("#")) = {<<"#">>}
    BY <2>1, SignIs
  <2>5. Wished(x) \o Sign("#") \in Seq(T) /\ TagText(x) \in Seq(T) /\ KeyHead(x) \o TagText(x) \in Seq(T)
    BY <2>1, <2>4, ConcatProperties
  <2>10. \A s \in Seq(T), t \in Seq(T) : Range(s \o t) = Range(s) \cup Range(t)
    BY RangeJoins
  <2>6. Range(TagText(x)) = (Range(Wished(x)) \cup {<<"#">>}) \cup Range(Unwished(x))
    <3>1. Range(Wished(x) \o Sign("#")) = Range(Wished(x)) \cup {<<"#">>}
      BY <2>1, <2>4, <2>10
    <3>2. Range((Wished(x) \o Sign("#")) \o Unwished(x)) = Range(Wished(x) \o Sign("#")) \cup Range(Unwished(x))
      BY <2>1, <2>5, <2>10
    <3> QED
      BY <3>1, <3>2
  <2>7. <<"#">> \notin Range(Wished(x)) /\ <<"|">> \notin Range(TagText(x))
    <3> HIDE DEF TagText
    <3> QED
      BY <2>1, <2>2, <2>3, <2>6
  <2>8. <<"|">> \notin Range(KeyHead(x) \o TagText(x))
    <3> HIDE DEF TagText
    <3> QED
      BY <2>1, <2>5, <2>7, <2>10
  <2>9. KeyText(x, y) = ((KeyHead(x) \o TagText(x)) \o Sign("|")) \o PrintText(y)
    BY DEF KeyText, KeyHead, Wished, Unwished, PrintText, PrintTexts
  <2> QED
    BY <1>2, <2>1, <2>5, <2>7, <2>8, <2>9
<1> HIDE DEF TagText
<1>4. KeyHead(a) \o TagText(a) = KeyHead(b) \o TagText(b) /\ PrintText(o) = PrintText(p)
  <2>1. <<"|">> \in T
    BY <1>1 DEF KeyMadeOf
  <2> DEFINE x == <<"|">>
             s == KeyHead(a) \o TagText(a)
             u == KeyHead(b) \o TagText(b)
  <2>2. /\ s \in Seq(T) /\ u \in Seq(T) /\ x \notin Range(s) /\ x \notin Range(u)
        /\ PrintText(o) \in Seq(T) /\ PrintText(p) \in Seq(T)
        /\ (s \o <<x>>) \o PrintText(o) = (u \o <<x>>) \o PrintText(p)
    BY <1>1, <1>3
  <2> HIDE DEF x, s, u
  <2>3. s = u /\ PrintText(o) = PrintText(p)
    BY <2>1, <2>2, CutOnce DEF x
  <2> QED
    BY <2>3 DEF s, u
<1>5. KeyHead(a) = KeyHead(b) /\ TagText(a) = TagText(b)
  <2>1. /\ KeyHead(a) \in Seq(T) /\ KeyHead(b) \in Seq(T) /\ Len(KeyHead(a)) = Len(KeyHead(b))
        /\ TagText(a) \in Seq(T) /\ TagText(b) \in Seq(T)
    BY <1>1, <1>3
  <2> QED
    BY <1>4, <2>1, CutAt
<1>6. Wished(a) = Wished(b) /\ Unwished(a) = Unwished(b)
  <2> DEFINE x == <<"#">>
  <2>1. /\ (Wished(a) \o <<x>>) \o Unwished(a) = (Wished(b) \o <<x>>) \o Unwished(b)
        /\ x \notin Range(Wished(a)) /\ x \notin Range(Wished(b))
        /\ Wished(a) \in Seq(T) /\ Wished(b) \in Seq(T)
        /\ Unwished(a) \in Seq(T) /\ Unwished(b) \in Seq(T)
    BY <1>1, <1>2, <1>3, <1>5 DEF TagText
  <2>2. x \in T
    BY <1>1 DEF KeyMadeOf
  <2> HIDE DEF x
  <2> QED
    BY <2>1, <2>2, CutOnce
<1>7. CostOverlayName(a) = CostOverlayName(b)
  <2>1. <<CostOverlayName(a)>> = <<CostOverlayName(b)>>
    BY <1>1, <1>5 DEF KeyMadeOf
  <2> QED
    BY <2>1
<1>8. /\ (Word(a.include) \cup Word(a.exclude)) \cap {<<"#">>, <<",">>, <<"|">>} = {}
      /\ (Word(b.include) \cup Word(b.exclude)) \cap {<<"#">>, <<",">>, <<"|">>} = {}
  BY TagsAreWords DEF PlainlyTagged
<1>9. Word(a.include) = Word(b.include) /\ Word(a.exclude) = Word(b.exclude)
  <2>1. /\ Spells(Wished(a), T, Word(a.include), ",") /\ Spells(Wished(a), T, Word(b.include), ",")
        /\ Spells(Unwished(a), T, Word(a.exclude), ",") /\ Spells(Unwished(a), T, Word(b.exclude), ",")
    BY <1>1, <1>6 DEF KeyMadeOf
  <2> QED
    BY <1>8, <2>1, SpeltAlike
<1>10. Range(o.print) = Range(p.print)
  <2>1. /\ Spells(PrintText(o), T, Range(o.print), "|") /\ Spells(PrintText(o), T, Range(p.print), "|")
        /\ <<"|">> \notin Range(o.print) /\ <<"|">> \notin Range(p.print)
    BY <1>1, <1>4 DEF KeyMadeOf
  <2> QED
    BY <2>1, SpeltAlike
<1>11. Range(a.include) = Range(b.include) /\ Range(a.exclude) = Range(b.exclude)
  BY <1>9, TagsAreWords DEF PlainlyTagged
<1> QED
  BY <1>7, <1>10, <1>11

(* A list of plain tags is empty when nothing is in it.                     *)
LEMMA NoTags ==
  ASSUME NEW tags, PlainTags(tags)
  PROVE  Range(tags) = {} <=> tags = <<>>
<1>1. PICK S : tags \in Seq(S)
  BY TagsAreWords
<1>2. Len(tags) \in Nat /\ DOMAIN tags = 1 .. Len(tags)
  BY <1>1, LenProperties
<1>3. ASSUME tags # <<>> PROVE Range(tags) # {}
  <2>1. Len(tags) # 0
    BY <1>1, <1>3, EmptySeq
  <2>2. 1 \in DOMAIN tags
    BY <1>2, <2>1
  <2> QED
    BY <2>2 DEF Range
<1>4. ASSUME tags = <<>> PROVE Range(tags) = {}
  <2>1. Len(tags) = 0
    BY <1>4
  <2>2. DOMAIN tags = {}
    BY <1>2, <2>1
  <2> QED
    BY <2>2 DEF Range
<1> QED
  BY <1>3, <1>4

(* Two requests of one graph that share a key mean the same by it.          *)
LEMMA SharedKeys ==
  ASSUME NEW g, WellFormed(g), NEW a \in Queries, NEW b \in Queries,
         NEW C \in ClosureSets, NEW D \in ClosureSets,
         KeyText(a, BuildOverlay(g, C)) = KeyText(b, BuildOverlay(g, D))
  PROVE  MeaningOf(a, BuildOverlay(g, C)) = MeaningOf(b, BuildOverlay(g, D))
<1> DEFINE o == BuildOverlay(g, C)
           p == BuildOverlay(g, D)
<1>1. PlainlyTagged(a) /\ PlainlyTagged(b) /\ a.name \in ProfileNames /\ b.name \in ProfileNames
  BY WayfindingTags, PlanningQueries DEF PlainlyTagged
<1>2. Printed(o) /\ Printed(p)
  BY OverlayPrinted
<1>3. Range(o.print) = Range(p.print) => o = p
  BY FingerprintTells
<1>4. KeyText(a, o) = KeyText(b, p)
  OBVIOUS
<1> HIDE DEF o, p
<1>5. /\ CostOverlayName(a) = CostOverlayName(b)
      /\ Range(a.include) = Range(b.include) /\ Range(a.exclude) = Range(b.exclude)
      /\ Range(o.print) = Range(p.print)
  BY <1>1, <1>2, <1>4, KeysMean
<1>6. MeaningOf(a, o) = MeaningOf(b, p)
  BY <1>3, <1>5 DEF MeaningOf
<1> QED
  BY <1>6 DEF o, p

(***************************************************************************)
(* The hops a search takes and what it pays for them                        *)
(***************************************************************************)

(* The r-th attempt at the request a under the context c.                  *)
FilterOf(a, c, r) ==
  [name    |-> IF a.mode = "evacuate" THEN "emergency" ELSE a.name,
   overlay |-> IF r > Len(c.ladder) THEN c.soft ELSE c.own,
   tags    |-> ~ (r > Len(c.ladder)) /\ c.ladder[r].tags,
   access  |-> ~ (r > Len(c.ladder)) /\ c.ladder[r].access]
ProfileOf(c, r) == IF r > Len(c.ladder) THEN c.last ELSE c.profile
HopsOf(g, a, c, r) == Legal(g, a, FilterOf(a, c, r), ProfileOf(c, r))
PricesOf(g, a, c, r) ==
  [h \in HopsOf(g, a, c, r) |-> CostFn(g, ProfileOf(c, r), FilterOf(a, c, r).overlay, h)]

(* The preference, the tags and the closures that a field's key means make   *)
(* its filter, its profile and its prices.                                  *)
KeyOverlay(k) == k[4]
KeyProfile(g, k) ==
  IF k[1] = None THEN ResolveProfile(g, "emergency")
  ELSE [ResolveProfile(g, "emergency") EXCEPT !.times = ResolveProfile(g, k[1]).times,
                                              !.penalty = ResolveProfile(g, k[1]).penalty]
KeyTags(g, k, h) ==
  LET tags == g.edge[h.edge].tags
  IN /\ tags \cap k[3] = {}
     /\ k[2] # {} => tags \cap k[2] # {}
KeyLegal(g, k) ==
  {h \in g.hops : /\ VisibilityFilter(g, "emergency", h)
                  /\ OverlayFilter(KeyOverlay(k), h)
                  /\ k[2] \cup k[3] # {} => KeyTags(g, k, h)
                  /\ ~Forbidden(g, KeyProfile(g, k), h)}
KeyHops(g, k) == {Reversed(h) : h \in KeyLegal(g, k)}
KeyPrices(g, k) == [h \in KeyHops(g, k) |-> CostFn(g, KeyProfile(g, k), KeyOverlay(k), h)]

(* The hops of an attempt and their prices make a network.                  *)
LEMMA SearchNetwork ==
  ASSUME NEW g, WellFormed(g), NEW a, NEW C \in ClosureSets, NEW c, c = Context(g, a, C), NEW r
  PROVE  Network(DOMAIN g.node, HopsOf(g, a, c, r), PricesOf(g, a, c, r))
<1>1. Laid(g, FilterOf(a, c, r).overlay) /\ Fair(ProfileOf(c, r))
  BY ContextLaid DEF FilterOf, ProfileOf
<1>2. IsFiniteSet(DOMAIN g.node)
  BY DEF WellFormed
<1>3. ASSUME NEW h \in HopsOf(g, a, c, r)
      PROVE  h.from \in DOMAIN g.node /\ h.to \in DOMAIN g.node /\ PricesOf(g, a, c, r)[h] \in Nat
  <2>1. h \in g.hops
    BY DEF HopsOf, Legal
  <2>2. Along(g, h)
    BY <2>1 DEF WellFormed, Along
  <2>3. CostFn(g, ProfileOf(c, r), FilterOf(a, c, r).overlay, h) \in Nat
    BY <1>1, <2>2, CostNatural
  <2> QED
    BY <2>2, <2>3 DEF PricesOf, Along
<1> QED
  BY <1>2, <1>3 DEF Network

(* A hop walked the other way.                                              *)
LEMMA ReversedIs ==
  ASSUME NEW g, WellFormed(g), NEW h \in g.hops
  PROVE  Reversed(h) = [edge |-> h.edge, from |-> h.to, to |-> h.from]
<1>1. ASSUME NEW e, NEW m, NEW n, h = [edge |-> e, from |-> m, to |-> n]
      PROVE  Reversed(h) = [edge |-> e, from |-> n, to |-> m]
  <2>1. DOMAIN h = {"edge", "from", "to"} /\ h.edge = e /\ h.from = m /\ h.to = n
    BY <1>1
  <2>2. /\ DOMAIN Reversed(h) = {"edge", "from", "to"}
        /\ Reversed(h).edge = e /\ Reversed(h).from = n /\ Reversed(h).to = m
        /\ Reversed(h) = [x \in {"edge", "from", "to"} |-> Reversed(h)[x]]
    BY <2>1 DEF Reversed
  <2> QED
    BY <2>2
<1>2. h = [edge |-> h.edge, from |-> h.from, to |-> h.to]
  BY DEF WellFormed
<1> QED
  BY <1>1, <1>2

(* So do the reversed hops a field is searched over.                        *)
LEMMA KeyNetwork ==
  ASSUME NEW g, WellFormed(g), NEW k, Laid(g, KeyOverlay(k))
  PROVE  /\ Network(DOMAIN g.node, KeyHops(g, k), KeyPrices(g, k))
         /\ \A h \in KeyHops(g, k) : \E x \in KeyLegal(g, k) : x.from = h.to /\ x.to = h.from
<1>1. Fair(KeyProfile(g, k))
  <2>1. Fair(ResolveProfile(g, "emergency")) /\ Fair(ResolveProfile(g, k[1]))
    BY ResolvedFair
  <2>2. \A t, u : /\ [ResolveProfile(g, "emergency") EXCEPT !.times = t, !.penalty = u].times = t
                  /\ [ResolveProfile(g, "emergency") EXCEPT !.times = t, !.penalty = u].penalty = u
    BY DEF ResolveProfile
  <2> QED
    BY <2>1, <2>2 DEF KeyProfile, Fair
<1>2. ASSUME NEW h \in KeyHops(g, k)
      PROVE  Along(g, h) /\ \E x \in KeyLegal(g, k) : x.from = h.to /\ x.to = h.from
  <2>1. PICK x \in KeyLegal(g, k) : h = Reversed(x)
    BY DEF KeyHops
  <2>2. x \in g.hops
    BY DEF KeyLegal
  <2>3. h = [edge |-> x.edge, from |-> x.to, to |-> x.from]
    BY <2>1, <2>2, ReversedIs
  <2>4. x.edge \in DOMAIN g.edge /\ x.from \in DOMAIN g.node /\ x.to \in DOMAIN g.node
    BY <2>2 DEF WellFormed
  <2> QED
    BY <2>3, <2>4 DEF Along
<1>3. ASSUME NEW h \in KeyHops(g, k) PROVE KeyPrices(g, k)[h] \in Nat
  BY <1>1, <1>2, CostNatural DEF KeyPrices
<1> QED
  BY <1>2, <1>3 DEF Network, WellFormed, Along

(* Of a request that may follow a field, that is all there is to say.       *)
LEMMA KeySaysAll ==
  ASSUME NEW g, NEW a, PlainlyTagged(a), NEW C \in ClosureSets, NEW c, c = Context(g, a, C),
         a.mode = "evacuate", a.name # "wheelchair", a.from \notin c.overlay.nodes,
         NEW k, k = MeaningOf(a, c.overlay)
  PROVE  /\ Laid(g, KeyOverlay(k))
         /\ KeyLegal(g, k) = HopsOf(g, a, c, 1)
         /\ KeyProfile(g, k) = ProfileOf(c, 1)
         /\ KeyOverlay(k) = FilterOf(a, c, 1).overlay
<1> DEFINE o == c.overlay
<1>1. /\ k[1] = CostOverlayName(a) /\ k[2] = Range(a.include) /\ k[3] = Range(a.exclude)
      /\ k[4] = o
  BY DEF MeaningOf
<1>2. /\ o = BuildOverlay(g, C) /\ c.own = OverlayForOrigin(o, a.from)
      /\ c.ladder = Ladder(a) /\ c.profile = EffectiveProfile(g, a) /\ Laid(g, o)
  BY ContextLaid
<1>3. o = [times |-> o.times, edges |-> o.edges, nodes |-> o.nodes, print |-> o.print]
  <2>1. PICK slowed : Laying(g, BuildOverlay(g, C), slowed)
    BY OverlayLays
  <2> QED
    BY <1>2, <2>1 DEF Laying
<1>4. /\ Len(c.ladder) \in 1 .. 3
      /\ ~c.ladder[1].access /\ (c.ladder[1].tags <=> a.include # <<>> \/ a.exclude # <<>>)
  BY <1>2, LadderIs
<1>5. ~ (1 > Len(c.ladder))
  BY <1>4
<1> HIDE DEF o
<1>6. KeyOverlay(k) = o
  BY <1>1 DEF KeyOverlay
<1>7. c.own = o
  <2>1. o.nodes \ {a.from} = o.nodes
    BY DEF o
  <2>2. OverlayForOrigin(o, a.from) = [times |-> o.times, edges |-> o.edges,
                                       nodes |-> o.nodes \ {a.from}, print |-> o.print]
    BY <1>3 DEF OverlayForOrigin
  <2> QED
    BY <1>2, <1>3, <2>1, <2>2
<1>8. KeyProfile(g, k) = c.profile
  BY <1>1, <1>2 DEF KeyProfile, EffectiveProfile
<1>9. ProfileOf(c, 1) = c.profile /\ FilterOf(a, c, 1).overlay = o
      /\ FilterOf(a, c, 1).name = "emergency" /\ ~FilterOf(a, c, 1).access
      /\ (FilterOf(a, c, 1).tags <=> a.include # <<>> \/ a.exclude # <<>>)
  BY <1>4, <1>5, <1>7 DEF ProfileOf, FilterOf
<1>10. (k[2] = {} <=> a.include = <<>>) /\ (k[3] = {} <=> a.exclude = <<>>)
  BY <1>1, NoTags DEF PlainlyTagged
<1>11. \A h : KeyTags(g, k, h) <=> TagFilter(g, a, h)
  BY <1>1, <1>10 DEF KeyTags, TagFilter
<1>12. KeyLegal(g, k) = HopsOf(g, a, c, 1)
  <2>1. ASSUME NEW h \in g.hops
        PROVE  Passes(g, a, FilterOf(a, c, 1), h) <=>
                 /\ VisibilityFilter(g, "emergency", h)
                 /\ OverlayFilter(o, h)
                 /\ a.include # <<>> \/ a.exclude # <<>> => TagFilter(g, a, h)
    BY <1>9 DEF Passes
  <2>2. k[2] \cup k[3] # {} <=> a.include # <<>> \/ a.exclude # <<>>
    BY <1>10
  <2> QED
    BY <1>6, <1>8, <1>9, <1>11, <2>1, <2>2 DEF KeyLegal, HopsOf, Legal
<1> QED
  BY <1>2, <1>6, <1>8, <1>9, <1>12 DEF o

(***************************************************************************)
(* The inductive invariant                                                  *)
(***************************************************************************)

(* d are the least costs; s is settled at them; p is a path of hops in H;  *)
(* and p leads back, hop by hop, to the source from all that is settled.    *)
Right(V, H, w, S, d) ==
  \A B : Rounds(V, H, w, S, B) => d = B[Cardinality(V)]
RightAt(V, H, w, S, d, s) ==
  \A B : Rounds(V, H, w, S, B) =>
    \A n \in s : n \in DOMAIN B[Cardinality(V)] /\ d[n] = B[Cardinality(V)][n]
Hop(H, m, n) == \E h \in H : h.from = m /\ h.to = n
Chain(V, p, H) == p \in Seq(V) /\ \A i \in 1 .. Len(p) - 1 : Hop(H, p[i], p[i + 1])
Traced(H, S, p, s) ==
  /\ \A n \in s : n \in DOMAIN p \/ n \in S
  /\ \A n \in DOMAIN p : n \notin S /\ p[n] \in s /\ Hop(H, p[n], n)

Nodes == DOMAIN graph.node
Meaning == MeaningOf(q, ctx.overlay)
Legals == HopsOf(graph, q, ctx, rung)
Prices == PricesOf(graph, q, ctx, rung)

(* A field is sound for what its key means; the key is a text, and was that  *)
(* of some request under some closures.                                     *)
SoundFor(g, k, f) ==
  /\ Laid(g, KeyOverlay(k))
  /\ Right(DOMAIN g.node, KeyHops(g, k), KeyPrices(g, k), ExitsOf(g), f.dist)
  /\ \A n \in DOMAIN f.next : Hop(KeyLegal(g, k), n, f.next[n])
FieldSound(g, f) ==
  \E a \in Queries, C \in ClosureSets :
    /\ f.key = KeyText(a, BuildOverlay(g, C))
    /\ SoundFor(g, MeaningOf(a, BuildOverlay(g, C)), f)
AllSound(g, s) == \E T : s \in Seq(T) /\ \A f \in T : FieldSound(g, f)

PlanTyped(V, p) ==
  /\ DOMAIN p = {"path", "cost", "rung", "legs", "others"}
  /\ p.legs \in Seq(Seq(V))

(* A request is being planned, or was answered with a route.               *)
Live == phase # "idle" \/ reply.status = 200

GraphInv == WellFormed(graph) /\ AllSound(graph, fields)

ContextInv ==
  Live =>
    /\ request.closures \in ClosureSets /\ q \in Queries
    /\ ctx = Context(graph, q, request.closures)
    /\ q.from \in Nodes
    /\ rung \in 1 .. Len(ctx.ladder) + 1
    /\ IsLastResort(rung) => Evacuating
    /\ PlanTyped(Nodes, plan)
    /\ stage \in {"primary", "alternative"}
    /\ (stage = "alternative" => Evacuating) /\ (stage = "primary" => skip = {})

OrderInv ==
  phase = "order" =>
    /\ Begun({q.from}, dist, prev, settled, heap)
    /\ ~Evacuating /\ plan = Nothing /\ stage = "primary" /\ skip = {}

FieldInv ==
  /\ phase \in {"lookup", "field", "walk"} =>
       /\ Evacuating /\ ~Wheelchair /\ q.from \notin ctx.overlay.nodes /\ rung = 1
       /\ stage = "primary" /\ skip = {} /\ plan.path = <<>> /\ plan.others = {}
  /\ phase = "field" =>
       /\ Searching(Nodes, KeyHops(graph, Meaning), KeyPrices(graph, Meaning), ExitsOf(graph),
                    dist, prev, settled, heap)
       /\ Within(Nodes, KeyHops(graph, Meaning), KeyPrices(graph, Meaning), ExitsOf(graph), dist, settled)
  /\ phase = "walk" =>
       /\ Right(Nodes, KeyHops(graph, Meaning), KeyPrices(graph, Meaning), ExitsOf(graph), dist)
       /\ \A n \in DOMAIN prev : Hop(KeyLegal(graph, Meaning), n, prev[n])
       /\ Chain(Nodes, path, KeyLegal(graph, Meaning)) /\ path # <<>> /\ path[Len(path)] = cursor

SearchInv ==
  phase = "search" =>
    /\ Source \in Nodes
    /\ Searching(Nodes, Legals, Prices, {Source}, dist, prev, settled, heap)
    /\ Within(Nodes, Legals, Prices, {Source}, dist, settled)
    /\ \A n \in settled : ~Goal(n)

UnwindInv ==
  phase = "unwind" =>
    /\ Source \in Nodes /\ settled \subseteq Nodes
    /\ RightAt(Nodes, Legals, Prices, {Source}, dist, settled)
    /\ Traced(Legals, {Source}, prev, settled)
    /\ Chain(Nodes, path, Legals)
    /\ cursor \in settled \cup {None}
    /\ cursor = None => path # <<>> /\ path[1] = Source
    /\ cursor # None /\ path # <<>> => Hop(Legals, cursor, path[1])
    /\ IF path = <<>> THEN Goal(cursor) ELSE Goal(path[Len(path)])

SearchesInv == GraphInv /\ ContextInv /\ OrderInv /\ FieldInv /\ SearchInv /\ UnwindInv

(* The reference definitions and the planner's own, in these words.         *)
LEMMA AttemptIs ==
  ASSUME NEW r
  PROVE  /\ FilterAt(r) = FilterOf(q, ctx, r) /\ ProfileAt(r) = ProfileOf(ctx, r)
BY DEF FilterAt, ProfileAt, FilterOf, ProfileOf, IsLastResort, Evacuating

(* What a forward search may use, in these words.                           *)
LEMMA SearchedIs ==
  ASSUME phase # "field"
  PROVE  Usable = Legals /\ \A h \in Legals : Cost(h) = Prices[h]
BY AttemptIs DEF Usable, Cost, Legals, Prices, HopsOf, PricesOf

(* What a field search may use, and what its follower may walk.             *)
LEMMA FieldSearchedIs ==
  ASSUME ContextInv, FieldInv, phase \in {"lookup", "field", "walk"}
  PROVE  /\ {Reversed(h) : h \in Legal(graph, q, FilterAt(1), ctx.profile)} = KeyHops(graph, Meaning)
         /\ phase = "field" => Usable = KeyHops(graph, Meaning)
         /\ \A h \in KeyHops(graph, Meaning) : Cost(h) = KeyPrices(graph, Meaning)[h]
         /\ Laid(graph, KeyOverlay(Meaning))
         /\ KeyLegal(graph, Meaning) = Legals
<1>1. /\ request.closures \in ClosureSets /\ ctx = Context(graph, q, request.closures)
      /\ q.mode = "evacuate" /\ q.name # "wheelchair" /\ q.from \notin ctx.overlay.nodes /\ rung = 1
      /\ q \in Queries
  BY DEF ContextInv, FieldInv, Live, Evacuating, Wheelchair
<1>2. /\ Laid(graph, KeyOverlay(Meaning))
      /\ KeyLegal(graph, Meaning) = HopsOf(graph, q, ctx, 1)
      /\ KeyProfile(graph, Meaning) = ProfileOf(ctx, 1)
      /\ KeyOverlay(Meaning) = FilterOf(q, ctx, 1).overlay
  BY <1>1, KeySaysAll, WayfindingTags DEF Meaning, PlainlyTagged
<1>3. ctx.profile = ProfileOf(ctx, 1)
  <2>1. ctx.ladder = Ladder(q)
    BY <1>1, ContextLaid
  <2>2. Len(Ladder(q)) \in 1 .. 3
    BY LadderIs
  <2>3. ~ (1 > Len(ctx.ladder))
    BY <2>1, <2>2
  <2> QED
    BY <2>3, Zenon DEF ProfileOf
<1>4. Legal(graph, q, FilterAt(1), ctx.profile) = KeyLegal(graph, Meaning)
  BY <1>2, <1>3, AttemptIs DEF HopsOf
<1>5. \A h \in KeyHops(graph, Meaning) : Cost(h) = KeyPrices(graph, Meaning)[h]
  BY <1>1, <1>2, AttemptIs DEF Cost, KeyPrices
<1> QED
  BY <1>1, <1>2, <1>4, <1>5 DEF KeyHops, Usable, Legals

(* While graph, request and context stay, so does all that is read off them. *)
LEMMA SameRequest ==
  ASSUME UNCHANGED <<graph, request, ctx>>
  PROVE  /\ Nodes' = Nodes /\ q' = q /\ Meaning' = Meaning
         /\ (Evacuating' <=> Evacuating) /\ (Wheelchair' <=> Wheelchair)
         /\ rung' = rung => Legals' = Legals /\ Prices' = Prices
BY DEF Nodes, q, Meaning, Legals, Prices, Evacuating, Wheelchair

(* Nothing is planned at first.                                             *)
LEMMA SearchesInit ==
  ASSUME WInit
  PROVE  SearchesInv
<1>1. phase = "idle" /\ reply.status = 0 /\ fields = <<>>
  BY DEF WInit, Init, NoReply
<1>2. WellFormed(graph)
  BY LoadedGraphs DEF WInit, Init
<1>3. AllSound(graph, fields)
  <2>1. fields \in Seq({})
    BY <1>1
  <2> QED
    BY <2>1 DEF AllSound
<1> QED
  BY <1>1, <1>2, <1>3 DEF SearchesInv, GraphInv, ContextInv, OrderInv, FieldInv, SearchInv,
                          UnwindInv, Live

(* A search begun at o searches the network of its attempt.                 *)
LEMMA SearchStarts ==
  ASSUME NEW g, WellFormed(g), NEW a, NEW C \in ClosureSets, NEW c, c = Context(g, a, C), NEW r,
         NEW o \in DOMAIN g.node, NEW d, NEW p, NEW s, NEW e, Begun({o}, d, p, s, e)
  PROVE  /\ Searching(DOMAIN g.node, HopsOf(g, a, c, r), PricesOf(g, a, c, r), {o}, d, p, s, e)
         /\ Within(DOMAIN g.node, HopsOf(g, a, c, r), PricesOf(g, a, c, r), {o}, d, s)
         /\ s = {}
<1>1. Network(DOMAIN g.node, HopsOf(g, a, c, r), PricesOf(g, a, c, r))
  BY SearchNetwork
<1>2. {o} \in SUBSET DOMAIN g.node
  OBVIOUS
<1> QED
  BY <1>1, <1>2, SearchBegins DEF Begun

(* StartFrom begins a search.                                               *)
LEMMA StartedFrom ==
  ASSUME NEW S, StartFrom(S)
  PROVE  Begun(S, dist', prev', settled', heap')
BY DEF StartFrom, Begun

(* The first attempt is one of the ladder.                                  *)
LEMMA FirstAttempt ==
  ASSUME NEW a
  PROVE  1 \in 1 .. Len(Ladder(a)) + 1 /\ ~ (1 > Len(Ladder(a)))
<1>1. Len(Ladder(a)) \in 1 .. 3
  BY LadderIs
<1> QED
  BY <1>1

(* A search that begins at o, for the request that is or has just come.     *)
LEMMA FromTheStart ==
  ASSUME WellFormed(graph), graph' = graph,
         request'.closures \in ClosureSets, ctx' = Context(graph, q', request'.closures),
         NEW o \in Nodes, Source' = o, StartFrom({o}), phase' = "search"
  PROVE  SearchInv'
<1>1. Begun({o}, dist', prev', settled', heap')
  BY StartedFrom
<1>2. /\ Searching(DOMAIN graph'.node, HopsOf(graph', q', ctx', rung'),
                   PricesOf(graph', q', ctx', rung'), {o}, dist', prev', settled', heap')
      /\ Within(DOMAIN graph'.node, HopsOf(graph', q', ctx', rung'),
                   PricesOf(graph', q', ctx', rung'), {o}, dist', settled')
      /\ settled' = {}
  BY <1>1, SearchStarts DEF Nodes
<1> QED
  BY <1>2 DEF SearchInv, Nodes, Legals, Prices

(* A request comes.                                                         *)
LEMMA ArriveKeeps ==
  ASSUME SearchesInv, NEW qq \in Queries, NEW C \in ClosureSets, Arrive(qq, C)
  PROVE  SearchesInv'
<1>1. /\ graph' = graph /\ fields' = fields /\ qq.from \in Nodes
      /\ request' = [query |-> qq, closures |-> C] /\ plan' = Nothing
      /\ rung' = 1 /\ stage' = "primary" /\ skip' = {}
  BY DEF Arrive, Nodes
<1>2. GraphInv'
  BY <1>1 DEF SearchesInv, GraphInv
<1>3. q' = qq /\ request'.closures = C
  BY <1>1 DEF q
<1>4. CASE Rejection(graph, qq) # 0
  <2>1. phase' = "idle" /\ reply'.status = Rejection(graph, qq)
    BY <1>4 DEF Arrive
  <2>2. Rejection(graph, qq) # 200
    BY DEF Rejection
  <2> QED
    BY <1>2, <2>1, <2>2 DEF SearchesInv, ContextInv, OrderInv, FieldInv, SearchInv, UnwindInv, Live
<1>5. CASE Rejection(graph, qq) = 0
  <2>1. /\ ctx' = Context(graph, qq, C) /\ StartFrom({qq.from})
        /\ phase' = IF qq.mode = "evacuate"
                    THEN IF qq.name = "wheelchair" \/ qq.from \in ctx'.overlay.nodes
                         THEN "search" ELSE "lookup"
                    ELSE IF Len(ctx'.stops) > 1 /\ ~HasDuplicate(ctx'.stops) THEN "order" ELSE "search"
    BY <1>5 DEF Arrive
  <2>2. ctx'.ladder = Ladder(qq)
    BY <2>1 DEF Context
  <2>3. rung' \in 1 .. Len(ctx'.ladder) + 1 /\ ~IsLastResort(rung)'
    BY <1>1, <2>2, FirstAttempt DEF IsLastResort
  <2>4. /\ plan'.legs = <<>> /\ plan'.path = <<>> /\ plan'.others = {}
        /\ PlanTyped(Nodes, plan')
    BY <1>1 DEF Nothing, PlanTyped
  <2>5. ContextInv'
    BY <1>1, <1>3, <2>1, <2>3, <2>4 DEF ContextInv, Nodes
  <2>6. Source' = qq.from
    BY <1>3, <2>4 DEF Source
  <2>7. OrderInv'
    <3>1. Begun({qq.from}, dist', prev', settled', heap')
      BY <2>1, StartedFrom
    <3>2. phase' = "order" => ~Evacuating'
      BY <1>3, <2>1 DEF Evacuating
    <3> QED
      BY <1>1, <1>3, <3>1, <3>2 DEF OrderInv
  <2>8. FieldInv'
    BY <1>1, <1>3, <2>1, <2>4 DEF FieldInv, Evacuating, Wheelchair
  <2>9. SearchInv'
    <3>1. phase' = "search" => SearchInv'
      BY <1>1, <1>3, <2>1, <2>6, FromTheStart DEF SearchesInv, GraphInv
    <3> QED
      BY <3>1 DEF SearchInv
  <2>10. UnwindInv'
    BY <2>1 DEF UnwindInv
  <2> QED
    BY <1>2, <2>5, <2>7, <2>8, <2>9, <2>10 DEF SearchesInv
<1> QED
  BY <1>4, <1>5

(* Ordering the stops does not touch the search that waits for it.          *)
LEMMA TwoOptKeeps ==
  ASSUME SearchesInv, TwoOpt
  PROVE  SearchesInv'
<1>1. /\ UNCHANGED <<graph, request, ctx>> /\ UNCHANGED <<fields, rung, stage, skip, plan>>
      /\ UNCHANGED <<dist, prev, settled, heap>>
      /\ phase = "order" /\ phase' \in {"order", "search"}
  BY DEF TwoOpt, searchVars
<1>2. /\ Nodes' = Nodes /\ q' = q /\ Legals' = Legals /\ Prices' = Prices
      /\ (Evacuating' <=> Evacuating)
  BY <1>1, SameRequest
<1>3. /\ Begun({q.from}, dist, prev, settled, heap)
      /\ ~Evacuating /\ plan = Nothing /\ stage = "primary" /\ skip = {}
      /\ q.from \in Nodes
  BY <1>1 DEF SearchesInv, OrderInv, ContextInv, Live
<1>4. GraphInv' /\ ContextInv'
  BY <1>1, <1>2 DEF SearchesInv, GraphInv, ContextInv, Live, IsLastResort
<1>5. OrderInv'
  BY <1>1, <1>2, <1>3 DEF OrderInv
<1>6. SearchInv'
  <2>1. Source' = q.from
    BY <1>1, <1>2, <1>3 DEF Source, Nothing
  <2>2. /\ Searching(Nodes, Legals, Prices, {q.from}, dist, prev, settled, heap)
        /\ Within(Nodes, Legals, Prices, {q.from}, dist, settled) /\ settled = {}
    <3>1. /\ WellFormed(graph) /\ request.closures \in ClosureSets
          /\ ctx = Context(graph, q, request.closures)
      BY <1>1 DEF SearchesInv, GraphInv, ContextInv, Live
    <3> QED
      BY <1>3, <3>1, SearchStarts DEF Nodes, Legals, Prices
  <2> QED
    BY <1>1, <1>2, <1>3, <2>1, <2>2 DEF SearchInv
<1>7. FieldInv' /\ UnwindInv'
  BY <1>1 DEF FieldInv, UnwindInv
<1> QED
  BY <1>4, <1>5, <1>6, <1>7 DEF SearchesInv

(* Moving a field to the end keeps the cache a sequence of the same fields. *)
LEMMA WithoutIs ==
  ASSUME NEW T, NEW s \in Seq(T), NEW i \in DOMAIN s
  PROVE  Append(Without(s, i), s[i]) \in Seq(T)
<1>1. Len(s) \in Nat /\ DOMAIN s = 1 .. Len(s) /\ \A k \in 1 .. Len(s) : s[k] \in T
  BY LenProperties
<1>2. s[i] \in T /\ Len(s) - 1 \in Nat
  BY <1>1
<1>3. Without(s, i) \in Seq(T)
  <2> DEFINE e(k) == IF k < i THEN s[k] ELSE s[k + 1]
  <2>1. \A k \in 1 .. Len(s) - 1 : e(k) \in T
    BY <1>1
  <2>2. [k \in 1 .. Len(s) - 1 |-> e(k)] \in [1 .. Len(s) - 1 -> T]
    BY <2>1
  <2>3. [k \in 1 .. Len(s) - 1 |-> e(k)] \in Seq(T)
    <3> HIDE DEF e
    <3> QED
      BY <1>2, <2>2, SeqDef
  <2> QED
    BY <2>3 DEF Without
<1> QED
  BY <1>2, <1>3

(* A plan with another cost.                                                *)
LEMMA CostedPlan ==
  ASSUME NEW X, NEW p, PlanTyped(X, p), NEW c
  PROVE  /\ PlanTyped(X, [p EXCEPT !.cost = c])
         /\ [p EXCEPT !.cost = c].legs = p.legs /\ [p EXCEPT !.cost = c].path = p.path
         /\ [p EXCEPT !.cost = c].others = p.others /\ [p EXCEPT !.cost = c].rung = p.rung
BY DEF PlanTyped

(* A sound field is followed, or the ladder is taken from its start.        *)
LEMMA FollowKeeps ==
  ASSUME WellFormed(graph), ContextInv, FieldInv, phase \in {"lookup", "field"}, AllSound(graph, fields'),
         UNCHANGED <<graph, request, ctx, stage, rung, skip>>,
         NEW f, SoundFor(graph, Meaning, f), Follow(f)
  PROVE  SearchesInv'
<1>1. /\ Nodes' = Nodes /\ q' = q /\ Legals' = Legals /\ Prices' = Prices /\ Meaning' = Meaning
      /\ (Evacuating' <=> Evacuating) /\ (Wheelchair' <=> Wheelchair)
  BY SameRequest
<1>2. /\ request.closures \in ClosureSets /\ ctx = Context(graph, q, request.closures)
      /\ q.from \in Nodes /\ rung \in 1 .. Len(ctx.ladder) + 1 /\ q \in Queries
      /\ (IsLastResort(rung) => Evacuating) /\ PlanTyped(Nodes, plan)
  BY DEF ContextInv, Live
<1>3. /\ Evacuating /\ ~Wheelchair /\ q.from \notin ctx.overlay.nodes /\ rung = 1
      /\ stage = "primary" /\ skip = {} /\ plan.path = <<>> /\ plan.others = {}
  BY DEF FieldInv
<1>4. /\ plan'.legs = plan.legs /\ plan'.path = plan.path /\ plan'.others = plan.others
      /\ PlanTyped(Nodes, plan')
  <2>1. \/ plan' = [plan EXCEPT !.cost = f.dist[q.from]]
        \/ plan' = plan
    BY DEF Follow
  <2>2. \A c : /\ PlanTyped(Nodes, [plan EXCEPT !.cost = c])
               /\ [plan EXCEPT !.cost = c].legs = plan.legs
               /\ [plan EXCEPT !.cost = c].path = plan.path
               /\ [plan EXCEPT !.cost = c].others = plan.others
    BY <1>2, CostedPlan
  <2> QED
    BY <1>2, <2>1, <2>2
<1>5. GraphInv'
  BY DEF GraphInv
<1>6. ContextInv'
  BY <1>1, <1>2, <1>3, <1>4 DEF ContextInv, IsLastResort
<1>7. phase' \in {"walk", "search"}
  BY DEF Follow
<1>8. FieldInv'
  <2>1. /\ Evacuating' /\ ~Wheelchair' /\ q'.from \notin ctx'.overlay.nodes /\ rung' = 1
        /\ stage' = "primary" /\ skip' = {} /\ plan'.path = <<>> /\ plan'.others = {}
    BY <1>1, <1>3, <1>4
  <2>2. ASSUME phase' = "walk"
        PROVE  /\ Right(Nodes, KeyHops(graph, Meaning), KeyPrices(graph, Meaning), ExitsOf(graph), dist')
               /\ \A n \in DOMAIN prev' : Hop(KeyLegal(graph, Meaning), n, prev'[n])
               /\ Chain(Nodes, path', KeyLegal(graph, Meaning)) /\ path' # <<>> /\ path'[Len(path')] = cursor'
    <3>1. prev' = f.next /\ dist' = f.dist /\ path' = <<q.from>> /\ cursor' = q.from
      BY <2>2 DEF Follow
    <3>2. Chain(Nodes, <<q.from>>, KeyLegal(graph, Meaning))
      <4>1. <<q.from>> \in Seq(Nodes) /\ Len(<<q.from>>) = 1
        BY <1>2
      <4> QED
        BY <4>1 DEF Chain
    <3>3. path' # <<>> /\ path'[Len(path')] = cursor'
      BY <3>1
    <3>4. Right(Nodes, KeyHops(graph, Meaning), KeyPrices(graph, Meaning), ExitsOf(graph), f.dist)
          /\ \A n \in DOMAIN f.next : Hop(KeyLegal(graph, Meaning), n, f.next[n])
      BY DEF SoundFor, Nodes
    <3> QED
      BY <3>1, <3>2, <3>3, <3>4
  <2> QED
    BY <1>1, <1>7, <2>1, <2>2 DEF FieldInv
<1>9. SearchInv'
  <2>1. phase' = "search" => StartFrom({q.from})
    BY DEF Follow
  <2>2. Source' = q.from
    BY <1>1, <1>3 DEF Source
  <2>3. phase' = "search" => SearchInv'
    BY <1>1, <1>2, <2>1, <2>2, FromTheStart
  <2> QED
    BY <2>3 DEF SearchInv
<1>10. OrderInv' /\ UnwindInv'
  BY <1>7 DEF OrderInv, UnwindInv
<1> QED
  BY <1>5, <1>6, <1>8, <1>9, <1>10 DEF SearchesInv

(* A cached field is followed.                                              *)
LEMMA FieldHitKeeps ==
  ASSUME SearchesInv, FieldHit
  PROVE  SearchesInv'
<1>1. PICK i \in Kept(FieldKey) : /\ fields' = Append(Without(fields, i), fields[i])
                                  /\ Follow(fields[i])
  BY DEF FieldHit
<1>2. UNCHANGED <<graph, request, ctx, stage, rung, skip>> /\ phase = "lookup"
  BY DEF FieldHit
<1>3. PICK T : fields \in Seq(T) /\ \A f \in T : FieldSound(graph, f)
  BY DEF SearchesInv, GraphInv, AllSound
<1>4. i \in DOMAIN fields /\ fields[i].key = KeyText(q, ctx.overlay)
  BY <1>1 DEF Kept, FieldKey
<1>5. fields[i] \in T
  BY <1>3, <1>4, LenProperties
<1>6. AllSound(graph, fields')
  BY <1>1, <1>3, <1>4, WithoutIs DEF AllSound
<1>7. WellFormed(graph) /\ ContextInv /\ FieldInv
  BY DEF SearchesInv, GraphInv
<1>8. FieldSound(graph, fields[i])
  BY <1>3, <1>5
<1>9. SoundFor(graph, Meaning, fields[i])
  <2>1. PICK a \in Queries, C \in ClosureSets :
          /\ fields[i].key = KeyText(a, BuildOverlay(graph, C))
          /\ SoundFor(graph, MeaningOf(a, BuildOverlay(graph, C)), fields[i])
    BY <1>8 DEF FieldSound
  <2>2. /\ request.closures \in ClosureSets /\ q \in Queries
        /\ ctx = Context(graph, q, request.closures)
    BY <1>2, <1>7 DEF ContextInv, Live
  <2>3. ctx.overlay = BuildOverlay(graph, request.closures)
    BY <2>2, ContextLaid
  <2>4. KeyText(a, BuildOverlay(graph, C)) = KeyText(q, BuildOverlay(graph, request.closures))
    BY <1>4, <2>1, <2>3
  <2>5. MeaningOf(a, BuildOverlay(graph, C)) = Meaning
    BY <1>7, <2>2, <2>3, <2>4, SharedKeys DEF Meaning
  <2> QED
    BY <2>1, <2>5
<1> QED
  BY <1>1, <1>2, <1>6, <1>7, <1>9, FollowKeeps

(* A field begins to be searched.                                           *)
LEMMA FieldMissKeeps ==
  ASSUME SearchesInv, FieldMiss
  PROVE  SearchesInv'
<1>1. /\ UNCHANGED <<graph, request, ctx>> /\ UNCHANGED <<fields, stage, rung, skip, plan>>
      /\ phase = "lookup" /\ phase' = "field" /\ StartFrom(ExitsOf(graph))
  BY DEF FieldMiss
<1>2. /\ Nodes' = Nodes /\ q' = q /\ Meaning' = Meaning
      /\ (Evacuating' <=> Evacuating) /\ (Wheelchair' <=> Wheelchair)
  BY <1>1, SameRequest
<1>3. GraphInv' /\ ContextInv'
  BY <1>1, <1>2 DEF SearchesInv, GraphInv, ContextInv, Live, IsLastResort
<1>4. /\ Searching(Nodes, KeyHops(graph, Meaning), KeyPrices(graph, Meaning), ExitsOf(graph),
                   dist', prev', settled', heap')
      /\ Within(Nodes, KeyHops(graph, Meaning), KeyPrices(graph, Meaning), ExitsOf(graph), dist', settled')
  <2>1. WellFormed(graph) /\ Laid(graph, KeyOverlay(Meaning))
    BY <1>1, FieldSearchedIs DEF SearchesInv, GraphInv
  <2>2. Network(Nodes, KeyHops(graph, Meaning), KeyPrices(graph, Meaning))
    BY <2>1, KeyNetwork DEF Nodes
  <2>3. ExitsOf(graph) \in SUBSET Nodes
    BY DEF ExitsOf, Nodes
  <2>4. Begun(ExitsOf(graph), dist', prev', settled', heap')
    BY <1>1, StartedFrom
  <2> QED
    BY <2>2, <2>3, <2>4, SearchBegins
<1>5. FieldInv'
  <2>1. /\ Evacuating /\ ~Wheelchair /\ q.from \notin ctx.overlay.nodes /\ rung = 1
        /\ stage = "primary" /\ skip = {} /\ plan.path = <<>> /\ plan.others = {}
    BY <1>1 DEF SearchesInv, FieldInv
  <2> QED
    BY <1>1, <1>2, <1>4, <2>1 DEF FieldInv
<1>6. OrderInv' /\ SearchInv' /\ UnwindInv'
  BY <1>1 DEF OrderInv, SearchInv, UnwindInv
<1> QED
  BY <1>3, <1>5, <1>6 DEF SearchesInv

(* A field that has run dry is right.                                      *)
LEMMA FieldDoneSound ==
  ASSUME WellFormed(graph), ContextInv, FieldInv, phase = "field", heap = {}
  PROVE  /\ SoundFor(graph, Meaning, [key |-> FieldKey, dist |-> dist, next |-> prev])
         /\ FieldSound(graph, [key |-> FieldKey, dist |-> dist, next |-> prev])
<1> DEFINE H == KeyHops(graph, Meaning)
           w == KeyPrices(graph, Meaning)
           f == [key |-> FieldKey, dist |-> dist, next |-> prev]
<1>1. Laid(graph, KeyOverlay(Meaning))
  BY FieldSearchedIs
<1>2. /\ Network(Nodes, H, w)
      /\ \A h \in H : \E x \in KeyLegal(graph, Meaning) : x.from = h.to /\ x.to = h.from
  BY <1>1, KeyNetwork DEF Nodes
<1>3. /\ Searching(Nodes, H, w, ExitsOf(graph), dist, prev, settled, heap)
      /\ Within(Nodes, H, w, ExitsOf(graph), dist, settled)
  BY DEF FieldInv
<1>4. ExitsOf(graph) \in SUBSET Nodes
  BY DEF ExitsOf, Nodes
<1> HIDE DEF H, w
<1>5. Right(Nodes, H, w, ExitsOf(graph), dist)
  <2> SUFFICES ASSUME NEW B, Rounds(Nodes, H, w, ExitsOf(graph), B)
               PROVE  dist = B[Cardinality(Nodes)]
    BY DEF Right
  <2>1. Final(B[Cardinality(Nodes)], dist, settled, heap)
    BY <1>2, <1>3, <1>4, SettledForGood
  <2> QED
    BY <2>1 DEF Final
<1>6. \A n \in DOMAIN prev : Hop(KeyLegal(graph, Meaning), n, prev[n])
  <2> SUFFICES ASSUME NEW n \in DOMAIN prev
               PROVE  Hop(KeyLegal(graph, Meaning), n, prev[n])
    OBVIOUS
  <2>1. PICK h \in H : h.from = prev[n] /\ h.to = n
    BY <1>3 DEF Searching
  <2> QED
    BY <1>2, <2>1 DEF Hop
<1>7. f.key = KeyText(q, ctx.overlay) /\ f.dist = dist /\ f.next = prev
  BY DEF FieldKey
<1> HIDE DEF f
<1>8. SoundFor(graph, Meaning, f)
  BY <1>1, <1>5, <1>6, <1>7 DEF SoundFor, Nodes, H, w
<1>9. FieldSound(graph, f)
  <2>1. /\ request.closures \in ClosureSets /\ q \in Queries
        /\ ctx.overlay = BuildOverlay(graph, request.closures)
    BY ContextLaid DEF ContextInv, Live
  <2> QED
    BY <1>7, <1>8, <2>1 DEF FieldSound, Meaning
<1> QED
  BY <1>8, <1>9 DEF f

(* It is cached and followed.                                               *)
LEMMA FieldDoneKeeps ==
  ASSUME SearchesInv, FieldDone
  PROVE  SearchesInv'
<1> DEFINE field == [key |-> FieldKey, dist |-> dist, next |-> prev]
           all == Append(fields, field)
<1>1. /\ UNCHANGED <<graph, request, ctx, stage, rung, skip>> /\ phase = "field" /\ heap = {}
      /\ fields' = (IF Len(all) > MaxFields THEN Tail(all) ELSE all) /\ Follow(field)
  BY DEF FieldDone
<1>2. WellFormed(graph) /\ ContextInv /\ FieldInv
  BY DEF SearchesInv, GraphInv
<1>3. FieldSound(graph, field) /\ SoundFor(graph, Meaning, field)
  BY <1>1, <1>2, FieldDoneSound
<1>4. PICK T : fields \in Seq(T) /\ \A f \in T : FieldSound(graph, f)
  BY DEF SearchesInv, GraphInv, AllSound
<1> HIDE DEF field
<1>5. AllSound(graph, fields')
  <2> DEFINE U == T \cup {field}
  <2>1. fields \in Seq(U) /\ field \in U /\ \A f \in U : FieldSound(graph, f)
    BY <1>3, <1>4, SeqMonotonic
  <2> HIDE DEF U
  <2>2. all \in Seq(U) /\ all # <<>>
    BY <2>1, AppendProperties
  <2> HIDE DEF all
  <2>3. Tail(all) \in Seq(U)
    BY <2>2, HeadTailProperties
  <2> QED
    BY <1>1, <2>1, <2>2, <2>3 DEF AllSound
<1> QED
  BY <1>1, <1>2, <1>3, <1>5, FollowKeeps

(* Relax, over a named network.                                             *)
LEMMA RelaxIs ==
  ASSUME NEW H, NEW w, Usable = H, \A h \in H : Cost(h) = w[h], NEW n, NEW c, Relax(n, c)
  PROVE  RelaxedTo(H, w, dist, prev, settled, heap, n, c, dist', prev', heap')
<1> DEFINE out == {h \in H : h.from = n /\ h.to \notin settled \cup {n}}
           C(m) == c + Min({Cost(h) : h \in {k \in out : k.to = m}})
           D(m) == c + Min({w[h] : h \in {k \in out : k.to = m}})
<1>1. \A m : C(m) = D(m)
  <2>1. \A m : {Cost(h) : h \in {k \in out : k.to = m}} = {w[h] : h \in {k \in out : k.to = m}}
    OBVIOUS
  <2> QED
    BY <2>1
<1>2. LET better == {m \in {h.to : h \in out} : m \in DOMAIN dist => C(m) < dist[m]}
      IN /\ dist' = [m \in DOMAIN dist \cup better |-> IF m \in better THEN C(m) ELSE dist[m]]
         /\ prev' = [m \in DOMAIN prev \cup better |-> IF m \in better THEN n ELSE prev[m]]
         /\ heap' = (heap \ {[priority |-> c, node |-> n]})
                    \cup {[priority |-> C(m), node |-> m] : m \in better}
  BY DEF Relax
<1>3. LET better == {m \in {h.to : h \in out} : m \in DOMAIN dist => D(m) < dist[m]}
      IN /\ dist' = [m \in DOMAIN dist \cup better |-> IF m \in better THEN D(m) ELSE dist[m]]
         /\ prev' = [m \in DOMAIN prev \cup better |-> IF m \in better THEN n ELSE prev[m]]
         /\ heap' = (heap \ {[priority |-> c, node |-> n]})
                    \cup {[priority |-> D(m), node |-> m] : m \in better}
  <2> HIDE DEF C, D, out
  <2> QED
    BY <1>1, <1>2
<1> QED
  BY <1>3 DEF RelaxedTo

(* What the searching phases leave alone.                                  *)
LEMMA SearchFrame ==
  ASSUME SearchesInv, phase \in {"search", "field"},
         UNCHANGED <<graph, request, ctx>>,
         UNCHANGED <<fields, phase, tour, stage, rung, skip, cursor, path, plan, reply>>
  PROVE  /\ Nodes' = Nodes /\ Meaning' = Meaning /\ Legals' = Legals /\ Prices' = Prices
         /\ Source' = Source /\ \A n : Goal(n)' <=> Goal(n)
         /\ GraphInv' /\ ContextInv' /\ OrderInv' /\ UnwindInv'
         /\ phase = "field" => SearchInv'
         /\ phase = "search" => FieldInv'
<1>1. /\ Nodes' = Nodes /\ q' = q /\ Meaning' = Meaning /\ Legals' = Legals /\ Prices' = Prices
      /\ (Evacuating' <=> Evacuating) /\ (Wheelchair' <=> Wheelchair)
  BY SameRequest
<1>2. GraphInv' /\ ContextInv'
  BY <1>1 DEF SearchesInv, GraphInv, ContextInv, Live, IsLastResort
<1>3. Source' = Source /\ \A n : Goal(n)' <=> Goal(n)
  BY <1>1 DEF Source, Goal
<1>4. OrderInv' /\ UnwindInv' /\ (phase = "field" => SearchInv') /\ (phase = "search" => FieldInv')
  BY DEF OrderInv, UnwindInv, SearchInv, FieldInv
<1> QED
  BY <1>1, <1>2, <1>3, <1>4

(* A step of a field search.                                                *)
LEMMA FieldFrame ==
  ASSUME SearchesInv, phase = "field",
         UNCHANGED <<graph, request, ctx>>,
         UNCHANGED <<fields, phase, tour, stage, rung, skip, cursor, path, plan, reply>>,
         /\ Searching(Nodes, KeyHops(graph, Meaning), KeyPrices(graph, Meaning), ExitsOf(graph),
                      dist', prev', settled', heap')
         /\ Within(Nodes, KeyHops(graph, Meaning), KeyPrices(graph, Meaning), ExitsOf(graph), dist', settled')
  PROVE  FieldInv'
<1>1. /\ Nodes' = Nodes /\ q' = q /\ Meaning' = Meaning
      /\ (Evacuating' <=> Evacuating) /\ (Wheelchair' <=> Wheelchair)
  BY SameRequest
<1>2. /\ Evacuating /\ ~Wheelchair /\ q.from \notin ctx.overlay.nodes /\ rung = 1
      /\ stage = "primary" /\ skip = {} /\ plan.path = <<>> /\ plan.others = {}
  BY DEF SearchesInv, FieldInv
<1> QED
  BY <1>1, <1>2 DEF FieldInv

(* A stale entry is dropped.                                                *)
LEMMA DropStaleKeeps ==
  ASSUME SearchesInv, DropStale
  PROVE  SearchesInv'
<1>1. /\ phase \in {"search", "field"} /\ UNCHANGED <<graph, request, ctx>>
      /\ UNCHANGED <<fields, phase, tour, stage, rung, skip, cursor, path, plan, reply>>
      /\ UNCHANGED <<dist, prev, settled>>
  BY DEF DropStale
<1>2. PICK i \in heap : i.node \in settled /\ heap' = heap \ {i}
  BY DEF DropStale
<1>3. /\ Nodes' = Nodes /\ Meaning' = Meaning /\ Legals' = Legals /\ Prices' = Prices
      /\ Source' = Source /\ \A n : Goal(n)' <=> Goal(n)
      /\ GraphInv' /\ ContextInv' /\ OrderInv' /\ UnwindInv'
      /\ phase = "field" => SearchInv'
      /\ phase = "search" => FieldInv'
  BY <1>1, SearchFrame
<1>4. CASE phase = "search"
  <2>1. /\ Source \in Nodes /\ Searching(Nodes, Legals, Prices, {Source}, dist, prev, settled, heap)
        /\ Within(Nodes, Legals, Prices, {Source}, dist, settled) /\ \A n \in settled : ~Goal(n)
    BY <1>4 DEF SearchesInv, SearchInv
  <2>2. Searching(Nodes, Legals, Prices, {Source}, dist, prev, settled, heap')
    BY <1>2, <2>1, SearchDrops
  <2>3. SearchInv'
    BY <1>1, <1>3, <2>1, <2>2 DEF SearchInv
  <2> QED
    BY <1>3, <1>4, <2>3 DEF SearchesInv
<1>5. CASE phase = "field"
  <2> DEFINE H == KeyHops(graph, Meaning)
             w == KeyPrices(graph, Meaning)
  <2>1. /\ Searching(Nodes, H, w, ExitsOf(graph), dist, prev, settled, heap)
        /\ Within(Nodes, H, w, ExitsOf(graph), dist, settled)
    BY <1>5 DEF SearchesInv, FieldInv
  <2>2. /\ Searching(Nodes, H, w, ExitsOf(graph), dist', prev', settled', heap')
        /\ Within(Nodes, H, w, ExitsOf(graph), dist', settled')
    <3> HIDE DEF H, w
    <3> QED
      BY <1>1, <1>2, <2>1, SearchDrops
  <2>3. FieldInv'
    BY <1>1, <1>5, <2>2, FieldFrame
  <2> QED
    BY <1>3, <1>5, <2>3 DEF SearchesInv
<1> QED
  BY <1>1, <1>4, <1>5

(* A node is settled.                                                       *)
LEMMA SettleKeeps ==
  ASSUME SearchesInv, Settle
  PROVE  SearchesInv'
<1>1. /\ phase \in {"search", "field"} /\ UNCHANGED <<graph, request, ctx>>
      /\ UNCHANGED <<fields, phase, tour, stage, rung, skip, cursor, path, plan, reply>>
  BY DEF Settle
<1>2. PICK i \in heap : /\ \A j \in heap : i.priority <= j.priority
                        /\ i.node \notin settled
                        /\ phase = "search" => ~Goal(i.node)
                        /\ settled' = settled \cup {i.node}
                        /\ Relax(i.node, i.priority)
  BY DEF Settle, Pop
<1>3. /\ Nodes' = Nodes /\ Meaning' = Meaning /\ Legals' = Legals /\ Prices' = Prices
      /\ Source' = Source /\ \A n : Goal(n)' <=> Goal(n)
      /\ GraphInv' /\ ContextInv' /\ OrderInv' /\ UnwindInv'
      /\ phase = "field" => SearchInv'
      /\ phase = "search" => FieldInv'
  BY <1>1, SearchFrame
<1>4. CASE phase = "search"
  <2>1. /\ Source \in Nodes /\ Searching(Nodes, Legals, Prices, {Source}, dist, prev, settled, heap)
        /\ Within(Nodes, Legals, Prices, {Source}, dist, settled) /\ \A n \in settled : ~Goal(n)
    BY <1>4 DEF SearchesInv, SearchInv
  <2>2. Network(Nodes, Legals, Prices)
    BY <1>4, SearchNetwork DEF SearchesInv, GraphInv, ContextInv, Live, Nodes, Legals, Prices
  <2>3. Usable = Legals /\ \A h \in Legals : Cost(h) = Prices[h]
    BY <1>4, SearchedIs
  <2>4. RelaxedTo(Legals, Prices, dist, prev, settled, heap, i.node, i.priority, dist', prev', heap')
    BY <1>2, <2>3, RelaxIs
  <2>5. {Source} \in SUBSET Nodes
    BY <2>1
  <2>6. /\ Searching(Nodes, Legals, Prices, {Source}, dist', prev', settled \cup {i.node}, heap')
        /\ Within(Nodes, Legals, Prices, {Source}, dist', settled \cup {i.node})
    BY <1>2, <2>1, <2>2, <2>4, <2>5, SearchSettles
  <2>7. SearchInv'
    BY <1>1, <1>2, <1>3, <1>4, <2>1, <2>6 DEF SearchInv
  <2> QED
    BY <1>3, <1>4, <2>7 DEF SearchesInv
<1>5. CASE phase = "field"
  <2> DEFINE H == KeyHops(graph, Meaning)
             w == KeyPrices(graph, Meaning)
  <2>1. /\ Searching(Nodes, H, w, ExitsOf(graph), dist, prev, settled, heap)
        /\ Within(Nodes, H, w, ExitsOf(graph), dist, settled)
    BY <1>5 DEF SearchesInv, FieldInv
  <2>2. Usable = H /\ (\A h \in H : Cost(h) = w[h]) /\ Laid(graph, KeyOverlay(Meaning))
    BY <1>5, FieldSearchedIs DEF SearchesInv
  <2>3. Network(Nodes, H, w)
    BY <2>2, KeyNetwork DEF SearchesInv, GraphInv, Nodes
  <2>4. ExitsOf(graph) \in SUBSET Nodes
    BY DEF ExitsOf, Nodes
  <2>5. /\ Searching(Nodes, H, w, ExitsOf(graph), dist', prev', settled', heap')
        /\ Within(Nodes, H, w, ExitsOf(graph), dist', settled')
    <3> HIDE DEF H, w
    <3>1. RelaxedTo(H, w, dist, prev, settled, heap, i.node, i.priority, dist', prev', heap')
      BY <1>2, <2>2, RelaxIs
    <3>2. /\ Searching(Nodes, H, w, ExitsOf(graph), dist', prev', settled \cup {i.node}, heap')
          /\ Within(Nodes, H, w, ExitsOf(graph), dist', settled \cup {i.node})
      BY <1>2, <2>1, <2>3, <2>4, <3>1, SearchSettles
    <3> QED
      BY <1>2, <3>2
  <2>6. FieldInv'
    BY <1>1, <1>5, <2>5, FieldFrame
  <2> QED
    BY <1>3, <1>5, <2>6 DEF SearchesInv
<1> QED
  BY <1>1, <1>4, <1>5

(* The target is settled.                                                   *)
LEMMA ReachKeeps ==
  ASSUME SearchesInv, Reach
  PROVE  SearchesInv'
<1>1. /\ phase = "search" /\ phase' = "unwind" /\ UNCHANGED <<graph, request, ctx>> /\ path' = <<>>
      /\ UNCHANGED <<fields, tour, stage, rung, skip, reply, dist, prev>>
  BY DEF Reach
<1>2. PICK i \in heap : /\ \A j \in heap : i.priority <= j.priority
                        /\ i.node \notin settled /\ Goal(i.node)
                        /\ settled' = settled \cup {i.node} /\ cursor' = i.node
                        /\ plan' = IF stage = "primary" THEN [plan EXCEPT !.cost = @ + i.priority] ELSE plan
  BY DEF Reach, Pop
<1>3. /\ Nodes' = Nodes /\ q' = q /\ Legals' = Legals /\ Prices' = Prices
      /\ (Evacuating' <=> Evacuating)
  BY <1>1, SameRequest
<1>4. PlanTyped(Nodes, plan') /\ plan'.legs = plan.legs
  <2>1. PlanTyped(Nodes, plan)
    BY <1>1 DEF SearchesInv, ContextInv, Live
  <2>2. \A c : PlanTyped(Nodes, [plan EXCEPT !.cost = c]) /\ [plan EXCEPT !.cost = c].legs = plan.legs
    BY <2>1, CostedPlan
  <2>3. \/ plan' = [plan EXCEPT !.cost = plan.cost + i.priority]
        \/ plan' = plan
    BY <1>2
  <2> QED
    BY <2>1, <2>2, <2>3
<1>5. GraphInv' /\ ContextInv'
  BY <1>1, <1>3, <1>4 DEF SearchesInv, GraphInv, ContextInv, Live, IsLastResort
<1>6. Source' = Source /\ \A n : Goal(n)' <=> Goal(n)
  BY <1>1, <1>3, <1>4 DEF Source, Goal
<1>7. /\ Source \in Nodes /\ Searching(Nodes, Legals, Prices, {Source}, dist, prev, settled, heap)
      /\ Within(Nodes, Legals, Prices, {Source}, dist, settled)
  BY <1>1 DEF SearchesInv, SearchInv
<1>8. Network(Nodes, Legals, Prices) /\ {Source} \in SUBSET Nodes
  <2>1. Network(Nodes, Legals, Prices)
    BY <1>1, SearchNetwork DEF SearchesInv, GraphInv, ContextInv, Live, Nodes, Legals, Prices
  <2> QED
    BY <1>7, <2>1
<1>9. i.node \in DOMAIN dist
  BY <1>2, <1>7, PoppedAtDistance
<1>10. settled' \subseteq Nodes
  BY <1>2, <1>7, <1>9 DEF Searching, Costs
<1>11. RightAt(Nodes, Legals, Prices, {Source}, dist, settled')
  <2> SUFFICES ASSUME NEW B, Rounds(Nodes, Legals, Prices, {Source}, B)
               PROVE  \A n \in settled' : n \in DOMAIN B[Cardinality(Nodes)] /\ dist[n] = B[Cardinality(Nodes)][n]
    BY DEF RightAt
  <2>1. \A n \in settled \cup {i.node} :
          n \in DOMAIN B[Cardinality(Nodes)] /\ dist[n] = B[Cardinality(Nodes)][n]
    BY <1>2, <1>7, <1>8, ReachedForGood
  <2> QED
    BY <1>2, <2>1
<1>12. Traced(Legals, {Source}, prev, settled')
  BY <1>2, <1>7, <1>9 DEF Searching, Traced, Hop
<1>13. Chain(Nodes, <<>>, Legals)
  BY EmptySeq DEF Chain
<1>14. UnwindInv'
  <2>1. cursor' \in settled' /\ cursor' # None /\ Goal(cursor)'
    <3>1. None \notin Nodes
      BY DEF SearchesInv, GraphInv, WellFormed, Nodes
    <3>2. Goal(cursor)'
      BY <1>1, <1>2, <1>3, <1>4 DEF Goal
    <3> QED
      BY <1>2, <1>10, <3>1, <3>2
  <2> QED
    BY <1>1, <1>3, <1>6, <1>7, <1>10, <1>11, <1>12, <1>13, <2>1 DEF UnwindInv
<1>15. OrderInv' /\ FieldInv' /\ SearchInv'
  BY <1>1 DEF OrderInv, FieldInv, SearchInv
<1> QED
  BY <1>5, <1>14, <1>15 DEF SearchesInv

(* After a path is collected: another search from o, or the answer.         *)
LEMMA GoesOn ==
  ASSUME SearchesInv, phase # "idle", UNCHANGED <<graph, request, ctx>>, fields' = fields,
         PlanTyped(Nodes, plan'), rung' \in 1 .. Len(ctx.ladder) + 1,
         (rung' > Len(ctx.ladder)) => Evacuating,
         stage' \in {"primary", "alternative"},
         (stage' = "alternative") => Evacuating, (stage' = "primary") => skip' = {},
         \/ phase' = "search" /\ \E o \in Nodes : StartFrom({o}) /\ Source' = o
         \/ phase' = "idle"
  PROVE  SearchesInv'
<1>1. /\ Nodes' = Nodes /\ q' = q /\ (Evacuating' <=> Evacuating)
  BY SameRequest
<1>2. /\ request.closures \in ClosureSets /\ ctx = Context(graph, q, request.closures)
      /\ q.from \in Nodes /\ WellFormed(graph)
  BY DEF SearchesInv, GraphInv, ContextInv, Live
<1>3. GraphInv' /\ ContextInv'
  BY <1>1, <1>2 DEF SearchesInv, GraphInv, ContextInv, Live, IsLastResort
<1>4. SearchInv'
  <2>1. CASE phase' = "search"
    <3>1. PICK o \in Nodes : StartFrom({o}) /\ Source' = o
      BY <2>1
    <3> QED
      BY <1>1, <1>2, <2>1, <3>1, FromTheStart
  <2>2. CASE phase' # "search"
    BY <2>2 DEF SearchInv
  <2> QED
    BY <2>1, <2>2
<1>5. OrderInv' /\ FieldInv' /\ UnwindInv'
  BY DEF OrderInv, FieldInv, UnwindInv
<1> QED
  BY <1>3, <1>4, <1>5 DEF SearchesInv

(* A chain grows at its end,                                                *)
LEMMA ChainAppends ==
  ASSUME NEW X, NEW H, NEW p, Chain(X, p, H), p # <<>>, NEW n \in X, Hop(H, p[Len(p)], n)
  PROVE  Chain(X, Append(p, n), H) /\ Append(p, n) # <<>> /\ Append(p, n)[Len(Append(p, n))] = n
<1>1. p \in Seq(X) /\ Len(p) \in Nat /\ Len(p) # 0
  BY EmptySeq DEF Chain
<1> DEFINE a == Append(p, n)
<1>2. /\ a \in Seq(X) /\ a # <<>> /\ Len(a) = Len(p) + 1
      /\ \A i \in 1 .. Len(p) : a[i] = p[i]
      /\ a[Len(p) + 1] = n
  BY <1>1, AppendProperties
<1> HIDE DEF a
<1>3. ASSUME NEW i \in 1 .. Len(a) - 1 PROVE Hop(H, a[i], a[i + 1])
  <2>1. CASE i = Len(p)
    BY <1>1, <1>2, <2>1
  <2>2. CASE i # Len(p)
    <3>1. i \in 1 .. Len(p) - 1 /\ i \in 1 .. Len(p) /\ i + 1 \in 1 .. Len(p)
      BY <1>1, <1>2, <2>2
    <3> QED
      BY <1>2, <3>1 DEF Chain
  <2> QED
    BY <2>1, <2>2
<1> QED
  BY <1>2, <1>3 DEF Chain, a

(* and at its start.                                                        *)
LEMMA ChainPrepends ==
  ASSUME NEW X, NEW H, NEW p, Chain(X, p, H), NEW n \in X, p # <<>> => Hop(H, n, p[1])
  PROVE  /\ Chain(X, <<n>> \o p, H) /\ <<n>> \o p # <<>> /\ (<<n>> \o p)[1] = n
         /\ (<<n>> \o p)[Len(<<n>> \o p)] = IF p = <<>> THEN n ELSE p[Len(p)]
<1>1. p \in Seq(X) /\ Len(p) \in Nat /\ (p # <<>> => Len(p) # 0) /\ (p = <<>> => Len(p) = 0)
  BY EmptySeq DEF Chain
<1>2. <<n>> \in Seq(X) /\ Len(<<n>>) = 1 /\ <<n>>[1] = n
  OBVIOUS
<1> DEFINE a == <<n>> \o p
<1>3. /\ a \in Seq(X) /\ Len(a) = 1 + Len(p)
      /\ \A i \in 1 .. 1 + Len(p) : a[i] = IF i <= 1 THEN <<n>>[i] ELSE p[i - 1]
  BY <1>1, <1>2, ConcatProperties
<1> HIDE DEF a
<1>4. a[1] = n /\ \A i \in 2 .. 1 + Len(p) : a[i] = p[i - 1]
  BY <1>1, <1>2, <1>3
<1>5. a # <<>> /\ a[Len(a)] = IF p = <<>> THEN n ELSE p[Len(p)]
  BY <1>1, <1>3, <1>4
<1>6. ASSUME NEW i \in 1 .. Len(a) - 1 PROVE Hop(H, a[i], a[i + 1])
  <2>1. CASE i = 1
    <3>1. p # <<>> /\ a[2] = p[1]
      BY <1>1, <1>3, <1>4, <2>1
    <3> QED
      BY <1>4, <2>1, <3>1
  <2>2. CASE i # 1
    <3>1. i - 1 \in 1 .. Len(p) - 1 /\ a[i] = p[i - 1] /\ a[i + 1] = p[(i - 1) + 1]
      BY <1>1, <1>3, <1>4, <2>2
    <3> QED
      BY <3>1 DEF Chain
  <2> QED
    BY <2>1, <2>2
<1> QED
  BY <1>3, <1>4, <1>5, <1>6 DEF Chain, a

(* A path is collected back along prev.                                     *)
LEMMA UnwindKeeps ==
  ASSUME SearchesInv, Unwind
  PROVE  SearchesInv'
<1>1. /\ phase = "unwind" /\ phase' = "unwind" /\ cursor # None
      /\ UNCHANGED <<graph, request, ctx>>
      /\ UNCHANGED <<fields, tour, stage, rung, skip, dist, prev, settled, heap, plan, reply>>
      /\ path' = <<cursor>> \o path
      /\ cursor' = IF cursor \in DOMAIN prev THEN prev[cursor] ELSE None
  BY DEF Unwind, searchVars
<1>2. /\ Nodes' = Nodes /\ q' = q /\ Legals' = Legals /\ Prices' = Prices
      /\ (Evacuating' <=> Evacuating)
  BY <1>1, SameRequest
<1>3. GraphInv' /\ ContextInv'
  BY <1>1, <1>2 DEF SearchesInv, GraphInv, ContextInv, Live, IsLastResort
<1>4. Source' = Source
  BY <1>1, <1>2 DEF Source
<1>5. /\ Source \in Nodes /\ settled \subseteq Nodes
      /\ RightAt(Nodes, Legals, Prices, {Source}, dist, settled)
      /\ Traced(Legals, {Source}, prev, settled)
      /\ Chain(Nodes, path, Legals) /\ cursor \in settled
      /\ path # <<>> => Hop(Legals, cursor, path[1])
      /\ IF path = <<>> THEN Goal(cursor) ELSE Goal(path[Len(path)])
  BY <1>1 DEF SearchesInv, UnwindInv
<1>6. /\ Chain(Nodes, path', Legals) /\ path' # <<>> /\ path'[1] = cursor
      /\ path'[Len(path')] = IF path = <<>> THEN cursor ELSE path[Len(path)]
  <2>1. cursor \in Nodes
    BY <1>5
  <2> QED
    BY <1>1, <1>5, <2>1, ChainPrepends
<1>7. Goal(path[Len(path)])'
  <2>1. Goal(path'[Len(path')])
    BY <1>5, <1>6
  <2> QED
    BY <1>1, <1>2, <2>1 DEF Goal
<1>8. /\ cursor' \in settled \cup {None}
      /\ cursor' = None => path'[1] = Source
      /\ cursor' # None => Hop(Legals, cursor', path'[1])
  <2>1. CASE cursor \in DOMAIN prev
    <3>1. prev[cursor] \in settled /\ Hop(Legals, prev[cursor], cursor) /\ prev[cursor] # None
      <4>1. None \notin Nodes
        BY DEF SearchesInv, GraphInv, WellFormed, Nodes
      <4> QED
        BY <1>5, <2>1, <4>1 DEF Traced
    <3>2. cursor' = prev[cursor]
      BY <1>1, <2>1
    <3> QED
      BY <1>6, <3>1, <3>2
  <2>2. CASE cursor \notin DOMAIN prev
    <3>1. cursor = Source /\ cursor' = None
      BY <1>1, <1>5, <2>2 DEF Traced
    <3> QED
      BY <1>6, <3>1
  <2> QED
    BY <2>1, <2>2
<1>9. UnwindInv'
  BY <1>1, <1>2, <1>4, <1>5, <1>6, <1>7, <1>8 DEF UnwindInv
<1>10. OrderInv' /\ FieldInv' /\ SearchInv'
  BY <1>1 DEF OrderInv, FieldInv, SearchInv
<1> QED
  BY <1>3, <1>9, <1>10 DEF SearchesInv

(* Hops join nodes of the graph.                                            *)
LEMMA LegalHops ==
  ASSUME WellFormed(graph)
  PROVE  /\ \A k : \A h \in KeyLegal(graph, k) : h.from \in Nodes /\ h.to \in Nodes
         /\ \A h \in Legals : h.from \in Nodes /\ h.to \in Nodes
BY DEF KeyLegal, Legals, HopsOf, Legal, WellFormed, Nodes

(* A sequence of sequences, one longer.                                    *)
LEMMA OneMore ==
  ASSUME NEW X, NEW s \in Seq(X), NEW e \in X
  PROVE  /\ Append(s, e) \in Seq(X) /\ Len(Append(s, e)) = Len(s) + 1 /\ Append(s, e) # <<>>
         /\ Append(s, e)[Len(s) + 1] = e /\ \A i \in 1 .. Len(s) : Append(s, e)[i] = s[i]
BY AppendProperties

WithPath(p, r, k) == [p EXCEPT !.path = r, !.rung = k]

(* A plan with a path,                                                      *)
LEMMA RoutedPlan ==
  ASSUME NEW X, NEW p, PlanTyped(X, p), NEW r, NEW k
  PROVE  /\ PlanTyped(X, WithPath(p, r, k))
         /\ WithPath(p, r, k).path = r /\ WithPath(p, r, k).rung = k
         /\ WithPath(p, r, k).legs = p.legs /\ WithPath(p, r, k).others = p.others
BY DEF PlanTyped, WithPath

WithLeg(p, r, k, l) == [p EXCEPT !.path = r, !.rung = k, !.legs = l]

(* with one leg more,                                                       *)
LEMMA LongerPlan ==
  ASSUME NEW X, NEW p, PlanTyped(X, p), NEW r, NEW k, NEW l, l \in Seq(Seq(X))
  PROVE  /\ PlanTyped(X, WithLeg(p, r, k, l))
         /\ WithLeg(p, r, k, l).path = r /\ WithLeg(p, r, k, l).rung = k
         /\ WithLeg(p, r, k, l).legs = l /\ WithLeg(p, r, k, l).others = p.others
BY DEF PlanTyped, WithLeg

(* or with other exits.                                                     *)
LEMMA WiderPlan ==
  ASSUME NEW X, NEW p, PlanTyped(X, p), NEW o
  PROVE  /\ PlanTyped(X, [p EXCEPT !.others = o])
         /\ [p EXCEPT !.others = o].path = p.path
         /\ [p EXCEPT !.others = o].rung = p.rung
         /\ [p EXCEPT !.others = o].legs = p.legs
         /\ [p EXCEPT !.others = o].others = o
BY DEF PlanTyped

(* A path is collected along a field.                                       *)
LEMMA WalkOnKeeps ==
  ASSUME SearchesInv, WalkOn
  PROVE  SearchesInv'
<1>1. /\ phase = "walk" /\ UNCHANGED <<graph, request, ctx>> /\ UNCHANGED <<fields, rung>>
  BY DEF WalkOn
<1>2. /\ Nodes' = Nodes /\ q' = q /\ Meaning' = Meaning
      /\ (Evacuating' <=> Evacuating) /\ (Wheelchair' <=> Wheelchair)
  BY <1>1, SameRequest
<1>3. /\ Evacuating /\ ~Wheelchair /\ q.from \notin ctx.overlay.nodes /\ rung = 1
      /\ stage = "primary" /\ skip = {} /\ plan.path = <<>> /\ plan.others = {}
      /\ Right(Nodes, KeyHops(graph, Meaning), KeyPrices(graph, Meaning), ExitsOf(graph), dist)
      /\ \A n \in DOMAIN prev : Hop(KeyLegal(graph, Meaning), n, prev[n])
      /\ Chain(Nodes, path, KeyLegal(graph, Meaning)) /\ path # <<>> /\ path[Len(path)] = cursor
  BY <1>1 DEF SearchesInv, FieldInv
<1>4. CASE cursor \in DOMAIN prev
  <2>1. /\ cursor' = prev[cursor] /\ path' = Append(path, prev[cursor])
        /\ UNCHANGED <<phase, stage, skip, dist, prev, settled, heap, plan, reply>>
    BY <1>4 DEF WalkOn, searchVars
  <2>2. GraphInv' /\ ContextInv'
    BY <1>1, <1>2, <2>1 DEF SearchesInv, GraphInv, ContextInv, Live, IsLastResort
  <2>3. Hop(KeyLegal(graph, Meaning), path[Len(path)], prev[cursor]) /\ prev[cursor] \in Nodes
    <3>1. Hop(KeyLegal(graph, Meaning), path[Len(path)], prev[cursor])
      BY <1>3, <1>4
    <3> QED
      BY <3>1, LegalHops DEF Hop, SearchesInv, GraphInv
  <2>4. Chain(Nodes, path', KeyLegal(graph, Meaning)) /\ path' # <<>> /\ path'[Len(path')] = cursor'
    BY <1>3, <2>1, <2>3, ChainAppends
  <2>5. FieldInv'
    BY <1>1, <1>2, <1>3, <2>1, <2>4 DEF FieldInv
  <2>6. OrderInv' /\ SearchInv' /\ UnwindInv'
    BY <1>1, <2>1 DEF OrderInv, SearchInv, UnwindInv
  <2> QED
    BY <2>2, <2>5, <2>6 DEF SearchesInv
<1>5. CASE cursor \notin DOMAIN prev
  <2>1. plan' = WithPath(plan, path, 1) /\ RouteKnown(plan')
    BY <1>5 DEF WalkOn, WithPath
  <2>2. PlanTyped(Nodes, plan') /\ q.from \in Nodes
        /\ rung \in 1 .. Len(ctx.ladder) + 1 /\ (rung > Len(ctx.ladder) => Evacuating)
    <3>1. PlanTyped(Nodes, plan) /\ q.from \in Nodes
          /\ rung \in 1 .. Len(ctx.ladder) + 1 /\ (rung > Len(ctx.ladder) => Evacuating)
      BY <1>1 DEF SearchesInv, ContextInv, Live, IsLastResort
    <3>2. PlanTyped(Nodes, WithPath(plan, path, 1))
      BY <3>1, RoutedPlan
    <3> QED
      BY <2>1, <3>1, <3>2
  <2>3. /\ \/ phase' = "search" /\ StartFrom({q.from}) /\ Source' = q.from
           \/ phase' = "idle"
        /\ stage' \in {"primary", "alternative"}
        /\ (stage' = "alternative" => Evacuating) /\ (stage' = "primary" => skip' = {})
    BY <1>2, <1>3, <2>1 DEF RouteKnown, Answer, Source
  <2> QED
    BY <1>1, <2>2, <2>3, GoesOn
<1> QED
  BY <1>4, <1>5

(* A path is whole.                                                         *)
LEMMA CollectedKeeps ==
  ASSUME SearchesInv, Collected
  PROVE  SearchesInv'
<1> DEFINE legs == Append(plan.legs, path)
           whole == IF plan.path = <<>> THEN path ELSE plan.path \o Tail(path)
           exit == path[Len(path)]
<1>1. /\ phase = "unwind" /\ cursor = None /\ UNCHANGED <<graph, request, ctx>>
      /\ UNCHANGED <<fields, tour, rung>>
  BY DEF Collected
<1>2. /\ Nodes' = Nodes /\ q' = q /\ (Evacuating' <=> Evacuating)
  BY <1>1, SameRequest
<1>3. /\ PlanTyped(Nodes, plan) /\ q.from \in Nodes
      /\ rung \in 1 .. Len(ctx.ladder) + 1 /\ (rung > Len(ctx.ladder) => Evacuating)
      /\ stage \in {"primary", "alternative"}
      /\ (stage = "alternative" => Evacuating) /\ (stage = "primary" => skip = {})
  BY <1>1 DEF SearchesInv, ContextInv, Live, IsLastResort
<1>4. Chain(Nodes, path, Legals) /\ path # <<>> /\ Goal(exit)
  BY <1>1 DEF SearchesInv, UnwindInv
<1>5. /\ path \in Seq(Nodes) /\ exit \in Nodes /\ plan.legs \in Seq(Seq(Nodes))
  <2>1. path \in Seq(Nodes) /\ plan.legs \in Seq(Seq(Nodes))
    BY <1>3, <1>4 DEF Chain, PlanTyped
  <2>2. Len(path) \in 1 .. Len(path)
    BY <1>4, <2>1, EmptySeq
  <2> QED
    BY <2>1, <2>2, ElementOfSeq
<1>6. legs \in Seq(Seq(Nodes)) /\ Len(legs) = Len(plan.legs) + 1 /\ legs # <<>>
  <2> DEFINE X == Seq(Nodes)
  <2>1. plan.legs \in Seq(X) /\ path \in X
    BY <1>5
  <2> HIDE DEF X
  <2>2. /\ Append(plan.legs, path) \in Seq(X) /\ Len(Append(plan.legs, path)) = Len(plan.legs) + 1
        /\ Append(plan.legs, path) # <<>>
    BY <2>1, OneMore
  <2> QED
    BY <2>2 DEF X
<1>7. CASE stage = "alternative"
  <2>1. /\ plan' = [plan EXCEPT !.others = plan.others \cup {path}]
        /\ \/ phase' = "search" /\ StartFrom({q.from})
           \/ phase' = "idle"
        /\ stage' = stage
    BY <1>7 DEF Collected, Answer
  <2> HIDE DEF legs, whole, exit
  <2>2. PlanTyped(Nodes, plan')
    <3>1. \A o : PlanTyped(Nodes, [plan EXCEPT !.others = o])
      BY <1>3, WiderPlan
    <3> QED
      BY <2>1, <3>1
  <2>3. Source' = q.from
    BY <1>2, <1>3, <1>7 DEF Source
  <2> QED
    BY <1>1, <1>3, <1>7, <2>1, <2>2, <2>3, GoesOn
<1>8. CASE stage # "alternative"
  <2>1. /\ plan' = [plan EXCEPT !.path = whole, !.rung = rung, !.legs = legs]
        /\ IF ~Evacuating /\ Len(legs) < Len(ctx.stops)
           THEN phase' = "search" /\ StartFrom({exit}) /\ UNCHANGED <<stage, skip>>
           ELSE RouteKnown(plan')
    BY <1>8 DEF Collected
  <2>2. PlanTyped(Nodes, plan') /\ plan'.legs = legs
    <3> HIDE DEF legs, whole
    <3>1. plan' = WithLeg(plan, whole, rung, legs)
      BY <2>1 DEF WithLeg
    <3>2. PlanTyped(Nodes, WithLeg(plan, whole, rung, legs)) /\ WithLeg(plan, whole, rung, legs).legs = legs
      BY <1>3, <1>6, LongerPlan
    <3> QED
      BY <3>1, <3>2
  <2>3. CASE ~Evacuating /\ Len(legs) < Len(ctx.stops)
    <3>1. Source' = exit
      <4>1. Source' = ctx.stops[tour[Len(plan'.legs) + 1] - 1]
        BY <1>1, <1>2, <1>6, <2>2, <2>3 DEF Source
      <4>2. exit = ctx.stops[tour[Len(plan.legs) + 2] - 1]
        BY <1>4, <2>3 DEF Goal
      <4>3. Len(plan'.legs) + 1 = Len(plan.legs) + 2
        <5>1. Len(plan.legs) \in Nat
          BY <1>5
        <5> QED
          BY <1>6, <2>2, <5>1
      <4> QED
        BY <4>1, <4>2, <4>3
    <3> HIDE DEF legs, whole, exit
    <3> QED
      BY <1>1, <1>3, <1>5, <2>1, <2>2, <2>3, <3>1, GoesOn
  <2>4. CASE ~ (~Evacuating /\ Len(legs) < Len(ctx.stops))
    <3>1. RouteKnown(plan')
      BY <2>1, <2>4
    <3>2. /\ \/ phase' = "search" /\ StartFrom({q.from}) /\ Source' = q.from
             \/ phase' = "idle"
          /\ stage' \in {"primary", "alternative"}
          /\ (stage' = "alternative" => Evacuating) /\ (stage' = "primary" => skip' = {})
      BY <1>2, <1>3, <3>1 DEF RouteKnown, Answer, Source
    <3> HIDE DEF legs, whole, exit
    <3> QED
      BY <1>1, <1>3, <2>2, <3>2, GoesOn
  <2> QED
    BY <2>3, <2>4
<1> QED
  BY <1>7, <1>8

(* A search ran dry.                                                        *)
LEMMA ExhaustedKeeps ==
  ASSUME SearchesInv, Exhausted
  PROVE  SearchesInv'
<1>1. /\ phase = "search" /\ UNCHANGED <<graph, request, ctx>>
      /\ UNCHANGED <<fields, stage, skip, tour>>
  BY DEF Exhausted
<1>2. /\ Nodes' = Nodes /\ q' = q /\ (Evacuating' <=> Evacuating)
  BY <1>1, SameRequest
<1>3. /\ PlanTyped(Nodes, plan) /\ q.from \in Nodes
      /\ rung \in 1 .. Len(ctx.ladder) + 1 /\ (rung > Len(ctx.ladder) => Evacuating)
      /\ ctx.ladder = Ladder(q)
      /\ stage \in {"primary", "alternative"}
      /\ (stage = "alternative" => Evacuating) /\ (stage = "primary" => skip = {})
  <2>1. /\ request.closures \in ClosureSets /\ ctx = Context(graph, q, request.closures)
        /\ PlanTyped(Nodes, plan) /\ q.from \in Nodes
        /\ rung \in 1 .. Len(ctx.ladder) + 1 /\ (rung > Len(ctx.ladder) => Evacuating)
        /\ stage \in {"primary", "alternative"}
        /\ (stage = "alternative" => Evacuating) /\ (stage = "primary" => skip = {})
    BY <1>1 DEF SearchesInv, ContextInv, Live, IsLastResort
  <2> QED
    BY <2>1, ContextLaid
<1>4. Len(ctx.ladder) \in 1 .. 3
  BY <1>3, LadderIs
<1>5. PlanTyped(Nodes, Nothing)
  BY EmptySeq DEF PlanTyped, Nothing
<1>6. \/ phase' = "idle" /\ rung' = rung /\ plan' \in {plan, Nothing}
      \/ /\ rung' = rung + 1 /\ plan' = Nothing /\ StartFrom({q.from}) /\ phase' = phase
         /\ ~(rung >= Len(ctx.ladder)) \/ (Evacuating /\ rung = Len(ctx.ladder))
  BY DEF Exhausted, Answer
<1>7. CASE phase' = "idle" /\ rung' = rung /\ plan' \in {plan, Nothing}
  <2>1. PlanTyped(Nodes, plan')
    BY <1>3, <1>5, <1>7
  <2> QED
    BY <1>1, <1>3, <1>7, <2>1, GoesOn
<1>8. CASE /\ rung' = rung + 1 /\ plan' = Nothing /\ StartFrom({q.from}) /\ phase' = phase
           /\ ~(rung >= Len(ctx.ladder)) \/ (Evacuating /\ rung = Len(ctx.ladder))
  <2>1. rung' \in 1 .. Len(ctx.ladder) + 1 /\ (rung' > Len(ctx.ladder) => Evacuating)
    BY <1>3, <1>4, <1>8
  <2>2. Source' = q.from
    BY <1>2, <1>8 DEF Source, Nothing
  <2>3. PlanTyped(Nodes, plan')
    BY <1>5, <1>8
  <2> QED
    BY <1>1, <1>3, <1>8, <2>1, <2>2, <2>3, GoesOn
<1> QED
  BY <1>6, <1>7, <1>8

(* Every step keeps the invariant.                                          *)
LEMMA SearchesNext ==
  ASSUME SearchesInv, [WNext]_allVars
  PROVE  SearchesInv'
<1>1. CASE UNCHANGED vars
  <2>1. /\ UNCHANGED <<graph, request, ctx>>
        /\ UNCHANGED <<fields, phase, tour, stage, rung, skip, dist, prev, settled, heap,
                       cursor, path, plan, reply>>
    BY <1>1 DEF vars, searchVars
  <2>2. /\ Nodes' = Nodes /\ q' = q /\ Meaning' = Meaning /\ Legals' = Legals /\ Prices' = Prices
        /\ (Evacuating' <=> Evacuating) /\ (Wheelchair' <=> Wheelchair)
    BY <2>1, SameRequest
  <2>3. GraphInv' /\ ContextInv' /\ OrderInv'
    BY <2>1, <2>2 DEF SearchesInv, GraphInv, ContextInv, OrderInv, Live, IsLastResort
  <2>4. FieldInv'
    BY <2>1, <2>2 DEF SearchesInv, FieldInv
  <2>5. Source' = Source
    BY <2>1, <2>2 DEF Source
  <2>6. \A n : Goal(n)' <=> Goal(n)
    BY <2>1, <2>2 DEF Goal
  <2>7. SearchInv'
    BY <2>1, <2>2, <2>5, <2>6 DEF SearchesInv, SearchInv
  <2>8. UnwindInv'
    BY <2>1, <2>2, <2>5 DEF SearchesInv, UnwindInv, Goal
  <2> QED
    BY <2>3, <2>4, <2>7, <2>8 DEF SearchesInv
<1>2. CASE Plan
  BY <1>2, TwoOptKeeps, FieldHitKeeps, FieldMissKeeps, FieldDoneKeeps, DropStaleKeeps, SettleKeeps,
     ReachKeeps, WalkOnKeeps, UnwindKeeps, CollectedKeeps, ExhaustedKeeps DEF Plan
<1>3. ASSUME NEW qq \in Queries, NEW C \in ClosureSets, Request(qq, C)
      PROVE  SearchesInv'
  BY <1>3, ArriveKeeps DEF Request
<1>4. CASE Guide
  BY <1>1, <1>4 DEF Guide, Assemble, Measure, Simplify, FindTurns, AddConfirmations, Share
<1>5. CASE UNCHANGED allVars
  BY <1>1, <1>5 DEF allVars
<1> QED
  BY <1>2, <1>3, <1>4, <1>5 DEF WNext, Work, Search

(* dijkstra.js, safetyField.js: every search is in a sound state whenever it *)
(* is looked at, every cached field is right for its key, and every path is *)
(* collected along hops the attempt allows.                                 *)
THEOREM SearchesAreSound ==
  WSpec => []SearchesInv
<1>1. WInit => SearchesInv
  BY SearchesInit
<1>2. SearchesInv /\ [WNext]_allVars => SearchesInv'
  BY SearchesNext
<1> QED
  BY <1>1, <1>2, PTL DEF WSpec

(* While a search runs, forwards or as a field.                            *)
LEMMA SettledCheapest ==
  ASSUME NEW H, NEW w, Usable = H, \A h \in H : Cost(h) = w[h], Network(Nodes, H, w),
         NEW S \in SUBSET Nodes,
         Searching(Nodes, H, w, S, dist, prev, settled, heap),
         Within(Nodes, H, w, S, dist, settled)
  PROVE  /\ \A n \in settled : n \in DOMAIN Cheapest(Usable, S) /\ dist[n] = Cheapest(Usable, S)[n]
         /\ heap = {} => settled = DOMAIN Cheapest(Usable, S)
<1>1. PICK B : Rounds(Nodes, H, w, S, B) /\ Cheapest(H, S) = B[Cardinality(Nodes)]
  BY CheapestRounds DEF Nodes
<1>2. Final(Cheapest(H, S), dist, settled, heap)
  BY <1>1, SettledForGood
<1> QED
  BY <1>2 DEF Final

(* So searches settle at least cost,                                        *)
LEMMA SearchesSettleCheapest ==
  ASSUME SearchesInv
  PROVE  CheapestSettled
<1>1. ASSUME phase \in {"search", "unwind"}
      PROVE  /\ Usable = Legals /\ (\A h \in Legals : Cost(h) = Prices[h])
             /\ Network(Nodes, Legals, Prices)
  <2>1. Usable = Legals /\ \A h \in Legals : Cost(h) = Prices[h]
    BY <1>1, SearchedIs
  <2>2. Network(Nodes, Legals, Prices)
    BY <1>1, SearchNetwork DEF SearchesInv, GraphInv, ContextInv, Live, Nodes, Legals, Prices
  <2> QED
    BY <2>1, <2>2
<1>2. CASE phase = "search"
  <2>1. /\ Source \in Nodes /\ Searching(Nodes, Legals, Prices, {Source}, dist, prev, settled, heap)
        /\ Within(Nodes, Legals, Prices, {Source}, dist, settled)
    BY <1>2 DEF SearchesInv, SearchInv
  <2>2. {Source} \in SUBSET Nodes
    BY <2>1
  <2>3. /\ \A n \in settled : n \in DOMAIN Cheapest(Usable, {Source})
                              /\ dist[n] = Cheapest(Usable, {Source})[n]
        /\ heap = {} => settled = DOMAIN Cheapest(Usable, {Source})
    BY <1>1, <1>2, <2>1, <2>2, SettledCheapest
  <2> QED
    BY <1>2, <2>3 DEF CheapestSettled
<1>3. CASE phase = "field"
  <2> DEFINE H == KeyHops(graph, Meaning)
             w == KeyPrices(graph, Meaning)
  <2>1. /\ Searching(Nodes, H, w, ExitsOf(graph), dist, prev, settled, heap)
        /\ Within(Nodes, H, w, ExitsOf(graph), dist, settled)
    BY <1>3 DEF SearchesInv, FieldInv
  <2>2. Usable = H /\ (\A h \in H : Cost(h) = w[h]) /\ Laid(graph, KeyOverlay(Meaning))
    BY <1>3, FieldSearchedIs DEF SearchesInv
  <2>3. Network(Nodes, H, w)
    BY <2>2, KeyNetwork DEF SearchesInv, GraphInv, Nodes
  <2>4. ExitsOf(graph) \in SUBSET Nodes
    BY DEF ExitsOf, Nodes
  <2> HIDE DEF H, w
  <2>5. /\ \A n \in settled : n \in DOMAIN Cheapest(Usable, ExitsOf(graph))
                              /\ dist[n] = Cheapest(Usable, ExitsOf(graph))[n]
        /\ heap = {} => settled = DOMAIN Cheapest(Usable, ExitsOf(graph))
    BY <2>1, <2>2, <2>3, <2>4, SettledCheapest
  <2> QED
    BY <1>3, <2>5 DEF CheapestSettled
<1>4. CASE phase = "unwind"
  <2>1. Source \in Nodes /\ RightAt(Nodes, Legals, Prices, {Source}, dist, settled)
    BY <1>4 DEF SearchesInv, UnwindInv
  <2>2. {Source} \in SUBSET Nodes
    BY <2>1
  <2>3. PICK B : /\ Rounds(Nodes, Legals, Prices, {Source}, B)
                 /\ Cheapest(Legals, {Source}) = B[Cardinality(Nodes)]
    BY <1>1, <1>4, <2>2, CheapestRounds DEF Nodes
  <2>4. \A n \in settled : n \in DOMAIN Cheapest(Legals, {Source})
                           /\ dist[n] = Cheapest(Legals, {Source})[n]
    BY <2>1, <2>3 DEF RightAt
  <2> QED
    BY <1>1, <1>4, <2>4 DEF CheapestSettled
<1> QED
  BY <1>2, <1>3, <1>4 DEF CheapestSettled

(* and a field answers whoever follows it.                                  *)
LEMMA FieldsAgree ==
  ASSUME SearchesInv
  PROVE  FieldAgrees
<1> SUFFICES ASSUME phase = "walk"
             PROVE  dist = Cheapest({Reversed(h) : h \in Legal(graph, q, FilterAt(1), ctx.profile)},
                                    ExitsOf(graph))
  BY DEF FieldAgrees
<1> DEFINE H == KeyHops(graph, Meaning)
           w == KeyPrices(graph, Meaning)
<1>1. Right(Nodes, H, w, ExitsOf(graph), dist)
  BY DEF SearchesInv, FieldInv
<1>2. /\ {Reversed(h) : h \in Legal(graph, q, FilterAt(1), ctx.profile)} = H
      /\ (\A h \in H : Cost(h) = w[h]) /\ Laid(graph, KeyOverlay(Meaning))
  BY FieldSearchedIs DEF SearchesInv
<1>3. Network(Nodes, H, w)
  BY <1>2, KeyNetwork DEF SearchesInv, GraphInv, Nodes
<1>4. ExitsOf(graph) \in SUBSET Nodes
  BY DEF ExitsOf, Nodes
<1> HIDE DEF H, w
<1>5. PICK B : Rounds(Nodes, H, w, ExitsOf(graph), B) /\ Cheapest(H, ExitsOf(graph)) = B[Cardinality(Nodes)]
  BY <1>2, <1>3, <1>4, CheapestRounds DEF Nodes
<1> QED
  BY <1>1, <1>2, <1>5 DEF Right

(* dijkstra.js: a node is settled at the least cost it can be reached at under *)
(* the rules of the attempt; a search that runs dry has settled all there is. *)
THEOREM SettledIsCheapest ==
  WSpec => []CheapestSettled
BY SearchesAreSound, SearchesSettleCheapest, PTL

(* safetyField.js: a field cached for another occupant's request has the    *)
(* distances one computed for this request would have.                      *)
THEOREM CachedFieldsAgree ==
  WSpec => []FieldAgrees
BY SearchesAreSound, FieldsAgree, PTL

(***************************************************************************)
(* Nobody is told there is no way out while there is one                    *)
(***************************************************************************)

Spread(H, S) == S \cup {h.to : h \in {x \in H : x.from \in S}}
Seen(N, H, n, g) == g = [k \in 0 .. N |-> IF k = 0 THEN {n} ELSE Spread(H, g[k - 1])]

(* The rounds of the reference reachability.                                *)
LEMMA SeenIs ==
  ASSUME NEW N \in Nat, NEW H, NEW n, NEW g, Seen(N, H, n, g)
  PROVE  g[0] = {n} /\ \A k \in 1 .. N : g[k] = Spread(H, g[k - 1])
<1>1. \A k \in 0 .. N : g[k] = IF k = 0 THEN {n} ELSE Spread(H, g[k - 1])
  BY Zenon DEF Seen
<1>2. 0 \in 0 .. N /\ \A k \in 1 .. N : k \in 0 .. N /\ k # 0
  OBVIOUS
<1> QED
  BY <1>1, <1>2

(* What hops lead to from n lies in every set that holds n and that no hop  *)
(* leaves.                                                                 *)
LEMMA ReachableWithin ==
  ASSUME IsFiniteSet(Nodes), NEW H, NEW n, NEW S, n \in S,
         \A h \in H : h.from \in S => h.to \in S
  PROVE  Reachable(H, n) \subseteq S
<1> DEFINE N == Cardinality(Nodes)
           T == SUBSET ({n} \cup {h.to : h \in H})
           F == [k \in 1 .. N |-> [s \in T |-> Spread(H, s)]]
           B == CHOOSE g : Seen(N, H, n, g)
           G == {k \in 0 .. N : B[k] \subseteq S}
<1>1. N \in Nat
  BY FS_CardinalityType DEF Nodes
<1>2. \E g : Seen(N, H, n, g)
  <2>1. IsStep(N, T, F)
    <3>1. ASSUME NEW s \in T PROVE Spread(H, s) \in T
      BY DEF Spread
    <3> QED
      BY <3>1 DEF IsStep
  <2>2. {n} \in T
    OBVIOUS
  <2>3. PICK g : Iterates(g, N, T, {n}, F)
    <3> HIDE DEF T, F, N
    <3> QED
      BY <1>1, <2>1, <2>2, IterationExists
  <2>4. \A k \in 1 .. N : F[k][g[k - 1]] = Spread(H, g[k - 1])
    <3> SUFFICES ASSUME NEW k \in 1 .. N PROVE F[k][g[k - 1]] = Spread(H, g[k - 1])
      OBVIOUS
    <3>1. g[k - 1] \in T
      <4> HIDE DEF T, F
      <4> QED
        BY <1>1, <2>3 DEF Iterates
    <3> HIDE DEF T
    <3> QED
      BY <3>1
  <2>5. Seen(N, H, n, g)
    <3> HIDE DEF T, F, N
    <3>1. \A k \in 0 .. N : g[k] = IF k = 0 THEN {n} ELSE Spread(H, g[k - 1])
      BY <1>1, <2>3, <2>4 DEF Iterates
    <3> QED
      BY <2>3, <3>1 DEF Seen, Iterates
  <2> QED
    BY <2>5
<1>3. Seen(N, H, n, B)
  BY <1>2
<1>4. Reachable(H, n) = B[N]
  <2> DEFINE R(g) == g = [k \in 0 .. Cardinality(DOMAIN graph.node) |->
                            IF k = 0 THEN {n}
                            ELSE g[k - 1] \cup {h.to : h \in {x \in H : x.from \in g[k - 1]}}]
  <2>1. Reachable(H, n) = (CHOOSE g : R(g))[Cardinality(DOMAIN graph.node)]
    BY DEF Reachable
  <2>2. \A g : R(g) <=> Seen(N, H, n, g)
    BY DEF Seen, Spread, Nodes
  <2>3. (CHOOSE g : R(g)) = B
    <3> HIDE DEF R, N
    <3> QED
      BY <2>2
  <2> QED
    BY <2>1, <2>3 DEF Nodes
<1> HIDE DEF B, N
<1>5. B[0] = {n} /\ \A k \in 1 .. N : B[k] = Spread(H, B[k - 1])
  BY <1>1, <1>3, SeenIs
<1>6. 0 \in G /\ G \in SUBSET (0 .. N)
  BY <1>1, <1>5
<1>7. ASSUME NEW k \in 1 .. N, k - 1 \in G PROVE k \in G
  BY <1>5, <1>7 DEF Spread
<1>8. G = 0 .. N
  <2> HIDE DEF G
  <2> QED
    BY <1>1, <1>6, <1>7, UpTo
<1>9. N \in G
  BY <1>1, <1>8
<1> QED
  BY <1>4, <1>9

(* What the last attempt of an evacuation may take: all that is open.       *)
LEMMA LastAttemptTakesAll ==
  ASSUME WellFormed(graph), NEW C \in ClosureSets, ctx = Context(graph, q, C),
         rung \in 1 .. Len(ctx.ladder) + 1, rung >= Len(ctx.ladder), Evacuating,
         ~ (rung = Len(ctx.ladder) /\ (ctx.overlay.edges # {} \/ ctx.overlay.nodes # {}))
  PROVE  {h \in graph.hops : OpenInEmergency(h)} \subseteq Legals
<1> DEFINE f == FilterOf(q, ctx, rung)
           p == ProfileOf(ctx, rung)
<1>1. /\ ctx.own = OverlayForOrigin(ctx.overlay, q.from)
      /\ ctx.soft = OverlayForOrigin(SoftenOverlay(graph, ctx.overlay), q.from)
      /\ ctx.overlay = BuildOverlay(graph, C)
      /\ ctx.ladder = Ladder(q) /\ ctx.profile = EffectiveProfile(graph, q)
      /\ ctx.last = ResolveProfile(graph, "emergency")
  BY ContextLaid
<1>2. Len(ctx.ladder) \in 1 .. 3
  BY <1>1, LadderIs
<1>3. q.mode = "evacuate" /\ f.name = "emergency"
  BY DEF Evacuating, FilterOf
<1>4. ~f.tags /\ ~f.access
  <2>1. CASE rung > Len(ctx.ladder)
    BY <2>1 DEF FilterOf
  <2>2. CASE rung = Len(ctx.ladder)
    <3>1. ~ctx.ladder[Len(ctx.ladder)].tags /\ ~ctx.ladder[Len(ctx.ladder)].access
      BY <1>1, LadderIs
    <3> QED
      BY <2>2, <3>1 DEF FilterOf
  <2> QED
    BY <1>2, <2>1, <2>2
<1>5. f.overlay.edges = {} /\ f.overlay.nodes = {}
  <2>1. CASE rung > Len(ctx.ladder)
    <3>1. f.overlay = OverlayForOrigin(SoftenOverlay(graph, ctx.overlay), q.from)
      BY <1>1, <2>1 DEF FilterOf
    <3>2. \A t, e, m, k, o : /\ [[times |-> t, edges |-> e, nodes |-> m, print |-> k] EXCEPT !.nodes = o].nodes = o
                             /\ [[times |-> t, edges |-> e, nodes |-> m, print |-> k] EXCEPT !.nodes = o].edges = e
      OBVIOUS
    <3> QED
      BY <3>1, <3>2 DEF OverlayForOrigin, SoftenOverlay
  <2>2. CASE rung = Len(ctx.ladder)
    <3>1. f.overlay = OverlayForOrigin(ctx.overlay, q.from)
      BY <1>1, <1>2, <2>2 DEF FilterOf
    <3>2. ctx.overlay.edges = {} /\ ctx.overlay.nodes = {}
      BY <2>2
    <3> QED
      BY <1>1, <3>1, <3>2 DEF OverlayForOrigin, BuildOverlay
  <2> QED
    BY <1>2, <2>1, <2>2
<1>6. p.blocked = IF graph.rated THEN {} ELSE {"ELEVATOR"}
  <2>1. EffectiveProfile(graph, q).blocked = ResolveProfile(graph, "emergency").blocked
    BY <1>3 DEF EffectiveProfile, ResolveProfile
  <2>2. ResolveProfile(graph, "emergency").blocked = IF graph.rated THEN {} ELSE {"ELEVATOR"}
    BY DEF ResolveProfile
  <2>3. p \in {ctx.last, ctx.profile}
    BY DEF ProfileOf
  <2> QED
    BY <1>1, <2>1, <2>2, <2>3
<1> HIDE DEF f, p
<1>7. ASSUME NEW h \in graph.hops, OpenInEmergency(h)
      PROVE  Passes(graph, q, f, h) /\ ~Forbidden(graph, p, h)
  BY <1>3, <1>4, <1>5, <1>6, <1>7 DEF OpenInEmergency, Passes, OverlayFilter, Forbidden
<1> QED
  BY <1>7 DEF Legals, HopsOf, Legal, f, p

(* The last search that runs dry was kept from nothing that is open.        *)
LEMMA ExhaustedStrandsNobody ==
  ASSUME SearchesInv, Exhausted
  PROVE  NobodyStranded'
<1> SUFFICES ASSUME phase' = "idle", reply'.status = 404, Evacuating'
             PROVE  (Reachable({h \in graph.hops : OpenInEmergency(h)}, q.from) \cap ExitsOf(graph) = {})'
  BY DEF NobodyStranded
<1>1. /\ phase = "search" /\ heap = {} /\ UNCHANGED <<graph, request, ctx>>
  BY DEF Exhausted
<1>2. Nodes' = Nodes /\ q' = q /\ Evacuating
  BY <1>1, SameRequest
<1>3. /\ request.closures \in ClosureSets /\ ctx = Context(graph, q, request.closures)
      /\ q.from \in Nodes /\ rung \in 1 .. Len(ctx.ladder) + 1 /\ WellFormed(graph)
      /\ stage \in {"primary", "alternative"} /\ (stage = "primary" => skip = {})
      /\ Source = q.from
  BY <1>1, <1>2 DEF SearchesInv, GraphInv, ContextInv, Live, Source
<1>4. /\ stage = "primary" /\ skip = {} /\ rung >= Len(ctx.ladder)
      /\ ~ (rung = Len(ctx.ladder) /\ (ctx.overlay.edges # {} \/ ctx.overlay.nodes # {}))
  <2>1. CASE stage = "alternative"
    BY <2>1 DEF Exhausted, Answer
  <2>2. CASE /\ stage = "primary"
             /\ \/ ~ (rung >= Len(ctx.ladder))
                \/ /\ Evacuating /\ rung = Len(ctx.ladder)
                   /\ ctx.overlay.edges # {} \/ ctx.overlay.nodes # {}
    <3>1. phase' = phase
      BY <2>2 DEF Exhausted
    <3> QED
      BY <1>1, <3>1
  <2> QED
    BY <1>2, <1>3, <2>1, <2>2
<1>5. {h \in graph.hops : OpenInEmergency(h)} \subseteq Legals
  BY <1>2, <1>3, <1>4, LastAttemptTakesAll
<1>6. /\ Searching(Nodes, Legals, Prices, {q.from}, dist, prev, settled, heap)
      /\ \A n \in settled : n \notin ExitsOf(graph)
  BY <1>1, <1>2, <1>3, <1>4 DEF SearchesInv, SearchInv, Goal
<1>7. q.from \in settled /\ \A h \in Legals : h.from \in settled => h.to \in settled
  BY <1>1, <1>6 DEF Searching
<1>8. Reachable({h \in graph.hops : OpenInEmergency(h)}, q.from) \subseteq settled
  <2>1. IsFiniteSet(Nodes)
    BY <1>3 DEF WellFormed, Nodes
  <2> DEFINE H == {h \in graph.hops : OpenInEmergency(h)}
  <2>2. \A h \in H : h.from \in settled => h.to \in settled
    BY <1>5, <1>7
  <2> HIDE DEF H
  <2>3. Reachable(H, q.from) \subseteq settled
    BY <1>7, <2>1, <2>2, ReachableWithin
  <2> QED
    BY <2>3 DEF H
<1>9. Reachable({h \in graph.hops : OpenInEmergency(h)}, q.from) \cap ExitsOf(graph) = {}
  BY <1>6, <1>8
<1> QED
  BY <1>1, <1>2, <1>9 DEF Reachable, OpenInEmergency

(* No other step answers an evacuation with 404.                            *)
LEMMA StrandedNext ==
  ASSUME SearchesInv, NobodyStranded, [WNext]_allVars
  PROVE  NobodyStranded'
<1>1. ASSUME UNCHANGED <<graph, request, phase, reply>> PROVE NobodyStranded'
  BY <1>1 DEF NobodyStranded, Reachable, OpenInEmergency, q, Evacuating
<1>2. CASE UNCHANGED vars
  BY <1>1, <1>2 DEF vars
<1>3. CASE Plan
  <2>1. CASE Exhausted
    BY <2>1, ExhaustedStrandsNobody
  <2>2. CASE phase' # "idle" \/ reply'.status = 200
    BY <2>2 DEF NobodyStranded
  <2>3. CASE TwoOpt \/ FieldHit \/ FieldMiss \/ FieldDone
    BY <2>2, <2>3 DEF TwoOpt, FieldHit, FieldMiss, FieldDone, Follow
  <2>4. CASE DropStale \/ Settle \/ Reach \/ Unwind
    BY <2>2, <2>4 DEF DropStale, Settle, Reach, Unwind
  <2>5. CASE WalkOn
    BY <2>2, <2>5 DEF WalkOn, RouteKnown, Answer
  <2>6. CASE Collected
    BY <2>2, <2>6 DEF Collected, RouteKnown, Answer
  <2> QED
    BY <1>3, <2>1, <2>3, <2>4, <2>5, <2>6 DEF Plan
<1>4. ASSUME NEW qq \in Queries, NEW C \in ClosureSets, Request(qq, C)
      PROVE  NobodyStranded'
  <2>1. Arrive(qq, C)
    BY <1>4 DEF Request
  <2>2. request' = [query |-> qq, closures |-> C]
    BY <2>1 DEF Arrive
  <2>3. q'.mode = qq.mode
    BY <2>2 DEF q
  <2>4. CASE Rejection(graph, qq) # 0
    <3>1. qq.mode # "evacuate"
      BY <2>4 DEF Rejection
    <3> QED
      BY <2>3, <3>1 DEF NobodyStranded, Evacuating
  <2>5. CASE Rejection(graph, qq) = 0
    <3>1. phase' # "idle"
      BY <2>1, <2>5 DEF Arrive
    <3> QED
      BY <3>1 DEF NobodyStranded
  <2> QED
    BY <2>4, <2>5
<1>5. CASE Guide
  BY <1>2, <1>5 DEF Guide, Assemble, Measure, Simplify, FindTurns, AddConfirmations, Share
<1>6. CASE UNCHANGED allVars
  BY <1>2, <1>6 DEF allVars
<1> QED
  BY <1>3, <1>4, <1>5, <1>6 DEF WNext, Work, Search

(* planning.js: an evacuation that is told there is no way out has none, even *)
(* through closed parts, off the requested tags and over stairs.            *)
THEOREM NobodyIsStranded ==
  WSpec => []NobodyStranded
<1>1. WInit => NobodyStranded
  BY DEF WInit, Init, NoReply, NobodyStranded
<1>2. SearchesInv /\ NobodyStranded /\ [WNext]_allVars => NobodyStranded'
  BY StrandedNext
<1> QED
  BY <1>1, <1>2, SearchesAreSound, PTL DEF WSpec

(***************************************************************************)
(* No route crosses what is closed                                          *)
(***************************************************************************)

(* Whatever has been collected runs along hops of the running attempt.      *)
Drawn(V, H, p) == Chain(V, p.path, H) /\ \A o \in p.others : Chain(V, o, H)

RoutesInv ==
  Live =>
    /\ Drawn(Nodes, Legals, plan)
    /\ stage = "alternative" \/ phase = "idle" => plan.rung = rung
    /\ (phase \in {"search", "unwind"} /\ stage = "primary" /\ plan.path # <<>>) =>
         plan.path[Len(plan.path)] = Source

(* Two legs join where the first ends.                                      *)
LEMMA ChainsJoin ==
  ASSUME NEW X, NEW H, NEW p, NEW r, Chain(X, p, H), Chain(X, r, H), p # <<>>, r # <<>>,
         p[Len(p)] = r[1]
  PROVE  /\ Chain(X, p \o Tail(r), H) /\ p \o Tail(r) # <<>>
         /\ (p \o Tail(r))[Len(p \o Tail(r))] = r[Len(r)]
<1>1. /\ p \in Seq(X) /\ r \in Seq(X) /\ Len(p) \in Nat \ {0} /\ Len(r) \in Nat \ {0}
  BY EmptySeq DEF Chain
<1> DEFINE t == Tail(r)
           a == p \o t
<1>2. t \in Seq(X) /\ Len(t) = Len(r) - 1 /\ \A i \in 1 .. Len(r) - 1 : t[i] = r[i + 1]
  BY <1>1, HeadTailProperties
<1> HIDE DEF t
<1>3. /\ a \in Seq(X) /\ Len(a) = Len(p) + Len(t)
      /\ \A i \in 1 .. Len(p) + Len(t) : a[i] = IF i <= Len(p) THEN p[i] ELSE t[i - Len(p)]
  BY <1>1, <1>2, ConcatProperties
<1> HIDE DEF a
<1>4. /\ Len(a) = Len(p) + Len(r) - 1
      /\ \A i \in 1 .. Len(p) : a[i] = p[i]
      /\ \A i \in 1 .. Len(r) : a[Len(p) - 1 + i] = r[i]
  <2>1. Len(a) = Len(p) + Len(r) - 1 /\ \A i \in 1 .. Len(p) : a[i] = p[i]
    BY <1>1, <1>2, <1>3
  <2>2. ASSUME NEW i \in 1 .. Len(r) PROVE a[Len(p) - 1 + i] = r[i]
    <3>1. CASE i = 1
      BY <1>1, <2>1, <3>1
    <3>2. CASE i # 1
      <4>1. /\ Len(p) - 1 + i \in 1 .. Len(p) + Len(t) /\ ~ (Len(p) - 1 + i <= Len(p))
            /\ (Len(p) - 1 + i) - Len(p) = i - 1 /\ i - 1 \in 1 .. Len(r) - 1 /\ (i - 1) + 1 = i
        BY <1>1, <1>2, <3>2
      <4>2. a[Len(p) - 1 + i] = t[i - 1]
        BY <1>3, <4>1
      <4> QED
        BY <1>2, <4>1, <4>2
    <3> QED
      BY <3>1, <3>2
  <2> QED
    BY <2>1, <2>2
<1>5. a # <<>> /\ a[Len(a)] = r[Len(r)]
  <2>1. Len(a) = Len(p) - 1 + Len(r) /\ Len(a) # 0 /\ Len(r) \in 1 .. Len(r)
    BY <1>1, <1>4
  <2> QED
    BY <1>4, <2>1
<1>6. ASSUME NEW i \in 1 .. Len(a) - 1 PROVE Hop(H, a[i], a[i + 1])
  <2>1. CASE i < Len(p)
    <3>1. i \in 1 .. Len(p) - 1 /\ i \in 1 .. Len(p) /\ i + 1 \in 1 .. Len(p)
      BY <1>1, <1>4, <2>1
    <3> QED
      BY <1>4, <3>1 DEF Chain
  <2>2. CASE ~ (i < Len(p))
    <3> DEFINE j == i - (Len(p) - 1)
    <3>1. /\ j \in 1 .. Len(r) - 1 /\ j \in 1 .. Len(r) /\ j + 1 \in 1 .. Len(r)
          /\ i = Len(p) - 1 + j /\ i + 1 = Len(p) - 1 + (j + 1)
      BY <1>1, <1>4, <2>2
    <3> HIDE DEF j
    <3>2. a[i] = r[j] /\ a[i + 1] = r[j + 1]
      BY <1>4, <3>1
    <3> QED
      BY <3>1, <3>2 DEF Chain
  <2> QED
    BY <2>1, <2>2
<1>7. Chain(X, a, H)
  BY <1>3, <1>6 DEF Chain
<1> QED
  BY <1>5, <1>7 DEF a, t

(* Nothing is drawn at first.                                               *)
LEMMA NothingDrawn ==
  ASSUME NEW X, NEW H
  PROVE  Drawn(X, H, Nothing) /\ Nothing.path = <<>>
<1>1. Chain(X, <<>>, H)
  BY EmptySeq DEF Chain
<1> QED
  BY <1>1 DEF Drawn, Nothing

(* What does not change where routes run.                                  *)
LEMMA RoutesStay ==
  ASSUME RoutesInv, phase # "idle", UNCHANGED <<graph, request, ctx, tour, stage, rung>>,
         plan'.path = plan.path, plan'.others = plan.others, plan'.rung = plan.rung,
         plan'.legs = plan.legs, phase' # "idle",
         \/ phase' = phase
         \/ phase = "search" /\ phase' = "unwind"
         \/ plan.path = <<>>
  PROVE  RoutesInv'
<1>1. /\ Nodes' = Nodes /\ q' = q /\ Legals' = Legals /\ (Evacuating' <=> Evacuating)
  BY SameRequest
<1>2. Source' = Source
  BY <1>1 DEF Source
<1>3. Drawn(Nodes, Legals, plan)'
  BY <1>1 DEF RoutesInv, Live, Drawn
<1> QED
  BY <1>1, <1>2, <1>3 DEF RoutesInv, Live

(* A request comes.                                                         *)
LEMMA RoutesArrive ==
  ASSUME NEW qq, NEW C, Arrive(qq, C)
  PROVE  RoutesInv'
<1>1. plan' = Nothing /\ stage' = "primary"
  BY DEF Arrive
<1>2. Drawn(Nodes', Legals', plan') /\ plan'.path = <<>>
  BY <1>1, NothingDrawn
<1>3. CASE Rejection(graph, qq) # 0
  <2>1. phase' = "idle" /\ reply'.status = Rejection(graph, qq)
    BY <1>3 DEF Arrive
  <2>2. Rejection(graph, qq) # 200
    BY DEF Rejection
  <2> QED
    BY <2>1, <2>2 DEF RoutesInv, Live
<1>4. CASE Rejection(graph, qq) = 0
  <2>1. phase' # "idle"
    BY <1>4 DEF Arrive
  <2> QED
    BY <1>1, <1>2, <2>1 DEF RoutesInv
<1> QED
  BY <1>3, <1>4

(* The first path of an evacuation, or the whole tour, is known.            *)
LEMMA RoutesKnown ==
  ASSUME phase # "idle", UNCHANGED <<graph, request, ctx, rung>>,
         NEW p, plan' = p, RouteKnown(p), Drawn(Nodes, Legals, p), p.rung = rung,
         stage = "primary"
  PROVE  RoutesInv'
<1>1. Nodes' = Nodes /\ Legals' = Legals
  BY SameRequest
<1>2. \/ phase' = "search" /\ stage' = "alternative"
      \/ phase' = "idle"
  BY DEF RouteKnown, Answer
<1> QED
  BY <1>1, <1>2 DEF RoutesInv

(* A path is collected along a field.                                       *)
LEMMA RoutesWalk ==
  ASSUME SearchesInv, RoutesInv, WalkOn
  PROVE  RoutesInv'
<1>1. /\ phase = "walk" /\ UNCHANGED <<graph, request, ctx>> /\ UNCHANGED <<tour, rung>>
  BY DEF WalkOn
<1>2. /\ rung = 1 /\ stage = "primary" /\ plan.path = <<>>
      /\ Chain(Nodes, path, Legals) /\ PlanTyped(Nodes, plan)
  <2>1. KeyLegal(graph, Meaning) = Legals
    BY <1>1, FieldSearchedIs DEF SearchesInv
  <2> QED
    BY <1>1, <2>1 DEF SearchesInv, ContextInv, FieldInv, Live
<1>3. CASE cursor \in DOMAIN prev
  <2>1. UNCHANGED <<phase, stage, plan>>
    BY <1>3 DEF WalkOn
  <2> QED
    BY <1>1, <2>1, RoutesStay
<1>4. CASE cursor \notin DOMAIN prev
  <2>1. plan' = WithPath(plan, path, 1) /\ RouteKnown(plan')
    BY <1>4 DEF WalkOn, WithPath
  <2>2. plan'.path = path /\ plan'.rung = 1 /\ plan'.others = plan.others
    <3>1. /\ WithPath(plan, path, 1).path = path /\ WithPath(plan, path, 1).rung = 1
          /\ WithPath(plan, path, 1).others = plan.others
      BY <1>2, RoutedPlan
    <3> QED
      BY <2>1, <3>1
  <2>3. Drawn(Nodes, Legals, plan)
    BY <1>1 DEF RoutesInv, Live
  <2>4. Drawn(Nodes, Legals, plan')
    BY <1>2, <2>2, <2>3 DEF Drawn
  <2> QED
    BY <1>1, <1>2, <2>1, <2>2, <2>4, RoutesKnown
<1> QED
  BY <1>3, <1>4

(* A path is whole: it is joined to the tour, or is another exit.           *)
LEMMA RoutesCollect ==
  ASSUME SearchesInv, RoutesInv, Collected
  PROVE  RoutesInv'
<1> DEFINE legs == Append(plan.legs, path)
           whole == IF plan.path = <<>> THEN path ELSE plan.path \o Tail(path)
           exit == path[Len(path)]
<1>1. /\ phase = "unwind" /\ cursor = None /\ UNCHANGED <<graph, request, ctx>>
      /\ UNCHANGED <<tour, rung>>
  BY DEF Collected
<1>2. Nodes' = Nodes /\ q' = q /\ Legals' = Legals /\ (Evacuating' <=> Evacuating)
  BY <1>1, SameRequest
<1>3. PlanTyped(Nodes, plan) /\ stage \in {"primary", "alternative"}
  BY <1>1 DEF SearchesInv, ContextInv, Live
<1>4. Chain(Nodes, path, Legals) /\ path # <<>> /\ path[1] = Source /\ Goal(exit)
  BY <1>1 DEF SearchesInv, UnwindInv
<1>5. Drawn(Nodes, Legals, plan) /\ (stage = "alternative" => plan.rung = rung)
      /\ (stage = "primary" /\ plan.path # <<>> => plan.path[Len(plan.path)] = Source)
  BY <1>1 DEF RoutesInv, Live
<1>6. CASE stage = "alternative"
  <2>1. plan' = [plan EXCEPT !.others = plan.others \cup {path}] /\ stage' = stage
    BY <1>6 DEF Collected
  <2>2. plan'.path = plan.path /\ plan'.rung = plan.rung /\ plan'.others = plan.others \cup {path}
    <3>1. \A o : /\ [plan EXCEPT !.others = o].path = plan.path
                 /\ [plan EXCEPT !.others = o].rung = plan.rung
                 /\ [plan EXCEPT !.others = o].others = o
      BY <1>3, WiderPlan
    <3> QED
      BY <2>1, <3>1
  <2>3. Drawn(Nodes, Legals, plan')
    BY <1>4, <1>5, <2>2 DEF Drawn
  <2> QED
    BY <1>1, <1>2, <1>5, <1>6, <2>1, <2>2, <2>3 DEF RoutesInv
<1>7. CASE stage = "primary"
  <2>1. /\ plan' = WithLeg(plan, whole, rung, legs)
        /\ IF ~Evacuating /\ Len(legs) < Len(ctx.stops)
           THEN phase' = "search" /\ StartFrom({exit}) /\ UNCHANGED <<stage, skip>>
           ELSE RouteKnown(plan')
    BY <1>7 DEF Collected, WithLeg
  <2>2. legs \in Seq(Seq(Nodes)) /\ Len(legs) = Len(plan.legs) + 1 /\ legs # <<>>
        /\ Len(plan.legs) \in Nat
    <3> DEFINE X == Seq(Nodes)
    <3>1. plan.legs \in Seq(X) /\ path \in X
      BY <1>3, <1>4 DEF Chain, PlanTyped
    <3> HIDE DEF X
    <3>2. /\ Append(plan.legs, path) \in Seq(X) /\ Len(Append(plan.legs, path)) = Len(plan.legs) + 1
          /\ Append(plan.legs, path) # <<>> /\ Len(plan.legs) \in Nat
      BY <3>1, OneMore, LenProperties
    <3> QED
      BY <3>2 DEF X
  <2>3. Chain(Nodes, whole, Legals) /\ whole # <<>> /\ whole[Len(whole)] = exit
    <3>1. CASE plan.path = <<>>
      BY <1>4, <3>1
    <3>2. CASE plan.path # <<>>
      <4>1. Chain(Nodes, plan.path, Legals)
        BY <1>5 DEF Drawn
      <4> QED
        BY <1>4, <1>5, <1>7, <3>2, <4>1, ChainsJoin
    <3> QED
      BY <3>1, <3>2
  <2>4. Goal(exit) => (~Evacuating => exit = ctx.stops[tour[Len(plan.legs) + 2] - 1])
    BY DEF Goal
  <2> HIDE DEF legs, whole, exit
  <2>5. plan'.path = whole /\ plan'.rung = rung /\ plan'.legs = legs /\ plan'.others = plan.others
    <3>1. /\ WithLeg(plan, whole, rung, legs).path = whole
          /\ WithLeg(plan, whole, rung, legs).rung = rung
          /\ WithLeg(plan, whole, rung, legs).legs = legs
          /\ WithLeg(plan, whole, rung, legs).others = plan.others
      BY <1>3, <2>2, LongerPlan
    <3> QED
      BY <2>1, <3>1
  <2>6. Drawn(Nodes, Legals, plan')
    BY <1>5, <2>3, <2>5 DEF Drawn
  <2>7. CASE ~Evacuating /\ Len(legs) < Len(ctx.stops)
    <3>1. Source' = ctx.stops[tour[Len(plan'.legs) + 1] - 1]
      BY <1>1, <1>2, <2>2, <2>5, <2>7 DEF Source
    <3>2. Len(plan'.legs) + 1 = Len(plan.legs) + 2
      BY <2>2, <2>5
    <3>3. plan'.path[Len(plan'.path)] = Source'
      BY <1>4, <2>3, <2>4, <2>5, <2>7, <3>1, <3>2
    <3> QED
      BY <1>2, <1>7, <2>1, <2>5, <2>6, <2>7, <3>3 DEF RoutesInv
  <2>8. CASE ~ (~Evacuating /\ Len(legs) < Len(ctx.stops))
    <3>1. RouteKnown(plan')
      BY <2>1, <2>8
    <3> QED
      BY <1>1, <1>7, <2>5, <2>6, <3>1, RoutesKnown
  <2> QED
    BY <2>7, <2>8
<1> QED
  BY <1>3, <1>6, <1>7

(* A search ran dry: what was drawn is kept, or dropped with the attempt.   *)
LEMMA RoutesExhaust ==
  ASSUME SearchesInv, RoutesInv, Exhausted
  PROVE  RoutesInv'
<1>1. /\ phase = "search" /\ UNCHANGED <<graph, request, ctx>> /\ UNCHANGED <<stage, tour>>
  BY DEF Exhausted
<1>2. stage \in {"primary", "alternative"}
  BY <1>1 DEF SearchesInv, ContextInv, Live
<1>3. CASE stage = "alternative"
  <2>1. UNCHANGED <<rung, plan>> /\ phase' = "idle"
    BY <1>3 DEF Exhausted, Answer
  <2>2. Nodes' = Nodes /\ Legals' = Legals
    BY <1>1, <2>1, SameRequest
  <2>3. Drawn(Nodes, Legals, plan) /\ plan.rung = rung
    BY <1>1, <1>3 DEF RoutesInv, Live
  <2>4. Drawn(Nodes', Legals', plan') /\ plan'.rung = rung' /\ phase' = "idle"
    BY <2>1, <2>2, <2>3
  <2> QED
    BY <2>4 DEF RoutesInv
<1>4. CASE stage = "primary"
  <2>1. plan' = Nothing /\ (phase' = "search" \/ (phase' = "idle" /\ reply'.status = 404))
    BY <1>1, <1>4 DEF Exhausted, Answer
  <2>2. Drawn(Nodes', Legals', plan') /\ plan'.path = <<>>
    BY <2>1, NothingDrawn
  <2>3. CASE phase' = "search"
    BY <1>1, <1>4, <2>2, <2>3 DEF RoutesInv
  <2>4. CASE phase' = "idle" /\ reply'.status = 404
    BY <2>4 DEF RoutesInv, Live
  <2> QED
    BY <2>1, <2>3, <2>4
<1> QED
  BY <1>2, <1>3, <1>4

(* A field is followed, or the ladder taken.                                *)
LEMMA RoutesFollow ==
  ASSUME SearchesInv, RoutesInv, phase \in {"lookup", "field"},
         UNCHANGED <<graph, request, ctx, tour, stage, rung>>, NEW f, Follow(f)
  PROVE  RoutesInv'
<1>1. PlanTyped(Nodes, plan) /\ plan.path = <<>>
  BY DEF SearchesInv, ContextInv, FieldInv, Live
<1>2. \/ plan' = [plan EXCEPT !.cost = f.dist[q.from]]
      \/ plan' = plan
  BY DEF Follow
<1>3. /\ plan'.path = plan.path /\ plan'.others = plan.others
      /\ plan'.rung = plan.rung /\ plan'.legs = plan.legs
  <2>1. \A c : /\ [plan EXCEPT !.cost = c].legs = plan.legs /\ [plan EXCEPT !.cost = c].path = plan.path
               /\ [plan EXCEPT !.cost = c].others = plan.others /\ [plan EXCEPT !.cost = c].rung = plan.rung
    BY <1>1, CostedPlan
  <2> QED
    BY <1>2, <2>1
<1>4. phase' \in {"walk", "search"}
  BY DEF Follow
<1> QED
  BY <1>1, <1>3, <1>4, RoutesStay

(* Every step keeps routes on the hops of the running attempt.              *)
LEMMA RoutesNext ==
  ASSUME SearchesInv, RoutesInv, [WNext]_allVars
  PROVE  RoutesInv'
<1>1. CASE UNCHANGED vars
  <2>1. UNCHANGED <<graph, request, ctx>> /\ UNCHANGED <<phase, tour, stage, rung, plan, reply>>
    BY <1>1 DEF vars
  <2>2. Nodes' = Nodes /\ q' = q /\ Legals' = Legals /\ (Evacuating' <=> Evacuating)
    BY <2>1, SameRequest
  <2>3. Source' = Source
    BY <2>1, <2>2 DEF Source
  <2> QED
    BY <2>1, <2>2, <2>3 DEF RoutesInv, Live, Drawn
<1>2. CASE Plan
  <2>1. CASE TwoOpt
    <3>1. phase = "order" /\ plan.path = <<>>
      BY <2>1 DEF TwoOpt, SearchesInv, OrderInv, Nothing
    <3>2. UNCHANGED <<graph, request, ctx>> /\ UNCHANGED <<stage, rung, plan>> /\ phase' \in {"order", "search"}
      BY <2>1 DEF TwoOpt
    <3>3. Nodes' = Nodes /\ Legals' = Legals
      BY <3>2, SameRequest
    <3> QED
      <4>1. Live /\ stage = "primary"
        BY <3>1 DEF Live, SearchesInv, OrderInv
      <4>2. Drawn(Nodes, Legals, plan)'
        BY <3>2, <3>3, <4>1 DEF RoutesInv, Drawn
      <4> QED
        BY <3>1, <3>2, <4>1, <4>2 DEF RoutesInv
  <2>2. CASE FieldHit
    <3>1. PICK i \in Kept(FieldKey) : Follow(fields[i])
      BY <2>2 DEF FieldHit
    <3>2. UNCHANGED <<graph, request, ctx, tour, stage, rung>> /\ phase = "lookup"
      BY <2>2 DEF FieldHit
    <3> QED
      BY <3>1, <3>2, RoutesFollow
  <2>3. CASE FieldMiss
    <3>1. plan.path = <<>>
      BY <2>3 DEF FieldMiss, SearchesInv, FieldInv
    <3>2. UNCHANGED <<graph, request, ctx, tour, stage, rung>> /\ plan' = plan
          /\ phase = "lookup" /\ phase' = "field"
      BY <2>3 DEF FieldMiss
    <3> QED
      BY <3>1, <3>2, RoutesStay
  <2>4. CASE FieldDone
    <3>1. /\ UNCHANGED <<graph, request, ctx, tour, stage, rung>> /\ phase = "field"
          /\ \E f : Follow(f)
      BY <2>4 DEF FieldDone
    <3> QED
      BY <3>1, RoutesFollow
  <2>5. CASE DropStale \/ Settle
    <3>1. UNCHANGED <<graph, request, ctx, tour, stage, rung>> /\ UNCHANGED <<plan, phase>>
          /\ phase # "idle"
      BY <2>5 DEF DropStale, Settle
    <3> QED
      BY <3>1, RoutesStay
  <2>6. CASE Reach
    <3>1. UNCHANGED <<graph, request, ctx, tour, stage, rung>> /\ phase = "search" /\ phase' = "unwind"
      BY <2>6 DEF Reach
    <3>2. \/ plan' = plan
          \/ \E c : plan' = [plan EXCEPT !.cost = c]
      BY <2>6 DEF Reach
    <3>3. PlanTyped(Nodes, plan)
      BY <3>1 DEF SearchesInv, ContextInv, Live
    <3>4. \A c : /\ [plan EXCEPT !.cost = c].legs = plan.legs /\ [plan EXCEPT !.cost = c].path = plan.path
                 /\ [plan EXCEPT !.cost = c].others = plan.others /\ [plan EXCEPT !.cost = c].rung = plan.rung
      BY <3>3, CostedPlan
    <3>5. /\ plan'.path = plan.path /\ plan'.others = plan.others
          /\ plan'.rung = plan.rung /\ plan'.legs = plan.legs
      BY <3>2, <3>4
    <3> QED
      BY <3>1, <3>5, RoutesStay
  <2>7. CASE Unwind
    <3>1. UNCHANGED <<graph, request, ctx, tour, stage, rung>> /\ UNCHANGED <<plan, phase>>
          /\ phase # "idle"
      BY <2>7 DEF Unwind
    <3> QED
      BY <3>1, RoutesStay
  <2> QED
    BY <1>2, <2>1, <2>2, <2>3, <2>4, <2>5, <2>6, <2>7, RoutesWalk, RoutesCollect, RoutesExhaust DEF Plan
<1>3. ASSUME NEW qq \in Queries, NEW C \in ClosureSets, Request(qq, C)
      PROVE  RoutesInv'
  BY <1>3, RoutesArrive DEF Request
<1>4. CASE Guide
  BY <1>1, <1>4 DEF Guide, Assemble, Measure, Simplify, FindTurns, AddConfirmations, Share
<1>5. CASE UNCHANGED allVars
  BY <1>1, <1>5 DEF allVars
<1> QED
  BY <1>2, <1>3, <1>4, <1>5 DEF WNext, Work, Search

(* The hop a path takes is the one hop there is between its two nodes.      *)
LEMMA HopTaken ==
  ASSUME WellFormed(graph), NEW H, H \subseteq graph.hops, NEW p, Chain(Nodes, p, H),
         NEW i \in 1 .. Len(p) - 1
  PROVE  HopAt(p, i) \in H /\ HopAt(p, i).from = p[i] /\ HopAt(p, i).to = p[i + 1]
<1>1. PICK h \in H : h.from = p[i] /\ h.to = p[i + 1]
  BY DEF Chain, Hop
<1>2. \A k \in graph.hops : k.from = p[i] /\ k.to = p[i + 1] => k = h
  BY <1>1 DEF WellFormed
<1>3. HopAt(p, i) = CHOOSE k \in graph.hops : k.from = p[i] /\ k.to = p[i + 1]
  BY DEF HopAt, PathEdges
<1>4. HopAt(p, i) = h
  BY <1>1, <1>2, <1>3
<1> QED
  BY <1>1, <1>4

(* What is shut is blocked by the overlay of the closures.                  *)
LEMMA ShutIsBlocked ==
  ASSUME NEW e \in DOMAIN graph.edge, NEW n \in DOMAIN graph.node
  PROVE  /\ ShutEdge(e) => e \in BuildOverlay(graph, request.closures).edges
         /\ ShutNode(n) => n \in BuildOverlay(graph, request.closures).nodes /\ n # q.from
<1> DEFINE C == request.closures
           blocking == {c \in C : c.times = 0}
<1>1. /\ BuildOverlay(graph, C).edges = UNION {ScopeOf(graph, c).edges : c \in blocking}
      /\ BuildOverlay(graph, C).nodes = UNION {ScopeOf(graph, c).nodes : c \in blocking}
  BY DEF BuildOverlay
<1>2. ASSUME ShutEdge(e) PROVE e \in BuildOverlay(graph, C).edges
  <2>1. PICK c \in blocking : \/ e \in c.edges
                              \/ c.edges = {} /\ c.nodes = {} /\ e \in EdgesOnFloor(graph, c.floor)
    BY <1>2 DEF ShutEdge
  <2>2. e \in ScopeOf(graph, c).edges
    BY <2>1 DEF ScopeOf
  <2> QED
    BY <1>1, <2>2
<1>3. ASSUME ShutNode(n) PROVE n \in BuildOverlay(graph, C).nodes /\ n # q.from
  <2>1. PICK c \in blocking : n \in c.nodes
    BY <1>3 DEF ShutNode
  <2>2. n \in ScopeOf(graph, c).nodes
    BY <2>1 DEF ScopeOf
  <2> QED
    BY <1>1, <1>3, <2>2 DEF ShutNode
<1> QED
  BY <1>2, <1>3

(* What an attempt may take is open, and closed to nothing it respects.     *)
LEMMA LegalIsOpen ==
  ASSUME WellFormed(graph), request.closures \in ClosureSets,
         ctx = Context(graph, q, request.closures), NEW h \in Legals
  PROVE  /\ h \in graph.hops
         /\ IF Evacuating THEN OpenInEmergency(h) ELSE VisibilityFilter(graph, q.name, h)
         /\ ~IsLastResort(rung) => ~ShutEdge(h.edge) /\ ~ShutNode(h.to)
<1> DEFINE f == FilterOf(q, ctx, rung)
           p == ProfileOf(ctx, rung)
<1>1. /\ ctx.own = OverlayForOrigin(ctx.overlay, q.from)
      /\ ctx.overlay = BuildOverlay(graph, request.closures)
      /\ ctx.profile = EffectiveProfile(graph, q)
      /\ ctx.last = ResolveProfile(graph, "emergency")
  BY ContextLaid
<1>2. h \in graph.hops /\ Passes(graph, q, f, h) /\ ~Forbidden(graph, p, h)
  BY DEF Legals, HopsOf, Legal
<1>3. f.name = IF Evacuating THEN "emergency" ELSE q.name
  BY DEF FilterOf, Evacuating
<1>4. VisibilityFilter(graph, f.name, h) /\ OverlayFilter(f.overlay, h)
  BY <1>2 DEF Passes
<1>5. ASSUME Evacuating PROVE p.blocked = IF graph.rated THEN {} ELSE {"ELEVATOR"}
  <2>1. EffectiveProfile(graph, q).blocked = ResolveProfile(graph, "emergency").blocked
    BY <1>5 DEF EffectiveProfile, ResolveProfile, Evacuating
  <2>2. ResolveProfile(graph, "emergency").blocked = IF graph.rated THEN {} ELSE {"ELEVATOR"}
    BY DEF ResolveProfile
  <2>3. p \in {ctx.last, ctx.profile}
    BY DEF ProfileOf
  <2> QED
    BY <1>1, <2>1, <2>2, <2>3
<1>6. h.edge \in DOMAIN graph.edge /\ h.to \in DOMAIN graph.node
  BY <1>2 DEF WellFormed
<1>7. ASSUME ~IsLastResort(rung) PROVE ~ShutEdge(h.edge) /\ ~ShutNode(h.to)
  <2>1. f.overlay = OverlayForOrigin(ctx.overlay, q.from)
    BY <1>1, <1>7 DEF FilterOf, IsLastResort
  <2>2. f.overlay.edges = ctx.overlay.edges /\ f.overlay.nodes = ctx.overlay.nodes \ {q.from}
    <3>1. \A t, e, m, k, o : /\ [[times |-> t, edges |-> e, nodes |-> m, print |-> k] EXCEPT !.nodes = o].nodes = o
                             /\ [[times |-> t, edges |-> e, nodes |-> m, print |-> k] EXCEPT !.nodes = o].edges = e
      OBVIOUS
    <3> QED
      BY <1>1, <2>1, <3>1 DEF OverlayForOrigin, BuildOverlay
  <2>3. h.edge \notin ctx.overlay.edges /\ h.to \notin ctx.overlay.nodes \ {q.from}
    BY <1>4, <2>2 DEF OverlayFilter
  <2> QED
    BY <1>1, <1>6, <2>3, ShutIsBlocked
<1> HIDE DEF f, p
<1>8. ASSUME Evacuating PROVE OpenInEmergency(h)
  BY <1>2, <1>3, <1>4, <1>5, <1>8 DEF OpenInEmergency, Forbidden
<1> QED
  BY <1>2, <1>3, <1>4, <1>7, <1>8

(* Such routes keep out of what is closed.                                  *)
LEMMA RoutesKeepOut ==
  ASSUME SearchesInv, RoutesInv
  PROVE  KeepsOut
<1> SUFFICES ASSUME Answered, NEW p \in {plan.path} \cup plan.others, NEW i \in 1 .. Len(p) - 1
             PROVE  /\ IF Evacuating THEN OpenInEmergency(HopAt(p, i))
                       ELSE VisibilityFilter(graph, q.name, HopAt(p, i))
                    /\ "closuresIgnored" \notin Relaxed =>
                         ~ShutEdge(HopAt(p, i).edge) /\ ~ShutNode(HopAt(p, i).to)
  BY DEF KeepsOut
<1>1. Live /\ phase = "idle"
  BY DEF Live, Answered
<1>2. /\ WellFormed(graph) /\ request.closures \in ClosureSets
      /\ ctx = Context(graph, q, request.closures)
  BY <1>1 DEF SearchesInv, GraphInv, ContextInv
<1>3. Chain(Nodes, p, Legals) /\ plan.rung = rung
  BY <1>1 DEF RoutesInv, Drawn
<1>4. HopAt(p, i) \in Legals
  <2>1. Legals \subseteq graph.hops
    BY DEF Legals, HopsOf, Legal
  <2> QED
    BY <1>2, <1>3, <2>1, HopTaken
<1>5. "closuresIgnored" \notin Relaxed => ~IsLastResort(rung)
  BY <1>3 DEF Relaxed, Flags
<1> QED
  BY <1>2, <1>4, <1>5, LegalIsOpen

(* planning.js, multiStop.js: whatever has been collected for a request runs *)
(* along hops that the attempt it reports allows.                           *)
THEOREM RoutesAreDrawn ==
  WSpec => []RoutesInv
<1>1. WInit => RoutesInv
  BY DEF WInit, Init, NoReply, RoutesInv, Live
<1>2. SearchesInv /\ RoutesInv /\ [WNext]_allVars => RoutesInv'
  BY RoutesNext
<1> QED
  BY <1>1, <1>2, SearchesAreSound, PTL DEF WSpec

(* closures.js, profiles.js: no route, and no other exit offered beside it, *)
(* crosses what is closed unless it says so, nor what an emergency forbids. *)
THEOREM RoutesStayOut ==
  WSpec => []KeepsOut
BY SearchesAreSound, RoutesAreDrawn, RoutesKeepOut, PTL

(***************************************************************************)
(* Sums                                                                     *)
(***************************************************************************)

(* The greatest of some positions.                                         *)
LEMMA MaxOf ==
  ASSUME NEW n \in Nat, NEW S \in SUBSET (1 .. n), S # {}
  PROVE  Max(S) \in S /\ \A x \in S : x <= Max(S)
<1> DEFINE T == {n - x : x \in S}
<1>1. T \in SUBSET Nat /\ T # {}
  <2>1. \A x \in S : n - x \in Nat
    OBVIOUS
  <2> QED
    BY <2>1
<1>2. PICK t \in T : \A u \in T : t <= u
  <2> HIDE DEF T
  <2> QED
    BY <1>1, LeastNatural
<1>3. PICK m \in S : t = n - m
  BY <1>2
<1>4. \A x \in S : m >= x
  <2> SUFFICES ASSUME NEW x \in S PROVE m >= x
    OBVIOUS
  <2>1. n - x \in T
    OBVIOUS
  <2>2. t <= n - x
    BY <1>2, <2>1
  <2> QED
    BY <1>3, <2>2
<1>5. Max(S) \in S /\ \A x \in S : Max(S) >= x
  BY <1>4, Zenon DEF Max
<1> DEFINE M == Max(S)
<1>6. M \in S /\ \A x \in S : M >= x
  BY <1>5
<1> HIDE DEF M
<1>7. M \in S /\ \A x \in S : x <= M
  BY <1>6
<1> QED
  BY <1>7 DEF M

(* g adds up the numbers of s, one after another.                          *)
Adds(s, n, g) ==
  g \in [0 .. n -> Int] /\ g[0] = 0 /\ \A k \in 1 .. n : g[k] = g[k - 1] + s[k]

Numbers(s, n) == DOMAIN s = 1 .. n /\ \A i \in 1 .. n : s[i] \in Int

(* The sums of a sequence's numbers at each set of positions, the last first. *)
Totals(s, f) ==
  f = [S \in SUBSET DOMAIN s |-> IF S = {} THEN 0 ELSE f[S \ {Max(S)}] + s[Max(S)]]

(* The numbers of a sequence add up, one after the other.                   *)
LEMMA AddsExist ==
  ASSUME NEW n \in Nat, NEW s, Numbers(s, n)
  PROVE  \E g : Adds(s, n, g)
<1> DEFINE F == [k \in 1 .. n |-> [x \in Int |-> x + s[k]]]
<1>1. IsStep(n, Int, F)
  BY DEF IsStep, Numbers
<1>2. PICK g : Iterates(g, n, Int, 0, F)
  <2> HIDE DEF F
  <2> QED
    BY <1>1, IterationExists
<1>3. ASSUME NEW k \in 1 .. n PROVE g[k] = g[k - 1] + s[k]
  <2>1. g[k - 1] \in Int /\ g[k] = F[k][g[k - 1]]
    <3> HIDE DEF F
    <3>1. k - 1 \in 0 .. n
      OBVIOUS
    <3> QED
      BY <1>2, <3>1 DEF Iterates
  <2> QED
    BY <2>1
<1> HIDE DEF F
<1>4. Adds(s, n, g)
  BY <1>2, <1>3 DEF Adds, Iterates
<1> QED
  BY <1>4

(* Of the numbers at some positions: without the last of them, less by it.  *)
LEMMA AddsLess ==
  ASSUME NEW n \in Nat, NEW s, Numbers(s, n), NEW S \in SUBSET (1 .. n), S # {},
         NEW g, Adds([k \in 1 .. n |-> IF k \in S THEN s[k] ELSE 0], n, g),
         NEW h, Adds([k \in 1 .. n |-> IF k \in S \ {Max(S)} THEN s[k] ELSE 0], n, h)
  PROVE  g[n] = h[n] + s[Max(S)]
<1> DEFINE m == Max(S)
<1>1. m \in S /\ m \in 1 .. n /\ \A x \in S : x <= m
  BY MaxOf
<1>a. s[m] \in Int /\ \A k \in 1 .. n : s[k] \in Int
  BY <1>1 DEF Numbers
<1> HIDE DEF m
<1>2. /\ g \in [0 .. n -> Int] /\ g[0] = 0
      /\ \A k \in 1 .. n : g[k] = g[k - 1] + (IF k \in S THEN s[k] ELSE 0)
  BY DEF Adds
<1>3. /\ h \in [0 .. n -> Int] /\ h[0] = 0
      /\ \A k \in 1 .. n : h[k] = h[k - 1] + (IF k \in S \ {m} THEN s[k] ELSE 0)
  BY DEF Adds, m
<1> DEFINE G == {k \in 0 .. n : g[k] = h[k] + (IF k >= m THEN s[m] ELSE 0)}
<1>4. 0 \in G
  BY <1>1, <1>2, <1>3
<1>5. ASSUME NEW k \in 1 .. n, k - 1 \in G PROVE k \in G
  <2>1. g[k - 1] = h[k - 1] + (IF k - 1 >= m THEN s[m] ELSE 0)
    BY <1>5
  <2>2. g[k] = g[k - 1] + (IF k \in S THEN s[k] ELSE 0) /\ h[k] = h[k - 1] + (IF k \in S \ {m} THEN s[k] ELSE 0)
    BY <1>2, <1>3
  <2>3. h[k - 1] \in Int /\ s[k] \in Int
    BY <1>3, <1>a
  <2>4. CASE k < m
    BY <1>1, <1>a, <2>1, <2>2, <2>3, <2>4
  <2>5. CASE k = m
    BY <1>1, <1>a, <2>1, <2>2, <2>3, <2>5
  <2>6. CASE k > m
    BY <1>1, <1>a, <2>1, <2>2, <2>3, <2>6
  <2> QED
    BY <1>1, <2>4, <2>5, <2>6
<1>6. G = 0 .. n
  <2>1. G \in SUBSET (0 .. n)
    OBVIOUS
  <2> HIDE DEF G
  <2> QED
    BY <1>4, <1>5, <2>1, UpTo
<1>7. n \in G
  BY <1>6
<1> QED
  BY <1>1, <1>7 DEF m

(* The totals are well defined.                                            *)
LEMMA TotalsExist ==
  ASSUME NEW n \in Nat, NEW s, Numbers(s, n)
  PROVE  \E f : Totals(s, f)
<1> DEFINE At(S) == [k \in 1 .. n |-> IF k \in S THEN s[k] ELSE 0]
           g(S) == CHOOSE h : Adds(At(S), n, h)
           f == [S \in SUBSET DOMAIN s |-> g(S)[n]]
<1>1. ASSUME NEW S \in SUBSET (1 .. n) PROVE Adds(At(S), n, g(S))
  <2>1. Numbers(At(S), n)
    BY DEF Numbers
  <2> HIDE DEF At
  <2>2. \E h : Adds(At(S), n, h)
    BY <2>1, AddsExist
  <2> QED
    BY <2>2
<1> HIDE DEF g
<1>2. ASSUME NEW S \in SUBSET (1 .. n), S # {}
      PROVE  g(S)[n] = g(S \ {Max(S)})[n] + s[Max(S)]
  <2>1. Adds(At(S), n, g(S)) /\ Adds(At(S \ {Max(S)}), n, g(S \ {Max(S)}))
    BY <1>1
  <2> QED
    BY <1>2, <2>1, AddsLess
<1>3. g({})[n] = 0
  <2>1. Adds(At({}), n, g({}))
    BY <1>1
  <2>2. g({})[0] = 0 /\ \A k \in 1 .. n : g({})[k] = g({})[k - 1] + 0
    BY <2>1 DEF Adds
  <2>3. g({}) \in [0 .. n -> Int]
    BY <2>1 DEF Adds
  <2> DEFINE G == {k \in 0 .. n : g({})[k] = 0}
  <2>4. 0 \in G /\ G \in SUBSET (0 .. n)
    BY <2>2
  <2>5. \A k \in 1 .. n : k - 1 \in G => k \in G
    BY <2>2
  <2>6. G = 0 .. n
    <3> HIDE DEF G
    <3> QED
      BY <2>4, <2>5, UpTo
  <2>7. n \in G
    BY <2>6
  <2> QED
    BY <2>7
<1> HIDE DEF At
<1>4. DOMAIN s = 1 .. n
  BY DEF Numbers
<1>5. ASSUME NEW S \in SUBSET DOMAIN s
      PROVE  f[S] = IF S = {} THEN 0 ELSE f[S \ {Max(S)}] + s[Max(S)]
  <2>1. f[S] = g(S)[n] /\ f[S \ {Max(S)}] = g(S \ {Max(S)})[n]
    OBVIOUS
  <2> QED
    BY <1>2, <1>3, <1>4, <2>1
<1>6. f = [S \in SUBSET DOMAIN s |-> f[S]]
  OBVIOUS
<1> HIDE DEF f
<1>7. Totals(s, f)
  BY <1>5, <1>6 DEF Totals
<1> QED
  BY <1>7

(* What adds the numbers of a sequence up comes to their sum.              *)
LEMMA SumIs ==
  ASSUME NEW n \in Nat, NEW s, Numbers(s, n), NEW g, Adds(s, n, g)
  PROVE  Sum(s) = g[n]
<1> DEFINE f == CHOOSE h : Totals(s, h)
<1>1. Sum(s) = f[DOMAIN s]
  BY Zenon DEF Sum, FoldLeft, MapThenFoldSet, Totals
<1>2. Totals(s, f)
  BY TotalsExist
<1> HIDE DEF f
<1>3. \A S \in SUBSET (1 .. n) : f[S] = IF S = {} THEN 0 ELSE f[S \ {Max(S)}] + s[Max(S)]
  <2>1. \A S \in SUBSET DOMAIN s : f[S] = IF S = {} THEN 0 ELSE f[S \ {Max(S)}] + s[Max(S)]
    BY <1>2, Zenon DEF Totals
  <2> QED
    BY <2>1 DEF Numbers
<1> DEFINE G == {k \in 0 .. n : f[1 .. k] = g[k]}
<1>4. 0 \in G
  <2>1. 1 .. 0 = {} /\ 1 .. 0 \in SUBSET (1 .. n)
    OBVIOUS
  <2>2. f[1 .. 0] = 0
    BY <1>3, <2>1
  <2> QED
    BY <2>2 DEF Adds
<1>5. ASSUME NEW k \in 1 .. n, k - 1 \in G PROVE k \in G
  <2>1. 1 .. k \in SUBSET (1 .. n) /\ 1 .. k # {} /\ k \in 1 .. k
    OBVIOUS
  <2>2. Max(1 .. k) \in 1 .. k /\ \A x \in 1 .. k : x <= Max(1 .. k)
    BY <2>1, MaxOf
  <2>3. Max(1 .. k) = k
    BY <2>1, <2>2
  <2>4. (1 .. k) \ {k} = 1 .. k - 1
    OBVIOUS
  <2>5. f[1 .. k] = f[1 .. k - 1] + s[k]
    BY <1>3, <2>1, <2>3, <2>4
  <2>6. f[1 .. k - 1] = g[k - 1]
    BY <1>5
  <2> QED
    BY <2>5, <2>6 DEF Adds
<1>6. G = 0 .. n
  <2>1. G \in SUBSET (0 .. n)
    OBVIOUS
  <2> HIDE DEF G
  <2> QED
    BY <1>4, <1>5, <2>1, UpTo
<1>7. n \in G
  BY <1>6
<1> QED
  BY <1>1, <1>7 DEF Numbers

(***************************************************************************)
(* The order of a tour                                                      *)
(***************************************************************************)

(* Every natural number has a whole square root.                           *)
LEMMA SquareRoot ==
  ASSUME NEW n \in Nat
  PROVE  (CHOOSE d \in 0 .. n : d * d <= n /\ (d + 1) * (d + 1) > n) \in Nat
<1> DEFINE S == {e \in Nat : e * e > n}
<1>1. n + 1 \in S
  <2>1. (n + 1) * (n + 1) = n * n + 2 * n + 1 /\ n * n >= 0
    OBVIOUS
  <2> QED
    BY <2>1
<1>2. PICK e \in S : \A f \in S : e <= f
  <2> HIDE DEF S
  <2>1. S \in SUBSET Nat
    BY DEF S
  <2> QED
    BY <1>1, <2>1, LeastNatural
<1>3. e \in Nat /\ e * e > n /\ e # 0
  <2>1. e \in Nat /\ e * e > n
    BY <1>2
  <2>2. e # 0
    <3> SUFFICES ASSUME e = 0 PROVE FALSE
      OBVIOUS
    <3>1. 0 * 0 > n
      BY <2>1
    <3> QED
      BY <3>1
  <2> QED
    BY <2>1, <2>2
<1> DEFINE d == e - 1
<1>4. d \in Nat /\ d + 1 = e
  BY <1>3
<1>5. d * d <= n
  <2>1. d \notin S
    BY <1>2, <1>4
  <2>2. d * d \in Nat
    BY <1>4, TimesNatural
  <2> HIDE DEF d
  <2> QED
    BY <1>4, <2>1, <2>2
<1>6. d <= n
  <2>1. d <= d * d
    <3> HIDE DEF d
    <3>1. CASE d = 0
      BY <3>1
    <3>2. CASE d >= 1
      <4>1. d * d = d + d * (d - 1)
        BY <1>4
      <4>2. d * (d - 1) \in Nat
        <5>1. d - 1 \in Nat
          BY <1>4, <3>2
        <5> QED
          BY <1>4, <5>1, TimesNatural
      <4> QED
        BY <1>4, <4>1, <4>2
    <3> QED
      BY <1>4, <3>1, <3>2
  <2>2. d * d \in Nat
    BY <1>4, TimesNatural
  <2> HIDE DEF d
  <2> QED
    BY <1>4, <1>5, <2>1, <2>2
<1>7. \E r \in 0 .. n : r * r <= n /\ (r + 1) * (r + 1) > n
  <2>1. d \in 0 .. n /\ d * d <= n /\ (d + 1) * (d + 1) > n
    BY <1>3, <1>4, <1>5, <1>6
  <2> HIDE DEF d
  <2> QED
    BY <2>1
<1> DEFINE Q(r) == r * r <= n /\ (r + 1) * (r + 1) > n
<1>8. (CHOOSE r \in 0 .. n : Q(r)) \in 0 .. n
  <2>1. \E r \in 0 .. n : Q(r)
    BY <1>7
  <2> HIDE DEF Q
  <2> QED
    BY <2>1
<1> QED
  BY <1>8

(* The estimate between two stops is a natural number, the same both ways.  *)
LEMMA EstimateIs ==
  ASSUME NEW g, WellFormed(g), NEW a \in DOMAIN g.node, NEW b \in DOMAIN g.node
  PROVE  /\ EstimateLegCost(g, a, b) \in Nat
         /\ EstimateLegCost(g, a, b) = EstimateLegCost(g, b, a)
<1> DEFINE X(m, n) == (g.node[m].x - g.node[n].x) * (g.node[m].x - g.node[n].x)
           Y(m, n) == (g.node[m].y - g.node[n].y) * (g.node[m].y - g.node[n].y)
           d2(m, n) == X(m, n) + Y(m, n)
           up(m, n) == IF g.node[m].floor > g.node[n].floor THEN g.node[m].floor - g.node[n].floor
                       ELSE g.node[n].floor - g.node[m].floor
           S(n) == IF g.scale[g.node[n].floor] > 0 THEN g.scale[g.node[n].floor] ELSE AssumedScale
           Root(n) == CHOOSE d \in 0 .. n : d * d <= n /\ (d + 1) * (d + 1) > n
           E(m, n) == IF g.node[m].floor = g.node[n].floor THEN Root(d2(m, n))
                      ELSE ChangeMetres * Max({1, up(m, n)}) * ((S(m) + S(n)) \div 2)
<1>1. \A m, n : EstimateLegCost(g, m, n) = E(m, n)
  BY DEF EstimateLegCost
<1>2. \A n \in DOMAIN g.node : g.node[n].floor \in Int /\ g.node[n].x \in Int /\ g.node[n].y \in Int
                               /\ S(n) \in Nat
  <2>1. AssumedScale \in Nat
    BY RoutingCosts
  <2> QED
    BY <2>1 DEF WellFormed
<1>3. ASSUME NEW m \in Int, NEW n \in Int
      PROVE  (m - n) * (m - n) \in Nat /\ (m - n) * (m - n) = (n - m) * (n - m)
  OBVIOUS
<1>4. X(a, b) \in Nat /\ X(a, b) = X(b, a) /\ Y(a, b) \in Nat /\ Y(a, b) = Y(b, a)
  BY <1>2, <1>3
<1>5. d2(a, b) \in Nat /\ d2(a, b) = d2(b, a)
  <2> HIDE DEF X, Y
  <2> QED
    BY <1>4
<1>6. up(a, b) \in Nat /\ up(a, b) = up(b, a)
  BY <1>2
<1>7. (S(a) + S(b)) \div 2 \in Nat /\ (S(a) + S(b)) = S(b) + S(a)
  BY <1>2
<1>8. Root(d2(a, b)) \in Nat
  <2> HIDE DEF d2
  <2> QED
    BY <1>5, SquareRoot
<1>9. Max({1, up(a, b)}) \in Nat
  <2> HIDE DEF up
  <2>1. \E x \in {1, up(a, b)} : \A y \in {1, up(a, b)} : x >= y
    <3>1. CASE up(a, b) >= 1
      BY <1>6, <3>1
    <3>2. CASE up(a, b) < 1
      BY <1>6, <3>2
    <3> QED
      BY <1>6, <3>1, <3>2
  <2>2. Max({1, up(a, b)}) \in {1, up(a, b)}
    BY <2>1, Zenon DEF Max
  <2> QED
    BY <1>6, <2>2
<1> HIDE DEF X, Y, d2, up, S, Root
<1>10. ChangeMetres * Max({1, up(a, b)}) * ((S(a) + S(b)) \div 2) \in Nat
  <2>1. ChangeMetres \in Nat
    BY PlanningBounds
  <2>2. ChangeMetres * Max({1, up(a, b)}) \in Nat
    BY <1>9, <2>1, TimesNatural
  <2> QED
    BY <1>7, <2>2, TimesNatural
<1>11. E(a, b) \in Nat /\ E(a, b) = E(b, a)
  <2>1. E(a, b) \in Nat
    BY <1>8, <1>10
  <2>2. E(a, b) = E(b, a)
    BY <1>5, <1>6, <1>7
  <2> QED
    BY <2>1, <2>2
<1> QED
  BY <1>1, <1>11

(* What a leg between two points of a tour is estimated at.                 *)
Leg(g, a, s, j, k) == EstimateLegCost(g, TourPoint(g, a, s, j), TourPoint(g, a, s, k))

(* The origin and the stops are nodes of the graph.                         *)
Placed(g, a, s) == a.from \in DOMAIN g.node /\ s \in Seq(DOMAIN g.node)

(* The k-th point of a tour begun by t: the nearest one left.              *)
Nearest(g, a, s, t, k) ==
  LET done == {t[i] : i \in 1 .. k - 1}
      here == t[k - 1]
      left == (1 .. Len(s) + 1) \ done
      near == {j \in left : \A m \in left : Leg(g, a, s, here, j) <= Leg(g, a, s, here, m)}
  IN Min(near)
IsOrder(g, a, s, o) ==
  o = [k \in 1 .. Len(s) + 1 |->
         IF k = 1 THEN <<1>> ELSE Append(o[k - 1], Nearest(g, a, s, o[k - 1], k))]

(* k different points out of n, the start first.                            *)
Toured(n, t, k) ==
  /\ t \in Seq(1 .. n) /\ Len(t) = k /\ t[1] = 1
  /\ Cardinality({t[i] : i \in 1 .. k}) = k

(* A leg costs a natural number, the same both ways.                        *)
LEMMA LegIs ==
  ASSUME NEW g, WellFormed(g), NEW a, NEW s, Placed(g, a, s),
         NEW j \in 1 .. Len(s) + 1, NEW k \in 1 .. Len(s) + 1
  PROVE  Leg(g, a, s, j, k) \in Nat /\ Leg(g, a, s, j, k) = Leg(g, a, s, k, j)
<1>1. \A i \in 1 .. Len(s) + 1 : TourPoint(g, a, s, i) \in DOMAIN g.node
  <2> SUFFICES ASSUME NEW i \in 1 .. Len(s) + 1 PROVE TourPoint(g, a, s, i) \in DOMAIN g.node
    OBVIOUS
  <2>1. CASE i = 1
    BY <2>1 DEF TourPoint, Placed
  <2>2. CASE i # 1
    <3>1. i - 1 \in 1 .. Len(s)
      BY <2>2, LenProperties DEF Placed
    <3>2. s[i - 1] \in DOMAIN g.node
      BY <3>1, ElementOfSeq DEF Placed
    <3> QED
      BY <2>2, <3>2 DEF TourPoint
  <2> QED
    BY <2>1, <2>2
<1> QED
  BY <1>1, EstimateIs DEF Leg

(* The nearest point left is one that is left.                              *)
LEMMA NearestIsLeft ==
  ASSUME NEW g, WellFormed(g), NEW a, NEW s, Placed(g, a, s),
         NEW n, n = Len(s) + 1, NEW k \in 2 .. n, NEW t, Toured(n, t, k - 1)
  PROVE  Toured(n, Append(t, Nearest(g, a, s, t, k)), k)
<1>1. Len(s) \in Nat /\ n \in Nat /\ k \in Nat /\ k - 1 \in 1 .. n
  BY LenProperties DEF Placed
<1> DEFINE done == {t[i] : i \in 1 .. k - 1}
           here == t[k - 1]
           left == (1 .. n) \ done
           C == [j \in left |-> Leg(g, a, s, here, j)]
           near == {j \in left : \A m \in left : Leg(g, a, s, here, j) <= Leg(g, a, s, here, m)}
           x == Min(near)
<1>2. t \in Seq(1 .. n) /\ Len(t) = k - 1 /\ t[1] = 1 /\ Cardinality(done) = k - 1
  BY DEF Toured
<1>3. \A i \in 1 .. k - 1 : t[i] \in 1 .. n
  BY <1>2, ElementOfSeq
<1>4. done \in SUBSET (1 .. n) /\ here \in 1 .. n
  BY <1>1, <1>3
<1>5. left # {}
  <2>1. Cardinality(1 .. n) = n
    BY <1>1, FS_Interval
  <2>2. done # 1 .. n
    <3> SUFFICES ASSUME done = 1 .. n PROVE FALSE
      OBVIOUS
    <3>1. k - 1 = n
      BY <1>2, <2>1
    <3> QED
      BY <1>1, <3>1
  <2> QED
    BY <1>4, <2>2
<1>6. \A j \in left : Leg(g, a, s, here, j) \in Nat
  BY <1>4, LegIs
<1>7. near # {}
  <2> HIDE DEF left, here
  <2>1. {C[j] : j \in left} \in SUBSET Nat /\ {C[j] : j \in left} # {}
    BY <1>5, <1>6
  <2>2. PICK c \in {C[j] : j \in left} : \A d \in {C[j] : j \in left} : c <= d
    BY <2>1, LeastNatural
  <2>3. PICK j \in left : c = C[j]
    BY <2>2
  <2>4. \A m \in left : C[j] <= C[m]
    BY <2>2, <2>3
  <2> QED
    BY <2>3, <2>4
<1>8. near \in SUBSET Nat
  OBVIOUS
<1>9. x \in near
  <2> HIDE DEF near
  <2> QED
    BY <1>7, <1>8, MinOf
<1>10. x \in left
  BY <1>9
<1>11. Nearest(g, a, s, t, k) = x
  BY DEF Nearest
<1> HIDE DEF x, near
<1> DEFINE u == Append(t, x)
<1>12. /\ u \in Seq(1 .. n) /\ Len(u) = k /\ u[k] = x
       /\ \A i \in 1 .. k - 1 : u[i] = t[i]
  <2>1. x \in 1 .. n
    BY <1>10
  <2>2. /\ Append(t, x) \in Seq(1 .. n) /\ Len(Append(t, x)) = Len(t) + 1
        /\ Append(t, x)[Len(t) + 1] = x /\ \A i \in 1 .. Len(t) : Append(t, x)[i] = t[i]
    BY <1>2, <2>1, OneMore
  <2> QED
    BY <1>1, <1>2, <2>2
<1> HIDE DEF u
<1>13. {u[i] : i \in 1 .. k} = done \cup {x}
  <2>1. 1 .. k = (1 .. k - 1) \cup {k}
    BY <1>1
  <2> QED
    BY <1>12, <2>1
<1>14. Cardinality(done \cup {x}) = k
  <2>1. IsFiniteSet(done)
    <3>1. IsFiniteSet(1 .. n)
      BY <1>1, FS_Interval
    <3> HIDE DEF done
    <3> QED
      BY <1>4, <3>1, FS_Subset
  <2>2. x \notin done
    BY <1>10
  <2> HIDE DEF done
  <2>3. Cardinality(done \cup {x}) = Cardinality(done) + 1
    BY <2>1, <2>2, FS_AddElement
  <2> QED
    BY <1>1, <1>2, <2>3
<1>15. u[1] = 1
  BY <1>1, <1>2, <1>12
<1> QED
  BY <1>11, <1>12, <1>13, <1>14, <1>15 DEF Toured, u

(* The recursion that orders the stops is well defined,                     *)
LEMMA OrderExists ==
  ASSUME NEW g, WellFormed(g), NEW a, NEW s, Placed(g, a, s)
  PROVE  \E o : IsOrder(g, a, s, o)
<1> DEFINE N == Len(s)
           n == N + 1
           T == Seq(1 .. n)
           On(t, k) == Append(t, Nearest(g, a, s, t, k))
           F == [k \in 1 .. N |-> [t \in T |-> IF On(t, k + 1) \in T THEN On(t, k + 1) ELSE t]]
           b == <<1>>
<1>1. N \in Nat /\ n \in Nat /\ 1 \in 1 .. n
  BY LenProperties DEF Placed
<1>2. b \in T
  BY <1>1
<1>3. IsStep(N, T, F)
  <2> HIDE DEF N, T, On
  <2> QED
    BY DEF IsStep
<1>4. PICK f : Iterates(f, N, T, b, F)
  <2> HIDE DEF N, T, F, b
  <2> QED
    BY <1>1, <1>2, <1>3, IterationExists
<1>5. \A k \in 1 .. N : f[k - 1] \in T /\ f[k] = F[k][f[k - 1]]
  <2> HIDE DEF T, F, b
  <2>1. \A k \in 1 .. N : k - 1 \in 0 .. N
    BY <1>1
  <2> QED
    BY <1>4, <2>1 DEF Iterates
<1>6. \A k \in 1 .. N : f[k] = IF On(f[k - 1], k + 1) \in T THEN On(f[k - 1], k + 1) ELSE f[k - 1]
  <2> HIDE DEF T, On, N
  <2> QED
    BY <1>5
<1> HIDE DEF F
<1> DEFINE G == {k \in 0 .. N : Toured(n, f[k], k + 1) /\ (k # 0 => f[k] = On(f[k - 1], k + 1))}
<1>7. 0 \in G
  <2>1. f[0] = <<1>>
    BY <1>4 DEF Iterates
  <2>2. <<1>> \in Seq(1 .. n) /\ Len(<<1>>) = 1 /\ <<1>>[1] = 1
    BY <1>1
  <2>3. {<<1>>[i] : i \in 1 .. 1} = {1}
    OBVIOUS
  <2>4. Cardinality({1}) = 1
    BY FS_Singleton
  <2>5. Toured(n, <<1>>, 1)
    BY <2>2, <2>3, <2>4 DEF Toured
  <2> QED
    BY <1>1, <2>1, <2>5
<1>8. ASSUME NEW k \in 1 .. N, k - 1 \in G PROVE k \in G
  <2>1. Toured(n, f[k - 1], (k - 1) + 1) /\ (k - 1) + 1 = (k + 1) - 1 /\ k + 1 \in 2 .. n /\ k # 0
    BY <1>1, <1>8
  <2>2. Toured(n, f[k - 1], (k + 1) - 1)
    BY <2>1
  <2> HIDE DEF T
  <2>3. Toured(n, On(f[k - 1], k + 1), k + 1)
    BY <2>1, <2>2, NearestIsLeft
  <2>4. On(f[k - 1], k + 1) \in T
    BY <2>3 DEF Toured, T
  <2>5. f[k] = On(f[k - 1], k + 1)
    BY <1>6, <2>4
  <2> HIDE DEF On, n, N
  <2>6. Toured(n, f[k], k + 1) /\ k \in 0 .. N
    BY <2>3, <2>5
  <2> QED
    BY <2>5, <2>6
<1>9. G = 0 .. N
  <2>1. G \in SUBSET (0 .. N)
    OBVIOUS
  <2> HIDE DEF G, N
  <2> QED
    BY <1>1, <1>7, <1>8, <2>1, UpTo
<1> DEFINE o == [k \in 1 .. n |-> f[k - 1]]
<1>10. ASSUME NEW k \in 1 .. n
       PROVE  o[k] = IF k = 1 THEN <<1>> ELSE Append(o[k - 1], Nearest(g, a, s, o[k - 1], k))
  <2>1. CASE k = 1
    <3>1. o[1] = f[0]
      BY <1>1
    <3> QED
      BY <1>4, <2>1, <3>1 DEF Iterates
  <2>2. CASE k # 1
    <3>1. k - 1 \in 1 .. n /\ k - 1 \in 0 .. N /\ k - 1 # 0 /\ (k - 1) + 1 = k
      BY <1>1, <2>2
    <3>2. k - 1 \in G
      BY <1>9, <3>1
    <3>3. f[k - 1] = On(f[(k - 1) - 1], k)
      BY <3>1, <3>2
    <3>4. o[k] = f[k - 1] /\ o[k - 1] = f[(k - 1) - 1]
      BY <3>1
    <3> QED
      BY <2>2, <3>3, <3>4
  <2> QED
    BY <2>1, <2>2
<1>11. o = [k \in 1 .. n |-> o[k]]
  OBVIOUS
<1> HIDE DEF o
<1>12. IsOrder(g, a, s, o)
  BY <1>10, <1>11 DEF IsOrder
<1> QED
  BY <1>12

(* and takes every stop once, the start first.                              *)
LEMMA OrderTours ==
  ASSUME NEW g, WellFormed(g), NEW a, NEW s, Placed(g, a, s), NEW n, n = Len(s) + 1,
         NEW t, t = NearestNeighborOrder(g, a, s)
  PROVE  /\ n \in Nat \ {0} /\ t \in [1 .. n -> 1 .. n] /\ Len(t) = n /\ t[1] = 1
         /\ {t[i] : i \in 1 .. n} = 1 .. n
<1> DEFINE o == CHOOSE o : IsOrder(g, a, s, o)
<1>1. t = o[n]
  BY Zenon DEF NearestNeighborOrder, IsOrder, Nearest, Leg
<1>2. IsOrder(g, a, s, o)
  BY OrderExists
<1> HIDE DEF o
<1>3. Len(s) \in Nat /\ n \in Nat \ {0}
  BY LenProperties DEF Placed
<1>4. \A k \in 1 .. n : o[k] = IF k = 1 THEN <<1>> ELSE Append(o[k - 1], Nearest(g, a, s, o[k - 1], k))
  BY <1>2, Zenon DEF IsOrder
<1> DEFINE G == {k \in 0 .. n - 1 : Toured(n, o[k + 1], k + 1)}
<1>5. 0 \in G
  <2>1. o[1] = <<1>> /\ 1 \in 1 .. n
    BY <1>3, <1>4
  <2>2. <<1>> \in Seq(1 .. n) /\ Len(<<1>>) = 1 /\ <<1>>[1] = 1
    BY <2>1
  <2>3. {<<1>>[i] : i \in 1 .. 1} = {1}
    OBVIOUS
  <2>4. Cardinality({1}) = 1
    BY FS_Singleton
  <2>5. Toured(n, <<1>>, 1)
    BY <2>2, <2>3, <2>4 DEF Toured
  <2> QED
    BY <1>3, <2>1, <2>5
<1>6. ASSUME NEW k \in 1 .. n - 1, k - 1 \in G PROVE k \in G
  <2>1. /\ Toured(n, o[k], k) /\ (k + 1) - 1 = k /\ k + 1 \in 2 .. n /\ k + 1 # 1 /\ k + 1 \in 1 .. n
    BY <1>3, <1>6
  <2>2. Toured(n, Append(o[k], Nearest(g, a, s, o[k], k + 1)), k + 1)
    BY <2>1, NearestIsLeft
  <2>3. o[k + 1] = Append(o[(k + 1) - 1], Nearest(g, a, s, o[(k + 1) - 1], k + 1))
    BY <1>4, <2>1
  <2>4. Toured(n, o[k + 1], k + 1) /\ k \in 0 .. n - 1
    BY <2>1, <2>2, <2>3
  <2> QED
    BY <2>4
<1>7. G = 0 .. n - 1
  <2>1. G \in SUBSET (0 .. n - 1) /\ n - 1 \in Nat
    BY <1>3
  <2> HIDE DEF G
  <2> QED
    BY <1>5, <1>6, <2>1, UpTo
<1>8. Toured(n, o[n], n)
  <2>1. n - 1 \in G /\ (n - 1) + 1 = n
    BY <1>3, <1>7
  <2> QED
    BY <2>1
<1>9. t \in Seq(1 .. n) /\ Len(t) = n /\ t[1] = 1 /\ Cardinality({t[i] : i \in 1 .. n}) = n
  BY <1>1, <1>8 DEF Toured
<1>10. t \in [1 .. n -> 1 .. n]
  BY <1>9, LenProperties
<1>11. {t[i] : i \in 1 .. n} = 1 .. n
  <2> DEFINE S == {t[i] : i \in 1 .. n}
  <2>1. S \in SUBSET (1 .. n)
    BY <1>10
  <2>2. IsFiniteSet(1 .. n) /\ Cardinality(1 .. n) = n
    BY <1>3, FS_Interval
  <2> HIDE DEF S
  <2>3. Cardinality(S) = Cardinality(1 .. n)
    BY <1>9, <2>2 DEF S
  <2>4. S = 1 .. n
    BY <2>1, <2>2, <2>3, FS_Subset
  <2> QED
    BY <2>4 DEF S
<1> QED
  BY <1>3, <1>9, <1>10, <1>11

(* Of the legs e[1] .. e[N] of a tour, those from i to j - 1 are walked the *)
(* other way round; the one before them then costs A, the one after them B. *)
Stretched(N, i, j, e, d, A, B) ==
  /\ e \in [1 .. N -> Int] /\ d \in [1 .. N -> Int] /\ A \in Int /\ B \in Int
  /\ \A k \in 1 .. N :
       /\ k < i - 1 \/ k > j => d[k] = e[k]
       /\ k = i - 1 => d[k] = A
       /\ i <= k /\ k < j => d[k] = e[i + j - 1 - k]
       /\ k = j => d[k] = B

(* What adds the new legs up, and what added up the old.                    *)
Grown(N, i, j, e, A, B, F, G) ==
  G[N] = F[N] + (A - e[i - 1]) + (IF j <= N THEN B - e[j] ELSE 0)

(* Then the sum changes by what these two legs change.                      *)
LEMMA StretchAdds ==
  ASSUME NEW N \in Nat, NEW i \in Nat, NEW j \in Nat, 2 <= i, i < j, j <= N + 1,
         NEW e, NEW d, NEW A, NEW B, Stretched(N, i, j, e, d, A, B),
         NEW F, Adds(e, N, F), NEW G, Adds(d, N, G)
  PROVE  Grown(N, i, j, e, A, B, F, G)
<1>1. /\ F[0] = 0 /\ G[0] = 0 /\ A \in Int /\ B \in Int
      /\ \A k \in 0 .. N : F[k] \in Int /\ G[k] \in Int
      /\ \A k \in 1 .. N : /\ F[k] = F[k - 1] + e[k] /\ G[k] = G[k - 1] + d[k]
                           /\ e[k] \in Int /\ d[k] \in Int
  BY DEF Adds, Stretched
<1> DEFINE E(k) == IF k < i - 1 THEN F[k]
                   ELSE IF k < j THEN F[i - 2] + A + F[j - 1] - F[i + j - 2 - k]
                   ELSE F[k] + (A - e[i - 1]) + (B - e[j])
           H == {k \in 0 .. N : G[k] = E(k)}
<1>2. i - 1 \in 1 .. N /\ i - 2 \in 0 .. N /\ j - 1 \in 0 .. N /\ (i - 1) - 1 = i - 2 /\ i - 1 \in 0 .. N
  OBVIOUS
<1>3. /\ F[i - 1] = F[i - 2] + e[i - 1] /\ F[i - 2] \in Int /\ e[i - 1] \in Int
      /\ F[i - 1] \in Int /\ F[j - 1] \in Int
  BY <1>1, <1>2
<1>4. 0 \in H
  <2>1. CASE 0 < i - 1
    BY <1>1, <2>1
  <2> QED
    BY <2>1
<1>5. ASSUME NEW k \in 1 .. N, k - 1 \in H PROVE k \in H
  <2>1. G[k - 1] = E(k - 1) /\ k \in Nat /\ k \in 0 .. N /\ k - 1 \in 0 .. N
    BY <1>5
  <2>2. G[k] = G[k - 1] + d[k] /\ F[k] = F[k - 1] + e[k]
        /\ F[k - 1] \in Int /\ e[k] \in Int /\ d[k] \in Int /\ G[k - 1] \in Int
    BY <1>1, <2>1
  <2> HIDE DEF H
  <2>3. CASE k < i - 1
    <3>1. d[k] = e[k]
      BY <2>3 DEF Stretched
    <3>2. E(k - 1) = F[k - 1] /\ E(k) = F[k]
      BY <2>1, <2>3
    <3> QED
      BY <2>1, <2>2, <3>1, <3>2 DEF H
  <2>4. CASE k = i - 1
    <3>1. d[k] = A
      BY <2>4 DEF Stretched
    <3>2. i + j - 2 - k = j - 1 /\ k - 1 = i - 2
      BY <2>4
    <3>3. E(k - 1) = F[i - 2]
      BY <2>1, <2>4, <3>2
    <3>4. E(k) = F[i - 2] + A + F[j - 1] - F[j - 1]
      BY <2>1, <2>4, <3>2
    <3> HIDE DEF E
    <3> QED
      BY <1>1, <1>3, <2>1, <2>2, <3>1, <3>3, <3>4 DEF H
  <2>5. CASE i <= k /\ k < j
    <3> DEFINE m == i + j - 1 - k
    <3>1. m \in 1 .. N /\ m - 1 \in 0 .. N /\ i + j - 2 - k = m - 1 /\ i + j - 2 - (k - 1) = m
      BY <2>1, <2>5
    <3>2. d[k] = e[m]
      BY <2>5 DEF Stretched
    <3>3. E(k) = F[i - 2] + A + F[j - 1] - F[m - 1] /\ E(k - 1) = F[i - 2] + A + F[j - 1] - F[m]
      BY <2>1, <2>5, <3>1
    <3> HIDE DEF m, E
    <3>4. F[m] = F[m - 1] + e[m] /\ F[m - 1] \in Int /\ e[m] \in Int
      BY <1>1, <3>1
    <3> QED
      BY <1>1, <1>3, <2>1, <2>2, <3>2, <3>3, <3>4 DEF H
  <2>6. CASE k = j
    <3>1. i + j - 2 - (k - 1) = i - 1
      BY <2>6
    <3>2. d[k] = B
      BY <2>6 DEF Stretched
    <3>3. E(k) = F[k] + (A - e[i - 1]) + (B - e[k])
      BY <2>1, <2>6
    <3>4. E(k - 1) = F[i - 2] + A + F[k - 1] - F[i - 1]
      BY <2>1, <2>6, <3>1
    <3> HIDE DEF E
    <3> QED
      BY <1>1, <1>3, <2>1, <2>2, <3>2, <3>3, <3>4 DEF H
  <2>7. CASE k > j
    <3>1. d[k] = e[k]
      BY <2>7 DEF Stretched
    <3>2. j \in 1 .. N
      BY <2>1, <2>7
    <3>3. e[j] \in Int
      BY <1>1, <3>2
    <3>4. E(k) = F[k] + (A - e[i - 1]) + (B - e[j]) /\ E(k - 1) = F[k - 1] + (A - e[i - 1]) + (B - e[j])
      BY <2>1, <2>7
    <3> HIDE DEF E
    <3> QED
      BY <1>1, <1>3, <2>1, <2>2, <3>1, <3>3, <3>4 DEF H
  <2> QED
    BY <2>1, <2>3, <2>4, <2>5, <2>6, <2>7
<1>6. H = 0 .. N
  <2>1. H \in SUBSET (0 .. N)
    OBVIOUS
  <2> HIDE DEF H
  <2> QED
    BY <1>4, <1>5, <2>1, UpTo
<1>7. G[N] = E(N) /\ F[N] \in Int
  BY <1>1, <1>6
<1>8. j <= N => G[N] = F[N] + (A - e[i - 1]) + (IF j <= N THEN B - e[j] ELSE 0)
  <2> SUFFICES ASSUME j <= N PROVE G[N] = F[N] + (A - e[i - 1]) + (IF j <= N THEN B - e[j] ELSE 0)
    OBVIOUS
  <2>1. E(N) = F[N] + (A - e[i - 1]) + (B - e[j])
    OBVIOUS
  <2> QED
    BY <1>7, <2>1
<1>9. j = N + 1 => G[N] = F[N] + (A - e[i - 1]) + (IF j <= N THEN B - e[j] ELSE 0)
  <2> SUFFICES ASSUME j = N + 1 PROVE G[N] = F[N] + (A - e[i - 1]) + (IF j <= N THEN B - e[j] ELSE 0)
    OBVIOUS
  <2>1. i + j - 2 - N = i - 1 /\ j - 1 = N
    OBVIOUS
  <2>2. E(N) = F[i - 2] + A + F[N] - F[i - 1]
    BY <2>1
  <2> HIDE DEF E
  <2> QED
    BY <1>1, <1>3, <1>7, <2>2
<1>10. G[N] = F[N] + (A - e[i - 1]) + (IF j <= N THEN B - e[j] ELSE 0)
  BY <1>8, <1>9
<1> QED
  BY <1>10 DEF Grown

(* The legs of a tour of n points, c giving what each costs.               *)
Legs(s, n, c) == [k \in 1 .. n - 1 |-> c[<<s[k], s[k + 1]>>]]

(* Every leg costs a whole number, the same both ways.                    *)
Priced(n, c) == \A x, y \in 1 .. n : c[<<x, y>>] \in Int /\ c[<<x, y>>] = c[<<y, x>>]

(* The legs of a tour are numbers.                                          *)
LEMMA LegsNumbered ==
  ASSUME NEW n \in Nat, NEW c, Priced(n, c), NEW s, s \in [1 .. n -> 1 .. n]
  PROVE  Legs(s, n, c) \in [1 .. n - 1 -> Int] /\ Numbers(Legs(s, n, c), n - 1)
<1>1. \A x, y \in 1 .. n : c[<<x, y>>] \in Int
  BY Zenon DEF Priced
<1>2. ASSUME NEW k \in 1 .. n - 1 PROVE c[<<s[k], s[k + 1]>>] \in Int
  <2>1. k \in 1 .. n /\ k + 1 \in 1 .. n
    OBVIOUS
  <2>2. s[k] \in 1 .. n /\ s[k + 1] \in 1 .. n
    BY <2>1
  <2> QED
    BY <1>1, <2>2
<1>3. Legs(s, n, c) \in [1 .. n - 1 -> Int]
  BY <1>2 DEF Legs
<1>4. \A k \in 1 .. n - 1 : Legs(s, n, c)[k] \in Int
  BY <1>3
<1> QED
  BY <1>3, <1>4 DEF Numbers, Legs

(* t is s with the stretch from i to j reversed.                            *)
Turned(n, s, i, j, t) ==
  /\ t \in [1 .. n -> 1 .. n] /\ t[1] = s[1]
  /\ {t[k] : k \in 1 .. n} = {s[k] : k \in 1 .. n}
  /\ \A k \in 1 .. n : t[k] = IF k \in i .. j THEN s[i + j - k] ELSE s[k]

(* Reversing a stretch of a tour gives a tour of the same points,           *)
LEMMA ReversedTours ==
  ASSUME NEW n \in Nat, NEW s, s \in [1 .. n -> 1 .. n],
         NEW i \in Nat, NEW j \in Nat, 2 <= i, i < j, j <= n
  PROVE  Turned(n, s, i, j, ReverseStretch(s, i, j))
<1> DEFINE t == ReverseStretch(s, i, j)
           P == {s[m] : m \in 1 .. n}
           T == {t[m] : m \in 1 .. n}
<1>1. t = [k \in 1 .. n |-> IF k \in i .. j THEN s[i + j - k] ELSE s[k]]
  BY DEF ReverseStretch
<1> HIDE DEF t
<1>2. \A k \in 1 .. n : t[k] = IF k \in i .. j THEN s[i + j - k] ELSE s[k]
  BY <1>1
<1>3. \A k \in i .. j : i + j - k \in 1 .. n /\ i + j - k \in i .. j /\ i + j - (i + j - k) = k
  OBVIOUS
<1>4. t \in [1 .. n -> 1 .. n]
  BY <1>1, <1>3
<1>5. t[1] = s[1]
  BY <1>2
<1>6. ASSUME NEW k \in 1 .. n PROVE t[k] \in P /\ s[k] \in T
  <2>1. CASE k \in i .. j
    <3>1. i + j - k \in 1 .. n /\ i + j - k \in i .. j /\ i + j - (i + j - k) = k
      BY <1>3, <2>1
    <3>2. t[k] = s[i + j - k]
      BY <1>2, <2>1
    <3>3. t[i + j - k] = s[k]
      BY <1>2, <3>1
    <3> QED
      BY <3>1, <3>2, <3>3
  <2>2. CASE k \notin i .. j
    BY <1>2, <2>2
  <2> QED
    BY <2>1, <2>2
<1>7. P = T
  <2>1. P \subseteq T
    BY <1>6
  <2>2. T \subseteq P
    BY <1>6
  <2> QED
    BY <2>1, <2>2
<1> HIDE DEF P, T
<1>8. {t[k] : k \in 1 .. n} = {s[k] : k \in 1 .. n}
  BY <1>7 DEF P, T
<1> QED
  BY <1>2, <1>4, <1>5, <1>8 DEF t, Turned

(* of which only the two legs at its ends change: within it every leg is    *)
(* walked the other way.                                                    *)
LEMMA StretchReversed ==
  ASSUME NEW n \in Nat, NEW c, Priced(n, c), NEW s, s \in [1 .. n -> 1 .. n],
         NEW i \in Nat, NEW j \in Nat, 2 <= i, i < j, j <= n
  PROVE  Stretched(n - 1, i, j, Legs(s, n, c), Legs(ReverseStretch(s, i, j), n, c),
                   c[<<s[i - 1], s[j]>>], IF j < n THEN c[<<s[i], s[j + 1]>>] ELSE 0)
<1> DEFINE t == ReverseStretch(s, i, j)
<1> HIDE DEF t
<1>1. /\ t \in [1 .. n -> 1 .. n]
      /\ \A k \in 1 .. n : t[k] = IF k \in i .. j THEN s[i + j - k] ELSE s[k]
  <2>1. Turned(n, s, i, j, t)
    BY ReversedTours DEF t
  <2> QED
    BY <2>1 DEF Turned
<1> DEFINE e == Legs(s, n, c)
           d == Legs(t, n, c)
           A == c[<<s[i - 1], s[j]>>]
           B == IF j < n THEN c[<<s[i], s[j + 1]>>] ELSE 0
<1>2. e \in [1 .. n - 1 -> Int] /\ d \in [1 .. n - 1 -> Int]
  BY <1>1, LegsNumbered
<1>3. A \in Int /\ B \in Int
  <2>1. i - 1 \in 1 .. n /\ j \in 1 .. n /\ i \in 1 .. n /\ (j < n => j + 1 \in 1 .. n)
    OBVIOUS
  <2>2. s[i - 1] \in 1 .. n /\ s[j] \in 1 .. n /\ s[i] \in 1 .. n /\ (j < n => s[j + 1] \in 1 .. n)
    BY <2>1
  <2>3. \A x, y \in 1 .. n : c[<<x, y>>] \in Int
    BY Zenon DEF Priced
  <2> QED
    BY <2>2, <2>3
<1>4. \A k \in 1 .. n - 1 : e[k] = c[<<s[k], s[k + 1]>>] /\ d[k] = c[<<t[k], t[k + 1]>>]
  BY DEF Legs
<1>0. j < n => B = c[<<s[i], s[j + 1]>>]
  OBVIOUS
<1>9. A = c[<<s[i - 1], s[j]>>]
  OBVIOUS
<1> HIDE DEF e, d, A, B
<1>5. ASSUME NEW k \in 1 .. n - 1
      PROVE  /\ k < i - 1 \/ k > j => d[k] = e[k]
             /\ k = i - 1 => d[k] = A
             /\ i <= k /\ k < j => d[k] = e[i + j - 1 - k]
             /\ k = j => d[k] = B
  <2>0. k \in 1 .. n /\ k + 1 \in 1 .. n
    OBVIOUS
  <2>1. d[k] = c[<<t[k], t[k + 1]>>] /\ e[k] = c[<<s[k], s[k + 1]>>]
    BY <1>4
  <2>2. CASE k < i - 1 \/ k > j
    <3>1. k \notin i .. j /\ k + 1 \notin i .. j
      BY <2>2
    <3>2. t[k] = s[k] /\ t[k + 1] = s[k + 1]
      BY <1>1, <2>0, <3>1
    <3>3. d[k] = e[k]
      BY <2>1, <3>2
    <3>4. k # i - 1 /\ ~(i <= k /\ k < j) /\ k # j
      BY <2>2
    <3> QED
      BY <3>3, <3>4
  <2>3. CASE k = i - 1
    <3>1. k \notin i .. j /\ k + 1 \in i .. j /\ i + j - (k + 1) = j
      BY <2>3
    <3>2. t[k] = s[i - 1] /\ t[k + 1] = s[j]
      BY <1>1, <2>0, <2>3, <3>1
    <3>3. d[k] = A
      BY <1>9, <2>1, <3>2
    <3>4. ~(k < i - 1 \/ k > j) /\ ~(i <= k /\ k < j) /\ k # j
      BY <2>3
    <3> QED
      BY <3>3, <3>4
  <2>4. CASE i <= k /\ k < j
    <3> DEFINE m == i + j - 1 - k
    <3>1. /\ k \in i .. j /\ k + 1 \in i .. j /\ i + j - k = m + 1 /\ i + j - (k + 1) = m
          /\ m \in 1 .. n /\ m + 1 \in 1 .. n /\ m \in 1 .. n - 1
      BY <2>4
    <3> HIDE DEF m
    <3>2. t[k] = s[m + 1] /\ t[k + 1] = s[m]
      BY <1>1, <2>0, <3>1
    <3>3. s[m] \in 1 .. n /\ s[m + 1] \in 1 .. n
      BY <3>1
    <3>4. c[<<s[m + 1], s[m]>>] = c[<<s[m], s[m + 1]>>]
      BY <3>3 DEF Priced
    <3>5. e[m] = c[<<s[m], s[m + 1]>>]
      BY <1>4, <3>1
    <3>6. d[k] = e[m]
      BY <2>1, <3>2, <3>4, <3>5
    <3>7. ~(k < i - 1 \/ k > j) /\ k # i - 1 /\ k # j
      BY <2>4
    <3> QED
      BY <3>6, <3>7 DEF m
  <2>5. CASE k = j
    <3>1. k \in i .. j /\ k + 1 \notin i .. j /\ i + j - k = i /\ j < n
      BY <2>5
    <3>2. t[k] = s[i] /\ t[k + 1] = s[j + 1]
      BY <1>1, <2>0, <2>5, <3>1
    <3>3. d[k] = B
      BY <1>0, <2>1, <3>1, <3>2
    <3>4. ~(k < i - 1 \/ k > j) /\ k # i - 1 /\ ~(i <= k /\ k < j)
      BY <2>5
    <3> QED
      BY <3>3, <3>4
  <2>6. k < i - 1 \/ k > j \/ k = i - 1 \/ (i <= k /\ k < j) \/ k = j
    OBVIOUS
  <2> QED
    BY <2>2, <2>3, <2>4, <2>5, <2>6
<1>6. Stretched(n - 1, i, j, e, d, A, B)
  BY <1>2, <1>3, <1>5 DEF Stretched
<1>7. e = Legs(s, n, c) /\ d = Legs(t, n, c) /\ A = c[<<s[i - 1], s[j]>>]
      /\ B = IF j < n THEN c[<<s[i], s[j + 1]>>] ELSE 0
  BY DEF e, d, A, B
<1> QED
  BY <1>6 DEF e, d, A, B, t

(* What reversing the stretch from i to j adds to the length of a tour.      *)
Change(s, n, c, i, j) ==
  c[<<s[i - 1], s[j]>>] - c[<<s[i - 1], s[i]>>]
  + (IF j < n THEN c[<<s[i], s[j + 1]>>] - c[<<s[j], s[j + 1]>>] ELSE 0)

(* The sum of a sequence of numbers is a number that something adds up to.   *)
LEMMA SumAdds ==
  ASSUME NEW n \in Nat, NEW s, Numbers(s, n)
  PROVE  \E g : Adds(s, n, g) /\ g[n] = Sum(s) /\ Sum(s) \in Int
<1>1. PICK g : Adds(s, n, g)
  BY AddsExist
<1>2. Sum(s) = g[n]
  BY <1>1, SumIs
<1>3. g[n] \in Int
  BY <1>1 DEF Adds
<1> QED
  BY <1>1, <1>2, <1>3

(* The legs of s add up, and those with the stretch reversed to that much more. *)
Lengthens(s, n, c, i, j) ==
  /\ Sum(Legs(s, n, c)) \in Int
  /\ Sum(Legs(ReverseStretch(s, i, j), n, c)) = Sum(Legs(s, n, c)) + Change(s, n, c, i, j)

(* Reversing a stretch changes the length of a tour by what its ends change. *)
LEMMA ReversalAdds ==
  ASSUME NEW n \in Nat, NEW c, Priced(n, c), NEW s, s \in [1 .. n -> 1 .. n],
         NEW i \in Nat, NEW j \in Nat, 2 <= i, i < j, j <= n
  PROVE  Lengthens(s, n, c, i, j)
<1> DEFINE N == n - 1
           t == ReverseStretch(s, i, j)
           e == Legs(s, n, c)
           d == Legs(t, n, c)
           A == c[<<s[i - 1], s[j]>>]
           B == IF j < n THEN c[<<s[i], s[j + 1]>>] ELSE 0
<1>1. N \in Nat /\ j <= N + 1 /\ (j <= N <=> j < n)
  OBVIOUS
<1>2. Turned(n, s, i, j, t)
  BY ReversedTours
<1>3. t \in [1 .. n -> 1 .. n]
  BY <1>2 DEF Turned
<1> HIDE DEF t
<1>4. Numbers(e, N) /\ Numbers(d, N)
  BY <1>3, LegsNumbered
<1>5. Stretched(N, i, j, e, d, A, B)
  BY StretchReversed DEF t
<1>6. e[i - 1] = c[<<s[i - 1], s[i]>>] /\ (j < n => e[j] = c[<<s[j], s[j + 1]>>])
  <2>1. i - 1 \in 1 .. n - 1 /\ (i - 1) + 1 = i /\ (j < n => j \in 1 .. n - 1)
    OBVIOUS
  <2> QED
    BY <2>1 DEF Legs
<1>7. Change(s, n, c, i, j) = (A - e[i - 1]) + (IF j <= N THEN B - e[j] ELSE 0)
  <2>1. CASE j < n
    BY <1>1, <1>6, <2>1 DEF Change
  <2>2. CASE ~(j < n)
    <3>1. Change(s, n, c, i, j) = A - c[<<s[i - 1], s[i]>>] + 0
      BY <2>2 DEF Change
    <3> QED
      BY <1>1, <1>6, <2>2, <3>1
  <2> QED
    BY <2>1, <2>2
<1> HIDE DEF N, e, d, A, B
<1>8. PICK F : Adds(e, N, F) /\ F[N] = Sum(e) /\ Sum(e) \in Int
  BY <1>1, <1>4, SumAdds
<1>9. PICK G : Adds(d, N, G) /\ G[N] = Sum(d)
  BY <1>1, <1>4, SumAdds
<1>10. G[N] = F[N] + (A - e[i - 1]) + (IF j <= N THEN B - e[j] ELSE 0)
  <2>1. Grown(N, i, j, e, A, B, F, G)
    BY <1>1, <1>5, <1>8, <1>9, StretchAdds
  <2> QED
    BY <2>1 DEF Grown
<1>11. A \in Int /\ B \in Int /\ e[i - 1] \in Int /\ (j <= N => e[j] \in Int)
  <2>1. i - 1 \in 1 .. N /\ (j <= N => j \in 1 .. N)
    BY <1>1
  <2> QED
    BY <1>5, <2>1 DEF Stretched
<1>12. Sum(d) = Sum(e) + Change(s, n, c, i, j)
  <2> DEFINE X == IF j <= N THEN B - e[j] ELSE 0
  <2>1. X \in Int
    BY <1>11
  <2>2. Sum(d) = Sum(e) + (A - e[i - 1]) + X
    BY <1>8, <1>9, <1>10
  <2>3. Change(s, n, c, i, j) = (A - e[i - 1]) + X
    BY <1>7
  <2> HIDE DEF X
  <2> QED
    BY <1>8, <1>11, <2>1, <2>2, <2>3
<1> QED
  BY <1>8, <1>12 DEF e, d, t, Lengthens

(* A function on 1 .. n is a sequence of n items.                            *)
LEMMA Sequential ==
  ASSUME NEW n \in Nat, NEW S, NEW f, f \in [1 .. n -> S]
  PROVE  f \in Seq(S) /\ Len(f) = n
OBVIOUS

(* What the legs between the points of a tour are estimated at.              *)
TourLegs(g, a, s, t) == [k \in 1 .. Len(t) - 1 |-> Leg(g, a, s, t[k], t[k + 1])]
Estimates(g, a, s) ==
  [p \in (1 .. Len(s) + 1) \X (1 .. Len(s) + 1) |-> Leg(g, a, s, p[1], p[2])]

(* Estimates price every leg between two points.                            *)
LEMMA EstimatesPrice ==
  ASSUME NEW g, WellFormed(g), NEW a, NEW s, Placed(g, a, s), NEW n, n = Len(s) + 1
  PROVE  /\ n \in Nat \ {0} /\ Priced(n, Estimates(g, a, s))
         /\ \A j, k \in 1 .. n : Estimates(g, a, s)[<<j, k>>] = Leg(g, a, s, j, k)
<1>1. n \in Nat \ {0}
  BY LenProperties DEF Placed
<1>2. \A j, k \in 1 .. n : Estimates(g, a, s)[<<j, k>>] = Leg(g, a, s, j, k)
  BY DEF Estimates
<1>3. ASSUME NEW j \in 1 .. n, NEW k \in 1 .. n
      PROVE  Estimates(g, a, s)[<<j, k>>] \in Int /\ Estimates(g, a, s)[<<j, k>>] = Estimates(g, a, s)[<<k, j>>]
  <2>1. Estimates(g, a, s)[<<j, k>>] = Leg(g, a, s, j, k) /\ Estimates(g, a, s)[<<k, j>>] = Leg(g, a, s, k, j)
    BY <1>2
  <2>2. Leg(g, a, s, j, k) \in Nat /\ Leg(g, a, s, j, k) = Leg(g, a, s, k, j)
    BY LegIs
  <2> QED
    BY <2>1, <2>2
<1> QED
  BY <1>1, <1>2, <1>3 DEF Priced

(* They are the legs of the tour at these prices.                            *)
LEMMA TourLegsAre ==
  ASSUME NEW g, WellFormed(g), NEW a, NEW s, Placed(g, a, s), NEW n, n = Len(s) + 1,
         NEW t, t \in [1 .. n -> 1 .. n]
  PROVE  TourLegs(g, a, s, t) = Legs(t, n, Estimates(g, a, s)) /\ Len(t) = n
<1>1. n \in Nat \ {0}
  BY EstimatesPrice
<1>2. Len(t) = n
  BY <1>1, Sequential
<1>3. \A k \in 1 .. n - 1 : Estimates(g, a, s)[<<t[k], t[k + 1]>>] = Leg(g, a, s, t[k], t[k + 1])
  <2> SUFFICES ASSUME NEW k \in 1 .. n - 1
               PROVE  Estimates(g, a, s)[<<t[k], t[k + 1]>>] = Leg(g, a, s, t[k], t[k + 1])
    OBVIOUS
  <2>1. k \in 1 .. n /\ k + 1 \in 1 .. n
    BY <1>1
  <2>2. t[k] \in 1 .. n /\ t[k + 1] \in 1 .. n
    BY <2>1
  <2> QED
    BY <2>2, EstimatesPrice
<1>4. TourLegs(g, a, s, t) = [k \in 1 .. n - 1 |-> Leg(g, a, s, t[k], t[k + 1])]
  BY <1>2 DEF TourLegs
<1> QED
  BY <1>2, <1>3, <1>4 DEF Legs

(* How far a tour is estimated to go.                                        *)
TourLength(g, a, s, t) == Sum(TourLegs(g, a, s, t))

(* t visits every stop once, begins at the origin and is no longer than the  *)
(* order of nearest neighbours; i and j are two points of it past the first. *)
Ordered(g, a, s, t, i, j) ==
  /\ Placed(g, a, s) /\ i \in Nat /\ j \in Nat /\ 2 <= i /\ i < j /\ j <= Len(s) + 1
  /\ t \in [1 .. Len(s) + 1 -> 1 .. Len(s) + 1] /\ t[1] = 1
  /\ {t[k] : k \in 1 .. Len(s) + 1} = 1 .. Len(s) + 1
  /\ TourLength(g, a, s, t) \in Int
  /\ TourLength(g, a, s, t) <= TourLength(g, a, s, NearestNeighborOrder(g, a, s))
  /\ TourLength(g, a, s, NearestNeighborOrder(g, a, s)) \in Int

(* What 2-opt makes of the pair it looks at, and the pair it looks at next.  *)
Gain(g, a, s, t, i, j) ==
  Leg(g, a, s, t[i - 1], t[j]) - Leg(g, a, s, t[i - 1], t[i])
  + (IF j < Len(t) THEN Leg(g, a, s, t[i], t[j + 1]) - Leg(g, a, s, t[j], t[j + 1]) ELSE 0)

(* The length of a tour is a number.                                         *)
LEMMA LengthIs ==
  ASSUME NEW g, WellFormed(g), NEW a, NEW s, Placed(g, a, s), NEW n, n = Len(s) + 1,
         NEW t, t \in [1 .. n -> 1 .. n]
  PROVE  /\ TourLength(g, a, s, t) \in Int
         /\ TourLength(g, a, s, t) = Sum(Legs(t, n, Estimates(g, a, s)))
<1>1. n \in Nat \ {0} /\ Priced(n, Estimates(g, a, s))
  BY EstimatesPrice
<1>2. TourLegs(g, a, s, t) = Legs(t, n, Estimates(g, a, s))
  BY TourLegsAre
<1>3. Numbers(Legs(t, n, Estimates(g, a, s)), n - 1)
  BY <1>1, LegsNumbered
<1>4. n - 1 \in Nat
  BY <1>1
<1>5. Sum(Legs(t, n, Estimates(g, a, s))) \in Int
  BY <1>3, <1>4, SumAdds
<1> QED
  BY <1>2, <1>5 DEF TourLength

(* A tour begins as the order of nearest neighbours.                         *)
LEMMA TourBegins ==
  ASSUME NEW g, WellFormed(g), NEW a, NEW s, Placed(g, a, s), Len(s) > 1
  PROVE  Ordered(g, a, s, NearestNeighborOrder(g, a, s), 2, 3)
<1> DEFINE t == NearestNeighborOrder(g, a, s)
           n == Len(s) + 1
<1>1. /\ n \in Nat \ {0} /\ t \in [1 .. n -> 1 .. n] /\ t[1] = 1
      /\ {t[i] : i \in 1 .. n} = 1 .. n
  BY OrderTours
<1>2. Len(s) \in Nat
  BY LenProperties DEF Placed
<1> HIDE DEF t
<1>3. TourLength(g, a, s, t) \in Int
  BY <1>1, LengthIs
<1>4. Ordered(g, a, s, t, 2, 3)
  BY <1>1, <1>2, <1>3 DEF Ordered, t
<1> QED
  BY <1>4 DEF t

(* The estimate 2-opt judges by is what the reversal adds.                   *)
LEMMA GainIs ==
  ASSUME NEW g, WellFormed(g), NEW a, NEW s, NEW t, NEW i, NEW j, Ordered(g, a, s, t, i, j)
  PROVE  /\ Gain(g, a, s, t, i, j) = Change(t, Len(s) + 1, Estimates(g, a, s), i, j)
         /\ Gain(g, a, s, t, i, j) \in Int /\ Len(t) = Len(s) + 1
<1> DEFINE n == Len(s) + 1
           c == Estimates(g, a, s)
<1>1. /\ Placed(g, a, s) /\ i \in Nat /\ j \in Nat /\ 2 <= i /\ i < j /\ j <= n
      /\ t \in [1 .. n -> 1 .. n]
  BY DEF Ordered
<1> HIDE DEF n
<1>2. n = Len(s) + 1
  BY DEF n
<1>3. /\ n \in Nat \ {0} /\ Priced(n, c)
      /\ \A x, y \in 1 .. n : c[<<x, y>>] = Leg(g, a, s, x, y)
  BY <1>1, <1>2, EstimatesPrice
<1>4. Len(t) = n
  BY <1>1, <1>3, Sequential
<1> HIDE DEF c
<1>5. i - 1 \in 1 .. n /\ i \in 1 .. n /\ j \in 1 .. n /\ (j < n => j + 1 \in 1 .. n)
  BY <1>1, <1>3
<1>6. t[i - 1] \in 1 .. n /\ t[i] \in 1 .. n /\ t[j] \in 1 .. n /\ (j < n => t[j + 1] \in 1 .. n)
  BY <1>1, <1>5
<1>7. /\ c[<<t[i - 1], t[j]>>] = Leg(g, a, s, t[i - 1], t[j])
      /\ c[<<t[i - 1], t[i]>>] = Leg(g, a, s, t[i - 1], t[i])
      /\ j < n => /\ c[<<t[i], t[j + 1]>>] = Leg(g, a, s, t[i], t[j + 1])
                  /\ c[<<t[j], t[j + 1]>>] = Leg(g, a, s, t[j], t[j + 1])
  BY <1>3, <1>6
<1>8. /\ c[<<t[i - 1], t[j]>>] \in Int /\ c[<<t[i - 1], t[i]>>] \in Int
      /\ j < n => c[<<t[i], t[j + 1]>>] \in Int /\ c[<<t[j], t[j + 1]>>] \in Int
  <2>1. \A x, y \in 1 .. n : c[<<x, y>>] \in Int
    BY <1>3, Zenon DEF Priced
  <2> QED
    BY <1>6, <2>1
<1>9. Gain(g, a, s, t, i, j) = Change(t, n, c, i, j)
  <2>1. CASE j < n
    BY <1>4, <1>7, <2>1 DEF Gain, Change
  <2>2. CASE ~(j < n)
    BY <1>4, <1>7, <2>2 DEF Gain, Change
  <2> QED
    BY <2>1, <2>2
<1>10. Change(t, n, c, i, j) \in Int
  <2>1. CASE j < n
    BY <1>8, <2>1 DEF Change
  <2>2. CASE ~(j < n)
    BY <1>8, <2>2 DEF Change
  <2> QED
    BY <2>1, <2>2
<1> QED
  BY <1>4, <1>9, <1>10 DEF n, c

(* A step of 2-opt keeps a tour in order.                                    *)
LEMMA TourGoesOn ==
  ASSUME NEW g, WellFormed(g), NEW a, NEW s, NEW t, NEW i, NEW j, Ordered(g, a, s, t, i, j),
         NEW u, u = IF Gain(g, a, s, t, i, j) < 0 THEN ReverseStretch(t, i, j) ELSE t,
         NEW k \in Nat, NEW m \in Nat, 2 <= k, k < m, m <= Len(s) + 1
  PROVE  Ordered(g, a, s, u, k, m)
<1> DEFINE n == Len(s) + 1
           c == Estimates(g, a, s)
           r == ReverseStretch(t, i, j)
<1>1. /\ Placed(g, a, s) /\ i \in Nat /\ j \in Nat /\ 2 <= i /\ i < j /\ j <= n
      /\ t \in [1 .. n -> 1 .. n] /\ t[1] = 1 /\ {t[x] : x \in 1 .. n} = 1 .. n
  BY DEF Ordered
<1>2. n \in Nat \ {0} /\ Priced(n, c)
  BY <1>1, EstimatesPrice
<1> HIDE DEF n, c, r
<1>3. n = Len(s) + 1
  BY DEF n
<1>4. Turned(n, t, i, j, r)
  BY <1>1, <1>2, ReversedTours DEF r
<1>5. r \in [1 .. n -> 1 .. n] /\ r[1] = 1 /\ {r[x] : x \in 1 .. n} = 1 .. n
  BY <1>1, <1>4 DEF Turned
<1>6. /\ TourLength(g, a, s, r) = Sum(Legs(r, n, c)) /\ TourLength(g, a, s, r) \in Int
      /\ TourLength(g, a, s, t) = Sum(Legs(t, n, c)) /\ TourLength(g, a, s, t) \in Int
  BY <1>1, <1>3, <1>5, LengthIs DEF c
<1>7. Sum(Legs(r, n, c)) = Sum(Legs(t, n, c)) + Change(t, n, c, i, j)
  <2>1. Lengthens(t, n, c, i, j)
    BY <1>1, <1>2, ReversalAdds
  <2> QED
    BY <2>1 DEF Lengthens, r
<1>8. Gain(g, a, s, t, i, j) = Change(t, n, c, i, j) /\ Gain(g, a, s, t, i, j) \in Int
  BY GainIs DEF n, c
<1>9. CASE Gain(g, a, s, t, i, j) < 0
  <2>1. u = r
    BY <1>9 DEF r
  <2>2. TourLength(g, a, s, r) <= TourLength(g, a, s, t)
    BY <1>6, <1>7, <1>8, <1>9
  <2>3. /\ TourLength(g, a, s, t) <= TourLength(g, a, s, NearestNeighborOrder(g, a, s))
        /\ TourLength(g, a, s, NearestNeighborOrder(g, a, s)) \in Int
    BY DEF Ordered
  <2>4. TourLength(g, a, s, r) <= TourLength(g, a, s, NearestNeighborOrder(g, a, s))
    BY <1>6, <2>2, <2>3
  <2>5. /\ u \in [1 .. Len(s) + 1 -> 1 .. Len(s) + 1] /\ u[1] = 1
        /\ {u[x] : x \in 1 .. Len(s) + 1} = 1 .. Len(s) + 1
    BY <1>3, <1>5, <2>1
  <2>6. /\ TourLength(g, a, s, u) \in Int
        /\ TourLength(g, a, s, u) <= TourLength(g, a, s, NearestNeighborOrder(g, a, s))
    BY <1>6, <2>1, <2>4
  <2> QED
    BY <1>1, <2>3, <2>5, <2>6 DEF Ordered
<1>10. CASE ~(Gain(g, a, s, t, i, j) < 0)
  BY <1>10 DEF Ordered
<1> QED
  BY <1>9, <1>10

(* The stops of a tour being ordered are nodes, and the tour is in order.    *)
TourInv ==
  phase = "order" => Len(ctx.stops) > 1 /\ Ordered(graph, q, ctx.stops, tour, scan[1], scan[2])

(* A destination that is found is a node.                                    *)
LEMMA DestinationIs ==
  ASSUME NEW g, WellFormed(g), NEW d, ResolveDestination(g, d) # None
  PROVE  ResolveDestination(g, d) \in DOMAIN g.node
<1> DEFINE named == CASE d.via = "poi" -> {n \in DOMAIN g.node : g.node[n].poi = d.key}
                      [] d.via = "ext" -> {n \in DOMAIN g.node : g.node[n].code = d.key}
                      [] OTHER         -> {d.key} \cap DOMAIN g.node
<1>1. ResolveDestination(g, d) = IF named = {} THEN None ELSE CHOOSE n \in named : TRUE
  BY Zenon DEF ResolveDestination
<1>2. named \in SUBSET DOMAIN g.node
  <2>1. CASE d.via = "poi"
    BY <2>1
  <2>2. CASE d.via # "poi" /\ d.via = "ext"
    BY <2>2
  <2>3. CASE d.via # "poi" /\ d.via # "ext"
    BY <2>3
  <2> QED
    BY <2>1, <2>2, <2>3
<1> HIDE DEF named
<1> QED
  BY <1>1, <1>2

(* A request that is not rejected has stops, and they are nodes of the graph. *)
LEMMA StopsPlaced ==
  ASSUME NEW g, WellFormed(g), NEW qq \in Queries, qq.from \in DOMAIN g.node,
         qq.mode # "evacuate", Rejection(g, qq) = 0, NEW C
  PROVE  Placed(g, qq, Context(g, qq, C).stops) /\ Len(Context(g, qq, C).stops) > 0
<1> DEFINE to == ParseDestinations(qq.to)
           kept == {i \in DOMAIN qq.to : i = 1 \/ qq.to[i] # qq.to[i - 1]}
           m == Cardinality(kept)
           stops == Context(g, qq, C).stops
<1>1. m \in Nat
  <2>1. IsFiniteSet(DOMAIN qq.to)
    BY PlanningQueries
  <2>2. kept \in SUBSET DOMAIN qq.to
    OBVIOUS
  <2> HIDE DEF kept
  <2>3. IsFiniteSet(kept)
    BY <2>1, <2>2, FS_Subset
  <2> QED
    BY <2>3, FS_CardinalityType
<1>2. DOMAIN to = 1 .. m
  BY DEF ParseDestinations
<1>3. \E f : to = [k \in 1 .. m |-> f[k]]
  <2> WITNESS to
  <2>1. to = [k \in 1 .. m |-> to[k]]
    BY DEF ParseDestinations
  <2> QED
    BY <2>1
<1> HIDE DEF m, to
<1>4. Len(to) = m /\ (m = 0 => to = <<>>)
  <2>1. to \in [1 .. m -> {to[k] : k \in 1 .. m}]
    BY <1>2, <1>3
  <2>2. Len(to) = m
    BY <1>1, <2>1, Sequential
  <2>3. m = 0 => to = <<>>
    BY <1>3, <2>1
  <2> QED
    BY <2>2, <2>3
<1>5. \A i \in 1 .. m : ResolveDestination(g, to[i]) # None
  <2>1. ~(Len(to) > MaxDestinations)
    BY DEF Rejection, to
  <2>2. to # <<>>
    BY <2>1 DEF Rejection, to
  <2>3. Len(to) \in 1 .. MaxDestinations
    BY <1>1, <1>4, <2>1, <2>2, PlanningBounds
  <2>4. ~ \E i \in DOMAIN to : ResolveDestination(g, to[i]) = None
    BY <2>1, <2>2, <2>3 DEF Rejection, to
  <2> QED
    BY <1>2, <2>4
<1>6. stops = [i \in 1 .. m |-> ResolveDestination(g, to[i])]
  <2>1. stops = [i \in DOMAIN to |-> ResolveDestination(g, to[i])]
    BY DEF Context, to
  <2> QED
    BY <1>2, <2>1
<1>7. \A i \in 1 .. m : ResolveDestination(g, to[i]) \in DOMAIN g.node
  BY <1>5, DestinationIs
<1> HIDE DEF stops
<1>8. stops \in [1 .. m -> DOMAIN g.node]
  BY <1>6, <1>7
<1>9. stops \in Seq(DOMAIN g.node) /\ Len(stops) = m
  BY <1>1, <1>8, Sequential
<1>10. m # 0
  BY <1>4 DEF Rejection, to
<1> QED
  BY <1>1, <1>9, <1>10 DEF Placed, stops

(* A tour begins in order,                                                   *)
LEMMA ArriveOrders ==
  ASSUME SearchesInv, NEW qq \in Queries, NEW C \in ClosureSets, Arrive(qq, C)
  PROVE  TourInv'
<1> SUFFICES ASSUME phase' = "order" PROVE TourInv'
  BY DEF TourInv
<1>1. /\ graph' = graph /\ qq.from \in DOMAIN graph.node
      /\ request' = [query |-> qq, closures |-> C]
  BY DEF Arrive
<1>2. q' = qq
  BY <1>1 DEF q
<1>3. Rejection(graph, qq) = 0
  BY DEF Arrive
<1>4. /\ qq.mode # "evacuate" /\ Len(Context(graph, qq, C).stops) > 1
      /\ ~HasDuplicate(Context(graph, qq, C).stops)
      /\ ctx' = Context(graph, qq, C) /\ scan' = <<2, 3, FALSE>>
  BY <1>3 DEF Arrive
<1>5. tour' = NearestNeighborOrder(graph, qq, Context(graph, qq, C).stops)
  BY <1>3, <1>4 DEF Arrive
<1>6. WellFormed(graph)
  BY DEF SearchesInv, GraphInv
<1>7. Placed(graph, qq, Context(graph, qq, C).stops)
  BY <1>1, <1>3, <1>4, <1>6, StopsPlaced
<1>8. Ordered(graph, qq, Context(graph, qq, C).stops, tour', 2, 3)
  BY <1>4, <1>5, <1>6, <1>7, TourBegins
<1>9. scan'[1] = 2 /\ scan'[2] = 3
  BY <1>4
<1> QED
  BY <1>1, <1>2, <1>4, <1>8, <1>9 DEF TourInv

(* and 2-opt keeps it so.                                                    *)
LEMMA TwoOptOrders ==
  ASSUME SearchesInv, TourInv, TwoOpt
  PROVE  TourInv'
<1> SUFFICES ASSUME phase' = "order" PROVE TourInv'
  BY DEF TourInv
<1> DEFINE i == scan[1]
           j == scan[2]
           n == Len(ctx.stops) + 1
<1>1. UNCHANGED <<graph, request, ctx>> /\ phase = "order"
  BY DEF TwoOpt
<1>2. q' = q
  BY <1>1 DEF q
<1>3. Len(ctx.stops) > 1 /\ Ordered(graph, q, ctx.stops, tour, i, j) /\ WellFormed(graph)
  BY <1>1 DEF TourInv, SearchesInv, GraphInv
<1>4. Delta(i, j) = Gain(graph, q, ctx.stops, tour, i, j)
  BY DEF Delta, LegCost, Leg, Gain
<1>5. tour' = IF Gain(graph, q, ctx.stops, tour, i, j) < 0 THEN ReverseStretch(tour, i, j) ELSE tour
  BY <1>4 DEF TwoOpt
<1>6. i \in Nat /\ j \in Nat /\ 2 <= i /\ i < j /\ j <= n /\ n \in Nat /\ n > 2 /\ Len(tour) = n
  <2>1. i \in Nat /\ j \in Nat /\ 2 <= i /\ i < j /\ j <= n /\ Len(tour) = n
    BY <1>3, GainIs DEF Ordered
  <2>2. Len(ctx.stops) \in Nat
    BY <1>3, LenProperties DEF Ordered, Placed
  <2> QED
    BY <1>3, <2>1, <2>2
<1>7. /\ scan'[1] \in Nat /\ scan'[2] \in Nat /\ 2 <= scan'[1]
      /\ scan'[1] < scan'[2] /\ scan'[2] <= n
  <2> DEFINE b == scan[3] \/ Delta(i, j) < 0
  <2>1. \/ j < Len(tour) /\ scan' = <<i, j + 1, b>>
        \/ j = Len(tour) /\ i < Len(tour) - 1 /\ scan' = <<i + 1, i + 2, b>>
        \/ scan' = <<2, 3, FALSE>>
    BY Zenon DEF TwoOpt
  <2> HIDE DEF i, j, n, b
  <2>2. CASE j < Len(tour) /\ scan' = <<i, j + 1, b>>
    <3>1. scan'[1] = i /\ scan'[2] = j + 1
      BY <2>2
    <3> QED
      BY <1>6, <2>2, <3>1
  <2>3. CASE j = Len(tour) /\ i < Len(tour) - 1 /\ scan' = <<i + 1, i + 2, b>>
    <3>1. scan'[1] = i + 1 /\ scan'[2] = i + 2
      BY <2>3
    <3> QED
      BY <1>6, <2>3, <3>1
  <2>4. CASE scan' = <<2, 3, FALSE>>
    <3>1. scan'[1] = 2 /\ scan'[2] = 3
      BY <2>4
    <3> QED
      BY <1>6, <3>1
  <2> QED
    BY <2>1, <2>2, <2>3, <2>4
<1> HIDE DEF i, j
<1>8. Ordered(graph, q, ctx.stops, tour', scan'[1], scan'[2])
  BY <1>3, <1>5, <1>7, TourGoesOn
<1> QED
  BY <1>1, <1>2, <1>3, <1>8 DEF TourInv

(* Every step keeps the tour in order.                                       *)
LEMMA TourNext ==
  ASSUME SearchesInv, TourInv, [WNext]_allVars
  PROVE  TourInv'
<1>1. CASE UNCHANGED vars
  <2>1. UNCHANGED <<graph, request, ctx, phase, tour, scan>>
    BY <1>1 DEF vars
  <2> QED
    BY <2>1 DEF TourInv, q
<1>2. CASE TwoOpt
  BY <1>2, TwoOptOrders
<1>3. CASE FieldHit \/ FieldMiss \/ FieldDone
  <2>1. phase' # "order"
    BY <1>3 DEF FieldHit, FieldMiss, FieldDone, Follow
  <2> QED
    BY <2>1 DEF TourInv
<1>4. CASE DropStale \/ Settle \/ Reach
  <2>1. phase' # "order"
    BY <1>4 DEF DropStale, Settle, Reach
  <2> QED
    BY <2>1 DEF TourInv
<1>5. CASE WalkOn \/ Unwind \/ Collected \/ Exhausted
  <2>1. phase' # "order"
    BY <1>5 DEF WalkOn, Unwind, Collected, Exhausted, RouteKnown, Answer
  <2> QED
    BY <2>1 DEF TourInv
<1>6. ASSUME NEW qq \in Queries, NEW C \in ClosureSets, Request(qq, C)
      PROVE  TourInv'
  <2>1. Arrive(qq, C)
    BY <1>6 DEF Request
  <2> QED
    BY <2>1, ArriveOrders
<1>7. CASE Guide
  BY <1>1, <1>7 DEF Guide, Assemble, Measure, Simplify, FindTurns, AddConfirmations, Share
<1>8. CASE UNCHANGED allVars
  BY <1>1, <1>8 DEF allVars
<1> QED
  BY <1>2, <1>3, <1>4, <1>5, <1>6, <1>7, <1>8 DEF WNext, Work, Search, Plan

(* A tour in order is what TourNeverLonger says of it.                       *)
LEMMA OrderedIsShort ==
  ASSUME SearchesInv, TourInv
  PROVE  TourNeverLonger
<1> SUFFICES ASSUME phase = "order" PROVE TourNeverLonger
  BY DEF TourNeverLonger
<1> DEFINE n == Len(ctx.stops) + 1
           Length(s) == Sum([k \in 1 .. Len(s) - 1 |-> LegCost(s[k], s[k + 1])])
<1>1. Ordered(graph, q, ctx.stops, tour, scan[1], scan[2])
  BY DEF TourInv
<1>2. \A s : Length(s) = TourLength(graph, q, ctx.stops, s)
  BY DEF TourLength, TourLegs, LegCost, Leg
<1>3. tour[1] = 1 /\ Range(tour) = 1 .. n
  <2>1. tour \in [1 .. n -> 1 .. n] /\ tour[1] = 1 /\ {tour[k] : k \in 1 .. n} = 1 .. n
    BY <1>1 DEF Ordered
  <2>2. DOMAIN tour = 1 .. n
    BY <2>1
  <2> QED
    BY <2>1, <2>2, Zenon DEF Range
<1>4. Length(tour) <= Length(NearestNeighborOrder(graph, q, ctx.stops))
  <2>1. TourLength(graph, q, ctx.stops, tour)
        <= TourLength(graph, q, ctx.stops, NearestNeighborOrder(graph, q, ctx.stops))
    BY <1>1 DEF Ordered
  <2> HIDE DEF Length
  <2> QED
    BY <1>2, <2>1
<1> QED
  BY <1>3, <1>4 DEF TourNeverLonger

(* multiStop.js: the stops of a tour that is being ordered are visited once   *)
(* each, from the origin on, and 2-opt never makes the tour longer than the    *)
(* order of nearest neighbours it began as.                                 *)
THEOREM ToursAreNeverLonger ==
  WSpec => []TourNeverLonger
<1>1. WInit => TourInv
  BY DEF WInit, Init, TourInv
<1>2. SearchesInv /\ TourInv /\ [WNext]_allVars => TourInv'
  BY TourNext
<1>3. SearchesInv /\ TourInv => TourNeverLonger
  BY OrderedIsShort
<1> QED
  BY <1>1, <1>2, <1>3, SearchesAreSound, PTL DEF WSpec

=============================================================================
