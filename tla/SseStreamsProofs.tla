-------------------------- MODULE SseStreamsProofs --------------------------
(***************************************************************************)
(* For any number of connections, buildings and IPs and any caps: the      *)
(* counters agree with the slots, the caps hold, a newcomer is never       *)
(* refused, an eviction is fair, and nothing of a connection that is gone  *)
(* is left behind.                                                         *)
(***************************************************************************)
EXTENDS SseStreams, FiniteSetTheorems, WellFoundedInduction, TLAPS

(* The counters never pass the caps, not even after closeAll().            *)
CountersBounded ==
  /\ total <= CapTotal
  /\ \A b \in Building : perBuilding[b] <= CapPerBuilding

StreamInv == TypeOK /\ NothingLeaks /\ SlotAccounting /\ CountersBounded

-----------------------------------------------------------------------------
(* Counting *)

LEMMA FiniteSlots ==
  ASSUME TypeOK
  PROVE  \A S : S \subseteq active \/ S \subseteq slots =>
           IsFiniteSet(S) /\ Cardinality(S) \in Nat
<1>1. active \subseteq Stream /\ slots \subseteq Stream
  BY DEF TypeOK, Opened
<1> QED
  BY <1>1, StreamFinite, FS_Subset, FS_CardinalityType

(* A counter n of the set S, after the members of V have each been         *)
(* subtracted; A is what is really subtracted.                             *)
LEMMA CountAfter ==
  ASSUME NEW S, IsFiniteSet(S), NEW V, NEW A, IsFiniteSet(A),
         S \cap V \subseteq A, NEW n \in Nat
  PROVE  /\ Monus(n, Cardinality(A)) \in Nat
         /\ Monus(n, Cardinality(A)) <= n
         /\ n <= Cardinality(S) => Monus(n, Cardinality(A)) <= Cardinality(S \ V)
         /\ n = Cardinality(S) /\ A = S \cap V =>
              Monus(n, Cardinality(A)) = Cardinality(S \ V)
         /\ A # {} /\ n > 0 => Monus(n, Cardinality(A)) < n
<1>1. /\ Cardinality(S) \in Nat /\ Cardinality(A) \in Nat
      /\ Cardinality(S \cap V) \in Nat /\ Cardinality(S \ V) \in Nat
  BY FS_CardinalityType, FS_Intersection, FS_Difference
<1>2. Cardinality(S \ V) = Cardinality(S) - Cardinality(S \cap V)
  BY FS_Difference
<1>3. Cardinality(S \cap V) <= Cardinality(A)
  BY FS_Subset
<1>4. A # {} => Cardinality(A) # 0
  BY FS_EmptySet
<1> DEFINE c == Cardinality(S)  a == Cardinality(A)
           v == Cardinality(S \cap V)  left == Cardinality(S \ V)
<1>5. c \in Nat /\ a \in Nat /\ v \in Nat /\ left \in Nat /\ left = c - v /\ v <= a
  BY <1>1, <1>2, <1>3
<1>6. A = S \cap V => a = v
  OBVIOUS
<1>7. A # {} => a # 0
  BY <1>4
<1> HIDE DEF c, a, v, left
<1>8. Monus(n, a) = IF n > a THEN n - a ELSE 0
  BY DEF Monus
<1>9. Monus(n, a) \in Nat /\ Monus(n, a) <= n /\ (a # 0 /\ n > 0 => Monus(n, a) < n)
  BY <1>5, <1>8
<1>10. (n <= c => Monus(n, a) <= left) /\ (n = c /\ a = v => Monus(n, a) = left)
  BY <1>5, <1>8
<1> QED
  BY <1>6, <1>7, <1>9, <1>10 DEF c, a, v, left

(* The counters once the connections in V are unsubscribed.                *)
LEMMA Freed ==
  ASSUME StreamInv, NEW V \in SUBSET Stream, NEW b \in Building
  PROVE  /\ PerBuildingWithout(V) \in [Building -> Nat]
         /\ PerBuildingWithout(V)[b] <= perBuilding[b]
         /\ PerBuildingWithout(V)[b] <= Cardinality(SlotsOf(b) \ V)
         /\ ~ closed => PerBuildingWithout(V)[b] = Cardinality(SlotsOf(b) \ V)
         /\ \A v \in V \cap active : building[v] = b /\ perBuilding[b] > 0 =>
              PerBuildingWithout(V)[b] < perBuilding[b]
         /\ TotalWithout(V) \in Nat
         /\ TotalWithout(V) <= total
         /\ TotalWithout(V) <= Cardinality(slots \ V)
         /\ ~ closed => TotalWithout(V) = Cardinality(slots \ V)
         /\ V \cap active # {} /\ total > 0 => TotalWithout(V) < total
<1> DEFINE gone(x) == {s \in V \cap active : building[s] = x}
<1>0. /\ TypeOK /\ NothingLeaks
      /\ perBuilding \in [Building -> Nat] /\ total \in Nat
      /\ slots \subseteq active
      /\ ~ closed => slots = active
  BY DEF StreamInv, TypeOK, NothingLeaks
<1>1. \A x : /\ IsFiniteSet(SlotsOf(x)) /\ IsFiniteSet(gone(x))
             /\ SlotsOf(x) \cap V \subseteq gone(x)
             /\ ~ closed => gone(x) = SlotsOf(x) \cap V
  BY <1>0, FiniteSlots DEF SlotsOf
<1>2. /\ IsFiniteSet(slots) /\ IsFiniteSet(V \cap active)
      /\ slots \cap V \subseteq V \cap active
      /\ ~ closed => V \cap active = slots \cap V
  BY <1>0, FiniteSlots
<1>3. PerBuildingWithout(V) = [x \in Building |-> Monus(perBuilding[x], Cardinality(gone(x)))]
  BY DEF PerBuildingWithout
<1>4. /\ perBuilding[b] <= Cardinality(SlotsOf(b))
      /\ ~ closed => perBuilding[b] = Cardinality(SlotsOf(b))
      /\ total <= Cardinality(slots)
      /\ ~ closed => total = Cardinality(slots)
  <2>1. Cardinality(slots) \in Nat /\ Cardinality(SlotsOf(b)) \in Nat
    BY <1>1, <1>2, FS_CardinalityType
  <2> QED
    BY <1>0, <2>1 DEF StreamInv, SlotAccounting
<1> HIDE DEF gone
<1>5. \A x \in Building : Monus(perBuilding[x], Cardinality(gone(x))) \in Nat
  BY <1>0, <1>1, CountAfter
<1>6. /\ PerBuildingWithout(V) \in [Building -> Nat]
      /\ PerBuildingWithout(V)[b] = Monus(perBuilding[b], Cardinality(gone(b)))
  BY <1>3, <1>5
<1>7. /\ PerBuildingWithout(V)[b] <= perBuilding[b]
      /\ PerBuildingWithout(V)[b] <= Cardinality(SlotsOf(b) \ V)
      /\ ~ closed => PerBuildingWithout(V)[b] = Cardinality(SlotsOf(b) \ V)
      /\ gone(b) # {} /\ perBuilding[b] > 0 => PerBuildingWithout(V)[b] < perBuilding[b]
  <2>1. perBuilding[b] \in Nat
    BY <1>0
  <2> QED
    BY <1>1, <1>4, <1>6, <2>1, CountAfter
<1>8. \A v \in V \cap active : building[v] = b => gone(b) # {}
  BY DEF gone
<1>9. /\ TotalWithout(V) \in Nat
      /\ TotalWithout(V) <= total
      /\ TotalWithout(V) <= Cardinality(slots \ V)
      /\ ~ closed => TotalWithout(V) = Cardinality(slots \ V)
      /\ V \cap active # {} /\ total > 0 => TotalWithout(V) < total
  <2> DEFINE all == V \cap active
  <2>1. TotalWithout(V) = Monus(total, Cardinality(all)) /\ total \in Nat
    BY <1>0 DEF TotalWithout
  <2>2. /\ IsFiniteSet(slots) /\ IsFiniteSet(all) /\ slots \cap V \subseteq all
        /\ ~ closed => all = slots \cap V
    BY <1>2
  <2>3. all # {} <=> V \cap active # {}
    OBVIOUS
  <2> HIDE DEF all
  <2>4. /\ Monus(total, Cardinality(all)) \in Nat
        /\ Monus(total, Cardinality(all)) <= total
        /\ total <= Cardinality(slots) =>
             Monus(total, Cardinality(all)) <= Cardinality(slots \ V)
        /\ total = Cardinality(slots) /\ all = slots \cap V =>
             Monus(total, Cardinality(all)) = Cardinality(slots \ V)
        /\ all # {} /\ total > 0 => Monus(total, Cardinality(all)) < total
    BY <2>1, <2>2, CountAfter
  <2> QED
    BY <1>4, <2>1, <2>2, <2>3, <2>4
<1> QED
  BY <1>6, <1>7, <1>8, <1>9

-----------------------------------------------------------------------------
(* Eviction *)

(* A nonempty set of naturals has a least element.                         *)
LEMMA LeastNatural ==
  ASSUME NEW S \in SUBSET Nat, S # {}
  PROVE  \E k \in S : \A l \in S : k <= l
<1> DEFINE R == OpToRel(<, Nat)
<1>1. IsWellFoundedOn(R, Nat)
  BY NatLessThanWellFounded
<1>2. \A x, y \in Nat : x < y => <<x, y>> \in R
  BY DEF OpToRel
<1>3. PICK x \in S : \A y \in S : ~ (<<y, x>> \in R)
  <2> HIDE DEF R
  <2> QED
    BY <1>1, WFMin
<1>4. \A y \in S : ~ (y < x)
  <2> HIDE DEF R
  <2> QED
    BY <1>2, <1>3
<1> QED
  BY <1>4

(* Among any candidates one outranks all: of the IPs that hold most the    *)
(* oldest stream.                                                          *)
LEMMA SomebodyOutranks ==
  ASSUME TypeOK, NEW C \in SUBSET slots, C # {}
  PROVE  \E s \in C : \A t \in C : Outranks(C, s, t)
<1> DEFINE held(i) == Cardinality({x \in C : ip[x] = i})
           missing == {Cardinality(C) - held(ip[s]) : s \in C}
<1>1. /\ IsFiniteSet(C) /\ Cardinality(C) \in Nat
      /\ \A s \in C : s \in Stream /\ arrival[s] \in Nat
  BY FiniteSlots DEF TypeOK, Opened
<1>2. \A i : held(i) \in Nat /\ held(i) <= Cardinality(C)
  <2> TAKE i
  <2>1. {x \in C : ip[x] = i} \in SUBSET C
    OBVIOUS
  <2> QED
    BY <1>1, <2>1, FS_Subset, FS_CardinalityType
<1> HIDE DEF held
<1>3. PICK m \in C : \A t \in C : held(ip[t]) <= held(ip[m])
  <2>1. missing \in SUBSET Nat /\ missing # {}
    BY <1>1, <1>2
  <2>2. PICK k \in missing : \A l \in missing : k <= l
    BY <2>1, LeastNatural
  <2>3. PICK m \in C : k = Cardinality(C) - held(ip[m])
    BY <2>2
  <2>4. \A t \in C : Cardinality(C) - held(ip[m]) <= Cardinality(C) - held(ip[t])
    BY <2>2, <2>3
  <2>5. \A t \in C : held(ip[t]) <= held(ip[m])
    BY <1>1, <1>2, <2>4
  <2> QED
    BY <2>5
<1> DEFINE most == {t \in C : held(ip[t]) = held(ip[m])}
           ages == {arrival[t] : t \in most}
<1>4. PICK s \in most : \A t \in most : arrival[s] <= arrival[t]
  <2>1. ages \in SUBSET Nat /\ ages # {}
    BY <1>1, <1>3
  <2>2. PICK k \in ages : \A l \in ages : k <= l
    BY <2>1, LeastNatural
  <2> QED
    BY <2>2
<1>5. \A t \in C : \/ held(ip[s]) > held(ip[t])
                   \/ held(ip[s]) = held(ip[t]) /\ arrival[s] <= arrival[t]
  BY <1>2, <1>3, <1>4
<1> QED
  BY <1>4, <1>5 DEF Outranks, held

(* Who is evicted holds a slot, is one of the candidates, and outranks     *)
(* every one of them.                                                      *)
LEMMA EvictedSlots ==
  ASSUME NEW b \in Building
  PROVE  /\ Evicted(b) \subseteq Candidates(b) /\ Candidates(b) \subseteq slots
         /\ \A v \in Evicted(b) : \A t \in Candidates(b) : Outranks(Candidates(b), v, t)
         /\ Evicted(b) # {} => AtCapacity(perBuilding, total, b)
  BY DEF Evicted, Victim, Candidates, SlotsOf

(* After making room there is room.                                        *)
LEMMA RoomMade ==
  ASSUME StreamInv, NEW b \in Building
  PROVE  ~ AtCapacity(PerBuildingWithout(Evicted(b)), TotalWithout(Evicted(b)), b)
<1> DEFINE V == Evicted(b)
<1>0. /\ TypeOK /\ slots \subseteq active /\ active \subseteq Stream
      /\ perBuilding[b] \in Nat /\ total \in Nat
      /\ perBuilding[b] <= CapPerBuilding /\ total <= CapTotal
      /\ CapPerBuilding \in Nat \ {0} /\ CapTotal \in Nat \ {0}
  BY CapsPositive DEF StreamInv, TypeOK, CountersBounded, Opened
<1>1. V \in SUBSET Stream /\ V \subseteq Candidates(b) /\ V \subseteq slots /\ V \subseteq active
  BY <1>0, EvictedSlots
<1>2. /\ PerBuildingWithout(V)[b] \in Nat /\ PerBuildingWithout(V)[b] <= perBuilding[b]
      /\ \A v \in V \cap active : building[v] = b /\ perBuilding[b] > 0 =>
           PerBuildingWithout(V)[b] < perBuilding[b]
      /\ TotalWithout(V) \in Nat /\ TotalWithout(V) <= total
      /\ V \cap active # {} /\ total > 0 => TotalWithout(V) < total
  BY <1>1, Freed
<1>3. CASE ~ AtCapacity(perBuilding, total, b)
  BY <1>0, <1>2, <1>3 DEF AtCapacity
<1>4. CASE AtCapacity(perBuilding, total, b)
  <2>1. V = Victim(b)
    BY <1>4 DEF Evicted
  <2>2. /\ perBuilding[b] <= Cardinality(SlotsOf(b))
        /\ total <= Cardinality(slots)
        /\ Cardinality(SlotsOf(b)) \in Nat /\ Cardinality(slots) \in Nat
    <3>1. Cardinality(SlotsOf(b)) \in Nat /\ Cardinality(slots) \in Nat
      BY <1>0, FiniteSlots DEF SlotsOf
    <3> QED
      BY <1>0, <3>1 DEF StreamInv, SlotAccounting
  <2>3. Candidates(b) # {}
    <3>1. CASE perBuilding[b] >= CapPerBuilding
      <4>1. Cardinality(SlotsOf(b)) # 0
        BY <1>0, <2>2, <3>1
      <4>2. SlotsOf(b) # {}
        BY <4>1, FS_EmptySet
      <4> QED
        BY <3>1, <4>2 DEF Candidates
    <3>2. CASE ~ (perBuilding[b] >= CapPerBuilding)
      <4>1. total >= CapTotal
        BY <1>4, <3>2 DEF AtCapacity
      <4>2. Cardinality(slots) # 0
        BY <1>0, <2>2, <4>1
      <4>3. slots # {}
        BY <4>2, FS_EmptySet
      <4> QED
        BY <3>2, <4>3 DEF Candidates
    <3> QED
      BY <3>1, <3>2
  <2>4. PICK v \in V : v \in Candidates(b) /\ v \in active
    <3>1. Candidates(b) \in SUBSET slots
      BY EvictedSlots
    <3>2. \E v \in Candidates(b) : \A t \in Candidates(b) : Outranks(Candidates(b), v, t)
      BY <1>0, <2>3, <3>1, SomebodyOutranks
    <3>3. V # {}
      BY <2>1, <3>2 DEF Victim
    <3> QED
      BY <1>1, <3>3
  <2> HIDE DEF V
  <2>5. total > 0 => TotalWithout(V) < CapTotal
    BY <1>0, <1>2, <2>4
  <2>6. TotalWithout(V) < CapTotal
    BY <1>0, <1>2, <2>5
  <2>7. PerBuildingWithout(V)[b] < CapPerBuilding
    <3>1. CASE perBuilding[b] >= CapPerBuilding
      <4>1. building[v] = b
        BY <2>4, <3>1 DEF Candidates, SlotsOf
      <4> QED
        BY <1>0, <1>2, <2>4, <3>1, <4>1
    <3>2. CASE ~ (perBuilding[b] >= CapPerBuilding)
      BY <1>0, <1>2, <3>2
    <3> QED
      BY <3>1, <3>2
  <2> QED
    BY <1>0, <1>2, <2>6, <2>7 DEF AtCapacity, V
<1> QED
  BY <1>3, <1>4

(* So a newcomer takes a slot and the evicted lose theirs.                 *)
LEMMA Admitted ==
  ASSUME StreamInv, NEW s \in Stream, Connect(s)
  PROVE  LET V == Evicted(building[s])
         IN  /\ phase[s] = "new" /\ phase' = [phase EXCEPT ![s] = "setup"]
             /\ arrival' = [ArrivalWithout(V) EXCEPT ![s] = Cardinality(Opened) + 1]
             /\ slots' = (slots \ V) \cup {s}
             /\ active' = (active \ V) \cup {s}
             /\ perBuilding' = [PerBuildingWithout(V) EXCEPT ![building[s]] = @ + 1]
             /\ total' = TotalWithout(V) + 1
             /\ cleaned' = cleaned \cup V
             /\ ended' = ended \cup V
             /\ heartbeat' = heartbeat \ V
             /\ closers' = closers \ V
             /\ UNCHANGED <<building, ip, closed>>
<1>1. building[s] \in Building
  BY DEF StreamInv, TypeOK
<1>2. ~ AtCapacity(PerBuildingWithout(Evicted(building[s])),
                   TotalWithout(Evicted(building[s])), building[s])
  BY <1>1, RoomMade
<1> QED
  BY <1>2 DEF Connect

-----------------------------------------------------------------------------
(* Types *)

LEMMA TypeInit == Init => StreamInv
<1> SUFFICES ASSUME Init PROVE StreamInv
  OBVIOUS
<1>1. Opened = {}
  BY DEF Init, Opened
<1>2. TypeOK /\ NothingLeaks
  BY <1>1 DEF Init, TypeOK, NothingLeaks, Phase
<1>3. SlotAccounting
  BY FS_EmptySet DEF Init, SlotAccounting, SlotsOf
<1>4. CountersBounded
  BY CapsPositive DEF Init, CountersBounded
<1> QED
  BY <1>2, <1>3, <1>4 DEF StreamInv

LEMMA TypeStep == StreamInv /\ [Next]_vars => TypeOK'
<1> SUFFICES ASSUME StreamInv, [Next]_vars PROVE TypeOK'
  OBVIOUS
<1>0. TypeOK
  BY DEF StreamInv
<1>1. ASSUME NEW s \in Stream, Connect(s) PROVE TypeOK'
  <2> DEFINE V == Evicted(building[s])
  <2>1. /\ building[s] \in Building /\ slots \subseteq Opened /\ active \subseteq Opened
        /\ Opened \subseteq Stream
    BY <1>0 DEF TypeOK, Opened
  <2>2. V \subseteq slots /\ V \in SUBSET Stream
    BY <2>1, EvictedSlots
  <2>3. PerBuildingWithout(V) \in [Building -> Nat] /\ TotalWithout(V) \in Nat
    BY <2>1, <2>2, Freed
  <2>4. Cardinality(Opened) \in Nat
    BY <2>1, StreamFinite, FS_Subset, FS_CardinalityType
  <2> HIDE DEF V
  <2>5. /\ phase' = [phase EXCEPT ![s] = "setup"]
        /\ arrival' = [ArrivalWithout(V) EXCEPT ![s] = Cardinality(Opened) + 1]
        /\ slots' = (slots \ V) \cup {s}
        /\ active' = (active \ V) \cup {s}
        /\ perBuilding' = [PerBuildingWithout(V) EXCEPT ![building[s]] = @ + 1]
        /\ total' = TotalWithout(V) + 1
        /\ cleaned' = cleaned \cup V /\ ended' = ended \cup V
        /\ heartbeat' = heartbeat \ V /\ closers' = closers \ V
        /\ UNCHANGED <<building, ip, closed>>
    BY <1>1, Admitted DEF V
  <2>6. Opened' = Opened \cup {s}
    BY <1>0, <2>5 DEF TypeOK, Opened
  <2>7. /\ phase' \in [Stream -> Phase] /\ arrival' \in [Stream -> Nat]
        /\ perBuilding' \in [Building -> Nat] /\ total' \in Nat
    BY <1>0, <2>1, <2>3, <2>4, <2>5 DEF TypeOK, Phase, ArrivalWithout
  <2>8. /\ slots' \subseteq active' /\ active' \subseteq Opened'
        /\ cleaned' \subseteq Opened' /\ ended' \subseteq Opened'
        /\ heartbeat' \subseteq Opened' /\ closers' \subseteq Opened'
    BY <1>0, <2>1, <2>2, <2>5, <2>6 DEF TypeOK
  <2> QED
    BY <1>0, <2>5, <2>7, <2>8 DEF TypeOK
<1>2. ASSUME NEW s \in Stream, Cleanup({s}), SetupFails(s) \/ Hangup(s) PROVE TypeOK'
  <2>1. /\ PerBuildingWithout({s}) \in [Building -> Nat] /\ TotalWithout({s}) \in Nat
    <3>1. building[s] \in Building
      BY <1>0 DEF TypeOK
    <3> QED
      BY <3>1, Freed
  <2>2. /\ Opened' = Opened /\ s \in Opened
        /\ phase' \in [Stream -> Phase]
        /\ ended' \subseteq Opened
        /\ UNCHANGED <<identity, closed>>
    BY <1>0, <1>2 DEF TypeOK, SetupFails, Hangup, Opened, Phase
  <2> QED
    BY <1>0, <1>2, <2>1, <2>2 DEF TypeOK, Cleanup, identity, ArrivalWithout
<1>3. ASSUME NEW s \in Stream, SetupDone(s) PROVE TypeOK'
  <2>1. Opened' = Opened /\ s \in Opened /\ phase' \in [Stream -> Phase]
    BY <1>0, <1>3 DEF TypeOK, SetupDone, Opened, Phase
  <2> QED
    BY <1>0, <1>3, <2>1 DEF TypeOK, SetupDone, identity, accounting
<1>4. ASSUME NEW s \in Stream, HeartbeatFails(s) PROVE TypeOK'
  BY <1>0, <1>4 DEF TypeOK, HeartbeatFails, Opened, identity, accounting
<1>5. CASE CloseAll
  BY <1>0, <1>5 DEF TypeOK, CloseAll, Opened, identity, ArrivalWithout
<1>6. CASE UNCHANGED vars
  BY <1>0, <1>6 DEF TypeOK, Opened, vars, identity, accounting, lifecycle
<1> QED
  BY <1>1, <1>2, <1>3, <1>4, <1>5, <1>6 DEF Next, SetupFails, Hangup

-----------------------------------------------------------------------------
(* What a connection leaves behind *)

LEMMA LeaksStep == StreamInv /\ [Next]_vars => NothingLeaks'
<1> SUFFICES ASSUME StreamInv, [Next]_vars PROVE NothingLeaks'
  OBVIOUS
<1>0. TypeOK /\ NothingLeaks
  BY DEF StreamInv
<1>1. ASSUME NEW s \in Stream, Connect(s) PROVE NothingLeaks'
  <2> DEFINE V == Evicted(building[s])
  <2>1. V \subseteq slots
    BY <1>0, EvictedSlots DEF TypeOK
  <2> HIDE DEF V
  <2>2. /\ phase[s] = "new" /\ phase' = [phase EXCEPT ![s] = "setup"]
        /\ slots' = (slots \ V) \cup {s} /\ active' = (active \ V) \cup {s}
        /\ cleaned' = cleaned \cup V
        /\ heartbeat' = heartbeat \ V /\ closers' = closers \ V
        /\ UNCHANGED closed
    BY <1>1, Admitted DEF V
  <2>3. Opened' = Opened \cup {s} /\ s \notin Opened
    BY <1>0, <2>2 DEF TypeOK, Opened
  <2>4. s \notin V /\ s \notin cleaned /\ s \notin heartbeat /\ s \notin closers
    BY <1>0, <2>1, <2>3 DEF TypeOK
  <2>5. /\ active' = Opened' \ cleaned'
        /\ heartbeat' \cap cleaned' = {} /\ closers' \cap cleaned' = {}
    BY <1>0, <2>2, <2>3, <2>4 DEF NothingLeaks
  <2>6. {t \in Stream : phase'[t] = "open"} = {t \in Stream : phase[t] = "open"}
    BY <1>0, <2>2 DEF TypeOK
  <2>7. ~ closed' => /\ slots' = active'
                     /\ closers' = {t \in Stream : phase'[t] = "open"} \ cleaned'
    BY <1>0, <2>2, <2>6 DEF NothingLeaks
  <2> QED
    BY <2>5, <2>7 DEF NothingLeaks
<1>2. ASSUME NEW s \in Stream, SetupFails(s) PROVE NothingLeaks'
  <2>1. /\ Opened' = Opened /\ s \in Opened
        /\ {t \in Stream : phase'[t] = "open"} = {t \in Stream : phase[t] = "open"}
    BY <1>0, <1>2 DEF TypeOK, SetupFails, Opened
  <2> QED
    BY <1>0, <1>2, <2>1 DEF NothingLeaks, SetupFails, Cleanup
<1>3. ASSUME NEW s \in Stream, Hangup(s) PROVE NothingLeaks'
  <2>1. Opened' = Opened
    BY <1>3 DEF Hangup, Opened
  <2> QED
    BY <1>0, <1>3, <2>1 DEF NothingLeaks, Hangup, Cleanup
<1>4. ASSUME NEW s \in Stream, SetupDone(s) PROVE NothingLeaks'
  <2>1. /\ Opened' = Opened
        /\ {t \in Stream : phase'[t] = "open"} = {t \in Stream : phase[t] = "open"} \cup {s}
    BY <1>0, <1>4 DEF TypeOK, SetupDone, Opened
  <2> QED
    BY <1>0, <1>4, <2>1 DEF NothingLeaks, SetupDone, accounting
<1>5. ASSUME NEW s \in Stream, HeartbeatFails(s) PROVE NothingLeaks'
  BY <1>0, <1>5 DEF NothingLeaks, HeartbeatFails, Opened, accounting
<1>6. CASE CloseAll
  BY <1>0, <1>6 DEF NothingLeaks, CloseAll, Opened
<1>7. CASE UNCHANGED vars
  BY <1>0, <1>7 DEF NothingLeaks, Opened, vars, accounting, lifecycle
<1> QED
  BY <1>1, <1>2, <1>3, <1>4, <1>5, <1>6, <1>7 DEF Next

-----------------------------------------------------------------------------
(* The counters *)

Counted == SlotAccounting /\ CountersBounded

LEMMA QuietCounters ==
  Counted /\ UNCHANGED <<building, slots, perBuilding, total, closed>> => Counted'
  BY DEF Counted, SlotAccounting, CountersBounded, SlotsOf

(* Unsubscribing some connections.                                         *)
LEMMA CleanupCounted ==
  ASSUME StreamInv, NEW s \in Stream, Cleanup({s}), UNCHANGED <<building, closed>>
  PROVE  Counted'
<1> DEFINE V == {s}
<1>0. /\ perBuilding \in [Building -> Nat] /\ total \in Nat
      /\ CapPerBuilding \in Nat /\ CapTotal \in Nat /\ V \in SUBSET Stream
      /\ building[s] \in Building
  BY CapsPositive DEF StreamInv, TypeOK
<1> HIDE DEF V
<1>1. /\ slots' = slots \ V /\ perBuilding' = PerBuildingWithout(V)
      /\ total' = TotalWithout(V)
  BY DEF Cleanup, V
<1>2. \A b \in Building : SlotsOf(b)' = SlotsOf(b) \ V
  BY <1>1 DEF SlotsOf
<1>3. ASSUME NEW b \in Building
      PROVE  /\ perBuilding'[b] <= CapPerBuilding
             /\ IF closed' THEN perBuilding'[b] <= Cardinality(SlotsOf(b)')
                           ELSE perBuilding'[b] = Cardinality(SlotsOf(b)')
  <2>1. /\ PerBuildingWithout(V) \in [Building -> Nat]
        /\ PerBuildingWithout(V)[b] <= perBuilding[b]
        /\ PerBuildingWithout(V)[b] <= Cardinality(SlotsOf(b) \ V)
        /\ ~ closed => PerBuildingWithout(V)[b] = Cardinality(SlotsOf(b) \ V)
    BY <1>0, Freed
  <2>2. perBuilding[b] <= CapPerBuilding
    BY DEF StreamInv, CountersBounded
  <2>3. SlotsOf(b)' = SlotsOf(b) \ V
    BY <1>2
  <2>4. perBuilding'[b] <= CapPerBuilding
    BY <1>0, <1>1, <2>1, <2>2
  <2> QED
    BY <1>1, <2>1, <2>3, <2>4
<1>4. /\ total' <= CapTotal
      /\ IF closed' THEN total' <= Cardinality(slots') ELSE total' = Cardinality(slots')
  <2>1. /\ TotalWithout(V) \in Nat /\ TotalWithout(V) <= total
        /\ TotalWithout(V) <= Cardinality(slots \ V)
        /\ ~ closed => TotalWithout(V) = Cardinality(slots \ V)
    BY <1>0, Freed
  <2>2. total <= CapTotal
    BY DEF StreamInv, CountersBounded
  <2>3. total' <= CapTotal
    BY <1>0, <1>1, <2>1, <2>2
  <2> QED
    BY <1>1, <2>1, <2>3
<1> QED
  BY <1>3, <1>4 DEF Counted, SlotAccounting, CountersBounded

LEMMA ConnectCounted ==
  ASSUME StreamInv, NEW s \in Stream, Connect(s)
  PROVE  Counted'
<1> DEFINE V == Evicted(building[s])
           pb == PerBuildingWithout(V)
           t == TotalWithout(V)
<1>0. /\ building[s] \in Building /\ slots \subseteq active /\ active \subseteq Stream
      /\ phase[s] = "new" /\ s \notin slots
      /\ CapPerBuilding \in Nat /\ CapTotal \in Nat
      /\ perBuilding \in [Building -> Nat]
  BY CapsPositive DEF StreamInv, TypeOK, Opened, Connect
<1>1. V \in SUBSET Stream
  BY <1>0, EvictedSlots
<1>2. pb[building[s]] < CapPerBuilding /\ t < CapTotal
  <2>1. pb[building[s]] \in Nat /\ t \in Nat
    BY <1>0, <1>1, Freed
  <2> QED
    BY <1>0, <2>1, RoomMade DEF AtCapacity
<1>3. /\ slots' = (slots \ V) \cup {s}
      /\ perBuilding' = [pb EXCEPT ![building[s]] = @ + 1]
      /\ total' = t + 1
      /\ UNCHANGED <<building, closed>>
  BY Admitted
<1>4. ASSUME NEW b \in Building
      PROVE  /\ pb \in [Building -> Nat] /\ pb[b] <= perBuilding[b]
             /\ pb[b] <= Cardinality(SlotsOf(b) \ V)
             /\ ~ closed => pb[b] = Cardinality(SlotsOf(b) \ V)
             /\ IsFiniteSet(SlotsOf(b) \ V) /\ Cardinality(SlotsOf(b) \ V) \in Nat
             /\ perBuilding[b] <= CapPerBuilding
  <2>1. /\ pb \in [Building -> Nat] /\ pb[b] <= perBuilding[b]
        /\ pb[b] <= Cardinality(SlotsOf(b) \ V)
        /\ ~ closed => pb[b] = Cardinality(SlotsOf(b) \ V)
    BY <1>1, Freed
  <2>2. IsFiniteSet(SlotsOf(b) \ V) /\ Cardinality(SlotsOf(b) \ V) \in Nat
    BY FiniteSlots DEF StreamInv, SlotsOf
  <2>3. perBuilding[b] <= CapPerBuilding
    BY DEF StreamInv, CountersBounded
  <2> QED
    BY <2>1, <2>2, <2>3
<1>5. /\ t \in Nat /\ t <= Cardinality(slots \ V)
      /\ ~ closed => t = Cardinality(slots \ V)
      /\ IsFiniteSet(slots \ V) /\ Cardinality(slots \ V) \in Nat
  <2>1. IsFiniteSet(slots \ V) /\ Cardinality(slots \ V) \in Nat
    BY FiniteSlots DEF StreamInv
  <2> QED
    BY <1>0, <1>1, <2>1, Freed
<1> HIDE DEF V, pb, t
<1>6. ASSUME NEW b \in Building
      PROVE  /\ perBuilding'[b] <= CapPerBuilding
             /\ IF closed' THEN perBuilding'[b] <= Cardinality(SlotsOf(b)')
                           ELSE perBuilding'[b] = Cardinality(SlotsOf(b)')
  <2>1. CASE b = building[s]
    <3>1. SlotsOf(b)' = (SlotsOf(b) \ V) \cup {s} /\ s \notin SlotsOf(b) \ V
      BY <1>0, <1>3, <2>1 DEF SlotsOf
    <3>2. Cardinality(SlotsOf(b)') = Cardinality(SlotsOf(b) \ V) + 1
      BY <1>4, <3>1, FS_AddElement
    <3>3. perBuilding'[b] = pb[b] + 1 /\ pb[b] \in Nat
      BY <1>3, <1>4, <2>1
    <3> QED
      BY <1>0, <1>2, <1>3, <1>4, <2>1, <3>2, <3>3
  <2>2. CASE b # building[s]
    <3>1. SlotsOf(b)' = SlotsOf(b) \ V
      BY <1>0, <1>3, <2>2 DEF SlotsOf
    <3>2. perBuilding'[b] = pb[b] /\ pb[b] \in Nat /\ perBuilding[b] \in Nat
      BY <1>0, <1>3, <1>4, <2>2
    <3>3. perBuilding'[b] <= CapPerBuilding
      <4>1. pb[b] <= perBuilding[b] /\ perBuilding[b] <= CapPerBuilding
        BY <1>4
      <4>2. CapPerBuilding \in Nat
        BY <1>0
      <4> QED
        BY <3>2, <4>1, <4>2
    <3> QED
      BY <1>3, <1>4, <3>1, <3>2, <3>3
  <2> QED
    BY <2>1, <2>2
<1>7. /\ total' <= CapTotal
      /\ IF closed' THEN total' <= Cardinality(slots') ELSE total' = Cardinality(slots')
  <2>1. Cardinality(slots') = Cardinality(slots \ V) + 1
    BY <1>0, <1>3, <1>5, FS_AddElement
  <2> QED
    BY <1>0, <1>2, <1>3, <1>5, <2>1
<1> QED
  BY <1>6, <1>7 DEF Counted, SlotAccounting, CountersBounded

LEMMA CountedStep == StreamInv /\ [Next]_vars => Counted'
<1> SUFFICES ASSUME StreamInv, [Next]_vars PROVE Counted'
  OBVIOUS
<1>1. ASSUME NEW s \in Stream, SetupFails(s) \/ Hangup(s) PROVE Counted'
  BY <1>1, CleanupCounted DEF SetupFails, Hangup, identity
<1>2. ASSUME NEW s \in Stream, SetupDone(s) \/ HeartbeatFails(s) PROVE Counted'
  BY <1>2, QuietCounters DEF StreamInv, Counted, SetupDone, HeartbeatFails, identity, accounting
<1>3. CASE CloseAll
  <2>1. /\ closed' /\ total' = 0 /\ slots' = {}
        /\ perBuilding' = [b \in Building |-> 0]
    BY <1>3 DEF CloseAll
  <2>2. \A b \in Building : SlotsOf(b)' = {}
    BY <2>1 DEF SlotsOf
  <2> QED
    BY <2>1, <2>2, CapsPositive, FS_EmptySet DEF Counted, SlotAccounting, CountersBounded
<1>4. CASE UNCHANGED vars
  BY <1>4, QuietCounters DEF StreamInv, Counted, vars, identity, accounting
<1> QED
  BY <1>1, <1>2, <1>3, <1>4, ConnectCounted DEF Next

-----------------------------------------------------------------------------
(* The invariant holds in every behaviour of the streams.                  *)
THEOREM StreamInvariant == Spec => []StreamInv
<1>1. Init => StreamInv
  BY TypeInit
<1>2. StreamInv /\ [Next]_vars => StreamInv'
  BY TypeStep, LeaksStep, CountedStep DEF StreamInv, Counted
<1> QED
  BY <1>1, <1>2, PTL DEF Spec

(* Types, and that only admitted connections hold anything.                *)
THEOREM TypeTheorem == Spec => []TypeOK
  BY StreamInvariant, PTL DEF StreamInv

(* A connection that is gone leaves no slot, heartbeat or closer behind.   *)
THEOREM LeakTheorem == Spec => []NothingLeaks
  BY StreamInvariant, PTL DEF StreamInv

(* The counters agree with the slots until closeAll(), and never exceed    *)
(* them after it.                                                          *)
THEOREM AccountingTheorem == Spec => []SlotAccounting
  BY StreamInvariant, PTL DEF StreamInv

(* The connections really open stay within the caps.                       *)
THEOREM CapTheorem == Spec => []CapsHold
<1>1. StreamInv => CapsHold
  BY DEF StreamInv, SlotAccounting, CountersBounded, CapsHold
<1> QED
  BY <1>1, StreamInvariant, PTL

(* No newcomer is ever refused.                                            *)
THEOREM AdmissionTheorem == Spec => []NewcomerAdmitted
<1>1. Init => NewcomerAdmitted
  BY DEF Init, NewcomerAdmitted
<1>2. StreamInv /\ NewcomerAdmitted /\ [Next]_vars => NewcomerAdmitted'
  <2> SUFFICES ASSUME StreamInv, NewcomerAdmitted, [Next]_vars PROVE NewcomerAdmitted'
    OBVIOUS
  <2>0. phase \in [Stream -> Phase]
    BY DEF StreamInv, TypeOK
  <2>1. ASSUME NEW s \in Stream, Connect(s) PROVE NewcomerAdmitted'
    <3>1. phase' = [phase EXCEPT ![s] = "setup"]
      BY <2>1, Admitted
    <3> QED
      BY <2>0, <3>1 DEF NewcomerAdmitted
  <2>2. ASSUME NEW s \in Stream, SetupDone(s) \/ SetupFails(s) \/ Hangup(s) \/ HeartbeatFails(s)
        PROVE  NewcomerAdmitted'
    BY <2>0, <2>2 DEF NewcomerAdmitted, SetupDone, SetupFails, Hangup, HeartbeatFails
  <2>3. CASE CloseAll \/ UNCHANGED vars
    BY <2>3 DEF NewcomerAdmitted, CloseAll, vars
  <2> QED
    BY <2>1, <2>2, <2>3 DEF Next
<1> QED
  BY <1>1, <1>2, StreamInvariant, PTL DEF Spec

(* An eviction makes room in a full scope only, and takes the oldest       *)
(* stream of an IP that holds most of it.                                  *)
THEOREM FairnessTheorem == Spec => FairEviction
<1> DEFINE Fair(s) ==
      LET b     == building[s]
          full  == Cardinality(SlotsOf(b)) >= CapPerBuilding
          scope == IF full THEN SlotsOf(b) ELSE slots
          of(i) == {x \in scope : ip[x] = i}
      IN  \A v \in slots \ slots' :
            /\ full \/ Cardinality(slots) >= CapTotal
            /\ v \in scope
            /\ \A i \in Ip : Cardinality(of(i)) <= Cardinality(of(ip[v]))
            /\ \A x \in of(ip[v]) : arrival[v] <= arrival[x]
<1>1. StreamInv /\ [Next]_vars =>
        [\A s \in Stream : (~ closed /\ phase[s] = "new" /\ phase'[s] = "setup") => Fair(s)]_vars
  <2> SUFFICES ASSUME StreamInv, [Next]_vars, NEW s \in Stream,
                      ~ closed, phase[s] = "new", phase'[s] = "setup"
               PROVE  Fair(s)
    OBVIOUS
  <2>0. /\ TypeOK /\ phase \in [Stream -> Phase] /\ building[s] \in Building
        /\ perBuilding[building[s]] = Cardinality(SlotsOf(building[s]))
        /\ total = Cardinality(slots)
    BY DEF StreamInv, TypeOK, SlotAccounting
  <2>1. Connect(s)
    BY <2>0 DEF Next, vars, Connect, SetupDone, SetupFails, Hangup, HeartbeatFails, CloseAll
  <2> DEFINE b == building[s]
             V == Evicted(b)
             C == Candidates(b)
  <2>2. slots' = (slots \ V) \cup {s}
    BY <2>1, Admitted
  <2> SUFFICES ASSUME NEW v \in V, v \in slots
               PROVE  /\ Cardinality(SlotsOf(b)) >= CapPerBuilding \/ Cardinality(slots) >= CapTotal
                      /\ v \in C
                      /\ \A i \in Ip : Cardinality({x \in C : ip[x] = i})
                                          <= Cardinality({x \in C : ip[x] = ip[v]})
                      /\ \A x \in {y \in C : ip[y] = ip[v]} : arrival[v] <= arrival[x]
    BY <2>0, <2>2 DEF Candidates
  <2>3. C \subseteq slots /\ v \in C /\ AtCapacity(perBuilding, total, b)
        /\ \A t \in C : Outranks(C, v, t)
    BY EvictedSlots, <2>0
  <2>4. Cardinality(SlotsOf(b)) >= CapPerBuilding \/ Cardinality(slots) >= CapTotal
    BY <2>0, <2>3 DEF AtCapacity
  <2> HIDE DEF V, C, b
  <2>5. \A i : /\ IsFiniteSet({x \in C : ip[x] = i})
               /\ Cardinality({x \in C : ip[x] = i}) \in Nat
    <3> TAKE i
    <3>1. {x \in C : ip[x] = i} \subseteq slots
      BY <2>3
    <3> QED
      BY <2>0, <3>1, FiniteSlots
  <2>6. ASSUME NEW i \in Ip
        PROVE  Cardinality({x \in C : ip[x] = i}) <= Cardinality({x \in C : ip[x] = ip[v]})
    <3>1. CASE {x \in C : ip[x] = i} = {}
      BY <2>5, <3>1, FS_EmptySet
    <3>2. CASE {x \in C : ip[x] = i} # {}
      <4>1. PICK t \in C : ip[t] = i
        BY <3>2
      <4>2. Outranks(C, v, t)
        BY <2>3
      <4> DEFINE hisHeld == Cardinality({x \in C : ip[x] = ip[v]})
                 held == Cardinality({x \in C : ip[x] = ip[t]})
      <4>3. hisHeld > held \/ hisHeld = held
        BY <4>2 DEF Outranks
      <4>4. hisHeld \in Nat /\ held \in Nat
        BY <2>5
      <4>5. held <= hisHeld
        <5> HIDE DEF held, hisHeld
        <5> QED
          BY <4>3, <4>4
      <4> QED
        BY <4>1, <4>5
    <3> QED
      BY <3>1, <3>2
  <2>7. ASSUME NEW x \in C, ip[x] = ip[v]
        PROVE  arrival[v] <= arrival[x]
    <3>1. Outranks(C, v, x)
      BY <2>3
    <3> QED
      BY <2>5, <2>7, <3>1 DEF Outranks
  <2> QED
    BY <2>3, <2>4, <2>6, <2>7
<1> QED
  BY <1>1, StreamInvariant, PTL DEF Spec, FairEviction

=============================================================================
