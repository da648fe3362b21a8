----------------------------- MODULE EditorProofs -----------------------------
(***************************************************************************)
(* For any buildings, editors and readers, and any changes they ask for: a    *)
(* graph that is out of date has a reason, a building stays within its plan,   *)
(* and the lengths of edges track the places of nodes.                       *)
(* For any number of sockets and rooms, any sizes and any permissions: a     *)
(* socket is in one room, rooms are bounded, colours are shared only once     *)
(* the palette has run out, and every peer knows who is in its room.         *)
(***************************************************************************)
EXTENDS Editor, Collab, FiniteSetTheorems, SequenceTheorems, WellFoundedInduction, TLAPS

(***************************************************************************)
(* Tasks                                                                    *)
(***************************************************************************)

IsTask(t) ==
  {"step", "dirty", "want", "seen", "pairs", "cuts", "left"} \subseteq DOMAIN t

\* The steps a request comes to only when it has written.
AfterWrite == {"diff", "place", "edges", "other", "length", "cut"}

(* A task that goes on keeps what it does not note.                         *)
LEMMA GoesOn ==
  ASSUME NEW t, IsTask(t), NEW step, NEW more, {"step", "want"} \cap DOMAIN more = {},
         NEW k, k = Over(more, [t EXCEPT !.step = step])
  PROVE  /\ IsTask(k) /\ k.step = step /\ k.want = t.want
         /\ k.dirty = IF "dirty" \in DOMAIN more THEN more.dirty ELSE t.dirty
         /\ k.seen = IF "seen" \in DOMAIN more THEN more.seen ELSE t.seen
         /\ k.pairs = IF "pairs" \in DOMAIN more THEN more.pairs ELSE t.pairs
         /\ k.cuts = IF "cuts" \in DOMAIN more THEN more.cuts ELSE t.cuts
         /\ k.left = IF "left" \in DOMAIN more THEN more.left ELSE t.left
<1> DEFINE u == [t EXCEPT !.step = step]
<1>1. DOMAIN u = DOMAIN t /\ u.step = step /\ \A f \in DOMAIN t \ {"step"} : u[f] = t[f]
  BY DEF IsTask
<1> HIDE DEF u
<1>2. DOMAIN k = DOMAIN more \cup DOMAIN u
      /\ \A f \in DOMAIN k : k[f] = IF f \in DOMAIN more THEN more[f] ELSE u[f]
  BY DEF Over, u
<1> QED
  BY <1>1, <1>2 DEF IsTask

(* The notes of a commit.                                                   *)
LEMMA CommitNotes ==
  ASSUME NEW more
  PROVE  LET m == Over([dirty |-> TRUE], more)
         IN /\ DOMAIN m = {"dirty"} \cup DOMAIN more /\ m.dirty = TRUE
            /\ \A f \in DOMAIN more \ {"dirty"} : m[f] = more[f]
BY DEF Over

\* What a request that is to be counted has counted.
Counted(t) ==
  /\ t.want.op = "floor" /\ t.step = "write" => t.seen \in Int /\ t.seen < MaxFloors
  /\ t.want.op = "new" /\ t.step = "write" => t.seen \in Int /\ t.seen < MaxBuildings
  /\ t.want.op = "new" => Len(t.want.names) <= MaxFloors
  /\ t.step = "stack" => t.want.op = "new" /\ t.left \in Seq(ToSet(t.want.names))

\* What one that writes a length has measured.
Measured(t) ==
  /\ t.step \in {"other", "length"} => t.left # <<>> /\ \E S : t.left \in Seq(S)
  /\ t.step = "insert" => "length" \in DOMAIN t.seen

Sound(t) ==
  \/ t = Rest
  \/ /\ IsTask(t) /\ t.step # "rest" /\ t.dirty \in BOOLEAN /\ t.want \in Changes
     /\ t.step \in AfterWrite \/ t.cuts # <<>> => t.dirty
     /\ t.step = "write" /\ t.want.op = "new" => ~t.dirty
     /\ Counted(t) /\ Measured(t)

Steady == edit = [e \in Editor |-> edit[e]] /\ \A e \in Editor : Sound(edit[e])

\* The building's row, and finite sets of others.
Sizes ==
  /\ site = [status |-> site.status, owned |-> site.owned, extra |-> site.extra]
  /\ site.owned \in Int /\ site.extra \in Nat
  /\ IsFiniteSet(DOMAIN floors) /\ IsFiniteSet(DOMAIN edges)

(* To a step at which nothing new is promised.                              *)
LEMMA GoesOnQuietly ==
  ASSUME NEW t, Sound(t), t # Rest, NEW step, NEW more, {"step", "want", "cuts"} \cap DOMAIN more = {},
         step \notin {"rest", "write", "other", "length", "insert", "stack"},
         "dirty" \in DOMAIN more => more.dirty = TRUE,
         step \in AfterWrite => t.dirty \/ "dirty" \in DOMAIN more,
         NEW k, k = Over(more, [t EXCEPT !.step = step])
  PROVE  Sound(k)
<1>1. /\ IsTask(k) /\ k.step = step /\ k.want = t.want
      /\ k.dirty = IF "dirty" \in DOMAIN more THEN more.dirty ELSE t.dirty
      /\ k.cuts = t.cuts
  <2>1. IsTask(t) /\ {"step", "want"} \cap DOMAIN more = {} /\ "cuts" \notin DOMAIN more
    BY DEF Sound
  <2> QED
    BY <2>1, GoesOn
<1>2. k.dirty \in BOOLEAN /\ (step \in AfterWrite \/ k.cuts # <<>> => k.dirty)
  BY <1>1 DEF Sound
<1>3. Counted(k)
  BY <1>1 DEF Sound, Counted
<1>4. Measured(k)
  BY <1>1 DEF Measured
<1> QED
  BY <1>1, <1>2, <1>3, <1>4 DEF Sound

(* One editor's request moves, the others' stay.                            *)
LEMMA OneMoves ==
  ASSUME Steady, NEW e \in Editor, NEW k, edit' = [edit EXCEPT ![e] = k], Sound(k)
  PROVE  Steady' /\ edit'[e] = k /\ \A d \in Editor \ {e} : edit'[d] = edit[d]
<1>1. edit' = [d \in Editor |-> IF d = e THEN k ELSE edit[d]]
  BY DEF Steady
<1>2. ASSUME NEW d \in Editor
      PROVE  Sound(edit'[d])
  BY <1>1 DEF Steady
<1> QED
  BY <1>1, <1>2 DEF Steady

LEMMA Stops ==
  ASSUME Steady, NEW e \in Editor, Stop(e)
  PROVE  Steady'
BY OneMoves DEF Stop, Sound

(* A request commits and goes on to such a step.                            *)
LEMMA Commits ==
  ASSUME Steady, NEW e \in Editor, edit[e].step # "rest", NEW step, NEW more, Commit(e, step, more),
         {"step", "want", "cuts", "dirty"} \cap DOMAIN more = {},
         step \notin {"rest", "write", "other", "length", "insert", "stack"}
  PROVE  Steady'
<1> DEFINE m == Over([dirty |-> TRUE], more)
           k == Over(m, [edit[e] EXCEPT !.step = step])
<1>1. edit' = [edit EXCEPT ![e] = k]
  BY DEF Commit, On
<1>2. DOMAIN m = {"dirty"} \cup DOMAIN more /\ m.dirty = TRUE
  BY CommitNotes
<1>3. edit[e] # Rest /\ Sound(edit[e])
  BY DEF Rest, Steady
<1> HIDE DEF m
<1>4. Sound(k)
  BY <1>2, <1>3, GoesOnQuietly
<1> HIDE DEF k
<1> QED
  BY <1>1, <1>4, OneMoves

(* A request advances to such a step.                                       *)
LEMMA Advances ==
  ASSUME Steady, NEW e \in Editor, edit[e].step # "rest", NEW step, NEW more, On(e, step, more),
         {"step", "want", "cuts", "dirty"} \cap DOMAIN more = {},
         step \notin {"rest", "write", "other", "length", "insert", "stack"},
         step \in AfterWrite => edit[e].dirty
  PROVE  Steady'
<1> DEFINE k == Over(more, [edit[e] EXCEPT !.step = step])
<1>1. edit' = [edit EXCEPT ![e] = k]
  BY DEF On
<1>2. edit[e] # Rest /\ Sound(edit[e])
  BY DEF Rest, Steady
<1>3. Sound(k)
  BY <1>2, GoesOnQuietly
<1> HIDE DEF k
<1> QED
  BY <1>1, <1>3, OneMoves

(* A request the routes do not refuse.                                      *)
LEMMA Received ==
  ASSUME Sizes, NEW c \in Changes, ~Refuses(c), NEW t,
         t = [step |-> FirstStep(c), dirty |-> FALSE, want |-> c, seen |-> Seen(c),
              pairs |-> IF c.op \in {"connect", "link", "join"} THEN <<c.pair>> ELSE <<>>,
              cuts |-> <<>>, left |-> <<>>]
  PROVE  Sound(t)
<1>1. FirstStep(c) \in {"plan", "take", "floorFor", "write"}
  BY DEF FirstStep
<1>2. c.op = "floor" => Seen(c) \in Int /\ Seen(c) < MaxFloors
  <2>1. Cardinality(DOMAIN floors) \in Int /\ MaxFloors \in Int
    BY FS_CardinalityType, EditorLimits DEF Sizes
  <2>2. c.op = "floor" => ~Full(Cardinality(DOMAIN floors))
    BY DEF Refuses, RefusesFloor
  <2>3. c.op = "floor" => Seen(c) = Cardinality(DOMAIN floors)
    BY DEF Seen
  <2> QED
    BY <2>1, <2>2, <2>3 DEF Full
<1>3. c.op = "new" => Seen(c) \in Int /\ Seen(c) < MaxBuildings /\ Len(c.names) <= MaxFloors
  <2>1. c.op = "new" => ~(site.owned >= MaxBuildings) /\ ~(Len(c.names) > MaxFloors)
    BY DEF Refuses, RefusesBuilding
  <2>2. c.op = "new" => Seen(c) = site.owned
    BY DEF Seen
  <2>3. c.op = "new" => Len(c.names) \in Nat
    BY EditorChanges, LenProperties
  <2> QED
    BY <2>1, <2>2, <2>3, EditorLimits DEF Sizes
<1>4. t.step = FirstStep(c) /\ t.want = c /\ t.seen = Seen(c) /\ t.cuts = <<>> /\ t.dirty = FALSE /\ IsTask(t)
  BY DEF IsTask
<1>5. Counted(t)
  BY <1>1, <1>2, <1>3, <1>4 DEF Counted
<1>6. Measured(t)
  BY <1>1, <1>4 DEF Measured
<1> QED
  BY <1>1, <1>4, <1>5, <1>6 DEF Sound, AfterWrite

(* The sequence of a finite set.                                            *)
LEMMA SetToSeqSpec ==
  ASSUME NEW S, IsFiniteSet(S)
  PROVE  /\ SetToSeq(S) \in Seq(S)
         /\ \A x \in S : \E i \in 1 .. Len(SetToSeq(S)) : SetToSeq(S)[i] = x
<1> DEFINE n == Cardinality(S)
           f == SetToSeq(S)
<1>1. n \in Nat /\ ExistsBijection(1 .. n, S)
  BY FS_CardinalityType
<1>2. PICK g \in Bijection(1 .. n, S) : TRUE
  BY <1>1 DEF ExistsBijection
<1>3. g \in [1 .. n -> S] /\ IsInjective(g)
  BY <1>2 DEF Bijection, Injection, IsInjective
<1>4. f \in [1 .. n -> S] /\ IsInjective(f)
  BY <1>3 DEF SetToSeq
<1>5. f \in Injection(1 .. n, S)
  BY <1>4 DEF Injection, IsInjective
<1>6. Cardinality(1 .. n) = n
  BY <1>1, FS_Interval
<1>7. f \in Surjection(1 .. n, S)
  BY <1>5, <1>6, FS_Injection
<1>8. f \in Seq(S) /\ Len(f) = n
  BY <1>1, <1>4
<1> QED
  BY <1>7, <1>8 DEF Surjection

(* The steps after which an edge of a plan, or a cut, comes next.           *)
LEMMA PairNext ==
  ASSUME NEW t, Sound(t), t # Rest
  PROVE  NextPair(t) \in {"take", "cut", "invalidate"} /\ (NextPair(t) = "cut" => t.dirty)
BY DEF NextPair, Sound

LEMMA PassesOver ==
  ASSUME Steady, NEW e \in Editor, edit[e].step # "rest", PassOver(e)
  PROVE  Steady'
<1>1. CASE Stop(e)
  BY <1>1, Stops
<1>2. CASE ~Stop(e)
  <2>1. On(e, NextPair(edit[e]), [pairs |-> Tail(edit[e].pairs)])
    BY <1>2 DEF PassOver, Advance
  <2>2. NextPair(edit[e]) \in {"take", "cut", "invalidate"} /\ (NextPair(edit[e]) = "cut" => edit[e].dirty)
    BY PairNext DEF Steady, Rest
  <2>3. NextPair(edit[e]) \in AfterWrite => edit[e].dirty
    BY <2>2 DEF AfterWrite
  <2> QED
    BY <2>1, <2>2, <2>3, Advances
<1> QED
  BY <1>1, <1>2

(* Saving a node, whichever route does.                                     *)
LEMMA NodeSaved ==
  ASSUME Steady, NEW e \in Editor, edit[e].step # "rest", UpdateNode(e)
  PROVE  Steady'
<1> DEFINE c == edit[e].want
           step == IF c.place # <<>> THEN "place" ELSE AfterMove(c)
<1>1. CASE Stop(e)
  BY <1>1, Stops
<1>2. CASE ~Stop(e)
  <2>1. Commit(e, step, <<>>)
    BY <1>2 DEF UpdateNode
  <2>2. step \in {"place", "diff", "invalidate"}
    BY DEF AfterMove
  <2> HIDE DEF step
  <2> QED
    BY <2>1, <2>2, Commits
<1> QED
  BY <1>1, <1>2

(* What becomes of a request that goes on.                                  *)
LEMMA OnTask ==
  ASSUME Steady, NEW e \in Editor, edit[e].step # "rest", NEW step, NEW more, On(e, step, more),
         {"step", "want"} \cap DOMAIN more = {}
  PROVE  \E k : /\ edit' = [edit EXCEPT ![e] = k]
                /\ IsTask(k) /\ k.step = step /\ k.want = edit[e].want
                /\ "dirty" \notin DOMAIN more => k.dirty = edit[e].dirty
                /\ "dirty" \in DOMAIN more => k.dirty = more.dirty
                /\ "seen" \notin DOMAIN more => k.seen = edit[e].seen
                /\ "seen" \in DOMAIN more => k.seen = more.seen
                /\ "cuts" \notin DOMAIN more => k.cuts = edit[e].cuts
                /\ "left" \notin DOMAIN more => k.left = edit[e].left
                /\ "left" \in DOMAIN more => k.left = more.left
<1> PICK t : t = edit[e]
  OBVIOUS
<1> PICK k : k = Over(more, [t EXCEPT !.step = step])
  OBVIOUS
<1>1. IsTask(t)
  BY DEF Steady, Sound, Rest
<1>2. edit' = [edit EXCEPT ![e] = k]
  BY DEF On
<1>3. IsTask(k) /\ k.step = step /\ k.want = edit[e].want
  BY <1>1, GoesOn
<1>4. "dirty" \notin DOMAIN more => k.dirty = edit[e].dirty
  BY <1>1, GoesOn
<1>5. "dirty" \in DOMAIN more => k.dirty = more.dirty
  BY <1>1, GoesOn
<1>6. /\ "seen" \notin DOMAIN more => k.seen = edit[e].seen
      /\ "seen" \in DOMAIN more => k.seen = more.seen
  BY <1>1, GoesOn
<1>7. "cuts" \notin DOMAIN more => k.cuts = edit[e].cuts
  BY <1>1, GoesOn
<1>8. /\ "left" \notin DOMAIN more => k.left = edit[e].left
      /\ "left" \in DOMAIN more => k.left = more.left
  BY <1>1, GoesOn
<1> QED
  BY <1>2, <1>3, <1>4, <1>5, <1>6, <1>7, <1>8

(* To the next edge of a node, or to what comes after.                      *)
LEMMA EdgeNext ==
  ASSUME Steady, NEW e \in Editor, edit[e].step \in AfterWrite, NEW left, left # <<>> => \E S : left \in Seq(S),
         NextEdge(e, left)
  PROVE  Steady'
<1> DEFINE t == edit[e]
           step == IF left = <<>> THEN AfterMove(t.want) ELSE "other"
<1>1. On(e, step, [left |-> left])
  BY DEF NextEdge
<1>2. t # Rest /\ Sound(t) /\ IsTask(t) /\ t.dirty /\ t.step # "rest"
  BY DEF Rest, AfterWrite, Steady, Sound
<1>3. CASE left = <<>>
  <2>1. step \in {"diff", "invalidate"}
    BY <1>3 DEF AfterMove
  <2> HIDE DEF step
  <2> QED
    BY <1>1, <1>2, <2>1, Advances DEF AfterWrite
<1>4. CASE left # <<>>
  <2> PICK more : more = [left |-> left]
    OBVIOUS
  <2>0. /\ {"step", "want"} \cap DOMAIN more = {} /\ "dirty" \notin DOMAIN more /\ "cuts" \notin DOMAIN more
        /\ "left" \in DOMAIN more /\ more.left = left
    OBVIOUS
  <2>1. On(e, "other", more)
    BY <1>1, <1>4
  <2>2. PICK k : /\ edit' = [edit EXCEPT ![e] = k]
                 /\ IsTask(k) /\ k.step = "other" /\ k.want = t.want /\ k.dirty = t.dirty
                 /\ k.cuts = t.cuts /\ k.left = left
    <3>1. edit[e].step # "rest"
      BY <1>2
    <3>2. PICK k : /\ edit' = [edit EXCEPT ![e] = k]
                   /\ IsTask(k) /\ k.step = "other" /\ k.want = edit[e].want
                   /\ "dirty" \notin DOMAIN more => k.dirty = edit[e].dirty
                   /\ "cuts" \notin DOMAIN more => k.cuts = edit[e].cuts
                   /\ "left" \in DOMAIN more => k.left = more.left
      BY <2>1, <2>0, <3>1, OnTask
    <3> QED
      BY <2>0, <3>2
  <2>3. Counted(k)
    BY <1>2, <2>2 DEF Counted, Sound
  <2>4. Sound(k)
    BY <1>2, <1>4, <2>2, <2>3 DEF Sound, Measured
  <2> QED
    BY <2>2, <2>4, OneMoves
<1> QED
  BY <1>3, <1>4

(* A request under way.                                                     *)
LEMMA UnderWay ==
  ASSUME Steady, NEW e \in Editor, edit[e].step # "rest"
  PROVE  Sound(edit[e]) /\ edit[e] # Rest
BY DEF Steady, Rest

LEMMA TasksStep ==
  ASSUME Steady, Sizes, [MapNext]_mapVars
  PROVE  Steady'
<1>1. ASSUME NEW e \in Editor, Receive(e)
      PROVE  Steady'
  <2>1. PICK c \in Changes :
          edit' = [edit EXCEPT ![e] =
            IF Refuses(c) THEN Rest
            ELSE [step |-> FirstStep(c), dirty |-> FALSE, want |-> c, seen |-> Seen(c),
                  pairs |-> IF c.op \in {"connect", "link", "join"} THEN <<c.pair>> ELSE <<>>,
                  cuts |-> <<>>, left |-> <<>>]]
    BY <1>1 DEF Receive
  <2>2. CASE Refuses(c)
    BY <2>1, <2>2, OneMoves DEF Sound
  <2>3. CASE ~Refuses(c)
    <3> PICK t : t = [step |-> FirstStep(c), dirty |-> FALSE, want |-> c, seen |-> Seen(c),
                  pairs |-> IF c.op \in {"connect", "link", "join"} THEN <<c.pair>> ELSE <<>>,
                  cuts |-> <<>>, left |-> <<>>]
      OBVIOUS
    <3>1. Sound(t)
      BY <2>3, Received
    <3>2. edit' = [edit EXCEPT ![e] = t]
      BY <2>1, <2>3
    <3> QED
      BY <3>1, <3>2, OneMoves
  <2> QED
    BY <2>2, <2>3
<1>2. ASSUME NEW e \in Editor, Abandon(e)
      PROVE  Steady'
  BY <1>2, Stops DEF Abandon
<1>3. ASSUME NEW e \in Editor, Invalidate(e)
      PROVE  Steady'
  BY <1>3, OneMoves DEF Invalidate, Sound
<1>4. ASSUME NEW e \in Editor, CreateBuilding(e)
      PROVE  Steady'
  <2>1. CASE edit' = [edit EXCEPT ![e] = Rest]
    BY <2>1, OneMoves DEF Sound
  <2>2. CASE On(e, "stack", [left |-> edit[e].want.names])
    <3> PICK more : more = [left |-> edit[e].want.names]
      OBVIOUS
    <3>1. {"step", "want"} \cap DOMAIN more = {} /\ "dirty" \notin DOMAIN more /\ "cuts" \notin DOMAIN more
          /\ "left" \in DOMAIN more /\ more.left = edit[e].want.names
      OBVIOUS
    <3>2. edit[e].step # "rest" /\ edit[e].want.op = "new" /\ Sound(edit[e]) /\ edit[e] # Rest
      BY <1>4 DEF CreateBuilding, Doing, Steady, Rest
    <3>3. PICK k : /\ edit' = [edit EXCEPT ![e] = k]
                   /\ IsTask(k) /\ k.step = "stack" /\ k.want = edit[e].want
                   /\ "dirty" \notin DOMAIN more => k.dirty = edit[e].dirty
                   /\ "cuts" \notin DOMAIN more => k.cuts = edit[e].cuts
                   /\ "left" \in DOMAIN more => k.left = more.left
      BY <2>2, <3>1, <3>2, OnTask
    <3>4. k.dirty = edit[e].dirty /\ k.cuts = edit[e].cuts /\ k.left = k.want.names
      BY <3>1, <3>3
    <3>5. k.want.names \in Seq(ToSet(k.want.names))
      BY <3>2, <3>3, EditorChanges DEF Sound
    <3>6. Counted(k)
      BY <3>2, <3>3, <3>4, <3>5 DEF Counted, Sound
    <3>7. Sound(k)
      BY <3>2, <3>3, <3>4, <3>6 DEF Sound, Measured, AfterWrite
    <3> QED
      BY <3>3, <3>7, OneMoves
  <2> QED
    BY <1>4, <2>1, <2>2, Stops DEF CreateBuilding, Found
<1>5. ASSUME NEW e \in Editor, StackFloor(e)
      PROVE  Steady'
  <2>1. CASE Stop(e)
    BY <2>1, Stops
  <2>2. CASE ~Stop(e)
    <3> PICK more : more = [left |-> Tail(edit[e].left)]
      OBVIOUS
    <3>1. {"step", "want", "dirty", "cuts"} \cap DOMAIN more = {} /\ "left" \in DOMAIN more
          /\ more.left = Tail(edit[e].left)
      OBVIOUS
    <3>0. edit[e].step = "stack" /\ edit[e].left # <<>> /\ Commit(e, "stack", more)
      BY <1>5, <2>2 DEF StackFloor
    <3>2. edit[e].step # "rest" /\ Sound(edit[e]) /\ edit[e] # Rest
      BY <3>0, UnderWay
    <3>6. PICK m : m = Over([dirty |-> TRUE], more)
      OBVIOUS
    <3>7. On(e, "stack", m)
      BY <3>0, <3>6 DEF Commit
    <3>8. DOMAIN m = {"dirty"} \cup DOMAIN more /\ m.dirty = TRUE
          /\ \A f \in DOMAIN more \ {"dirty"} : m[f] = more[f]
      BY <3>6, CommitNotes
    <3>9. {"step", "want"} \cap DOMAIN m = {} /\ "dirty" \in DOMAIN m /\ "cuts" \notin DOMAIN m /\ "left" \in DOMAIN m /\ m.left = more.left
      BY <3>1, <3>8
    <3>3. PICK k : /\ edit' = [edit EXCEPT ![e] = k]
                   /\ IsTask(k) /\ k.step = "stack" /\ k.want = edit[e].want
                   /\ "dirty" \in DOMAIN m => k.dirty = m.dirty
                   /\ "cuts" \notin DOMAIN m => k.cuts = edit[e].cuts
                   /\ "left" \in DOMAIN m => k.left = m.left
      <4>1. edit[e].step # "rest"
        BY <3>0
      <4>2. {"step", "want"} \cap DOMAIN m = {}
        BY <3>9
      <4> QED
        BY <3>7, <4>1, <4>2, OnTask
    <3>4. k.left \in Seq(ToSet(k.want.names))
      <4>1. edit[e].left \in Seq(ToSet(edit[e].want.names)) /\ edit[e].left # <<>>
        BY <3>0, <3>2 DEF Sound, Counted
      <4> QED
        <5>1. Tail(edit[e].left) \in Seq(ToSet(edit[e].want.names))
          BY <4>1, HeadTailProperties
        <5>2. k.left = Tail(edit[e].left) /\ k.want = edit[e].want
          BY <3>1, <3>3, <3>9
        <5> QED
          BY <5>1, <5>2
    <3>5. Counted(k)
      BY <3>0, <3>2, <3>3, <3>4 DEF Counted, Sound
    <3>10. Sound(k)
      BY <3>2, <3>3, <3>5, <3>8, <3>9 DEF Sound, Measured
    <3> QED
      BY <3>3, <3>10, OneMoves
  <2> QED
    BY <2>1, <2>2
<1>6. ASSUME NEW e \in Editor,
             DeleteBuilding(e) \/ SaveProfile(e) \/ CreateFloor(e) \/ PatchFloor(e) \/ DeleteFloor(e) \/ DeleteFloorAt(e)
      PROVE  Steady'
  <2>1. edit[e].step # "rest" /\ (Stop(e) \/ Commit(e, "invalidate", <<>>))
    BY <1>6 DEF DeleteBuilding, SaveProfile, CreateFloor, PatchFloor, DeleteFloor, DeleteFloorAt, Doing
  <2> QED
    BY <2>1, Stops, Commits DEF AfterWrite
<1>6a. ASSUME NEW e \in Editor, EraseBuilding(e)
       PROVE  Steady'
  <2>1. edit[e].step # "rest" /\ (Stop(e) \/ Commit(e, "end", <<>>))
    BY <1>6a DEF EraseBuilding, Doing
  <2> QED
    BY <2>1, Stops, Commits DEF AfterWrite
<1>7. ASSUME NEW e \in Editor, DropUnnamed(e)
      PROVE  Steady'
  <2>1. edit[e].step # "rest" /\ Commit(e, "park", <<>>)
    BY <1>7 DEF DropUnnamed, Doing
  <2> QED
    BY <2>1, Commits
<1>8. ASSUME NEW e \in Editor, ParkFloors(e)
      PROVE  Steady'
  <2>1. edit[e].step # "rest" /\ (Stop(e) \/ \E left : Commit(e, "fill", [left |-> left]))
    BY <1>8 DEF ParkFloors, Doing
  <2>2. CASE \E left : Commit(e, "fill", [left |-> left])
    <3>1. PICK left : Commit(e, "fill", [left |-> left])
      BY <2>2
    <3>2. {"step", "want", "cuts", "dirty"} \cap DOMAIN [left |-> left] = {}
      OBVIOUS
    <3> QED
      BY <2>1, <3>1, <3>2, Commits
  <2> QED
    BY <2>1, <2>2, Stops
<1>9. ASSUME NEW e \in Editor, FillFloor(e)
      PROVE  Steady'
  <2>1. edit[e].step # "rest"
        /\ (\/ Stop(e) \/ \E left : On(e, "settle", [left |-> left])
            \/ \E left, seen : Commit(e, "fill", [left |-> left, seen |-> seen]))
    BY <1>9 DEF FillFloor, Doing, Advance
  <2>2. CASE \E left : On(e, "settle", [left |-> left])
    <3>1. PICK left : On(e, "settle", [left |-> left])
      BY <2>2
    <3>2. {"step", "want", "cuts", "dirty"} \cap DOMAIN [left |-> left] = {}
      OBVIOUS
    <3> QED
      BY <2>1, <3>1, <3>2, Advances DEF AfterWrite
  <2>3. CASE \E left, seen : Commit(e, "fill", [left |-> left, seen |-> seen])
    <3>1. PICK left, seen : Commit(e, "fill", [left |-> left, seen |-> seen])
      BY <2>3
    <3>2. {"step", "want", "cuts", "dirty"} \cap DOMAIN [left |-> left, seen |-> seen] = {}
      OBVIOUS
    <3> QED
      BY <2>1, <3>1, <3>2, Commits
  <2> QED
    BY <2>1, <2>2, <2>3, Stops
<1>10. ASSUME NEW e \in Editor, SettleFloor(e)
       PROVE  Steady'
  <2>1. edit[e].step # "rest"
        /\ (\/ Stop(e) \/ On(e, "invalidate", <<>>)
            \/ \E left : Commit(e, "settle", [left |-> left]))
    BY <1>10 DEF SettleFloor, Doing, Advance
  <2>2. CASE On(e, "invalidate", <<>>)
    BY <2>1, <2>2, Advances DEF AfterWrite
  <2>3. CASE \E left : Commit(e, "settle", [left |-> left])
    <3>1. PICK left : Commit(e, "settle", [left |-> left])
      BY <2>3
    <3>2. {"step", "want", "cuts", "dirty"} \cap DOMAIN [left |-> left] = {}
      OBVIOUS
    <3> QED
      BY <2>1, <3>1, <3>2, Commits
  <2> QED
    BY <2>1, <2>2, <2>3, Stops
<1>11. ASSUME NEW e \in Editor, CreateNode(e) \/ DeleteNode(e) \/ SavePoi(e) \/ PatchEdge(e) \/ DeleteEdge(e)
       PROVE  Steady'
  <2>1. edit[e].step # "rest" /\ (Stop(e) \/ Commit(e, "invalidate", <<>>))
    BY <1>11 DEF CreateNode, DeleteNode, SavePoi, PatchEdge, DeleteEdge, Doing
  <2> QED
    BY <2>1, Stops, Commits
<1>12. ASSUME NEW e \in Editor, RemovePoi(e)
       PROVE  Steady'
  <2>1. edit[e].step # "rest" /\ (Stop(e) \/ Commit(e, "invalidate", <<>>) \/ On(e, "invalidate", <<>>))
    BY <1>12 DEF RemovePoi, Doing, Advance
  <2> QED
    BY <2>1, Stops, Commits, Advances DEF AfterWrite
<1>13. ASSUME NEW e \in Editor, PatchNode(e) \/ PutNode(e)
       PROVE  Steady'
  <2>1. edit[e].step # "rest" /\ UpdateNode(e)
    BY <1>13 DEF PatchNode, PutNode, Doing
  <2> QED
    BY <2>1, NodeSaved
<1>14. ASSUME NEW e \in Editor, FloorFor(e)
       PROVE  Steady'
  <2>1. CASE Stop(e)
    BY <2>1, Stops
  <2>2. CASE ~Stop(e)
    <3> PICK more : more = [seen |-> {last'}]
      OBVIOUS
    <3>1. {"step", "want", "dirty", "cuts"} \cap DOMAIN more = {}
      OBVIOUS
    <3>0. edit[e].step # "rest" /\ edit[e].want.op = "post" /\ Commit(e, "write", more)
      BY <1>14, <2>2 DEF FloorFor, Doing
    <3>2. Sound(edit[e]) /\ edit[e] # Rest
      BY <3>0, UnderWay
    <3>6. PICK m : m = Over([dirty |-> TRUE], more)
      OBVIOUS
    <3>7. On(e, "write", m)
      BY <3>0, <3>6 DEF Commit
    <3>8. DOMAIN m = {"dirty"} \cup DOMAIN more /\ m.dirty = TRUE
          /\ \A f \in DOMAIN more \ {"dirty"} : m[f] = more[f]
      BY <3>6, CommitNotes
    <3>9. {"step", "want"} \cap DOMAIN m = {} /\ "dirty" \in DOMAIN m /\ "cuts" \notin DOMAIN m
      BY <3>1, <3>8
    <3>3. PICK k : /\ edit' = [edit EXCEPT ![e] = k]
                   /\ IsTask(k) /\ k.step = "write" /\ k.want = edit[e].want
                   /\ "dirty" \in DOMAIN m => k.dirty = m.dirty
                   /\ "cuts" \notin DOMAIN m => k.cuts = edit[e].cuts
      BY <3>0, <3>2, <3>7, <3>9, OnTask
    <3>4. Sound(k)
      BY <3>0, <3>2, <3>3, <3>8, <3>9 DEF Sound, Measured, Counted, AfterWrite
    <3> QED
      BY <3>3, <3>4, OneMoves
  <2> QED
    BY <2>1, <2>2
<1>15. ASSUME NEW e \in Editor, PostNode(e)
       PROVE  Steady'
  <2>1. edit[e].step # "rest"
        /\ (Stop(e) \/ \E pairs, step : step \in {"invalidate", "take"} /\ Commit(e, step, [pairs |-> pairs]))
    BY <1>15 DEF PostNode, Doing
  <2>2. CASE \E pairs, step : step \in {"invalidate", "take"} /\ Commit(e, step, [pairs |-> pairs])
    <3>1. PICK pairs, step : step \in {"invalidate", "take"} /\ Commit(e, step, [pairs |-> pairs])
      BY <2>2
    <3>2. {"step", "want", "cuts", "dirty"} \cap DOMAIN [pairs |-> pairs] = {}
      OBVIOUS
    <3> QED
      BY <2>1, <3>1, <3>2, Commits
  <2> QED
    BY <2>1, <2>2, Stops
<1>16. ASSUME NEW e \in Editor, ReadPlace(e)
       PROVE  Steady'
  <2>1. /\ edit[e].step = "place" /\ edit[e].step # "rest"
        /\ \/ \E seen : On(e, "edges", [seen |-> seen])
           \/ On(e, AfterMove(edit[e].want), <<>>)
    BY <1>16 DEF ReadPlace, Doing, Advance
  <2>2. edit[e].dirty
    BY <2>1 DEF Steady, Sound, AfterWrite, Rest
  <2>3. CASE \E seen : On(e, "edges", [seen |-> seen])
    <3>1. PICK seen : On(e, "edges", [seen |-> seen])
      BY <2>3
    <3>2. {"step", "want", "cuts", "dirty"} \cap DOMAIN [seen |-> seen] = {}
      OBVIOUS
    <3> QED
      BY <2>1, <2>2, <3>1, <3>2, Advances
  <2>4. CASE On(e, AfterMove(edit[e].want), <<>>)
    <3>1. AfterMove(edit[e].want) \in {"diff", "invalidate"}
      BY DEF AfterMove
    <3> QED
      BY <2>1, <2>2, <2>4, <3>1, Advances
  <2> QED
    BY <2>1, <2>3, <2>4
<1>17. ASSUME NEW e \in Editor, ReadEdges(e)
       PROVE  Steady'
  <2> DEFINE S == {[pair |-> p, edge |-> edges[p]] : p \in Touched(edit[e].want.node)}
  <2>1. edit[e].step \in AfterWrite /\ NextEdge(e, SetToSeq(S))
    BY <1>17 DEF ReadEdges, Doing, AfterWrite
  <2>2. IsFiniteSet(S)
    <3>1. Touched(edit[e].want.node) \subseteq DOMAIN edges
      BY DEF Touched, Touching
    <3>2. IsFiniteSet(Touched(edit[e].want.node))
      BY <3>1, FS_Subset DEF Sizes
    <3> DEFINE T == Touched(edit[e].want.node)
               f == [p \in T |-> [pair |-> p, edge |-> edges[p]]]
    <3> HIDE DEF T
    <3>3. f \in Surjection(T, S)
      BY DEF Surjection, T
    <3> QED
      BY <3>2, <3>3, FS_Surjection DEF T
  <2>3. SetToSeq(S) \in Seq(S)
    BY <2>2, SetToSeqSpec
  <2> HIDE DEF S
  <2> QED
    BY <2>1, <2>3, EdgeNext
<1>18. ASSUME NEW e \in Editor, ReadOther(e)
       PROVE  Steady'
  <2>0. edit[e].step = "other" /\ edit[e].step # "rest"
        /\ (NextEdge(e, Tail(edit[e].left)) \/ \E length : On(e, "length", [length |-> length]))
    BY <1>18 DEF ReadOther, Doing
  <2>1. edit[e].step = "other" /\ edit[e].step # "rest" /\ Sound(edit[e]) /\ edit[e] # Rest
    BY <2>0, UnderWay
  <2>2. edit[e].left # <<>> /\ \E S : edit[e].left \in Seq(S)
    BY <2>1 DEF Sound, Measured
  <2>3. CASE NextEdge(e, Tail(edit[e].left))
    <3>1. \E S : Tail(edit[e].left) \in Seq(S)
      BY <2>2, HeadTailProperties
    <3> QED
      BY <2>1, <2>3, <3>1, EdgeNext DEF AfterWrite
  <2>4. CASE \E length : On(e, "length", [length |-> length])
    <3>1. PICK length : On(e, "length", [length |-> length])
      BY <2>4
    <3> PICK more : more = [length |-> length]
      OBVIOUS
    <3>2. {"step", "want"} \cap DOMAIN more = {} /\ "dirty" \notin DOMAIN more /\ "cuts" \notin DOMAIN more
          /\ "left" \notin DOMAIN more
      OBVIOUS
    <3>3. PICK k : /\ edit' = [edit EXCEPT ![e] = k]
                   /\ IsTask(k) /\ k.step = "length" /\ k.want = edit[e].want
                   /\ "dirty" \notin DOMAIN more => k.dirty = edit[e].dirty
                   /\ "cuts" \notin DOMAIN more => k.cuts = edit[e].cuts
                   /\ "left" \notin DOMAIN more => k.left = edit[e].left
      BY <2>1, <3>1, <3>2, OnTask
    <3>4. k.dirty = edit[e].dirty /\ k.cuts = edit[e].cuts /\ k.left = edit[e].left
      BY <3>2, <3>3
    <3>5. Counted(k)
      BY <2>1, <3>3 DEF Counted, Sound
    <3>6. Measured(k)
      BY <2>2, <3>3, <3>4 DEF Measured
    <3>7. edit[e].dirty
      BY <2>1 DEF Sound, AfterWrite
    <3>8. Sound(k)
      BY <2>1, <3>3, <3>4, <3>5, <3>6, <3>7 DEF Sound
    <3> QED
      BY <3>3, <3>8, OneMoves
  <2> QED
    BY <2>0, <2>3, <2>4
<1>19. ASSUME NEW e \in Editor, SaveLength(e)
       PROVE  Steady'
  <2>1. edit[e].step = "length" /\ edit[e].step # "rest" /\ Sound(edit[e]) /\ edit[e] # Rest
        /\ (NextEdge(e, Tail(edit[e].left)) \/ Stop(e))
    BY <1>19 DEF SaveLength, Doing, Steady, Rest
  <2>2. edit[e].left # <<>> /\ \E S : edit[e].left \in Seq(S)
    BY <2>1 DEF Sound, Measured
  <2>3. \E S : Tail(edit[e].left) \in Seq(S)
    BY <2>2, HeadTailProperties
  <2> QED
    BY <2>1, <2>3, EdgeNext, Stops DEF AfterWrite
<1>20. ASSUME NEW e \in Editor, Plan(e)
       PROVE  Steady'
  <2>1. edit[e].step # "rest"
        /\ \E pairs, step : step \in {"invalidate", "take"} /\ On(e, step, [pairs |-> pairs])
    BY <1>20 DEF Plan, Doing, Advance
  <2>2. PICK pairs, step : On(e, step, [pairs |-> pairs])
    BY <2>1
  <2>3. {"step", "want", "cuts", "dirty"} \cap DOMAIN [pairs |-> pairs] = {}
    OBVIOUS
  <2> QED
    BY <2>1, <2>2, <2>3, Advances DEF AfterWrite
<1>21. ASSUME NEW e \in Editor, TakeEnds(e)
       PROVE  Steady'
  <2>1. edit[e].step = "take" /\ edit[e].step # "rest" /\ Sound(edit[e]) /\ edit[e] # Rest
        /\ (PassOver(e) \/ \E a, b, transit, weight : On(e, "insert", [seen |-> Geometry(a, b, transit, weight)]))
    BY <1>21 DEF TakeEnds, Steady, Rest, Advance
  <2>2. CASE PassOver(e)
    BY <2>1, <2>2, PassesOver
  <2>3. CASE \E a, b, transit, weight : On(e, "insert", [seen |-> Geometry(a, b, transit, weight)])
    <3>1. PICK a, b, transit, weight : On(e, "insert", [seen |-> Geometry(a, b, transit, weight)])
      BY <2>3
    <3> PICK more : more = [seen |-> Geometry(a, b, transit, weight)]
      OBVIOUS
    <3>2. {"step", "want"} \cap DOMAIN more = {} /\ "dirty" \notin DOMAIN more /\ "cuts" \notin DOMAIN more
          /\ "seen" \in DOMAIN more /\ more.seen = Geometry(a, b, transit, weight)
      OBVIOUS
    <3>3. PICK k : /\ edit' = [edit EXCEPT ![e] = k]
                   /\ IsTask(k) /\ k.step = "insert" /\ k.want = edit[e].want
                   /\ "dirty" \notin DOMAIN more => k.dirty = edit[e].dirty
                   /\ "seen" \in DOMAIN more => k.seen = more.seen
                   /\ "cuts" \notin DOMAIN more => k.cuts = edit[e].cuts
      BY <2>1, <3>1, <3>2, OnTask
    <3>4. k.dirty = edit[e].dirty /\ k.cuts = edit[e].cuts /\ k.seen = Geometry(a, b, transit, weight)
      BY <3>2, <3>3
    <3>5. Counted(k)
      BY <2>1, <3>3 DEF Counted, Sound
    <3>6. Measured(k)
      BY <3>3, <3>4 DEF Measured, Geometry
    <3>7. Sound(k)
      BY <2>1, <3>3, <3>4, <3>5, <3>6 DEF Sound, AfterWrite
    <3> QED
      BY <3>3, <3>7, OneMoves
  <2> QED
    BY <2>1, <2>2, <2>3
<1>22. ASSUME NEW e \in Editor, InsertEdge(e)
       PROVE  Steady'
  <2>0. edit[e].step # "rest" /\ (PassOver(e) \/ \E pairs : Commit(e, NextPair(edit[e]), [pairs |-> pairs]))
    BY <1>22 DEF InsertEdge
  <2>1. edit[e].step # "rest" /\ Sound(edit[e]) /\ edit[e] # Rest
    BY <2>0, UnderWay
  <2>2. CASE PassOver(e)
    BY <2>1, <2>2, PassesOver
  <2>3. CASE \E pairs : Commit(e, NextPair(edit[e]), [pairs |-> pairs])
    <3>1. PICK pairs : Commit(e, NextPair(edit[e]), [pairs |-> pairs])
      BY <2>3
    <3>2. {"step", "want", "cuts", "dirty"} \cap DOMAIN [pairs |-> pairs] = {}
      OBVIOUS
    <3>3. NextPair(edit[e]) \in {"take", "cut", "invalidate"}
      BY <2>1, PairNext
    <3> QED
      BY <2>1, <3>1, <3>2, <3>3, Commits
  <2> QED
    BY <2>0, <2>2, <2>3
<1>23. ASSUME NEW e \in Editor, Diff(e)
       PROVE  Steady'
  <2>1. edit[e].step = "diff" /\ edit[e].step # "rest" /\ Sound(edit[e]) /\ edit[e] # Rest
    BY <1>23 DEF Diff, Doing, Steady, Rest
  <2>2. CASE Stop(e)
    BY <2>2, Stops
  <2>3. CASE ~Stop(e)
    <3>1. PICK pairs, cuts, step : On(e, step, [pairs |-> pairs, cuts |-> cuts]) /\ step \in {"take", "cut", "invalidate"}
      BY <1>23, <2>3 DEF Diff, Advance, NextPair
    <3> PICK more : more = [pairs |-> pairs, cuts |-> cuts]
      OBVIOUS
    <3>2. {"step", "want"} \cap DOMAIN more = {} /\ "dirty" \notin DOMAIN more
      OBVIOUS
    <3>3. PICK k : /\ edit' = [edit EXCEPT ![e] = k]
                   /\ IsTask(k) /\ k.step = step /\ k.want = edit[e].want
                   /\ "dirty" \notin DOMAIN more => k.dirty = edit[e].dirty
      BY <2>1, <3>1, <3>2, OnTask
    <3>4. k.dirty = edit[e].dirty /\ edit[e].dirty
      BY <2>1, <3>2, <3>3 DEF Sound, AfterWrite
    <3>5. Counted(k)
      BY <2>1, <3>1, <3>3 DEF Counted, Sound
    <3>6. Sound(k)
      BY <2>1, <3>1, <3>3, <3>4, <3>5 DEF Sound, Measured
    <3> QED
      BY <3>3, <3>6, OneMoves
  <2> QED
    BY <2>2, <2>3
<1>24. ASSUME NEW e \in Editor, CutLink(e)
       PROVE  Steady'
  <2>1. edit[e].step = "cut" /\ edit[e].step # "rest" /\ Sound(edit[e]) /\ edit[e] # Rest
    BY <1>24 DEF CutLink, Steady, Rest
  <2>2. PICK cuts, step : On(e, step, [cuts |-> cuts]) /\ step \in {"cut", "invalidate"}
    BY <1>24 DEF CutLink
  <2> PICK more : more = [cuts |-> cuts]
    OBVIOUS
  <2>3. {"step", "want"} \cap DOMAIN more = {} /\ "dirty" \notin DOMAIN more
    OBVIOUS
  <2>4. PICK k : /\ edit' = [edit EXCEPT ![e] = k]
                 /\ IsTask(k) /\ k.step = step /\ k.want = edit[e].want
                 /\ "dirty" \notin DOMAIN more => k.dirty = edit[e].dirty
    BY <2>1, <2>2, <2>3, OnTask
  <2>5. k.dirty = edit[e].dirty /\ edit[e].dirty
    BY <2>1, <2>3, <2>4 DEF Sound, AfterWrite
  <2>6. Counted(k)
    BY <2>1, <2>2, <2>4 DEF Counted, Sound
  <2>7. Sound(k)
    BY <2>1, <2>2, <2>4, <2>5, <2>6 DEF Sound, Measured
  <2> QED
    BY <2>4, <2>7, OneMoves
<1>25. ASSUME UNCHANGED edit
       PROVE  Steady'
  BY <1>25 DEF Steady
<1>26. ASSUME NEW r \in Reader, Miss(r) \/ Validate(r) \/ Store(r)
       PROVE  Steady'
  BY <1>25, <1>26 DEF Miss, Validate, Store
<1>27. ASSUME Evict
       PROVE  Steady'
  BY <1>25, <1>27 DEF Evict
<1>28. ASSUME UNCHANGED mapVars
       PROVE  Steady'
  BY <1>25, <1>28 DEF mapVars
<1> QED
  BY <1>1, <1>2, <1>3, <1>4, <1>5, <1>6, <1>6a, <1>7, <1>8, <1>9, <1>10, <1>11, <1>12, <1>13, <1>14, <1>15, <1>16,
     <1>17, <1>18, <1>19, <1>20, <1>21, <1>22, <1>23, <1>24, <1>26, <1>27, <1>28
     DEF MapNext, EditorStep

(***************************************************************************)
(* Rows                                                                     *)
(***************************************************************************)

(* A floor goes on a number that is free, if at all.                        *)
LEMMA FloorAdded ==
  ASSUME NEW number, NEW name, NEW counted \in BOOLEAN, AddFloor(number, name, counted)
  PROVE  /\ site' = site /\ nodes' = nodes /\ edges' = edges
         /\ \E x : /\ DOMAIN floors' = DOMAIN floors \cup {x}
                   /\ uncounted' = IF counted THEN uncounted ELSE uncounted \cup {x}
<1>1. DOMAIN floors' = DOMAIN floors \cup {last'}
  BY DEF AddFloor, Adding
<1> QED
  BY <1>1 DEF AddFloor

\* What a request may do to the floors and to those no count saw.
FloorsMove ==
  \/ DOMAIN floors' \subseteq DOMAIN floors /\ uncounted' = uncounted
  \/ \E x : /\ DOMAIN floors' = DOMAIN floors \cup {x}
            /\ uncounted' = uncounted \cup {x}
            /\ site' = site /\ DOMAIN edges' = DOMAIN edges
  \/ \E x : /\ DOMAIN floors' = DOMAIN floors \cup {x}
            /\ uncounted' = uncounted /\ Cardinality(DOMAIN floors) < MaxFloors
            /\ site' = site /\ DOMAIN edges' = DOMAIN edges

\* To the building's row, when the floors at most shrink.
SiteMoves ==
  \/ site' = site
  \/ /\ site' = [status |-> site'.status, owned |-> site'.owned, extra |-> site'.extra]
     /\ site'.owned \in Int /\ site'.extra \in Nat
     /\ \/ site'.owned - site'.extra <= site.owned - site.extra
        \/ site'.owned - site'.extra <= MaxBuildings

EdgesMove == \E p : DOMAIN edges' \subseteq DOMAIN edges \cup {p}

RowsMove == FloorsMove /\ SiteMoves /\ EdgesMove

LEMMA RowsStand ==
  ASSUME UNCHANGED <<site, floors, uncounted>>, UNCHANGED edges
  PROVE  RowsMove
BY DEF RowsMove, FloorsMove, SiteMoves, EdgesMove

LEMMA StopMoves ==
  ASSUME NEW e, Stop(e)
  PROVE  RowsMove
<1>1. DOMAIN edges' = DOMAIN edges
  BY DEF Stop
<1> QED
  BY <1>1 DEF Stop, RowsMove, FloorsMove, SiteMoves, EdgesMove

LEMMA KeepMoves ==
  ASSUME NEW kept, kept \subseteq DOMAIN floors, KeepFloors(kept), uncounted' = uncounted, SiteMoves
  PROVE  RowsMove
<1>1. DOMAIN floors' = kept
  BY DEF KeepFloors, Restrict
<1>2. DOMAIN edges' \subseteq DOMAIN edges
  BY DEF KeepFloors, Restrict
<1> QED
  BY <1>1, <1>2 DEF RowsMove, FloorsMove, EdgesMove

LEMMA AddMoves ==
  ASSUME NEW number, NEW name, NEW counted \in BOOLEAN, AddFloor(number, name, counted),
         counted => Cardinality(DOMAIN floors) < MaxFloors
  PROVE  RowsMove
<1>1. CASE counted
  BY <1>1, FloorAdded DEF RowsMove, FloorsMove, SiteMoves, EdgesMove
<1>2. CASE ~counted
  BY <1>2, FloorAdded DEF RowsMove, FloorsMove, SiteMoves, EdgesMove
<1> QED
  BY <1>1, <1>2

(* A count below the number of floors of a building that is stacked, or that *)
(* a floor's request has seen.                                              *)
LEMMA StackMoves ==
  ASSUME Steady, Sizes, NEW e \in Editor, StackFloor(e)
  PROVE  RowsMove
<1> DEFINE left == edit[e].left
           names == edit[e].want.names
           number == Len(names) - Len(left) + 1
           counted == Cardinality(DOMAIN floors) < number
<1>1. CASE Stop(e)
  BY <1>1, StopMoves
<1>2. CASE ~Stop(e)
  <2>1. edit[e].step = "stack" /\ left # <<>> /\ AddFloor(number, Head(left), counted)
    BY <1>2 DEF StackFloor
  <2>2. Sound(edit[e]) /\ edit[e] # Rest
    BY <2>1, UnderWay
  <2>3. /\ edit[e].want \in Changes /\ edit[e].want.op = "new" /\ left \in Seq(ToSet(names))
        /\ Len(names) <= MaxFloors
    BY <2>1, <2>2 DEF Sound, Counted
  <2>4. names \in Seq(ToSet(names))
    BY <2>3, EditorChanges
  <2>5. Len(names) \in Nat /\ Len(left) \in Nat /\ Len(left) # 0
    BY <2>1, <2>3, <2>4, LenProperties, EmptySeq
  <2>6. Cardinality(DOMAIN floors) \in Nat
    BY FS_CardinalityType DEF Sizes
  <2>7. counted => Cardinality(DOMAIN floors) < MaxFloors
    <3>1. Len(names) <= MaxFloors /\ MaxFloors \in Int
      BY <2>3, EditorLimits
    <3>2. number \in Int /\ number <= MaxFloors
      BY <2>5, <3>1
    <3> HIDE DEF number
    <3> QED
      BY <2>6, <3>1, <3>2
  <2>8. counted \in BOOLEAN
    OBVIOUS
  <2> HIDE DEF counted
  <2> QED
    BY <2>1, <2>7, <2>8, AddMoves
<1> QED
  BY <1>1, <1>2

LEMMA CreateMoves ==
  ASSUME Steady, Sizes, NEW e \in Editor, CreateFloor(e)
  PROVE  RowsMove
<1> DEFINE c == edit[e].want
           counted == Cardinality(DOMAIN floors) <= edit[e].seen
<1>1. CASE Stop(e)
  BY <1>1, StopMoves
<1>2. CASE ~Stop(e)
  <2>1. edit[e].step = "write" /\ c.op = "floor" /\ AddFloor(c.number, c.number, counted)
    BY <1>2 DEF CreateFloor, Doing
  <2>2. Sound(edit[e]) /\ edit[e] # Rest
    BY <2>1, UnderWay
  <2>3. edit[e].seen \in Int /\ edit[e].seen < MaxFloors
    BY <2>1, <2>2 DEF Sound, Counted
  <2>4. Cardinality(DOMAIN floors) \in Nat
    BY FS_CardinalityType DEF Sizes
  <2>5. counted => Cardinality(DOMAIN floors) < MaxFloors
    BY <2>3, <2>4, EditorLimits
  <2>6. counted \in BOOLEAN
    OBVIOUS
  <2> HIDE DEF counted
  <2> QED
    BY <2>1, <2>5, <2>6, AddMoves
<1> QED
  BY <1>1, <1>2

(* A building more is one that was counted, or one more that was not.       *)
LEMMA BuildingMoves ==
  ASSUME Steady, Sizes, NEW e \in Editor, CreateBuilding(e), ~Stop(e)
  PROVE  RowsMove
<1>0. Found(e)
  BY DEF CreateBuilding
<1>1. edit[e].step = "write" /\ edit[e].want.op = "new"
  BY DEF CreateBuilding, Doing
<1>2. Sound(edit[e]) /\ edit[e] # Rest
  BY <1>1, UnderWay
<1>3. edit[e].seen \in Int /\ edit[e].seen < MaxBuildings
  BY <1>1, <1>2 DEF Sound, Counted
<1>4. /\ site' = [status |-> site'.status, owned |-> site'.owned, extra |-> site'.extra]
      /\ site'.owned = site.owned + 1
      /\ site'.extra = IF site.owned > edit[e].seen THEN site.extra + 1 ELSE site.extra
  BY <1>0 DEF Found, Sizes
<1>5. SiteMoves
  BY <1>3, <1>4, EditorLimits DEF SiteMoves, Sizes
<1> QED
  BY <1>0, <1>5 DEF Found, RowsMove, FloorsMove, EdgesMove

LEMMA DemolitionMoves ==
  ASSUME Steady, Sizes, NEW e \in Editor, DeleteBuilding(e)
  PROVE  RowsMove
<1>1. CASE Stop(e)
  BY <1>1, StopMoves
<1>2. CASE ~Stop(e)
  <2>1. /\ site' = [site EXCEPT !.status = "gone", !.owned = @ - 1]
        /\ KeepFloors({}) /\ uncounted' = uncounted
    BY <1>2 DEF DeleteBuilding
  <2>2. /\ site' = [status |-> site'.status, owned |-> site'.owned, extra |-> site'.extra]
        /\ site'.owned = site.owned - 1 /\ site'.extra = site.extra
    BY <2>1 DEF Sizes
  <2>3. SiteMoves
    BY <2>2 DEF SiteMoves, Sizes
  <2> QED
    BY <2>1, <2>3, KeepMoves
<1> QED
  BY <1>1, <1>2

LEMMA ErasureMoves ==
  ASSUME Steady, Sizes, NEW e \in Editor, EraseBuilding(e)
  PROVE  RowsMove
<1>1. CASE Stop(e)
  BY <1>1, StopMoves
<1>2. CASE ~Stop(e)
  <2>1. PICK status, owned : /\ site' = [site EXCEPT !.status = status, !.owned = owned]
                             /\ owned = 0 \/ owned = site.owned - 1
                             /\ KeepFloors({}) /\ uncounted' = uncounted
    BY <1>2 DEF EraseBuilding
  <2>2. /\ site' = [status |-> site'.status, owned |-> site'.owned, extra |-> site'.extra]
        /\ site'.owned = owned /\ site'.extra = site.extra
    BY <2>1 DEF Sizes
  <2>3. SiteMoves
    BY <2>1, <2>2, EditorLimits DEF SiteMoves, Sizes
  <2> QED
    BY <2>1, <2>3, KeepMoves
<1> QED
  BY <1>1, <1>2

LEMMA MapMoves ==
  ASSUME Steady, Sizes, NEW e \in Editor, EditorStep(e)
  PROVE  RowsMove
<1>1. CASE UNCHANGED rows
  BY <1>1, RowsStand DEF rows
<1>2. CASE Stop(e)
  BY <1>2, StopMoves
<1>3. CASE Receive(e) \/ Invalidate(e) \/ ReadPlace(e) \/ ReadEdges(e) \/ ReadOther(e)
           \/ Plan(e) \/ Diff(e)
  <2>1. UNCHANGED rows \/ Stop(e)
    BY <1>3 DEF Receive, Invalidate, ReadPlace, ReadEdges, ReadOther, Plan, Diff, Advance
  <2> QED
    BY <1>1, <1>2, <2>1
<1>4. CASE SaveProfile(e) \/ TakeEnds(e) \/ Abandon(e)
  <2>1. UNCHANGED rows \/ Stop(e)
    BY <1>4 DEF SaveProfile, TakeEnds, PassOver, Advance, Abandon
  <2> QED
    BY <1>1, <1>2, <2>1
<1>5. CASE CreateNode(e) \/ PostNode(e) \/ SavePoi(e) \/ RemovePoi(e) \/ PatchNode(e) \/ PutNode(e)
  <2>1. UNCHANGED <<site, floors, uncounted, edges>> \/ Stop(e)
    BY <1>5 DEF CreateNode, PostNode, AddNode, SavePoi, RemovePoi, PatchNode, PutNode, UpdateNode, Advance, rows
  <2> QED
    BY <1>2, <2>1, RowsStand
<1>6. CASE DeleteNode(e) \/ CutLink(e) \/ DeleteEdge(e)
  <2>1. Stop(e) \/ (UNCHANGED <<site, floors, uncounted>> /\ DOMAIN edges' \subseteq DOMAIN edges)
    <3>0. \A S : DOMAIN Restrict(edges, S) = S
      BY DEF Restrict
    <3>1. CASE DeleteNode(e)
      BY <3>0, <3>1 DEF DeleteNode
    <3>2. CASE CutLink(e)
      BY <3>0, <3>2 DEF CutLink
    <3>3. CASE DeleteEdge(e)
      BY <3>0, <3>3 DEF DeleteEdge
    <3> QED
      BY <1>6, <3>1, <3>2, <3>3
  <2> QED
    BY <1>2, <2>1 DEF RowsMove, FloorsMove, SiteMoves, EdgesMove
<1>7. CASE SaveLength(e) \/ PatchEdge(e)
  <2>1. Stop(e) \/ (UNCHANGED <<site, floors, uncounted>> /\ DOMAIN edges' = DOMAIN edges)
    <3>1. CASE SaveLength(e)
      BY <3>1 DEF SaveLength
    <3>2. CASE PatchEdge(e)
      BY <3>2 DEF PatchEdge
    <3> QED
      BY <1>7, <3>1, <3>2
  <2> QED
    BY <1>2, <2>1 DEF RowsMove, FloorsMove, SiteMoves, EdgesMove
<1>8. CASE InsertEdge(e)
  <2>1. UNCHANGED rows \/ Stop(e) \/ (UNCHANGED <<site, floors, uncounted>> /\ \E p : DOMAIN edges' = DOMAIN edges \cup {p})
    BY <1>8 DEF InsertEdge, PassOver, Advance, Adding
  <2> QED
    BY <1>1, <1>2, <2>1 DEF RowsMove, FloorsMove, SiteMoves, EdgesMove
<1>9. CASE PatchFloor(e) \/ ParkFloors(e) \/ SettleFloor(e)
  <2>1. UNCHANGED rows \/ Stop(e)
        \/ (UNCHANGED <<site, uncounted, edges>> /\ DOMAIN floors' = DOMAIN floors)
    <3>1. CASE PatchFloor(e)
      BY <3>1 DEF PatchFloor
    <3>2. CASE ParkFloors(e)
      <4>1. \A plan : DOMAIN Parked(plan) = DOMAIN floors
        BY DEF Parked
      <4> QED
        BY <3>2, <4>1 DEF ParkFloors
    <3>3. CASE SettleFloor(e)
      BY <3>3 DEF SettleFloor, Advance
    <3> QED
      BY <1>9, <3>1, <3>2, <3>3
  <2> QED
    BY <1>1, <1>2, <2>1 DEF RowsMove, FloorsMove, SiteMoves, EdgesMove
<1>10. CASE FillFloor(e) \/ FloorFor(e)
  <2>1. UNCHANGED rows \/ Stop(e) \/ \E number, name : AddFloor(number, name, FALSE)
    BY <1>10 DEF FillFloor, FloorFor, Advance
  <2> QED
    BY <1>1, <1>2, <2>1, AddMoves
<1>11. CASE DeleteFloor(e) \/ DeleteFloorAt(e) \/ DropUnnamed(e)
  <2>1. Stop(e) \/ \E kept : kept \subseteq DOMAIN floors /\ KeepFloors(kept) /\ UNCHANGED <<site, uncounted>>
    BY <1>11 DEF DeleteFloor, DeleteFloorAt, DropUnnamed
  <2> QED
    BY <1>2, <2>1, KeepMoves DEF SiteMoves
<1> QED
  BY <1>2, <1>3, <1>4, <1>5, <1>6, <1>7, <1>8, <1>9, <1>10, <1>11, StackMoves, CreateMoves, BuildingMoves,
     DemolitionMoves, ErasureMoves DEF EditorStep

LEMMA RowsStep ==
  ASSUME Steady, Sizes, [MapNext]_mapVars
  PROVE  RowsMove
<1>1. ASSUME NEW e \in Editor, EditorStep(e)
      PROVE  RowsMove
  BY <1>1, MapMoves
<1>2. ASSUME NEW r \in Reader, Miss(r) \/ Validate(r) \/ Store(r)
      PROVE  RowsMove
  BY <1>2, RowsStand DEF Miss, Validate, Store, rows
<1>3. ASSUME Evict
      PROVE  RowsMove
  BY <1>3, RowsStand DEF Evict, rows
<1>4. ASSUME UNCHANGED mapVars
      PROVE  RowsMove
  BY <1>4, RowsStand DEF mapVars, rows
<1> QED
  BY <1>1, <1>2, <1>3, <1>4 DEF MapNext

LEMMA SizesStep ==
  ASSUME Sizes, RowsMove
  PROVE  Sizes'
<1>1. IsFiniteSet(DOMAIN floors')
  <2>1. PICK x : DOMAIN floors' \subseteq DOMAIN floors \cup {x}
    BY DEF RowsMove, FloorsMove
  <2> QED
    BY <2>1, FS_AddElement, FS_Subset DEF Sizes
<1>2. IsFiniteSet(DOMAIN edges')
  <2>1. PICK p : DOMAIN edges' \subseteq DOMAIN edges \cup {p}
    BY DEF RowsMove, EdgesMove
  <2> QED
    BY <2>1, FS_AddElement, FS_Subset DEF Sizes
<1> QED
  BY <1>1, <1>2 DEF Sizes, RowsMove, SiteMoves

LEMMA FirstSizes ==
  ASSUME MapInit
  PROVE  Steady /\ Sizes /\ WithinPlan
<1>1. PICK m \in Maps : site = m.site /\ floors = m.floors /\ nodes = m.nodes /\ edges = m.edges /\ last = m.last
  BY DEF MapInit
<1>2. Steady
  BY DEF MapInit, Steady, Sound
<1>3. Sizes
  BY <1>1, EditorMaps DEF Sizes
<1>4. DOMAIN floors \ uncounted = DOMAIN floors
  BY DEF MapInit
<1>5. WithinPlan
  BY <1>1, <1>4, EditorMaps DEF WithinPlan
<1> QED
  BY <1>2, <1>3, <1>5

\* The floors that count, as one floor comes: it was counted or it does not.
LEMMA PlanStep ==
  ASSUME Sizes, WithinPlan, RowsMove
  PROVE  WithinPlan'
<1>1. Cardinality(DOMAIN floors' \ uncounted') <= MaxFloors
  <2> DEFINE D == DOMAIN floors
             U == uncounted
  <2>0. IsFiniteSet(D) /\ IsFiniteSet(D \ U) /\ Cardinality(D \ U) <= MaxFloors
    BY FS_Subset DEF Sizes, WithinPlan
  <2>1. CASE DOMAIN floors' \subseteq D /\ uncounted' = U
    <3>1. DOMAIN floors' \ uncounted' \subseteq D \ U
      BY <2>1
    <3>2. Cardinality(DOMAIN floors' \ uncounted') <= Cardinality(D \ U)
          /\ Cardinality(DOMAIN floors' \ uncounted') \in Nat /\ Cardinality(D \ U) \in Nat
      BY <2>0, <3>1, FS_Subset, FS_CardinalityType
    <3> QED
      BY <2>0, <3>2, EditorLimits
  <2>2. CASE \E x : DOMAIN floors' = D \cup {x} /\ uncounted' = U \cup {x}
    <3>1. DOMAIN floors' \ uncounted' \subseteq D \ U
      BY <2>2
    <3>2. Cardinality(DOMAIN floors' \ uncounted') <= Cardinality(D \ U)
          /\ Cardinality(DOMAIN floors' \ uncounted') \in Nat /\ Cardinality(D \ U) \in Nat
      BY <2>0, <3>1, FS_Subset, FS_CardinalityType
    <3> QED
      BY <2>0, <3>2, EditorLimits
  <2>3. CASE \E x : DOMAIN floors' = D \cup {x} /\ uncounted' = U /\ Cardinality(D) < MaxFloors
    <3>1. PICK x : DOMAIN floors' = D \cup {x} /\ Cardinality(D) < MaxFloors
      BY <2>3
    <3>2. IsFiniteSet(D \cup {x}) /\ Cardinality(D \cup {x}) <= Cardinality(D) + 1 /\ Cardinality(D) \in Nat
      <4>1. Cardinality(D) \in Nat
        BY <2>0, FS_CardinalityType
      <4>2. IsFiniteSet(D \cup {x})
            /\ Cardinality(D \cup {x}) = IF x \in D THEN Cardinality(D) ELSE Cardinality(D) + 1
        BY <2>0, FS_AddElement
      <4> QED
        BY <4>1, <4>2
    <3>3. DOMAIN floors' \ uncounted' \subseteq D \cup {x}
      BY <3>1
    <3>4. /\ Cardinality(DOMAIN floors' \ uncounted') <= Cardinality(D \cup {x})
          /\ Cardinality(DOMAIN floors' \ uncounted') \in Nat /\ Cardinality(D \cup {x}) \in Nat
      BY <3>2, <3>3, FS_Subset, FS_CardinalityType
    <3> QED
      BY <3>1, <3>2, <3>4, EditorLimits
  <2>4. \/ DOMAIN floors' \subseteq D /\ uncounted' = U
        \/ \E x : DOMAIN floors' = D \cup {x} /\ uncounted' = U \cup {x}
        \/ \E x : DOMAIN floors' = D \cup {x} /\ uncounted' = U /\ Cardinality(D) < MaxFloors
    BY Zenon DEF RowsMove, FloorsMove
  <2> QED
    BY <2>1, <2>2, <2>3, <2>4
<1>2. site'.owned - site'.extra <= MaxBuildings
  BY EditorLimits DEF RowsMove, SiteMoves, WithinPlan, Sizes
<1> QED
  BY <1>1, <1>2 DEF WithinPlan

(* A building has no more floors, and its owner no more buildings, than the  *)
(* plan allows, but for those that no count saw coming: every other create,  *)
(* racing creates of the building, a stacked building and a deleted one      *)
(* included, was preceded by a count that had room for it.                   *)
THEOREM PlanTheorem == EditorSpec => []WithinPlan
<1>1. MapInit => Steady /\ Sizes /\ WithinPlan
  BY FirstSizes
<1>2. Steady /\ Sizes /\ WithinPlan /\ [MapNext]_mapVars => (Steady /\ Sizes /\ WithinPlan)'
  <2> SUFFICES ASSUME Steady, Sizes, WithinPlan, [MapNext]_mapVars
               PROVE  (Steady /\ Sizes /\ WithinPlan)'
    OBVIOUS
  <2>1. RowsMove
    BY RowsStep
  <2> QED
    BY <2>1, TasksStep, SizesStep, PlanStep
<1> QED
  BY <1>1, <1>2, PTL DEF EditorSpec

(***************************************************************************)
(* The graph                                                                *)
(***************************************************************************)

(* A request that goes on stays dirty, one that commits becomes so.         *)
LEMMA StaysDirty ==
  ASSUME Steady, NEW e \in Editor, edit[e].step # "rest", NEW step, NEW more, On(e, step, more),
         {"step", "want"} \cap DOMAIN more = {}
  PROVE  /\ "dirty" \notin DOMAIN more => \A d \in Editor : edit[d].dirty => edit'[d].dirty
         /\ "dirty" \in DOMAIN more => (more.dirty => edit'[e].dirty)
<1> PICK k : k = Over(more, [edit[e] EXCEPT !.step = step])
  OBVIOUS
<1>1. IsTask(edit[e])
  BY DEF Steady, Sound, Rest
<1>2. edit' = [edit EXCEPT ![e] = k]
  BY DEF On
<1>3. edit'[e] = k /\ \A d \in Editor \ {e} : edit'[d] = edit[d]
  BY <1>2 DEF Steady
<1>4. "dirty" \in DOMAIN more => k.dirty = more.dirty
  BY <1>1, GoesOn
<1>5. "dirty" \notin DOMAIN more => k.dirty = edit[e].dirty
  BY <1>1, GoesOn
<1> QED
  BY <1>3, <1>4, <1>5

LEMMA CommitsDirty ==
  ASSUME Steady, NEW e \in Editor, edit[e].step # "rest", NEW step, NEW more, Commit(e, step, more),
         {"step", "want", "dirty"} \cap DOMAIN more = {}
  PROVE  edit'[e].dirty
<1> PICK m : m = Over([dirty |-> TRUE], more)
  OBVIOUS
<1>1. On(e, step, m)
  BY DEF Commit
<1>2. DOMAIN m = {"dirty"} \cup DOMAIN more /\ m.dirty
  BY CommitNotes
<1>3. {"step", "want"} \cap DOMAIN m = {}
  BY <1>2
<1> QED
  BY <1>1, <1>2, <1>3, StaysDirty

\* The ways in which a request leaves a stale graph explained.
Explained ==
  \/ \E e \in Editor : edit'[e].dirty
  \/ /\ graph' = graph /\ (missed => missed')
     /\ \A d \in Editor : edit[d].dirty => edit'[d].dirty

LEMMA StaysExplained ==
  ASSUME StaleGraphExplained, Explained
  PROVE  StaleGraphExplained'
BY DEF StaleGraphExplained, Explained

LEMMA StopExplained ==
  ASSUME Steady, StaleGraphExplained, NEW e \in Editor, Stop(e)
  PROVE  StaleGraphExplained'
<1>1. \A d \in Editor \ {e} : edit'[d] = edit[d]
  BY DEF Stop, Steady
<1>2. graph' = graph /\ (missed \/ (edit[e].dirty /\ graph = "stale") => missed')
  BY DEF Stop
<1> QED
  BY <1>1, <1>2 DEF StaleGraphExplained

LEMMA QuietExplained ==
  ASSUME Steady, NEW e \in Editor, edit[e].step # "rest", NEW step, NEW more, On(e, step, more),
         {"step", "want"} \cap DOMAIN more = {}, "dirty" \notin DOMAIN more,
         UNCHANGED <<graph, missed>> \/ edit[e].dirty
  PROVE  Explained
<1>1. \A d \in Editor : edit[d].dirty => edit'[d].dirty
  BY StaysDirty
<1> QED
  BY <1>1 DEF Explained

LEMMA CommitExplained ==
  ASSUME Steady, NEW e \in Editor, edit[e].step # "rest", NEW step, NEW more, Commit(e, step, more),
         {"step", "want", "dirty"} \cap DOMAIN more = {}
  PROVE  Explained
BY CommitsDirty DEF Explained

LEMMA GraphMoves ==
  ASSUME Steady, StaleGraphExplained, NEW e \in Editor, EditorStep(e), ~Stop(e)
  PROVE  StaleGraphExplained'
<1>1. CASE Receive(e)
  <2>1. ~edit[e].dirty
    BY <1>1 DEF Receive, Rest
  <2>2. \A d \in Editor \ {e} : edit'[d] = edit[d]
    BY <1>1 DEF Receive, Steady
  <2>3. UNCHANGED <<graph, missed>>
    BY <1>1 DEF Receive, cache
  <2> QED
    BY <2>1, <2>2, <2>3 DEF StaleGraphExplained
<1>2. CASE Invalidate(e)
  BY <1>2 DEF Invalidate, Cleared, StaleGraphExplained
<1>3. CASE CreateBuilding(e)
  <2>1. /\ edit[e].step = "write" /\ edit[e].want.op = "new" /\ UNCHANGED <<graph, missed>>
        /\ edit[e].step # "rest" /\ Found(e)
    BY <1>3 DEF CreateBuilding, Found, Doing, cache
  <2>2. CASE edit' = [edit EXCEPT ![e] = Rest]
    <3>1. ~edit[e].dirty
      BY <2>1, UnderWay DEF Sound
    <3>2. \A d \in Editor \ {e} : edit'[d] = edit[d]
      BY <2>2 DEF Steady
    <3> QED
      BY <2>1, <3>1, <3>2 DEF StaleGraphExplained
  <2>3. CASE \E left : On(e, "stack", [left |-> left])
    <3>1. PICK left : On(e, "stack", [left |-> left])
      BY <2>3
    <3>2. {"step", "want"} \cap DOMAIN [left |-> left] = {} /\ "dirty" \notin DOMAIN [left |-> left]
      OBVIOUS
    <3> QED
      BY <2>1, <3>1, <3>2, QuietExplained, StaysExplained
  <2> QED
    BY <2>1, <2>2, <2>3 DEF Found
<1>3a. CASE EraseBuilding(e)
  <2>1. edit[e].step # "rest" /\ Commit(e, "end", <<>>)
    BY <1>3a DEF EraseBuilding, Doing
  <2> QED
    BY <2>1, CommitExplained, StaysExplained
<1>4. CASE DeleteBuilding(e) \/ SaveProfile(e) \/ CreateFloor(e) \/ PatchFloor(e) \/ DeleteFloor(e) \/ DeleteFloorAt(e)
  <2>1. edit[e].step # "rest" /\ Commit(e, "invalidate", <<>>)
    BY <1>4 DEF DeleteBuilding, SaveProfile, CreateFloor, PatchFloor, DeleteFloor, DeleteFloorAt, Doing
  <2> QED
    BY <2>1, CommitExplained, StaysExplained
<1>5. CASE CreateNode(e) \/ DeleteNode(e) \/ SavePoi(e) \/ PatchEdge(e) \/ DeleteEdge(e)
  <2>1. edit[e].step # "rest" /\ Commit(e, "invalidate", <<>>)
    BY <1>5 DEF CreateNode, DeleteNode, SavePoi, PatchEdge, DeleteEdge, Doing
  <2> QED
    BY <2>1, CommitExplained, StaysExplained
<1>6. CASE DropUnnamed(e)
  <2>1. edit[e].step # "rest" /\ Commit(e, "park", <<>>)
    BY <1>6 DEF DropUnnamed, Doing
  <2> QED
    BY <2>1, CommitExplained, StaysExplained
<1>7. CASE StackFloor(e) \/ ParkFloors(e)
  <2>1. edit[e].step # "rest" /\ \E step, left : Commit(e, step, [left |-> left])
    BY <1>7 DEF StackFloor, ParkFloors, Doing
  <2>2. PICK step, left : Commit(e, step, [left |-> left])
    BY <2>1
  <2>3. {"step", "want", "dirty"} \cap DOMAIN [left |-> left] = {}
    OBVIOUS
  <2> QED
    BY <2>1, <2>2, <2>3, CommitExplained, StaysExplained
<1>8. CASE FillFloor(e)
  <2>1. edit[e].step # "rest"
        /\ (\/ \E left : On(e, "settle", [left |-> left]) /\ UNCHANGED <<graph, missed>>
            \/ \E left, seen : Commit(e, "fill", [left |-> left, seen |-> seen]))
    BY <1>8 DEF FillFloor, Doing, Advance, cache
  <2>2. CASE \E left : On(e, "settle", [left |-> left]) /\ UNCHANGED <<graph, missed>>
    <3>1. PICK left : On(e, "settle", [left |-> left]) /\ UNCHANGED <<graph, missed>>
      BY <2>2
    <3>2. {"step", "want"} \cap DOMAIN [left |-> left] = {} /\ "dirty" \notin DOMAIN [left |-> left]
      OBVIOUS
    <3> QED
      BY <2>1, <3>1, <3>2, QuietExplained, StaysExplained
  <2>3. CASE \E left, seen : Commit(e, "fill", [left |-> left, seen |-> seen])
    <3>1. PICK left, seen : Commit(e, "fill", [left |-> left, seen |-> seen])
      BY <2>3
    <3>2. {"step", "want", "dirty"} \cap DOMAIN [left |-> left, seen |-> seen] = {}
      OBVIOUS
    <3> QED
      BY <2>1, <3>1, <3>2, CommitExplained, StaysExplained
  <2> QED
    BY <2>1, <2>2, <2>3
<1>9. CASE SettleFloor(e) \/ RemovePoi(e)
  <2>1. edit[e].step # "rest"
        /\ (\/ \E step : On(e, step, <<>>) /\ UNCHANGED <<graph, missed>>
            \/ \E left : Commit(e, "settle", [left |-> left])
            \/ Commit(e, "invalidate", <<>>))
    BY <1>9 DEF SettleFloor, RemovePoi, Doing, Advance, cache
  <2>2. CASE \E step : On(e, step, <<>>) /\ UNCHANGED <<graph, missed>>
    BY <2>1, <2>2, QuietExplained, StaysExplained
  <2>3. CASE \E left : Commit(e, "settle", [left |-> left])
    <3>1. PICK left : Commit(e, "settle", [left |-> left])
      BY <2>3
    <3>2. {"step", "want", "dirty"} \cap DOMAIN [left |-> left] = {}
      OBVIOUS
    <3> QED
      BY <2>1, <3>1, <3>2, CommitExplained, StaysExplained
  <2>4. CASE Commit(e, "invalidate", <<>>)
    BY <2>1, <2>4, CommitExplained, StaysExplained
  <2> QED
    BY <2>1, <2>2, <2>3, <2>4
<1>10. CASE FloorFor(e)
  <2>1. edit[e].step # "rest" /\ \E seen : Commit(e, "write", [seen |-> seen])
    BY <1>10 DEF FloorFor, Doing
  <2>2. PICK seen : Commit(e, "write", [seen |-> seen])
    BY <2>1
  <2>3. {"step", "want", "dirty"} \cap DOMAIN [seen |-> seen] = {}
    OBVIOUS
  <2> QED
    BY <2>1, <2>2, <2>3, CommitExplained, StaysExplained
<1>11. CASE PatchNode(e) \/ PutNode(e)
  <2>1. edit[e].step # "rest" /\ \E step : Commit(e, step, <<>>)
    BY <1>11 DEF PatchNode, PutNode, UpdateNode, Doing
  <2> QED
    BY <2>1, CommitExplained, StaysExplained
<1>12. CASE PostNode(e)
  <2>1. edit[e].step # "rest" /\ \E step, pairs : Commit(e, step, [pairs |-> pairs])
    BY <1>12 DEF PostNode, Doing
  <2>2. PICK step, pairs : Commit(e, step, [pairs |-> pairs])
    BY <2>1
  <2>3. {"step", "want", "dirty"} \cap DOMAIN [pairs |-> pairs] = {}
    OBVIOUS
  <2> QED
    BY <2>1, <2>2, <2>3, CommitExplained, StaysExplained
<1>13. CASE ReadPlace(e)
  <2>1. edit[e].step # "rest" /\ UNCHANGED <<graph, missed>>
        /\ ((\E seen : On(e, "edges", [seen |-> seen])) \/ \E step : On(e, step, <<>>))
    BY <1>13 DEF ReadPlace, Doing, Advance, cache
  <2>2. CASE \E seen : On(e, "edges", [seen |-> seen])
    <3>1. PICK seen : On(e, "edges", [seen |-> seen])
      BY <2>2
    <3>2. {"step", "want"} \cap DOMAIN [seen |-> seen] = {} /\ "dirty" \notin DOMAIN [seen |-> seen]
      OBVIOUS
    <3> QED
      BY <2>1, <3>1, <3>2, QuietExplained, StaysExplained
  <2>3. CASE \E step : On(e, step, <<>>)
    BY <2>1, <2>3, QuietExplained, StaysExplained
  <2> QED
    BY <2>1, <2>2, <2>3
<1>14. CASE ReadEdges(e) \/ ReadOther(e) \/ SaveLength(e)
  <2>1. edit[e].step \in AfterWrite
        /\ ((\E step, left : On(e, step, [left |-> left])) \/ \E length : On(e, "length", [length |-> length]))
    BY <1>14 DEF ReadEdges, ReadOther, SaveLength, NextEdge, Doing, AfterWrite
  <2>2. edit[e].step # "rest" /\ edit[e].dirty
    BY <2>1, UnderWay DEF Sound, AfterWrite
  <2>3. CASE \E step, left : On(e, step, [left |-> left])
    <3>1. PICK step, left : On(e, step, [left |-> left])
      BY <2>3
    <3>2. {"step", "want"} \cap DOMAIN [left |-> left] = {} /\ "dirty" \notin DOMAIN [left |-> left]
      OBVIOUS
    <3> QED
      BY <2>2, <3>1, <3>2, QuietExplained, StaysExplained
  <2>4. CASE \E length : On(e, "length", [length |-> length])
    <3>1. PICK length : On(e, "length", [length |-> length])
      BY <2>4
    <3>2. {"step", "want"} \cap DOMAIN [length |-> length] = {} /\ "dirty" \notin DOMAIN [length |-> length]
      OBVIOUS
    <3> QED
      BY <2>2, <3>1, <3>2, QuietExplained, StaysExplained
  <2> QED
    BY <2>1, <2>3, <2>4
<1>15. CASE Plan(e) \/ TakeEnds(e)
  <2>1. edit[e].step # "rest" /\ UNCHANGED <<graph, missed>>
        /\ ((\E step, pairs : On(e, step, [pairs |-> pairs])) \/ \E seen : On(e, "insert", [seen |-> seen]))
    BY <1>15 DEF Plan, TakeEnds, PassOver, Doing, Advance, cache
  <2>2. CASE \E step, pairs : On(e, step, [pairs |-> pairs])
    <3>1. PICK step, pairs : On(e, step, [pairs |-> pairs])
      BY <2>2
    <3>2. {"step", "want"} \cap DOMAIN [pairs |-> pairs] = {} /\ "dirty" \notin DOMAIN [pairs |-> pairs]
      OBVIOUS
    <3> QED
      BY <2>1, <3>1, <3>2, QuietExplained, StaysExplained
  <2>3. CASE \E seen : On(e, "insert", [seen |-> seen])
    <3>1. PICK seen : On(e, "insert", [seen |-> seen])
      BY <2>3
    <3>2. {"step", "want"} \cap DOMAIN [seen |-> seen] = {} /\ "dirty" \notin DOMAIN [seen |-> seen]
      OBVIOUS
    <3> QED
      BY <2>1, <3>1, <3>2, QuietExplained, StaysExplained
  <2> QED
    BY <2>1, <2>2, <2>3
<1>16. CASE InsertEdge(e)
  <2>1. edit[e].step # "rest"
        /\ (\/ \E step, pairs : Commit(e, step, [pairs |-> pairs])
            \/ \E step, pairs : On(e, step, [pairs |-> pairs]) /\ UNCHANGED <<graph, missed>>)
    BY <1>16 DEF InsertEdge, PassOver, Advance, cache
  <2>2. CASE \E step, pairs : Commit(e, step, [pairs |-> pairs])
    <3>1. PICK step, pairs : Commit(e, step, [pairs |-> pairs])
      BY <2>2
    <3>2. {"step", "want", "dirty"} \cap DOMAIN [pairs |-> pairs] = {}
      OBVIOUS
    <3> QED
      BY <2>1, <3>1, <3>2, CommitExplained, StaysExplained
  <2>3. CASE \E step, pairs : On(e, step, [pairs |-> pairs]) /\ UNCHANGED <<graph, missed>>
    <3>1. PICK step, pairs : On(e, step, [pairs |-> pairs]) /\ UNCHANGED <<graph, missed>>
      BY <2>3
    <3>2. {"step", "want"} \cap DOMAIN [pairs |-> pairs] = {} /\ "dirty" \notin DOMAIN [pairs |-> pairs]
      OBVIOUS
    <3> QED
      BY <2>1, <3>1, <3>2, QuietExplained, StaysExplained
  <2> QED
    BY <2>1, <2>2, <2>3
<1>17. CASE Diff(e)
  <2>1. edit[e].step # "rest" /\ UNCHANGED <<graph, missed>>
        /\ \E step, pairs, cuts : On(e, step, [pairs |-> pairs, cuts |-> cuts])
    BY <1>17 DEF Diff, Doing, Advance, cache
  <2>2. PICK step, pairs, cuts : On(e, step, [pairs |-> pairs, cuts |-> cuts])
    BY <2>1
  <2>3. {"step", "want"} \cap DOMAIN [pairs |-> pairs, cuts |-> cuts] = {}
        /\ "dirty" \notin DOMAIN [pairs |-> pairs, cuts |-> cuts]
    OBVIOUS
  <2> QED
    BY <2>1, <2>2, <2>3, QuietExplained, StaysExplained
<1>18. CASE CutLink(e)
  <2>1. edit[e].step = "cut" /\ \E step, cuts : On(e, step, [cuts |-> cuts])
    BY <1>18 DEF CutLink
  <2>2. edit[e].step # "rest" /\ edit[e].dirty
    BY <2>1, UnderWay DEF Sound, AfterWrite
  <2>3. PICK step, cuts : On(e, step, [cuts |-> cuts])
    BY <2>1
  <2>4. {"step", "want"} \cap DOMAIN [cuts |-> cuts] = {} /\ "dirty" \notin DOMAIN [cuts |-> cuts]
    OBVIOUS
  <2> QED
    BY <2>2, <2>3, <2>4, QuietExplained, StaysExplained
<1> QED
  BY <1>1, <1>2, <1>3, <1>3a, <1>4, <1>5, <1>6, <1>7, <1>8, <1>9, <1>10, <1>11, <1>12, <1>13, <1>14, <1>15, <1>16,
     <1>17, <1>18 DEF EditorStep, Abandon

LEMMA GraphStep ==
  ASSUME Steady, StaleGraphExplained, [MapNext]_mapVars
  PROVE  StaleGraphExplained'
<1>1. ASSUME NEW e \in Editor, EditorStep(e)
      PROVE  StaleGraphExplained'
  BY <1>1, GraphMoves, StopExplained
<1>2. ASSUME NEW r \in Reader, Miss(r) \/ Validate(r)
      PROVE  StaleGraphExplained'
  BY <1>2 DEF Miss, Validate, StaleGraphExplained
<1>3. ASSUME NEW r \in Reader, Store(r)
      PROVE  StaleGraphExplained'
  BY <1>3 DEF Store, StaleGraphExplained
<1>4. ASSUME Evict
      PROVE  StaleGraphExplained'
  BY <1>4 DEF Evict, StaleGraphExplained
<1>5. ASSUME UNCHANGED mapVars
      PROVE  StaleGraphExplained'
  BY <1>5 DEF mapVars, cache, StaleGraphExplained
<1> QED
  BY <1>1, <1>2, <1>3, <1>4, <1>5 DEF MapNext

(* The graph cache (graphCache.js), whatever the map, the editors and their   *)
(* requests: a route is computed on an out-of-date graph only while a request *)
(* that changed the map is under way, after one that failed before its        *)
(* invalidation or that has none (a building created, or erased by an          *)
(* administrator or with its owner), or after a load that began before the     *)
(* change was stored over it.                                                *)
THEOREM StaleGraphTheorem == EditorSpec => []StaleGraphExplained
<1>1. MapInit => Steady /\ Sizes /\ StaleGraphExplained
  BY FirstSizes DEF MapInit, StaleGraphExplained
<1>2. Steady /\ Sizes /\ StaleGraphExplained /\ [MapNext]_mapVars
        => (Steady /\ Sizes /\ StaleGraphExplained)'
  <2> SUFFICES ASSUME Steady, Sizes, StaleGraphExplained, [MapNext]_mapVars
               PROVE  (Steady /\ Sizes /\ StaleGraphExplained)'
    OBVIOUS
  <2>1. RowsMove
    BY RowsStep
  <2> QED
    BY <2>1, TasksStep, SizesStep, GraphStep
<1> QED
  BY <1>1, <1>2, PTL DEF EditorSpec

(***************************************************************************)
(* Lengths                                                                  *)
(***************************************************************************)

\* The steps of the recomputation, at which a moved node's edges are owed their
\* lengths: all of them, then those it has not come to yet.
Recomputing == {"place", "edges", "other", "length"}
Owes(t, p) ==
  /\ Moving(t) /\ t.want.node \in {p[1], p[2]}
  /\ \/ t.step \in {"place", "edges"}
     \/ t.step \in {"other", "length"} /\ \E i \in DOMAIN t.left : t.left[i].pair = p

Settled(p) == ~Wrong(p) \/ edges[p].late

Tracked == \A p \in DOMAIN edges : Settled(p) \/ \E e \in Editor : Owes(edit[e], p)

\* Two nodes of different floors are never apart, and nothing need track that.
Crossed == \A p \in DOMAIN edges : nodes[p[1]].floor # nodes[p[2]].floor => Settled(p)

\* An id is given out once, and an edge ends with its nodes.
Joined ==
  /\ last \in Nat /\ DOMAIN nodes \subseteq 1 .. last
  /\ \A n \in DOMAIN nodes : {"floor", "place"} \subseteq DOMAIN nodes[n]
  /\ \A p \in DOMAIN edges :
       /\ p[1] \in DOMAIN nodes /\ p[2] \in DOMAIN nodes
       /\ {"length", "late"} \subseteq DOMAIN edges[p]

\* A node is on the floor on which the recomputation saw it.
Placed(t) ==
  t.step \in Recomputing \ {"place"} =>
    /\ t.want.node \in 1 .. last
    /\ t.want.node \in DOMAIN nodes => t.seen.floor = nodes[t.want.node].floor
Looked == \A e \in Editor : Placed(edit[e])

\* What any step leaves of the nodes and edges.
NodesStay ==
  /\ last' \in Nat /\ last <= last'
  /\ \A n \in DOMAIN nodes' : n \in DOMAIN nodes \/ (n = last + 1 /\ n = last')
  /\ \A n \in DOMAIN nodes' : {"floor", "place"} \subseteq DOMAIN nodes'[n]
  /\ \A n \in DOMAIN nodes : n \in DOMAIN nodes' => nodes'[n].floor = nodes[n].floor
PlacesStay == \A n \in DOMAIN nodes : n \in DOMAIN nodes' => nodes'[n].place = nodes[n].place
Kept(p) ==
  p \in DOMAIN edges /\ edges'[p].length = edges[p].length /\ (edges[p].late => edges'[p].late)
EdgesStay ==
  \A p \in DOMAIN edges' :
    /\ p[1] \in DOMAIN nodes' /\ p[2] \in DOMAIN nodes'
    /\ {"length", "late"} \subseteq DOMAIN edges'[p]
    /\ Kept(p) \/ Settled(p)'

LEMMA JoinedStep ==
  ASSUME Joined, NodesStay, EdgesStay
  PROVE  Joined'
<1>1. DOMAIN nodes' \subseteq 1 .. last'
  BY DEF Joined, NodesStay
<1> QED
  BY <1>1 DEF Joined, NodesStay, EdgesStay

LEMMA CrossedStep ==
  ASSUME Joined, NodesStay, EdgesStay, Crossed
  PROVE  Crossed'
<1> SUFFICES ASSUME NEW p \in DOMAIN edges', nodes'[p[1]].floor # nodes'[p[2]].floor, ~Settled(p)'
             PROVE  FALSE
  BY DEF Crossed
<1>1. Kept(p) /\ p \in DOMAIN edges
  BY DEF EdgesStay, Kept
<1>2. p[1] \in DOMAIN nodes /\ p[2] \in DOMAIN nodes /\ p[1] \in DOMAIN nodes' /\ p[2] \in DOMAIN nodes'
  BY <1>1 DEF Joined, EdgesStay
<1>3. nodes[p[1]].floor # nodes[p[2]].floor
  BY <1>2 DEF NodesStay
<1>4. Settled(p)
  BY <1>1, <1>3 DEF Crossed
<1>5. Span(p) = 0 /\ Span(p)' = 0
  BY <1>3 DEF Span
<1> QED
  BY <1>1, <1>4, <1>5 DEF Settled, Wrong, Kept

LEMMA SpanStays ==
  ASSUME Joined, NodesStay, PlacesStay, EdgesStay, NEW p \in DOMAIN edges', p \in DOMAIN edges
  PROVE  Span(p)' = Span(p)
<1>1. p[1] \in DOMAIN nodes /\ p[2] \in DOMAIN nodes /\ p[1] \in DOMAIN nodes' /\ p[2] \in DOMAIN nodes'
  BY DEF Joined, EdgesStay
<1>2. /\ nodes'[p[1]].floor = nodes[p[1]].floor /\ nodes'[p[2]].floor = nodes[p[2]].floor
      /\ nodes'[p[1]].place = nodes[p[1]].place /\ nodes'[p[2]].place = nodes[p[2]].place
  BY <1>1 DEF NodesStay, PlacesStay
<1> QED
  BY <1>2 DEF Span

\* Whoever is owed a length stays so or gets it.
OwersStay ==
  \A e \in Editor : \A p \in DOMAIN edges' : Owes(edit[e], p) => Owes(edit'[e], p) \/ Settled(p)'

LEMMA TrackedStep ==
  ASSUME Joined, NodesStay, PlacesStay, EdgesStay, Tracked, OwersStay
  PROVE  Tracked'
<1> SUFFICES ASSUME NEW p \in DOMAIN edges', ~Settled(p)'
             PROVE  \E e \in Editor : Owes(edit'[e], p)
  BY DEF Tracked, Owes, Moving
<1>1. Kept(p) /\ p \in DOMAIN edges
  BY DEF EdgesStay, Kept
<1>2. Span(p)' = Span(p)
  BY <1>1, SpanStays
<1>3. ~Settled(p)
  BY <1>1, <1>2 DEF Settled, Wrong, Kept
<1>4. PICK e \in Editor : Owes(edit[e], p)
  BY <1>1, <1>3 DEF Tracked
<1> QED
  BY <1>4 DEF OwersStay

LEMMA LookedStep ==
  ASSUME Joined, NodesStay, Looked,
         \A e \in Editor : edit'[e].step \in Recomputing \ {"place"} =>
           \/ /\ edit[e].step \in Recomputing \ {"place"}
              /\ edit'[e].want = edit[e].want /\ edit'[e].seen = edit[e].seen
           \/ edit'[e].want.node \in DOMAIN nodes /\ edit'[e].seen.floor = nodes[edit'[e].want.node].floor
  PROVE  Looked'
<1> SUFFICES ASSUME NEW e \in Editor, edit'[e].step \in Recomputing \ {"place"}
             PROVE  /\ edit'[e].want.node \in 1 .. last'
                    /\ edit'[e].want.node \in DOMAIN nodes' => edit'[e].seen.floor = nodes'[edit'[e].want.node].floor
  BY DEF Looked, Placed
<1> DEFINE n == edit'[e].want.node
<1>1. n \in 1 .. last /\ (n \in DOMAIN nodes => edit'[e].seen.floor = nodes[n].floor)
  BY DEF Looked, Placed, Joined
<1>2. n \in 1 .. last'
  BY <1>1 DEF NodesStay, Joined
<1>3. n \in DOMAIN nodes' => n \in DOMAIN nodes
  BY <1>1 DEF NodesStay, Joined
<1> QED
  BY <1>1, <1>2, <1>3 DEF NodesStay

MapStays == NodesStay /\ PlacesStay /\ EdgesStay

LEMMA MapStands ==
  ASSUME Joined, UNCHANGED <<nodes, edges>>, last' = last \/ last' = last + 1
  PROVE  MapStays
<1>1. EdgesStay
  BY DEF Joined, EdgesStay, Kept
<1> QED
  BY <1>1 DEF Joined, MapStays, NodesStay, PlacesStay

LEMMA MapShrinks ==
  ASSUME Joined, last' = last,
         \A n \in DOMAIN nodes' : n \in DOMAIN nodes /\ nodes'[n] = nodes[n],
         \A p \in DOMAIN edges' : /\ p \in DOMAIN edges /\ edges'[p] = edges[p]
                                  /\ p[1] \in DOMAIN nodes' /\ p[2] \in DOMAIN nodes'
  PROVE  MapStays
<1>1. EdgesStay
  BY DEF Joined, EdgesStay, Kept
<1> QED
  BY <1>1 DEF Joined, MapStays, NodesStay, PlacesStay

LEMMA NodesChange ==
  ASSUME Joined, last' = last, edges' = edges, DOMAIN nodes' = DOMAIN nodes,
         \A n \in DOMAIN nodes : {"floor", "place"} \subseteq DOMAIN nodes'[n] /\ nodes'[n].floor = nodes[n].floor
  PROVE  NodesStay /\ EdgesStay
<1>1. EdgesStay
  BY DEF Joined, EdgesStay, Kept
<1> QED
  BY <1>1 DEF Joined, NodesStay

LEMMA NodeComes ==
  ASSUME Joined, NEW floor, NEW place, AddNode(floor, place)
  PROVE  MapStays
<1> DEFINE row == [floor |-> floor, place |-> place, type |-> "NORMAL", poi |-> FALSE]
<1>1. /\ last' = last + 1 /\ edges' = edges
      /\ DOMAIN nodes' = DOMAIN nodes \cup {last'}
      /\ \A n \in DOMAIN nodes : nodes'[n] = nodes[n]
      /\ last' \notin DOMAIN nodes => nodes'[last'] = row
  BY DEF AddNode, Adding
<1>2. last' \notin DOMAIN nodes
  BY <1>1 DEF Joined
<1>3. {"floor", "place"} \subseteq DOMAIN row
  OBVIOUS
<1>4. NodesStay
  BY <1>1, <1>2, <1>3 DEF Joined, NodesStay
<1>5. EdgesStay
  BY <1>1 DEF Joined, EdgesStay, Kept
<1>6. PlacesStay
  BY <1>1 DEF PlacesStay
<1> QED
  BY <1>4, <1>5, <1>6 DEF MapStays

LEMMA FloorsGo ==
  ASSUME Joined, NEW kept, KeepFloors(kept), last' = last
  PROVE  MapStays
<1> DEFINE stays == {n \in DOMAIN nodes : nodes[n].floor \in kept}
           ends == {p \in DOMAIN edges : Both(p) \subseteq stays}
<1>1. nodes' = [n \in stays |-> nodes[n]] /\ edges' = [p \in ends |-> edges[p]]
  BY DEF KeepFloors, Restrict
<1>2. \A n \in DOMAIN nodes' : n \in DOMAIN nodes /\ nodes'[n] = nodes[n]
  BY <1>1
<1>3. \A p \in DOMAIN edges' : /\ p \in DOMAIN edges /\ edges'[p] = edges[p]
                               /\ p[1] \in DOMAIN nodes' /\ p[2] \in DOMAIN nodes'
  BY <1>1 DEF Both
<1> QED
  BY <1>2, <1>3, MapShrinks

LEMMA EdgesChange ==
  ASSUME Joined, last' = last, nodes' = nodes, DOMAIN edges' = DOMAIN edges,
         \A p \in DOMAIN edges : {"length", "late"} \subseteq DOMAIN edges'[p] /\ (Kept(p) \/ Settled(p)')
  PROVE  MapStays
<1>1. EdgesStay
  BY DEF Joined, EdgesStay
<1> QED
  BY <1>1 DEF Joined, MapStays, NodesStay, PlacesStay

(* An error settles all lengths of the node that was moved.                 *)
LEMMA StopSettles ==
  ASSUME Joined, NEW e \in Editor, Stop(e)
  PROVE  /\ MapStays
         /\ \A p \in DOMAIN edges' :
              Moving(edit[e]) /\ edit[e].want.node \in {p[1], p[2]} => Settled(p)'
<1>1. /\ DOMAIN edges' = DOMAIN edges /\ nodes' = nodes /\ last' = last
      /\ \A p \in DOMAIN edges :
           edges'[p] = IF Moving(edit[e]) /\ edit[e].want.node \in {p[1], p[2]} /\ Wrong(p)
                       THEN [edges[p] EXCEPT !.late = TRUE] ELSE edges[p]
  BY DEF Stop
<1>2. ASSUME NEW p \in DOMAIN edges
      PROVE  /\ {"length", "late"} \subseteq DOMAIN edges'[p] /\ Kept(p)
             /\ Moving(edit[e]) /\ edit[e].want.node \in {p[1], p[2]} => Settled(p)'
  <2>1. {"length", "late"} \subseteq DOMAIN edges[p]
    BY DEF Joined
  <2>2. CASE Moving(edit[e]) /\ edit[e].want.node \in {p[1], p[2]} /\ Wrong(p)
    <3>1. edges'[p] = [edges[p] EXCEPT !.late = TRUE]
      BY <1>1, <2>2
    <3>2. DOMAIN edges'[p] = DOMAIN edges[p] /\ edges'[p].length = edges[p].length /\ edges'[p].late
      BY <2>1, <3>1
    <3> QED
      BY <2>1, <3>2 DEF Kept, Settled
  <2>3. CASE ~(Moving(edit[e]) /\ edit[e].want.node \in {p[1], p[2]} /\ Wrong(p))
    <3>1. edges'[p] = edges[p]
      BY <1>1, <2>3
    <3>2. Span(p)' = Span(p)
      BY <1>1 DEF Span
    <3> QED
      BY <2>1, <2>3, <3>1, <3>2 DEF Kept, Settled, Wrong
  <2> QED
    BY <2>2, <2>3
<1>3. MapStays
  BY <1>1, <1>2, EdgesChange
<1> QED
  BY <1>1, <1>2, <1>3

(* A new edge has a length that is right, or is known to be late.           *)
LEMMA EdgeComes ==
  ASSUME Joined, NEW p, p \notin DOMAIN edges, p[1] \in DOMAIN nodes, p[2] \in DOMAIN nodes,
         NEW seen, "length" \in DOMAIN seen, NEW id,
         edges' = Adding(edges, p, Over([id |-> id, late |-> seen.length # Span(p)], seen)),
         nodes' = nodes, last' = last + 1
  PROVE  MapStays
<1> DEFINE row == Over([id |-> id, late |-> seen.length # Span(p)], seen)
<1>1. /\ DOMAIN row = {"id", "late"} \cup DOMAIN seen
      /\ row.length = seen.length /\ (row.late <=> seen.length # Span(p))
  BY DEF Over
<1> HIDE DEF row
<1>2. /\ DOMAIN edges' = DOMAIN edges \cup {p} /\ edges'[p] = row
      /\ \A q \in DOMAIN edges : edges'[q] = edges[q]
  BY DEF Adding, row
<1>3. Span(p)' = Span(p)
  BY DEF Span
<1>4. Settled(p)'
  BY <1>1, <1>2, <1>3 DEF Settled, Wrong
<1>5. \A q \in DOMAIN edges : Kept(q)
  BY <1>2 DEF Kept
<1>6. EdgesStay
  BY <1>1, <1>2, <1>4, <1>5 DEF EdgesStay, Joined
<1> QED
  BY <1>6 DEF Joined, MapStays, NodesStay, PlacesStay

LEMMA LengthSaved ==
  ASSUME Joined, NEW p \in DOMAIN edges, NEW length, NEW weight,
         edges' = [edges EXCEPT ![p].length = length, ![p].late = length # Span(p), ![p].weight = weight],
         nodes' = nodes, last' = last
  PROVE  MapStays /\ Settled(p)'
<1>1. {"length", "late"} \subseteq DOMAIN edges[p]
  BY DEF Joined
<1>2. /\ DOMAIN edges' = DOMAIN edges /\ DOMAIN edges'[p] = DOMAIN edges[p]
      /\ \A q \in DOMAIN edges \ {p} : edges'[q] = edges[q]
  OBVIOUS
<1>3. edges'[p].length = length
  BY <1>1
<1>4. edges'[p].late <=> length # Span(p)
  BY <1>1
<1>5. Span(p)' = Span(p)
  BY DEF Span
<1>6. Settled(p)'
  BY <1>3, <1>4, <1>5 DEF Settled, Wrong
<1>7. \A q \in DOMAIN edges \ {p} : Kept(q) /\ {"length", "late"} \subseteq DOMAIN edges'[q]
  BY <1>2 DEF Kept, Joined
<1>8. \A q \in DOMAIN edges : {"length", "late"} \subseteq DOMAIN edges'[q] /\ (Kept(q) \/ Settled(q)')
  BY <1>1, <1>2, <1>6, <1>7
<1>9. MapStays
  BY <1>2, <1>8, EdgesChange
<1> QED
  BY <1>6, <1>9

LEMMA PatchStays ==
  ASSUME Joined, NEW e \in Editor, PatchEdge(e), ~Stop(e)
  PROVE  MapStays
<1> DEFINE c == edit[e].want
           p == c.pair
<1>1. PICK weight, transit : edges' = [edges EXCEPT ![p].weight = weight, ![p].transit = transit]
  BY DEF PatchEdge
<1>2. nodes' = nodes /\ last' = last /\ p \in DOMAIN edges
  BY DEF PatchEdge
<1> HIDE DEF p
<1>3. DOMAIN edges' = DOMAIN edges /\ \A q \in DOMAIN edges \ {p} : edges'[q] = edges[q]
  BY <1>1
<1>4. /\ DOMAIN edges'[p] = DOMAIN edges[p]
      /\ "length" \in DOMAIN edges[p] => edges'[p].length = edges[p].length
      /\ "late" \in DOMAIN edges[p] => edges'[p].late = edges[p].late
  BY <1>1, <1>2
<1>5. Kept(p) /\ {"length", "late"} \subseteq DOMAIN edges'[p]
  BY <1>2, <1>4 DEF Kept, Joined
<1>6. \A q \in DOMAIN edges \ {p} : Kept(q) /\ {"length", "late"} \subseteq DOMAIN edges'[q]
  BY <1>3 DEF Kept, Joined
<1> QED
  BY <1>2, <1>3, <1>5, <1>6, EdgesChange

(* The type of a node and its point of interest are not where it is.        *)
LEMMA PoiStays ==
  ASSUME Joined, NEW n \in DOMAIN nodes, NEW poi, NEW type,
         nodes' = [nodes EXCEPT ![n].poi = poi, ![n].type = type], edges' = edges, last' = last
  PROVE  MapStays
<1>1. DOMAIN nodes' = DOMAIN nodes /\ \A m \in DOMAIN nodes \ {n} : nodes'[m] = nodes[m]
  OBVIOUS
<1>2. /\ DOMAIN nodes'[n] = DOMAIN nodes[n]
      /\ "floor" \in DOMAIN nodes[n] => nodes'[n].floor = nodes[n].floor
      /\ "place" \in DOMAIN nodes[n] => nodes'[n].place = nodes[n].place
  OBVIOUS
<1>3. \A m \in DOMAIN nodes : {"floor", "place"} \subseteq DOMAIN nodes'[m]
        /\ nodes'[m].floor = nodes[m].floor /\ nodes'[m].place = nodes[m].place
  BY <1>1, <1>2 DEF Joined
<1>4. NodesStay /\ EdgesStay
  BY <1>1, <1>3, NodesChange
<1> QED
  BY <1>1, <1>3, <1>4 DEF MapStays, PlacesStay

(* A node that moves stays on its floor, and the others stay.               *)
LEMMA NodeMoves ==
  ASSUME Joined, NEW n \in DOMAIN nodes, NEW place, NEW type,
         nodes' = [nodes EXCEPT ![n].place = place, ![n].type = type], edges' = edges, last' = last
  PROVE  /\ NodesStay /\ EdgesStay
         /\ \A m \in DOMAIN nodes \ {n} : nodes'[m] = nodes[m]
         /\ place = nodes[n].place => PlacesStay
<1>1. DOMAIN nodes' = DOMAIN nodes /\ \A m \in DOMAIN nodes \ {n} : nodes'[m] = nodes[m]
  OBVIOUS
<1>2. /\ DOMAIN nodes'[n] = DOMAIN nodes[n]
      /\ "floor" \in DOMAIN nodes[n] => nodes'[n].floor = nodes[n].floor
      /\ "place" \in DOMAIN nodes[n] => nodes'[n].place = place
  OBVIOUS
<1>3. \A m \in DOMAIN nodes : {"floor", "place"} \subseteq DOMAIN nodes'[m] /\ nodes'[m].floor = nodes[m].floor
  BY <1>1, <1>2 DEF Joined
<1>4. NodesStay /\ EdgesStay
  BY <1>1, <1>3, NodesChange
<1>5. place = nodes[n].place => PlacesStay
  BY <1>1, <1>2 DEF PlacesStay, Joined
<1> QED
  BY <1>1, <1>4, <1>5

\* The lengths track the places, and what that rests on.
Tracking == Joined /\ Crossed /\ Looked /\ Tracked

LEMMA OrdinaryStep ==
  ASSUME Tracking, MapStays, NEW e \in Editor, \A d \in Editor \ {e} : edit'[d] = edit[d],
         edit[e].step \notin Recomputing, edit'[e].step \notin Recomputing
  PROVE  Tracking'
<1>1. Joined /\ NodesStay /\ PlacesStay /\ EdgesStay
  BY DEF Tracking, MapStays
<1>2. OwersStay
  <2>1. \A p : ~Owes(edit[e], p)
    BY DEF Owes, Recomputing
  <2> QED
    BY <2>1 DEF OwersStay
<1>3. \A d \in Editor : edit'[d].step \in Recomputing \ {"place"} =>
           \/ /\ edit[d].step \in Recomputing \ {"place"}
              /\ edit'[d].want = edit[d].want /\ edit'[d].seen = edit[d].seen
           \/ edit'[d].want.node \in DOMAIN nodes /\ edit'[d].seen.floor = nodes[edit'[d].want.node].floor
  OBVIOUS
<1>4. Looked'
  BY <1>1, <1>3, LookedStep DEF Tracking
<1> QED
  BY <1>1, <1>2, <1>4, JoinedStep, CrossedStep, TrackedStep DEF Tracking

LEMMA GoesTo ==
  ASSUME Steady, NEW e \in Editor, edit[e].step # "rest", NEW step, NEW more, On(e, step, more),
         {"step", "want"} \cap DOMAIN more = {}
  PROVE  /\ edit'[e].step = step /\ edit'[e].want = edit[e].want
         /\ \A d \in Editor \ {e} : edit'[d] = edit[d]
         /\ "dirty" \notin DOMAIN more => edit'[e].dirty = edit[e].dirty
         /\ "dirty" \in DOMAIN more => edit'[e].dirty = more.dirty
         /\ "seen" \notin DOMAIN more => edit'[e].seen = edit[e].seen
         /\ "seen" \in DOMAIN more => edit'[e].seen = more.seen
         /\ "left" \notin DOMAIN more => edit'[e].left = edit[e].left
         /\ "left" \in DOMAIN more => edit'[e].left = more.left
<1> PICK k : k = Over(more, [edit[e] EXCEPT !.step = step])
  OBVIOUS
<1>1. IsTask(edit[e])
  BY DEF Steady, Sound, Rest
<1>2. edit' = [edit EXCEPT ![e] = k]
  BY DEF On
<1>3. edit'[e] = k /\ \A d \in Editor \ {e} : edit'[d] = edit[d]
  BY <1>2 DEF Steady
<1>4. k.step = step /\ k.want = edit[e].want
  BY <1>1, GoesOn
<1>5. "dirty" \notin DOMAIN more => k.dirty = edit[e].dirty
  BY <1>1, GoesOn
<1>6. "dirty" \in DOMAIN more => k.dirty = more.dirty
  BY <1>1, GoesOn
<1>7. /\ "seen" \notin DOMAIN more => k.seen = edit[e].seen
      /\ "seen" \in DOMAIN more => k.seen = more.seen
  BY <1>1, GoesOn
<1>8. /\ "left" \notin DOMAIN more => k.left = edit[e].left
      /\ "left" \in DOMAIN more => k.left = more.left
  BY <1>1, GoesOn
<1> QED
  BY <1>3, <1>4, <1>5, <1>6, <1>7, <1>8

LEMMA OrdinaryOn ==
  ASSUME Steady, Tracking, MapStays, NEW e \in Editor, edit[e].step # "rest", edit[e].step \notin Recomputing,
         NEW step, step \notin Recomputing, NEW more, On(e, step, more),
         {"step", "want"} \cap DOMAIN more = {}
  PROVE  Tracking'
<1>1. edit'[e].step = step /\ \A d \in Editor \ {e} : edit'[d] = edit[d]
  BY GoesTo
<1> QED
  BY <1>1, OrdinaryStep

LEMMA OrdinaryCommit ==
  ASSUME Steady, Tracking, MapStays, NEW e \in Editor, edit[e].step # "rest", edit[e].step \notin Recomputing,
         NEW step, step \notin Recomputing, NEW more, Commit(e, step, more),
         {"step", "want", "dirty"} \cap DOMAIN more = {}
  PROVE  Tracking'
<1> PICK m : m = Over([dirty |-> TRUE], more)
  OBVIOUS
<1>1. On(e, step, m)
  BY DEF Commit
<1>2. DOMAIN m = {"dirty"} \cup DOMAIN more
  BY CommitNotes
<1>3. {"step", "want"} \cap DOMAIN m = {}
  BY <1>2
<1> QED
  BY <1>1, <1>3, OrdinaryOn

LEMMA StopTracks ==
  ASSUME Steady, Tracking, NEW e \in Editor, Stop(e)
  PROVE  Tracking'
<1>1. MapStays /\ \A p \in DOMAIN edges' :
        Moving(edit[e]) /\ edit[e].want.node \in {p[1], p[2]} => Settled(p)'
  BY StopSettles DEF Tracking
<1>2. edit'[e] = Rest /\ \A d \in Editor \ {e} : edit'[d] = edit[d]
  BY DEF Stop, Steady
<1>3. Joined /\ NodesStay /\ PlacesStay /\ EdgesStay
  BY <1>1 DEF Tracking, MapStays
<1>4. OwersStay
  BY <1>1, <1>2 DEF OwersStay, Owes
<1>5. \A d \in Editor : edit'[d].step \in Recomputing \ {"place"} =>
           \/ /\ edit[d].step \in Recomputing \ {"place"}
              /\ edit'[d].want = edit[d].want /\ edit'[d].seen = edit[d].seen
           \/ edit'[d].want.node \in DOMAIN nodes /\ edit'[d].seen.floor = nodes[edit'[d].want.node].floor
  BY <1>2 DEF Rest, Recomputing
<1>6. Looked'
  BY <1>3, <1>5, LookedStep DEF Tracking
<1> QED
  BY <1>3, <1>4, <1>6, JoinedStep, CrossedStep, TrackedStep DEF Tracking

(* Every request but those of the recomputation, floors first.              *)
LEMMA FloorsTrack ==
  ASSUME Steady, Tracking, NEW e \in Editor, ~Stop(e),
         \/ DeleteBuilding(e) \/ EraseBuilding(e) \/ SaveProfile(e) \/ CreateFloor(e) \/ PatchFloor(e)
         \/ DeleteFloor(e) \/ DeleteFloorAt(e) \/ DropUnnamed(e)
         \/ StackFloor(e) \/ ParkFloors(e) \/ FillFloor(e) \/ SettleFloor(e) \/ FloorFor(e)
  PROVE  Tracking'
<1>0. Joined
  BY DEF Tracking
<1>1. CASE DeleteBuilding(e) \/ EraseBuilding(e) \/ DeleteFloor(e) \/ DeleteFloorAt(e) \/ DropUnnamed(e)
  <2>1. edit[e].step = "write" /\ last' = last /\ (\E kept : KeepFloors(kept))
        /\ \E step \in {"invalidate", "park", "end"} : Commit(e, step, <<>>)
    BY <1>1 DEF DeleteBuilding, EraseBuilding, DeleteFloor, DeleteFloorAt, DropUnnamed, Doing
  <2>2. MapStays
    BY <1>0, <2>1, FloorsGo
  <2> QED
    BY <2>1, <2>2, OrdinaryCommit DEF Recomputing
<1>2. CASE SaveProfile(e) \/ PatchFloor(e)
  <2>1. edit[e].step = "write" /\ UNCHANGED <<nodes, edges, last>> /\ Commit(e, "invalidate", <<>>)
    BY <1>2 DEF SaveProfile, PatchFloor, Doing, rows
  <2>2. MapStays
    BY <1>0, <2>1, MapStands
  <2> QED
    BY <2>1, <2>2, OrdinaryCommit DEF Recomputing
<1>3. CASE CreateFloor(e)
  <2>1. edit[e].step = "write" /\ UNCHANGED <<nodes, edges>> /\ last' = last + 1 /\ Commit(e, "invalidate", <<>>)
    BY <1>3 DEF CreateFloor, Doing, AddFloor
  <2>2. MapStays
    BY <1>0, <2>1, MapStands
  <2> QED
    BY <2>1, <2>2, OrdinaryCommit DEF Recomputing
<1>4. CASE StackFloor(e) \/ ParkFloors(e)
  <2>1. /\ edit[e].step \in {"stack", "park"} /\ UNCHANGED <<nodes, edges>> /\ (last' = last \/ last' = last + 1)
        /\ \E step \in {"stack", "fill"} : \E left : Commit(e, step, [left |-> left])
    BY <1>4 DEF StackFloor, ParkFloors, Doing, AddFloor
  <2>2. MapStays
    BY <1>0, <2>1, MapStands
  <2>3a. PICK step \in {"stack", "fill"} : \E left : Commit(e, step, [left |-> left])
    BY <2>1
  <2>3. PICK left : Commit(e, step, [left |-> left])
    BY <2>3a
  <2>4. {"step", "want", "dirty"} \cap DOMAIN [left |-> left] = {}
    OBVIOUS
  <2> QED
    BY <2>1, <2>2, <2>3, <2>4, OrdinaryCommit DEF Recomputing
<1>5. CASE FillFloor(e)
  <2>1. /\ edit[e].step = "fill" /\ UNCHANGED <<nodes, edges>> /\ (last' = last \/ last' = last + 1)
        /\ \/ \E left : On(e, "settle", [left |-> left])
           \/ \E left, seen : Commit(e, "fill", [left |-> left, seen |-> seen])
    BY <1>5 DEF FillFloor, Doing, AddFloor, Advance, rows
  <2>2. MapStays
    BY <1>0, <2>1, MapStands
  <2>3. CASE \E left : On(e, "settle", [left |-> left])
    <3>1. PICK left : On(e, "settle", [left |-> left])
      BY <2>3
    <3>2. {"step", "want"} \cap DOMAIN [left |-> left] = {}
      OBVIOUS
    <3> QED
      BY <2>1, <2>2, <3>1, <3>2, OrdinaryOn DEF Recomputing
  <2>4. CASE \E left, seen : Commit(e, "fill", [left |-> left, seen |-> seen])
    <3>1. PICK left, seen : Commit(e, "fill", [left |-> left, seen |-> seen])
      BY <2>4
    <3>2. {"step", "want", "dirty"} \cap DOMAIN [left |-> left, seen |-> seen] = {}
      OBVIOUS
    <3> QED
      BY <2>1, <2>2, <3>1, <3>2, OrdinaryCommit DEF Recomputing
  <2> QED
    BY <2>1, <2>3, <2>4
<1>6. CASE SettleFloor(e)
  <2>1. /\ edit[e].step = "settle" /\ UNCHANGED <<nodes, edges, last>>
        /\ \/ On(e, "invalidate", <<>>)
           \/ \E left : Commit(e, "settle", [left |-> left])
    BY <1>6 DEF SettleFloor, Doing, Advance, rows
  <2>2. MapStays
    BY <1>0, <2>1, MapStands
  <2>3. CASE On(e, "invalidate", <<>>)
    BY <2>1, <2>2, <2>3, OrdinaryOn DEF Recomputing
  <2>4. CASE \E left : Commit(e, "settle", [left |-> left])
    <3>1. PICK left : Commit(e, "settle", [left |-> left])
      BY <2>4
    <3>2. {"step", "want", "dirty"} \cap DOMAIN [left |-> left] = {}
      OBVIOUS
    <3> QED
      BY <2>1, <2>2, <3>1, <3>2, OrdinaryCommit DEF Recomputing
  <2> QED
    BY <2>1, <2>3, <2>4
<1>7. CASE FloorFor(e)
  <2>1. edit[e].step = "floorFor" /\ UNCHANGED <<nodes, edges>> /\ last' = last + 1
        /\ \E seen : Commit(e, "write", [seen |-> seen])
    BY <1>7 DEF FloorFor, Doing, AddFloor
  <2>2. MapStays
    BY <1>0, <2>1, MapStands
  <2>3. PICK seen : Commit(e, "write", [seen |-> seen])
    BY <2>1
  <2>4. {"step", "want", "dirty"} \cap DOMAIN [seen |-> seen] = {}
    OBVIOUS
  <2> QED
    BY <2>1, <2>2, <2>3, <2>4, OrdinaryCommit DEF Recomputing
<1> QED
  BY <1>1, <1>2, <1>3, <1>4, <1>5, <1>6, <1>7

(* Requests that come, and those that go.                                   *)
LEMMA RequestsTrack ==
  ASSUME Steady, Tracking, NEW e \in Editor, ~Stop(e), Receive(e) \/ Invalidate(e) \/ CreateBuilding(e)
  PROVE  Tracking'
<1>1. UNCHANGED <<nodes, edges, last>> /\ edit[e].step \notin Recomputing
  BY DEF Receive, Invalidate, CreateBuilding, Found, Doing, rows, Rest, Recomputing
<1>2. MapStays
  BY <1>1, MapStands DEF Tracking
<1>3. CASE Receive(e)
  <2>1. PICK c \in Changes :
          edit' = [edit EXCEPT ![e] =
            IF Refuses(c) THEN Rest
            ELSE [step |-> FirstStep(c), dirty |-> FALSE, want |-> c, seen |-> Seen(c),
                  pairs |-> IF c.op \in {"connect", "link", "join"} THEN <<c.pair>> ELSE <<>>,
                  cuts |-> <<>>, left |-> <<>>]]
    BY <1>3 DEF Receive
  <2>2. FirstStep(c) \in {"plan", "take", "floorFor", "write"}
    BY DEF FirstStep
  <2>3. edit'[e].step \notin Recomputing /\ \A d \in Editor \ {e} : edit'[d] = edit[d]
    BY <2>1, <2>2 DEF Steady, Rest, Recomputing
  <2> QED
    BY <1>1, <1>2, <2>3, OrdinaryStep
<1>4. CASE edit' = [edit EXCEPT ![e] = Rest]
  <2>1. edit'[e].step \notin Recomputing /\ \A d \in Editor \ {e} : edit'[d] = edit[d]
    BY <1>4 DEF Steady, Rest, Recomputing
  <2> QED
    BY <1>1, <1>2, <2>1, OrdinaryStep
<1>5. CASE CreateBuilding(e) /\ On(e, "stack", [left |-> edit[e].want.names])
  <2>1. edit[e].step # "rest" /\ On(e, "stack", [left |-> edit[e].want.names])
    BY <1>5 DEF CreateBuilding, Doing
  <2>2. {"step", "want"} \cap DOMAIN [left |-> edit[e].want.names] = {}
    OBVIOUS
  <2> QED
    BY <1>1, <1>2, <2>1, <2>2, OrdinaryOn DEF Recomputing
<1> QED
  BY <1>3, <1>4, <1>5 DEF Invalidate, CreateBuilding, Found

LEMMA NodesTrack ==
  ASSUME Steady, Tracking, NEW e \in Editor, ~Stop(e),
         CreateNode(e) \/ PostNode(e) \/ DeleteNode(e) \/ SavePoi(e) \/ RemovePoi(e)
  PROVE  Tracking'
<1>0. Joined /\ edit[e].step = "write"
  BY DEF Tracking, CreateNode, PostNode, DeleteNode, SavePoi, RemovePoi, Doing
<1>1. CASE CreateNode(e)
  <2>1. (\E floor, place : AddNode(floor, place)) /\ Commit(e, "invalidate", <<>>)
    BY <1>1 DEF CreateNode
  <2>2. MapStays
    BY <1>0, <2>1, NodeComes
  <2> QED
    BY <1>0, <2>1, <2>2, OrdinaryCommit DEF Recomputing
<1>2. CASE PostNode(e)
  <2>1. (\E floor, place : AddNode(floor, place))
        /\ \E step \in {"invalidate", "take"} : \E pairs : Commit(e, step, [pairs |-> pairs])
    BY <1>2 DEF PostNode
  <2>2. MapStays
    BY <1>0, <2>1, NodeComes
  <2>3a. PICK step \in {"invalidate", "take"} : \E pairs : Commit(e, step, [pairs |-> pairs])
    BY <2>1
  <2>3. PICK pairs : Commit(e, step, [pairs |-> pairs])
    BY <2>3a
  <2>4. {"step", "want", "dirty"} \cap DOMAIN [pairs |-> pairs] = {}
    OBVIOUS
  <2> QED
    BY <1>0, <2>2, <2>3, <2>4, OrdinaryCommit DEF Recomputing
<1>3. CASE DeleteNode(e)
  <2> DEFINE n == edit[e].want.node
             D == DOMAIN nodes \ {n}
             E == DOMAIN edges \ Touching(n)
  <2>1. nodes' = [m \in D |-> nodes[m]] /\ edges' = [p \in E |-> edges[p]] /\ last' = last
        /\ Commit(e, "invalidate", <<>>)
    BY <1>3 DEF DeleteNode, Restrict
  <2>2. \A m \in DOMAIN nodes' : m \in DOMAIN nodes /\ nodes'[m] = nodes[m]
    BY <2>1
  <2>3. \A p \in DOMAIN edges' : /\ p \in DOMAIN edges /\ edges'[p] = edges[p]
                                 /\ p[1] \in DOMAIN nodes' /\ p[2] \in DOMAIN nodes'
    BY <1>0, <2>1 DEF Touching, Joined
  <2>4. MapStays
    BY <1>0, <2>1, <2>2, <2>3, MapShrinks
  <2> QED
    BY <1>0, <2>1, <2>4, OrdinaryCommit DEF Recomputing
<1>4. CASE (SavePoi(e) \/ RemovePoi(e)) /\ edit[e].want.node \in DOMAIN nodes
  <2> DEFINE n == edit[e].want.node
  <2>1. \E poi, type : nodes' = [nodes EXCEPT ![n].poi = poi, ![n].type = type]
    <3>1. CASE SavePoi(e)
      BY <1>4, <3>1 DEF SavePoi
    <3>2. CASE RemovePoi(e)
      BY <1>4, <3>2 DEF RemovePoi
    <3> QED
      BY <1>4, <3>1, <3>2
  <2>2. edges' = edges /\ last' = last /\ Commit(e, "invalidate", <<>>) /\ n \in DOMAIN nodes
    BY <1>4 DEF SavePoi, RemovePoi
  <2>3. PICK poi, type : nodes' = [nodes EXCEPT ![n].poi = poi, ![n].type = type]
    BY <2>1
  <2>4. MapStays
    <3> HIDE DEF n
    <3> QED
      BY <1>0, <2>2, <2>3, PoiStays
  <2> QED
    BY <1>0, <2>2, <2>4, OrdinaryCommit DEF Recomputing
<1>5. CASE (SavePoi(e) \/ RemovePoi(e)) /\ edit[e].want.node \notin DOMAIN nodes
  <2>1. UNCHANGED <<nodes, edges, last>> /\ On(e, "invalidate", <<>>)
    BY <1>5 DEF SavePoi, RemovePoi, Advance, rows
  <2>2. MapStays
    BY <1>0, <2>1, MapStands
  <2> QED
    BY <1>0, <2>1, <2>2, OrdinaryOn DEF Recomputing
<1> QED
  BY <1>1, <1>2, <1>3, <1>4, <1>5

LEMMA EdgesTrack ==
  ASSUME Steady, Tracking, NEW e \in Editor, ~Stop(e),
         \/ Plan(e) \/ TakeEnds(e) \/ InsertEdge(e) \/ Diff(e)
         \/ CutLink(e) \/ PatchEdge(e) \/ DeleteEdge(e)
  PROVE  Tracking'
<1>0. Joined /\ edit[e].step # "rest" /\ edit[e].step \notin Recomputing
  BY DEF Tracking, Plan, TakeEnds, InsertEdge, Diff, CutLink, PatchEdge, DeleteEdge, Doing, Recomputing
<1>1. CASE UNCHANGED <<nodes, edges, last>>
           /\ \E step, more : step \in {"take", "cut", "invalidate", "insert"} /\
                On(e, step, more) /\ {"step", "want"} \cap DOMAIN more = {}
  <2>1. MapStays
    BY <1>0, <1>1, MapStands
  <2> QED
    BY <1>0, <1>1, <2>1, OrdinaryOn DEF Recomputing
<1>2. ASSUME PassOver(e)
      PROVE  Tracking'
  <2>1. UNCHANGED <<nodes, edges, last>> /\ On(e, NextPair(edit[e]), [pairs |-> Tail(edit[e].pairs)])
    BY <1>2 DEF PassOver, Advance, rows
  <2>2. NextPair(edit[e]) \in {"take", "cut", "invalidate", "insert"}
    BY DEF NextPair
  <2>3. {"step", "want"} \cap DOMAIN [pairs |-> Tail(edit[e].pairs)] = {}
    OBVIOUS
  <2> QED
    BY <1>1, <2>1, <2>2, <2>3
<1>3. CASE Plan(e)
  <2>1. UNCHANGED <<nodes, edges, last>>
        /\ \E step \in {"take", "invalidate"} : \E pairs : On(e, step, [pairs |-> pairs])
    BY <1>3 DEF Plan, Advance, rows
  <2>2a. PICK step \in {"take", "invalidate"} : \E pairs : On(e, step, [pairs |-> pairs])
    BY <2>1
  <2>2. PICK pairs : On(e, step, [pairs |-> pairs])
    BY <2>2a
  <2>3. {"step", "want"} \cap DOMAIN [pairs |-> pairs] = {}
    OBVIOUS
  <2> QED
    BY <1>1, <2>1, <2>2, <2>3
<1>4. CASE TakeEnds(e)
  <2>1. CASE PassOver(e)
    BY <1>2, <2>1
  <2>2. CASE ~PassOver(e)
    <3>1. UNCHANGED <<nodes, edges, last>> /\ \E seen : On(e, "insert", [seen |-> seen])
      BY <1>4, <2>2 DEF TakeEnds, Advance, rows
    <3>2. PICK seen : On(e, "insert", [seen |-> seen])
      BY <3>1
    <3>3. {"step", "want"} \cap DOMAIN [seen |-> seen] = {}
      OBVIOUS
    <3> QED
      BY <1>1, <3>1, <3>2, <3>3
  <2> QED
    BY <2>1, <2>2
<1>5. CASE InsertEdge(e)
  <2>1. CASE PassOver(e)
    BY <1>2, <2>1
  <2>2. CASE ~PassOver(e)
    <3> DEFINE t == edit[e]
               p == NormalizePair(Head(t.pairs)[1], Head(t.pairs)[2])
    <3>1. /\ t.step = "insert" /\ p \notin DOMAIN edges /\ Both(p) \subseteq DOMAIN nodes
          /\ last' = last + 1 /\ nodes' = nodes
          /\ edges' = Adding(edges, p, Over([id |-> last', late |-> t.seen.length # Span(p)], t.seen))
          /\ Commit(e, NextPair(t), [pairs |-> Tail(t.pairs)])
      BY <1>5, <2>2 DEF InsertEdge
    <3>2. "length" \in DOMAIN t.seen
      BY <1>0, <3>1, UnderWay DEF Sound, Measured
    <3>3. p[1] \in DOMAIN nodes /\ p[2] \in DOMAIN nodes
      BY <3>1 DEF Both
    <3> HIDE DEF p
    <3>4. MapStays
      BY <1>0, <3>1, <3>2, <3>3, EdgeComes
    <3>5. NextPair(t) \notin Recomputing
      BY DEF NextPair, Recomputing
    <3>6. {"step", "want", "dirty"} \cap DOMAIN [pairs |-> Tail(t.pairs)] = {}
      OBVIOUS
    <3> QED
      BY <1>0, <3>1, <3>4, <3>5, <3>6, OrdinaryCommit
  <2> QED
    BY <2>1, <2>2
<1>6. CASE Diff(e)
  <2>1. UNCHANGED <<nodes, edges, last>>
        /\ \E step \in {"take", "cut", "invalidate"} : \E pairs, cuts : On(e, step, [pairs |-> pairs, cuts |-> cuts])
    BY <1>6 DEF Diff, Advance, NextPair, rows
  <2>2a. PICK step \in {"take", "cut", "invalidate"} : \E pairs, cuts : On(e, step, [pairs |-> pairs, cuts |-> cuts])
    BY <2>1
  <2>2. PICK pairs, cuts : On(e, step, [pairs |-> pairs, cuts |-> cuts])
    BY <2>2a
  <2>3. {"step", "want"} \cap DOMAIN [pairs |-> pairs, cuts |-> cuts] = {}
    OBVIOUS
  <2> QED
    BY <1>1, <2>1, <2>2, <2>3
<1>7. ASSUME NEW p, edges' = Restrict(edges, DOMAIN edges \ {p}), UNCHANGED <<nodes, last>>
      PROVE  MapStays
  <2>1. \A n \in DOMAIN nodes' : n \in DOMAIN nodes /\ nodes'[n] = nodes[n]
    BY <1>7
  <2>2. \A q \in DOMAIN edges' : /\ q \in DOMAIN edges /\ edges'[q] = edges[q]
                                 /\ q[1] \in DOMAIN nodes' /\ q[2] \in DOMAIN nodes'
    BY <1>0, <1>7 DEF Restrict, Joined
  <2> QED
    BY <1>0, <1>7, <2>1, <2>2, MapShrinks
<1>8. CASE CutLink(e)
  <2>1. (\E p : edges' = Restrict(edges, DOMAIN edges \ {p})) /\ UNCHANGED <<nodes, last>>
        /\ \E step \in {"cut", "invalidate"} : \E cuts : On(e, step, [cuts |-> cuts])
    BY <1>8 DEF CutLink
  <2>2. MapStays
    BY <1>7, <2>1
  <2>3a. PICK step \in {"cut", "invalidate"} : \E cuts : On(e, step, [cuts |-> cuts])
    BY <2>1
  <2>3. PICK cuts : On(e, step, [cuts |-> cuts])
    BY <2>3a
  <2>4. {"step", "want"} \cap DOMAIN [cuts |-> cuts] = {}
    OBVIOUS
  <2> QED
    BY <1>0, <2>2, <2>3, <2>4, OrdinaryOn DEF Recomputing
<1>9. CASE DeleteEdge(e)
  <2>1. (\E p : edges' = Restrict(edges, DOMAIN edges \ {p})) /\ UNCHANGED <<nodes, last>>
        /\ Commit(e, "invalidate", <<>>)
    BY <1>9 DEF DeleteEdge
  <2>2. MapStays
    BY <1>7, <2>1
  <2> QED
    BY <1>0, <2>1, <2>2, OrdinaryCommit DEF Recomputing
<1>10. CASE PatchEdge(e)
  <2>1. MapStays
    BY <1>0, <1>10, PatchStays
  <2>2. Commit(e, "invalidate", <<>>)
    BY <1>10 DEF PatchEdge
  <2> QED
    BY <1>0, <2>1, <2>2, OrdinaryCommit DEF Recomputing
<1> QED
  BY <1>3, <1>4, <1>5, <1>6, <1>8, <1>9, <1>10

(* The recomputation: what is owed stays owed until it is settled.          *)
LEMMA RecomputationStep ==
  ASSUME Tracking, MapStays, NEW e \in Editor, \A d \in Editor \ {e} : edit'[d] = edit[d],
         \A p \in DOMAIN edges' : Owes(edit[e], p) => Owes(edit'[e], p) \/ Settled(p)',
         edit'[e].step \in Recomputing \ {"place"} =>
           \/ /\ edit[e].step \in Recomputing \ {"place"}
              /\ edit'[e].want = edit[e].want /\ edit'[e].seen = edit[e].seen
           \/ edit'[e].want.node \in DOMAIN nodes /\ edit'[e].seen.floor = nodes[edit'[e].want.node].floor
  PROVE  Tracking'
<1>1. Joined /\ NodesStay /\ PlacesStay /\ EdgesStay
  BY DEF Tracking, MapStays
<1>2. OwersStay
  BY DEF OwersStay
<1>3. \A d \in Editor : edit'[d].step \in Recomputing \ {"place"} =>
           \/ /\ edit[d].step \in Recomputing \ {"place"}
              /\ edit'[d].want = edit[d].want /\ edit'[d].seen = edit[d].seen
           \/ edit'[d].want.node \in DOMAIN nodes /\ edit'[d].seen.floor = nodes[edit'[d].want.node].floor
  OBVIOUS
<1>4. Looked'
  BY <1>1, <1>3, LookedStep DEF Tracking
<1> QED
  BY <1>1, <1>2, <1>4, JoinedStep, CrossedStep, TrackedStep DEF Tracking

(* A node that is moved owes all its edges their lengths.                   *)
LEMMA MoveTracks ==
  ASSUME Steady, Tracking, NEW e \in Editor, ~Stop(e), PatchNode(e) \/ PutNode(e)
  PROVE  Tracking'
<1> DEFINE c == edit[e].want
           n == c.node
<1>1. edit[e].step = "write" /\ c.op \in {"node", "putNode"} /\ n \in DOMAIN nodes
      /\ edges' = edges /\ last' = last
  BY DEF PatchNode, PutNode, UpdateNode, Doing
<1>2. PICK place, type : /\ nodes' = [nodes EXCEPT ![n].place = place, ![n].type = type]
                         /\ c.place = <<>> => place = nodes[n].place
  BY DEF PatchNode, PutNode, UpdateNode
<1>3. Commit(e, IF c.place # <<>> THEN "place" ELSE AfterMove(c), <<>>)
  BY DEF PatchNode, PutNode, UpdateNode
<1>4. /\ NodesStay /\ EdgesStay
      /\ \A m \in DOMAIN nodes \ {n} : nodes'[m] = nodes[m]
      /\ place = nodes[n].place => PlacesStay
  <2> HIDE DEF n
  <2> QED
    BY <1>1, <1>2, NodeMoves DEF Tracking
<1>5. CASE c.place = <<>>
  <2>1. MapStays
    BY <1>2, <1>4, <1>5 DEF MapStays
  <2>2. AfterMove(c) \notin Recomputing
    BY DEF AfterMove, Recomputing
  <2> QED
    BY <1>1, <1>3, <1>5, <2>1, <2>2, OrdinaryCommit DEF Recomputing
<1>6. CASE c.place # <<>>
  <2>1. Commit(e, "place", <<>>) /\ edit[e].step # "rest"
    BY <1>1, <1>3, <1>6
  <2>2. edit'[e].dirty
    BY <2>1, CommitsDirty
  <2>3. edit'[e].step = "place" /\ edit'[e].want = c /\ \A d \in Editor \ {e} : edit'[d] = edit[d]
    <3> PICK more : more = Over([dirty |-> TRUE], <<>>)
      OBVIOUS
    <3>1. On(e, "place", more)
      BY <2>1 DEF Commit
    <3>2. {"step", "want"} \cap DOMAIN more = {}
      <4>1. DOMAIN more = {"dirty"} \cup DOMAIN <<>>
        BY CommitNotes
      <4>2. DOMAIN <<>> = {}
        OBVIOUS
      <4> QED
        BY <4>1, <4>2
    <3> QED
      BY <2>1, <3>1, <3>2, GoesTo
  <2>4. \A p \in DOMAIN edges : n \in {p[1], p[2]} => Owes(edit'[e], p)
    BY <1>1, <2>2, <2>3 DEF Owes, Moving
  <2>5. \A p \in DOMAIN edges : n \notin {p[1], p[2]} => Span(p)' = Span(p)
    BY <1>4 DEF Tracking, Joined, Span
  <2>6. \A p : ~Owes(edit[e], p)
    BY <1>1 DEF Owes
  <2>7. Tracked'
    <3> SUFFICES ASSUME NEW p \in DOMAIN edges', ~Settled(p)'
                 PROVE  \E d \in Editor : Owes(edit'[d], p)
      BY DEF Tracked, Owes, Moving
    <3>1. CASE n \in {p[1], p[2]}
      BY <1>1, <2>4, <3>1
    <3>2. CASE n \notin {p[1], p[2]}
      <4>1. p \in DOMAIN edges /\ ~Settled(p)
        BY <1>1, <2>5, <3>2 DEF Settled, Wrong
      <4>2. PICK d \in Editor : Owes(edit[d], p)
        BY <4>1 DEF Tracking, Tracked
      <4> QED
        BY <2>3, <2>6, <4>2
    <3> QED
      BY <3>1, <3>2
  <2>8. \A d \in Editor : edit'[d].step \in Recomputing \ {"place"} =>
             \/ /\ edit[d].step \in Recomputing \ {"place"}
                /\ edit'[d].want = edit[d].want /\ edit'[d].seen = edit[d].seen
             \/ edit'[d].want.node \in DOMAIN nodes /\ edit'[d].seen.floor = nodes[edit'[d].want.node].floor
    BY <2>3
  <2>9. Looked'
    BY <1>4, <2>8, LookedStep DEF Tracking
  <2> QED
    BY <1>4, <2>7, <2>9, JoinedStep, CrossedStep DEF Tracking
<1> QED
  BY <1>5, <1>6

(* The edge at the head of a list is seen to, the others remain.            *)
LEMMA HeadGoes ==
  ASSUME NEW left, left # <<>>, NEW S, left \in Seq(S), NEW p, NEW i \in DOMAIN left, left[i].pair = p,
         p # Head(left).pair
  PROVE  \E j \in DOMAIN Tail(left) : Tail(left)[j].pair = p
<1>1. i \in 1 .. Len(left) /\ Len(left) \in Nat /\ Head(left) = left[1]
  OBVIOUS
<1>2. i # 1
  BY <1>1
<1>3. Tail(left) \in Seq(S) /\ Len(Tail(left)) = Len(left) - 1
      /\ \A j \in 1 .. Len(left) - 1 : Tail(left)[j] = left[j + 1]
  BY <1>1, HeadTailProperties
<1>4. i - 1 \in 1 .. Len(left) - 1 /\ Tail(left)[i - 1] = left[i]
  BY <1>1, <1>2, <1>3
<1>5. DOMAIN Tail(left) = 1 .. Len(left) - 1
  BY <1>1, <1>3
<1> QED
  BY <1>4, <1>5

(* The next edge, or what comes after the last.                             *)
LEMMA NextTracks ==
  ASSUME Steady, Tracking, MapStays, NEW e \in Editor, edit[e].step \in {"edges", "other", "length"}, NEW left,
         NextEdge(e, left),
         \A p \in DOMAIN edges' : Owes(edit[e], p) => Settled(p)' \/ \E i \in DOMAIN left : left[i].pair = p
  PROVE  Tracking'
<1> DEFINE step == IF left = <<>> THEN AfterMove(edit[e].want) ELSE "other"
<1> PICK more : more = [left |-> left]
  OBVIOUS
<1>1. On(e, step, more)
  BY DEF NextEdge
<1>2. {"step", "want"} \cap DOMAIN more = {} /\ "dirty" \notin DOMAIN more /\ "seen" \notin DOMAIN more
      /\ "left" \in DOMAIN more /\ more.left = left
  OBVIOUS
<1>3. edit[e].step # "rest" /\ {"step", "want"} \cap DOMAIN more = {}
  BY <1>2
<1> HIDE DEF step
<1>4. /\ edit'[e].step = step /\ edit'[e].want = edit[e].want
      /\ \A d \in Editor \ {e} : edit'[d] = edit[d]
      /\ "dirty" \notin DOMAIN more => edit'[e].dirty = edit[e].dirty
      /\ "seen" \notin DOMAIN more => edit'[e].seen = edit[e].seen
      /\ "left" \in DOMAIN more => edit'[e].left = more.left
  BY <1>1, <1>3, GoesTo
<1>5. edit'[e].dirty = edit[e].dirty /\ edit'[e].seen = edit[e].seen /\ edit'[e].left = left
  BY <1>2, <1>4
<1>6. left = <<>> => step \notin Recomputing
  BY DEF step, AfterMove, Recomputing
<1>7. left # <<>> => step = "other"
  BY DEF step
<1>8. ASSUME NEW p \in DOMAIN edges', Owes(edit[e], p), ~Settled(p)'
      PROVE  Owes(edit'[e], p)
  <2>1. PICK i \in DOMAIN left : left[i].pair = p
    BY <1>8
  <2>2. step = "other"
    BY <1>7, <2>1
  <2>3. Moving(edit'[e]) /\ edit'[e].want.node \in {p[1], p[2]}
    BY <1>4, <1>5, <1>8 DEF Owes, Moving
  <2> QED
    BY <1>4, <1>5, <2>1, <2>2, <2>3 DEF Owes
<1>9. edit'[e].step \in Recomputing \ {"place"} =>
           \/ /\ edit[e].step \in Recomputing \ {"place"}
              /\ edit'[e].want = edit[e].want /\ edit'[e].seen = edit[e].seen
           \/ edit'[e].want.node \in DOMAIN nodes /\ edit'[e].seen.floor = nodes[edit'[e].want.node].floor
  BY <1>4, <1>5 DEF Recomputing
<1> QED
  BY <1>4, <1>8, <1>9, RecomputationStep

LEMMA PlaceTracks ==
  ASSUME Steady, Tracking, NEW e \in Editor, ReadPlace(e)
  PROVE  Tracking'
<1> DEFINE c == edit[e].want
           n == c.node
<1>1. edit[e].step = "place" /\ edit[e].step # "rest" /\ UNCHANGED <<nodes, edges, last>>
  BY DEF ReadPlace, Doing, Advance, rows
<1>2. MapStays
  BY <1>1, MapStands DEF Tracking
<1>3. CASE n \in DOMAIN nodes
  <2> PICK more : more = [seen |-> nodes[n]]
    OBVIOUS
  <2>1. {"step", "want"} \cap DOMAIN more = {} /\ "dirty" \notin DOMAIN more
        /\ "seen" \in DOMAIN more /\ more.seen = nodes[n]
    OBVIOUS
  <2>2. On(e, "edges", more) /\ {"step", "want"} \cap DOMAIN more = {}
    BY <1>3, <2>1 DEF ReadPlace, Advance
  <2>3. /\ edit'[e].step = "edges" /\ edit'[e].want = edit[e].want
        /\ \A d \in Editor \ {e} : edit'[d] = edit[d]
        /\ "dirty" \notin DOMAIN more => edit'[e].dirty = edit[e].dirty
        /\ "seen" \in DOMAIN more => edit'[e].seen = more.seen
    BY <1>1, <2>2, GoesTo
  <2>4. edit'[e].dirty = edit[e].dirty /\ edit'[e].seen = nodes[n]
    BY <2>1, <2>3
  <2>5. \A p \in DOMAIN edges' : Owes(edit[e], p) => Owes(edit'[e], p)
    BY <2>3, <2>4 DEF Owes, Moving
  <2> QED
    BY <1>2, <1>3, <2>3, <2>4, <2>5, RecomputationStep
<1>4. CASE n \notin DOMAIN nodes
  <2>1. On(e, AfterMove(c), <<>>)
    BY <1>4 DEF ReadPlace, Advance
  <2>2. edit'[e].step = AfterMove(c) /\ \A d \in Editor \ {e} : edit'[d] = edit[d]
    BY <1>1, <2>1, GoesTo
  <2>3. edit'[e].step \notin Recomputing
    BY <2>2 DEF AfterMove, Recomputing
  <2>4. \A p \in DOMAIN edges' : ~Owes(edit[e], p)
    BY <1>1, <1>4 DEF Owes, Tracking, Joined
  <2> QED
    BY <1>2, <2>2, <2>3, <2>4, RecomputationStep
<1> QED
  BY <1>3, <1>4

LEMMA ReadingTracks ==
  ASSUME Steady, Sizes, Tracking, NEW e \in Editor, ReadEdges(e)
  PROVE  Tracking'
<1> DEFINE T == Touched(edit[e].want.node)
           S == {[pair |-> p, edge |-> edges[p]] : p \in T}
           left == SetToSeq(S)
<1>1. edit[e].step = "edges" /\ UNCHANGED <<nodes, edges, last>> /\ NextEdge(e, left)
  BY DEF ReadEdges, Doing, rows
<1>2. MapStays
  BY <1>1, MapStands DEF Tracking
<1>3. IsFiniteSet(S)
  <2>1. T \subseteq DOMAIN edges
    BY DEF Touched, Touching
  <2>2. IsFiniteSet(T)
    BY <2>1, FS_Subset DEF Sizes
  <2> DEFINE f == [p \in T |-> [pair |-> p, edge |-> edges[p]]]
  <2> HIDE DEF T
  <2>3. f \in Surjection(T, S)
    BY DEF Surjection, T
  <2> QED
    BY <2>2, <2>3, FS_Surjection DEF T
<1>4. left \in Seq(S) /\ \A x \in S : \E i \in 1 .. Len(left) : left[i] = x
  <2> HIDE DEF S
  <2> QED
    BY <1>3, SetToSeqSpec
<1>5. DOMAIN left = 1 .. Len(left)
  <2> HIDE DEF left
  <2> QED
    BY <1>4
<1>6. ASSUME NEW p \in DOMAIN edges', Owes(edit[e], p)
      PROVE  \E i \in DOMAIN left : left[i].pair = p
  <2>1. p \in T
    BY <1>1, <1>6 DEF Owes, Touched, Touching
  <2>2. [pair |-> p, edge |-> edges[p]] \in S
    BY <2>1
  <2>3. PICK i \in 1 .. Len(left) : left[i] = [pair |-> p, edge |-> edges[p]]
    BY <1>4, <2>2
  <2> HIDE DEF left
  <2> QED
    BY <1>5, <2>3
<1> HIDE DEF left
<1> QED
  BY <1>1, <1>2, <1>6, NextTracks

(* An edge whose other end is on another floor, or gone, is owed nothing.   *)
LEMMA OtherTracks ==
  ASSUME Steady, Tracking, NEW e \in Editor, ReadOther(e)
  PROVE  Tracking'
<1> DEFINE t == edit[e]
           q == Head(t.left).pair
           n == t.want.node
           other == OtherEnd(q, n)
<1>1. t.step = "other" /\ t.step # "rest" /\ UNCHANGED <<nodes, edges, last>>
  BY DEF ReadOther, Doing, rows
<1>2. MapStays
  BY <1>1, MapStands DEF Tracking
<1>3. t.left # <<>> /\ \E S : t.left \in Seq(S)
  BY <1>1, UnderWay DEF Sound, Measured
<1>4. Placed(t)
  BY DEF Tracking, Looked
<1>5. CASE other \in DOMAIN nodes /\ nodes[other].floor = t.seen.floor
  <2> PICK more : more = [length |-> Square(t.seen.place, nodes[other].place)]
    OBVIOUS
  <2>1. {"step", "want"} \cap DOMAIN more = {} /\ "dirty" \notin DOMAIN more
        /\ "seen" \notin DOMAIN more /\ "left" \notin DOMAIN more
    OBVIOUS
  <2>2. On(e, "length", more) /\ {"step", "want"} \cap DOMAIN more = {}
    BY <1>5, <2>1 DEF ReadOther
  <2>3. /\ edit'[e].step = "length" /\ edit'[e].want = edit[e].want
        /\ \A d \in Editor \ {e} : edit'[d] = edit[d]
        /\ "dirty" \notin DOMAIN more => edit'[e].dirty = edit[e].dirty
        /\ "seen" \notin DOMAIN more => edit'[e].seen = edit[e].seen
        /\ "left" \notin DOMAIN more => edit'[e].left = edit[e].left
    BY <1>1, <2>2, GoesTo
  <2>4. edit'[e].dirty = edit[e].dirty /\ edit'[e].seen = edit[e].seen /\ edit'[e].left = edit[e].left
    BY <2>1, <2>3
  <2>5. \A p \in DOMAIN edges' : Owes(edit[e], p) => Owes(edit'[e], p)
    BY <1>1, <2>3, <2>4 DEF Owes, Moving
  <2> QED
    BY <1>1, <1>2, <2>3, <2>4, <2>5, RecomputationStep DEF Recomputing
<1>6. CASE ~(other \in DOMAIN nodes /\ nodes[other].floor = t.seen.floor)
  <2>1. NextEdge(e, Tail(t.left))
    BY <1>6 DEF ReadOther
  <2>2. ASSUME NEW p \in DOMAIN edges', Owes(t, p)
        PROVE  Settled(p)' \/ \E i \in DOMAIN Tail(t.left) : Tail(t.left)[i].pair = p
    <3>1. PICK i \in DOMAIN t.left : t.left[i].pair = p
      BY <1>1, <2>2 DEF Owes
    <3>2. CASE p # q
      <4>1. PICK S : t.left \in Seq(S)
        BY <1>3
      <4>2. p # Head(t.left).pair
        BY <3>2
      <4> QED
        BY <1>3, <3>1, <4>1, <4>2, HeadGoes
    <3>3. CASE p = q
      <4>1. p \in DOMAIN edges /\ p[1] \in DOMAIN nodes /\ p[2] \in DOMAIN nodes /\ n \in {p[1], p[2]}
        BY <1>1, <2>2 DEF Tracking, Joined, Owes
      <4>2. t.seen.floor = nodes[n].floor
        BY <1>1, <1>4, <4>1 DEF Placed, Recomputing
      <4>3. nodes[p[1]].floor # nodes[p[2]].floor
        BY <1>6, <3>3, <4>1, <4>2 DEF OtherEnd
      <4>4. Settled(p)
        BY <4>1, <4>3 DEF Tracking, Crossed
      <4> QED
        BY <1>1, <4>4 DEF Settled, Wrong, Span
    <3> QED
      BY <3>2, <3>3
  <2> QED
    BY <1>1, <1>2, <2>1, <2>2, NextTracks
<1> QED
  BY <1>5, <1>6

(* An edge that is saved is right, or late if its ends have moved since.    *)
LEMMA SavingTracks ==
  ASSUME Steady, Tracking, NEW e \in Editor, ~Stop(e), SaveLength(e)
  PROVE  Tracking'
<1> DEFINE t == edit[e]
<1>0. PICK q : q = Head(t.left).pair
  OBVIOUS
<1>1. t.step = "length" /\ t.step # "rest" /\ UNCHANGED <<nodes, last>> /\ q \in DOMAIN edges
      /\ NextEdge(e, Tail(t.left))
  BY <1>0 DEF SaveLength, Doing
<1>2. PICK weight :
        edges' = [edges EXCEPT ![q].length = t.length, ![q].late = t.length # Span(q), ![q].weight = weight]
  BY <1>0 DEF SaveLength
<1>3. MapStays /\ Settled(q)'
  <2>1. Joined
    BY DEF Tracking
  <2>2. nodes' = nodes /\ last' = last /\ q \in DOMAIN edges
    BY <1>1
  <2> PICK length : length = t.length
    OBVIOUS
  <2>3. edges' = [edges EXCEPT ![q].length = length, ![q].late = length # Span(q), ![q].weight = weight]
    BY <1>2
  <2> QED
    BY <2>1, <2>2, <2>3, LengthSaved
<1>4. t.left # <<>> /\ \E S : t.left \in Seq(S)
  BY <1>1, UnderWay DEF Sound, Measured
<1>5. ASSUME NEW p \in DOMAIN edges', Owes(t, p)
      PROVE  Settled(p)' \/ \E i \in DOMAIN Tail(t.left) : Tail(t.left)[i].pair = p
  <2>1. PICK i \in DOMAIN t.left : t.left[i].pair = p
    BY <1>1, <1>5 DEF Owes
  <2>2. CASE p # q
    <3>1. PICK S : t.left \in Seq(S)
      BY <1>4
    <3>2. p # Head(t.left).pair
      BY <1>0, <2>2
    <3> QED
      BY <1>4, <2>1, <3>1, <3>2, HeadGoes
  <2>3. CASE p = q
    BY <1>3, <2>3
  <2> QED
    BY <2>2, <2>3
<1> QED
  BY <1>1, <1>3, <1>5, NextTracks

LEMMA TrackingStep ==
  ASSUME Steady, Sizes, Tracking, [MapNext]_mapVars
  PROVE  Tracking'
<1>1. ASSUME NEW e \in Editor, EditorStep(e)
      PROVE  Tracking'
  <2>1. CASE Stop(e)
    BY <2>1, StopTracks
  <2>2. CASE ~Stop(e)
    BY <1>1, <2>2, FloorsTrack, RequestsTrack, NodesTrack, EdgesTrack, MoveTracks, PlaceTracks,
       ReadingTracks, OtherTracks, SavingTracks DEF EditorStep, Abandon
  <2> QED
    BY <2>1, <2>2
<1>2. ASSUME UNCHANGED <<nodes, edges, last, edit>>
      PROVE  Tracking'
  BY <1>2 DEF Tracking, Joined, Crossed, Looked, Placed, Tracked, Settled, Wrong, Span
<1>3. ASSUME NEW r \in Reader, Miss(r) \/ Validate(r) \/ Store(r)
      PROVE  Tracking'
  BY <1>2, <1>3 DEF Miss, Validate, Store, rows
<1>4. ASSUME Evict
      PROVE  Tracking'
  BY <1>2, <1>4 DEF Evict, rows
<1>5. ASSUME UNCHANGED mapVars
      PROVE  Tracking'
  BY <1>2, <1>5 DEF mapVars, rows
<1> QED
  BY <1>1, <1>3, <1>4, <1>5 DEF MapNext

LEMMA FirstTracking ==
  ASSUME MapInit
  PROVE  Tracking
<1>1. PICK m \in Maps : floors = m.floors /\ nodes = m.nodes /\ edges = m.edges /\ last = m.last
  BY DEF MapInit
<1>2. Joined
  BY <1>1, EditorMaps DEF Joined
<1>3. \A p \in DOMAIN edges : Settled(p)
  BY <1>1, EditorMaps DEF Settled, Wrong, Span
<1>4. Looked
  BY DEF MapInit, Looked, Placed, Rest, Recomputing
<1> QED
  BY <1>2, <1>3, <1>4 DEF Tracking, Crossed, Tracked

(* No order of moving, wiring, cutting and failing leaves an edge whose      *)
(* length is not the distance of its ends and that nobody is about to set    *)
(* right: recomputeEdgesForNode reads the edges after the node is saved, so   *)
(* that a wire that comes later reads the new place itself or is known late.  *)
THEOREM LengthsTheorem == EditorSpec => []LengthsTrackPositions
<1>1. MapInit => Steady /\ Sizes /\ Tracking
  BY FirstSizes, FirstTracking
<1>2. Steady /\ Sizes /\ Tracking /\ [MapNext]_mapVars => (Steady /\ Sizes /\ Tracking)'
  <2> SUFFICES ASSUME Steady, Sizes, Tracking, [MapNext]_mapVars
               PROVE  (Steady /\ Sizes /\ Tracking)'
    OBVIOUS
  <2>1. RowsMove
    BY RowsStep
  <2> QED
    BY <2>1, TasksStep, SizesStep, TrackingStep
<1>3. Steady /\ Sizes /\ Tracking => LengthsTrackPositions
  BY DEF Tracking, Tracked, Settled, Owes, LengthsTrackPositions
<1> QED
  BY <1>1, <1>2, <1>3, PTL DEF EditorSpec

(***************************************************************************)
(* Rooms of editors                                                         *)
(***************************************************************************)

RoomInv == RoomsTypeOK /\ OneRoom

(* A nonempty set of naturals has a least element.                         *)
LEMMA LeastNatural ==
  ASSUME NEW S \in SUBSET Nat, S # {}
  PROVE  \E k \in S : \A l \in S : k <= l
<1> DEFINE R == OpToRel(<, Nat)
<1>1. IsWellFoundedOn(R, Nat)
  BY NatLessThanWellFounded
<1>2. \A x, y \in Nat : x < y => <<x, y>> \in R
  BY DEF OpToRel
<1>3. PICK x \in S : \A y \in S : ~ (<<y, x>> \in R)
  <2> HIDE DEF R
  <2> QED
    BY <1>1, WFMin
<1>4. \A y \in S : ~ (y < x)
  <2> HIDE DEF R
  <2> QED
    BY <1>2, <1>3
<1> QED
  BY <1>4

(* pickColor returns a colour, a free one if there is one, else the first. *)
LEMMA PickedColor ==
  ASSUME RoomsTypeOK, NEW S \in SUBSET Socket, \A t \in S : color[t] \in Colors
  PROVE  /\ Picked(S) \in Colors
         /\ \A t \in S : color[t] = Picked(S) =>
              Picked(S) = 1 /\ {color[u] : u \in S} = Colors
<1> DEFINE free == Colors \ {color[t] : t \in S}
<1>1. CASE free = {}
  <2>1. Picked(S) = 1
    BY <1>1 DEF Picked
  <2>2. 1 \in Colors
    BY SizesPositive DEF Colors
  <2>3. {color[u] : u \in S} = Colors
    BY <1>1
  <2> QED
    BY <2>1, <2>2, <2>3
<1>2. CASE free # {}
  <2>1. free \in SUBSET Nat
    BY SizesPositive DEF Colors
  <2>2. \E k \in free : \A l \in free : k <= l
    BY <1>2, <2>1, LeastNatural
  <2>3. Picked(S) = CHOOSE k \in free : \A l \in free : k <= l
    BY <1>2 DEF Picked
  <2>4. Picked(S) \in free
    BY <2>2, <2>3
  <2> QED
    BY <2>4
<1> QED
  BY <1>1, <1>2

(* leaveRoom takes the socket out of every room, and nobody else.          *)
LEMMA LeftRoom ==
  ASSUME RoomInv, NEW s \in Socket
  PROVE  /\ Left(s) \in [Building -> SUBSET Socket]
         /\ \A b \in Building : Left(s)[b] = rooms[b] \ {s}
<1>1. /\ rooms \in [Building -> SUBSET Socket] /\ roomKey[s] \in Building \cup {NoRoom}
      /\ \A b \in Building : s \in rooms[b] <=> roomKey[s] = b
  BY DEF RoomInv, RoomsTypeOK, OneRoom
<1>2. CASE roomKey[s] = NoRoom
  <2>1. \A b \in Building : rooms[b] = rooms[b] \ {s}
    BY <1>1, <1>2, NoRoomIsNone
  <2> QED
    BY <1>1, <1>2, <2>1 DEF Left
<1>3. CASE roomKey[s] # NoRoom
  <2>1. Left(s) = [rooms EXCEPT ![roomKey[s]] = @ \ {s}] /\ roomKey[s] \in Building
    BY <1>1, <1>3 DEF Left
  <2>2. \A b \in Building : b # roomKey[s] => rooms[b] = rooms[b] \ {s}
    BY <1>1
  <2>3. \A b \in Building : Left(s)[b] = rooms[b] \ {s}
    BY <1>1, <2>1, <2>2
  <2>4. Left(s) \in [Building -> SUBSET Socket]
    BY <1>1, <2>1
  <2> QED
    BY <2>3, <2>4
<1> QED
  BY <1>2, <1>3

-----------------------------------------------------------------------------
(* The steps that change a room, by what they do to it                     *)

(* A socket that is in no room any more: leave, disconnect.                *)
Departs(s) == RoomInv /\ Leaves(s)

(* A socket that enters a room it may edit and that has a place.           *)
Enters(s, b) ==
  RoomInv /\ JoinChecked(s, b) /\ <<s, b>> \in CanEdit /\ ~ RoomFull(b)

LEMMA Departed ==
  ASSUME NEW s \in Socket, Departs(s)
  PROVE  /\ rooms' = [b \in Building |-> rooms[b] \ {s}]
         /\ roomKey' = [roomKey EXCEPT ![s] = NoRoom]
         /\ color' = [color EXCEPT ![s] = NoColor]
         /\ crowded' = {x \in crowded : rooms'[x] # {}}
<1>1. RoomInv /\ rooms' = Left(s)
  BY DEF Departs, Leaves
<1>2. rooms' = [b \in Building |-> rooms[b] \ {s}]
  BY <1>1, LeftRoom
<1> QED
  BY <1>1, <1>2 DEF Departs, Leaves

LEMMA EnteredRoom ==
  ASSUME NEW s \in Socket, NEW b \in Building, Enters(s, b)
  PROVE  /\ rooms' \in [Building -> SUBSET Socket]
         /\ rooms'[b] = rooms[b] \cup {s}
         /\ \A x \in Building : x # b => rooms'[x] = rooms[x] \ {s}
         /\ roomKey' = [roomKey EXCEPT ![s] = b]
<1>1. RoomInv /\ rooms' = [Left(s) EXCEPT ![b] = @ \cup {s}]
  BY DEF Enters, JoinChecked
<1>2. /\ Left(s) \in [Building -> SUBSET Socket]
      /\ \A x \in Building : Left(s)[x] = rooms[x] \ {s}
  BY <1>1, LeftRoom
<1>3. /\ rooms' \in [Building -> SUBSET Socket]
      /\ rooms'[b] = (rooms[b] \ {s}) \cup {s}
      /\ \A x \in Building : x # b => rooms'[x] = rooms[x] \ {s}
  BY <1>1, <1>2
<1>4. roomKey' = [roomKey EXCEPT ![s] = b]
  BY DEF Enters, JoinChecked
<1> QED
  BY <1>3, <1>4

LEMMA EnteredColor ==
  ASSUME NEW s \in Socket, NEW b \in Building, Enters(s, b)
  PROVE  /\ color' = [color EXCEPT ![s] = Picked(rooms[b] \ {s})]
         /\ crowded' \subseteq Building
         /\ \A x \in crowded : rooms[x] \ {s} # {} => x \in crowded'
         /\ {color[t] : t \in rooms[b] \ {s}} = Colors => b \in crowded'
<1>1. RoomInv /\ crowded \subseteq Building
  BY DEF Enters, RoomInv, RoomsTypeOK
<1>2. \A x \in Building : Left(s)[x] = rooms[x] \ {s}
  BY <1>1, LeftRoom
<1>3. /\ color' = [color EXCEPT ![s] = Picked(Left(s)[b])]
      /\ crowded' = {x \in crowded : Left(s)[x] # {}}
           \cup (IF {color[t] : t \in Left(s)[b]} = Colors THEN {b} ELSE {})
  BY DEF Enters, JoinChecked
<1>4. Left(s)[b] = rooms[b] \ {s}
  BY <1>2
<1>5. crowded' \subseteq Building /\ \A x \in crowded : Left(s)[x] # {} => x \in crowded'
  BY <1>1, <1>3
<1>6. {color[t] : t \in Left(s)[b]} = Colors => b \in crowded'
  BY <1>3
<1> QED
  BY <1>1, <1>2, <1>3, <1>4, <1>5, <1>6

(* Every step is one of these, or leaves the rooms alone.                  *)
LEMMA Cases ==
  ASSUME RoomInv, [RoomsNext]_roomVars
  PROVE  \/ UNCHANGED <<rooms, roomKey, color, roster, crowded>>
         \/ \E s \in Socket : Departs(s)
         \/ \E s \in Socket : \E b \in Building : Enters(s, b)
<1>1. ASSUME NEW s \in Socket, Leave(s) \/ Disconnect(s) PROVE Departs(s)
  BY <1>1 DEF Leave, Disconnect, Departs
<1>2. ASSUME NEW s \in Socket, Connect(s)
      PROVE  UNCHANGED <<rooms, roomKey, color, roster, crowded>>
  BY <1>2 DEF Connect
<1>3. ASSUME NEW s \in Socket, NEW b \in Building, Join(s, b)
      PROVE  UNCHANGED <<rooms, roomKey, color, roster, crowded>>
  BY <1>3 DEF Join
<1>4. ASSUME NEW s \in Socket, NEW b \in Building, JoinChecked(s, b)
      PROVE  \/ UNCHANGED <<rooms, roomKey, color, roster, crowded>>
             \/ Enters(s, b)
  <2>1. CASE <<s, b>> \in CanEdit /\ ~ RoomFull(b)
    BY <1>4, <2>1 DEF Enters
  <2>2. CASE <<s, b>> \notin CanEdit \/ RoomFull(b)
    <3>1. Refused(s, b)
      BY <1>4, <2>2 DEF JoinChecked
    <3> QED
      BY <3>1 DEF Refused
  <2> QED
    BY <2>1, <2>2
<1>5. CASE UNCHANGED roomVars
  BY <1>5 DEF roomVars
<1> QED
  BY <1>1, <1>2, <1>3, <1>4, <1>5 DEF RoomsNext

-----------------------------------------------------------------------------
(* Types, and the one room of a socket *)

LEMMA TypeInit == RoomsInit => RoomsTypeOK /\ OneRoom
  BY NoRoomIsNone DEF RoomsInit, RoomsTypeOK, OneRoom

LEMMA OneRoomStep == RoomInv /\ [RoomsNext]_roomVars => OneRoom'
<1> SUFFICES ASSUME RoomInv, [RoomsNext]_roomVars PROVE OneRoom'
  OBVIOUS
<1> USE NoRoomIsNone DEF RoomInv, RoomsTypeOK, OneRoom
<1>1. ASSUME NEW s \in Socket, Departs(s) PROVE OneRoom'
  BY <1>1, Departed
<1>2. ASSUME NEW s \in Socket, NEW b \in Building, Enters(s, b) PROVE OneRoom'
  BY <1>2, EnteredRoom
<1>3. CASE UNCHANGED <<rooms, roomKey, color, roster, crowded>>
  BY <1>3
<1> QED
  BY <1>1, <1>2, <1>3, Cases

LEMMA TypeStep == RoomInv /\ [RoomsNext]_roomVars => RoomsTypeOK'
<1> SUFFICES ASSUME RoomInv, [RoomsNext]_roomVars PROVE RoomsTypeOK'
  OBVIOUS
<1>0. RoomsTypeOK /\ OneRoom /\ OneRoom'
  BY OneRoomStep DEF RoomInv
<1>1. /\ connected' \subseteq Socket /\ gone' \subseteq Socket
      /\ pending' \in [Socket -> SUBSET Building]
  <2>1. /\ connected \subseteq Socket /\ gone \subseteq Socket
        /\ pending \in [Socket -> SUBSET Building]
    BY <1>0 DEF RoomsTypeOK
  <2>2. ASSUME NEW s \in Socket, Connect(s) \/ Leave(s) \/ Disconnect(s)
        PROVE  /\ connected' \subseteq Socket /\ gone' \subseteq Socket
               /\ pending' \in [Socket -> SUBSET Building]
    BY <2>1, <2>2 DEF Connect, Leave, Disconnect
  <2>3. ASSUME NEW s \in Socket, NEW b \in Building, Join(s, b) \/ JoinChecked(s, b)
        PROVE  /\ connected' \subseteq Socket /\ gone' \subseteq Socket
               /\ pending' \in [Socket -> SUBSET Building]
    <3>1. /\ UNCHANGED <<connected, gone>>
          /\ \/ pending' = [pending EXCEPT ![s] = @ \cup {b}]
             \/ pending' = [pending EXCEPT ![s] = @ \ {b}]
      BY <2>3 DEF Join, JoinChecked, Refused
    <3> QED
      BY <2>1, <3>1
  <2>4. CASE UNCHANGED roomVars
    BY <2>1, <2>4 DEF roomVars
  <2> QED
    BY <2>2, <2>3, <2>4 DEF RoomsNext
<1>2. ASSUME NEW s \in Socket, Departs(s)
      PROVE  /\ rooms' \in [Building -> SUBSET Socket]
             /\ roomKey' \in [Socket -> Building \cup {NoRoom}]
             /\ color' \in [Socket -> Colors \cup {NoColor}]
             /\ \A b \in Building : \A t \in rooms'[b] : color'[t] \in Colors
             /\ roster' \in [Socket -> SUBSET Socket]
             /\ crowded' \subseteq Building
  <2>1. roster' \in [Socket -> SUBSET Socket]
    BY <1>0, <1>2, LeftRoom DEF Departs, Leaves, RoomsTypeOK
  <2> QED
    BY <1>0, <1>2, <2>1, Departed DEF RoomsTypeOK
<1>3. ASSUME NEW s \in Socket, NEW b \in Building, Enters(s, b)
      PROVE  /\ rooms' \in [Building -> SUBSET Socket]
             /\ roomKey' \in [Socket -> Building \cup {NoRoom}]
             /\ color' \in [Socket -> Colors \cup {NoColor}]
             /\ \A x \in Building : \A t \in rooms'[x] : color'[t] \in Colors
             /\ roster' \in [Socket -> SUBSET Socket]
             /\ crowded' \subseteq Building
  <2>1. Picked(rooms[b] \ {s}) \in Colors
    BY <1>0, PickedColor DEF RoomsTypeOK
  <2>2. roster' \in [Socket -> SUBSET Socket]
    <3>1. /\ Left(s) \in [Building -> SUBSET Socket]
          /\ [Left(s) EXCEPT ![b] = @ \cup {s}][b] \subseteq Socket
      BY LeftRoom
    <3>2. roomKey[s] # NoRoom => roomKey[s] \in Building
      BY <1>0 DEF RoomsTypeOK
    <3> QED
      BY <1>0, <1>3, <3>1, <3>2 DEF Enters, JoinChecked, RoomsTypeOK
  <2>3. \A x \in Building : \A t \in rooms'[x] : color'[t] \in Colors
    BY <1>0, <1>3, <2>1, EnteredRoom, EnteredColor DEF RoomsTypeOK
  <2> QED
    BY <1>0, <1>3, <2>1, <2>2, <2>3, EnteredRoom, EnteredColor DEF RoomsTypeOK
<1>4. CASE UNCHANGED <<rooms, roomKey, color, roster, crowded>>
  BY <1>0, <1>1, <1>4 DEF RoomsTypeOK
<1> QED
  BY <1>1, <1>2, <1>3, <1>4, Cases DEF RoomsTypeOK

(* Types and the one room of a socket: what all the rest relies on.        *)
THEOREM RoomInvariant == RoomsSpec => []RoomInv
<1>1. RoomsInit => RoomInv
  BY TypeInit DEF RoomInv
<1>2. RoomInv /\ [RoomsNext]_roomVars => RoomInv'
  BY TypeStep, OneRoomStep DEF RoomInv
<1> QED
  BY <1>1, <1>2, PTL DEF RoomsSpec

(* The types of the editor's rooms, and the colour of everybody in one.    *)
THEOREM TypeTheorem == RoomsSpec => []RoomsTypeOK
  BY RoomInvariant, PTL DEF RoomInv

(* A socket is in the room its roomKey names and in no other, whatever     *)
(* joins it has under way.                                                 *)
THEOREM OneRoomTheorem == RoomsSpec => []OneRoom
  BY RoomInvariant, PTL DEF RoomInv

-----------------------------------------------------------------------------
(* The size of a room *)

LEMMA BoundedStep == RoomInv /\ RoomsBounded /\ [RoomsNext]_roomVars => RoomsBounded'
<1> SUFFICES ASSUME RoomInv, RoomsBounded, [RoomsNext]_roomVars, NEW x \in Building
             PROVE  Cardinality(rooms'[x]) <= MaxRoomSize
  BY DEF RoomsBounded
<1>0. /\ rooms[x] \in SUBSET Socket /\ IsFiniteSet(rooms[x])
      /\ Cardinality(rooms[x]) \in Nat /\ Cardinality(rooms[x]) <= MaxRoomSize
      /\ MaxRoomSize \in Nat
  BY SocketFinite, SizesPositive, FS_Subset, FS_CardinalityType
     DEF RoomInv, RoomsTypeOK, RoomsBounded
<1>1. ASSUME NEW s PROVE Cardinality(rooms[x] \ {s}) <= MaxRoomSize
  <2>1. Cardinality(rooms[x] \ {s}) \in {Cardinality(rooms[x]), Cardinality(rooms[x]) - 1}
    BY <1>0, FS_RemoveElement
  <2> QED
    BY <1>0, <2>1
<1>2. ASSUME NEW s \in Socket, Departs(s) PROVE Cardinality(rooms'[x]) <= MaxRoomSize
  BY <1>1, <1>2, Departed
<1>3. ASSUME NEW s \in Socket, NEW b \in Building, Enters(s, b)
      PROVE  Cardinality(rooms'[x]) <= MaxRoomSize
  <2>1. CASE x = b
    <3>1. Cardinality(rooms[x]) < MaxRoomSize
      BY <1>0, <1>3, <2>1 DEF Enters, RoomFull
    <3>2. rooms'[x] = rooms[x] \cup {s}
      BY <1>3, <2>1, EnteredRoom
    <3>3. Cardinality(rooms[x] \cup {s}) \in {Cardinality(rooms[x]), Cardinality(rooms[x]) + 1}
      BY <1>0, FS_AddElement
    <3> QED
      BY <1>0, <3>1, <3>2, <3>3
  <2>2. CASE x # b
    <3>1. rooms'[x] = rooms[x] \ {s}
      BY <1>3, <2>2, EnteredRoom
    <3> QED
      BY <1>1, <3>1
  <2> QED
    BY <2>1, <2>2
<1>4. CASE UNCHANGED <<rooms, roomKey, color, roster, crowded>>
  BY <1>0, <1>4
<1> QED
  BY <1>2, <1>3, <1>4, Cases

(* No room ever exceeds its size, although joins wait for their permission *)
(* check in any number.                                                    *)
THEOREM RoomSizeTheorem == RoomsSpec => []RoomsBounded
<1>1. RoomsInit => RoomsBounded
  BY FS_EmptySet, SizesPositive DEF RoomsInit, RoomsBounded
<1>2. RoomInv /\ RoomsBounded /\ [RoomsNext]_roomVars => RoomsBounded'
  BY BoundedStep
<1> QED
  BY <1>1, <1>2, RoomInvariant, PTL DEF RoomsSpec

-----------------------------------------------------------------------------
(* Presence *)

LEMMA PresenceStep == RoomInv /\ PresenceCurrent /\ [RoomsNext]_roomVars => PresenceCurrent'
<1> SUFFICES ASSUME RoomInv, PresenceCurrent, [RoomsNext]_roomVars,
                    NEW x \in Building, NEW t \in rooms'[x]
             PROVE  roster'[t] = rooms'[x]
  BY DEF PresenceCurrent
<1>0. /\ RoomsTypeOK /\ OneRoom /\ OneRoom' /\ RoomsTypeOK'
      /\ \A b \in Building : \A u \in rooms[b] : roster[u] = rooms[b]
      /\ t \in Socket
  BY OneRoomStep, TypeStep DEF RoomInv, PresenceCurrent, RoomsTypeOK
<1>1. ASSUME NEW s \in Socket, Departs(s) PROVE roster'[t] = rooms'[x]
  <2>0. t # s /\ t \in rooms[x]
    BY <1>0, <1>1, Departed
  <2>1. /\ rooms' = Left(s)
        /\ roster' = [u \in Socket |->
             IF u = s THEN {}
             ELSE IF roomKey[s] # NoRoom /\ u \in Left(s)[roomKey[s]]
                  THEN Left(s)[roomKey[s]] ELSE roster[u]]
    BY <1>1 DEF Departs, Leaves
  <2>2. CASE roomKey[s] = x
    <3>1. roomKey[s] # NoRoom /\ t \in Left(s)[roomKey[s]]
      BY <2>1, <2>2, NoRoomIsNone
    <3> QED
      BY <1>0, <2>0, <2>1, <2>2, <3>1
  <2>3. CASE roomKey[s] # x
    <3>1. rooms'[x] = rooms[x]
      <4>1. rooms'[x] = rooms[x] \ {s}
        BY <1>1, Departed
      <4>2. s \notin rooms[x]
        BY <1>0, <2>3 DEF OneRoom
      <4> QED
        BY <4>1, <4>2
    <3>2. roomKey[s] # NoRoom => t \notin Left(s)[roomKey[s]]
      BY <1>0, <2>0, <2>3, LeftRoom DEF OneRoom, RoomsTypeOK
    <3> QED
      BY <1>0, <2>0, <2>1, <3>1, <3>2
  <2> QED
    BY <2>2, <2>3
<1>2. ASSUME NEW s \in Socket, NEW b \in Building, Enters(s, b)
      PROVE  roster'[t] = rooms'[x]
  <2>1. roster' = [u \in Socket |->
             IF u \in rooms'[b] THEN rooms'[b]
             ELSE IF roomKey[s] # NoRoom /\ u \in Left(s)[roomKey[s]]
                  THEN Left(s)[roomKey[s]] ELSE roster[u]]
    BY <1>2 DEF Enters, JoinChecked
  <2>2. CASE x = b
    BY <1>0, <2>1, <2>2
  <2>3. CASE x # b
    <3>1. t \notin rooms'[b]
      BY <1>0, <2>3 DEF OneRoom
    <3>2. t \in rooms[x] /\ rooms'[x] = rooms[x] \ {s} /\ Left(s)[x] = rooms[x] \ {s}
      BY <1>0, <1>2, <2>3, EnteredRoom, LeftRoom DEF RoomsTypeOK
    <3>3. CASE roomKey[s] = x
      BY <1>0, <2>1, <3>1, <3>2, <3>3, NoRoomIsNone
    <3>4. CASE roomKey[s] # x
      <4>1. rooms'[x] = rooms[x]
        BY <1>0, <3>2, <3>4 DEF OneRoom, RoomsTypeOK
      <4>2. roomKey[s] # NoRoom => t \notin Left(s)[roomKey[s]]
        BY <1>0, <3>2, <3>4, LeftRoom DEF OneRoom, RoomsTypeOK
      <4> QED
        BY <1>0, <2>1, <3>1, <3>2, <4>1, <4>2
    <3> QED
      BY <3>3, <3>4
  <2> QED
    BY <2>2, <2>3
<1>3. CASE UNCHANGED <<rooms, roomKey, color, roster, crowded>>
  BY <1>0, <1>3
<1> QED
  BY <1>1, <1>2, <1>3, Cases

(* Every peer of a room has been told exactly who is in it.                *)
THEOREM PresenceTheorem == RoomsSpec => []PresenceCurrent
<1>1. RoomsInit => PresenceCurrent
  BY DEF RoomsInit, PresenceCurrent
<1>2. RoomInv /\ PresenceCurrent /\ [RoomsNext]_roomVars => PresenceCurrent'
  BY PresenceStep
<1> QED
  BY <1>1, <1>2, RoomInvariant, PTL DEF RoomsSpec

-----------------------------------------------------------------------------
(* Colours *)

LEMMA ColorStep == RoomInv /\ ColorsDistinct /\ [RoomsNext]_roomVars => ColorsDistinct'
<1> SUFFICES ASSUME RoomInv, ColorsDistinct, [RoomsNext]_roomVars,
                    NEW x \in Building, NEW t \in rooms'[x], NEW u \in rooms'[x],
                    t # u, color'[t] = color'[u]
             PROVE  x \in crowded' /\ color'[t] = 1
  BY DEF ColorsDistinct
<1>0. /\ RoomsTypeOK /\ OneRoom
      /\ t \in rooms[x] /\ u \in rooms[x] /\ color[t] = color[u] =>
           x \in crowded /\ color[t] = 1
      /\ rooms \in [Building -> SUBSET Socket]
      /\ color \in [Socket -> Colors \cup {NoColor}]
  BY DEF RoomInv, RoomsTypeOK, ColorsDistinct
<1>1. ASSUME NEW s \in Socket, Departs(s) PROVE x \in crowded' /\ color'[t] = 1
  BY <1>0, <1>1, Departed
<1>2. ASSUME NEW s \in Socket, NEW b \in Building, Enters(s, b)
      PROVE  x \in crowded' /\ color'[t] = 1
  <2> DEFINE others == rooms[b] \ {s}
  <2>1. CASE t # s /\ u # s
    <3>1. /\ t \in rooms[x] \ {s} /\ u \in rooms[x] \ {s}
          /\ color'[t] = color[t] /\ color'[u] = color[u]
      <4>1. t \in Socket /\ u \in Socket /\ rooms'[x] \subseteq rooms[x] \cup {s}
        BY <1>0, <1>2, EnteredRoom
      <4> QED
        BY <1>0, <1>2, <2>1, <4>1, EnteredColor
    <3>2. x \in crowded /\ color[t] = 1
      BY <1>0, <3>1
    <3> QED
      BY <1>2, <3>1, <3>2, EnteredColor
  <2>2. \A v \in others : color[v] = Picked(others) =>
          Picked(others) = 1 /\ {color[w] : w \in others} = Colors
    BY <1>0, PickedColor DEF RoomsTypeOK
  <2>3. /\ s \in rooms'[x] => x = b
        /\ rooms'[b] \ {s} = others
    BY <1>0, <1>2, EnteredRoom
  <2>4. ASSUME NEW v \in others, color'[v] = color'[s], x = b
        PROVE  x \in crowded' /\ color'[s] = 1
    <3>1. color'[s] = Picked(others) /\ color'[v] = color[v]
      BY <1>0, <1>2, EnteredColor
    <3>2. Picked(others) = 1 /\ {color[w] : w \in others} = Colors
      BY <2>2, <2>4, <3>1
    <3> QED
      BY <1>2, <2>4, <3>1, <3>2, EnteredColor
  <2>5. CASE t = s
    <3>1. x = b /\ u \in others
      BY <2>3, <2>5
    <3> QED
      BY <2>4, <2>5, <3>1
  <2>6. CASE u = s
    <3>1. x = b /\ t \in others
      BY <2>3, <2>6
    <3> QED
      BY <2>4, <2>6, <3>1
  <2> QED
    BY <2>1, <2>5, <2>6
<1>3. CASE UNCHANGED <<rooms, roomKey, color, roster, crowded>>
  BY <1>0, <1>3
<1> QED
  BY <1>1, <1>2, <1>3, Cases

(* Two peers share a colour only when the palette has run out since the    *)
(* room was last empty, and then it is the first one.                      *)
THEOREM ColorTheorem == RoomsSpec => []ColorsDistinct
<1>1. RoomsInit => ColorsDistinct
  BY DEF RoomsInit, ColorsDistinct
<1>2. RoomInv /\ ColorsDistinct /\ [RoomsNext]_roomVars => ColorsDistinct'
  BY ColorStep
<1> QED
  BY <1>1, <1>2, RoomInvariant, PTL DEF RoomsSpec

=============================================================================
