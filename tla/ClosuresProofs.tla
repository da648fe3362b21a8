---------------------------- MODULE ClosuresProofs ----------------------------
(***************************************************************************)
(* For any closures, editors, route requests and times: what a route is     *)
(* told of the closures, how stale it can be, and what the frames say.       *)
(***************************************************************************)
EXTENDS Closures, SequenceTheorems, TLAPS

Table == [Closure -> Row \cup {None}]
Kinds == {"created", "updated", "deleted"}

Failed == [stage |-> "failed"]
Fetching == [stage : {"fetching"}, at : Time, since : Nat]
Read == [stage : {"read"}, at : Time, since : Nat, rows : Table, asRead : Table, seen : Nat]
Given == [stage : {"answered"}, at : Time, closed : SUBSET Closure, asRead : Table,
          seen : Nat, raced : BOOLEAN, since : Nat]
Entry == [rows : Table, loadedAt : Time, asRead : Table, seen : Nat, raced : BOOLEAN]

(* What the writers leave behind.                                          *)
WritersTyped ==
  /\ rows \in Table /\ commits \in Seq(Time)
  /\ ask \in [Editor -> Request]
  /\ pc \in [Editor -> {"begin", "found", "committed", "done"}]
  /\ current \in [Editor -> Row \cup {None}] /\ row \in [Editor -> Row \cup {None}]
  /\ \A e \in Editor : /\ pc[e] = "found" => current[e] \in Row /\ ask[e].kind # "create"
                       /\ pc[e] = "committed" => row[e] \in Row
  /\ at \in [Editor -> 0..Version] /\ announced \in 0..Version
  /\ told \in [Closure -> {None} \cup [action : Kinds, row : Row]]

(* What the routes and their cache hold.                                   *)
RoutesTyped ==
  /\ now \in Time
  /\ cache \in {Empty} \cup Entry
  /\ route \in [Router -> {Idle, Failed} \cup Fetching \cup Read \cup Given]
  /\ raced \subseteq InFlight

(* The closures found, and all there were, are in force at the same times. *)
Faithful(found, all, from) ==
  \A t \in Time : t >= from => InForce(found, t) = InForce(all, t)

(* Of the writes committed at the times C, those after the v-th were        *)
(* committed at `from` or later, give or take.                             *)
Since(v, from, slack, C) ==
  v <= Len(C) /\ \A w \in (v + 1)..Len(C) : from <= C[w] + slack

(* A query under way at time t is no older than MaxFetch.                  *)
InTime(x, t) == x.at <= t /\ t <= x.at + MaxFetch

(* What a request, or the entry, holds when the time is t, the writes were  *)
(* committed at C, and the a-th is the newest announced.  It is stale only   *)
(* if an invalidation overtook its query (r is in R, raced).                     *)
FetchSound(x, t, a) == x.since <= a /\ InTime(x, t)

ReadSound(x, r, R, t, C, a) ==
  /\ x.since <= a /\ InTime(x, t)
  /\ Since(x.seen, x.at, 0, C)
  /\ Faithful(x.rows, x.asRead, x.at)
  /\ x.seen >= a \/ r \in R

EntrySound(x, t, C, a) ==
  /\ x.loadedAt <= t
  /\ Since(x.seen, x.loadedAt, MaxFetch, C)
  /\ Faithful(x.rows, x.asRead, x.loadedAt)
  /\ x.seen >= a \/ x.raced

AnswerSound(x, t, C) ==
  /\ x.at <= t
  /\ Since(x.seen, x.at + 1, Ttl + MaxFetch, C)
  /\ x.closed = InForce(x.asRead, x.at)
  /\ x.seen < x.since => x.raced

RequestSound(x, r, R, t, C, a) ==
  /\ x.stage = "fetching" => FetchSound(x, t, a)
  /\ x.stage = "read" => ReadSound(x, r, R, t, C, a)
  /\ x.stage = "answered" => AnswerSound(x, t, C)

CacheInv ==
  /\ cache # Empty => EntrySound(cache, now, commits, announced)
  /\ \A r \in Router : RequestSound(route[r], r, raced, now, commits, announced)

(* One committed write per closure waits to be announced, and the row is    *)
(* what it made of it; without one the last frame and the row agree.        *)
Waits(e, c) == pc[e] = "committed" /\ ask[e].id = c

FrameInv ==
  /\ \A d, e \in Editor : pc[d] = "committed" /\ Waits(e, ask[d].id) => d = e
  /\ \A e \in Editor : pc[e] = "committed" =>
       /\ rows[ask[e].id] = IF ask[e].kind = "delete" THEN None ELSE row[e]
       /\ ask[e].kind # "create" => told[ask[e].id] # None
  /\ FramesFollowRows

-----------------------------------------------------------------------------
(* Types *)

(* A patch of a row is a row.                                              *)
LEMMA PatchedIsRow ==
  ASSUME NEW base \in Row, NEW q \in Request
  PROVE  Patched(base, q.data) \in Row
<1>1. PICK r \in Row : \A f \in DOMAIN q.data : q.data[f] = r[f]
  BY RequestShape
<1> DEFINE x == Patched(base, q.data)
<1>2. x = [f \in {"startsAt", "endsAt", "scope"} |-> IF f \in DOMAIN q.data THEN r[f] ELSE base[f]]
  BY <1>1 DEF Patched, Fields
<1>3. x = [startsAt |-> x.startsAt, endsAt |-> x.endsAt, scope |-> x.scope]
  BY <1>2
<1>4. x.startsAt \in Time /\ x.endsAt \in Time \cup {Never} /\ x.scope \in Scope
  BY <1>2 DEF Row
<1> QED
  BY <1>3, <1>4 DEF Row

(* No row is None.                                                         *)
LEMMA RowIsThere == None \notin Row
<1> SUFFICES ASSUME None \in Row PROVE FALSE
  OBVIOUS
<1>1. DOMAIN None = {"gone"} /\ DOMAIN None = {"startsAt", "endsAt", "scope"}
  BY DEF None, Row
<1> QED
  BY <1>1

(* One more write keeps those before it.                                   *)
LEMMA OneMoreWrite ==
  ASSUME commits \in Seq(Time), now \in Time, commits' = Append(commits, now)
  PROVE  /\ commits' \in Seq(Time) /\ Version \in Nat /\ Version' = Version + 1
         /\ commits'[Version + 1] = now
         /\ \A v \in 1..Version : commits'[v] = commits[v]
BY DEF Version

LEMMA CommitTimes ==
  ASSUME WritersTyped, NEW v \in Nat, NEW w \in (v + 1)..Version
  PROVE  commits[w] \in Nat
<1>1. commits \in Seq(Time) /\ Version = Len(commits) /\ Version \in Nat
  BY DEF WritersTyped, Version
<1>2. w \in 1..Len(commits)
  BY <1>1
<1>3. commits[w] \in Time
  BY <1>1, <1>2
<1> QED
  BY <1>3 DEF Time

LEMMA WritersInit == Init => WritersTyped
<1> SUFFICES ASSUME Init PROVE WritersTyped
  OBVIOUS
<1>1. Existing \subseteq Row \cup {None}
  BY RequestShape DEF Existing
<1>2. rows \in Table
  BY <1>1 DEF Init, Table
<1>3. commits \in Seq(Time) /\ Version = 0
  BY DEF Init, Version
<1>4. ASSUME NEW c \in Closure
      PROVE  told[c] \in {None} \cup [action : Kinds, row : Row]
  BY <1>2 DEF Init, Table, Kinds
<1>5. told \in [Closure -> {None} \cup [action : Kinds, row : Row]]
  BY <1>4 DEF Init
<1> QED
  BY <1>2, <1>3, <1>5 DEF Init, WritersTyped

LEMMA WritersStep ==
  ASSUME WritersTyped, now \in Time, [Next]_vars
  PROVE  WritersTyped'
<1> USE DEF WritersTyped, Goes
<1>0. Version \in Nat
  BY DEF Version
<1>1. ASSUME NEW e \in Editor, Create(e)
      PROVE  WritersTyped'
  <2>1. UNCHANGED <<now, ask, current, told, announced>> /\ ask[e].kind = "create" /\ ask[e] \in Request
    BY <1>1 DEF Create
  <2>2. ask[e].data \in Row /\ ask[e].id \in Closure
    BY <2>1, RequestShape
  <2>3. CASE Goes(e, "begin", "done") /\ UNCHANGED <<table, row, at>>
    BY <2>1, <2>3 DEF table, Version
  <2>4. CASE /\ Goes(e, "begin", "committed")
             /\ rows' = [rows EXCEPT ![ask[e].id] = ask[e].data]
             /\ row' = [row EXCEPT ![e] = ask[e].data]
             /\ commits' = Append(commits, now)
             /\ at' = [at EXCEPT ![e] = Version + 1]
    <3>1. commits' \in Seq(Time) /\ Version' = Version + 1
      BY <2>4, OneMoreWrite
    <3>2. rows' \in Table /\ row' \in [Editor -> Row \cup {None}]
      BY <2>2, <2>4 DEF Table
    <3>3. at' \in [Editor -> 0..Version'] /\ announced' \in 0..Version'
      BY <2>1, <2>4, <3>1, <1>0
    <3>4. pc' \in [Editor -> {"begin", "found", "committed", "done"}]
      BY <2>4
    <3>5. ASSUME NEW f \in Editor
          PROVE  /\ pc'[f] = "found" => current'[f] \in Row /\ ask'[f].kind # "create"
                 /\ pc'[f] = "committed" => row'[f] \in Row
      BY <2>1, <2>2, <2>4
    <3> QED
      BY <2>1, <3>1, <3>2, <3>3, <3>4, <3>5
  <2> QED
    BY <1>1, <2>3, <2>4 DEF Create
<1>2. ASSUME NEW e \in Editor, Find(e)
      PROVE  WritersTyped'
  <2>1. UNCHANGED <<now, table, ask, row, at, told, announced>> /\ ask[e] \in Request
    BY <1>2 DEF Find
  <2>2. ask[e].id \in Closure
    BY <2>1, RequestShape
  <2>3. rows[ask[e].id] \in Row \cup {None}
    BY <2>2 DEF Table
  <2>4. current' = [current EXCEPT ![e] = rows[ask[e].id]]
        /\ (\E to \in {"found", "done"} : /\ pc' = [pc EXCEPT ![e] = to]
                                          /\ to = "found" => rows[ask[e].id] # None)
        /\ ask[e].kind # "create"
    BY <1>2 DEF Find
  <2> QED
    BY <2>1, <2>3, <2>4 DEF table, Version
<1>3. ASSUME NEW e \in Editor, Write(e)
      PROVE  WritersTyped'
  <2>1. UNCHANGED <<now, ask, current, told, announced>> /\ ask[e] \in Request /\ pc[e] = "found"
    BY <1>3 DEF Write
  <2> DEFINE c == ask[e].id
  <2>2. c \in Closure
    BY <2>1, RequestShape
  <2>3. CASE Goes(e, "found", "done") /\ UNCHANGED <<table, row, at>>
    BY <2>1, <2>3 DEF table, Version
  <2>4. CASE /\ rows[c] # None
             /\ Goes(e, "found", "committed")
             /\ rows' = [rows EXCEPT ![c] = IF ask[e].kind = "patch"
                                            THEN Patched(rows[c], ask[e].data) ELSE None]
             /\ row' = [row EXCEPT ![e] = Returned(e)]
             /\ commits' = Append(commits, now)
             /\ at' = [at EXCEPT ![e] = Version + 1]
    <3>1. commits' \in Seq(Time) /\ Version' = Version + 1
      BY <2>4, OneMoreWrite
    <3>2. rows[c] \in Row
      BY <2>2, <2>4 DEF Table
    <3>3. Patched(rows[c], ask[e].data) \in Row
      BY <2>1, <3>2, PatchedIsRow
    <3>4. Returned(e) \in Row
      BY <2>1, <3>3 DEF Returned
    <3>5. rows' \in Table /\ row' \in [Editor -> Row \cup {None}]
      BY <2>4, <3>3, <3>4 DEF Table
    <3>6. at' \in [Editor -> 0..Version'] /\ announced' \in 0..Version'
      BY <2>1, <2>4, <3>1, <1>0
    <3>7. pc' \in [Editor -> {"begin", "found", "committed", "done"}]
      BY <2>4
    <3>8. ASSUME NEW f \in Editor
          PROVE  /\ pc'[f] = "found" => current'[f] \in Row /\ ask'[f].kind # "create"
                 /\ pc'[f] = "committed" => row'[f] \in Row
      BY <2>1, <2>4, <3>4
    <3> QED
      BY <2>1, <3>1, <3>5, <3>6, <3>7, <3>8
  <2> QED
    BY <1>3, <2>3, <2>4 DEF Write
<1>4. ASSUME NEW e \in Editor, Announce(e)
      PROVE  WritersTyped'
  <2>1. /\ UNCHANGED <<now, table, ask, current, row, at>>
        /\ pc[e] = "committed" /\ pc' = [pc EXCEPT ![e] = "done"]
        /\ announced' \in {at[e], announced}
        /\ told' = [told EXCEPT ![ask[e].id] = [action |-> Action(e), row |-> row[e]]]
    BY <1>4 DEF Announce
  <2>2. ask[e] \in Request
    OBVIOUS
  <2>3. Action(e) \in Kinds /\ row[e] \in Row
    BY <2>1, <2>2, RequestShape DEF Action, Kinds
  <2>4. [action |-> Action(e), row |-> row[e]] \in [action : Kinds, row : Row]
    BY <2>3
  <2>5. told' \in [Closure -> {None} \cup [action : Kinds, row : Row]]
    BY <2>1, <2>4
  <2>6. announced' \in 0..Version
    BY <2>1, <1>0
  <2> QED
    BY <2>1, <2>5, <2>6 DEF table, Version
<1>5. CASE UNCHANGED <<table, editors, announced>>
  BY <1>5 DEF table, editors, Version
<1>6. ASSUME NEW r \in Router, RouteHits(r) \/ RouteMisses(r) \/ QueryAnswers(r) \/ Fill(r) \/ QueryFails(r)
      PROVE  UNCHANGED <<table, editors, announced>>
  BY <1>6 DEF RouteHits, RouteMisses, QueryAnswers, Fill, QueryFails
<1>7. Tick => UNCHANGED <<table, editors, announced>>
  BY DEF Tick
<1>8. UNCHANGED vars => UNCHANGED <<table, editors, announced>>
  BY DEF vars
<1> QED
  BY <1>1, <1>2, <1>3, <1>4, <1>5, <1>6, <1>7, <1>8 DEF Next

LEMMA RoutesInit == Init => RoutesTyped
BY BoundsNat DEF Init, RoutesTyped, Time

(* What the shape of a route request is at each stage.                     *)
LEMMA Shapes ==
  ASSUME NEW x \in {Idle, Failed} \cup Fetching \cup Read \cup Given
  PROVE  /\ x.stage = "fetching" => x \in Fetching
         /\ x.stage = "read" => x \in Read
         /\ x.stage = "answered" => x \in Given
BY DEF Idle, Failed, Fetching, Read, Given

LEMMA ByStage ==
  ASSUME RoutesTyped, NEW r \in Router
  PROVE  /\ route[r].stage = "fetching" => route[r] \in Fetching
         /\ route[r].stage = "read" => route[r] \in Read
         /\ route[r].stage = "answered" => route[r] \in Given
BY Shapes DEF RoutesTyped

(* The rows a query finds are rows, and in force at the same times.        *)
LEMMA WhatIsFetched ==
  ASSUME rows \in Table, NEW t \in Time
  PROVE  Fetched(t) \in Table /\ Faithful(Fetched(t), rows, t)
<1>1. Fetched(t) \in Table
  BY DEF Fetched, Table
<1>2. ASSUME NEW u \in Time, u >= t
      PROVE  InForce(Fetched(t), u) = InForce(rows, u)
  <2>1. ASSUME NEW c \in Closure
        PROVE  c \in InForce(Fetched(t), u) <=> c \in InForce(rows, u)
    <3>1. CASE rows[c] = None
      BY <3>1 DEF InForce, Fetched
    <3>2. CASE rows[c] # None
      <4>1. rows[c].endsAt \in Int
        BY <3>2, BoundsNat DEF Table, Row, Time, Never
      <4>2. t \in Int /\ u \in Int
        BY DEF Time
      <4> QED
        BY <1>2, <3>2, <4>1, <4>2 DEF InForce, Fetched
    <3> QED
      BY <3>1, <3>2
  <2> QED
    BY <2>1 DEF InForce
<1> QED
  BY <1>1, <1>2 DEF Faithful

LEMMA RoutesStep ==
  ASSUME WritersTyped, RoutesTyped, [Next]_vars
  PROVE  RoutesTyped'
<1>0. /\ now \in Time /\ rows \in Table /\ announced \in Nat /\ Version \in Nat
      /\ route \in [Router -> {Idle, Failed} \cup Fetching \cup Read \cup Given]
  BY DEF WritersTyped, RoutesTyped, Version
<1>1. CASE UNCHANGED <<now, cache, route, raced>>
  BY <1>1 DEF RoutesTyped, InFlight
<1>2. ASSUME NEW e \in Editor, Announce(e)
      PROVE  RoutesTyped'
  BY <1>2 DEF Announce, RoutesTyped, InFlight
<1>3. ASSUME NEW r \in Router, RouteHits(r)
      PROVE  RoutesTyped'
  <2>1. cache \in Entry /\ UNCHANGED <<now, cache, raced>>
        /\ route[r] = Idle /\ route' = [route EXCEPT ![r] = Answer(cache, now, announced)]
    BY <1>3 DEF RouteHits, RoutesTyped
  <2>2. Answer(cache, now, announced) \in Given
    BY <1>0, <2>1 DEF Answer, Entry, Given, InForce
  <2>3. route' \in [Router -> {Idle, Failed} \cup Fetching \cup Read \cup Given]
    BY <1>0, <2>1, <2>2
  <2>4. InFlight \subseteq InFlight'
    BY <1>0, <2>1 DEF InFlight, Idle
  <2> QED
    BY <2>1, <2>3, <2>4 DEF RoutesTyped
<1>4. ASSUME NEW r \in Router, RouteMisses(r)
      PROVE  RoutesTyped'
  <2> DEFINE x == [stage |-> "fetching", at |-> now, since |-> announced]
  <2>1. UNCHANGED <<now, cache, raced>> /\ route[r] = Idle /\ route' = [route EXCEPT ![r] = x]
    BY <1>4 DEF RouteMisses
  <2>2. x \in Fetching
    BY <1>0 DEF Fetching
  <2>3. route' \in [Router -> {Idle, Failed} \cup Fetching \cup Read \cup Given]
    BY <1>0, <2>1, <2>2
  <2>4. InFlight \subseteq InFlight'
    BY <1>0, <2>1 DEF InFlight, Idle
  <2> QED
    BY <2>1, <2>3, <2>4 DEF RoutesTyped
<1>5. ASSUME NEW r \in Router, QueryAnswers(r)
      PROVE  RoutesTyped'
  <2> DEFINE x == [stage |-> "read", at |-> route[r].at, since |-> route[r].since,
                   rows |-> Fetched(route[r].at), asRead |-> rows, seen |-> Version]
  <2>1. UNCHANGED <<now, cache, raced>> /\ route[r].stage = "fetching" /\ route' = [route EXCEPT ![r] = x]
    BY <1>5 DEF QueryAnswers
  <2>2. route[r] \in Fetching
    BY <2>1, ByStage
  <2>3. route[r].at \in Time /\ route[r].since \in Nat
    BY <2>2 DEF Fetching
  <2>4. x \in Read
    BY <1>0, <2>3, WhatIsFetched DEF Read
  <2>5. route' \in [Router -> {Idle, Failed} \cup Fetching \cup Read \cup Given]
    BY <1>0, <2>1, <2>4
  <2>6. InFlight \subseteq InFlight'
    BY <1>0, <2>1 DEF InFlight
  <2> QED
    BY <2>1, <2>5, <2>6 DEF RoutesTyped
<1>6. ASSUME NEW r \in Router, Fill(r)
      PROVE  RoutesTyped'
  <2> DEFINE entry == [rows |-> route[r].rows, loadedAt |-> now, asRead |-> route[r].asRead,
                       seen |-> route[r].seen, raced |-> r \in raced]
  <2>1. /\ UNCHANGED now /\ route[r].stage = "read" /\ cache' = entry /\ raced' = raced \ {r}
        /\ route' = [route EXCEPT ![r] = Answer(entry, route[r].at, route[r].since)]
    BY <1>6 DEF Fill
  <2>2. route[r] \in Read
    BY <2>1, ByStage
  <2>3. entry \in Entry
    BY <1>0, <2>2 DEF Read, Entry
  <2>4. Answer(entry, route[r].at, route[r].since) \in Given
    BY <2>2, <2>3 DEF Answer, Entry, Given, InForce, Read
  <2>5. route' \in [Router -> {Idle, Failed} \cup Fetching \cup Read \cup Given]
    BY <1>0, <2>1, <2>4
  <2>6. InFlight \ {r} \subseteq InFlight'
    BY <1>0, <2>1 DEF InFlight
  <2> QED
    BY <2>1, <2>3, <2>5, <2>6 DEF RoutesTyped
<1>7. ASSUME NEW r \in Router, QueryFails(r)
      PROVE  RoutesTyped'
  <2>1. /\ UNCHANGED <<now, cache>> /\ raced' = raced \ {r}
        /\ route' = [route EXCEPT ![r] = Failed]
    BY <1>7 DEF QueryFails, Failed
  <2>2. route' \in [Router -> {Idle, Failed} \cup Fetching \cup Read \cup Given]
    BY <1>0, <2>1
  <2>3. InFlight \ {r} \subseteq InFlight'
    BY <1>0, <2>1 DEF InFlight
  <2> QED
    BY <2>1, <2>2, <2>3 DEF RoutesTyped
<1>8. CASE Tick
  BY <1>8, BoundsNat DEF Tick, RoutesTyped, InFlight, Time
<1>9. (\E e \in Editor : Create(e) \/ Find(e) \/ Write(e)) \/ UNCHANGED vars
      => UNCHANGED <<now, cache, route, raced>>
  BY DEF Create, Find, Write, vars
<1> QED
  BY <1>1, <1>2, <1>3, <1>4, <1>5, <1>6, <1>7, <1>8, <1>9 DEF Next

LEMMA Typed == Spec => [](WritersTyped /\ RoutesTyped)
<1>1. Init => WritersTyped /\ RoutesTyped
  BY WritersInit, RoutesInit
<1>2. WritersTyped /\ RoutesTyped /\ [Next]_vars => (WritersTyped /\ RoutesTyped)'
  <2> SUFFICES ASSUME WritersTyped, RoutesTyped, [Next]_vars PROVE WritersTyped' /\ RoutesTyped'
    OBVIOUS
  <2>1. now \in Time
    BY DEF RoutesTyped
  <2> QED
    BY <2>1, WritersStep, RoutesStep
<1> QED
  BY <1>1, <1>2, PTL DEF Spec

(* The types of the closures, their editors, the cache and the routes hold  *)
(* in every behaviour.                                                     *)
THEOREM TypeTheorem == Spec => []TypeOK
<1>1. WritersTyped /\ RoutesTyped => TypeOK
  <2> SUFFICES ASSUME WritersTyped, RoutesTyped PROVE TypeOK
    OBVIOUS
  <2>1. \A c \in Closure : told[c] = None \/ told[c].row \in Row
    BY DEF WritersTyped
  <2>2. cache = Empty \/ cache.rows \in [Closure -> Row \cup {None}]
    BY DEF RoutesTyped, Entry, Table
  <2>3. \A r \in Router : route[r].stage \in Stage
    BY DEF RoutesTyped, Stage, Idle, Failed, Fetching, Read, Given
  <2> QED
    BY <2>1, <2>2, <2>3 DEF TypeOK, WritersTyped, RoutesTyped, Table
<1> QED
  BY <1>1, Typed, PTL

-----------------------------------------------------------------------------
(* The cache *)

(* A write that is committed now comes after what was read before.         *)
LEMMA StillSince ==
  ASSUME NEW C \in Seq(Time), NEW D, NEW t \in Time, D = C \/ D = Append(C, t),
         NEW v \in Nat, NEW from \in Nat, NEW slack \in Nat,
         Since(v, from, slack, C), from <= t + slack
  PROVE  Since(v, from, slack, D)
<1>1. CASE D = Append(C, t)
  <2>1. /\ Len(C) \in Nat /\ Len(D) = Len(C) + 1 /\ D[Len(C) + 1] = t
        /\ \A w \in 1..Len(C) : D[w] = C[w]
    BY <1>1
  <2>2. ASSUME NEW w \in (v + 1)..Len(D)
        PROVE  from <= D[w] + slack
    <3>1. CASE w = Len(C) + 1
      BY <2>1, <3>1
    <3>2. CASE w # Len(C) + 1
      <4>1. w \in (v + 1)..Len(C) /\ w \in 1..Len(C)
        BY <2>1, <3>2
      <4> QED
        BY <2>1, <4>1 DEF Since
    <3> QED
      BY <3>1, <3>2
  <2> QED
    BY <2>1, <2>2 DEF Since
<1> QED
  BY <1>1

(* So what was sound stays so while writes are committed.                  *)
LEMMA EntryStays ==
  ASSUME NEW C \in Seq(Time), NEW D, NEW t \in Time, D = C \/ D = Append(C, t), NEW a \in Nat,
         NEW x \in Entry, EntrySound(x, t, C, a)
  PROVE  EntrySound(x, t, D, a)
<1>1. x.seen \in Nat /\ x.loadedAt \in Nat /\ t \in Nat /\ x.loadedAt <= t + MaxFetch
  BY BoundsNat DEF Entry, Time, EntrySound
<1>2. Since(x.seen, x.loadedAt, MaxFetch, D)
  BY <1>1, StillSince, BoundsNat DEF EntrySound
<1> QED
  BY <1>2 DEF EntrySound

LEMMA RequestStays ==
  ASSUME NEW C \in Seq(Time), NEW D, NEW t \in Time, D = C \/ D = Append(C, t), NEW a \in Nat,
         NEW x \in {Idle, Failed} \cup Fetching \cup Read \cup Given,
         NEW r, NEW R, RequestSound(x, r, R, t, C, a)
  PROVE  RequestSound(x, r, R, t, D, a)
<1> USE BoundsNat, TtlPositive
<1>1. CASE x.stage = "read"
  <2>1. x.seen \in Nat /\ x.at \in Nat /\ t \in Nat /\ x.at <= t + 0
    BY <1>1, Shapes DEF Read, Time, RequestSound, ReadSound, InTime
  <2>2. Since(x.seen, x.at, 0, D)
    BY <1>1, <2>1, StillSince DEF RequestSound, ReadSound
  <2> QED
    BY <1>1, <2>2 DEF RequestSound, ReadSound
<1>2. CASE x.stage = "answered"
  <2>1. x.seen \in Nat /\ x.at + 1 \in Nat /\ t \in Nat /\ x.at + 1 <= t + (Ttl + MaxFetch)
    BY <1>2, Shapes DEF Given, Time, RequestSound, AnswerSound
  <2>2. Since(x.seen, x.at + 1, Ttl + MaxFetch, D)
    BY <1>2, <2>1, StillSince DEF RequestSound, AnswerSound
  <2> QED
    BY <1>2, <2>2 DEF RequestSound, AnswerSound
<1> QED
  BY <1>1, <1>2 DEF RequestSound

(* One request's step: the others, and what was committed, stay.           *)
LEMMA OneRequest ==
  ASSUME WritersTyped, RoutesTyped, CacheInv, NEW r \in Router, NEW x,
         route' = [route EXCEPT ![r] = x], UNCHANGED <<now, commits, announced>>,
         raced' = raced \/ raced' = raced \ {r},
         RequestSound(x, r, raced', now, commits, announced),
         cache' = cache \/ EntrySound(cache', now, commits, announced)
  PROVE  CacheInv'
<1>1. \A q \in Router : route'[q] = IF q = r THEN x ELSE route[q]
  BY DEF RoutesTyped
<1>2. \A q \in Router \ {r} : q \in raced' <=> q \in raced
  OBVIOUS
<1>3. ASSUME NEW q \in Router
      PROVE  RequestSound(route'[q], q, raced', now, commits, announced)
  <2>1. CASE q = r
    BY <1>1, <2>1
  <2>2. CASE q # r
    <3>1. route'[q] = route[q] /\ (q \in raced') = (q \in raced)
      BY <1>1, <1>2, <2>2
    <3>2. RequestSound(route[q], q, raced, now, commits, announced)
      BY DEF CacheInv
    <3> QED
      BY <3>1, <3>2 DEF RequestSound, ReadSound
  <2> QED
    BY <2>1, <2>2
<1>4. cache' # Empty => EntrySound(cache', now, commits, announced)
  BY DEF CacheInv
<1> QED
  BY <1>3, <1>4 DEF CacheInv

LEMMA CacheInit == Init => CacheInv
BY DEF Init, CacheInv, RequestSound, Idle

(* A write, or its announcement, while requests are under way.             *)
LEMMA WriterStep ==
  ASSUME WritersTyped, RoutesTyped, CacheInv, NEW e \in Editor,
         Create(e) \/ Find(e) \/ Write(e) \/ Announce(e)
  PROVE  CacheInv'
<1>0. /\ commits \in Seq(Time) /\ now \in Time /\ announced \in Nat /\ Version \in Nat
      /\ route \in [Router -> {Idle, Failed} \cup Fetching \cup Read \cup Given]
  BY DEF WritersTyped, RoutesTyped, Version
<1>1. CASE Create(e) \/ Find(e) \/ Write(e)
  <2>1. /\ UNCHANGED <<now, announced, cache, route, raced>>
        /\ commits' = commits \/ commits' = Append(commits, now)
    BY <1>1 DEF Create, Find, Write, table
  <2>2. cache # Empty => EntrySound(cache, now, commits', announced)
    <3> SUFFICES ASSUME cache # Empty PROVE EntrySound(cache, now, commits', announced)
      OBVIOUS
    <3>1. cache \in Entry /\ EntrySound(cache, now, commits, announced)
      BY DEF RoutesTyped, CacheInv
    <3> QED
      BY <1>0, <2>1, <3>1, EntryStays
  <2>3. ASSUME NEW r \in Router
        PROVE  RequestSound(route[r], r, raced, now, commits', announced)
    <3>1. /\ route[r] \in {Idle, Failed} \cup Fetching \cup Read \cup Given
          /\ RequestSound(route[r], r, raced, now, commits, announced)
      BY <1>0 DEF CacheInv
    <3> QED
      BY <1>0, <2>1, <3>1, RequestStays
  <2> QED
    BY <2>1, <2>2, <2>3 DEF CacheInv
<1>2. CASE Announce(e)
  <2>1. /\ UNCHANGED <<now, commits, route>> /\ cache' = Empty /\ raced' = raced \cup InFlight
        /\ announced' = IF at[e] > announced THEN at[e] ELSE announced
    BY <1>2 DEF Announce, table
  <2>2. announced' \in Nat /\ announced' >= announced
    BY <2>1, <1>0 DEF WritersTyped
  <2>3. ASSUME NEW r \in Router
        PROVE  RequestSound(route[r], r, raced', now, commits, announced')
    <3>1. RequestSound(route[r], r, raced, now, commits, announced)
      BY DEF CacheInv
    <3>2. CASE route[r].stage = "fetching"
      <4>1. route[r] \in Fetching
        BY <3>2, ByStage
      <4> QED
        BY <1>0, <2>2, <3>1, <3>2, <4>1 DEF RequestSound, FetchSound, Fetching
    <3>3. CASE route[r].stage = "read"
      <4>1. route[r] \in Read /\ r \in raced'
        BY <2>1, <3>3, ByStage DEF InFlight
      <4> QED
        BY <1>0, <2>2, <3>1, <3>3, <4>1 DEF RequestSound, ReadSound, Read
    <3> QED
      BY <3>1, <3>2, <3>3 DEF RequestSound
  <2> QED
    BY <2>1, <2>3 DEF CacheInv
<1> QED
  BY <1>1, <1>2

(* A route request hits the cache: the entry is young enough.              *)
LEMMA HitStep ==
  ASSUME WritersTyped, RoutesTyped, CacheInv, NEW r \in Router, RouteHits(r)
  PROVE  CacheInv'
<1> USE BoundsNat, TtlPositive
<1> DEFINE x == Answer(cache, now, announced)
<1>1. /\ UNCHANGED <<now, commits, announced, cache, raced>> /\ route' = [route EXCEPT ![r] = x]
      /\ cache \in Entry /\ now - cache.loadedAt < Ttl
      /\ EntrySound(cache, now, commits, announced)
  BY DEF RouteHits, RoutesTyped, table, CacheInv
<1>2. /\ now \in Time /\ now \in Nat /\ announced \in Nat /\ cache.loadedAt \in Nat
      /\ cache.seen \in Nat /\ Len(commits) \in Nat
  BY <1>1 DEF RoutesTyped, WritersTyped, Entry, Time, Version
<1>3. Since(cache.seen, now + 1, Ttl + MaxFetch, commits)
  <2> SUFFICES ASSUME NEW w \in (cache.seen + 1)..Len(commits)
               PROVE  now + 1 <= commits[w] + (Ttl + MaxFetch)
    BY <1>1 DEF EntrySound, Since
  <2>1. cache.loadedAt <= commits[w] + MaxFetch
    BY <1>1 DEF EntrySound, Since
  <2>2. commits[w] \in Nat
    BY <1>2 DEF WritersTyped, Time
  <2> QED
    BY <1>1, <1>2, <2>1, <2>2
<1>4. InForce(cache.rows, now) = InForce(cache.asRead, now)
  BY <1>1, <1>2 DEF EntrySound, Faithful
<1>5. cache.seen < announced => cache.raced
  BY <1>1, <1>2 DEF EntrySound
<1>6. AnswerSound(x, now, commits)
  BY <1>2, <1>3, <1>4, <1>5 DEF AnswerSound, Answer
<1>7. RequestSound(x, r, raced', now, commits, announced)
  BY <1>6 DEF RequestSound, Answer
<1> HIDE DEF x
<1> QED
  BY <1>1, <1>7, OneRequest

(* It misses, and a query is sent.                                         *)
LEMMA MissStep ==
  ASSUME WritersTyped, RoutesTyped, CacheInv, NEW r \in Router, RouteMisses(r)
  PROVE  CacheInv'
<1> DEFINE x == [stage |-> "fetching", at |-> now, since |-> announced]
<1>1. UNCHANGED <<now, commits, announced, cache, raced>> /\ route' = [route EXCEPT ![r] = x]
  BY DEF RouteMisses, table
<1>2. now \in Nat /\ announced \in Nat
  BY DEF RoutesTyped, WritersTyped, Time, Version
<1>3. RequestSound(x, r, raced', now, commits, announced)
  BY <1>2, BoundsNat DEF RequestSound, FetchSound, InTime
<1> HIDE DEF x
<1> QED
  BY <1>1, <1>3, OneRequest

(* The rows are read: nothing committed is later than them.                *)
LEMMA AnswerStep ==
  ASSUME WritersTyped, RoutesTyped, CacheInv, NEW r \in Router, QueryAnswers(r)
  PROVE  CacheInv'
<1> DEFINE x == [stage |-> "read", at |-> route[r].at, since |-> route[r].since,
                 rows |-> Fetched(route[r].at), asRead |-> rows, seen |-> Version]
<1>1. UNCHANGED <<now, commits, announced, cache, raced>> /\ route' = [route EXCEPT ![r] = x]
      /\ route[r].stage = "fetching"
  BY DEF QueryAnswers, table
<1>2. route[r] \in Fetching /\ FetchSound(route[r], now, announced)
  BY <1>1, ByStage DEF CacheInv, RequestSound
<1>3. Version \in Nat /\ announced \in 0..Version /\ Version = Len(commits)
  BY DEF WritersTyped, Version
<1>4. Since(Version, route[r].at, 0, commits)
  BY <1>3 DEF Since
<1>5. Faithful(Fetched(route[r].at), rows, route[r].at)
  BY <1>2, WhatIsFetched DEF Fetching, WritersTyped
<1>6. ReadSound(x, r, raced', now, commits, announced)
  BY <1>2, <1>3, <1>4, <1>5 DEF ReadSound, FetchSound, InTime
<1>7. RequestSound(x, r, raced', now, commits, announced)
  BY <1>6 DEF RequestSound
<1> HIDE DEF x
<1> QED
  BY <1>1, <1>7, OneRequest

(* The cache is filled.                                                    *)
LEMMA FillStep ==
  ASSUME WritersTyped, RoutesTyped, CacheInv, NEW r \in Router, Fill(r)
  PROVE  CacheInv'
<1> USE BoundsNat, TtlPositive
<1> DEFINE entry == [rows |-> route[r].rows, loadedAt |-> now, asRead |-> route[r].asRead,
                     seen |-> route[r].seen, raced |-> r \in raced]
           x == Answer(entry, route[r].at, route[r].since)
<1>1. /\ UNCHANGED <<now, commits, announced>> /\ route[r].stage = "read"
      /\ cache' = entry /\ raced' = raced \ {r} /\ route' = [route EXCEPT ![r] = x]
  BY DEF Fill, table
<1>2. route[r] \in Read /\ ReadSound(route[r], r, raced, now, commits, announced)
  BY <1>1, ByStage DEF CacheInv, RequestSound
<1>3. /\ now \in Time /\ now \in Nat /\ announced \in Nat /\ Len(commits) \in Nat
      /\ route[r].at \in Time /\ route[r].at \in Nat /\ route[r].seen \in Nat /\ route[r].since \in Nat
  BY <1>2 DEF RoutesTyped, WritersTyped, Read, Time, Version
<1>4. ASSUME NEW w \in (route[r].seen + 1)..Len(commits)
      PROVE  commits[w] \in Nat /\ route[r].at <= commits[w]
  <2>1. commits[w] \in Nat
    BY <1>3, CommitTimes DEF Version
  <2> QED
    BY <1>2, <1>3, <2>1 DEF ReadSound, Since
<1>5. route[r].at <= now /\ now <= route[r].at + MaxFetch /\ route[r].seen <= Len(commits)
  BY <1>2 DEF ReadSound, InTime, Since
<1>6. Since(route[r].seen, now, MaxFetch, commits)
      /\ Since(route[r].seen, route[r].at + 1, Ttl + MaxFetch, commits)
  <2>1. ASSUME NEW w \in (route[r].seen + 1)..Len(commits)
        PROVE  now <= commits[w] + MaxFetch /\ route[r].at + 1 <= commits[w] + (Ttl + MaxFetch)
    <3>1. commits[w] \in Nat /\ route[r].at <= commits[w]
      BY <1>4
    <3> QED
      BY <1>3, <1>5, <3>1
  <2> QED
    BY <1>5, <2>1 DEF Since
<1>7. Faithful(route[r].rows, route[r].asRead, route[r].at)
  BY <1>2 DEF ReadSound
<1>8. Faithful(route[r].rows, route[r].asRead, now)
  BY <1>3, <1>5, <1>7 DEF Faithful, Time
<1>9. EntrySound(entry, now, commits, announced)
  <2>1. entry.seen >= announced \/ entry.raced
    <3>1. CASE r \in raced
      BY <3>1
    <3>2. CASE r \notin raced
      BY <1>2, <3>2 DEF ReadSound
    <3> QED
      BY <3>1, <3>2
  <2> QED
    BY <1>3, <1>6, <1>8, <2>1 DEF EntrySound
<1>10. InForce(route[r].rows, route[r].at) = InForce(route[r].asRead, route[r].at)
  BY <1>3, <1>7 DEF Faithful
<1>11. route[r].seen < route[r].since => r \in raced
  BY <1>2, <1>3 DEF ReadSound
<1>12. AnswerSound(x, now, commits)
  BY <1>5, <1>6, <1>10, <1>11 DEF AnswerSound, Answer
<1>13. RequestSound(x, r, raced', now, commits, announced)
  BY <1>12 DEF RequestSound, Answer
<1> HIDE DEF x, entry
<1> QED
  BY <1>1, <1>9, <1>13, OneRequest

LEMMA FailStep ==
  ASSUME WritersTyped, RoutesTyped, CacheInv, NEW r \in Router, QueryFails(r)
  PROVE  CacheInv'
<1>1. UNCHANGED <<now, commits, announced, cache>> /\ route' = [route EXCEPT ![r] = Failed]
      /\ raced' = raced \ {r}
  BY DEF QueryFails, Failed, table
<1>2. RequestSound(Failed, r, raced', now, commits, announced)
  BY DEF RequestSound, Failed
<1> QED
  BY <1>1, <1>2, OneRequest

(* Time passes, but not beyond MaxFetch for a query under way.             *)
LEMMA TickStep ==
  ASSUME WritersTyped, RoutesTyped, CacheInv, Tick
  PROVE  CacheInv'
<1> USE BoundsNat, TtlPositive
<1>1. UNCHANGED <<commits, announced, cache, route, raced>> /\ now' = now + 1 /\ now \in Nat
  BY DEF Tick, table, RoutesTyped, Time
<1>2. cache # Empty => EntrySound(cache, now + 1, commits, announced)
  <2> SUFFICES ASSUME cache # Empty PROVE EntrySound(cache, now + 1, commits, announced)
    OBVIOUS
  <2>1. cache \in Entry /\ EntrySound(cache, now, commits, announced)
    BY DEF CacheInv, RoutesTyped
  <2>2. cache.loadedAt \in Nat
    BY <2>1 DEF Entry, Time
  <2> QED
    BY <1>1, <2>1, <2>2 DEF EntrySound
<1>3. ASSUME NEW r \in Router
      PROVE  RequestSound(route[r], r, raced, now + 1, commits, announced)
  <2>1. RequestSound(route[r], r, raced, now, commits, announced)
    BY DEF CacheInv
  <2>2. route[r].stage \in {"fetching", "read"} => now - route[r].at < MaxFetch
    BY DEF Tick
  <2>3. route[r].stage \in {"fetching", "read", "answered"} => route[r].at \in Nat
    BY ByStage DEF Fetching, Read, Given, Time
  <2> QED
    BY <1>1, <2>1, <2>2, <2>3 DEF RequestSound, FetchSound, ReadSound, AnswerSound, InTime
<1> QED
  BY <1>1, <1>2, <1>3 DEF CacheInv

LEMMA CacheInvariant == Spec => []CacheInv
<1>1. CacheInv /\ WritersTyped /\ RoutesTyped /\ [Next]_vars => CacheInv'
  <2> SUFFICES ASSUME CacheInv, WritersTyped, RoutesTyped, [Next]_vars PROVE CacheInv'
    OBVIOUS
  <2>1. CASE UNCHANGED vars
    BY <2>1 DEF vars, table, CacheInv
  <2> QED
    BY <2>1, WriterStep, HitStep, MissStep, AnswerStep, FillStep, FailStep, TickStep DEF Next
<1> QED
  BY <1>1, CacheInit, Typed, PTL DEF Spec

(* A route request is told exactly the closures in force when it asked,     *)
(* among those there were when the rows behind its answer were read.        *)
THEOREM AnswersTheorem == Spec => []AnswersInForce
<1>1. CacheInv => AnswersInForce
  BY DEF CacheInv, RequestSound, AnswerSound, AnswersInForce, Answered
<1> QED
  BY <1>1, CacheInvariant, PTL

(* An announced write is missing from an answer only if an invalidation     *)
(* overtook the query behind it.                                           *)
THEOREM StaleTheorem == Spec => []StaleOnlyAfterRace
<1>1. CacheInv => StaleOnlyAfterRace
  BY DEF CacheInv, RequestSound, AnswerSound, StaleOnlyAfterRace, Answered
<1> QED
  BY <1>1, CacheInvariant, PTL

(* Even then no longer than the TTL and the time a query takes.            *)
THEOREM BoundTheorem == Spec => []BoundedStaleness
<1>1. CacheInv /\ WritersTyped /\ RoutesTyped => BoundedStaleness
  <2> SUFFICES ASSUME CacheInv, WritersTyped, RoutesTyped PROVE BoundedStaleness
    OBVIOUS
  <2>0. /\ \A r \in Answered : route[r] \in Given
        /\ Version \in Nat /\ Version = Len(commits)
    BY ByStage DEF Answered, Version, WritersTyped
  <2> SUFFICES ASSUME NEW r \in Answered, NEW v \in 1..Version,
                      route[r].at >= commits[v] + Ttl + MaxFetch, ~ v <= route[r].seen
               PROVE  FALSE
    BY DEF BoundedStaleness
  <2>1. route[r] \in Given /\ AnswerSound(route[r], now, commits)
    BY ByStage DEF Answered, CacheInv, RequestSound
  <2>2. route[r].at \in Nat /\ route[r].seen \in Nat /\ Version = Len(commits) /\ Version \in Nat
    BY <2>0, <2>1 DEF Given, Time
  <2>3. v \in (route[r].seen + 1)..Version
    BY <2>2
  <2>4. commits[v] \in Nat
    BY <2>2, <2>3, CommitTimes
  <2>5. route[r].at + 1 <= commits[v] + (Ttl + MaxFetch)
    BY <2>1, <2>2, <2>3 DEF AnswerSound, Since
  <2> QED
    BY <2>2, <2>4, <2>5, BoundsNat, TtlPositive
<1> QED
  BY <1>1, CacheInvariant, Typed, PTL

-----------------------------------------------------------------------------
(* The frames *)

(* What the frames owe to one closure.                                     *)
Settled(c) ==
  \/ rows[c] = None /\ (told[c] = None \/ told[c].action = "deleted")
  \/ rows[c] # None /\ told[c] # None /\ told[c].action # "deleted" /\ told[c].row = rows[c]

LEMMA FrameInit == Init => FrameInv
<1> SUFFICES ASSUME Init PROVE FrameInv
  OBVIOUS
<1>1. ASSUME NEW c \in Closure
      PROVE  Settled(c)
  <2>1. told[c] = IF rows[c] = None THEN None ELSE [action |-> "created", row |-> rows[c]]
    BY DEF Init
  <2>2. CASE rows[c] # None
    <3>1. rows[c] \in Row
      BY <2>2, WritersInit DEF WritersTyped, Table
    <3>2. told[c].action = "created" /\ told[c].row = rows[c]
      BY <2>1, <2>2
    <3>3. told[c] # None
      <4> SUFFICES ASSUME told[c] = None PROVE FALSE
        OBVIOUS
      <4>1. DOMAIN told[c] = {"action", "row"} /\ DOMAIN told[c] = {"gone"}
        BY <2>1, <2>2 DEF None
      <4> QED
        BY <4>1
    <3> QED
      BY <2>2, <3>2, <3>3 DEF Settled
  <2> QED
    BY <2>1, <2>2 DEF Settled
<1>2. \A e \in Editor : pc[e] = "begin"
  BY DEF Init
<1> QED
  BY <1>1, <1>2 DEF FrameInv, FramesFollowRows, Settled, Waits

(* A write waits to be announced: it is the only one on its closure.       *)
LEMMA CommitStep ==
  ASSUME WritersTyped, FrameInv, NEW e \in Editor, NEW c \in Closure,
         c = ask[e].id, UNCHANGED <<ask, told>>,
         \A d \in Editor : ~Waits(d, c),
         pc[e] # "committed", pc' = [pc EXCEPT ![e] = "committed"],
         NEW x \in Row, row' = [row EXCEPT ![e] = x],
         rows' = [rows EXCEPT ![c] = IF ask[e].kind = "delete" THEN None ELSE x],
         ask[e].kind # "create" => rows[c] # None
  PROVE  FrameInv'
<1>1. /\ pc'[e] = "committed" /\ \A d \in Editor \ {e} : pc'[d] = pc[d]
      /\ row'[e] = x /\ \A d \in Editor \ {e} : row'[d] = row[d]
      /\ rows'[c] = (IF ask[e].kind = "delete" THEN None ELSE x)
      /\ \A b \in Closure \ {c} : rows'[b] = rows[b]
  BY DEF WritersTyped, Table
<1>2. \A d \in Editor : ask[d].id \in Closure
  BY RequestShape DEF WritersTyped
<1>3. \A d \in Editor \ {e} : pc[d] = "committed" => ask[d].id # c
  BY DEF Waits
<1>4. Settled(c)
  BY DEF FrameInv, FramesFollowRows, Waits, Settled
<1>5. \A d, f \in Editor : pc'[d] = "committed" /\ Waits(f, ask[d].id)' => d = f
  BY <1>1, <1>3 DEF FrameInv, Waits
<1>6. ASSUME NEW d \in Editor, pc'[d] = "committed"
      PROVE  /\ rows'[ask[d].id] = IF ask[d].kind = "delete" THEN None ELSE row'[d]
             /\ ask[d].kind # "create" => told[ask[d].id] # None
  <2>1. CASE d = e
    BY <1>1, <1>4, <2>1 DEF Settled
  <2>2. CASE d # e
    BY <1>1, <1>2, <1>3, <1>6, <2>2 DEF FrameInv
  <2> QED
    BY <2>1, <2>2
<1>7. ASSUME NEW b \in Closure, \A d \in Editor : ask[d].id = b => pc'[d] # "committed"
      PROVE  Settled(b)'
  <2>1. b # c
    BY <1>1, <1>7
  <2>2. \A d \in Editor : ask[d].id = b => pc[d] # "committed"
    BY <1>1, <1>7, <2>1
  <2> QED
    BY <1>1, <2>1, <2>2 DEF FrameInv, FramesFollowRows, Settled
<1> QED
  BY <1>5, <1>6, <1>7 DEF FrameInv, FramesFollowRows, Settled

(* A request that comes to nothing.                                        *)
LEMMA NothingWritten ==
  ASSUME WritersTyped, FrameInv, NEW e \in Editor, NEW to \in {"found", "done"},
         pc[e] # "committed", pc' = [pc EXCEPT ![e] = to], UNCHANGED <<rows, row, ask, told>>
  PROVE  FrameInv'
<1>1. pc'[e] = to /\ \A d \in Editor \ {e} : pc'[d] = pc[d]
  BY DEF WritersTyped
<1>2. \A d \in Editor : pc'[d] = "committed" <=> pc[d] = "committed"
  BY <1>1
<1> QED
  BY <1>2 DEF FrameInv, FramesFollowRows, Waits

LEMMA FrameStep ==
  ASSUME WritersTyped, FrameInv, [Next]_vars
  PROVE  FrameInv'
<1>0. \A e \in Editor : ask[e] \in Request /\ ask[e].id \in Closure
  BY RequestShape DEF WritersTyped
<1>1. ASSUME NEW e \in Editor, Create(e)
      PROVE  FrameInv'
  <2> DEFINE c == ask[e].id
  <2>1. /\ UNCHANGED <<ask, told>> /\ ask[e].kind = "create" /\ told[c] = None /\ rows[c] = None
        /\ \A f \in Editor : ask[f].kind = "create" /\ ask[f].id = c => pc[f] = "begin"
    BY <1>1 DEF Create
  <2>2. ask[e].data \in Row /\ pc[e] # "committed"
    BY <1>0, <2>1, RequestShape
  <2>3. ASSUME NEW d \in Editor, Waits(d, c)
        PROVE  FALSE
    BY <1>0, <2>1, <2>3 DEF FrameInv, Waits
  <2>4. CASE Goes(e, "begin", "done") /\ UNCHANGED <<table, row, at>>
    BY <2>1, <2>2, <2>4, NothingWritten DEF Goes, table
  <2>5. CASE /\ Goes(e, "begin", "committed")
             /\ rows' = [rows EXCEPT ![c] = ask[e].data]
             /\ row' = [row EXCEPT ![e] = ask[e].data]
    BY <1>0, <2>1, <2>2, <2>3, <2>5, CommitStep DEF Goes
  <2> QED
    BY <1>1, <2>4, <2>5 DEF Create
<1>2. ASSUME NEW e \in Editor, Find(e)
      PROVE  FrameInv'
  <2>1. /\ UNCHANGED <<rows, row, ask, told>> /\ pc[e] # "committed"
        /\ \E to \in {"found", "done"} : pc' = [pc EXCEPT ![e] = to]
    BY <1>2 DEF Find, Goes, table
  <2> QED
    BY <2>1, NothingWritten
<1>3. ASSUME NEW e \in Editor, Write(e)
      PROVE  FrameInv'
  <2> DEFINE c == ask[e].id
  <2>1. UNCHANGED <<ask, told>> /\ EarlierAnnounced(e) /\ pc[e] = "found" /\ ask[e].kind # "create"
    BY <1>3 DEF Write, Goes, WritersTyped
  <2>2. \A d \in Editor : ~Waits(d, c)
    BY <2>1 DEF EarlierAnnounced, Waits
  <2>3. CASE Goes(e, "found", "done") /\ UNCHANGED <<table, row, at>>
    BY <2>1, <2>3, NothingWritten DEF Goes, table
  <2>4. CASE /\ rows[c] # None
             /\ Goes(e, "found", "committed")
             /\ rows' = [rows EXCEPT ![c] = IF ask[e].kind = "patch"
                                            THEN Patched(rows[c], ask[e].data) ELSE None]
             /\ row' = [row EXCEPT ![e] = Returned(e)]
    <3>1. ask[e].kind \in {"patch", "delete"}
      BY <1>0, <2>1, RequestShape
    <3>2. rows[c] \in Row
      BY <1>0, <2>4 DEF WritersTyped, Table
    <3>3. Returned(e) \in Row
      BY <1>0, <2>1, <3>2, PatchedIsRow DEF Returned, WritersTyped
    <3>4. rows' = [rows EXCEPT ![c] = IF ask[e].kind = "delete" THEN None ELSE Returned(e)]
      BY <2>4, <3>1 DEF Returned
    <3> QED
      BY <1>0, <2>1, <2>2, <2>4, <3>3, <3>4, CommitStep DEF Goes
  <2> QED
    BY <1>3, <2>3, <2>4 DEF Write
<1>4. ASSUME NEW e \in Editor, Announce(e)
      PROVE  FrameInv'
  <2> DEFINE c == ask[e].id
             frame == [action |-> Action(e), row |-> row[e]]
  <2>1. /\ UNCHANGED <<rows, row, ask>> /\ pc[e] = "committed" /\ pc' = [pc EXCEPT ![e] = "done"]
        /\ told' = [told EXCEPT ![c] = frame]
    BY <1>4 DEF Announce, Goes, table
  <2>2. /\ pc'[e] = "done" /\ \A d \in Editor \ {e} : pc'[d] = pc[d]
        /\ told'[c] = frame /\ \A b \in Closure \ {c} : told'[b] = told[b]
    BY <1>0, <2>1 DEF WritersTyped
  <2>3. frame # None
    <3> SUFFICES ASSUME frame = None PROVE FALSE
      OBVIOUS
    <3>1. DOMAIN frame = {"action", "row"} /\ DOMAIN frame = {"gone"}
      BY DEF None
    <3> QED
      BY <3>1
  <2>4. Settled(c)'
    <3>1. rows[c] = (IF ask[e].kind = "delete" THEN None ELSE row[e]) /\ row[e] \in Row
      BY <2>1 DEF FrameInv, WritersTyped
    <3>2. frame.action = Action(e) /\ frame.row = row[e]
      OBVIOUS
    <3>3. Action(e) = "deleted" <=> ask[e].kind = "delete"
      BY <1>0, RequestShape DEF Action
    <3> HIDE DEF frame
    <3> QED
      BY <2>1, <2>2, <2>3, <3>1, <3>2, <3>3, RowIsThere DEF Settled
  <2> HIDE DEF frame
  <2>5. \A d, f \in Editor : pc'[d] = "committed" /\ Waits(f, ask[d].id)' => d = f
    BY <2>1, <2>2 DEF FrameInv, Waits
  <2>6. ASSUME NEW d \in Editor, pc'[d] = "committed"
        PROVE  /\ rows[ask[d].id] = IF ask[d].kind = "delete" THEN None ELSE row[d]
               /\ ask[d].kind # "create" => told'[ask[d].id] # None
    BY <1>0, <2>1, <2>2, <2>3, <2>6 DEF FrameInv
  <2>7. ASSUME NEW b \in Closure, \A d \in Editor : ask[d].id = b => pc'[d] # "committed"
        PROVE  Settled(b)'
    <3>1. CASE b = c
      BY <2>1, <2>4, <3>1 DEF Settled
    <3>2. CASE b # c
      <4>1. \A d \in Editor : ask[d].id = b => pc[d] # "committed"
        BY <2>2, <2>7, <3>2
      <4> QED
        BY <2>1, <2>2, <3>2, <4>1 DEF FrameInv, FramesFollowRows, Settled
    <3> QED
      BY <3>1, <3>2
  <2> QED
    BY <2>1, <2>5, <2>6, <2>7 DEF FrameInv, FramesFollowRows, Settled
<1>5. CASE UNCHANGED <<rows, ask, pc, row, told>>
  BY <1>5 DEF FrameInv, FramesFollowRows, Waits
<1>6. ASSUME NEW r \in Router, RouteHits(r) \/ RouteMisses(r) \/ QueryAnswers(r) \/ Fill(r) \/ QueryFails(r)
      PROVE  UNCHANGED <<rows, ask, pc, row, told>>
  BY <1>6 DEF RouteHits, RouteMisses, QueryAnswers, Fill, QueryFails, table, editors
<1>7. Tick \/ UNCHANGED vars => UNCHANGED <<rows, ask, pc, row, told>>
  BY DEF Tick, vars, table, editors
<1> QED
  BY <1>1, <1>2, <1>3, <1>4, <1>5, <1>6, <1>7 DEF Next

(* Once the writes to a closure have been answered, the last frame about it *)
(* tells what it has become, however the requests overlapped.              *)
THEOREM FramesTheorem == Spec => []FramesFollowRows
<1>1. FrameInv /\ WritersTyped /\ [Next]_vars => FrameInv'
  BY FrameStep
<1>2. FrameInv => FramesFollowRows
  BY DEF FrameInv
<1> QED
  BY <1>1, <1>2, FrameInit, Typed, PTL DEF Spec

=============================================================================
