------------------------------ MODULE Closures ------------------------------
(***************************************************************************)
(* Route-time closures of one building: the handlers that write them       *)
(* (mapEditor/closure.routes.js), and the cache through which the router   *)
(* reads them (wayfinding/closures.js `getActiveClosures`).                *)
(*                                                                         *)
(* A write is read-check-act: the row is read and the merged result        *)
(* validated before the transaction that changes it.  A route request that *)
(* misses the cache awaits a query, and fills the cache when its answer    *)
(* arrives; invalidation may land anywhere in between.                     *)
(***************************************************************************)
EXTENDS Integers, Sequences, FiniteSets

CONSTANTS
  Closure,     \* closure ids
  Editor,      \* editors' requests, each made once
  Request,     \* what they may ask for
  Router,      \* route requests, each made once
  Ttl,         \* TTL_MS
  MaxFetch,    \* bound: ticks a query takes, until its continuation has run
  MaxTime      \* bound: Date.now()

ASSUME TtlPositive == Ttl \in Nat \ {0}
ASSUME BoundsNat == MaxFetch \in Nat /\ MaxTime \in Nat

Time == 0..MaxTime
Never == MaxTime + 1      \* endsAt null
None == [gone |-> TRUE]

(* What a closure covers: it may name edges or nodes, and a floor.         *)
Scope == SUBSET {"ids", "floor"}
Row == [startsAt : Time, endsAt : Time \cup {Never}, scope : Scope]

(* A patch gives some of the fields of a row.                              *)
Fields == {"startsAt", "endsAt", "scope"}
ASSUME RequestShape ==
  \A q \in Request : /\ q.kind \in {"create", "patch", "delete"} /\ q.id \in Closure
                     /\ DOMAIN q.data \subseteq Fields
                     /\ \E r \in Row : \A f \in DOMAIN q.data : q.data[f] = r[f]
                     /\ q.kind = "create" => q.data \in Row

VARIABLES
  now,       \* Date.now()
  rows,      \* the Closure table
  ask,       \* each editor's request
  pc,        \* where it stands
  current,   \* `current`: the row it read
  row,       \* the row its transaction returned
  told,      \* the last closure_changed frame about each closure
  commits,   \* when each write was committed (not state of the code)
  at,        \* which write each editor's was
  announced, \* the newest write whose editor has invalidated the cache
  cache,     \* the building's cache entry
  route,     \* each route request
  raced      \* fetches that were overtaken by an invalidation

table == <<rows, commits>>
editors == <<ask, pc, current, row, at, told>>
vars == <<now, table, editors, announced, cache, route, raced>>

Version == Len(commits)
Empty == [rows |-> None]
Idle == [stage |-> "idle"]

(* A patch writes the fields it gives.                                    *)
Patched(base, data) ==
  [f \in Fields |-> IF f \in DOMAIN data THEN data[f] ELSE base[f]]

(* readClosureBody on the merged view.                                     *)
Valid(merged) == merged.endsAt > merged.startsAt /\ merged.scope # {}

(* A closure may exist already, as an earlier request created it.          *)
Existing == {None} \cup {q.data : q \in {p \in Request : p.kind = "create" /\ Valid(p.data)}}

Init ==
  /\ now = 0
  /\ rows \in [Closure -> Existing] /\ commits = <<>>
  /\ ask \in [Editor -> Request]
  /\ pc = [e \in Editor |-> "begin"]
  /\ current = [e \in Editor |-> None] /\ row = [e \in Editor |-> None]
  /\ at = [e \in Editor |-> 0]
  /\ told = [c \in Closure |-> IF rows[c] = None THEN None
                                ELSE [action |-> "created", row |-> rows[c]]]
  /\ announced = 0
  /\ cache = Empty
  /\ route = [r \in Router |-> Idle]
  /\ raced = {}

-----------------------------------------------------------------------------
(* Writing *)

Goes(e, from, to) == pc[e] = from /\ pc' = [pc EXCEPT ![e] = to]

(* A write that waited for another's row lock commits a round trip after   *)
(* the other's COMMIT was answered: that one has been announced by then.   *)
EarlierAnnounced(e) ==
  \A f \in Editor \ {e} : ~ (pc[f] = "committed" /\ ask[f].id = ask[e].id)

(* POST.  The id is new.                                                   *)
Create(e) ==
  /\ ask[e].kind = "create"
  /\ LET c == ask[e].id
     IN  /\ told[c] = None /\ rows[c] = None
         /\ \A f \in Editor : ask[f].kind = "create" /\ ask[f].id = c => pc[f] = "begin"
         /\ IF Valid(ask[e].data)
            THEN /\ Goes(e, "begin", "committed")
                 /\ rows' = [rows EXCEPT ![c] = ask[e].data]
                 /\ row' = [row EXCEPT ![e] = ask[e].data]
                 /\ commits' = Append(commits, now)
                 /\ at' = [at EXCEPT ![e] = Version + 1]
            ELSE Goes(e, "begin", "done") /\ UNCHANGED <<table, row, at>>
  /\ UNCHANGED <<now, ask, current, told, announced, cache, route, raced>>

(* PATCH and DELETE: find the row, and check the patch against it.         *)
Find(e) ==
  /\ ask[e].kind \in {"patch", "delete"}
  /\ LET found == rows[ask[e].id]
         fine == /\ found # None
                 /\ ask[e].kind = "patch" => Valid(Patched(found, ask[e].data))
     IN  /\ Goes(e, "begin", IF fine THEN "found" ELSE "done")
         /\ current' = [current EXCEPT ![e] = found]
  /\ UNCHANGED <<now, table, ask, row, at, told, announced, cache, route, raced>>

(* The row a transaction returns, or the one read before it for a delete.  *)
(* Mutant: the merged view that was validated is announced.                *)
ReturnedMerged(e) ==
  IF ask[e].kind = "patch" THEN Patched(current[e], ask[e].data) ELSE current[e]
Returned(e) ==
  IF ask[e].kind = "patch" THEN Patched(rows[ask[e].id], ask[e].data) ELSE current[e]

(* The transaction: only the fields given are written.  It rolls back if   *)
(* the row has gone, or for any other reason.                              *)
Write(e) ==
  /\ EarlierAnnounced(e)
  /\ LET c == ask[e].id
     IN  \/ /\ rows[c] # None
            /\ Goes(e, "found", "committed")
            /\ rows' = [rows EXCEPT ![c] = IF ask[e].kind = "patch"
                                           THEN Patched(rows[c], ask[e].data) ELSE None]
            /\ row' = [row EXCEPT ![e] = Returned(e)]
            /\ commits' = Append(commits, now)
            /\ at' = [at EXCEPT ![e] = Version + 1]
         \/ Goes(e, "found", "done") /\ UNCHANGED <<table, row, at>>
  /\ UNCHANGED <<now, ask, current, told, announced, cache, route, raced>>

Action(e) == CASE ask[e].kind = "create" -> "created"
               [] ask[e].kind = "patch"  -> "updated"
               [] ask[e].kind = "delete" -> "deleted"

InFlight == {r \in Router : route[r].stage = "read"}

(* Mutant: the frame leaves, the cache entry stays.                        *)
AnnounceWithoutInvalidation(e) ==
  /\ Goes(e, "committed", "done")
  /\ announced' = IF at[e] > announced THEN at[e] ELSE announced
  /\ raced' = raced \cup InFlight
  /\ told' = [told EXCEPT ![ask[e].id] = [action |-> Action(e), row |-> row[e]]]
  /\ UNCHANGED <<now, table, ask, current, row, at, cache, route>>

(* announce: invalidateClosures, then publish, in one synchronous step.    *)
Announce(e) ==
  /\ Goes(e, "committed", "done")
  /\ cache' = Empty
  /\ announced' = IF at[e] > announced THEN at[e] ELSE announced
  /\ raced' = raced \cup InFlight
  /\ told' = [told EXCEPT ![ask[e].id] = [action |-> Action(e), row |-> row[e]]]
  /\ UNCHANGED <<now, table, ask, current, row, at, route>>

-----------------------------------------------------------------------------
(* getActiveClosures *)

InForce(R, t) == {c \in Closure : R[c] # None /\ R[c].startsAt <= t /\ R[c].endsAt > t}

(* Mutant: only what is in force now is fetched.                           *)
FetchedActive(fetchedAt) ==
  [c \in Closure |-> IF c \in InForce(rows, fetchedAt) THEN rows[c] ELSE None]
(* The query: everything not yet expired when it was sent.                 *)
Fetched(fetchedAt) ==
  [c \in Closure |-> IF rows[c] # None /\ rows[c].endsAt > fetchedAt THEN rows[c] ELSE None]

(* The answer a route request gets from an entry at time t.                *)
Answer(entry, t, since) ==
  [stage |-> "answered", at |-> t, closed |-> InForce(entry.rows, t),
   asRead |-> entry.asRead, seen |-> entry.seen, raced |-> entry.raced, since |-> since]

(* Mutant: the age of an entry is not checked.                             *)
RouteHitsAnyAge(r) ==
  /\ route[r] = Idle
  /\ cache # Empty
  /\ route' = [route EXCEPT ![r] = Answer(cache, now, announced)]
  /\ UNCHANGED <<now, table, editors, announced, cache, raced>>
RouteHits(r) ==
  /\ route[r] = Idle
  /\ cache # Empty /\ now - cache.loadedAt < Ttl
  /\ route' = [route EXCEPT ![r] = Answer(cache, now, announced)]
  /\ UNCHANGED <<now, table, editors, announced, cache, raced>>

RouteMisses(r) ==
  /\ route[r] = Idle
  /\ cache # Empty => now - cache.loadedAt >= Ttl
  /\ route' = [route EXCEPT ![r] = [stage |-> "fetching", at |-> now, since |-> announced]]
  /\ UNCHANGED <<now, table, editors, announced, cache, raced>>

(* The database answers the query.                                         *)
QueryAnswers(r) ==
  /\ route[r].stage = "fetching"
  /\ route' = [route EXCEPT ![r] =
       [stage |-> "read", at |-> route[r].at, since |-> route[r].since,
        rows |-> Fetched(route[r].at), asRead |-> rows, seen |-> Version]]
  /\ UNCHANGED <<now, table, editors, announced, cache, raced>>

(* The handler goes on: fill the cache, whatever happened to it meanwhile. *)
Fill(r) ==
  /\ route[r].stage = "read"
  /\ LET entry == [rows |-> route[r].rows, loadedAt |-> now, asRead |-> route[r].asRead,
                   seen |-> route[r].seen, raced |-> r \in raced]
     IN  /\ cache' = entry
         /\ route' = [route EXCEPT ![r] = Answer(entry, route[r].at, route[r].since)]
  /\ raced' = raced \ {r}
  /\ UNCHANGED <<now, table, editors, announced>>

(* The query rejects: the route request fails, the cache stays.            *)
QueryFails(r) ==
  /\ route[r].stage \in {"fetching", "read"}
  /\ route' = [route EXCEPT ![r] = [stage |-> "failed"]]
  /\ raced' = raced \ {r}
  /\ UNCHANGED <<now, table, editors, announced, cache>>

(* Time passes; no query is under way for longer than MaxFetch.            *)
Tick ==
  /\ now < MaxTime
  /\ \A r \in Router : route[r].stage \in {"fetching", "read"} => now - route[r].at < MaxFetch
  /\ now' = now + 1
  /\ UNCHANGED <<table, editors, announced, cache, route, raced>>

Next ==
  \/ \E e \in Editor : Create(e) \/ Find(e) \/ Write(e) \/ Announce(e)
  \/ \E r \in Router : \/ RouteHits(r) \/ RouteMisses(r) \/ QueryAnswers(r)
                       \/ Fill(r) \/ QueryFails(r)
  \/ Tick

Spec == Init /\ [][Next]_vars

-----------------------------------------------------------------------------
(* Properties *)

Stage == {"idle", "fetching", "read", "answered", "failed"}

TypeOK ==
  /\ now \in Time
  /\ rows \in [Closure -> Row \cup {None}]
  /\ commits \in Seq(Time)
  /\ ask \in [Editor -> Request]
  /\ pc \in [Editor -> {"begin", "found", "committed", "done"}]
  /\ current \in [Editor -> Row \cup {None}] /\ row \in [Editor -> Row \cup {None}]
  /\ at \in [Editor -> 0..Version] /\ announced \in 0..Version
  /\ \A c \in Closure : told[c] = None \/ told[c].row \in Row
  /\ cache = Empty \/ cache.rows \in [Closure -> Row \cup {None}]
  /\ \A r \in Router : route[r].stage \in Stage
  /\ raced \subseteq InFlight

Answered == {r \in Router : route[r].stage = "answered"}

(* "A closure that expires mid-TTL stops applying the moment it expires",  *)
(* and one scheduled to begin inside it starts to: a route request is told *)
(* exactly the closures in force when it asked, among all the closures     *)
(* that existed when the rows were read, however long they were cached.    *)
AnswersInForce ==
  \A r \in Answered : route[r].closed = InForce(route[r].asRead, route[r].at)

(* A route request that comes after a write was announced is answered      *)
(* without it only if the query behind the answer had read the rows before *)
(* the write and came back after the invalidation: the race closures.js    *)
(* admits, and no other.                                                   *)
StaleOnlyAfterRace ==
  \A r \in Answered : route[r].seen < route[r].since => route[r].raced

(* Even then the write is seen within the TTL and the time a query takes.  *)
BoundedStaleness ==
  \A r \in Answered : \A v \in 1..Version :
    route[r].at >= commits[v] + Ttl + MaxFetch => v <= route[r].seen

(* When the writes to a closure have been answered, the last frame about   *)
(* it tells what it has become, however the requests overlapped.           *)
FramesFollowRows ==
  \A c \in Closure :
    (\A e \in Editor : ask[e].id = c => pc[e] # "committed") =>
      \/ rows[c] = None /\ (told[c] = None \/ told[c].action = "deleted")
      \/ rows[c] # None /\ told[c] # None /\ told[c].action # "deleted"
           /\ told[c].row = rows[c]

(* The rule every write is checked against: "endsAt must be after          *)
(* startsAt", "A closure must name at least one edge, node or floor".      *)
RowsStayValid == \A c \in Closure : rows[c] # None => Valid(rows[c])

=============================================================================
