# Formal models of the alertup backend

alertup serves indoor maps, evacuation routes and emergency alerts for
buildings. Visitors scan a QR code, get a route, and keep a server-sent-events
(SSE) stream open that tells them when an emergency starts or a passage closes;
administrators trigger and resolve emergencies and edit the map. The server is
one Node.js process over PostgreSQL (Prisma). Much of what must be right is
spread over awaits: a frame is broadcast before it is durable, caches are filled
and invalidated around queries, and requests race on the same rows.

This directory holds TLA+ modules for the parts of the program where that
matters, the configurations that model-check them, and proofs about them.
Paths below are relative to `src/src/` unless they start with `src/`.

## 1. The system

### Components, their state and their operations

| Component | State | Operations | What makes it correct | Module |
|---|---|---|---|---|
| Event log, `features/realtime/eventLog.js` | per building: two watermarks, the seed lookup, a promise chain of writes; table `RealtimeEvent` | `nextSeq`, `append`, `currentSeq`, `currentPublicSeq`, `ensureSeeded`, `replaySince`, `purgeOlderThan` | no seq is issued twice, the watermark covers what is durable | `EventLog` |
| SSE feed, `features/realtime/realtime.routes.js` | per stream: buffer, replayed seqs, resume point | `openStream`: subscribe, replay, snapshot, drain, live | every frame exactly once, no gap between replay and live, the snapshot is the final word, no false "you are behind" | `Feed` |
| SSE admission and teardown, `features/realtime/broadcaster.js` with `openStream` and `sseHelpers.js` | slots, counters, closers, heartbeats | `makeRoom`, `subscribe`, `unsubscribe`, `registerCloser`, `closeAll`, `cleanup` | the counters match the slots, the caps hold, eviction is fair, nothing leaks | `SseStreams` |
| Emergency service, `features/emergency/emergencyService.js` | `Building.emergencyMode`, `EmergencyEvent` rows, the status cache | `triggerEmergency`, `resolveEmergency`, `recordAction`, `getStatusCached` | one active event exactly while the mode is on, closed events never change, the cache hides no change | `Emergency`, `IncidentLog` |
| Closures, `features/mapEditor/closure.routes.js`, `features/wayfinding/closures.js` | `Closure` rows, the route-time cache | create, patch, delete, `getActiveClosures` | routes see the closures in force, staleness is bounded, frames follow the rows | `Closures` |
| Collaborative editor, `features/collab/collab.js` | rooms, the peers in them, their colours | join, leave, disconnect | one room per socket, bounded rooms, current presence | `Collab` |
| Wayfinding: graph, costs, search, `features/wayfinding/` (`graphService`, `costModel`, `profiles`, `dijkstra`, `safetyField`, `planning`, `destinations`) | the loaded graph, its cached safety fields | `GET route`, `GET evacuate`: context, ladder of attempts, search, field, last resort | the cheapest permitted path; nobody is stranded or sent through what is closed; the flags say what was given up | `Routing`, `Planning` |
| Tours and directions, `multiStop.js`, `alternatives.js`, `routeAssembler.js`, `instructions.js` | none | order of stops, other exits, segments, warnings, instructions | the tour is no longer than the one it began with, the directions add up to the route | `Planning`, `Guidance`, `Wayfinding` |
| Graph cache, `features/wayfinding/graphCache.js` | one graph per building, for a minute | `getGraph`, `invalidate` | no route on an old map but after a race | `Editor` |
| Map editor, `features/mapEditor/`, `routes/nodes.js` | floors, nodes, edges, points of interest | every write of both APIs, recomputation, auto-connect | lengths follow positions, every change is invalidated, wiring is idempotent | `Editor`, `AutoConnect` |
| Authentication, `routes/auth/`, `routes/settings.js`, `services/verificationCodes.js`, `middlewares/whoami.js` | the account, its verification codes, the sessions in browsers | register, log in, second factor, reset, change of password and address, verify, delete | guesses are capped, sessions end with the password they were opened with | `Accounts` |
| Invites, roles, members, `services/inviteService.js`, `routes/buildings/` | invites, roles, memberships | invite, resend, revoke, accept, assign, remove, edit and delete a role | no member or pending invite without a role, no pending invite without a link | `Membership` |
| Buildings and plan limits, `routes/buildings/buildings.js` | buildings and floors | create, replace, delete | the plan's limits hold, but for what two requests that count at the same time add | `Editor` |
| AI assistants, `features/ai/`, `services/aiBudget.js` | conversations, messages | a turn: budget, prompt, stream, transcript | the budget, one answer per turn | not modelled |
| Sweeper, `jobs/sweeper.js` | none of its own | hourly deletes | each retention is applied | the replay purge is in `EventLog`; the rest not modelled |
| QR, audit, incident archive, storage, mail, analytics, admin, reviews, contact, scripts | rows | single-row reads and writes, external I/O | little beyond the row written | not modelled |

### How they interact

* A writer (emergency service, closure routes, scan routes) commits its
  transaction, then in one synchronous step drops the cache entry concerned and
  calls `publish`. `publish` allocates a seq, runs the listener of every
  subscribed stream, and queues the durable write.
* A stream subscribes, then awaits replay from the event log and the status from
  the emergency service, and drains what it buffered meanwhile.
* The router reads the graph and the closures through caches that the editor's
  routes invalidate. Planning is synchronous on what it read; what one request
  leaves to the next are the safety fields, cached per graph.
* Every editing route asks the permission middleware first, which reads the
  member's role; every signed-in route asks `whoami`, which compares the token's
  version with the account's.
* SIGTERM closes the streams, the sockets, and the HTTP server; memory
  (watermarks, slots, caches, rooms) is lost, rows stay.

### What is hard

JavaScript runs one callback at a time, so the unit of interleaving is the code
between two awaits: every action of the models is one such piece, or one
database transaction. The hard behaviours are listed, each at its line, as
`hazards` in `PROJECT.json`: frames around the replay of a stream, a restart
before the seed lookup has answered, lost writes, tear-down by five different
callers, admins who race, caches filled after an invalidation, check-then-act on
rows, sockets that disappear during a permission check, lengths recomputed while
nodes move, codes guessed in parallel, mails that are refused half way, and the
relaxation of a route request rung by rung.

## 2. The modules

| Module | What it is |
|---|---|
| `EventLog` | the event log of one building |
| `Feed` | EXTENDS `EventLog`: its streams and the clients that resume them |
| `SseStreams` | admission, eviction and teardown of SSE connections |
| `IncidentLog` | abstract specification: what the emergency service promises |
| `Emergency` | the emergency service; implements `IncidentLog` |
| `Closures` | the writes of closures and the cache in front of them |
| `Collab` | the rooms of the collaborative editor |
| `Routing` | the graph, the costs, the filters and the overlay of closures: operators only |
| `Planning` | EXTENDS `Routing`: one request after another is planned, search step by search step |
| `Guidance` | EXTENDS `Routing`: a path turned into segments, warnings and instructions |
| `Wayfinding` | EXTENDS `Planning` and `Guidance`: the whole answer, and the reference definitions it is checked against |
| `Accounts` | one account, its codes and its sessions |
| `Membership` | one building's invites, members and roles |
| `AutoConnect` | the pairs auto-connect plans for a floor: operators only |
| `Editor` | EXTENDS `AutoConnect`: a building's map under several editors, and the graph cache |
| `Administration` | `Accounts`, `Membership` and `Editor` side by side |
| `Editing` | `Closures` and `Collab` side by side |
| `FeedProofs` (of `EventLog` and `Feed`), `SseStreamsProofs`, `EmergencyProofs`, `ClosuresProofs`, `AccessProofs` (of `Accounts` and `Membership`), `EditorProofs` (of `Editor` and `Collab`), `RouteProofs` (of `Routing` and `Planning`), `WayfindingProofs` (EXTENDS it; of `Guidance` and the answer) | theorems about those modules and their proofs |
| `MC*` | the instances that TLC checks |

### EventLog

Frames are numbered in the order they were emitted, across restarts (`issued`);
`rows` and `chain` hold frame numbers, so two frames with one seq stay
distinguishable. `Publish` is `publish` of `broadcaster.js` (seq, watermarks,
queue). The seed lookup is `SeedStarted` (the first use of the building),
`SeedReadAll` and `SeedReadPublic` (two queries, in any order, each at its own
moment), and `SeedApplies` or `SeedFails`. `WriteSettles` settles the oldest
queued write: the row appears, or the write fails; a row whose seq exists always
fails, as the unique constraint says. `Purge` is the sweeper's delete by age,
`Restart` loses the memory and the queue.

`Date.now()` is an element of `Clock`, read in any order. `ClockAhead` is the
assumption the code's comment makes, that the clock of a new process is past
every seq issued by earlier ones. `NeverReissued` needs it;
`WatermarkCoversRows` and `SeedPreventsReissue` do not, and are proved without.

### Feed

`Open` is `openStream` up to its first await, `Replay`, `ReadStatus` and `GoLive`
the pieces after it; `FeedPublish` runs the listeners in the step that publishes.
A client resumes from the seq of a frame that its kind of feed may see, or from
0, or does not resume. The status snapshot is abstracted to the number of frames
emitted when it was read: writers publish after their commit, so the database
then holds the effect of at least those. `out` is what the stream has sent.
`ReplaySince` describes the page by what it is, the oldest rows found, in order, as
many as the limit allows; rows have distinct seqs, so there is one such page.
`SelectBufferedToForward` likewise is what the buffer holds and replay has not sent,
in the order of emission, which is the buffer's.

### SseStreams

One action per piece of `openStream` that touches the accounting: `Connect`
(makeRoom, subscribe), `SetupDone`, `SetupFails`, `Hangup` (close, error or a
throwing write), `HeartbeatFails`, `CloseAll`. Eviction is part of `Connect`.
`arrival` is the insertion order of the `slots` Set. A stream may be evicted, hung up on or failed in any phase, and streams opened
after `closeAll` are included: the process serves requests until the HTTP server
has drained.

### Emergency and IncidentLog

Transactions are modelled at READ COMMITTED: a conditional `updateMany` takes
the lock of the building row when the committed row matches and answers 0 at
once when it does not; writes become visible at commit. The announcement
(invalidate, publish) is an action of its own after the commit. Assumption
(`EarlierAnnounced`): a transaction that waited for a row lock commits only
after the event loop has run the continuation of the transaction it waited for;
it has several more round trips to make, the other none. The status cache maps
to `cache` (whose promise it is), `joined` (who shares it) and `seen` (which
commit the read saw); expiry may happen at any time. `IncidentLog` knows only
the mode, the message and the list of incidents; the refinement mapping is the
identity on the three database variables, and every other step is a stutter.

### Closures

A patch is `Find` (read and validate against the merged view), `Write` (the
transaction, which writes only the given fields) and `Announce`. Scope is
abstracted to whether edges or nodes, and a floor, are named: that is what the
validation tells apart. A route request hits the cache, or misses, is answered
by the database, and fills the cache later, whatever happened in between;
`raced` marks fetches overtaken by an invalidation. Time is discrete; a query is
under way for at most `MaxFetch`, which only `BoundedStaleness` needs.

### Collab

`Join` is the handler up to the permission check, `JoinChecked` all the rest;
several joins of one socket may wait at once, and a disconnect does not cancel
them. `color` is the colour in a peer's record, `crowded` remembers the rooms whose
palette has run out. (`RoomsInit`, `RoomsNext` and `RoomsSpec` are called so because
`Editing` puts `Closures` beside them.)

### Routing, Planning, Guidance and Wayfinding

A building's rows become a graph as `loadBuildingGraph` builds it: edges whose two
nodes were read, one hop per direction that may be walked, lengths surveyed, or
drawn and scaled, or assumed. `CostFn` and `Legal` are the cost function and the
composed filters of `profiles.js` and `costModel.js`; `BuildOverlay` and
`OverlayForOrigin` are those of `closures.js`. Costs are counted in half seconds,
so that they are whole.

`Arrive` is the route handlers up to the planner: rejection, context, the ladder
of attempts, the start of the first search. The search moves one heap entry at a
time: `DropStale`, `Settle` (with `Relax`), `Reach`, then `Unwind`. Entries of equal
priority are taken in any order, which covers the order the heap happens to give.
Evacuations of walkers look up a safety field (`FieldHit`, `FieldMiss`, `FieldDone`)
and walk along it. The field's key is the text the code makes (`FieldKey`): the
preference, the tags one after another with `,` and `#` between them, `|` and the entries
of the overlay's `Fingerprint`. A text is a sequence of signs, of which only the
separators and the whole words between them matter; a tag is such a text too, so two
requests can have one key. The `field_key` run shows two that do; `PlainTags` says of a
request that its tags have no separator in them, and is assumed of the requests of
`Wayfinding` (`WayfindingTags`). The cache is a sequence, least recently used first.
`Exhausted` moves to the next rung, the last resort or a 404; `Collected` to the next leg, the next exit or the answer. `TwoOpt` is one pair of
one pass. `Assemble`, `Measure`, `Simplify`, `FindTurns`, `AddConfirmations` and
`Share` are the stages of `assembleRoute` and `buildInstructions`, walk by walk.

The line a walk is told along is `Smoothed`, `Distinct` and `SimplifiedPoints`, one after
another: the farthest node in sight that no protected node comes before, then each point
unlike the one before it, then those that stray more than 0.4 m off the line between two
that are kept. All three may drop a point to which a walk goes and comes back from.

Abstractions: a line is as long as its two sides together, which is exact for corridors
along the axes, and its bearing is that of the longer side, one of four quarters; which
nodes have a wall between them comes with the rows (`hidden`), since the walls themselves
are floating-point geometry; a floor is known by its level (`verticalOrder`, else
`floorNumber`), two floors of one level being one;
wording, languages and pictures are left out; a request meets the closures in force
when it comes (their cache is in `Closures`, the graph's in `Editor`).

What a building may be is stated in `Planning`, as weakly as the schema allows:
finitely many nodes, none of them called `none`; coordinates in whole pixels; lengths
and weights that are not negative, one of four kinds of transit, and at most one edge
between two nodes, as `@@unique([sourceNodeId, targetNodeId])` of `schema.prisma` and
`normalizePair` of `edgeService.js` have it (`PlanningRows`); finitely many closures at
a time, whose factors are natural numbers (`PlanningClosures`); finitely many
destinations in a request (`PlanningQueries`). Floors without a scale, edges to missing
nodes, rooms without a way out and nodes drawn on top of each other are all allowed.

A walk whose line comes down to one point is told by what closes it alone
(`points.length < 2` in `instructions.js:518`), and one that comes down to two in one
place is told as 0 m: its metres and its time are in the totals and in no instruction.
That takes a walk that ends where it began: one whose nodes are
all drawn in one place, or one out and back to a stop that smoothing jumped over. So the
"always sum to EXACTLY the segment distance" of `instructions.js:437` fails for those;
`GuidanceAddsUp` excepts them, and no other walk, and the `wayfinding` run has one that
goes out and back in sight of the stairs.

### Accounts

A request is a process that has read copies of rows (`proc[p].user`, `proc[p].row`)
and acts on them later: every await ends a step, and an error may end the request
at any of them. The sets `Registers`, `LogsIn`, `AsksForReset`, `Resets`, `AsksToSwitch`,
`Switches`, `ChangesPassword`, `ChangesEmail`, `AsksToVerify`, `Verifies` and `Leaves`
are what may come and where the handler goes first; `Create`, `Find`, `Record` and
`Destroy` are the steps of `verificationCodes.js` that several handlers share.
bcrypt is equality, a code is the number of its row. A session is the token's
version together with the password it was opened under, which only the property
reads; `Live` is the comparison `whoami` makes. `wrong` counts the wrong guesses of a
code from the moment they compare; a request that dies before it records one takes it
back (`Die`), one that dies at the deletion does not: its guess is recorded, and goes
into `spared`. The code can then live on past its cap, although
`verificationCodes.js:58-60` says it is destroyed "once the attempt cap is reached": the
failure of the delete at :68 is swallowed. `GuessesCapped` says it is the only way.

### Membership

A request is asked (`Ask`), passes the permission middleware (`Guard`), reads what it
decides on (`Look`, and `Known` for the invited user) and writes; what it has read may
be stale by then. `Mail` succeeds or is refused, `Undo` takes the invite back, `Fail`
ends a request at any step. Foreign keys that restrict make a write fail as the
database would. Links are accepted from mails that arrived only.

### Editor and AutoConnect

An editor's task moves one query or one transaction at a time and may fail at any
of them. Both APIs are covered: `CreateNode`, `PatchNode`, `DeleteNode`, `SavePoi`,
`PatchEdge`, `CreateFloor` and the rest of `mapEditor.routes.js`; `PostNode`, `PutNode`
with its diff of connections (`Diff`, `CutLink`) and the joining of two nodes, of
`routes/nodes.js`;
`CreateBuilding` and the replacement of a building step by step (`DropUnnamed`,
`ParkFloors`, `FillFloor`, `SettleFloor`). `createEdge` is `TakeEnds` and `InsertEdge`;
`recomputeEdgesForNode` is `ReadPlace`, `ReadEdges`, `ReadOther` and `SaveLength`, edge
by edge. `Miss`, `Store`, `Evict` and `Invalidate` are the graph cache. Lengths are
squared distances. `late` marks a length that was written from a place left by
then, `dirty` a task that has changed the map and not yet invalidated, `missed` one
that ended before it did (in an error, or because its handler never does) or a load
stored over an invalidation; `uncounted` the floors no limit counts (a legacy node's, a
replaced building's, one created beside another's count), `extra` the buildings created
so. `EraseBuilding` is the deletion of a building by an administrator (`admin.js:430`),
or of all of an owner's with the account (`settings.js:405`, `admin.js:270`).

Seen while modelling, and part of the model: the legacy `PUT /api/nodes` answers 400
for connections that are no array after it has saved the node, and does not
invalidate (`nodes.js:258`); an edge deleted during a recomputation makes the request
fail before it invalidates; the creation of a building does not invalidate, although its
floors come one by one and a route may load it between two; nor do the deletions that
`EraseBuilding` stands for, after which routes are computed on the map of a building
that is gone until the minute is over.

### Administration

Accounts, memberships and maps do not read each other's rows but for the permission
a request had, so a behaviour of `Administration` is one of the three, and one run
explores all of them.

### Editing

Closures and the collaborative rooms do not read each other's state either, and
`Editing` takes a behaviour of one or of the other.

## 3. What the runs show

Every passing run explores its complete state space (`feed` up to the one
constraint explained below). Deadlock checking is off in all of
them: requests, connections and frames are bounded, so the models stop when
those are used up.

| Run | Instance | Shows |
|---|---|---|
| `feed` | 1 client, 3 frames of either kind, 1 restart, page of 1, clock of two readings, `ClockAhead` | `WatermarkCoversRows`, `NeverReissued`, `ExactlyOnce`, `NothingDropped`, `SnapshotFinalWord`, `IdsRegressOnlyForLostWrites`, `NoFalseAlarm` |
| `feed_gap` | 1 client, 2 frames, no restart | violates `HeadMeansComplete` |
| `streams` | 4 connections, 2 IPs, 2 buildings, caps 2 and 3 | `SlotAccounting`, `CapsHold`, `NewcomerAdmitted`, `NothingLeaks`, `FairEviction` |
| `emergency` | 3 admin requests of any kind, 1 report, 2 polls, 1 restart | `ActiveIffMode`, `FreshPolls`, `AlarmNeverSilenced`, `ImplementsIncidentLog` |
| `emergency_order` | 3 admin requests | violates `EndIsLastWord` |
| `editing` | 1 closure, 2 editors, 2 route requests, times 0..4, TTL 2; or 4 sockets, 2 rooms of 3, palette of 2 | `AnswersInForce`, `StaleOnlyAfterRace`, `BoundedStaleness`, `FramesFollowRows`, `OneRoom`, `RoomsBounded`, `ColorsDistinct`, `PresenceCurrent` |
| `closures_patch` | 1 closure, 2 editors | violates `RowsStayValid` |
| `collab_ghost` | 2 sockets | violates `NoGhosts` |
| `wayfinding` | 4 buildings of 2 to 6 nodes, 13 requests, 5 sets of closures, any 2 requests in a row, 1 cached field | `CheapestSettled`, `FieldAgrees`, `KeepsOut`, `NobodyStranded`, `FlagsHonest`, `GuidanceAddsUp`, `TourNeverLonger`, `EveryRequestAnswered` (liveness) |
| `field_key` | 1 room, 2 exits, 2 evacuations | violates `FieldAgrees` |
| `administration` | account: 2 requests at a time, 2 passwords, 2 codes, 5 attempts; building: 2 clerks, 2 users and the owner, 3 roles; map: 2 editors, 1 reader, 4 nodes on 2 floors or a building yet to be created | `GuessesCapped`, `SessionsFollowPassword`, `RolesStand`, `LinksArrive`, `LengthsTrackPositions`, `StaleGraphExplained`, `WithinPlan` |
| `auto_connect` | 1 editor, a corridor of 4 nodes | violates `AutoConnectIdempotent` |

`emergency` also checks its type invariant; those of the other proved modules are
theorems (section 4). Why the bounds are enough:

* `feed`: three frames allow one lost, one durable and one live; a page of one
  makes truncation happen; one restart leaves frames of an earlier process; two
  clock readings give seqs from the clock and from `lastSeq + 1`. One client
  suffices because streams do not interact: publish treats each alone.
  The run leaves out restarts before the first frame (`RestartMatters`): they
  lead back to the initial state, with one restart less to come.
* `streams`: the per-building cap (2) and the server cap (3) are each reached
  alone and together; an IP can hold two of three slots while another holds one.
  Four attempts leave a newcomer after both caps are full.
* `emergency`: three requests are needed for amend, resolve and a new trigger to
  overlap; two polls for one to share the other's read.
* `editing`: two editors and two routes are needed for every race on one row and
  one entry. Closures do not interact. The times leave an entry older than TTL
  plus the time a query takes. Three sockets fill a room while a fourth waits; three in
  a room exceed the palette of two.
* `wayfinding`: the buildings were drawn for the cases that matter: a one-way door,
  a lift that is or is not rated for evacuations, parallel ways with different
  ranks and tags, a floor without scale, a staff passage, an exit without way back,
  a room nobody can leave, an edge to a missing node, tours that 2-opt improves,
  repeated stops, a stop out and back in sight of the stairs, on a floor whose walls
  leave in sight what is on one line. Closures name edges, nodes and floors, to block and
  to penalise. Two requests are what a cached field needs, and a cache of one
  makes the second evict it.
* `administration`: every hazard here is a race of two requests, each taken
  at every step of the other; a third would meet the same pairs. Two codes are
  what two concurrent issues leave; five attempts is the code's own cap, and
  an account in use starts with a code of any type that was guessed wrong four
  times, so that two guesses meet the cap. A building starts with one invite mailed
  and every other user a member under any role. The plan allows one floor more than
  there are, and one building.
* `auto_connect`: four nodes in a row are the smallest floor with shortcuts left
  over after one run.
Symmetry is used where the members of a set are interchangeable (admins, polls,
streams, editors, routers, sockets without special rights); no liveness is
checked under it.

Fairness: `WSpec` assumes `WF(Work)`, that the planner goes on while it has something
to do. Planning and assembly are one synchronous stretch of JavaScript once the
graph and the closures have been read, so nothing but the process's end can stop
them. `EveryRequestAnswered` is therefore about the algorithms: 2-opt, the searches,
the ladder and the walk along a field all end. No fairness is assumed elsewhere:
what must eventually happen there depends on the database answering, and the code
has no retries or timeouts of its own to make it so.

### Disagreements found

Six runs end in a violation of something the source says of itself; each is a
finding in `PROJECT.json` with the lines concerned.

1. `feed_gap`: a client at the public watermark is not necessarily complete. A
   frame already broadcast but not yet written when the stream replays is in
   neither replay nor buffer.
2. `emergency_order`: a repeated trigger with a message can publish
   `emergency_started` after another admin's `emergency_ended`, for an event that
   is resolved.
3. `closures_patch`: two patches validated against the same row leave a closure
   that ends before it starts.
4. `collab_ghost`: a disconnect during the permission check of a join leaves a
   peer in the room until the process restarts.
5. `auto_connect`: "running it twice creates nothing new", says the route; the
   shortcuts of a node are counted per run, so a second run on an unchanged floor
   may add more.
6. `field_key`: "`name` must distinguish every variant that changes the field", says the
   cache of safety fields (`safetyField.js:171`); the planner's name joins tags with signs
   that tags may contain, so one evacuation can be answered from the field of another
   with other tags.

Two more, met while modelling, are part of the models and excepted by name in a
property: the code that outlives its cap and the walk whose metres no instruction tells,
both in section 2.

## 4. What is proved

`FeedProofs` proves of the event log, for every clock, every number of frames and every
number of restarts:

* `LogTypeInvariant`: `LogSpec => []LogTypeOK`.
* `WatermarkTheorem`: once the seed is done the watermarks cover every row.
* `NeverReissuedTheorem`: under `ClockAhead`, seqs strictly follow the order of
  emission, so none is reissued.
* `SeedTheorem`: after the seed a new frame's seq is above that of every durable
  or queued frame, with no assumption on the clock.

`WatermarkCoversRows` is not inductive: that a seed answer, applied late, covers
the rows rests on what happened between the query and its answer. The
strengthening `LogInv` adds that (1) the frames of this process have seqs at
most `lastSeq`, strictly increasing, and those public at most `lastPublic`; (2)
the queue holds only frames of this process; (3) once the seed, or either
pending answer, is there, it covers every row of earlier processes, since rows
of those can only be purged; and (4) with `ClockAhead`, inherited seqs are below
those of this process. Each action preserves each part (`PublishStep`,
`SeedAppliesStep`, `WriteStep`, ...); the theorems follow from the invariant.
The assumptions used are `BoundsNat` and `ClockPositive`, which TLC evaluates in
the `feed` runs.

It then proves of the feed, for any number of clients and any page size:

* `FeedTypeTheorem`: `FeedTypeOK`, and `FeedImplementsLog`: `FeedSpec => LogSpec`, so
  that the theorems above hold of the feed.
* Under `ClockAhead`: `ExactlyOnceTheorem`, `NothingDroppedTheorem`, `SnapshotTheorem`,
  `IdsTheorem` and `NoFalseAlarmTheorem`, the five properties of the `feed` run. All
  but the types need the assumption: when two frames may share a seq, replay and
  buffer cannot be told apart by seqs.

The five rest on one invariant, `FeedInv`. Its first part is about the log: rows are
written in the order of their frames (`WritesInOrder`), and a watermark, or an answer
that may become one, is the seq of a frame of its kind (`WatermarksReached`). The
second is about each stream by itself (`StreamInv`): frames after the subscription are
above the resume point (`FloorHeld`); while the stream is being set up, its buffer
holds exactly the frames of its kind emitted since it subscribed (`BufferHeld`); until
it goes live it has sent nothing but the page, and what was durable is in the page or
the replay was announced as truncated (`PageHeld`); and a buffered frame that replay
passed over is neither a row nor queued (`LostHeld`), for the write of an earlier
frame settles before that of a later one. Going live then sends page, snapshot and
the rest of the buffer (`StreamGoLive`): the set of replayed seqs, and not their
highest, tells what the rest is. Publishes touch every stream (`StreamPublish`), the
steps of a client only its own (`ClientsApart`), the log's only take rows and writes
away (`LogQuiet`), which no part of the invariant minds (`StreamStill`).

`EmergencyProofs`, for any number of admins, occupants, polls and restarts:

* `TypeTheorem`, `ModeTheorem`: `ActiveIffMode`. It is not inductive either: a
  trigger that has taken the lock appends an event later, and must still find
  none ACTIVE. `Locking` adds that whoever has changed, or will change, the
  building row holds its lock, that a trigger past its update found the mode off
  and that a resolve past its update found it on; nobody else can commit a change
  of the mode while the lock is held.
* `AlarmTheorem`: `AlarmNeverSilenced`. `Unannounced` adds that while the alarm is
  on and the last frame is not its start, some committed trigger is still to
  announce it, and that a committed resolve to be announced has the mode off. This
  is where `EarlierAnnounced` (above) is used.
* `FreshTheorem`: `FreshPolls`. `CacheFresh` adds that the cached promise belongs
  to the poll that started it and has read nothing older than what was announced.
* `Implementation`: the service implements `IncidentLog`. The commits map to
  `Start`, `Amend`, `Report` and `End`; with `ActiveIffMode`, an update of all
  ACTIVE rows is an update of the newest incident only.

`SseStreamsProofs`, for any number of connections, buildings and IPs and any
positive caps: `TypeTheorem`, `LeakTheorem`, `AccountingTheorem`, `CapTheorem`,
`AdmissionTheorem` and `FairnessTheorem`. The invariant `StreamInv` joins the
types, `NothingLeaks` and `SlotAccounting` with `CountersBounded` (the counters
themselves never pass the caps, not even after `closeAll`), from which the caps
on real connections follow. `RoomMade` shows that an eviction makes room: a full
scope has a slot, of its candidates one outranks all (`SomebodyOutranks`, from the
least element of a set of naturals), and it is of the full scope.

`EditorProofs`, of `Collab`, for any sockets, buildings, permissions and sizes: `TypeTheorem`,
`OneRoomTheorem`, `RoomSizeTheorem`, `PresenceTheorem` and `ColorTheorem`. Types and
`OneRoom` are inductive together and make `leaveRoom` take a socket out of every
room (`LeftRoom`); each of the others is inductive relative to them. Every step
that changes a room is one of two, a socket departs or enters (`Cases`).

`AccessProofs`, of `Accounts`, for any passwords, addresses and codes and any number of requests
at a time: `SessionTheorem` and `GuessTheorem`.

* `SessionsFollowPassword`: `AccountInv` adds what a login under way must hold. The
  row it read is `Since` the account's row, that is, of an account before it, of an
  older version of its password, or with the password it has now. A row or a token
  that is `Since` a row stays so when the row changes (`StaysOld`), because a new
  password always takes a new version and a new registration a new id; a session is
  signed from what was read, so it is too, and one that `whoami` honours has the
  account's id and version, hence its password.
* `GuessesCapped`: `GuessInv` adds that the wrong guesses of a code, less those about to
  be recorded or to destroy it and those whose deletion failed, stay below the cap and
  are tied to the attempts its row counts. A guess that is counted leaves the balance at
  the cap to the request that must destroy the code (`Balanced`); one whose request dies
  before it is recorded counts nowhere, one whose request dies after it is `spared`. A
  new code's id is one nobody can be guessing at (`CreateGuess`).

`ClosuresProofs`, for any closures, editors, route requests and times: `TypeTheorem`
and a theorem for each property of the run. Three invariants build on each other.

* `WritersTyped` and `RoutesTyped` make up the types. A patch keeps a row typed
  because `readClosureBody` has validated each field it gives (`RequestShape`).
* `CacheInv` says of the cache and of every request what it knows of the history: no
  write it has not seen was committed before its query began (for an answer, more
  than `Ttl` and `MaxFetch` before it asked), it has seen every write announced so far
  unless an invalidation overtook it (`raced`), and the closures the query left out,
  over by then, are in force at no later time. From it `AnswersTheorem`,
  `StaleTheorem` and `BoundTheorem` (`AnswersInForce`, `StaleOnlyAfterRace`,
  `BoundedStaleness`).
* `FrameInv`, for `FramesTheorem`: `FramesFollowRows` speaks of closures whose writers
  are done, so what a writer has still to tell must be known. At most one committed
  write of a closure waits for its frame, and the row is what it made of it.

`AccessProofs`, of `Membership`, for any clerks, users, roles and permissions: `RolesTheorem`
and `LinksTheorem`. `RolesStand` is inductive with the shape of the rows
(`RowsTyped`): a role that goes leaves no member and no pending invite behind,
because a foreign key or the count refuses the delete, as one refuses a write that
names a role gone since it was read. `LinksArrive` is not inductive: a request at
`mail` must also hold the token it will mail. `LinksOnTheirWay` says so (`Bears`),
and `JobsTyped` and `RolesStand` go with it.

`EditorProofs`, of `Editor`, for any buildings and changes within the module's assumptions, and
any number of editors and readers:

* `PlanTheorem`: `WithinPlan`, with finite rows (`Sizes`) and what each task has
  counted (`Steady`). A floor is created after a count below the limit; when another
  came in between, or nobody counts, it joins `uncounted`.
* `StaleGraphTheorem`: `StaleGraphExplained`, again with `Steady`, which says that a
  task at a step behind its write is `dirty`, so whatever makes the graph stale has a
  task, one that ended without invalidating or a late load to show for it (`Explained`).
* `LengthsTheorem`: `LengthsTrackPositions`. The property says that the node of a wrong
  edge is being recomputed, which is not enough to go on: the edge must still be in the
  list the recomputation works off, or the list not read yet (`Owes`). `Tracking` joins
  this (`Tracked`) with what holds of the rows (`Joined`: every edge joins two nodes
  there are; `Crossed`: one between two floors is never wrong, no move of a node changes
  its floor) and what a task has read of them (`Looked`).

`RouteProofs` and `WayfindingProofs`, of `Wayfinding` and all it is made of, for any
buildings, closures and requests, any number of them, any sizes and costs:
`SettledIsCheapest`, `CachedFieldsAgree`, `NobodyIsStranded`, `RoutesStayOut` and
`ToursAreNeverLonger` in the first, `AnswersTellTheTruth` and `InstructionsAddUp` in the
second, one theorem for each safety property of the run. They rest on
`SearchesAreSound`: `SearchesInv` says of each phase of a request what its data are.

* The search. `Searching` is the loop invariant: what waits in the heap is as far as it
  can be reached over settled nodes, and nothing in it is nearer than what is settled.
  The reference definition iterates rounds over all hops; its rounds are shown to exist
  and to be what the definition computes (`IterationExists`, `CheapestRounds`), and no round
  gets below what is settled and what waits (`NeverBelow`), so that a settled node is
  settled for good (`SettledForGood`). That its distance is reached after as many rounds as
  nodes are settled is `Within`.
* The field. A text of words with separators between them tells its words when none of
  them is a separator (`KeysMean`), and the entries of a fingerprint tell the overlay
  (`FingerprintTells`): requests of plain tags that share a key mean the same
  (`SharedKeys`; no tags and an empty list read alike and mean alike, `NoTags`). Hops and
  prices of a backward search follow from what a key means (`KeySaysAll`), so a field that
  is right for the request that computed it (`AllSound`) is right for every one it answers.
* Who is stranded. What hops lead to is within any set that is closed under them
  (`ReachableWithin`), the settled nodes of a search that ran dry are such a set, and the
  last attempt allows whatever an emergency leaves open (`LastAttemptTakesAll`).
* What routes cross. `RoutesInv`: everything collected runs along hops of the running
  attempt, also when legs are joined (`ChainsJoin`) and when the last attempt is given up
  for the next. An edge that is shut is in the overlay of every attempt but the last
  resort (`ShutIsBlocked`), and no legal hop is against the emergency's own rules
  (`LegalIsOpen`). As two nodes have one edge at most, the hop read off two nodes of a
  path is the one it took (`HopTaken`).
* The tour. `TourInv`: the order is one of all stops that begins with the start, and no
  longer than the nearest-neighbour order; reversing a stretch changes its length by what
  2-opt compared (`StretchReversed`, `GainIs`), because estimates are symmetric.
* The flags. `TriedInv`: every attempt before the running one missed its target, or some
  leg of a tour, whose collected legs lead from stop to stop in the order chosen. A leg
  that an attempt could not find is barred to whoever keeps what that attempt kept
  (`MissedIsBarred`): the first one kept the tags, the one before accessibility was given
  up had dropped them alone (`StepFreeTried`), the one before the last resort those two.
  A flag so promises only that no route keeps the wish *together with those ranked above
  it*: whether tags could be had over stairs, the code never asks. `RouteInv`: the parts
  and warnings of an answer are those of its
  path. Each hop of a path is in one walk or is one flight (`FloorsCut`, `HopsLie`), so
  its step is found and noted (`StepsNoted`); a penalty is in every overlay of the request
  (`ProductAbove`, `PenaltyKept`).
* The instructions. `GuideInv`: after k walks, what is told comes to the distances and times
  of the first k, its segments are 1 to k in order, and it announces as many floor changes
  (`Tells`). A walk keeps it: shares taken as differences of rounded totals add up, and
  none is negative, because the marks never go back (`SharesAddUp`); the marks of a walk
  begin at 0, go forward and stay on its line (`TurnsMarked`, `MarksMarked`); the line they
  are on has a length, because simplification leaves two points only where something
  moves (`SimplifiedIs`, `CumulativeRises`). `FoundInv`, that an answer has a path, makes
  its parts what the telling takes them for (`PathPartsTyped`).

Sums, picked positions and flattened sequences are folds in the model; the proofs take
each for what its recursion makes of it, step by step (`SumIs`, `PickedIs`, `FlattenIs`).

TLC checked each of these invariants on the run's instance before it was proved, the
ones that quantify over all functions with the function they mean in its place.

The assumptions used are those the modules state about their constants: distinct
model values, finite sets, positive caps, and of the editor what a building may be
to begin with (`EditorMaps`: within its plan, its edges between its nodes and as
long as these are apart) and that a request names its operation and a new building
its floors in their order (`EditorChanges`). Of the planner they are `PlanningRows`,
`PlanningClosures` and `PlanningQueries` (section 2), tags without separators
(`WayfindingTags`, without which `CachedFieldsAgree` fails), positive bounds (`PlanningBounds`)
and costs that are natural numbers, even ones where they are halved (`RoutingCosts`).
TLC evaluates them in the runs.

With these, every safety property that a passing run checks is a theorem. Only
model-checked are `EveryRequestAnswered`, a liveness property, and the six
disagreements, which are counterexamples. Out of the prover's reach are liveness under
fairness, `ENABLED`, and induction over data through the library's theorems: where the
proofs above speak of a recursive function they show that what they name satisfies its
equations, by an induction over natural numbers that is proved here (`UpTo`).

## 5. Not modelled, and the plan

Frames and rows carry no payload. HTTP, rate limiting, the validation of single
fields, logging, audit rows, and the text of messages are left out. So are:

* the checks of `graphValidation.js` and the drawing's schema, which report on a map
  and change nothing; pictures, logos and floor plans, which go to storage;
* the intersection of lines of sight with walls, whose outcome comes with the rows, and
  the geometry of turns that are not square: floating point on coordinates, which TLC
  cannot enumerate to any purpose;
* the AI assistants: prompts, provider protocols and parsing; their daily budget is
  checked before a turn and charged after it, a soft limit;
* storage, mail and analytics, external services seen through their success or
  failure only; QR codes, reviews, contact, dashboards and the admin pages, single
  reads and writes of rows nothing else depends on;
* the sweeper's deletes by age other than the replay purge, and the maintenance
  scripts.

Planned, in this order:

1. A variant for `EveryRequestAnswered`, proved as an action property: what each step of
   the planner uses up.
2. Liveness of the event log and of the emergency service, if the code comes to
   give grounds for it (retries, timeouts).
3. The AI budget and the sweeper.
