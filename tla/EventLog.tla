------------------------------ MODULE EventLog ------------------------------
(***************************************************************************)
(* The event log of one building (realtime/eventLog.js) and the publish    *)
(* path into it (broadcaster.js `publish`): seq allocation from the wall   *)
(* clock, the DB seed of the in-memory watermarks, the serial chain of     *)
(* durable writes, the retention purge, and a restart of the process.      *)
(*                                                                         *)
(* A frame is emitted to the live subscribers in the same synchronous step *)
(* that allocates its seq; its row is written later.  Frames are numbered  *)
(* 1, 2, ... in the order they were emitted, across restarts, so that two  *)
(* frames that were given the same seq can be told apart.                  *)
(***************************************************************************)
EXTENDS Integers, Sequences, FiniteSets

CONSTANTS
  MaxFrames,     \* bound: frames published
  MaxRestarts,   \* bound: restarts of the process
  Clock,         \* what Date.now() may read, in any order
  ClockAhead     \* TRUE: it reads past every seq an earlier process issued

ASSUME BoundsNat == MaxFrames \in Nat /\ MaxRestarts \in Nat
ASSUME ClockPositive == Clock \subseteq Nat \ {0} /\ ClockAhead \in BOOLEAN

VARIABLES
  lastSeq,     \* lastSeq.get(id) || 0
  lastPublic,  \* lastPublicSeq.get(id) || 0
  seed,        \* state of seedPromises.get(id)
  seedAll,     \* answer of the aggregate over all rows, while it is wanted
  seedPublic,  \* answer of the aggregate over public rows
  chain,       \* writes not yet settled, oldest first: frame numbers
  rows,        \* RealtimeEvent: the frame numbers whose row exists
  issued,      \* every frame emitted so far
  inherited,   \* how many of them an earlier process emitted
  restarts     \* number of restarts

logVars == <<lastSeq, lastPublic, seed, seedAll, seedPublic,
             chain, rows, issued, inherited, restarts>>

Kind == {"public", "member"}       \* "member": MEMBER_ONLY_EVENTS
SeedState == {"none", "reading", "done", "failed"}
Unread == -1

Frame == [seq : Nat, kind : Kind]

Frames == 1..Len(issued)
SeqNo(n) == issued[n].seq
IsPublic(n) == issued[n].kind = "public"

LogInit ==
  /\ lastSeq = 0 /\ lastPublic = 0
  /\ seed = "none" /\ seedAll = Unread /\ seedPublic = Unread
  /\ chain = <<>> /\ rows = {}
  /\ issued = <<>> /\ inherited = 0
  /\ restarts = 0

-----------------------------------------------------------------------------
(* ensureSeeded: the first use of the building starts the lookup.          *)
SeedStarted == IF seed = "none" THEN "reading" ELSE seed

Larger(m, n) == IF m > n THEN m ELSE n

(* Mutant: the wall clock alone.                                           *)
NextSeqClockOnly(now) == now
NextSeq(now) == Larger(lastSeq + 1, now)

(* Date.now() reads `now`.                                                 *)
Reads(now) ==
  /\ now \in Clock
  /\ ClockAhead => \A n \in 1..inherited : SeqNo(n) < now

(* publish: allocate, emit, queue the write.                               *)
Publish(kind, now) ==
  /\ Len(issued) < MaxFrames
  /\ Reads(now)
  /\ seed' = SeedStarted
  /\ lastSeq' = NextSeq(now)
  /\ lastPublic' = IF kind = "public" THEN NextSeq(now) ELSE lastPublic
  /\ issued' = Append(issued, [seq |-> NextSeq(now), kind |-> kind])
  /\ chain' = Append(chain, Len(issued) + 1)
  /\ UNCHANGED <<seedAll, seedPublic, rows, inherited, restarts>>

(* currentSeq and currentPublicSeq, read by every heartbeat, also start    *)
(* the lookup.                                                             *)
TouchWatermark ==
  /\ seed = "none"
  /\ seed' = "reading"
  /\ UNCHANGED <<lastSeq, lastPublic, seedAll, seedPublic,
                 chain, rows, issued, inherited, restarts>>

(* The answer of an aggregate _max over the rows S: 0 stands for null,     *)
(* which the code skips, and raising a watermark to 0 does the same.       *)
IsMaxSeq(m, S) == IF S = {} THEN m = 0
                  ELSE /\ \E n \in S : SeqNo(n) = m
                       /\ \A n \in S : SeqNo(n) <= m
Answers == {0} \cup {SeqNo(n) : n \in rows}

(* The two aggregates are separate queries, answered in either order.      *)
SeedReadAll ==
  /\ seed = "reading" /\ seedAll = Unread
  /\ seedAll' \in {m \in Answers : IsMaxSeq(m, rows)}
  /\ UNCHANGED <<lastSeq, lastPublic, seed, seedPublic,
                 chain, rows, issued, inherited, restarts>>
SeedReadPublic ==
  /\ seed = "reading" /\ seedPublic = Unread
  /\ seedPublic' \in {m \in Answers : IsMaxSeq(m, {n \in rows : IsPublic(n)})}
  /\ UNCHANGED <<lastSeq, lastPublic, seed, seedAll,
                 chain, rows, issued, inherited, restarts>>

(* Mutant: the watermark is set to the answer, even when frames published  *)
(* meanwhile have taken it further.                                        *)
SeedAppliesBlindly ==
  /\ seed = "reading" /\ seedAll # Unread /\ seedPublic # Unread
  /\ seed' = "done"
  /\ lastSeq' = IF seedAll > 0 THEN seedAll ELSE lastSeq
  /\ lastPublic' = IF seedPublic > 0 THEN seedPublic ELSE lastPublic
  /\ seedAll' = Unread /\ seedPublic' = Unread
  /\ UNCHANGED <<chain, rows, issued, inherited, restarts>>
SeedApplies ==
  /\ seed = "reading" /\ seedAll # Unread /\ seedPublic # Unread
  /\ seed' = "done"
  /\ lastSeq' = Larger(seedAll, lastSeq)
  /\ lastPublic' = Larger(seedPublic, lastPublic)
  /\ seedAll' = Unread /\ seedPublic' = Unread
  /\ UNCHANGED <<chain, rows, issued, inherited, restarts>>

(* Either query rejects: logged, and never tried again in this process.    *)
SeedFails ==
  /\ seed = "reading"
  /\ seed' = "failed"
  /\ seedAll' = Unread /\ seedPublic' = Unread
  /\ UNCHANGED <<lastSeq, lastPublic, chain, rows, issued, inherited, restarts>>

(* The oldest queued write settles: the row is created, unless a row with  *)
(* that seq exists (@@unique([buildingId, seq])) or the write fails.       *)
Unique(n) == \A m \in rows : SeqNo(m) # SeqNo(n)
WriteSettles ==
  /\ chain # <<>>
  /\ chain' = Tail(chain)
  /\ \/ /\ Unique(Head(chain))
        /\ rows' = rows \cup {Head(chain)}
     \/ UNCHANGED rows
  /\ UNCHANGED <<lastSeq, lastPublic, seed, seedAll, seedPublic, issued, inherited, restarts>>

(* The sweeper's purgeOlderThan: rows are created in the order of their    *)
(* frames, so the rows past retention are the oldest ones.  How much time  *)
(* has passed is left open.                                                *)
Purge ==
  /\ \E n \in rows : rows' = {m \in rows : m > n}
  /\ UNCHANGED <<lastSeq, lastPublic, seed, seedAll, seedPublic,
                 chain, issued, inherited, restarts>>

(* The process stops and starts again: everything in memory is gone, with  *)
(* the writes still queued.                                                *)
Restart ==
  /\ restarts < MaxRestarts
  /\ restarts' = restarts + 1
  /\ inherited' = Len(issued)
  /\ lastSeq' = 0 /\ lastPublic' = 0
  /\ seed' = "none" /\ seedAll' = Unread /\ seedPublic' = Unread
  /\ chain' = <<>>
  /\ UNCHANGED <<rows, issued>>

LogNext ==
  \/ \E kind \in Kind, now \in Clock : Publish(kind, now)
  \/ TouchWatermark \/ SeedReadAll \/ SeedReadPublic \/ SeedApplies \/ SeedFails
  \/ WriteSettles \/ Purge \/ Restart

LogSpec == LogInit /\ [][LogNext]_logVars

-----------------------------------------------------------------------------
(* Properties *)

LogTypeOK ==
  /\ inherited \in 0..Len(issued) /\ restarts \in Nat
  /\ lastSeq \in Nat /\ lastPublic \in Nat
  /\ seed \in SeedState
  /\ seedAll \in Nat \cup {Unread} /\ seedPublic \in Nat \cup {Unread}
  /\ issued \in Seq(Frame)
  /\ chain \in Seq(Frames)
  /\ rows \subseteq Frames

(* Once the seed has completed no row, of this process or an earlier one,  *)
(* lies above the watermark a heartbeat reports: the next seq allocated    *)
(* cannot collide with a durable frame, and a member (a public) client     *)
(* below any durable frame of its stream is told that it is behind.        *)
WatermarkCoversRows ==
  seed = "done" => \A n \in rows : /\ SeqNo(n) <= lastSeq
                                   /\ IsPublic(n) => SeqNo(n) <= lastPublic

(* "A process restart can never reissue a seq": provided the clock comes   *)
(* back ahead of the seqs issued, no two frames ever share a seq, and seqs *)
(* follow the order of emission.                                           *)
NeverReissued ==
  ClockAhead => \A m, n \in Frames : m < n => SeqNo(m) < SeqNo(n)

(* What the seed adds when the clock gives no such guarantee: a frame that *)
(* is published after the lookup has completed has a seq above that of     *)
(* every frame that is durable or still to be written.                     *)
SeedPreventsReissue ==
  [][seed = "done" /\ issued' # issued =>
       \A n \in rows \cup {chain[i] : i \in DOMAIN chain} :
         SeqNo(n) < issued'[Len(issued')].seq]_logVars

=============================================================================
