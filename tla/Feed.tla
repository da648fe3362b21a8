-------------------------------- MODULE Feed --------------------------------
(***************************************************************************)
(* The SSE feed of one building: EventLog composed with the streams of     *)
(* realtime.routes.js `openStream` and the clients that resume them.       *)
(*                                                                         *)
(* A stream subscribes first and buffers; it then replays the durable      *)
(* frames past the client's resume point, reads the status snapshot, sends *)
(* it, drains the buffer and goes live.  Every await of that sequence is a *)
(* point where frames are published, rows are written, the client goes     *)
(* away or the process restarts.                                           *)
(***************************************************************************)
EXTENDS EventLog, SequencesExt

CONSTANTS
  Client,      \* each with at most one stream at a time
  PageLimit    \* replaySince's `limit`

ASSUME PageLimitPositive == PageLimit \in Nat \ {0}

VARIABLES
  member,      \* the client opens the member feed (includeLogs)
  cursor,      \* the client's Last-Event-ID (0: none)
  stage,       \* where openStream stands
  resumed,     \* the request carried a valid resume point
  floor,       \* sinceSeqFloor
  joined,      \* frames already emitted when the stream subscribed
  buffer,      \* `buffered`: frame numbers
  replayed,    \* replayedSeqs
  durable,     \* the rows replay was to bring (not state of the code)
  truncated,   \* resync_required {replay_truncated} was sent
  snapshot,    \* frames already emitted when the status was read
  out          \* what the stream has sent: frame numbers, State for `state`

streamVars == <<cursor, stage, resumed, floor, joined, buffer,
                replayed, durable, truncated, snapshot, out>>
feedVars == <<logVars, member, streamVars>>

State == 0
Stage == {"off", "subscribed", "replayed", "read", "live"}

Forwardable(c, n) == member[c] \/ IsPublic(n)

(* getSeq of the heartbeat.                                                *)
(* Mutant: every stream is compared with the building's own watermark.     *)
WatermarkAll(c) == lastSeq
Watermark(c) == IF member[c] THEN lastSeq ELSE lastPublic

FeedInit ==
  /\ LogInit
  /\ member \in [Client -> BOOLEAN]
  /\ cursor = [c \in Client |-> 0]
  /\ stage = [c \in Client |-> "off"]
  /\ resumed = [c \in Client |-> FALSE]
  /\ floor = [c \in Client |-> 0]
  /\ joined = [c \in Client |-> 0]
  /\ buffer = [c \in Client |-> <<>>]
  /\ replayed = [c \in Client |-> {}]
  /\ durable = [c \in Client |-> {}]
  /\ truncated = [c \in Client |-> FALSE]
  /\ snapshot = [c \in Client |-> 0]
  /\ out = [c \in Client |-> <<>>]

-----------------------------------------------------------------------------
(* publish: the listener of every subscribed stream runs in the same step. *)
FeedPublish(kind, now) ==
  /\ Publish(kind, now)
  /\ LET n == Len(issued) + 1
         takes(c) == member[c] \/ kind = "public"
         live(c) == stage[c] = "live" /\ takes(c)
         waiting(c) == stage[c] \in {"subscribed", "replayed", "read"} /\ takes(c)
     IN  /\ out' = [c \in Client |-> IF live(c) THEN Append(out[c], n) ELSE out[c]]
         /\ cursor' = [c \in Client |-> IF live(c) THEN NextSeq(now) ELSE cursor[c]]
         /\ buffer' = [c \in Client |->
                         IF waiting(c) THEN Append(buffer[c], n) ELSE buffer[c]]
  /\ UNCHANGED <<member, stage, resumed, floor, joined, replayed,
                 durable, truncated, snapshot>>

ResumePoints(c) ==
  {0} \cup {SeqNo(n) : n \in {m \in Frames : Forwardable(c, m)}}

(* openStream up to its first await.  The client resumes from a frame of   *)
(* its kind that some earlier connection brought it, from nothing          *)
(* (sinceSeq=0), or does not resume.                                       *)
Open(c) ==
  /\ stage[c] = "off"
  /\ stage' = [stage EXCEPT ![c] = "subscribed"]
  /\ \E id \in ResumePoints(c), resume \in BOOLEAN :
       /\ id # 0 => resume
       /\ resumed' = [resumed EXCEPT ![c] = resume]
       /\ cursor' = [cursor EXCEPT ![c] = id]
       /\ floor' = [floor EXCEPT ![c] = id]
  /\ joined' = [joined EXCEPT ![c] = Len(issued)]
  /\ UNCHANGED <<logVars, member, buffer, replayed, durable, truncated,
                 snapshot, out>>

(* The rows of the stream's own kind past the floor.                       *)
Found(c) == {n \in rows : SeqNo(n) > floor[c] /\ Forwardable(c, n)}

(* Mutant: newest first.                                                   *)
ReplaySinceNewestFirst(c) ==
  {page \in SeqOf(Found(c), PageLimit) :
     /\ \A i, j \in DOMAIN page : i < j => SeqNo(page[i]) > SeqNo(page[j])
     /\ \A n \in Found(c) \ ToSet(page) :
          Len(page) = PageLimit /\ \A m \in ToSet(page) : SeqNo(m) > SeqNo(n)}
(* replaySince: of those the oldest, PageLimit at most, in their order.    *)
(* The seqs of rows differ, so there is one such page.                      *)
ReplaySince(c) ==
  {page \in SeqOf(Found(c), PageLimit) :
     /\ \A i, j \in DOMAIN page : i < j => SeqNo(page[i]) < SeqNo(page[j])
     /\ \A n \in Found(c) \ ToSet(page) :
          Len(page) = PageLimit /\ \A m \in ToSet(page) : SeqNo(m) < SeqNo(n)}

(* Send what replay found, and say so when there was more.                 *)
Replay(c) ==
  /\ stage[c] = "subscribed"
  /\ stage' = [stage EXCEPT ![c] = "replayed"]
  /\ IF resumed[c]
     THEN \E page \in ReplaySince(c) :
            /\ out' = [out EXCEPT ![c] = page]
            /\ cursor' = [cursor EXCEPT ![c] = IF page = <<>> THEN @ ELSE SeqNo(Last(page))]
            /\ replayed' = [replayed EXCEPT ![c] = {SeqNo(n) : n \in ToSet(page)}]
            /\ durable' = [durable EXCEPT ![c] = Found(c)]
            /\ truncated' = [truncated EXCEPT ![c] = Found(c) \ ToSet(page) # {}]
     ELSE UNCHANGED <<out, cursor, replayed, durable, truncated>>
  /\ UNCHANGED <<logVars, member, resumed, floor, joined, buffer, snapshot>>

(* getStatus answers: the database holds the effect of every frame emitted *)
(* so far, since writers publish after their commit.                       *)
(* Mutant: the snapshot predates the replay.                               *)
ReadStatusOfSubscribe(c) ==
  /\ stage[c] = "replayed"
  /\ stage' = [stage EXCEPT ![c] = "read"]
  /\ snapshot' = [snapshot EXCEPT ![c] = joined[c]]
  /\ UNCHANGED <<logVars, member, cursor, resumed, floor, joined,
                 buffer, replayed, durable, truncated, out>>
ReadStatus(c) ==
  /\ stage[c] = "replayed"
  /\ stage' = [stage EXCEPT ![c] = "read"]
  /\ snapshot' = [snapshot EXCEPT ![c] = Len(issued)]
  /\ UNCHANGED <<logVars, member, cursor, resumed, floor, joined,
                 buffer, replayed, durable, truncated, out>>

(* The frames of a set, in the order they were emitted.                    *)
InOrder(S) ==
  {d \in SeqOf(S, Cardinality(S)) :
     ToSet(d) = S /\ \A i, j \in DOMAIN d : i < j => d[i] < d[j]}

(* Mutants: a high-water comparison instead of the exact set of replayed   *)
(* seqs, and no deduplication at all.                                      *)
SelectAboveHighWater(c) ==
  InOrder({n \in ToSet(buffer[c]) :
             SeqNo(n) > floor[c] /\ \A seq \in replayed[c] : SeqNo(n) > seq})
SelectAll(c) ==
  InOrder({n \in ToSet(buffer[c]) : SeqNo(n) > floor[c]})
(* What the buffer holds past the floor that replay has not sent, in the   *)
(* order of the buffer: listeners run once per frame, as it is emitted.    *)
SelectBufferedToForward(c) ==
  InOrder({n \in ToSet(buffer[c]) : SeqNo(n) > floor[c] /\ SeqNo(n) \notin replayed[c]})

(* Send `state`, drain the buffer, go live.                                *)
GoLive(c) ==
  /\ stage[c] = "read"
  /\ stage' = [stage EXCEPT ![c] = "live"]
  /\ \E drained \in SelectBufferedToForward(c) :
       /\ out' = [out EXCEPT ![c] = Append(@, State) \o drained]
       /\ cursor' = [cursor EXCEPT ![c] =
                       IF drained = <<>> THEN @ ELSE SeqNo(Last(drained))]
  /\ buffer' = [buffer EXCEPT ![c] = <<>>]
  /\ UNCHANGED <<logVars, member, resumed, floor, joined, replayed,
                 durable, truncated, snapshot>>

(* What is left of the streams in C when they end.                         *)
EndStreams(C) ==
  /\ stage' = [c \in Client |-> IF c \in C THEN "off" ELSE stage[c]]
  /\ resumed' = [c \in Client |-> resumed[c] /\ c \notin C]
  /\ floor' = [c \in Client |-> IF c \in C THEN 0 ELSE floor[c]]
  /\ joined' = [c \in Client |-> IF c \in C THEN 0 ELSE joined[c]]
  /\ buffer' = [c \in Client |-> IF c \in C THEN <<>> ELSE buffer[c]]
  /\ replayed' = [c \in Client |-> IF c \in C THEN {} ELSE replayed[c]]
  /\ durable' = [c \in Client |-> IF c \in C THEN {} ELSE durable[c]]
  /\ truncated' = [c \in Client |-> truncated[c] /\ c \notin C]
  /\ snapshot' = [c \in Client |-> IF c \in C THEN 0 ELSE snapshot[c]]
  /\ out' = [c \in Client |-> IF c \in C THEN <<>> ELSE out[c]]
  /\ cursor' = [c \in Client |-> IF c \in C THEN 0 ELSE cursor[c]]
  /\ UNCHANGED member

(* The client goes away, is evicted, or an await of its setup rejects.     *)
Disconnect(c) ==
  /\ stage[c] # "off"
  /\ EndStreams({c})
  /\ UNCHANGED logVars

(* A restart ends every stream.                                            *)
FeedRestart ==
  /\ Restart
  /\ EndStreams(Client)

LogOnly ==
  /\ \/ TouchWatermark \/ SeedReadAll \/ SeedReadPublic \/ SeedApplies
     \/ SeedFails \/ WriteSettles \/ Purge
  /\ UNCHANGED <<member, streamVars>>

FeedNext ==
  \/ \E kind \in Kind, now \in Clock : FeedPublish(kind, now)
  \/ \E c \in Client : \/ Open(c) \/ Replay(c) \/ ReadStatus(c) \/ GoLive(c)
                       \/ Disconnect(c)
  \/ FeedRestart
  \/ LogOnly

FeedSpec == FeedInit /\ [][FeedNext]_feedVars

-----------------------------------------------------------------------------
(* Properties *)

FeedTypeOK ==
  /\ LogTypeOK
  /\ member \in [Client -> BOOLEAN]
  /\ cursor \in [Client -> Nat] /\ floor \in [Client -> Nat]
  /\ stage \in [Client -> Stage]
  /\ resumed \in [Client -> BOOLEAN] /\ truncated \in [Client -> BOOLEAN]
  /\ joined \in [Client -> 0..MaxFrames] /\ snapshot \in [Client -> 0..MaxFrames]
  /\ \A c \in Client : /\ ToSet(buffer[c]) \subseteq Frames
                       /\ replayed[c] \subseteq {SeqNo(n) : n \in Frames}
                       /\ durable[c] \subseteq Frames
                       /\ ToSet(out[c]) \subseteq Frames \cup {State}

Sent(c) == ToSet(out[c]) \ {State}
Missing(c) == {n \in Frames : Forwardable(c, n) /\ SeqNo(n) > floor[c]} \ Sent(c)

(* No stream sends a frame twice, whether replay, the buffer or the live   *)
(* path brought it, and none sends a frame its client said it holds or may *)
(* not see.                                                                *)
ExactlyOnce ==
  \A c \in Client :
    /\ \A i, j \in DOMAIN out[c] : i # j => out[c][i] # out[c][j]
    /\ \A n \in Sent(c) : Forwardable(c, n) /\ SeqNo(n) > floor[c]

(* A live stream has sent every frame of its kind past the resume point    *)
(* that was emitted after it subscribed or was durable when it replayed:   *)
(* the buffering leaves no window between replay and live.  (A truncated   *)
(* replay announces itself.)                                               *)
NothingDropped ==
  \A c \in Client :
    stage[c] = "live" =>
      \A n \in Missing(c) : /\ n <= joined[c]
                            /\ n \in durable[c] => truncated[c]

(* The snapshot follows everything replay sent and is at least as recent,  *)
(* so a stale replayed frame never outlives the true state.                *)
SnapshotFinalWord ==
  \A c \in Client : \A i \in DOMAIN out[c] :
    out[c][i] = State => \A j \in 1..(i - 1) : out[c][j] <= snapshot[c]

(* The ids of one stream increase, except that a frame whose write was     *)
(* lost reaches the client from the buffer, after later frames that replay *)
(* already brought.                                                        *)
IdsRegressOnlyForLostWrites ==
  \A c \in Client : \A i, j \in DOMAIN out[c] :
    /\ i < j /\ out[c][i] # State /\ out[c][j] # State
    /\ SeqNo(out[c][i]) > SeqNo(out[c][j])
    => out[c][j] \notin rows \cup ToSet(chain)

(* The heartbeat raises no false alarm: a resumed stream that misses       *)
(* nothing has been sent an id as high as the watermark it reports, even   *)
(* when member-only frames have taken the building's seq further.          *)
NoFalseAlarm ==
  \A c \in Client :
    stage[c] = "live" /\ resumed[c] /\ Missing(c) = {} =>
      \E seq \in {floor[c]} \cup {SeqNo(n) : n \in Sent(c)} : seq >= Watermark(c)

(* What eventLog.js says of the watermark: "a client at or above it is     *)
(* genuinely at the head of its own stream".  Not so for a frame emitted   *)
(* before the stream subscribed and not yet durable when it replayed: the  *)
(* next live frame takes the client past it.                               *)
HeadMeansComplete ==
  \A c \in Client :
    /\ stage[c] = "live" /\ resumed[c] /\ ~ truncated[c]
    /\ cursor[c] >= Watermark(c)
    => Missing(c) = {}

=============================================================================
