----------------------------- MODULE FeedProofs -----------------------------
(***************************************************************************)
(* The event log and the feed, for every number of clients, frames and     *)
(* restarts, every clock and page size.                                    *)
(*                                                                         *)
(* First the seqs the log gives out.  The invariant says which frames the  *)
(* watermarks cover: all frames of this process at once, and the rows of   *)
(* earlier ones as soon as an aggregate has read them.  Then the streams,  *)
(* each by itself: what its page, its buffer and its snapshot hold at each *)
(* stage of openStream.                                                    *)
(***************************************************************************)
EXTENDS Feed, TLAPS

(* Every frame of this process lies below the watermarks of its kinds.     *)
OwnBelow ==
  \A n \in Frames : n > inherited => /\ SeqNo(n) <= lastSeq
                                     /\ IsPublic(n) => SeqNo(n) <= lastPublic

(* Within a process seqs follow the order of emission.                     *)
OwnIncreasing ==
  \A m, n \in Frames : inherited < m /\ m < n => SeqNo(m) < SeqNo(n)

(* Queued writes are of this process.                                      *)
ChainOwn == \A i \in DOMAIN chain : chain[i] > inherited

(* An answer that is in is no lower than the rows of earlier processes,    *)
(* which can only be purged after it was read.                             *)
AnswersCover ==
  /\ seedAll # Unread => \A n \in rows : n <= inherited => SeqNo(n) <= seedAll
  /\ seedPublic # Unread =>
       \A n \in rows : n <= inherited /\ IsPublic(n) => SeqNo(n) <= seedPublic

(* Answers are only held while the lookup is under way.                    *)
AnswersHeld == seed # "reading" => seedAll = Unread /\ seedPublic = Unread

LogInv ==
  /\ LogTypeOK
  /\ OwnBelow /\ OwnIncreasing /\ ChainOwn
  /\ AnswersCover /\ AnswersHeld
  /\ WatermarkCoversRows
  /\ NeverReissued

-----------------------------------------------------------------------------
(* The frames after a publish.                                             *)
LEMMA FramesAfterPublish ==
  ASSUME LogTypeOK, NEW kind \in Kind, NEW now \in Clock, Publish(kind, now)
  PROVE  LET new == Len(issued) + 1
         IN  /\ NextSeq(now) \in Nat /\ NextSeq(now) > lastSeq /\ NextSeq(now) >= now
             /\ Len(issued') = new /\ Frames' = Frames \cup {new}
             /\ \A n \in Frames : n < new /\ issued'[n] = issued[n]
             /\ issued'[new] = [seq |-> NextSeq(now), kind |-> kind]
             /\ DOMAIN chain' = DOMAIN chain \cup {Len(chain) + 1}
             /\ \A i \in DOMAIN chain : i # Len(chain) + 1 /\ chain'[i] = chain[i]
             /\ chain'[Len(chain) + 1] = new
<1>1. NextSeq(now) \in Nat /\ NextSeq(now) > lastSeq /\ NextSeq(now) >= now
  BY ClockPositive DEF LogTypeOK, NextSeq, Larger
<1>2. issued \in Seq(Frame) /\ chain \in Seq(Frames)
  BY DEF LogTypeOK
<1>3. /\ issued' = Append(issued, [seq |-> NextSeq(now), kind |-> kind])
      /\ chain' = Append(chain, Len(issued) + 1)
  BY DEF Publish
<1> QED
  BY <1>1, <1>2, <1>3 DEF Frames

(* What an aggregate may answer is a number.                               *)
LEMMA AnswersNat == LogTypeOK => Answers \subseteq Nat
<1> SUFFICES ASSUME LogTypeOK, NEW m \in Answers, m # 0 PROVE m \in Nat
  OBVIOUS
<1>1. PICK n \in rows : m = SeqNo(n)
  BY DEF Answers
<1>2. issued[n] \in Frame
  BY DEF LogTypeOK, Frames
<1> QED
  BY <1>1, <1>2 DEF SeqNo, Frame

LEMMA LogTypeStep == LogTypeOK /\ [LogNext]_logVars => LogTypeOK'
<1> SUFFICES ASSUME LogTypeOK, [LogNext]_logVars PROVE LogTypeOK'
  OBVIOUS
<1>1. ASSUME NEW kind \in Kind, NEW now \in Clock, Publish(kind, now)
      PROVE  LogTypeOK'
  <2>1. NextSeq(now) \in Nat
    BY <1>1, FramesAfterPublish
  <2>2. /\ issued' \in Seq(Frame) /\ Len(issued') = Len(issued) + 1
    <3>1. [seq |-> NextSeq(now), kind |-> kind] \in Frame
      BY <1>1, <2>1 DEF Frame
    <3> QED
      BY <1>1, <3>1 DEF LogTypeOK, Publish
  <2>3. Frames \subseteq Frames' /\ Len(issued) + 1 \in Frames'
    BY <2>2 DEF Frames, LogTypeOK
  <2>4. chain' \in Seq(Frames')
    BY <1>1, <2>3 DEF LogTypeOK, Publish
  <2>5. rows' \subseteq Frames'
    BY <1>1, <2>3 DEF LogTypeOK, Publish
  <2> QED
    BY <1>1, <2>1, <2>2, <2>4, <2>5 DEF LogTypeOK, Publish, SeedStarted, SeedState
<1>2. CASE TouchWatermark
  BY <1>2 DEF LogTypeOK, TouchWatermark, SeedState, Frames
<1>3. CASE SeedReadAll
  <2>1. seedAll' \in Nat
    BY <1>3, AnswersNat DEF SeedReadAll
  <2> QED
    BY <1>3, <2>1 DEF LogTypeOK, SeedReadAll, Frames
<1>4. CASE SeedReadPublic
  <2>1. seedPublic' \in Nat
    BY <1>4, AnswersNat DEF SeedReadPublic
  <2> QED
    BY <1>4, <2>1 DEF LogTypeOK, SeedReadPublic, Frames
<1>5. CASE SeedApplies
  BY <1>5 DEF LogTypeOK, SeedApplies, SeedState, Larger, Frames
<1>6. CASE SeedFails
  BY <1>6 DEF LogTypeOK, SeedFails, SeedState, Unread, Frames
<1>7. CASE WriteSettles
  <2>1. Head(chain) \in Frames /\ Tail(chain) \in Seq(Frames)
    BY <1>7 DEF LogTypeOK, WriteSettles
  <2> QED
    BY <1>7, <2>1 DEF LogTypeOK, WriteSettles, Frames
<1>8. CASE Purge
  BY <1>8 DEF LogTypeOK, Purge, Frames
<1>9. CASE Restart
  BY <1>9 DEF LogTypeOK, Restart, SeedState, Unread, Frames
<1>10. CASE UNCHANGED logVars
  BY <1>10 DEF LogTypeOK, logVars, Frames
<1> QED
  BY <1>1, <1>2, <1>3, <1>4, <1>5, <1>6, <1>7, <1>8, <1>9, <1>10 DEF LogNext

LEMMA LogTypeInit == LogInit => LogTypeOK
BY DEF LogInit, LogTypeOK, SeedState, Unread, Frames

(* Every variable of the log keeps its type, whatever the bounds.          *)
THEOREM LogTypeInvariant == LogSpec => []LogTypeOK
<1>1. LogInit => LogTypeOK
  BY LogTypeInit
<1>2. LogTypeOK /\ [LogNext]_logVars => LogTypeOK'
  BY LogTypeStep
<1> QED
  BY <1>1, <1>2, PTL DEF LogSpec

-----------------------------------------------------------------------------
LEMMA LogInvInit == LogInit => LogInv
<1> SUFFICES ASSUME LogInit PROVE LogInv
  OBVIOUS
<1>1. LogTypeOK
  BY LogTypeInit
<1>2. Frames = {} /\ rows = {} /\ chain = <<>>
  BY DEF LogInit, Frames
<1> QED
  BY <1>1, <1>2 DEF LogInit, LogInv, OwnBelow, OwnIncreasing, ChainOwn, AnswersCover,
       AnswersHeld, WatermarkCoversRows, NeverReissued

(* A publish: the new seq is above every frame of this process, and above  *)
(* every row once the lookup has completed.                                *)
LEMMA PublishStep ==
  ASSUME LogInv, NEW kind \in Kind, NEW now \in Clock, Publish(kind, now)
  PROVE  LogInv'
<1> DEFINE new == Len(issued) + 1
<1>t. LogTypeOK /\ LogTypeOK'
  BY LogTypeStep DEF LogInv, LogNext
<1>f. /\ NextSeq(now) \in Nat /\ NextSeq(now) > lastSeq /\ NextSeq(now) >= now
      /\ Frames' = Frames \cup {new}
      /\ \A n \in Frames : n < new /\ issued'[n] = issued[n]
      /\ issued'[new] = [seq |-> NextSeq(now), kind |-> kind]
      /\ DOMAIN chain' = DOMAIN chain \cup {Len(chain) + 1}
      /\ \A i \in DOMAIN chain : i # Len(chain) + 1 /\ chain'[i] = chain[i]
      /\ chain'[Len(chain) + 1] = new
  BY <1>t, FramesAfterPublish
<1>s. /\ \A n \in Frames : issued'[n].seq = issued[n].seq /\ issued'[n].kind = issued[n].kind
      /\ issued'[new].seq = NextSeq(now) /\ issued'[new].kind = kind
  BY <1>f
<1>u. /\ inherited' = inherited /\ rows' = rows
      /\ seedAll' = seedAll /\ seedPublic' = seedPublic
      /\ lastSeq' = NextSeq(now)
      /\ lastPublic' = IF kind = "public" THEN NextSeq(now) ELSE lastPublic
      /\ seed' = IF seed = "none" THEN "reading" ELSE seed
  BY DEF Publish, SeedStarted
<1>n. /\ \A n \in Frames : issued[n].seq \in Nat
      /\ rows \subseteq Frames /\ inherited \in Nat /\ new \in Nat /\ inherited < new
      /\ lastSeq \in Nat /\ lastPublic \in Nat /\ Frames \subseteq Nat
      /\ \A i \in DOMAIN chain : chain[i] \in Frames
  <2>1. \A n \in Frames : issued[n] \in Frame
    BY <1>t DEF LogTypeOK, Frames
  <2>2. \A n \in Frames : issued[n].seq \in Nat
    BY <2>1 DEF Frame
  <2>3. Len(issued) \in Nat /\ Frames \subseteq Nat
    BY <1>t DEF LogTypeOK, Frames
  <2>4. \A i \in DOMAIN chain : chain[i] \in Frames
    BY <1>t DEF LogTypeOK
  <2> QED
    BY <1>t, <2>2, <2>3, <2>4 DEF LogTypeOK
<1>1. OwnBelow'
  <2> SUFFICES ASSUME NEW n \in Frames', n > inherited
               PROVE  /\ issued'[n].seq <= lastSeq'
                      /\ issued'[n].kind = "public" => issued'[n].seq <= lastPublic'
    BY <1>u DEF OwnBelow, SeqNo, IsPublic
  <2>1. CASE n = new
    BY <2>1, <1>s, <1>u, <1>n, <1>f
  <2>2. CASE n \in Frames
    <3>1. /\ issued[n].seq <= lastSeq
          /\ issued[n].kind = "public" => issued[n].seq <= lastPublic
      BY <2>2 DEF LogInv, OwnBelow, SeqNo, IsPublic
    <3>2. lastSeq <= lastSeq' /\ lastPublic \in Nat /\ lastSeq' \in Nat
      BY <1>f, <1>u, <1>n
    <3>3. issued[n].seq <= lastSeq'
      BY <3>1, <3>2, <2>2, <1>n
    <3>4. CASE kind = "public"
      BY <3>3, <3>4, <2>2, <1>s, <1>u
    <3>5. CASE kind # "public"
      BY <3>1, <3>3, <3>5, <2>2, <1>s, <1>u
    <3> QED
      BY <3>4, <3>5
  <2> QED
    BY <2>1, <2>2, <1>f
<1>2. OwnIncreasing'
  <2> SUFFICES ASSUME NEW m \in Frames', NEW n \in Frames', inherited < m, m < n
               PROVE  issued'[m].seq < issued'[n].seq
    BY <1>u DEF OwnIncreasing, SeqNo, IsPublic
  <2>1. m \in Frames
    BY <1>f, <1>n
  <2>2. CASE n = new
    BY <2>1, <2>2, <1>f, <1>s, <1>n DEF LogInv, OwnBelow, SeqNo, IsPublic
  <2>3. CASE n \in Frames
    BY <2>1, <2>3, <1>s DEF LogInv, OwnIncreasing, SeqNo, IsPublic
  <2> QED
    BY <2>2, <2>3, <1>f
<1>3. ChainOwn'
  BY <1>f, <1>u, <1>n DEF LogInv, ChainOwn
<1>4. AnswersCover'
  BY <1>s, <1>u, <1>n DEF LogInv, AnswersCover, SeqNo, IsPublic
<1>5. AnswersHeld'
  BY <1>u DEF LogInv, AnswersHeld
<1>6. WatermarkCoversRows'
  BY <1>f, <1>s, <1>u, <1>n DEF LogInv, WatermarkCoversRows, SeqNo, IsPublic
<1>7. NeverReissued'
  <2> SUFFICES ASSUME ClockAhead, NEW m \in Frames', NEW n \in Frames', m < n
               PROVE  issued'[m].seq < issued'[n].seq
    BY DEF NeverReissued, SeqNo, IsPublic
  <2>1. m \in Frames
    BY <1>f, <1>n
  <2>2. CASE n \in Frames
    BY <2>1, <2>2, <1>s DEF LogInv, NeverReissued, SeqNo, IsPublic
  <2>3. CASE n = new
    <3>1. CASE m > inherited
      BY <2>1, <2>3, <3>1, <1>f, <1>s, <1>n DEF LogInv, OwnBelow, SeqNo, IsPublic
    <3>2. CASE m <= inherited
      <4>1. issued[m].seq < now
        BY <2>1, <3>2 DEF Publish, Reads, Frames, SeqNo, IsPublic
      <4> QED
        BY <2>1, <2>3, <4>1, <1>f, <1>s, <1>n, ClockPositive
    <3> QED
      BY <3>1, <3>2, <2>1, <1>n
  <2> QED
    BY <2>2, <2>3, <1>f
<1> QED
  BY <1>t, <1>1, <1>2, <1>3, <1>4, <1>5, <1>6, <1>7 DEF LogInv

(* Steps that emit no frame keep what is said of frames alone.             *)
LEMMA QuietStep ==
  ASSUME LogInv, UNCHANGED <<issued, inherited>>
  PROVE  NeverReissued' /\ OwnIncreasing'
BY DEF LogInv, NeverReissued, OwnIncreasing, Frames, SeqNo

LEMMA SeedStep ==
  ASSUME LogInv, LogTypeOK',
         TouchWatermark \/ SeedReadAll \/ SeedReadPublic \/ SeedFails
  PROVE  LogInv'
<1>u. UNCHANGED <<lastSeq, lastPublic, chain, rows, issued, inherited>> /\ seed' # "done"
  <2>1. CASE TouchWatermark
    BY <2>1 DEF TouchWatermark
  <2>2. CASE SeedReadAll
    BY <2>2 DEF SeedReadAll
  <2>3. CASE SeedReadPublic
    BY <2>3 DEF SeedReadPublic
  <2>4. CASE SeedFails
    BY <2>4 DEF SeedFails
  <2> QED
    BY <2>1, <2>2, <2>3, <2>4
<1>1. NeverReissued' /\ OwnIncreasing'
  BY <1>u, QuietStep
<1>2. OwnBelow' /\ ChainOwn'
  BY <1>u DEF LogInv, OwnBelow, ChainOwn, Frames, SeqNo, IsPublic
<1>3. WatermarkCoversRows'
  BY <1>u DEF WatermarkCoversRows
<1>4. AnswersHeld'
  BY DEF LogInv, AnswersHeld, TouchWatermark, SeedReadAll, SeedReadPublic, SeedFails
<1>5. AnswersCover'
  <2>1. CASE TouchWatermark
    BY <2>1, <1>u DEF LogInv, AnswersCover, TouchWatermark, SeqNo, IsPublic
  <2>2. CASE SeedReadAll
    <3>1. \A n \in rows : SeqNo(n) <= seedAll'
      BY <2>2 DEF SeedReadAll, IsMaxSeq
    <3> QED
      BY <2>2, <3>1, <1>u DEF LogInv, AnswersCover, SeedReadAll, SeqNo, IsPublic
  <2>3. CASE SeedReadPublic
    <3>1. \A n \in rows : IsPublic(n) => SeqNo(n) <= seedPublic'
      BY <2>3 DEF SeedReadPublic, IsMaxSeq
    <3> QED
      BY <2>3, <3>1, <1>u DEF LogInv, AnswersCover, SeedReadPublic, SeqNo, IsPublic
  <2>4. CASE SeedFails
    BY <2>4 DEF AnswersCover, SeedFails
  <2> QED
    BY <2>1, <2>2, <2>3, <2>4
<1> QED
  BY <1>1, <1>2, <1>3, <1>4, <1>5 DEF LogInv

(* The watermarks are raised to the answers: rows of earlier processes are *)
(* covered by these, rows of this one were already.                        *)
LEMMA SeedAppliesStep ==
  ASSUME LogInv, LogTypeOK', SeedApplies
  PROVE  LogInv'
<1>u. UNCHANGED <<chain, rows, issued, inherited>> /\ seed' = "done"
  BY DEF SeedApplies
<1>n. /\ \A n \in Frames : issued[n] \in Frame
      /\ \A n \in Frames : issued[n].seq \in Nat
      /\ rows \subseteq Frames /\ Frames \subseteq Nat /\ inherited \in Nat
      /\ lastSeq \in Nat /\ lastPublic \in Nat
  <2>1. \A n \in Frames : issued[n] \in Frame
    BY DEF LogInv, LogTypeOK, Frames
  <2>2. \A n \in Frames : issued[n].seq \in Nat
    BY <2>1 DEF Frame
  <2>3. rows \subseteq Frames /\ Frames \subseteq Nat
    BY DEF LogInv, LogTypeOK, Frames
  <2>4. inherited \in Nat /\ lastSeq \in Nat /\ lastPublic \in Nat
    BY DEF LogInv, LogTypeOK
  <2> QED
    BY <2>1, <2>2, <2>3, <2>4
<1>m. /\ seedAll \in Nat /\ seedPublic \in Nat
      /\ lastSeq' \in Nat /\ lastSeq' >= seedAll /\ lastSeq' >= lastSeq
      /\ lastPublic' \in Nat /\ lastPublic' >= seedPublic /\ lastPublic' >= lastPublic
  BY <1>n DEF LogInv, LogTypeOK, SeedApplies, Larger
<1>1. NeverReissued' /\ OwnIncreasing'
  BY <1>u, QuietStep
<1>2. ChainOwn'
  BY <1>u DEF LogInv, ChainOwn
<1>3. OwnBelow'
  <2> SUFFICES ASSUME NEW n \in Frames, n > inherited
               PROVE  /\ issued[n].seq <= lastSeq'
                      /\ issued[n].kind = "public" => issued[n].seq <= lastPublic'
    BY <1>u DEF OwnBelow, Frames, SeqNo, IsPublic
  <2>1. /\ issued[n].seq <= lastSeq
        /\ issued[n].kind = "public" => issued[n].seq <= lastPublic
    BY DEF LogInv, OwnBelow, SeqNo, IsPublic
  <2> QED
    BY <2>1, <1>n, <1>m
<1>4. WatermarkCoversRows'
  <2> SUFFICES ASSUME NEW n \in rows
               PROVE  /\ issued[n].seq <= lastSeq'
                      /\ issued[n].kind = "public" => issued[n].seq <= lastPublic'
    BY <1>u DEF WatermarkCoversRows, SeqNo, IsPublic
  <2>0. n \in Frames /\ n \in Nat /\ issued[n].seq \in Nat
    BY <1>n
  <2>1. CASE n > inherited
    <3>1. /\ issued[n].seq <= lastSeq
          /\ issued[n].kind = "public" => issued[n].seq <= lastPublic
      BY <2>0, <2>1, <1>n DEF LogInv, OwnBelow, SeqNo, IsPublic
    <3> QED
      BY <3>1, <2>0, <1>n, <1>m
  <2>2. CASE n <= inherited
    <3>1. /\ issued[n].seq <= seedAll
          /\ issued[n].kind = "public" => issued[n].seq <= seedPublic
      BY <2>2 DEF LogInv, AnswersCover, SeedApplies, SeqNo, IsPublic
    <3> QED
      BY <3>1, <2>0, <1>n, <1>m
  <2> QED
    BY <2>0, <2>1, <2>2, <1>n
<1>5. AnswersHeld' /\ AnswersCover'
  BY DEF SeedApplies, AnswersHeld, AnswersCover
<1> QED
  BY <1>1, <1>2, <1>3, <1>4, <1>5 DEF LogInv

LEMMA WriteStep ==
  ASSUME LogInv, LogTypeOK', WriteSettles
  PROVE  LogInv'
<1>u. /\ UNCHANGED <<lastSeq, lastPublic, seed, seedAll, seedPublic, issued, inherited>>
      /\ chain # <<>> /\ chain' = Tail(chain)
      /\ rows' \subseteq rows \cup {Head(chain)}
  BY DEF WriteSettles
<1>c. /\ Head(chain) \in {chain[i] : i \in DOMAIN chain}
      /\ \A i \in DOMAIN chain' : i + 1 \in DOMAIN chain /\ chain'[i] = chain[i + 1]
  <2>1. chain \in Seq(Frames)
    BY DEF LogInv, LogTypeOK
  <2> QED
    BY <2>1, <1>u
<1>h. Head(chain) \in Frames /\ Head(chain) > inherited
  BY <1>c, <1>u DEF LogInv, ChainOwn, LogTypeOK
<1>i. inherited \in Nat /\ Frames \subseteq Nat
  BY DEF LogInv, LogTypeOK, Frames
<1>1. NeverReissued' /\ OwnIncreasing'
  BY <1>u, QuietStep
<1>2. OwnBelow' /\ AnswersHeld'
  BY <1>u DEF LogInv, OwnBelow, AnswersHeld, Frames, SeqNo, IsPublic
<1>3. ChainOwn'
  BY <1>u, <1>c DEF LogInv, ChainOwn
<1>4. AnswersCover'
  <2>1. \A n \in rows' : n <= inherited => n \in rows
    <3> SUFFICES ASSUME NEW n \in rows', n <= inherited, n \notin rows PROVE FALSE
      OBVIOUS
    <3>1. n = Head(chain)
      BY <1>u
    <3>2. n > inherited /\ n \in Nat
      BY <3>1, <1>h, <1>i
    <3> QED
      BY <3>2, <1>i
  <2>2. /\ seedAll' # Unread =>
             \A n \in rows' : n <= inherited => issued[n].seq <= seedAll'
        /\ seedPublic' # Unread =>
             \A n \in rows' : n <= inherited /\ issued[n].kind = "public"
                            => issued[n].seq <= seedPublic'
    BY <2>1, <1>u DEF LogInv, AnswersCover, SeqNo, IsPublic
  <2> QED
    BY <2>2, <1>u DEF AnswersCover, SeqNo, IsPublic
<1>5. WatermarkCoversRows'
  BY <1>u, <1>h DEF LogInv, WatermarkCoversRows, OwnBelow, SeqNo, IsPublic
<1> QED
  BY <1>1, <1>2, <1>3, <1>4, <1>5 DEF LogInv

LEMMA PurgeStep ==
  ASSUME LogInv, LogTypeOK', Purge
  PROVE  LogInv'
<1>u. /\ UNCHANGED <<lastSeq, lastPublic, seed, seedAll, seedPublic, chain, issued, inherited>>
      /\ rows' \subseteq rows
  BY DEF Purge
<1>1. NeverReissued' /\ OwnIncreasing'
  BY <1>u, QuietStep
<1> QED
  BY <1>1, <1>u DEF LogInv, OwnBelow, ChainOwn, AnswersCover, AnswersHeld,
       WatermarkCoversRows, Frames, SeqNo, IsPublic

(* After a restart no frame is this process's own, and nothing is known of *)
(* the rows until a new lookup has completed.                              *)
LEMMA RestartStep ==
  ASSUME LogInv, LogTypeOK', Restart
  PROVE  LogInv'
<1>u. /\ UNCHANGED <<rows, issued>> /\ inherited' = Len(issued) /\ chain' = <<>>
      /\ seed' = "none" /\ seedAll' = Unread /\ seedPublic' = Unread
  BY DEF Restart
<1>1. Frames' = Frames /\ \A n \in Frames : ~ (n > Len(issued))
  BY <1>u DEF LogInv, LogTypeOK, Frames
<1>2. NeverReissued'
  BY <1>u, <1>1 DEF LogInv, NeverReissued, SeqNo
<1>3. OwnBelow' /\ OwnIncreasing' /\ ChainOwn'
  BY <1>u, <1>1 DEF OwnBelow, OwnIncreasing, ChainOwn
<1>4. AnswersCover' /\ AnswersHeld' /\ WatermarkCoversRows'
  BY <1>u DEF AnswersCover, AnswersHeld, WatermarkCoversRows
<1> QED
  BY <1>2, <1>3, <1>4 DEF LogInv

LEMMA LogInvStep == LogInv /\ [LogNext]_logVars => LogInv'
<1> SUFFICES ASSUME LogInv, [LogNext]_logVars PROVE LogInv'
  OBVIOUS
<1>t. LogTypeOK'
  BY LogTypeStep DEF LogInv
<1>1. ASSUME NEW kind \in Kind, NEW now \in Clock, Publish(kind, now) PROVE LogInv'
  BY <1>1, PublishStep
<1>2. CASE TouchWatermark \/ SeedReadAll \/ SeedReadPublic \/ SeedFails
  BY <1>2, <1>t, SeedStep
<1>3. CASE SeedApplies
  BY <1>3, <1>t, SeedAppliesStep
<1>4. CASE WriteSettles
  BY <1>4, <1>t, WriteStep
<1>5. CASE Purge
  BY <1>5, <1>t, PurgeStep
<1>6. CASE Restart
  BY <1>6, <1>t, RestartStep
<1>7. CASE UNCHANGED logVars
  BY <1>7, <1>t DEF logVars, LogInv, OwnBelow, OwnIncreasing, ChainOwn, AnswersCover,
       AnswersHeld, WatermarkCoversRows, NeverReissued, Frames, SeqNo, IsPublic
<1> QED
  BY <1>1, <1>2, <1>3, <1>4, <1>5, <1>6, <1>7 DEF LogNext

(* The strengthening is invariant, for every clock.                        *)
THEOREM LogInvariant == LogSpec => []LogInv
<1>1. LogInit => LogInv
  BY LogInvInit
<1>2. LogInv /\ [LogNext]_logVars => LogInv'
  BY LogInvStep
<1> QED
  BY <1>1, <1>2, PTL DEF LogSpec

(* After the lookup the watermarks are never below a durable row, whatever *)
(* interleaving of queries, publishes, writes, purges and restarts.        *)
THEOREM WatermarkTheorem == LogSpec => []WatermarkCoversRows
<1>1. LogInv => WatermarkCoversRows
  BY DEF LogInv
<1> QED
  BY <1>1, LogInvariant, PTL

(* With a clock that comes back ahead, no seq is ever given twice.         *)
THEOREM NeverReissuedTheorem == LogSpec => []NeverReissued
<1>1. LogInv => NeverReissued
  BY DEF LogInv
<1> QED
  BY <1>1, LogInvariant, PTL

(* Without that clock: once the lookup is done a new seq is above those of *)
(* all frames that are durable or on their way to be.                      *)
THEOREM SeedTheorem == LogSpec => SeedPreventsReissue
<1>1. LogInv /\ [LogNext]_logVars =>
        [seed = "done" /\ issued' # issued =>
           \A n \in rows \cup {chain[i] : i \in DOMAIN chain} :
             SeqNo(n) < issued'[Len(issued')].seq]_logVars
  <2> SUFFICES ASSUME LogInv, LogNext, seed = "done", issued' # issued,
                      NEW n \in rows \cup {chain[i] : i \in DOMAIN chain}
               PROVE  SeqNo(n) < issued'[Len(issued')].seq
    BY DEF logVars
  <2>1. PICK kind \in Kind, now \in Clock : Publish(kind, now)
    BY DEF LogNext, TouchWatermark, SeedReadAll, SeedReadPublic, SeedApplies, SeedFails,
           WriteSettles, Purge, Restart
  <2>2. LogTypeOK
    BY DEF LogInv
  <2>3. /\ NextSeq(now) \in Nat /\ NextSeq(now) > lastSeq
        /\ Len(issued') = Len(issued) + 1
        /\ issued'[Len(issued) + 1] = [seq |-> NextSeq(now), kind |-> kind]
    BY <2>1, <2>2, FramesAfterPublish
  <2>4. n \in Frames /\ SeqNo(n) <= lastSeq
    BY <2>2 DEF LogInv, LogTypeOK, WatermarkCoversRows, ChainOwn, OwnBelow
  <2>5. SeqNo(n) \in Nat /\ lastSeq \in Nat
    <3>1. issued[n] \in Frame
      BY <2>2, <2>4 DEF LogTypeOK, Frames
    <3> QED
      BY <2>2, <3>1 DEF LogTypeOK, SeqNo, Frame
  <2> QED
    <3>1. issued'[Len(issued')].seq = NextSeq(now)
      BY <2>3
    <3> QED
      BY <2>3, <2>4, <2>5, <3>1
<1> QED
  BY <1>1, LogInvariant, PTL DEF LogSpec, SeedPreventsReissue

-----------------------------------------------------------------------------
(* The streams.                                                            *)

(* Rows are written in the order of their frames.                          *)
WritesInOrder ==
  /\ \A i, j \in DOMAIN chain : i < j => chain[i] < chain[j]
  /\ \A n \in rows : \A i \in DOMAIN chain : n < chain[i]

(* A watermark, or an answer that may become one, is the seq of a frame.   *)
IsSeqOf(m, F) == m = 0 \/ \E n \in F : SeqNo(n) = m
Public == {n \in Frames : IsPublic(n)}

WatermarksReached ==
  /\ IsSeqOf(lastSeq, Frames) /\ IsSeqOf(lastPublic, Public)
  /\ seedAll # Unread => IsSeqOf(seedAll, Frames)
  /\ seedPublic # Unread => IsSeqOf(seedPublic, Public)

LogOrder ==
  WritesInOrder /\ WatermarksReached /\ \A n \in Frames : SeqNo(n) > 0

Waiting == {"subscribed", "replayed", "read"}

(* The client's resume point is older than what came after it subscribed.  *)
FloorHeld(c) ==
  /\ floor[c] \in Nat /\ joined[c] \in 0 .. Len(issued)
  /\ floor[c] = 0 \/ \E n \in Frames : floor[c] = SeqNo(n)
  /\ \A n \in Frames : n > joined[c] => SeqNo(n) > floor[c]

(* The buffer of a stream in its setup holds the frames of its kind emitted *)
(* since it subscribed, in their order.                                    *)
BufferHeld(c) ==
  /\ buffer[c] \in Seq(Frames)
  /\ \A i, j \in DOMAIN buffer[c] : i < j => buffer[c][i] < buffer[c][j]
  /\ ToSet(buffer[c]) = IF stage[c] \in Waiting
                        THEN {n \in Frames : n > joined[c] /\ Forwardable(c, n)} ELSE {}

(* What was sent, of the stream's kind, past the floor, and once.          *)
OutHeld(c) ==
  /\ out[c] \in Seq(Frames \cup {State})
  /\ \A i, j \in DOMAIN out[c] : i # j => out[c][i] # out[c][j]
  /\ \A n \in Sent(c) : Forwardable(c, n) /\ SeqNo(n) > floor[c]

(* Up to the snapshot nothing but the page was sent, by seq, and what there *)
(* is of the rows was sent unless the page was full.                       *)
PageHeld(c) ==
  /\ stage[c] \in {"off", "subscribed"} => out[c] = <<>> /\ durable[c] = {} /\ replayed[c] = {}
  /\ stage[c] \in {"replayed", "read"} =>
       /\ State \notin ToSet(out[c]) /\ replayed[c] = {SeqNo(n) : n \in ToSet(out[c])}
       /\ \A i, j \in DOMAIN out[c] : i < j => SeqNo(out[c][i]) < SeqNo(out[c][j])
  /\ \A n \in durable[c] : n \in ToSet(out[c]) \/ truncated[c]

(* A buffered frame that replay passed over was lost.                      *)
LostHeld(c) ==
  stage[c] \in {"replayed", "read"} =>
    \A i \in DOMAIN out[c], b \in ToSet(buffer[c]) :
      SeqNo(out[c][i]) > SeqNo(b) /\ SeqNo(b) \notin replayed[c] => b \notin rows \cup ToSet(chain)

SnapshotHeld(c) ==
  /\ stage[c] = "read" => \A n \in ToSet(out[c]) : n <= snapshot[c]
  /\ \A i \in DOMAIN out[c] : out[c][i] = State => \A j \in 1 .. (i - 1) : out[c][j] <= snapshot[c]

(* The properties, for one client.                                         *)
DroppedNothing(c) ==
  stage[c] = "live" => \A n \in Missing(c) : n <= joined[c] /\ (n \in durable[c] => truncated[c])
RegressedForLost(c) ==
  \A i, j \in DOMAIN out[c] :
    /\ i < j /\ out[c][i] # State /\ out[c][j] # State
    /\ SeqNo(out[c][i]) > SeqNo(out[c][j])
    => out[c][j] \notin rows \cup ToSet(chain)

StreamInv(c) ==
  /\ stage[c] \in Stage /\ member[c] \in BOOLEAN
  /\ resumed[c] \in BOOLEAN /\ truncated[c] \in BOOLEAN
  /\ FloorHeld(c) /\ BufferHeld(c) /\ OutHeld(c) /\ PageHeld(c) /\ LostHeld(c) /\ SnapshotHeld(c)
  /\ DroppedNothing(c) /\ RegressedForLost(c)

StreamTypes ==
  /\ member = [c \in Client |-> member[c]] /\ stage = [c \in Client |-> stage[c]]
  /\ resumed = [c \in Client |-> resumed[c]] /\ floor = [c \in Client |-> floor[c]]
  /\ joined = [c \in Client |-> joined[c]] /\ buffer = [c \in Client |-> buffer[c]]
  /\ replayed = [c \in Client |-> replayed[c]] /\ durable = [c \in Client |-> durable[c]]
  /\ truncated = [c \in Client |-> truncated[c]] /\ snapshot = [c \in Client |-> snapshot[c]]
  /\ out = [c \in Client |-> out[c]]

FeedInv == LogOrder /\ StreamTypes /\ \A c \in Client : StreamInv(c)
-----------------------------------------------------------------------------
LEMMA SeqsNat == LogTypeOK => \A n \in Frames : SeqNo(n) \in Nat /\ n \in Nat
<1> SUFFICES ASSUME LogTypeOK, NEW n \in Frames PROVE SeqNo(n) \in Nat /\ n \in Nat
  OBVIOUS
<1>1. issued[n] \in Frame /\ n \in Nat
  BY DEF LogTypeOK, Frames
<1> QED
  BY <1>1 DEF SeqNo, Frame

(* Seqs follow the order of emission, and so differ.                       *)
LEMMA SeqsRise ==
  ASSUME LogInv, ClockAhead
  PROVE  /\ \A n \in Frames : SeqNo(n) \in Nat /\ n \in Nat
         /\ \A m, n \in Frames : SeqNo(m) < SeqNo(n) <=> m < n
         /\ \A m, n \in Frames : SeqNo(m) = SeqNo(n) => m = n
<1>1. \A n \in Frames : SeqNo(n) \in Nat /\ n \in Nat
  BY SeqsNat DEF LogInv
<1>2. \A m, n \in Frames : m < n => SeqNo(m) < SeqNo(n)
  BY DEF LogInv, NeverReissued
<1>3. ASSUME NEW m \in Frames, NEW n \in Frames
      PROVE  (SeqNo(m) < SeqNo(n) <=> m < n) /\ (SeqNo(m) = SeqNo(n) => m = n)
  <2>1. m < n \/ m = n \/ n < m
    BY <1>1
  <2> QED
    BY <1>1, <1>2, <2>1
<1> QED
  BY <1>1, <1>3

(* A publish keeps the seqs of the frames there are.                       *)
LEMMA SeqsAfterPublish ==
  ASSUME LogTypeOK, NEW kind \in Kind, NEW now \in Clock, Publish(kind, now)
  PROVE  LET new == Len(issued) + 1
         IN  /\ new \in Nat /\ Frames' = Frames \cup {new} /\ new \notin Frames
             /\ \A n \in Frames : n < new /\ SeqNo(n)' = SeqNo(n) /\ issued'[n].kind = issued[n].kind
             /\ issued'[new].seq = NextSeq(now) /\ NextSeq(now) \in Nat /\ NextSeq(now) > 0
             /\ issued'[new].kind = kind
             /\ rows' = rows /\ ToSet(chain)' = ToSet(chain) \cup {new}
<1> DEFINE new == Len(issued) + 1
<1>1. /\ NextSeq(now) \in Nat /\ NextSeq(now) > lastSeq /\ NextSeq(now) >= now
      /\ Len(issued') = new /\ Frames' = Frames \cup {new}
      /\ \A n \in Frames : n < new /\ issued'[n] = issued[n]
      /\ issued'[new] = [seq |-> NextSeq(now), kind |-> kind]
      /\ DOMAIN chain' = DOMAIN chain \cup {Len(chain) + 1}
      /\ \A i \in DOMAIN chain : i # Len(chain) + 1 /\ chain'[i] = chain[i]
      /\ chain'[Len(chain) + 1] = new
  BY FramesAfterPublish
<1>2. new \in Nat /\ new \notin Frames
  BY DEF LogTypeOK, Frames
<1>3. \A n \in Frames : SeqNo(n)' = SeqNo(n) /\ issued'[n].kind = issued[n].kind
  BY <1>1 DEF SeqNo, IsPublic
<1>4. issued'[new].seq = NextSeq(now) /\ issued'[new].kind = kind
  BY <1>1 DEF SeqNo, IsPublic
<1>5. NextSeq(now) > 0
  BY <1>1, ClockPositive DEF LogTypeOK
<1>6. ToSet(chain)' = ToSet(chain) \cup {new}
  <2>1. /\ ToSet(chain)' = {chain'[i] : i \in DOMAIN chain'}
        /\ ToSet(chain) = {chain[i] : i \in DOMAIN chain}
    BY DEF ToSet
  <2>2. {chain'[i] : i \in DOMAIN chain'} = {chain[i] : i \in DOMAIN chain} \cup {chain'[Len(chain) + 1]}
    BY <1>1
  <2> QED
    BY <1>1, <2>1, <2>2
<1>7. rows' = rows
  BY DEF Publish
<1> HIDE DEF new
<1> QED
  BY <1>1, <1>2, <1>3, <1>4, <1>5, <1>6, <1>7 DEF new

LEMMA WritesInOrderStep ==
  ASSUME LogTypeOK, WritesInOrder, [LogNext]_logVars
  PROVE  WritesInOrder'
<1>0. chain \in Seq(Frames) /\ rows \subseteq Frames
  BY DEF LogTypeOK
<1>1. ASSUME NEW kind \in Kind, NEW now \in Clock, Publish(kind, now) PROVE WritesInOrder'
  <2> DEFINE new == Len(issued) + 1
  <2>1. /\ \A n \in Frames : n < new
        /\ DOMAIN chain' = DOMAIN chain \cup {Len(chain) + 1}
        /\ \A i \in DOMAIN chain : i # Len(chain) + 1 /\ chain'[i] = chain[i]
        /\ chain'[Len(chain) + 1] = new
    BY <1>1, FramesAfterPublish
  <2>2. rows' = rows
    BY <1>1 DEF Publish
  <2>3. \A i \in DOMAIN chain : i < Len(chain) + 1 /\ chain[i] \in Frames
    BY <1>0
  <2> HIDE DEF new
  <2>4. Len(chain) + 1 \notin DOMAIN chain
    BY <1>0
  <2>5. ASSUME NEW i \in DOMAIN chain', NEW j \in DOMAIN chain', i < j PROVE chain'[i] < chain'[j]
    <3>1. i \in DOMAIN chain
      <4>1. CASE i = Len(chain) + 1
        <5>1. j = Len(chain) + 1 \/ (j < Len(chain) + 1 /\ j \in Nat)
          BY <1>0, <2>1, <2>3
        <5> QED
          BY <1>0, <2>5, <4>1, <5>1
      <4> QED
        BY <2>1, <4>1
    <3>2. CASE j \in DOMAIN chain
      BY <2>1, <2>5, <3>1, <3>2 DEF WritesInOrder
    <3>3. CASE j = Len(chain) + 1
      BY <2>1, <2>3, <3>1, <3>3
    <3> QED
      BY <2>1, <3>2, <3>3
  <2>6. ASSUME NEW n \in rows', NEW i \in DOMAIN chain' PROVE n < chain'[i]
    <3>1. n \in rows /\ n \in Frames
      BY <1>0, <2>2
    <3>2. CASE i \in DOMAIN chain
      BY <2>1, <3>1, <3>2 DEF WritesInOrder
    <3>3. CASE i = Len(chain) + 1
      BY <2>1, <3>1, <3>3
    <3> QED
      BY <2>1, <3>2, <3>3
  <2> QED
    BY <2>5, <2>6 DEF WritesInOrder
<1>2. CASE TouchWatermark \/ SeedReadAll \/ SeedReadPublic \/ SeedApplies \/ SeedFails \/ UNCHANGED logVars
  <2>1. UNCHANGED <<chain, rows>>
    BY <1>2 DEF TouchWatermark, SeedReadAll, SeedReadPublic, SeedApplies, SeedFails, logVars
  <2> QED
    BY <2>1 DEF WritesInOrder
<1>3. CASE WriteSettles
  <2>1. /\ chain # <<>> /\ chain' = Tail(chain)
        /\ rows' = rows \/ rows' = rows \cup {Head(chain)}
    BY <1>3 DEF WriteSettles
  <2>2. /\ Len(chain) \in Nat /\ Len(chain) > 0 /\ DOMAIN chain = 1 .. Len(chain)
        /\ DOMAIN chain' = 1 .. (Len(chain) - 1) /\ Head(chain) = chain[1]
        /\ \A i \in 1 .. (Len(chain) - 1) : chain'[i] = chain[i + 1]
    BY <1>0, <2>1
  <2>3. \A i \in DOMAIN chain' : i + 1 \in DOMAIN chain /\ chain'[i] = chain[i + 1] /\ 1 < i + 1
    BY <2>2
  <2>4. ASSUME NEW i \in DOMAIN chain', NEW j \in DOMAIN chain', i < j PROVE chain'[i] < chain'[j]
    <3>1. i + 1 < j + 1
      BY <2>2, <2>4
    <3> QED
      BY <2>3, <3>1 DEF WritesInOrder
  <2>5. ASSUME NEW n \in rows', NEW i \in DOMAIN chain' PROVE n < chain'[i]
    <3>1. CASE n \in rows
      BY <2>3, <3>1 DEF WritesInOrder
    <3>2. CASE n = Head(chain)
      <4>1. 1 \in DOMAIN chain
        BY <2>2
      <4> QED
        BY <2>2, <2>3, <3>2, <4>1 DEF WritesInOrder
    <3> QED
      BY <2>1, <3>1, <3>2
  <2> QED
    BY <2>4, <2>5 DEF WritesInOrder
<1>4. CASE Purge
  <2>1. rows' \subseteq rows /\ chain' = chain
    BY <1>4 DEF Purge
  <2> QED
    BY <2>1 DEF WritesInOrder
<1>5. CASE Restart
  <2>1. DOMAIN chain' = {}
    BY <1>5 DEF Restart
  <2> QED
    BY <2>1 DEF WritesInOrder
<1> QED
  BY <1>1, <1>2, <1>3, <1>4, <1>5 DEF LogNext

(* The seqs of frames there are stay; only the watermarks and answers move. *)
LEMMA WatermarksStep ==
  ASSUME LogTypeOK, WatermarksReached, \A n \in Frames : SeqNo(n) > 0, [LogNext]_logVars
  PROVE  WatermarksReached' /\ \A n \in Frames' : SeqNo(n)' > 0
<1>1. ASSUME NEW kind \in Kind, NEW now \in Clock, Publish(kind, now)
      PROVE  WatermarksReached' /\ \A n \in Frames' : SeqNo(n)' > 0
  <2> DEFINE new == Len(issued) + 1
  <2>1. /\ Frames' = Frames \cup {new} /\ new \notin Frames
        /\ \A n \in Frames : SeqNo(n)' = SeqNo(n) /\ issued'[n].kind = issued[n].kind
        /\ issued'[new].seq = NextSeq(now) /\ NextSeq(now) > 0
        /\ issued'[new].kind = kind
    BY <1>1, SeqsAfterPublish
  <2>2. /\ lastSeq' = NextSeq(now) /\ lastPublic' = IF kind = "public" THEN NextSeq(now) ELSE lastPublic
        /\ UNCHANGED <<seedAll, seedPublic>>
    BY <1>1 DEF Publish
  <2> HIDE DEF new
  <2>3. new \in Frames' /\ \A n \in Public : n \in Public'
    BY <2>1 DEF Public, IsPublic
  <2>4. \A m : IsSeqOf(m, Frames) => m = 0 \/ \E n \in Frames' : SeqNo(n)' = m
    BY <2>1 DEF IsSeqOf
  <2>5. \A m : IsSeqOf(m, Public) => m = 0 \/ \E n \in Public' : SeqNo(n)' = m
    BY <2>1, <2>3 DEF IsSeqOf, Public, IsPublic
  <2>6. kind = "public" => new \in Public'
    BY <2>1, <2>3 DEF Public, IsPublic
  <2>7. \A n \in Frames' : SeqNo(n)' > 0
    BY <2>1 DEF SeqNo
  <2>8. lastSeq' = 0 \/ \E n \in Frames' : SeqNo(n)' = lastSeq'
    BY <2>1, <2>2, <2>3 DEF SeqNo
  <2>9. lastPublic' = 0 \/ \E n \in Public' : SeqNo(n)' = lastPublic'
    <3>1. CASE kind = "public"
      BY <2>1, <2>2, <2>6, <3>1 DEF SeqNo
    <3>2. CASE kind # "public"
      BY <2>2, <2>5, <3>2 DEF WatermarksReached
    <3> QED
      BY <3>1, <3>2
  <2>10. seedAll' # Unread => seedAll' = 0 \/ \E n \in Frames' : SeqNo(n)' = seedAll'
    BY <2>2, <2>4 DEF WatermarksReached
  <2>11. seedPublic' # Unread => seedPublic' = 0 \/ \E n \in Public' : SeqNo(n)' = seedPublic'
    BY <2>2, <2>5 DEF WatermarksReached
  <2> QED
    BY <2>7, <2>8, <2>9, <2>10, <2>11 DEF WatermarksReached, IsSeqOf
<1>2. CASE ~\E kind \in Kind, now \in Clock : Publish(kind, now)
  <2>1. issued' = issued
    BY <1>2 DEF LogNext, logVars, TouchWatermark, SeedReadAll, SeedReadPublic, SeedApplies, SeedFails,
                WriteSettles, Purge, Restart
  <2>2. /\ Frames' = Frames /\ Public' = Public /\ \A n : SeqNo(n)' = SeqNo(n)
    BY <2>1 DEF Frames, Public, IsPublic, SeqNo
  <2>3. \A m : /\ IsSeqOf(m, Frames) => m = 0 \/ \E n \in Frames' : SeqNo(n)' = m
               /\ IsSeqOf(m, Public) => m = 0 \/ \E n \in Public' : SeqNo(n)' = m
    BY <2>2 DEF IsSeqOf
  <2>4. /\ IsSeqOf(lastSeq', Frames) /\ IsSeqOf(lastPublic', Public)
        /\ seedAll' # Unread => IsSeqOf(seedAll', Frames)
        /\ seedPublic' # Unread => IsSeqOf(seedPublic', Public)
    <3>1. CASE SeedReadAll
      <4>1. /\ seedAll' \in Answers /\ IsMaxSeq(seedAll', rows) /\ UNCHANGED <<lastSeq, lastPublic, seedPublic>>
        BY <3>1 DEF SeedReadAll
      <4>2. rows \subseteq Frames
        BY DEF LogTypeOK
      <4>3. IsSeqOf(seedAll', Frames)
        BY <4>1, <4>2 DEF IsMaxSeq, IsSeqOf
      <4> QED
        BY <4>1, <4>3 DEF WatermarksReached
    <3>2. CASE SeedReadPublic
      <4>1. /\ IsMaxSeq(seedPublic', {n \in rows : IsPublic(n)}) /\ UNCHANGED <<lastSeq, lastPublic, seedAll>>
        BY <3>2 DEF SeedReadPublic
      <4>2. {n \in rows : IsPublic(n)} \subseteq Public
        BY DEF LogTypeOK, Public
      <4>3. IsSeqOf(seedPublic', Public)
        BY <4>1, <4>2 DEF IsMaxSeq, IsSeqOf
      <4> QED
        BY <4>1, <4>3 DEF WatermarksReached
    <3>3. CASE SeedApplies
      <4>1. /\ seedAll # Unread /\ seedPublic # Unread /\ seedAll' = Unread /\ seedPublic' = Unread
            /\ lastSeq' = seedAll \/ lastSeq' = lastSeq
            /\ lastPublic' = seedPublic \/ lastPublic' = lastPublic
        BY <3>3 DEF SeedApplies, Larger
      <4> QED
        BY <4>1 DEF WatermarksReached
    <3>4. CASE Restart
      <4>1. lastSeq' = 0 /\ lastPublic' = 0 /\ seedAll' = Unread /\ seedPublic' = Unread
        BY <3>4 DEF Restart
      <4> QED
        BY <4>1 DEF IsSeqOf
    <3>5. CASE UNCHANGED logVars \/ TouchWatermark \/ WriteSettles \/ Purge
      <4>1. UNCHANGED <<lastSeq, lastPublic, seedAll, seedPublic>>
        BY <3>5 DEF logVars, TouchWatermark, WriteSettles, Purge
      <4> QED
        BY <4>1 DEF WatermarksReached
    <3>6. CASE SeedFails
      <4>1. UNCHANGED <<lastSeq, lastPublic>> /\ seedAll' = Unread /\ seedPublic' = Unread
        BY <3>6 DEF SeedFails
      <4> QED
        BY <4>1 DEF WatermarksReached
    <3>7. \/ UNCHANGED logVars \/ TouchWatermark \/ SeedReadAll \/ SeedReadPublic \/ SeedApplies
          \/ SeedFails \/ WriteSettles \/ Purge \/ Restart
      BY <1>2 DEF LogNext
    <3> QED
      BY <3>1, <3>2, <3>3, <3>4, <3>5, <3>6, <3>7
  <2>5. \A n \in Frames' : SeqNo(n)' > 0
    BY <2>2
  <2>6. WatermarksReached'
    BY <2>3, <2>4 DEF WatermarksReached, IsSeqOf
  <2> QED
    BY <2>5, <2>6
<1> QED
  BY <1>1, <1>2

-----------------------------------------------------------------------------
(* Sequences of numbers: what appending one and concatenating two hold.    *)
LEMMA Appended ==
  ASSUME NEW s \in Seq(Nat), NEW x \in Nat
  PROVE  /\ Append(s, x) \in Seq(Nat) /\ Len(s) \in Nat
         /\ DOMAIN Append(s, x) = DOMAIN s \cup {Len(s) + 1}
         /\ \A i \in DOMAIN s : i \in Nat /\ i <= Len(s) /\ Append(s, x)[i] = s[i]
         /\ Append(s, x)[Len(s) + 1] = x
         /\ ToSet(Append(s, x)) = ToSet(s) \cup {x}
<1>1. /\ Append(s, x) \in Seq(Nat) /\ Len(s) \in Nat
      /\ DOMAIN Append(s, x) = DOMAIN s \cup {Len(s) + 1}
      /\ \A i \in DOMAIN s : i \in Nat /\ i <= Len(s) /\ Append(s, x)[i] = s[i]
      /\ Append(s, x)[Len(s) + 1] = x
  OBVIOUS
<1>2. PICK t : t = Append(s, x)
  OBVIOUS
<1>3. ToSet(t) = ToSet(s) \cup {x}
  BY <1>1, <1>2 DEF ToSet
<1> QED
  BY <1>1, <1>2, <1>3

LEMMA Joined ==
  ASSUME NEW s \in Seq(Nat), NEW d \in Seq(Nat)
  PROVE  /\ s \o d \in Seq(Nat) /\ Len(s) \in Nat /\ Len(d) \in Nat
         /\ \A i \in DOMAIN s : i \in Nat /\ i <= Len(s) /\ i \in DOMAIN (s \o d) /\ (s \o d)[i] = s[i]
         /\ \A i \in DOMAIN (s \o d) :
              i \in Nat /\ (i \in DOMAIN s \/ (i > Len(s) /\ i - Len(s) \in DOMAIN d /\ (s \o d)[i] = d[i - Len(s)]))
         /\ ToSet(s \o d) = ToSet(s) \cup ToSet(d)
<1>1. /\ s \o d \in Seq(Nat) /\ Len(s) \in Nat /\ Len(d) \in Nat
      /\ Len(s \o d) = Len(s) + Len(d)
      /\ \A i \in DOMAIN s : i \in Nat /\ i <= Len(s) /\ i \in DOMAIN (s \o d) /\ (s \o d)[i] = s[i]
      /\ \A i \in DOMAIN (s \o d) :
           i \in Nat /\ (i \in DOMAIN s \/ (i > Len(s) /\ i - Len(s) \in DOMAIN d /\ (s \o d)[i] = d[i - Len(s)]))
      /\ \A i \in DOMAIN d : Len(s) + i \in DOMAIN (s \o d) /\ (s \o d)[Len(s) + i] = d[i]
  OBVIOUS
<1>2. PICK t : t = s \o d
  OBVIOUS
<1>3. ToSet(t) = ToSet(s) \cup ToSet(d)
  <2>1. ToSet(t) \subseteq ToSet(s) \cup ToSet(d)
    BY <1>1, <1>2 DEF ToSet
  <2>2. ToSet(s) \subseteq ToSet(t)
    BY <1>1, <1>2 DEF ToSet
  <2>3. ToSet(d) \subseteq ToSet(t)
    <3>1. \A i \in DOMAIN d : \E j \in DOMAIN t : t[j] = d[i]
      <4>1. \A i \in DOMAIN d : Len(s) + i \in DOMAIN t /\ t[Len(s) + i] = d[i]
        BY <1>1, <1>2
      <4> QED
        BY <4>1
    <3> QED
      BY <3>1 DEF ToSet
  <2> QED
    BY <2>1, <2>2, <2>3
<1> QED
  BY <1>1, <1>2, <1>3

-----------------------------------------------------------------------------
Kept == rows \cup ToSet(chain)

(* A stream that does not move, while no frame comes: rows and writes only *)
(* go.                                                                     *)
Still(c) ==
  /\ member'[c] = member[c] /\ stage'[c] = stage[c] /\ resumed'[c] = resumed[c]
  /\ floor'[c] = floor[c] /\ joined'[c] = joined[c] /\ buffer'[c] = buffer[c]
  /\ replayed'[c] = replayed[c] /\ durable'[c] = durable[c] /\ truncated'[c] = truncated[c]
  /\ snapshot'[c] = snapshot[c] /\ out'[c] = out[c]

LEMMA StreamStill ==
  ASSUME NEW c \in Client, StreamInv(c), Still(c), issued' = issued, Kept' \subseteq Kept
  PROVE  StreamInv(c)'
<1>1. /\ Frames' = Frames
      /\ \A n : SeqNo(n)' = SeqNo(n)
  BY DEF Frames, SeqNo
<1>2. {n \in Frames : Forwardable(c, n)}' = {n \in Frames : Forwardable(c, n)}
  BY <1>1 DEF Forwardable, IsPublic, Still
<1>3. \A n : n \notin Kept => n \notin Kept'
  OBVIOUS
<1> DEFINE mine == {n \in Frames : Forwardable(c, n)}
<1>4. mine' = mine
  BY <1>2
<1>5. FloorHeld(c)'
  BY <1>1 DEF StreamInv, FloorHeld, Still
<1>6. BufferHeld(c)'
  BY <1>1 DEF StreamInv, BufferHeld, Still, Forwardable, IsPublic
<1>7. OutHeld(c)'
  BY <1>1 DEF StreamInv, OutHeld, Still, Forwardable, IsPublic, Sent
<1>8. PageHeld(c)'
  BY <1>1 DEF StreamInv, PageHeld, Still
<1>9. LostHeld(c)'
  BY <1>1 DEF StreamInv, LostHeld, Still, Kept
<1>10. SnapshotHeld(c)'
  BY <1>1 DEF StreamInv, SnapshotHeld, Still
<1>11. DroppedNothing(c)'
  BY <1>1 DEF StreamInv, DroppedNothing, Missing, Sent, Still, Forwardable, IsPublic
<1>12. RegressedForLost(c)'
  BY <1>1 DEF StreamInv, RegressedForLost, Still, Kept
<1> QED
  BY <1>5, <1>6, <1>7, <1>8, <1>9, <1>10, <1>11, <1>12 DEF StreamInv, Still

(* Steps of the log but publishing.                                        *)
LEMMA LogQuiet ==
  ASSUME LogTypeOK,
         TouchWatermark \/ SeedReadAll \/ SeedReadPublic \/ SeedApplies \/ SeedFails
           \/ WriteSettles \/ Purge \/ Restart
  PROVE  issued' = issued /\ Kept' \subseteq Kept
<1>1. issued' = issued
  BY DEF TouchWatermark, SeedReadAll, SeedReadPublic, SeedApplies, SeedFails, WriteSettles, Purge, Restart
<1>2. CASE TouchWatermark \/ SeedReadAll \/ SeedReadPublic \/ SeedApplies \/ SeedFails
  <2>1. UNCHANGED <<rows, chain>>
    BY <1>2 DEF TouchWatermark, SeedReadAll, SeedReadPublic, SeedApplies, SeedFails
  <2> QED
    BY <1>1, <2>1 DEF Kept
<1>3. CASE WriteSettles
  <2>1. /\ chain # <<>> /\ chain' = Tail(chain) /\ chain \in Seq(Frames)
        /\ rows' = rows \/ rows' = rows \cup {Head(chain)}
    BY <1>3 DEF WriteSettles, LogTypeOK
  <2>2. /\ DOMAIN chain = 1 .. Len(chain) /\ 1 \in DOMAIN chain /\ Head(chain) = chain[1]
        /\ \A i \in DOMAIN chain' : i + 1 \in DOMAIN chain /\ chain'[i] = chain[i + 1]
    BY <2>1
  <2>3. Head(chain) \in ToSet(chain) /\ ToSet(chain)' \subseteq ToSet(chain)
    BY <2>2 DEF ToSet
  <2> QED
    BY <1>1, <2>1, <2>3 DEF Kept
<1>4. CASE Purge
  <2>1. rows' \subseteq rows /\ chain' = chain
    BY <1>4 DEF Purge
  <2> QED
    BY <1>1, <2>1 DEF Kept
<1>5. CASE Restart
  <2>1. DOMAIN chain' = {} /\ rows' = rows
    BY <1>5 DEF Restart
  <2> QED
    BY <1>1, <2>1 DEF Kept, ToSet
<1> QED
  BY <1>1, <1>2, <1>3, <1>4, <1>5

-----------------------------------------------------------------------------
LEMMA SeqRange ==
  ASSUME NEW S, NEW T, NEW s \in Seq(S), \A i \in DOMAIN s : s[i] \in T
  PROVE  s \in Seq(T)
OBVIOUS

(* What FeedInv says of the numbers a stream holds.                        *)
LEMMA StreamNumbers ==
  ASSUME LogInv, ClockAhead, NEW c \in Client, StreamInv(c)
  PROVE  /\ out[c] \in Seq(Nat) /\ buffer[c] \in Seq(Nat)
         /\ ToSet(out[c]) \subseteq Frames \cup {State} /\ ToSet(buffer[c]) \subseteq Frames
         /\ \A i \in DOMAIN out[c] : out[c][i] \in Frames \cup {State} /\ out[c][i] \in ToSet(out[c])
         /\ \A i \in DOMAIN buffer[c] : buffer[c][i] \in Frames /\ buffer[c][i] \in ToSet(buffer[c])
         /\ State \in Nat /\ State \notin Frames /\ Frames \subseteq Nat
         /\ rows \subseteq Frames /\ ToSet(chain) \subseteq Frames
<1>1. State \in Nat /\ State \notin Frames /\ Frames \subseteq Nat
  BY SeqsRise DEF State, Frames
<1>2. out[c] \in Seq(Frames \cup {State}) /\ buffer[c] \in Seq(Frames)
  BY DEF StreamInv, OutHeld, BufferHeld
<1>3. rows \subseteq Frames /\ ToSet(chain) \subseteq Frames
  BY DEF LogInv, LogTypeOK, ToSet
<1>4. /\ out[c] \in Seq(Nat) /\ buffer[c] \in Seq(Nat)
      /\ \A i \in DOMAIN out[c] : out[c][i] \in Frames \cup {State}
      /\ \A i \in DOMAIN buffer[c] : buffer[c][i] \in Frames
  <2>1. /\ \A i \in DOMAIN out[c] : out[c][i] \in Frames \cup {State}
        /\ \A i \in DOMAIN buffer[c] : buffer[c][i] \in Frames
    BY <1>2
  <2>2. /\ \A i \in DOMAIN out[c] : out[c][i] \in Nat
        /\ \A i \in DOMAIN buffer[c] : buffer[c][i] \in Nat
    BY <1>1, <2>1
  <2> QED
    BY <1>2, <2>1, <2>2, SeqRange
<1>5. /\ ToSet(out[c]) = {out[c][i] : i \in DOMAIN out[c]}
      /\ ToSet(buffer[c]) = {buffer[c][i] : i \in DOMAIN buffer[c]}
  BY DEF ToSet
<1> QED
  BY <1>1, <1>3, <1>4, <1>5

(* A frame is published: it is above all there are.                        *)
LEMMA StreamPublish ==
  ASSUME LogInv, LogInv', ClockAhead, StreamTypes,
         NEW kind \in Kind, NEW now \in Clock, FeedPublish(kind, now),
         NEW c \in Client, StreamInv(c)
  PROVE  StreamInv(c)'
<1> PICK new \in Nat : new = Len(issued) + 1
  BY DEF LogInv, LogTypeOK
<1> DEFINE takes == member[c] \/ kind = "public"
           mine == {n \in Frames : Forwardable(c, n)}
<1>0. LogTypeOK /\ Publish(kind, now)
  BY DEF LogInv, FeedPublish
<1>1. /\ Frames' = Frames \cup {new} /\ new \notin Frames
      /\ \A n \in Frames : n < new /\ SeqNo(n)' = SeqNo(n) /\ issued'[n].kind = issued[n].kind
      /\ SeqNo(new)' > 0 /\ issued'[new].kind = kind
      /\ rows' = rows /\ ToSet(chain)' = ToSet(chain) \cup {new}
  <2>2. /\ Frames' = Frames \cup {new} /\ new \notin Frames
        /\ \A n \in Frames : n < new /\ SeqNo(n)' = SeqNo(n) /\ issued'[n].kind = issued[n].kind
        /\ issued'[new].seq = NextSeq(now) /\ NextSeq(now) > 0 /\ issued'[new].kind = kind
        /\ rows' = rows /\ ToSet(chain)' = ToSet(chain) \cup {new}
    BY <1>0, SeqsAfterPublish
  <2> QED
    BY <2>2 DEF SeqNo
<1>2. Len(issued') = new /\ Len(issued) \in Nat
  <2>1. Len(issued') = new
    BY <1>0, FramesAfterPublish
  <2> QED
    BY <1>0, <2>1 DEF LogTypeOK
<1>3. /\ \A n \in Frames' : SeqNo(n)' \in Nat /\ n \in Nat
      /\ \A m, n \in Frames' : SeqNo(m)' < SeqNo(n)' <=> m < n
  <2>1. /\ \A n \in Frames' : issued'[n].seq \in Nat /\ n \in Nat
        /\ \A m, n \in Frames' : m < n => issued'[m].seq < issued'[n].seq
    <3>1. LogTypeOK' /\ NeverReissued'
      BY DEF LogInv
    <3>2. \A n \in Frames' : issued'[n] \in Frame /\ n \in Nat
      BY <3>1 DEF LogTypeOK, Frames
    <3>3. \A n \in Frames' : issued'[n].seq \in Nat /\ n \in Nat
      BY <3>2 DEF Frame
    <3> QED
      BY <3>1, <3>3 DEF NeverReissued, SeqNo
  <2>2. \A m, n \in Frames' : m < n \/ m = n \/ n < m
    BY <2>1
  <2> QED
    BY <2>1, <2>2 DEF SeqNo
<1>4. /\ member'[c] = member[c] /\ stage'[c] = stage[c] /\ resumed'[c] = resumed[c]
      /\ floor'[c] = floor[c] /\ joined'[c] = joined[c]
      /\ replayed'[c] = replayed[c] /\ durable'[c] = durable[c] /\ truncated'[c] = truncated[c]
      /\ snapshot'[c] = snapshot[c]
  BY DEF FeedPublish
<1>5. mine' = mine \cup (IF takes THEN {new} ELSE {}) /\ mine \subseteq Frames
  BY <1>1, <1>4 DEF Forwardable, IsPublic
<1>6. \A n \in Frames : SeqNo(n) < SeqNo(new)' /\ SeqNo(n) \in Nat
  BY <1>1, <1>3
<1>n. /\ out[c] \in Seq(Nat) /\ buffer[c] \in Seq(Nat)
      /\ ToSet(out[c]) \subseteq Frames \cup {State} /\ ToSet(buffer[c]) \subseteq Frames
      /\ \A i \in DOMAIN out[c] : out[c][i] \in Frames \cup {State} /\ out[c][i] \in ToSet(out[c])
      /\ \A i \in DOMAIN buffer[c] : buffer[c][i] \in Frames /\ buffer[c][i] \in ToSet(buffer[c])
      /\ State \in Nat /\ State \notin Frames
  BY StreamNumbers
<1>7. FloorHeld(c)'
  <2>1. SeqNo(new)' > floor[c]
    BY <1>1, <1>3, <1>6 DEF StreamInv, FloorHeld
  <2> QED
    BY <1>1, <1>2, <1>4, <2>1 DEF StreamInv, FloorHeld
<1>8. /\ out'[c] = IF stage[c] = "live" /\ takes THEN Append(out[c], new) ELSE out[c]
      /\ buffer'[c] = IF stage[c] \in Waiting /\ takes THEN Append(buffer[c], new) ELSE buffer[c]
  BY DEF FeedPublish, Waiting
<1>9. BufferHeld(c)'
  <2>1. CASE stage[c] \in Waiting /\ takes
    <3> PICK t : t = Append(buffer[c], new)
      OBVIOUS
    <3>1. /\ t \in Seq(Nat) /\ DOMAIN t = DOMAIN buffer[c] \cup {Len(buffer[c]) + 1}
          /\ \A i \in DOMAIN buffer[c] : i \in Nat /\ i <= Len(buffer[c]) /\ t[i] = buffer[c][i]
          /\ t[Len(buffer[c]) + 1] = new /\ ToSet(t) = ToSet(buffer[c]) \cup {new}
          /\ Len(buffer[c]) \in Nat
      BY <1>n, Appended
    <3>2. buffer'[c] = t
      BY <1>8, <2>1
    <3>3. t \in Seq(Frames')
      <4>1. \A i \in DOMAIN t : t[i] \in Frames'
        BY <1>1, <1>n, <3>1
      <4> QED
        BY <3>1, <4>1, SeqRange
    <3>4. ASSUME NEW i \in DOMAIN t, NEW j \in DOMAIN t, i < j PROVE t[i] < t[j]
      <4>1. i \in DOMAIN buffer[c]
        BY <3>1, <3>4
      <4>2. CASE j \in DOMAIN buffer[c]
        BY <3>1, <3>4, <4>1, <4>2 DEF StreamInv, BufferHeld
      <4>3. CASE j = Len(buffer[c]) + 1
        BY <1>1, <1>n, <3>1, <4>1, <4>3
      <4> QED
        BY <3>1, <4>2, <4>3
    <3>5. ToSet(buffer[c]) = {n \in mine : n > joined[c]}
      BY <2>1 DEF StreamInv, BufferHeld
    <3>6. new > joined[c]
      BY <1>2 DEF StreamInv, FloorHeld
    <3>7. ToSet(t) = {n \in mine' : n > joined[c]}
      BY <1>5, <2>1, <3>1, <3>5, <3>6
    <3>8. ToSet(t) = {n \in Frames : n > joined[c] /\ Forwardable(c, n)}'
      BY <1>4, <3>7
    <3> QED
      BY <1>4, <2>1, <3>2, <3>3, <3>4, <3>8 DEF BufferHeld
  <2>2. CASE ~(stage[c] \in Waiting /\ takes)
    <3>1. buffer'[c] = buffer[c]
      BY <1>8, <2>2
    <3>2. stage[c] \in Waiting => {n \in mine : n > joined[c]} = {n \in mine' : n > joined[c]}
      BY <1>5, <2>2
    <3>3. stage[c] \in Waiting => ToSet(buffer[c]) = {n \in mine : n > joined[c]}
      BY DEF StreamInv, BufferHeld
    <3>4. stage[c] \in Waiting => ToSet(buffer[c]) = {n \in Frames : n > joined[c] /\ Forwardable(c, n)}'
      BY <1>4, <3>2, <3>3
    <3>5. buffer[c] \in Seq(Frames')
      <4>1. \A i \in DOMAIN buffer[c] : buffer[c][i] \in Frames'
        BY <1>1, <1>n
      <4> QED
        BY <1>n, <4>1, SeqRange
    <3> QED
      BY <1>4, <3>1, <3>4, <3>5 DEF StreamInv, BufferHeld
  <2> QED
    BY <2>1, <2>2
<1>10. /\ \A n \in Sent(c) : n \in mine /\ SeqNo(n) > floor[c]
       /\ \A i, j \in DOMAIN out[c] : i # j => out[c][i] # out[c][j]
  BY <1>n DEF StreamInv, OutHeld, Sent
<1>11. CASE stage[c] = "live" /\ takes
  <2> PICK t : t = Append(out[c], new)
    OBVIOUS
  <2>1. /\ t \in Seq(Nat) /\ DOMAIN t = DOMAIN out[c] \cup {Len(out[c]) + 1}
        /\ \A i \in DOMAIN out[c] : i \in Nat /\ i <= Len(out[c]) /\ t[i] = out[c][i]
        /\ t[Len(out[c]) + 1] = new /\ ToSet(t) = ToSet(out[c]) \cup {new}
        /\ Len(out[c]) \in Nat
    <3>1. out[c] \in Seq(Nat)
      BY <1>n
    <3> QED
      BY <3>1, Appended
  <2>2. out'[c] = t
    BY <1>8, <1>11
  <2>3. Sent(c)' = Sent(c) \cup {new} /\ new # State
    BY <1>1, <1>3, <2>1, <2>2 DEF Sent, State, Frames
  <2>4. OutHeld(c)'
    <3>1. t \in Seq(Frames' \cup {State})
      <4>1. \A i \in DOMAIN t : t[i] \in Frames' \cup {State}
        BY <1>1, <1>n, <2>1
      <4> QED
        BY <2>1, <4>1, SeqRange
    <3>2. \A i, j \in DOMAIN t : i # j => t[i] # t[j]
      BY <1>1, <1>n, <1>10, <2>1, <2>3
    <3>3. \A n \in Sent(c)' : n \in mine' /\ SeqNo(n)' > floor'[c]
      <4>1. SeqNo(new)' > floor[c]
        BY <1>1, <1>3, <1>6 DEF StreamInv, FloorHeld
      <4>2. \A n \in Sent(c) : SeqNo(n)' > floor[c]
        BY <1>1, <1>5, <1>10
      <4> QED
        BY <1>4, <1>5, <1>10, <1>11, <2>3, <4>1, <4>2
    <3>4. State' = State
      BY DEF State
    <3> QED
      BY <2>2, <3>1, <3>2, <3>3, <3>4 DEF OutHeld
  <2>5. PageHeld(c)'
    BY <1>4, <1>11, <2>1, <2>2 DEF StreamInv, PageHeld
  <2>6. LostHeld(c)'
    BY <1>4, <1>11 DEF LostHeld
  <2>7. SnapshotHeld(c)'
    <3>1. ASSUME NEW i \in DOMAIN t, t[i] = State, NEW j \in 1 .. (i - 1) PROVE t[j] <= snapshot[c]
      <4>1. i \in DOMAIN out[c]
        BY <2>1, <2>3, <3>1
      <4>2. j \in DOMAIN out[c] /\ out[c][i] = State
        BY <1>n, <2>1, <3>1, <4>1
      <4> QED
        BY <2>1, <4>1, <4>2 DEF StreamInv, SnapshotHeld
    <3> QED
      BY <1>4, <1>11, <2>2, <3>1 DEF SnapshotHeld, State
  <2>8. DroppedNothing(c)'
    <3>1. Missing(c) = {n \in mine : SeqNo(n) > floor[c]} \ Sent(c)
      BY DEF Missing
    <3>2. Missing(c)' = {n \in mine' : SeqNo(n)' > floor'[c]} \ Sent(c)'
      BY DEF Missing
    <3>3. Missing(c)' \subseteq Missing(c)
      BY <1>1, <1>4, <1>5, <2>3, <3>1, <3>2
    <3> QED
      BY <1>4, <1>11, <3>3 DEF StreamInv, DroppedNothing
  <2>9. RegressedForLost(c)'
    <3>1. ASSUME NEW i \in DOMAIN t, NEW j \in DOMAIN t, i < j, t[i] # State, t[j] # State,
                 SeqNo(t[i])' > SeqNo(t[j])'
          PROVE  t[j] \notin rows' \cup ToSet(chain)'
      <4>1. i \in DOMAIN out[c] /\ t[i] \in Frames
        BY <1>n, <2>1, <3>1
      <4>2. j \in DOMAIN out[c] /\ t[j] \in Frames
        <5>1. CASE j = Len(out[c]) + 1
          <6>1. SeqNo(t[i])' < SeqNo(new)' /\ t[j] = new
            BY <1>1, <1>6, <2>1, <4>1, <5>1
          <6>2. SeqNo(t[i])' \in Nat /\ SeqNo(new)' \in Nat
            BY <1>1, <1>3, <4>1
          <6> QED
            BY <3>1, <6>1, <6>2
        <5>2. CASE j \in DOMAIN out[c]
          BY <1>n, <2>1, <3>1, <5>2
        <5> QED
          BY <2>1, <5>1, <5>2
      <4>3. SeqNo(out[c][i]) > SeqNo(out[c][j]) /\ out[c][i] # State /\ out[c][j] # State
        BY <1>1, <2>1, <3>1, <4>1, <4>2
      <4>4. out[c][j] \notin rows \cup ToSet(chain)
        BY <3>1, <4>1, <4>2, <4>3 DEF StreamInv, RegressedForLost
      <4> QED
        BY <1>1, <2>1, <4>2, <4>4
    <3> QED
      BY <2>2, <3>1 DEF RegressedForLost, State
  <2> QED
    BY <1>4, <1>7, <1>9, <2>4, <2>5, <2>6, <2>7, <2>8, <2>9 DEF StreamInv
<1>12. CASE ~(stage[c] = "live" /\ takes)
  <2>2. out'[c] = out[c] /\ Sent(c)' = Sent(c)
    BY <1>8, <1>12 DEF Sent, State
  <2>4. OutHeld(c)'
    <3>1. out[c] \in Seq(Frames' \cup {State})
      BY <1>1, <1>n
    <3>2. \A n \in Sent(c)' : n \in mine' /\ SeqNo(n)' > floor'[c]
      BY <1>1, <1>4, <1>5, <1>10, <2>2
    <3> QED
      BY <1>10, <2>2, <3>1, <3>2 DEF OutHeld, State
  <2>5. PageHeld(c)'
    <3>1. stage[c] \in {"replayed", "read"} => {SeqNo(n) : n \in ToSet(out[c])}' = {SeqNo(n) : n \in ToSet(out[c])}
      <4>1. stage[c] \in {"replayed", "read"} => ToSet(out[c]) \subseteq Frames
        BY <1>n DEF StreamInv, PageHeld
      <4> QED
        BY <1>1, <2>2, <4>1
    <3>2. stage[c] \in {"replayed", "read"} =>
            \A i, j \in DOMAIN out[c] : i < j => SeqNo(out[c][i])' < SeqNo(out[c][j])'
      <4>1. stage[c] \in {"replayed", "read"} => \A i \in DOMAIN out[c] : out[c][i] \in Frames
        BY <1>n DEF StreamInv, PageHeld
      <4> QED
        BY <1>1, <2>2, <4>1 DEF StreamInv, PageHeld
    <3> QED
      BY <1>4, <2>2, <3>1, <3>2 DEF StreamInv, PageHeld, State
  <2>6. LostHeld(c)'
    <3> SUFFICES ASSUME stage[c] \in {"replayed", "read"},
                        NEW i \in DOMAIN out[c], NEW b \in ToSet(buffer[c])',
                        SeqNo(out[c][i])' > SeqNo(b)', SeqNo(b)' \notin replayed[c]
                 PROVE  b \notin rows' \cup ToSet(chain)'
      BY <1>4, <2>2 DEF LostHeld
    <3>1. out[c][i] \in Frames
      BY <1>n DEF StreamInv, PageHeld
    <3>2. b # new
      BY <1>1, <1>3, <1>6, <2>2, <3>1
    <3>3. ToSet(buffer[c])' \subseteq ToSet(buffer[c]) \cup {new}
      <4>1. CASE buffer'[c] = buffer[c]
        BY <4>1 DEF ToSet
      <4>2. CASE buffer'[c] = Append(buffer[c], new)
        <5> PICK t : t = Append(buffer[c], new)
          OBVIOUS
        <5>1. ToSet(t) = ToSet(buffer[c]) \cup {new}
          BY <1>n, Appended
        <5>2. ToSet(t) = ToSet(buffer[c])'
          BY <4>2
        <5> QED
          BY <5>1, <5>2
      <4> QED
        BY <1>8, <4>1, <4>2
    <3>4. b \in ToSet(buffer[c]) /\ b \in Frames
      BY <1>n, <3>2, <3>3
    <3>5. SeqNo(out[c][i]) > SeqNo(b) /\ SeqNo(b) \notin replayed[c]
      BY <1>1, <2>2, <3>1, <3>4
    <3>6. b \notin rows \cup ToSet(chain)
      BY <3>4, <3>5 DEF StreamInv, LostHeld
    <3> QED
      BY <1>1, <3>2, <3>6
  <2>7. SnapshotHeld(c)'
    BY <1>4, <2>2 DEF StreamInv, SnapshotHeld, State
  <2>8. DroppedNothing(c)'
    <3>1. Missing(c) = {n \in mine : SeqNo(n) > floor[c]} \ Sent(c)
      BY DEF Missing
    <3>2. Missing(c)' = {n \in mine' : SeqNo(n)' > floor'[c]} \ Sent(c)'
      BY DEF Missing
    <3>3. stage[c] = "live" => Missing(c)' = Missing(c)
      <4>1. stage[c] = "live" => mine' = mine
        BY <1>5, <1>12
      <4> QED
        BY <1>1, <1>4, <1>5, <2>2, <3>1, <3>2, <4>1
    <3> QED
      BY <1>4, <3>3 DEF StreamInv, DroppedNothing
  <2>9. RegressedForLost(c)'
    <3> SUFFICES ASSUME NEW i \in DOMAIN out[c], NEW j \in DOMAIN out[c], i < j,
                        out[c][i] # State, out[c][j] # State,
                        SeqNo(out[c][i])' > SeqNo(out[c][j])'
                 PROVE  out[c][j] \notin rows' \cup ToSet(chain)'
      BY <2>2 DEF RegressedForLost, State
    <3>1. out[c][i] \in Frames /\ out[c][j] \in Frames
      BY <1>n
    <3>2. SeqNo(out[c][i]) > SeqNo(out[c][j])
      <4>1. \A m, n \in Frames : SeqNo(m)' > SeqNo(n)' => SeqNo(m) > SeqNo(n)
        BY <1>1
      <4>2. PICK m \in Frames : m = out[c][i]
        BY <3>1
      <4>3. PICK n \in Frames : n = out[c][j]
        BY <3>1
      <4>4. SeqNo(m)' > SeqNo(n)'
        BY <1>1, <2>2, <4>2, <4>3 DEF SeqNo
      <4> QED
        BY <4>1, <4>2, <4>3, <4>4
    <3>3. out[c][j] \notin rows \cup ToSet(chain)
      BY <3>2 DEF StreamInv, RegressedForLost
    <3> QED
      BY <1>1, <3>1, <3>3
  <2> QED
    BY <1>4, <1>7, <1>9, <2>4, <2>5, <2>6, <2>7, <2>8, <2>9 DEF StreamInv
<1> QED
  BY <1>11, <1>12

-----------------------------------------------------------------------------
(* The log stands still.                                                   *)
LEMMA LogStill ==
  ASSUME UNCHANGED logVars
  PROVE  /\ Frames' = Frames /\ Len(issued') = Len(issued) /\ State' = State
         /\ \A n : SeqNo(n)' = SeqNo(n) /\ issued'[n] = issued[n]
         /\ rows' = rows /\ ToSet(chain)' = ToSet(chain) /\ issued' = issued
<1>1. issued' = issued /\ rows' = rows /\ chain' = chain
  BY DEF logVars
<1>2. /\ Frames' = Frames /\ Len(issued') = Len(issued) /\ State' = State
      /\ \A n : SeqNo(n)' = SeqNo(n) /\ issued'[n] = issued[n]
  BY <1>1 DEF Frames, SeqNo, State
<1>3. ToSet(chain)' = ToSet(chain)
  BY <1>1 DEF ToSet
<1> QED
  BY <1>1, <1>2, <1>3

(* The request: nothing is sent, nothing buffered.                         *)
LEMMA StreamOpen ==
  ASSUME LogInv, ClockAhead, StreamTypes, NEW c \in Client, StreamInv(c), Open(c)
  PROVE  StreamInv(c)'
<1>1. PICK id \in ResumePoints(c) : floor' = [floor EXCEPT ![c] = id]
  BY DEF Open
<1>2. /\ stage[c] = "off" /\ stage'[c] = "subscribed"
      /\ resumed'[c] \in BOOLEAN /\ floor'[c] = id /\ joined'[c] = Len(issued)
  <2>1. \E resume \in BOOLEAN : resumed' = [resumed EXCEPT ![c] = resume]
    BY DEF Open
  <2>2. /\ stage[c] = "off" /\ stage' = [stage EXCEPT ![c] = "subscribed"]
        /\ joined' = [joined EXCEPT ![c] = Len(issued)]
    BY DEF Open
  <2>3. c \in DOMAIN stage /\ c \in DOMAIN resumed /\ c \in DOMAIN floor /\ c \in DOMAIN joined
    BY DEF StreamTypes
  <2> QED
    BY <1>1, <2>1, <2>2, <2>3
<1>3. /\ UNCHANGED logVars
      /\ member'[c] = member[c] /\ buffer'[c] = buffer[c] /\ replayed'[c] = replayed[c]
      /\ durable'[c] = durable[c] /\ truncated'[c] = truncated[c]
      /\ snapshot'[c] = snapshot[c] /\ out'[c] = out[c]
  BY DEF Open
<1>4. /\ Frames' = Frames /\ Len(issued') = Len(issued) /\ State' = State
      /\ \A n : SeqNo(n)' = SeqNo(n) /\ issued'[n] = issued[n]
  BY <1>3, LogStill
<1>5. out[c] = <<>> /\ durable[c] = {} /\ replayed[c] = {} /\ ToSet(buffer[c]) = {}
  BY <1>2 DEF StreamInv, PageHeld, BufferHeld, Waiting
<1>6. DOMAIN out'[c] = {} /\ ToSet(out[c])' = {}
  BY <1>3, <1>5 DEF ToSet
<1>7. /\ Len(issued) \in Nat /\ Frames \subseteq Nat
      /\ \A n \in Frames : n <= Len(issued) /\ SeqNo(n) \in Nat
  BY SeqsNat DEF LogInv, LogTypeOK, Frames
<1>8. FloorHeld(c)'
  <2>1. id = 0 \/ \E n \in Frames : id = SeqNo(n)
    BY DEF ResumePoints
  <2>2. id \in Nat /\ floor'[c] = id
    BY <1>2, <1>7, <2>1
  <2>3. floor'[c] = 0 \/ \E n \in Frames' : floor'[c] = SeqNo(n)'
    BY <1>4, <2>1, <2>2
  <2>4. \A n \in Frames' : ~(n > joined'[c])
    BY <1>2, <1>4, <1>7
  <2>5. joined'[c] \in 0 .. Len(issued')
    BY <1>2, <1>4, <1>7
  <2> QED
    BY <2>2, <2>3, <2>4, <2>5 DEF FloorHeld
<1>9. BufferHeld(c)'
  <2>1. ToSet(buffer[c])' = {}
    BY <1>3, <1>5 DEF ToSet
  <2>2. {n \in Frames : n > joined[c] /\ Forwardable(c, n)}' = {}
    <3>1. \A n \in Frames' : ~(n > joined'[c])
      BY <1>2, <1>4, <1>7
    <3> QED
      BY <3>1
  <2> QED
    BY <1>3, <1>4, <2>1, <2>2 DEF StreamInv, BufferHeld
<1>10. OutHeld(c)'
  BY <1>3, <1>4, <1>5, <1>6 DEF OutHeld, Sent
<1>11. PageHeld(c)'
  BY <1>2, <1>3, <1>5 DEF PageHeld
<1>12. LostHeld(c)'
  BY <1>2 DEF LostHeld
<1>13. SnapshotHeld(c)'
  BY <1>2, <1>6 DEF SnapshotHeld
<1>14. DroppedNothing(c)'
  BY <1>2 DEF DroppedNothing
<1>15. RegressedForLost(c)'
  BY <1>6 DEF RegressedForLost
<1> QED
  BY <1>2, <1>3, <1>8, <1>9, <1>10, <1>11, <1>12, <1>13, <1>14, <1>15 DEF StreamInv, Stage

(* The status is read: it knows every frame there is.                      *)
LEMMA StreamReadStatus ==
  ASSUME LogInv, ClockAhead, StreamTypes, NEW c \in Client, StreamInv(c), ReadStatus(c)
  PROVE  StreamInv(c)'
<1>1. /\ stage[c] = "replayed" /\ stage'[c] = "read" /\ snapshot'[c] = Len(issued)
  BY DEF ReadStatus, StreamTypes
<1>2. /\ UNCHANGED logVars
      /\ member'[c] = member[c] /\ buffer'[c] = buffer[c] /\ replayed'[c] = replayed[c]
      /\ durable'[c] = durable[c] /\ truncated'[c] = truncated[c]
      /\ resumed'[c] = resumed[c] /\ floor'[c] = floor[c] /\ joined'[c] = joined[c]
      /\ out'[c] = out[c]
  BY DEF ReadStatus
<1>3. /\ Frames' = Frames /\ Len(issued') = Len(issued) /\ State' = State
      /\ \A n : SeqNo(n)' = SeqNo(n) /\ issued'[n] = issued[n]
      /\ rows' = rows /\ ToSet(chain)' = ToSet(chain)
  BY <1>2, LogStill
<1>4. ToSet(out[c])' = ToSet(out[c]) /\ ToSet(buffer[c])' = ToSet(buffer[c]) /\ Sent(c)' = Sent(c)
  BY <1>2, <1>3 DEF ToSet, Sent
<1>5. {n \in Frames : n > joined[c] /\ Forwardable(c, n)}' = {n \in Frames : n > joined[c] /\ Forwardable(c, n)}
  BY <1>2, <1>3 DEF Forwardable, IsPublic
<1>6. FloorHeld(c)'
  BY <1>2, <1>3 DEF StreamInv, FloorHeld
<1>7. BufferHeld(c)'
  BY <1>1, <1>2, <1>3, <1>4, <1>5 DEF StreamInv, BufferHeld, Waiting
<1>8. OutHeld(c)'
  BY <1>2, <1>3, <1>4 DEF StreamInv, OutHeld, Forwardable, IsPublic
<1>9. PageHeld(c)'
  BY <1>1, <1>2, <1>3, <1>4 DEF StreamInv, PageHeld
<1>10. LostHeld(c)'
  BY <1>1, <1>2, <1>3, <1>4 DEF StreamInv, LostHeld
<1>11. SnapshotHeld(c)'
  <2>1. State \notin ToSet(out[c]) /\ ToSet(out[c]) \subseteq Frames
    BY <1>1, StreamNumbers DEF StreamInv, PageHeld
  <2>2. \A n \in Frames : n <= Len(issued)
    BY DEF LogInv, LogTypeOK, Frames
  <2>3. \A i \in DOMAIN out[c] : out[c][i] # State
    BY <2>1, StreamNumbers
  <2> QED
    BY <1>1, <1>2, <1>3, <1>4, <2>1, <2>2, <2>3 DEF SnapshotHeld
<1>12. DroppedNothing(c)'
  BY <1>1 DEF DroppedNothing
<1>13. RegressedForLost(c)'
  BY <1>2, <1>3 DEF StreamInv, RegressedForLost
<1> QED
  BY <1>1, <1>2, <1>6, <1>7, <1>8, <1>9, <1>10, <1>11, <1>12, <1>13 DEF StreamInv, Stage

(* The replay: what it leaves to the buffer below the page was lost, for   *)
(* rows are written in order.                                              *)
LEMMA StreamReplay ==
  ASSUME LogInv, ClockAhead, LogOrder, StreamTypes, NEW c \in Client, StreamInv(c), Replay(c)
  PROVE  StreamInv(c)'
<1>1. stage[c] = "subscribed" /\ stage'[c] = "replayed"
  BY DEF Replay, StreamTypes
<1>2. /\ UNCHANGED logVars
      /\ member'[c] = member[c] /\ buffer'[c] = buffer[c]
      /\ snapshot'[c] = snapshot[c] /\ resumed'[c] = resumed[c]
      /\ floor'[c] = floor[c] /\ joined'[c] = joined[c]
  BY DEF Replay
<1>3. /\ Frames' = Frames /\ Len(issued') = Len(issued) /\ State' = State
      /\ \A n : SeqNo(n)' = SeqNo(n) /\ issued'[n] = issued[n]
      /\ rows' = rows /\ ToSet(chain)' = ToSet(chain)
  BY <1>2, LogStill
<1>4. /\ \A n \in Frames : SeqNo(n) \in Nat /\ n \in Nat
      /\ \A m, n \in Frames : SeqNo(m) < SeqNo(n) <=> m < n
      /\ \A m, n \in Frames : SeqNo(m) = SeqNo(n) => m = n
      /\ State \notin Frames /\ rows \subseteq Frames
  BY SeqsRise, StreamNumbers
<1>5. PICK page \in Seq(Frames) :
        /\ out'[c] = page /\ replayed'[c] = {SeqNo(n) : n \in ToSet(page)}
        /\ \A i, j \in DOMAIN page : i < j => SeqNo(page[i]) < SeqNo(page[j])
        /\ \A i \in DOMAIN page : page[i] \in Found(c)
        /\ \A n \in durable'[c] : n \in ToSet(page) \/ truncated'[c]
        /\ truncated'[c] \in BOOLEAN
        /\ page = <<>> \/ \A n \in Found(c) \ ToSet(page) : \A m \in ToSet(page) : SeqNo(m) < SeqNo(n)
  <2>1. CASE resumed[c]
    <3>1. PICK page \in ReplaySince(c) :
            /\ out' = [out EXCEPT ![c] = page]
            /\ replayed' = [replayed EXCEPT ![c] = {SeqNo(n) : n \in ToSet(page)}]
            /\ durable' = [durable EXCEPT ![c] = Found(c)]
            /\ truncated' = [truncated EXCEPT ![c] = Found(c) \ ToSet(page) # {}]
      BY <2>1 DEF Replay
    <3>2. c \in DOMAIN out /\ c \in DOMAIN replayed /\ c \in DOMAIN durable /\ c \in DOMAIN truncated
      BY DEF StreamTypes
    <3>3. /\ out'[c] = page /\ replayed'[c] = {SeqNo(n) : n \in ToSet(page)}
          /\ durable'[c] = Found(c)
      BY <3>1, <3>2
    <3>4. truncated'[c] <=> (Found(c) \ ToSet(page) # {})
      BY <3>1, <3>2
    <3>5. PICK m \in Nat : page \in [1 .. m -> Found(c)]
      BY DEF ReplaySince, SeqOf
    <3>6. Found(c) \subseteq Frames
      BY <1>4 DEF Found
    <3>7. page \in Seq(Frames) /\ \A i \in DOMAIN page : page[i] \in Found(c)
      BY <3>5, <3>6
    <3>8. /\ \A i, j \in DOMAIN page : i < j => SeqNo(page[i]) < SeqNo(page[j])
          /\ \A n \in Found(c) \ ToSet(page) : \A k \in ToSet(page) : SeqNo(k) < SeqNo(n)
      BY DEF ReplaySince
    <3>9. \A n \in durable'[c] : n \in ToSet(page) \/ truncated'[c]
      BY <3>3, <3>4
    <3>10. truncated'[c] \in BOOLEAN
      BY <3>1, <3>2
    <3> QED
      BY <3>3, <3>7, <3>8, <3>9, <3>10
  <2>2. CASE ~resumed[c]
    <3>1. UNCHANGED <<out, replayed, durable, truncated>>
      BY <2>2 DEF Replay
    <3>2. out[c] = <<>> /\ durable[c] = {} /\ replayed[c] = {}
      BY <1>1 DEF StreamInv, PageHeld
    <3>3. ToSet(out[c]) = {}
      BY <3>2 DEF ToSet
    <3>4. out'[c] = <<>> /\ durable'[c] = {} /\ replayed'[c] = {}
      BY <3>1, <3>2
    <3>e. <<>> \in Seq(Frames)
      OBVIOUS
    <3>5. PICK none \in Seq(Frames) : none = <<>>
      BY <3>e
    <3>6. DOMAIN none = {} /\ ToSet(none) = {}
      BY <3>5 DEF ToSet
    <3>7. {SeqNo(n) : n \in ToSet(none)} = {}
      BY <3>6
    <3>8. truncated'[c] \in BOOLEAN
      BY <3>1 DEF StreamInv
    <3> QED
      BY <3>4, <3>5, <3>6, <3>7, <3>8
  <2> QED
    BY <2>1, <2>2
<1>t. truncated'[c] \in BOOLEAN
  BY <1>5
<1>6. /\ ToSet(page) \subseteq Found(c) /\ \A i \in DOMAIN page : page[i] \in ToSet(page)
      /\ ToSet(out[c])' = ToSet(page) /\ ToSet(buffer[c])' = ToSet(buffer[c])
  BY <1>2, <1>5 DEF ToSet
<1>7. /\ \A n \in Found(c) : n \in rows /\ n \in Frames /\ SeqNo(n) > floor[c] /\ Forwardable(c, n)
      /\ \A n \in Frames : n \in rows /\ SeqNo(n) > floor[c] /\ Forwardable(c, n) => n \in Found(c)
  BY <1>4 DEF Found
<1>8. Sent(c)' = ToSet(page)
  BY <1>3, <1>4, <1>6, <1>7 DEF Sent
<1>9. FloorHeld(c)'
  BY <1>2, <1>3 DEF StreamInv, FloorHeld
<1>10. BufferHeld(c)'
  <2>1. {n \in Frames : n > joined[c] /\ Forwardable(c, n)}' = {n \in Frames : n > joined[c] /\ Forwardable(c, n)}
    BY <1>2, <1>3 DEF Forwardable, IsPublic
  <2> QED
    BY <1>1, <1>2, <1>3, <1>6, <2>1 DEF StreamInv, BufferHeld, Waiting
<1>11. OutHeld(c)'
  <2>1. \A i, j \in DOMAIN page : i # j => page[i] # page[j]
    <3> SUFFICES ASSUME NEW i \in DOMAIN page, NEW j \in DOMAIN page, i < j PROVE page[i] # page[j]
      BY <1>5
    <3>1. SeqNo(page[i]) < SeqNo(page[j]) /\ page[i] \in Frames
      BY <1>5
    <3> QED
      BY <1>4, <3>1
  <2>2. \A n \in Sent(c)' : Forwardable(c, n)' /\ SeqNo(n)' > floor'[c]
    BY <1>2, <1>3, <1>6, <1>7, <1>8 DEF Forwardable, IsPublic
  <2>3. page \in Seq(Frames' \cup {State'})
    <3>1. \A i \in DOMAIN page : page[i] \in Frames' \cup {State'}
      BY <1>3, <1>5
    <3> QED
      BY <1>5, <3>1, SeqRange
  <2> QED
    BY <1>5, <2>1, <2>2, <2>3 DEF OutHeld
<1>12. PageHeld(c)'
  <2>1. State' \notin ToSet(out[c])'
    BY <1>3, <1>4, <1>6, <1>7
  <2>2. replayed'[c] = {SeqNo(n) : n \in ToSet(out[c])}'
    BY <1>3, <1>5, <1>6
  <2>3. \A i, j \in DOMAIN out'[c] : i < j => SeqNo(out[c][i])' < SeqNo(out[c][j])'
    BY <1>3, <1>5
  <2> QED
    BY <1>1, <1>5, <1>6, <2>1, <2>2, <2>3 DEF PageHeld
<1>13. LostHeld(c)'
  <2> SUFFICES ASSUME NEW i \in DOMAIN page, NEW b \in ToSet(buffer[c]),
                      SeqNo(page[i]) > SeqNo(b), SeqNo(b) \notin replayed'[c]
               PROVE  b \notin rows \cup ToSet(chain)
    BY <1>3, <1>5, <1>6 DEF LostHeld
  <2>1. b \in Frames /\ b > joined[c] /\ Forwardable(c, b) /\ SeqNo(b) > floor[c]
    BY <1>1 DEF StreamInv, BufferHeld, FloorHeld, Waiting
  <2>2. page[i] \in rows /\ page[i] \in Frames /\ page[i] \in ToSet(page) /\ page # <<>>
    BY <1>5, <1>6, <1>7
  <2>3. b \notin rows
    <3> SUFFICES ASSUME b \in rows PROVE FALSE
      OBVIOUS
    <3>1. b \in Found(c) /\ b \notin ToSet(page)
      BY <1>5, <1>7, <2>1
    <3>2. SeqNo(page[i]) < SeqNo(b)
      BY <1>5, <2>2, <3>1
    <3> QED
      BY <1>4, <2>1, <2>2, <3>2
  <2>4. b \notin ToSet(chain)
    <3> SUFFICES ASSUME b \in ToSet(chain) PROVE FALSE
      OBVIOUS
    <3>1. page[i] < b
      BY <2>2 DEF LogOrder, WritesInOrder, ToSet
    <3> QED
      BY <1>4, <2>1, <2>2, <3>1
  <2> QED
    BY <2>3, <2>4
<1>14. SnapshotHeld(c)'
  BY <1>1, <1>3, <1>4, <1>5, <1>7 DEF SnapshotHeld
<1>15. DroppedNothing(c)'
  BY <1>1 DEF DroppedNothing
<1>16. RegressedForLost(c)'
  <2> SUFFICES ASSUME NEW i \in DOMAIN page, NEW j \in DOMAIN page, i < j, SeqNo(page[i]) > SeqNo(page[j])
               PROVE  FALSE
    BY <1>3, <1>5 DEF RegressedForLost
  <2>1. SeqNo(page[i]) < SeqNo(page[j]) /\ page[i] \in Frames /\ page[j] \in Frames
    BY <1>5
  <2> QED
    BY <1>4, <2>1
<1> QED
  BY <1>1, <1>2, <1>t, <1>9, <1>10, <1>11, <1>12, <1>13, <1>14, <1>15, <1>16 DEF StreamInv, Stage

(* The snapshot goes out, and the buffer after it.                         *)
LEMMA StreamGoLive ==
  ASSUME LogInv, ClockAhead, LogOrder, StreamTypes, NEW c \in Client, StreamInv(c), GoLive(c)
  PROVE  StreamInv(c)'
<1> DEFINE left == {n \in ToSet(buffer[c]) : SeqNo(n) > floor[c] /\ SeqNo(n) \notin replayed[c]}
<1>1. stage[c] = "read" /\ stage'[c] = "live" /\ buffer'[c] = <<>>
  BY DEF GoLive, StreamTypes
<1>2. /\ UNCHANGED logVars
      /\ member'[c] = member[c] /\ resumed'[c] = resumed[c]
      /\ floor'[c] = floor[c] /\ joined'[c] = joined[c]
      /\ replayed'[c] = replayed[c] /\ durable'[c] = durable[c] /\ truncated'[c] = truncated[c]
      /\ snapshot'[c] = snapshot[c]
  BY DEF GoLive
<1>3. /\ Frames' = Frames /\ Len(issued') = Len(issued) /\ State' = State
      /\ \A n : SeqNo(n)' = SeqNo(n) /\ issued'[n] = issued[n]
      /\ rows' = rows /\ ToSet(chain)' = ToSet(chain)
  BY <1>2, LogStill
<1>4. /\ \A n \in Frames : SeqNo(n) \in Nat /\ n \in Nat
      /\ \A m, n \in Frames : SeqNo(m) < SeqNo(n) <=> m < n
      /\ \A m, n \in Frames : SeqNo(m) = SeqNo(n) => m = n
  BY SeqsRise
<1>n. /\ out[c] \in Seq(Nat) /\ ToSet(out[c]) \subseteq Frames \cup {State} /\ ToSet(buffer[c]) \subseteq Frames
      /\ \A i \in DOMAIN out[c] : out[c][i] \in Frames \cup {State} /\ out[c][i] \in ToSet(out[c])
      /\ State \in Nat /\ State \notin Frames /\ Frames \subseteq Nat
  BY StreamNumbers
<1>5. PICK d \in SelectBufferedToForward(c) : out'[c] = Append(out[c], State) \o d
  BY DEF GoLive, StreamTypes
<1>6. /\ d \in Seq(Nat) /\ ToSet(d) = left
      /\ \A i \in DOMAIN d : d[i] \in left
      /\ \A i, j \in DOMAIN d : i < j => d[i] < d[j]
  <2>1. /\ d \in SeqOf(left, Cardinality(left)) /\ ToSet(d) = left
        /\ \A i, j \in DOMAIN d : i < j => d[i] < d[j]
    BY DEF SelectBufferedToForward, InOrder
  <2>2. PICK m \in Nat : d \in [1 .. m -> left]
    <3>1. \E m \in 0 .. Cardinality(left) : d \in [1 .. m -> left]
      BY <2>1 DEF SeqOf
    <3>2. \A m \in 0 .. Cardinality(left) : 1 .. m = 1 .. m
      OBVIOUS
    <3> QED
      BY <3>1
  <2>3. left \subseteq Nat
    BY <1>n
  <2>4. \A i \in DOMAIN d : d[i] \in left
    BY <2>2
  <2>5. d \in Seq(Nat)
    BY <2>2, <2>3
  <2> QED
    BY <2>1, <2>4, <2>5
<1> HIDE DEF left
<1>7. left \subseteq Frames
  BY <1>n DEF left
<1> DEFINE s == Append(out[c], State)
<1>8. /\ s \in Seq(Nat) /\ Len(s) = Len(out[c]) + 1 /\ Len(out[c]) \in Nat
      /\ DOMAIN s = DOMAIN out[c] \cup {Len(out[c]) + 1}
      /\ \A i \in DOMAIN out[c] : i \in Nat /\ i <= Len(out[c]) /\ s[i] = out[c][i]
      /\ s[Len(out[c]) + 1] = State /\ ToSet(s) = ToSet(out[c]) \cup {State}
  <2>1. out[c] \in Seq(Nat) /\ State \in Nat
    BY <1>n
  <2>2. Len(s) = Len(out[c]) + 1
    BY <2>1
  <2> HIDE DEF s
  <2>3. s = Append(out[c], State)
    BY DEF s
  <2> QED
    BY <2>1, <2>2, <2>3, Appended
<1> HIDE DEF s
<1> PICK t : t = s \o d
  OBVIOUS
<1>9. /\ t \in Seq(Nat) /\ Len(s) \in Nat
      /\ \A i \in DOMAIN s : i \in Nat /\ i <= Len(s) /\ i \in DOMAIN t /\ t[i] = s[i]
      /\ \A i \in DOMAIN t :
           i \in Nat /\ (i \in DOMAIN s \/ (i > Len(s) /\ i - Len(s) \in DOMAIN d /\ t[i] = d[i - Len(s)]))
      /\ ToSet(t) = ToSet(s) \cup ToSet(d)
  <2>1. s \in Seq(Nat) /\ d \in Seq(Nat)
    BY <1>6, <1>8
  <2> QED
    BY <2>1, Joined
<1>10. out'[c] = t
  BY <1>5 DEF s
<1>12. /\ replayed[c] = {SeqNo(n) : n \in ToSet(out[c])} /\ ToSet(out[c]) \subseteq Frames
       /\ \A i, j \in DOMAIN out[c] : i < j => SeqNo(out[c][i]) < SeqNo(out[c][j])
       /\ \A i \in DOMAIN out[c] : SeqNo(out[c][i]) \in replayed[c]
  BY <1>1, <1>n DEF StreamInv, PageHeld
<1> PICK k \in Nat : k = Len(out[c])
  BY <1>8
(* Three kinds of place: the page, the snapshot, the rest.                 *)
<1>11. \A i \in DOMAIN t : i \in Nat
         /\ \/ i <= k /\ i \in DOMAIN out[c] /\ t[i] = out[c][i] /\ t[i] \in Frames /\ SeqNo(t[i]) \in replayed[c]
            \/ i = k + 1 /\ t[i] = State
            \/ /\ i > k + 1 /\ i - (k + 1) \in DOMAIN d /\ t[i] = d[i - (k + 1)]
               /\ t[i] \in left /\ t[i] \in Frames /\ SeqNo(t[i]) \notin replayed[c]
  <2>1. Len(s) = k + 1
    BY <1>8
  <2>2. \A i \in DOMAIN out[c] : out[c][i] \in Frames /\ SeqNo(out[c][i]) \in replayed[c]
    BY <1>12, <1>n
  <2>3. \A n \in left : n \in Frames /\ SeqNo(n) \notin replayed[c]
    BY <1>7 DEF left
  <2> SUFFICES ASSUME NEW i \in DOMAIN t
               PROVE  i \in Nat
                 /\ \/ i <= k /\ i \in DOMAIN out[c] /\ t[i] = out[c][i] /\ t[i] \in Frames /\ SeqNo(t[i]) \in replayed[c]
                    \/ i = k + 1 /\ t[i] = State
                    \/ /\ i > k + 1 /\ i - (k + 1) \in DOMAIN d /\ t[i] = d[i - (k + 1)]
                       /\ t[i] \in left /\ t[i] \in Frames /\ SeqNo(t[i]) \notin replayed[c]
    OBVIOUS
  <2>4. i \in Nat
    BY <1>9
  <2>5. CASE i \in DOMAIN s
    <3>1. t[i] = s[i]
      BY <1>9, <2>5
    <3>2. CASE i \in DOMAIN out[c]
      <4>1. i <= k /\ s[i] = out[c][i]
        BY <1>8, <3>2
      <4> QED
        BY <2>2, <2>4, <3>1, <3>2, <4>1
    <3>3. CASE i = k + 1
      BY <1>8, <2>4, <3>1, <3>3
    <3> QED
      BY <1>8, <2>5, <3>2, <3>3
  <2>6. CASE i > Len(s) /\ i - Len(s) \in DOMAIN d /\ t[i] = d[i - Len(s)]
    <3>1. d[i - Len(s)] \in left
      BY <1>6, <2>6
    <3> QED
      BY <2>1, <2>3, <2>4, <2>6, <3>1
  <2> QED
    BY <1>9, <2>5, <2>6
(* Which two places a pair may hold.                                       *)
<1>p. \A i, j \in DOMAIN t : i < j =>
        \/ i <= k /\ j <= k
        \/ i <= k /\ j > k + 1
        \/ i > k + 1 /\ j > k + 1
        \/ i = k + 1 /\ t[i] = State /\ t[j] \in Frames
        \/ j = k + 1 /\ t[j] = State /\ t[i] \in Frames
  BY <1>11
<1>q. \A i, j \in DOMAIN t : i < j /\ i <= k /\ j <= k =>
        /\ i \in DOMAIN out[c] /\ j \in DOMAIN out[c] /\ t[i] = out[c][i] /\ t[j] = out[c][j]
        /\ i \in Nat /\ j \in Nat /\ SeqNo(t[i]) < SeqNo(t[j])
  <2>1. \A i \in DOMAIN t : i <= k => i \in DOMAIN out[c] /\ t[i] = out[c][i] /\ i \in Nat
    BY <1>11
  <2> QED
    BY <1>12, <2>1
<1>r. \A i, j \in DOMAIN t : i <= k /\ j > k + 1 =>
        /\ i \in DOMAIN out[c] /\ t[i] = out[c][i] /\ SeqNo(t[i]) \in replayed[c]
        /\ t[j] \in left /\ SeqNo(t[j]) \notin replayed[c]
  <2>1. \A i \in DOMAIN t : i <= k => i \in DOMAIN out[c] /\ t[i] = out[c][i] /\ SeqNo(t[i]) \in replayed[c]
    BY <1>11
  <2>2. \A j \in DOMAIN t : j > k + 1 => t[j] \in left /\ SeqNo(t[j]) \notin replayed[c]
    BY <1>11
  <2> QED
    BY <2>1, <2>2
<1>s. \A i, j \in DOMAIN t : i < j /\ i > k + 1 /\ j > k + 1 => t[i] < t[j] /\ t[i] \in Frames /\ t[j] \in Frames
  <2> SUFFICES ASSUME NEW i \in DOMAIN t, NEW j \in DOMAIN t, i < j, i > k + 1, j > k + 1
               PROVE  t[i] < t[j] /\ t[i] \in Frames /\ t[j] \in Frames
    OBVIOUS
  <2>1. /\ i - (k + 1) \in DOMAIN d /\ t[i] = d[i - (k + 1)] /\ t[i] \in Frames /\ i \in Nat
        /\ j - (k + 1) \in DOMAIN d /\ t[j] = d[j - (k + 1)] /\ t[j] \in Frames /\ j \in Nat
    BY <1>11
  <2>2. i - (k + 1) < j - (k + 1)
    BY <2>1
  <2>3. d[i - (k + 1)] < d[j - (k + 1)]
    BY <1>6, <2>1, <2>2
  <2> QED
    BY <2>1, <2>3
<1>13. /\ ToSet(out[c])' = ToSet(out[c]) \cup {State} \cup left
       /\ Sent(c)' = ToSet(out[c]) \cup left /\ Sent(c) = ToSet(out[c])
  <2>1. ToSet(out[c])' = ToSet(t)
    BY <1>10
  <2> QED
    BY <1>3, <1>6, <1>7, <1>8, <1>9, <1>12, <1>n, <2>1 DEF Sent
<1>14. ToSet(buffer[c]) = {n \in Frames : n > joined[c] /\ Forwardable(c, n)}
  BY <1>1 DEF StreamInv, BufferHeld, Waiting
<1>15. \A n \in left : n \in ToSet(buffer[c]) /\ SeqNo(n) > floor[c] /\ SeqNo(n) \notin replayed[c]
  BY DEF left
<1>16. FloorHeld(c)'
  BY <1>2, <1>3 DEF StreamInv, FloorHeld
<1>17. BufferHeld(c)'
  <2>e. <<>> \in Seq(Frames)
    OBVIOUS
  <2>1. PICK none \in Seq(Frames) : none = <<>>
    BY <2>e
  <2>2. DOMAIN none = {} /\ ToSet(none) = {} /\ buffer'[c] = none
    BY <1>1, <2>1 DEF ToSet
  <2>3. ToSet(buffer[c])' = {}
    BY <2>2
  <2> QED
    BY <1>1, <1>3, <2>2, <2>3 DEF BufferHeld, Waiting
<1>18. OutHeld(c)'
  <2>1. \A i, j \in DOMAIN t : i # j => t[i] # t[j]
    <3> SUFFICES ASSUME NEW i \in DOMAIN t, NEW j \in DOMAIN t, i < j PROVE t[i] # t[j]
      <4>1. DOMAIN t \subseteq Nat
        BY <1>11
      <4>2. \A i, j \in DOMAIN t : i # j => i < j \/ j < i
        BY <4>1
      <4> QED
        BY <4>2
    <3>1. CASE i <= k /\ j <= k
      <4>1. /\ i \in DOMAIN out[c] /\ j \in DOMAIN out[c] /\ t[i] = out[c][i] /\ t[j] = out[c][j]
            /\ i \in Nat /\ j \in Nat
        BY <1>q, <3>1
      <4>2. i # j
        BY <4>1
      <4> QED
        BY <4>1, <4>2 DEF StreamInv, OutHeld
    <3>2. CASE i <= k /\ j > k + 1
      BY <1>r, <3>2
    <3>3. CASE i > k + 1 /\ j > k + 1
      <4>1. t[i] < t[j] /\ t[i] \in Nat /\ t[j] \in Nat
        BY <1>n, <1>s, <3>3
      <4> QED
        BY <4>1
    <3>4. CASE \/ t[i] = State /\ t[j] \in Frames
               \/ t[j] = State /\ t[i] \in Frames
      BY <1>n, <3>4
    <3> QED
      BY <1>p, <3>1, <3>2, <3>3, <3>4
  <2>2. \A n \in Sent(c)' : Forwardable(c, n)' /\ SeqNo(n)' > floor'[c]
    <3>1. \A n \in ToSet(out[c]) : Forwardable(c, n) /\ SeqNo(n) > floor[c]
      BY <1>13 DEF StreamInv, OutHeld
    <3>2. \A n \in left : Forwardable(c, n) /\ SeqNo(n) > floor[c]
      BY <1>14, <1>15
    <3>3. \A n : Forwardable(c, n) => Forwardable(c, n)'
      BY <1>2, <1>3 DEF Forwardable, IsPublic
    <3> QED
      BY <1>2, <1>3, <1>13, <3>1, <3>2, <3>3
  <2>3. t \in Seq(Frames' \cup {State'})
    <3>1. \A i \in DOMAIN t : t[i] \in Frames' \cup {State'}
      BY <1>3, <1>11
    <3> QED
      BY <1>9, <3>1, SeqRange
  <2> QED
    BY <1>10, <2>1, <2>2, <2>3 DEF OutHeld
<1>19. PageHeld(c)'
  BY <1>1, <1>2, <1>13 DEF StreamInv, PageHeld
<1>20. LostHeld(c)'
  BY <1>1 DEF LostHeld
<1>21. SnapshotHeld(c)'
  <2>1. ASSUME NEW i \in DOMAIN t, t[i] = State, NEW j \in 1 .. (i - 1) PROVE t[j] <= snapshot[c]
    <3>1. i = k + 1
      BY <1>11, <1>n, <2>1
    <3>2. j \in DOMAIN out[c]
      BY <1>8, <1>n, <2>1, <3>1
    <3>3. t[j] = out[c][j] /\ out[c][j] \in ToSet(out[c])
      BY <1>8, <1>9, <1>n, <3>2
    <3> QED
      BY <1>1, <3>3 DEF StreamInv, SnapshotHeld
  <2> QED
    BY <1>1, <1>2, <1>3, <1>10, <2>1 DEF SnapshotHeld
<1>22. DroppedNothing(c)'
  <2> SUFFICES ASSUME NEW n \in Frames, Forwardable(c, n), SeqNo(n) > floor[c], n \notin Sent(c)'
               PROVE  n <= joined[c] /\ (n \in durable[c] => truncated[c])
    BY <1>2, <1>3 DEF DroppedNothing, Missing, Forwardable, IsPublic
  <2>1. n \notin ToSet(out[c]) /\ n \notin left
    BY <1>13
  <2>2. SeqNo(n) \notin replayed[c]
    BY <1>4, <1>12, <2>1
  <2>3. n \notin ToSet(buffer[c])
    BY <2>1, <2>2 DEF left
  <2>4. n \in Nat /\ joined[c] \in Nat
    BY <1>4 DEF StreamInv, FloorHeld
  <2>5. n <= joined[c]
    BY <1>14, <2>3, <2>4
  <2>6. n \in durable[c] => truncated[c]
    BY <2>1 DEF StreamInv, PageHeld
  <2> QED
    BY <2>5, <2>6
<1>23. RegressedForLost(c)'
  <2> SUFFICES ASSUME NEW i \in DOMAIN t, NEW j \in DOMAIN t, i < j, t[i] # State, t[j] # State,
                      SeqNo(t[i]) > SeqNo(t[j])
               PROVE  t[j] \notin rows \cup ToSet(chain)
    BY <1>3, <1>10 DEF RegressedForLost
  <2>0. t[i] \in Frames /\ t[j] \in Frames /\ SeqNo(t[i]) \in Nat /\ SeqNo(t[j]) \in Nat
    BY <1>4, <1>11
  <2>1. CASE i <= k /\ j <= k
    <3>2. SeqNo(t[i]) < SeqNo(t[j])
      BY <1>q, <2>1
    <3> QED
      BY <2>0, <3>2
  <2>2. CASE i <= k /\ j > k + 1
    <3>1. i \in DOMAIN out[c] /\ t[i] = out[c][i] /\ t[j] \in left
      BY <1>r, <2>2
    <3>2. t[j] \in ToSet(buffer[c]) /\ SeqNo(t[j]) \notin replayed[c]
      BY <1>15, <3>1
    <3> QED
      BY <1>1, <3>1, <3>2 DEF StreamInv, LostHeld
  <2>3. CASE i > k + 1 /\ j > k + 1
    <3>1. t[i] < t[j]
      BY <1>s, <2>3
    <3>2. SeqNo(t[i]) < SeqNo(t[j])
      BY <1>4, <2>0, <3>1
    <3> QED
      BY <2>0, <3>2
  <2> QED
    BY <1>p, <2>1, <2>2, <2>3
<1> QED
  BY <1>1, <1>2, <1>16, <1>17, <1>18, <1>19, <1>20, <1>21, <1>22, <1>23 DEF StreamInv, Stage

-----------------------------------------------------------------------------
(* A client without a stream.                                              *)
Fresh(c) ==
  /\ stage[c] = "off" /\ member[c] \in BOOLEAN
  /\ resumed[c] \in BOOLEAN /\ truncated[c] \in BOOLEAN
  /\ floor[c] = 0 /\ joined[c] = 0 /\ buffer[c] = <<>> /\ replayed[c] = {}
  /\ durable[c] = {} /\ out[c] = <<>>

LEMMA FreshHolds ==
  (Len(issued) \in Nat /\ \A n \in Frames : SeqNo(n) > 0)
    => \A c \in Client : Fresh(c) => StreamInv(c)
<1> SUFFICES ASSUME Len(issued) \in Nat, \A n \in Frames : SeqNo(n) > 0, NEW c \in Client, Fresh(c)
             PROVE  StreamInv(c)
  OBVIOUS
<1>1. stage[c] = "off" /\ floor[c] = 0 /\ joined[c] = 0 /\ durable[c] = {} /\ replayed[c] = {}
  BY DEF Fresh
<1>2. /\ out[c] = <<>> /\ DOMAIN out[c] = {} /\ ToSet(out[c]) = {}
      /\ buffer[c] = <<>> /\ DOMAIN buffer[c] = {} /\ ToSet(buffer[c]) = {}
  BY DEF Fresh, ToSet
<1>3. FloorHeld(c)
  BY <1>1 DEF FloorHeld
<1>4. BufferHeld(c)
  <2>1. buffer[c] \in Seq(Frames)
    BY <1>2
  <2>2. \A i, j \in DOMAIN buffer[c] : i < j => buffer[c][i] < buffer[c][j]
    BY <1>2
  <2> QED
    BY <1>1, <1>2, <2>1, <2>2 DEF BufferHeld, Waiting
<1>5. OutHeld(c)
  <2>1. out[c] \in Seq(Frames \cup {State})
    BY <1>2
  <2>2. \A i, j \in DOMAIN out[c] : i # j => out[c][i] # out[c][j]
    BY <1>2
  <2>3. Sent(c) = {}
    BY <1>2 DEF Sent
  <2> QED
    BY <2>1, <2>2, <2>3 DEF OutHeld
<1>6. PageHeld(c)
  BY <1>1, <1>2 DEF PageHeld
<1>7. LostHeld(c) /\ DroppedNothing(c)
  BY <1>1 DEF LostHeld, DroppedNothing
<1>8. SnapshotHeld(c)
  BY <1>1, <1>2 DEF SnapshotHeld
<1>9. RegressedForLost(c)
  BY <1>2 DEF RegressedForLost
<1> QED
  BY <1>1, <1>3, <1>4, <1>5, <1>6, <1>7, <1>8, <1>9 DEF StreamInv, Stage, Fresh

LEMMA FreshHoldsNext ==
  ((Len(issued) \in Nat /\ \A n \in Frames : SeqNo(n) > 0)
    => \A c \in Client : Fresh(c) => StreamInv(c))'
BY FreshHolds, PTL

(* The streams that end and those that do not.                             *)
LEMMA StreamsEnd ==
  ASSUME LogInv, LogInv', LogOrder', StreamTypes, NEW C \in SUBSET Client, EndStreams(C),
         issued' = issued, Kept' \subseteq Kept, \A c \in Client : StreamInv(c)
  PROVE  StreamTypes' /\ \A c \in Client : StreamInv(c)'
<1>1. /\ stage' = [c \in Client |-> IF c \in C THEN "off" ELSE stage[c]]
      /\ resumed' = [c \in Client |-> resumed[c] /\ c \notin C]
      /\ floor' = [c \in Client |-> IF c \in C THEN 0 ELSE floor[c]]
      /\ joined' = [c \in Client |-> IF c \in C THEN 0 ELSE joined[c]]
      /\ buffer' = [c \in Client |-> IF c \in C THEN <<>> ELSE buffer[c]]
      /\ replayed' = [c \in Client |-> IF c \in C THEN {} ELSE replayed[c]]
      /\ durable' = [c \in Client |-> IF c \in C THEN {} ELSE durable[c]]
      /\ truncated' = [c \in Client |-> truncated[c] /\ c \notin C]
      /\ snapshot' = [c \in Client |-> IF c \in C THEN 0 ELSE snapshot[c]]
      /\ out' = [c \in Client |-> IF c \in C THEN <<>> ELSE out[c]]
      /\ member' = member
  BY DEF EndStreams
<1>2. StreamTypes'
  <2>1. member' = [c \in Client |-> member'[c]]
    BY <1>1 DEF StreamTypes
  <2>2. stage' = [c \in Client |-> stage'[c]]
    BY <1>1
  <2>3. /\ resumed' = [c \in Client |-> resumed'[c]] /\ truncated' = [c \in Client |-> truncated'[c]]
    BY <1>1, Zenon
  <2>4. /\ floor' = [c \in Client |-> floor'[c]] /\ joined' = [c \in Client |-> joined'[c]]
        /\ buffer' = [c \in Client |-> buffer'[c]] /\ replayed' = [c \in Client |-> replayed'[c]]
    BY <1>1
  <2>5. /\ durable' = [c \in Client |-> durable'[c]] /\ snapshot' = [c \in Client |-> snapshot'[c]]
        /\ out' = [c \in Client |-> out'[c]]
    BY <1>1
  <2> QED
    BY <2>1, <2>2, <2>3, <2>4, <2>5 DEF StreamTypes
<1>3. ASSUME NEW c \in Client PROVE StreamInv(c)'
  <2>1. CASE c \in C
    <3>1. Fresh(c)'
      <4>1. member'[c] \in BOOLEAN
        BY <1>1 DEF StreamInv
      <4>2. resumed'[c] \in BOOLEAN /\ truncated'[c] \in BOOLEAN
        BY <1>1
      <4> QED
        BY <1>1, <2>1, <4>1, <4>2 DEF Fresh
    <3>2. (Len(issued) \in Nat /\ \A n \in Frames : SeqNo(n) > 0)'
      BY DEF LogInv, LogTypeOK, LogOrder
    <3> QED
      BY <3>1, <3>2, FreshHoldsNext
  <2>2. CASE c \notin C
    <3>1. resumed'[c] = resumed[c]
      <4>1. resumed[c] \in BOOLEAN
        BY DEF StreamInv
      <4>2. resumed'[c] = (resumed[c] /\ c \notin C)
        BY <1>1
      <4> QED
        BY <2>2, <4>1, <4>2
    <3>2. truncated'[c] = truncated[c]
      <4>1. truncated[c] \in BOOLEAN
        BY DEF StreamInv
      <4>2. truncated'[c] = (truncated[c] /\ c \notin C)
        BY <1>1
      <4> QED
        BY <2>2, <4>1, <4>2
    <3>3. Still(c)
      BY <1>1, <2>2, <3>1, <3>2 DEF Still
    <3> QED
      BY <3>3, StreamStill
  <2> QED
    BY <2>1, <2>2
<1> QED
  BY <1>2, <1>3

-----------------------------------------------------------------------------
(* A function over the clients that changed for one of them at most.       *)
Moved(f, g, c) == g = [d \in Client |-> g[d]] /\ \A d \in Client \ {c} : g[d] = f[d]

LEMMA MovedAt ==
  ASSUME NEW f, f = [d \in Client |-> f[d]], NEW c \in Client, NEW v
  PROVE  Moved(f, [f EXCEPT ![c] = v], c)
<1> PICK g : g = [f EXCEPT ![c] = v]
  OBVIOUS
<1>1. DOMAIN f = Client
  <2> PICK h : h = [d \in Client |-> f[d]]
    OBVIOUS
  <2>1. DOMAIN h = Client
    OBVIOUS
  <2> QED
    BY <2>1
<1>2. g = [d \in Client |-> g[d]]
  BY <1>1
<1>3. \A d \in Client \ {c} : g[d] = f[d]
  BY <1>1
<1> QED
  BY <1>2, <1>3 DEF Moved

LEMMA MovedNot ==
  ASSUME NEW f, f = [d \in Client |-> f[d]], NEW c \in Client
  PROVE  Moved(f, f, c)
BY DEF Moved

AllMoved(c) ==
  /\ Moved(member, member', c) /\ Moved(stage, stage', c) /\ Moved(resumed, resumed', c)
  /\ Moved(floor, floor', c) /\ Moved(joined, joined', c) /\ Moved(buffer, buffer', c)
  /\ Moved(replayed, replayed', c) /\ Moved(durable, durable', c)
  /\ Moved(truncated, truncated', c) /\ Moved(snapshot, snapshot', c) /\ Moved(out, out', c)

(* A client's step is its own.                                             *)
LEMMA ClientsApart ==
  ASSUME StreamTypes, NEW c \in Client, Open(c) \/ Replay(c) \/ ReadStatus(c) \/ GoLive(c)
  PROVE  UNCHANGED logVars /\ StreamTypes' /\ \A d \in Client \ {c} : Still(d)
<1>1. UNCHANGED logVars
  BY DEF Open, Replay, ReadStatus, GoLive
<1>f. /\ member = [d \in Client |-> member[d]] /\ stage = [d \in Client |-> stage[d]]
      /\ resumed = [d \in Client |-> resumed[d]] /\ floor = [d \in Client |-> floor[d]]
      /\ joined = [d \in Client |-> joined[d]] /\ buffer = [d \in Client |-> buffer[d]]
      /\ replayed = [d \in Client |-> replayed[d]] /\ durable = [d \in Client |-> durable[d]]
      /\ truncated = [d \in Client |-> truncated[d]] /\ snapshot = [d \in Client |-> snapshot[d]]
      /\ out = [d \in Client |-> out[d]]
  BY DEF StreamTypes
<1>n. /\ Moved(member, member, c) /\ Moved(stage, stage, c) /\ Moved(resumed, resumed, c)
      /\ Moved(floor, floor, c) /\ Moved(joined, joined, c) /\ Moved(buffer, buffer, c)
      /\ Moved(replayed, replayed, c) /\ Moved(durable, durable, c)
      /\ Moved(truncated, truncated, c) /\ Moved(snapshot, snapshot, c) /\ Moved(out, out, c)
  BY <1>f, MovedNot
<1>2. AllMoved(c)
  <2>1. CASE Open(c)
    <3>1. PICK id \in ResumePoints(c), resume \in BOOLEAN :
            resumed' = [resumed EXCEPT ![c] = resume] /\ floor' = [floor EXCEPT ![c] = id]
      BY <2>1 DEF Open
    <3>2. /\ stage' = [stage EXCEPT ![c] = "subscribed"] /\ joined' = [joined EXCEPT ![c] = Len(issued)]
          /\ UNCHANGED <<member, buffer, replayed, durable, truncated, snapshot, out>>
      BY <2>1 DEF Open
    <3>3. /\ Moved(resumed, resumed', c) /\ Moved(floor, floor', c)
      BY <1>f, <3>1, MovedAt
    <3>4. /\ Moved(stage, stage', c) /\ Moved(joined, joined', c)
      BY <1>f, <3>2, MovedAt
    <3> QED
      BY <1>n, <3>2, <3>3, <3>4 DEF AllMoved
  <2>2. CASE Replay(c)
    <3>1. /\ stage' = [stage EXCEPT ![c] = "replayed"]
          /\ UNCHANGED <<member, resumed, floor, joined, buffer, snapshot>>
      BY <2>2 DEF Replay
    <3>2. Moved(stage, stage', c)
      BY <1>f, <3>1, MovedAt
    <3>3. CASE resumed[c]
      <4>1. PICK page \in ReplaySince(c) :
              /\ out' = [out EXCEPT ![c] = page]
              /\ replayed' = [replayed EXCEPT ![c] = {SeqNo(n) : n \in ToSet(page)}]
              /\ durable' = [durable EXCEPT ![c] = Found(c)]
              /\ truncated' = [truncated EXCEPT ![c] = Found(c) \ ToSet(page) # {}]
        BY <2>2, <3>3 DEF Replay
      <4>2. Moved(out, out', c)
        BY <1>f, <4>1, MovedAt
      <4>3. Moved(replayed, replayed', c)
        BY <1>f, <4>1, MovedAt
      <4>4. Moved(durable, durable', c)
        BY <1>f, <4>1, MovedAt
      <4>5. Moved(truncated, truncated', c)
        BY <1>f, <4>1, MovedAt
      <4> QED
        BY <1>n, <3>1, <3>2, <4>2, <4>3, <4>4, <4>5 DEF AllMoved
    <3>4. CASE ~resumed[c]
      <4>1. UNCHANGED <<out, replayed, durable, truncated>>
        BY <2>2, <3>4 DEF Replay
      <4> QED
        BY <1>n, <3>1, <3>2, <4>1 DEF AllMoved
    <3> QED
      BY <3>3, <3>4
  <2>3. CASE ReadStatus(c)
    <3>1. /\ stage' = [stage EXCEPT ![c] = "read"] /\ snapshot' = [snapshot EXCEPT ![c] = Len(issued)]
          /\ UNCHANGED <<member, resumed, floor, joined, buffer, replayed, durable, truncated, out>>
      BY <2>3 DEF ReadStatus
    <3>2. Moved(stage, stage', c) /\ Moved(snapshot, snapshot', c)
      BY <1>f, <3>1, MovedAt
    <3> QED
      BY <1>n, <3>1, <3>2 DEF AllMoved
  <2>4. CASE GoLive(c)
    <3>1. /\ stage' = [stage EXCEPT ![c] = "live"] /\ buffer' = [buffer EXCEPT ![c] = <<>>]
          /\ UNCHANGED <<member, resumed, floor, joined, replayed, durable, truncated, snapshot>>
      BY <2>4 DEF GoLive
    <3>2. PICK d \in SelectBufferedToForward(c) : out' = [out EXCEPT ![c] = Append(out[c], State) \o d]
      BY <2>4 DEF GoLive
    <3>3. Moved(stage, stage', c) /\ Moved(buffer, buffer', c)
      BY <1>f, <3>1, MovedAt
    <3>4. Moved(out, out', c)
      BY <1>f, <3>2, MovedAt
    <3> QED
      BY <1>n, <3>1, <3>3, <3>4 DEF AllMoved
  <2> QED
    BY <2>1, <2>2, <2>3, <2>4
<1>3. StreamTypes'
  BY <1>2 DEF AllMoved, Moved, StreamTypes
<1>4. ASSUME NEW d \in Client \ {c} PROVE Still(d)
  BY <1>2 DEF AllMoved, Moved, Still
<1> QED
  BY <1>1, <1>3, <1>4

LEMMA FeedStepsLog == [FeedNext]_feedVars => [LogNext]_logVars
<1>1. ASSUME NEW kind \in Kind, NEW now \in Clock, FeedPublish(kind, now) PROVE LogNext
  BY <1>1 DEF FeedPublish, LogNext
<1>2. ASSUME NEW c \in Client, Open(c) \/ Replay(c) \/ ReadStatus(c) \/ GoLive(c) \/ Disconnect(c)
      PROVE  UNCHANGED logVars
  BY <1>2 DEF Open, Replay, ReadStatus, GoLive, Disconnect
<1>3. FeedRestart \/ LogOnly => LogNext
  BY DEF FeedRestart, LogOnly, LogNext
<1>4. UNCHANGED feedVars => UNCHANGED logVars
  BY DEF feedVars
<1> QED
  BY <1>1, <1>2, <1>3, <1>4 DEF FeedNext

LEMMA FeedInvInit == FeedInit => FeedInv
<1> SUFFICES ASSUME FeedInit PROVE FeedInv
  OBVIOUS
<1>1. LogInit
  BY DEF FeedInit
<1>2. Frames = {} /\ rows = {} /\ DOMAIN chain = {} /\ Len(issued) \in Nat
  BY <1>1 DEF LogInit, Frames
<1>3. LogOrder
  <2>1. lastSeq = 0 /\ lastPublic = 0 /\ seedAll = Unread /\ seedPublic = Unread
    BY <1>1 DEF LogInit
  <2> QED
    BY <1>2, <2>1 DEF LogOrder, WritesInOrder, WatermarksReached, IsSeqOf
<1>4. StreamTypes
  <2>1. member = [c \in Client |-> member[c]]
    BY DEF FeedInit
  <2>2. /\ stage = [c \in Client |-> stage[c]] /\ resumed = [c \in Client |-> resumed[c]]
        /\ floor = [c \in Client |-> floor[c]] /\ joined = [c \in Client |-> joined[c]]
        /\ buffer = [c \in Client |-> buffer[c]]
    BY DEF FeedInit
  <2>3. /\ replayed = [c \in Client |-> replayed[c]] /\ durable = [c \in Client |-> durable[c]]
        /\ truncated = [c \in Client |-> truncated[c]] /\ snapshot = [c \in Client |-> snapshot[c]]
        /\ out = [c \in Client |-> out[c]]
    BY DEF FeedInit
  <2> QED
    BY <2>1, <2>2, <2>3 DEF StreamTypes
<1>5. ASSUME NEW c \in Client PROVE Fresh(c)
  BY DEF FeedInit, Fresh
<1> QED
  BY <1>2, <1>3, <1>4, <1>5, FreshHolds DEF FeedInv

LEMMA FeedInvStep ==
  ASSUME ClockAhead, LogInv, FeedInv, [FeedNext]_feedVars
  PROVE  LogInv' /\ FeedInv'
<1>l. [LogNext]_logVars
  BY FeedStepsLog
<1>v. LogInv'
  BY <1>l, LogInvStep
<1>o. LogOrder'
  <2>1. LogTypeOK /\ WritesInOrder /\ WatermarksReached /\ \A n \in Frames : SeqNo(n) > 0
    BY DEF LogInv, FeedInv, LogOrder
  <2>2. WritesInOrder'
    BY <1>l, <2>1, WritesInOrderStep
  <2>3. WatermarksReached' /\ \A n \in Frames' : SeqNo(n)' > 0
    BY <1>l, <2>1, WatermarksStep
  <2> QED
    BY <2>2, <2>3 DEF LogOrder
<1>h. LogOrder /\ StreamTypes /\ \A c \in Client : StreamInv(c)
  BY DEF FeedInv
<1>1. ASSUME NEW kind \in Kind, NEW now \in Clock, FeedPublish(kind, now)
      PROVE  StreamTypes' /\ \A c \in Client : StreamInv(c)'
  <2>1. StreamTypes'
    <3>1. UNCHANGED <<member, stage, resumed, floor, joined, replayed, durable, truncated, snapshot>>
      BY <1>1 DEF FeedPublish
    <3>2. out' = [c \in Client |-> out'[c]] /\ buffer' = [c \in Client |-> buffer'[c]]
      BY <1>1 DEF FeedPublish
    <3> QED
      BY <1>h, <3>1, <3>2 DEF StreamTypes
  <2> QED
    BY <1>1, <1>h, <1>v, <2>1, StreamPublish
<1>2. ASSUME NEW c \in Client, Open(c) \/ Replay(c) \/ ReadStatus(c) \/ GoLive(c)
      PROVE  StreamTypes' /\ \A d \in Client : StreamInv(d)'
  <2>1. UNCHANGED logVars /\ StreamTypes' /\ \A d \in Client \ {c} : Still(d)
    BY <1>2, <1>h, ClientsApart
  <2>2. issued' = issued /\ Kept' \subseteq Kept
    BY <2>1, LogStill DEF Kept
  <2>3. StreamInv(c)'
    <3>1. CASE Open(c)
      BY <1>h, <3>1, StreamOpen
    <3>2. CASE Replay(c)
      BY <1>h, <3>2, StreamReplay
    <3>3. CASE ReadStatus(c)
      BY <1>h, <3>3, StreamReadStatus
    <3>4. CASE GoLive(c)
      BY <1>h, <3>4, StreamGoLive
    <3> QED
      BY <1>2, <3>1, <3>2, <3>3, <3>4
  <2>4. \A d \in Client \ {c} : StreamInv(d)'
    BY <1>h, <2>1, <2>2, StreamStill
  <2> QED
    BY <2>1, <2>3, <2>4
<1>3. ASSUME NEW c \in Client, Disconnect(c) PROVE StreamTypes' /\ \A d \in Client : StreamInv(d)'
  <2>1. EndStreams({c}) /\ UNCHANGED logVars /\ {c} \in SUBSET Client
    BY <1>3 DEF Disconnect
  <2>2. issued' = issued /\ Kept' \subseteq Kept
    BY <2>1, LogStill DEF Kept
  <2> QED
    BY <1>h, <1>o, <1>v, <2>1, <2>2, StreamsEnd
<1>4. ASSUME FeedRestart PROVE StreamTypes' /\ \A d \in Client : StreamInv(d)'
  <2>1. EndStreams(Client) /\ Restart /\ Client \in SUBSET Client /\ LogTypeOK
    BY <1>4 DEF FeedRestart, LogInv
  <2>2. issued' = issued /\ Kept' \subseteq Kept
    <3>1. \/ TouchWatermark \/ SeedReadAll \/ SeedReadPublic \/ SeedApplies \/ SeedFails
          \/ WriteSettles \/ Purge \/ Restart
      BY <2>1
    <3> QED
      BY <2>1, <3>1, LogQuiet
  <2> QED
    BY <1>h, <1>o, <1>v, <2>1, <2>2, StreamsEnd
<1>5. ASSUME LogOnly \/ UNCHANGED feedVars PROVE StreamTypes' /\ \A d \in Client : StreamInv(d)'
  <2>1. UNCHANGED <<member, streamVars>>
    BY <1>5 DEF LogOnly, feedVars
  <2>2. issued' = issued /\ Kept' \subseteq Kept
    <3>1. CASE LogOnly
      <4>1. LogTypeOK /\ (\/ TouchWatermark \/ SeedReadAll \/ SeedReadPublic \/ SeedApplies \/ SeedFails
                          \/ WriteSettles \/ Purge)
        BY <3>1 DEF LogOnly, LogInv
      <4> QED
        BY <4>1, LogQuiet
    <3>2. CASE UNCHANGED feedVars
      <4>1. UNCHANGED logVars
        BY <3>2 DEF feedVars
      <4> QED
        BY <4>1, LogStill DEF Kept
    <3> QED
      BY <1>5, <3>1, <3>2
  <2>3. StreamTypes'
    BY <1>h, <2>1 DEF StreamTypes, streamVars
  <2>4. \A c \in Client : Still(c)
    BY <2>1 DEF Still, streamVars
  <2>5. ASSUME NEW c \in Client PROVE StreamInv(c)'
    <3>1. StreamInv(c) /\ Still(c)
      BY <1>h, <2>4
    <3> QED
      BY <2>2, <3>1, StreamStill
  <2> QED
    BY <2>3, <2>5
<1>6. StreamTypes' /\ \A c \in Client : StreamInv(c)'
  <2>1. \/ \E kind \in Kind, now \in Clock : FeedPublish(kind, now)
        \/ \E c \in Client : Open(c) \/ Replay(c) \/ ReadStatus(c) \/ GoLive(c)
        \/ \E c \in Client : Disconnect(c)
        \/ FeedRestart
        \/ LogOnly \/ UNCHANGED feedVars
    BY DEF FeedNext
  <2>2. CASE \E kind \in Kind, now \in Clock : FeedPublish(kind, now)
    BY <1>1, <2>2
  <2>3. CASE \E c \in Client : Open(c) \/ Replay(c) \/ ReadStatus(c) \/ GoLive(c)
    BY <1>2, <2>3
  <2>4. CASE \E c \in Client : Disconnect(c)
    BY <1>3, <2>4
  <2> QED
    BY <1>4, <1>5, <2>1, <2>2, <2>3, <2>4
<1> QED
  BY <1>o, <1>v, <1>6 DEF FeedInv

LEMMA FeedInvariant == ASSUME ClockAhead PROVE FeedSpec => [](LogInv /\ FeedInv)
<1>1. FeedInit => LogInv /\ FeedInv
  BY FeedInvInit, LogInvInit DEF FeedInit
<1>2. LogInv /\ FeedInv /\ [FeedNext]_feedVars => (LogInv /\ FeedInv)'
  BY FeedInvStep
<1> QED
  BY <1>1, <1>2, PTL DEF FeedSpec

(* The feed only adds to the log: what is proved of the log holds of it.   *)
THEOREM FeedImplementsLog == FeedSpec => LogSpec
<1>1. FeedInit => LogInit
  BY DEF FeedInit
<1> QED
  BY <1>1, FeedStepsLog, PTL DEF FeedSpec, LogSpec

(* Provided the clock comes back ahead of the seqs issued: no stream sends *)
(* a frame twice, nor one that its client holds or may not see.            *)
THEOREM ExactlyOnceTheorem == ASSUME ClockAhead PROVE FeedSpec => []ExactlyOnce
<1>1. FeedInv => ExactlyOnce
  BY DEF FeedInv, StreamInv, OutHeld, ExactlyOnce
<1> QED
  BY <1>1, FeedInvariant, PTL

(* A live stream has sent every frame of its kind past the resume point    *)
(* that came after it subscribed, and every durable one unless it said that *)
(* the replay was cut short.                                               *)
THEOREM NothingDroppedTheorem == ASSUME ClockAhead PROVE FeedSpec => []NothingDropped
<1>1. FeedInv => NothingDropped
  BY DEF FeedInv, StreamInv, DroppedNothing, NothingDropped
<1> QED
  BY <1>1, FeedInvariant, PTL

(* The snapshot follows what replay sent and knows all of it.              *)
THEOREM SnapshotTheorem == ASSUME ClockAhead PROVE FeedSpec => []SnapshotFinalWord
<1>1. FeedInv => SnapshotFinalWord
  BY DEF FeedInv, StreamInv, SnapshotHeld, SnapshotFinalWord
<1> QED
  BY <1>1, FeedInvariant, PTL

(* Within one stream an id is lower than an earlier one only for a frame   *)
(* whose write was lost.                                                   *)
THEOREM IdsTheorem == ASSUME ClockAhead PROVE FeedSpec => []IdsRegressOnlyForLostWrites
<1>1. FeedInv => IdsRegressOnlyForLostWrites
  BY DEF FeedInv, StreamInv, RegressedForLost, IdsRegressOnlyForLostWrites
<1> QED
  BY <1>1, FeedInvariant, PTL

(* A resumed stream that misses nothing has been sent an id as high as the *)
(* watermark its heartbeats report.                                        *)
THEOREM NoFalseAlarmTheorem == ASSUME ClockAhead PROVE FeedSpec => []NoFalseAlarm
<1>1. LogInv /\ FeedInv => NoFalseAlarm
  <2> SUFFICES ASSUME LogInv, FeedInv, NEW c \in Client, Missing(c) = {}
               PROVE  \E seq \in {floor[c]} \cup {SeqNo(n) : n \in Sent(c)} : seq >= Watermark(c)
    BY DEF NoFalseAlarm
  <2>1. \A n \in Frames : SeqNo(n) \in Nat
    BY SeqsNat DEF LogInv
  <2>2. floor[c] \in Nat /\ member[c] \in BOOLEAN
    BY DEF FeedInv, StreamInv, FloorHeld
  <2>3. Watermark(c) = 0 \/ \E n \in Frames : SeqNo(n) = Watermark(c) /\ Forwardable(c, n)
    <3>1. CASE member[c]
      BY <3>1 DEF FeedInv, LogOrder, WatermarksReached, IsSeqOf, Watermark, Forwardable
    <3>2. CASE ~member[c]
      BY <3>2 DEF FeedInv, LogOrder, WatermarksReached, IsSeqOf, Watermark, Forwardable, Public
    <3> QED
      BY <3>1, <3>2
  <2>4. CASE Watermark(c) = 0
    BY <2>2, <2>4
  <2>5. ASSUME NEW n \in Frames, SeqNo(n) = Watermark(c), Forwardable(c, n)
        PROVE  \E seq \in {floor[c]} \cup {SeqNo(m) : m \in Sent(c)} : seq >= Watermark(c)
    <3>1. CASE SeqNo(n) > floor[c]
      <4>1. n \in Sent(c)
        BY <2>5, <3>1 DEF Missing
      <4> QED
        BY <2>1, <2>5, <4>1
    <3>2. CASE ~(SeqNo(n) > floor[c])
      BY <2>1, <2>2, <2>5, <3>2
    <3> QED
      BY <3>1, <3>2
  <2> QED
    BY <2>3, <2>4, <2>5
<1> QED
  BY <1>1, FeedInvariant, PTL

-----------------------------------------------------------------------------
(* The types of the streams need no clock that comes back ahead.           *)
StreamTyped(c) ==
  /\ cursor[c] \in Nat /\ floor[c] \in Nat /\ stage[c] \in Stage
  /\ joined[c] \in 0 .. Len(issued) /\ snapshot[c] \in 0 .. Len(issued)
  /\ buffer[c] \in Seq(Frames) /\ out[c] \in Seq(Frames \cup {State})
  /\ replayed[c] \subseteq {SeqNo(n) : n \in Frames} /\ durable[c] \subseteq Frames

FeedTyped ==
  /\ LogTypeOK /\ Len(issued) \in 0 .. MaxFrames
  /\ member \in [Client -> BOOLEAN] /\ resumed \in [Client -> BOOLEAN]
  /\ truncated \in [Client -> BOOLEAN]
  /\ StreamTypes /\ cursor = [c \in Client |-> cursor[c]]
  /\ \A c \in Client : StreamTyped(c)

(* What was typed stays so when frames come and keep their seqs.           *)
LEMMA SeqNatOf ==
  ASSUME LogTypeOK, NEW s \in Seq(Frames), s # <<>>
  PROVE  SeqNo(Last(s)) \in Nat
<1>1. s[Len(s)] \in Frames
  OBVIOUS
<1> QED
  BY <1>1, SeqsNat DEF Last

LEMMA StreamStaysTyped ==
  ASSUME LogTypeOK, NEW c \in Client, StreamTyped(c), Frames \subseteq Frames',
         Len(issued) <= Len(issued'), Len(issued') \in Nat,
         \A n \in Frames : SeqNo(n)' = SeqNo(n), State' = State,
         cursor'[c] \in Nat, floor'[c] \in Nat, stage'[c] \in Stage,
         joined'[c] \in {joined[c], 0, Len(issued)}, snapshot'[c] \in {snapshot[c], 0, Len(issued)},
         buffer'[c] \in {buffer[c], <<>>} \cup {Append(buffer[c], n) : n \in Frames'},
         \/ out'[c] \in {out[c], <<>>} \cup {Append(out[c], n) : n \in Frames'}
         \/ out'[c] \in Seq(Frames \cup {State}),
         replayed'[c] \subseteq {SeqNo(n) : n \in Frames}, durable'[c] \subseteq Frames
  PROVE  StreamTyped(c)'
<1>1. joined'[c] \in 0 .. Len(issued') /\ snapshot'[c] \in 0 .. Len(issued')
  BY DEF StreamTyped, LogTypeOK
<1>2. replayed'[c] \subseteq {SeqNo(n)' : n \in Frames'} /\ durable'[c] \subseteq Frames'
  <2>1. {SeqNo(n) : n \in Frames} \subseteq {SeqNo(n)' : n \in Frames'}
    OBVIOUS
  <2> QED
    BY <2>1
<1>3. buffer'[c] \in Seq(Frames')
  <2>1. buffer[c] \in Seq(Frames)
    BY DEF StreamTyped
  <2>2. buffer[c] \in Seq(Frames')
    BY <2>1, SeqRange
  <2>3. <<>> \in Seq(Frames') /\ \A n \in Frames' : Append(buffer[c], n) \in Seq(Frames')
    BY <2>2
  <2> QED
    BY <2>2, <2>3
<1>4. out'[c] \in Seq(Frames' \cup {State})
  <2>1. \A s \in Seq(Frames \cup {State}) : s \in Seq(Frames' \cup {State})
    <3> SUFFICES ASSUME NEW s \in Seq(Frames \cup {State}) PROVE s \in Seq(Frames' \cup {State})
      OBVIOUS
    <3>1. \A i \in DOMAIN s : s[i] \in Frames' \cup {State}
      OBVIOUS
    <3> QED
      BY <3>1, SeqRange
  <2>2. out[c] \in Seq(Frames' \cup {State})
    BY <2>1 DEF StreamTyped
  <2>3. <<>> \in Seq(Frames' \cup {State}) /\ \A n \in Frames' : Append(out[c], n) \in Seq(Frames' \cup {State})
    BY <2>2
  <2> QED
    BY <2>1, <2>2, <2>3
<1> QED
  BY <1>1, <1>2, <1>3, <1>4 DEF StreamTyped

(* What a client's own step makes of its variables.                        *)
LEMMA ActorTyped ==
  ASSUME FeedTyped, NEW c \in Client, Open(c) \/ Replay(c) \/ ReadStatus(c) \/ GoLive(c)
  PROVE  /\ StreamTyped(c)' /\ resumed'[c] \in BOOLEAN /\ truncated'[c] \in BOOLEAN
         /\ cursor' = [d \in Client |-> cursor'[d]] /\ \A d \in Client \ {c} : cursor'[d] = cursor[d]
<1>h. /\ LogTypeOK /\ StreamTypes /\ StreamTyped(c) /\ resumed[c] \in BOOLEAN /\ truncated[c] \in BOOLEAN
      /\ cursor = [d \in Client |-> cursor[d]]
  BY DEF FeedTyped
<1>d. /\ c \in DOMAIN cursor /\ c \in DOMAIN stage /\ c \in DOMAIN resumed /\ c \in DOMAIN floor
      /\ c \in DOMAIN joined /\ c \in DOMAIN buffer /\ c \in DOMAIN replayed
      /\ c \in DOMAIN durable /\ c \in DOMAIN truncated /\ c \in DOMAIN snapshot /\ c \in DOMAIN out
  BY <1>h DEF StreamTypes
<1>u. UNCHANGED logVars
  BY DEF Open, Replay, ReadStatus, GoLive
<1>l. /\ Frames' = Frames /\ Len(issued') = Len(issued) /\ Len(issued) \in Nat
      /\ \A n \in Frames : SeqNo(n)' = SeqNo(n) /\ SeqNo(n) \in Nat
      /\ State' = State /\ rows \subseteq Frames
  BY <1>h, <1>u, LogStill, SeqsNat DEF LogTypeOK
<1>o. /\ cursor[c] \in Nat /\ floor[c] \in Nat /\ stage[c] \in Stage
      /\ replayed[c] \subseteq {SeqNo(n) : n \in Frames} /\ durable[c] \subseteq Frames
      /\ buffer[c] \in Seq(Frames) /\ out[c] \in Seq(Frames \cup {State})
  BY <1>h DEF StreamTyped
<1> DEFINE CursorTo(v) == cursor' = [cursor EXCEPT ![c] = v]
<1>c. ASSUME NEW v, CursorTo(v)
      PROVE  /\ cursor'[c] = v
             /\ cursor' = [d \in Client |-> cursor'[d]] /\ \A d \in Client \ {c} : cursor'[d] = cursor[d]
  <2>1. Moved(cursor, cursor', c)
    BY <1>c, <1>h, MovedAt
  <2> QED
    BY <1>c, <1>d, <2>1 DEF Moved
<1> HIDE DEF CursorTo
<1>1. CASE Open(c)
  <2>1. PICK id \in ResumePoints(c), resume \in BOOLEAN :
          /\ resumed' = [resumed EXCEPT ![c] = resume] /\ floor' = [floor EXCEPT ![c] = id]
          /\ CursorTo(id)
    BY <1>1 DEF Open, CursorTo
  <2>2. /\ stage' = [stage EXCEPT ![c] = "subscribed"] /\ joined' = [joined EXCEPT ![c] = Len(issued)]
        /\ UNCHANGED <<member, buffer, replayed, durable, truncated, snapshot, out>>
    BY <1>1 DEF Open
  <2>3. id \in Nat
    BY <1>l DEF ResumePoints
  <2>4. /\ floor'[c] \in Nat /\ stage'[c] \in Stage /\ joined'[c] \in {joined[c], 0, Len(issued)}
        /\ resumed'[c] \in BOOLEAN /\ truncated'[c] \in BOOLEAN /\ cursor'[c] \in Nat
    BY <1>c, <1>d, <1>h, <2>1, <2>2, <2>3 DEF Stage
  <2>5. /\ snapshot'[c] \in {snapshot[c], 0, Len(issued)} /\ buffer'[c] = buffer[c] /\ out'[c] = out[c]
        /\ replayed'[c] \subseteq {SeqNo(n) : n \in Frames} /\ durable'[c] \subseteq Frames
    BY <1>o, <2>2
  <2>6. StreamTyped(c)'
    BY <1>h, <1>l, <1>o, <2>4, <2>5, StreamStaysTyped
  <2> QED
    BY <1>c, <2>1, <2>4, <2>6
<1>2. CASE Replay(c)
  <2>1. /\ stage' = [stage EXCEPT ![c] = "replayed"]
        /\ UNCHANGED <<member, resumed, floor, joined, buffer, snapshot>>
    BY <1>2 DEF Replay
  <2>2. CASE resumed[c]
    <3>1. PICK page \in ReplaySince(c) :
            /\ out' = [out EXCEPT ![c] = page]
            /\ CursorTo(IF page = <<>> THEN cursor[c] ELSE SeqNo(Last(page)))
            /\ replayed' = [replayed EXCEPT ![c] = {SeqNo(n) : n \in ToSet(page)}]
            /\ durable' = [durable EXCEPT ![c] = Found(c)]
            /\ truncated' = [truncated EXCEPT ![c] = Found(c) \ ToSet(page) # {}]
      BY <1>2, <2>2 DEF Replay, CursorTo
    <3>2. PICK m \in Nat : page \in [1 .. m -> Found(c)]
      BY DEF ReplaySince, SeqOf
    <3>3. Found(c) \subseteq Frames
      BY <1>l DEF Found
    <3>4. page \in Seq(Frames) /\ page \in Seq(Frames \cup {State}) /\ ToSet(page) \subseteq Frames
      BY <3>2, <3>3 DEF ToSet
    <3>5. (IF page = <<>> THEN cursor[c] ELSE SeqNo(Last(page))) \in Nat
      BY <1>h, <1>o, <3>4, SeqNatOf
    <3>6. /\ cursor'[c] \in Nat
          /\ cursor' = [d \in Client |-> cursor'[d]] /\ \A d \in Client \ {c} : cursor'[d] = cursor[d]
      BY <1>c, <3>1, <3>5
    <3>7. out'[c] \in Seq(Frames \cup {State}) /\ durable'[c] \subseteq Frames
      BY <1>d, <3>1, <3>3, <3>4
    <3>8. replayed'[c] \subseteq {SeqNo(n) : n \in Frames}
      BY <1>d, <3>1, <3>4
    <3>9. truncated'[c] \in BOOLEAN /\ resumed'[c] \in BOOLEAN
      BY <1>d, <1>h, <2>1, <3>1
    <3>10. /\ stage'[c] \in Stage /\ floor'[c] \in Nat /\ joined'[c] = joined[c]
           /\ buffer'[c] = buffer[c] /\ snapshot'[c] = snapshot[c]
      BY <1>d, <1>o, <2>1 DEF Stage
    <3>11. StreamTyped(c)'
      BY <1>h, <1>l, <3>6, <3>7, <3>8, <3>10, StreamStaysTyped
    <3> QED
      BY <3>6, <3>9, <3>11
  <2>3. CASE ~resumed[c]
    <3>1. UNCHANGED <<out, cursor, replayed, durable, truncated>>
      BY <1>2, <2>3 DEF Replay
    <3>2. /\ stage'[c] \in Stage /\ floor'[c] \in Nat /\ joined'[c] = joined[c]
          /\ buffer'[c] = buffer[c] /\ snapshot'[c] = snapshot[c]
      BY <1>d, <1>o, <2>1 DEF Stage
    <3>3. StreamTyped(c)'
      BY <1>h, <1>l, <1>o, <3>1, <3>2, StreamStaysTyped
    <3> QED
      BY <1>h, <2>1, <3>1, <3>3
  <2> QED
    BY <2>2, <2>3
<1>3. CASE ReadStatus(c)
  <2>1. /\ stage' = [stage EXCEPT ![c] = "read"] /\ snapshot' = [snapshot EXCEPT ![c] = Len(issued)]
        /\ UNCHANGED <<member, cursor, resumed, floor, joined, buffer, replayed, durable, truncated, out>>
    BY <1>3 DEF ReadStatus
  <2>2. stage'[c] \in Stage /\ snapshot'[c] \in {snapshot[c], 0, Len(issued)}
    BY <1>d, <2>1 DEF Stage
  <2>3. StreamTyped(c)'
    BY <1>h, <1>l, <1>o, <2>1, <2>2, StreamStaysTyped
  <2> QED
    BY <1>h, <2>1, <2>3
<1>4. CASE GoLive(c)
  <2>1. /\ stage' = [stage EXCEPT ![c] = "live"] /\ buffer' = [buffer EXCEPT ![c] = <<>>]
        /\ UNCHANGED <<member, resumed, floor, joined, replayed, durable, truncated, snapshot>>
    BY <1>4 DEF GoLive
  <2>2. PICK d \in SelectBufferedToForward(c) :
          /\ out' = [out EXCEPT ![c] = Append(out[c], State) \o d]
          /\ CursorTo(IF d = <<>> THEN cursor[c] ELSE SeqNo(Last(d)))
    BY <1>4 DEF GoLive, CursorTo
  <2>3. d \in Seq(Frames)
    <3> DEFINE left == {n \in ToSet(buffer[c]) : SeqNo(n) > floor[c] /\ SeqNo(n) \notin replayed[c]}
    <3>1. ToSet(buffer[c]) \subseteq Frames
      BY <1>o DEF ToSet
    <3>2. left \subseteq Frames
      BY <3>1
    <3>3. d \in SeqOf(left, Cardinality(left))
      BY DEF SelectBufferedToForward, InOrder
    <3> HIDE DEF left
    <3>4. \E m \in 0 .. Cardinality(left) : d \in [1 .. m -> left]
      BY <3>3 DEF SeqOf
    <3>5. PICK m : m \in 0 .. Cardinality(left) /\ d \in [1 .. m -> left]
      BY <3>4
    <3>6. DOMAIN d = 1 .. m /\ m \in Nat /\ \A i \in DOMAIN d : d[i] \in Frames
      BY <3>2, <3>5
    <3> QED
      BY <3>5, <3>6
  <2>4. (IF d = <<>> THEN cursor[c] ELSE SeqNo(Last(d))) \in Nat
    BY <1>h, <1>o, <2>3, SeqNatOf
  <2>5. /\ cursor'[c] \in Nat
        /\ cursor' = [x \in Client |-> cursor'[x]] /\ \A x \in Client \ {c} : cursor'[x] = cursor[x]
    BY <1>c, <2>2, <2>4
  <2>6. out'[c] \in Seq(Frames \cup {State})
    <3>1. d \in Seq(Frames \cup {State})
      <4>1. \A i \in DOMAIN d : d[i] \in Frames \cup {State}
        BY <2>3
      <4> QED
        BY <2>3, <4>1, SeqRange
    <3>2. Append(out[c], State) \o d \in Seq(Frames \cup {State})
      BY <1>o, <3>1
    <3> QED
      BY <1>d, <2>2, <3>2
  <2>7. /\ stage'[c] \in Stage /\ buffer'[c] = <<>>
    BY <1>d, <2>1 DEF Stage
  <2>8. StreamTyped(c)'
    BY <1>h, <1>l, <1>o, <2>1, <2>5, <2>6, <2>7, StreamStaysTyped
  <2> QED
    BY <1>h, <2>1, <2>5, <2>8
<1> QED
  BY <1>1, <1>2, <1>3, <1>4

LEMMA FeedTypedInit == FeedInit => FeedTyped
<1> SUFFICES ASSUME FeedInit PROVE FeedTyped
  OBVIOUS
<1>1. LogTypeOK /\ Len(issued) \in 0 .. MaxFrames
  BY LogTypeInit, BoundsNat DEF FeedInit, LogInit
<1>2. StreamTypes
  BY FeedInvInit DEF FeedInv
<1>3. /\ member \in [Client -> BOOLEAN] /\ resumed \in [Client -> BOOLEAN]
      /\ truncated \in [Client -> BOOLEAN] /\ cursor = [c \in Client |-> cursor[c]]
  BY DEF FeedInit
<1>4. ASSUME NEW c \in Client PROVE StreamTyped(c)
  <2>1. /\ cursor[c] = 0 /\ floor[c] = 0 /\ stage[c] = "off" /\ joined[c] = 0 /\ snapshot[c] = 0
        /\ buffer[c] = <<>> /\ out[c] = <<>> /\ replayed[c] = {} /\ durable[c] = {}
    BY DEF FeedInit
  <2>2. <<>> \in Seq(Frames) /\ <<>> \in Seq(Frames \cup {State}) /\ Len(issued) \in Nat
    BY <1>1
  <2> QED
    BY <2>1, <2>2 DEF StreamTyped, Stage
<1> QED
  BY <1>1, <1>2, <1>3, <1>4 DEF FeedTyped

LEMMA FeedTypedStep == FeedTyped /\ [FeedNext]_feedVars => FeedTyped'
<1> SUFFICES ASSUME FeedTyped, [FeedNext]_feedVars PROVE FeedTyped'
  OBVIOUS
<1>l. LogTypeOK /\ LogTypeOK' /\ Len(issued) \in Nat
  BY FeedStepsLog, LogTypeStep DEF FeedTyped, LogTypeOK
<1>h. /\ StreamTypes /\ \A c \in Client : StreamTyped(c)
      /\ member \in [Client -> BOOLEAN] /\ resumed \in [Client -> BOOLEAN]
      /\ truncated \in [Client -> BOOLEAN] /\ cursor = [c \in Client |-> cursor[c]]
      /\ Len(issued) \in 0 .. MaxFrames
  BY DEF FeedTyped
<1>s. State' = State
  BY DEF State
<1> DEFINE Goal == /\ StreamTypes' /\ cursor' = [c \in Client |-> cursor'[c]]
                   /\ member' \in [Client -> BOOLEAN] /\ resumed' \in [Client -> BOOLEAN]
                   /\ truncated' \in [Client -> BOOLEAN]
                   /\ Len(issued') \in 0 .. MaxFrames
                   /\ \A c \in Client : StreamTyped(c)'
<1>1. ASSUME NEW kind \in Kind, NEW now \in Clock, FeedPublish(kind, now) PROVE Goal
  <2>1. /\ NextSeq(now) \in Nat /\ Len(issued') = Len(issued) + 1
        /\ Frames' = Frames \cup {Len(issued) + 1}
        /\ \A n \in Frames : issued'[n] = issued[n]
    BY <1>1, <1>l, FramesAfterPublish DEF FeedPublish
  <2>2. UNCHANGED <<member, stage, resumed, floor, joined, replayed, durable, truncated, snapshot>>
    BY <1>1 DEF FeedPublish
  <2>3. /\ out' = [c \in Client |-> out'[c]] /\ buffer' = [c \in Client |-> buffer'[c]]
        /\ cursor' = [c \in Client |-> cursor'[c]]
    BY <1>1 DEF FeedPublish
  <2>4. StreamTypes'
    BY <1>h, <2>2, <2>3 DEF StreamTypes
  <2>5. Len(issued') \in 0 .. MaxFrames
    <3>1. Len(issued) < MaxFrames
      BY <1>1 DEF FeedPublish, Publish
    <3> QED
      BY <1>h, <1>l, <2>1, <3>1, BoundsNat
  <2>6. ASSUME NEW c \in Client PROVE StreamTyped(c)'
    <3>1. /\ cursor'[c] \in {cursor[c], NextSeq(now)}
          /\ out'[c] \in {out[c], Append(out[c], Len(issued) + 1)}
          /\ buffer'[c] \in {buffer[c], Append(buffer[c], Len(issued) + 1)}
      BY <1>1 DEF FeedPublish
    <3>2. /\ cursor[c] \in Nat /\ floor[c] \in Nat /\ stage[c] \in Stage
          /\ replayed[c] \subseteq {SeqNo(n) : n \in Frames} /\ durable[c] \subseteq Frames
      BY <1>h DEF StreamTyped
    <3>3. /\ Frames \subseteq Frames' /\ Len(issued) + 1 \in Frames'
          /\ Len(issued) <= Len(issued') /\ Len(issued') \in Nat
          /\ \A n \in Frames : SeqNo(n)' = SeqNo(n)
      BY <1>l, <2>1 DEF SeqNo
    <3>4. cursor'[c] \in Nat
      BY <2>1, <3>1, <3>2
    <3>5. /\ buffer'[c] \in {buffer[c], <<>>} \cup {Append(buffer[c], n) : n \in Frames'}
          /\ out'[c] \in {out[c], <<>>} \cup {Append(out[c], n) : n \in Frames'}
      BY <3>1, <3>3
    <3> QED
      BY <1>h, <1>l, <1>s, <2>2, <3>2, <3>3, <3>4, <3>5, StreamStaysTyped
  <2>7. /\ member' \in [Client -> BOOLEAN] /\ resumed' \in [Client -> BOOLEAN]
        /\ truncated' \in [Client -> BOOLEAN]
    BY <1>h, <2>2
  <2> QED
    BY <2>3, <2>4, <2>5, <2>6, <2>7
<1>2. ASSUME NEW c \in Client, Open(c) \/ Replay(c) \/ ReadStatus(c) \/ GoLive(c) PROVE Goal
  <2>1. UNCHANGED logVars /\ StreamTypes' /\ \A d \in Client \ {c} : Still(d)
    BY <1>2, <1>h, ClientsApart
  <2>2. /\ StreamTyped(c)' /\ resumed'[c] \in BOOLEAN /\ truncated'[c] \in BOOLEAN
        /\ cursor' = [d \in Client |-> cursor'[d]] /\ \A d \in Client \ {c} : cursor'[d] = cursor[d]
    BY <1>2, ActorTyped
  <2>3. \A d \in Client \ {c} : StreamTyped(d)'
    <3> SUFFICES ASSUME NEW d \in Client, d # c PROVE StreamTyped(d)'
      OBVIOUS
    <3>1. Still(d) /\ cursor'[d] = cursor[d] /\ StreamTyped(d)
      BY <1>h, <2>1, <2>2
    <3>2. /\ Frames' = Frames /\ Len(issued') = Len(issued) /\ State' = State
          /\ \A n : SeqNo(n)' = SeqNo(n)
      BY <2>1, LogStill
    <3> QED
      BY <3>1, <3>2 DEF StreamTyped, Still
  <2>4. ASSUME NEW d \in Client PROVE resumed'[d] \in BOOLEAN /\ truncated'[d] \in BOOLEAN
    <3>1. CASE d = c
      BY <2>2, <3>1
    <3>2. CASE d # c
      <4>1. resumed'[d] = resumed[d] /\ truncated'[d] = truncated[d]
        BY <2>1, <3>2 DEF Still
      <4> QED
        BY <1>h, <4>1
    <3> QED
      BY <3>1, <3>2
  <2>5. resumed' = [d \in Client |-> resumed'[d]] /\ truncated' = [d \in Client |-> truncated'[d]]
    BY <2>1 DEF StreamTypes
  <2>6. resumed' \in [Client -> BOOLEAN] /\ truncated' \in [Client -> BOOLEAN]
    BY <2>4, <2>5
  <2>7. member' = member /\ Len(issued') = Len(issued)
    <3>1. member' = member
      BY <1>2 DEF Open, Replay, ReadStatus, GoLive
    <3> QED
      BY <2>1, <3>1, LogStill
  <2> QED
    BY <1>h, <2>1, <2>2, <2>3, <2>6, <2>7
<1>3. ASSUME NEW C \in SUBSET Client, EndStreams(C), issued' = issued PROVE Goal
  <2>1. /\ stage' = [c \in Client |-> IF c \in C THEN "off" ELSE stage[c]]
        /\ resumed' = [c \in Client |-> resumed[c] /\ c \notin C]
        /\ floor' = [c \in Client |-> IF c \in C THEN 0 ELSE floor[c]]
        /\ joined' = [c \in Client |-> IF c \in C THEN 0 ELSE joined[c]]
        /\ buffer' = [c \in Client |-> IF c \in C THEN <<>> ELSE buffer[c]]
        /\ replayed' = [c \in Client |-> IF c \in C THEN {} ELSE replayed[c]]
        /\ durable' = [c \in Client |-> IF c \in C THEN {} ELSE durable[c]]
        /\ truncated' = [c \in Client |-> truncated[c] /\ c \notin C]
        /\ snapshot' = [c \in Client |-> IF c \in C THEN 0 ELSE snapshot[c]]
        /\ out' = [c \in Client |-> IF c \in C THEN <<>> ELSE out[c]]
        /\ cursor' = [c \in Client |-> IF c \in C THEN 0 ELSE cursor[c]]
        /\ member' = member
    BY <1>3 DEF EndStreams
  <2>2. /\ resumed' \in [Client -> BOOLEAN] /\ truncated' \in [Client -> BOOLEAN]
    BY <2>1
  <2>3. /\ stage' = [c \in Client |-> stage'[c]] /\ floor' = [c \in Client |-> floor'[c]]
        /\ joined' = [c \in Client |-> joined'[c]] /\ buffer' = [c \in Client |-> buffer'[c]]
        /\ replayed' = [c \in Client |-> replayed'[c]] /\ durable' = [c \in Client |-> durable'[c]]
    BY <2>1
  <2>4. /\ snapshot' = [c \in Client |-> snapshot'[c]] /\ out' = [c \in Client |-> out'[c]]
        /\ cursor' = [c \in Client |-> cursor'[c]]
    BY <2>1
  <2>5. StreamTypes'
    <3>1. member' = [c \in Client |-> member'[c]]
      BY <1>h, <2>1
    <3>2. resumed' = [c \in Client |-> resumed'[c]] /\ truncated' = [c \in Client |-> truncated'[c]]
      BY <2>2
    <3> QED
      BY <2>3, <2>4, <3>1, <3>2 DEF StreamTypes
  <2>6. ASSUME NEW c \in Client PROVE StreamTyped(c)'
    <3>1. /\ StreamTyped(c) /\ cursor[c] \in Nat /\ floor[c] \in Nat /\ stage[c] \in Stage
          /\ replayed[c] \subseteq {SeqNo(n) : n \in Frames} /\ durable[c] \subseteq Frames
      BY <1>h DEF StreamTyped
    <3>2. /\ cursor'[c] \in Nat /\ floor'[c] \in Nat /\ stage'[c] \in Stage
          /\ joined'[c] \in {joined[c], 0, Len(issued)} /\ snapshot'[c] \in {snapshot[c], 0, Len(issued)}
      BY <2>1, <3>1 DEF Stage
    <3>3. buffer'[c] \in {buffer[c], <<>>} /\ out'[c] \in {out[c], <<>>}
      BY <2>1
    <3>4. replayed'[c] \subseteq {SeqNo(n) : n \in Frames} /\ durable'[c] \subseteq Frames
      BY <2>1, <3>1
    <3>5. /\ Frames \subseteq Frames' /\ Len(issued) <= Len(issued') /\ Len(issued') \in Nat
          /\ \A n \in Frames : SeqNo(n)' = SeqNo(n)
      BY <1>3, <1>l DEF Frames, SeqNo
    <3> QED
      BY <1>l, <1>s, <3>1, <3>2, <3>3, <3>4, <3>5, StreamStaysTyped
  <2> QED
    BY <1>3, <1>h, <2>1, <2>2, <2>4, <2>5, <2>6
<1>4. ASSUME LogOnly \/ UNCHANGED feedVars PROVE Goal
  <2>1. UNCHANGED <<member, streamVars>>
    BY <1>4 DEF LogOnly, feedVars
  <2>2. issued' = issued
    <3>1. CASE LogOnly
      <4>1. (\/ TouchWatermark \/ SeedReadAll \/ SeedReadPublic \/ SeedApplies \/ SeedFails
             \/ WriteSettles \/ Purge)
        BY <3>1 DEF LogOnly
      <4> QED
        BY <1>l, <4>1, LogQuiet
    <3>2. CASE UNCHANGED feedVars
      BY <3>2 DEF feedVars, logVars
    <3> QED
      BY <1>4, <3>1, <3>2
  <2>3. /\ UNCHANGED <<member, cursor, stage, resumed, floor, joined, buffer, replayed, durable,
                       truncated, snapshot, out>>
    BY <2>1 DEF streamVars
  <2>4. StreamTypes'
    BY <1>h, <2>3 DEF StreamTypes
  <2>5. ASSUME NEW c \in Client PROVE StreamTyped(c)'
    <3>1. Frames' = Frames /\ \A n : SeqNo(n)' = SeqNo(n)
      BY <2>2 DEF Frames, SeqNo
    <3>2. StreamTyped(c)
      BY <1>h
    <3> QED
      BY <1>s, <2>2, <2>3, <3>1, <3>2 DEF StreamTyped
  <2> QED
    BY <1>h, <2>2, <2>3, <2>4, <2>5
<1>5. Goal
  <2>1. \/ \E kind \in Kind, now \in Clock : FeedPublish(kind, now)
        \/ \E c \in Client : Open(c) \/ Replay(c) \/ ReadStatus(c) \/ GoLive(c)
        \/ \E c \in Client : Disconnect(c)
        \/ FeedRestart
        \/ LogOnly \/ UNCHANGED feedVars
    BY DEF FeedNext
  <2>2. ASSUME NEW c \in Client, Disconnect(c) PROVE Goal
    <3>1. EndStreams({c}) /\ issued' = issued /\ {c} \in SUBSET Client
      BY <2>2 DEF Disconnect, logVars
    <3> QED
      BY <1>3, <3>1
  <2>3. ASSUME FeedRestart PROVE Goal
    <3>1. EndStreams(Client) /\ issued' = issued /\ Client \in SUBSET Client
      BY <2>3 DEF FeedRestart, Restart
    <3> QED
      BY <1>3, <3>1
  <2> HIDE DEF Goal
  <2> QED
    BY <1>1, <1>2, <1>4, <2>1, <2>2, <2>3
<1> QED
  BY <1>5, <1>l DEF FeedTyped

(* The types of the feed hold for every clock.                             *)
THEOREM FeedTypeTheorem == FeedSpec => []FeedTypeOK
<1>1. FeedInit => FeedTyped
  BY FeedTypedInit
<1>2. FeedTyped /\ [FeedNext]_feedVars => FeedTyped'
  BY FeedTypedStep
<1>3. FeedTyped => FeedTypeOK
  <2> SUFFICES ASSUME FeedTyped PROVE FeedTypeOK
    OBVIOUS
  <2>1. /\ LogTypeOK /\ Len(issued) \in 0 .. MaxFrames /\ StreamTypes /\ \A c \in Client : StreamTyped(c)
        /\ member \in [Client -> BOOLEAN] /\ resumed \in [Client -> BOOLEAN]
        /\ truncated \in [Client -> BOOLEAN] /\ cursor = [c \in Client |-> cursor[c]]
    BY DEF FeedTyped
  <2>2. cursor \in [Client -> Nat] /\ floor \in [Client -> Nat] /\ stage \in [Client -> Stage]
    BY <2>1 DEF StreamTyped, StreamTypes
  <2>3. joined \in [Client -> 0 .. MaxFrames] /\ snapshot \in [Client -> 0 .. MaxFrames]
    <3>1. 0 .. Len(issued) \subseteq 0 .. MaxFrames
      BY <2>1, BoundsNat
    <3>2. \A c \in Client : joined[c] \in 0 .. MaxFrames /\ snapshot[c] \in 0 .. MaxFrames
      BY <2>1, <3>1 DEF StreamTyped
    <3> QED
      BY <2>1, <3>2 DEF StreamTypes
  <2>4. \A c \in Client : /\ ToSet(buffer[c]) \subseteq Frames
                          /\ replayed[c] \subseteq {SeqNo(n) : n \in Frames}
                          /\ durable[c] \subseteq Frames
                          /\ ToSet(out[c]) \subseteq Frames \cup {State}
    <3> SUFFICES ASSUME NEW c \in Client
                 PROVE  /\ ToSet(buffer[c]) \subseteq Frames
                        /\ replayed[c] \subseteq {SeqNo(n) : n \in Frames}
                        /\ durable[c] \subseteq Frames
                        /\ ToSet(out[c]) \subseteq Frames \cup {State}
      OBVIOUS
    <3>1. /\ buffer[c] \in Seq(Frames) /\ out[c] \in Seq(Frames \cup {State})
          /\ replayed[c] \subseteq {SeqNo(n) : n \in Frames} /\ durable[c] \subseteq Frames
      BY <2>1 DEF StreamTyped
    <3> QED
      BY <3>1 DEF ToSet
  <2> QED
    BY <2>1, <2>2, <2>3, <2>4 DEF FeedTypeOK
<1> QED
  BY <1>1, <1>2, <1>3, PTL DEF FeedSpec

=============================================================================
