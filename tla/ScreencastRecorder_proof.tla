----------------------- MODULE ScreencastRecorder_proof -----------------------
(***************************************************************************)
(* The safety properties of ScreencastRecorder for any number of frames,   *)
(* any sizes and limits, and any grid.                                     *)
(*                                                                         *)
(* The invariant speaks of Sent, the blocks written and pending, and not   *)
(* of what is written, so that the writer's own steps leave it alone.  It  *)
(* says that Sent ascends and stays behind the end of the timeline         *)
(* (LineInv), that up to that end it shows each frame for its span as long *)
(* as nothing was thrown away (ShownInv), that the stop leaves two blocks  *)
(* one step apart at its end (EndInv), and that no hold has pushed the     *)
(* timeline past what a punctual frame may still claim (PunctualInv).      *)
(***************************************************************************)
EXTENDS ScreencastRecorder, SequenceTheorems, TLAPS

\* The blocks queued so far and not thrown away, in their order.
Sent == written \o pending

Ascends(s) ==
    \A i, j \in DOMAIN s : i < j => s[i].position < s[j].position

Below(s, end) == \A i \in DOMAIN s : s[i].position < end

\* At position p the blocks s show a frame of fs, the last that starts there
\* or before.
Pictured(s, fs, p) ==
    \E i \in DOMAIN s :
       /\ s[i].position <= p
       /\ \A j \in DOMAIN s : s[j].position <= p => j <= i
       /\ s[i].frame \in DOMAIN fs
       /\ fs[s[i].frame].start <= p
       /\ \A g \in DOMAIN fs : fs[g].start <= p => g <= s[i].frame

Before == {"none", "flushing"}

\* What goes with the types: who holds which frame, and what is empty when.
TypeInv ==
    /\ TypeOK
    /\ Len(frames) <= received
    /\ latest # NoFrame => latest \in HeldFrames /\ latest.id = Len(frames)
    /\ writer = "idle" => pending = <<>>
    /\ frames = <<>> => emitted = 0 /\ Sent = <<>>

\* How far stop and abort are, and what has become of the encoder.
ProcessInv ==
    /\ cutShort = "no" /\ ~inputEnded /\ aborting = "no"
       => encoder = "running" /\ input = "open"
    /\ encoder = "running" => cutShort = "no"
    /\ stop \in Before \union {"draining"} => ~inputEnded
    /\ stop \in {"ending", "detaching"} => inputEnded
    /\ stop = "returned" /\ aborting = "no" => inputEnded
    /\ stop \notin Before \/ aborting # "no" => stopped
    /\ inputEnded => pending = <<>> /\ writer = "idle"
    /\ engine = "capturing" => stop = "none"
    /\ engine \in {"capturing", "stopping"} => aborting = "no"
    /\ verdict = "healthy" =>
          /\ aborting = "no" /\ inputEnded /\ incomplete = "no"
          /\ engine = "done"
    /\ cutShort = "seen" =>
          \/ incomplete # "no" \/ aborting # "no"
          \/ ~inputEnded /\ encoder = "exited"

\* Blocks ascend and none is at or behind the end of the timeline.
LineInv == Ascends(Sent) /\ Below(Sent, emitted)

\* The encoder has read to the end or still does, and nothing was dropped.
Intact == cutShort = "no" /\ aborting = "no"

\* The timeline is covered, and the last frame starts within it, or where it
\* ends while that frame is still held.
ShownInv ==
    Intact =>
       /\ frames # <<>> /\ stop \in Before => latest # NoFrame
       /\ \A p \in 0..(emitted - 1) : Pictured(Sent, frames, p)
       /\ frames # <<>> =>
             /\ Last(frames).start <= emitted
             /\ (stop \in Before => latest.shown) => Last(frames).start < emitted

\* From the flush until the encoder has closed.
EndInv ==
    /\ \/ stop = "draining" /\ Intact
       \/ stop = "ending" /\ cutShort = "no"
    /\ Len(Sent) > 1
    => /\ PositionFromEnd(Sent, 1) = emitted - 1
       /\ PositionFromEnd(Sent, 2) = emitted - 2

\* The timeline ends no later than the held frame's own time or a hold that
\* keeps HoldLag behind the slack of Chrome's timestamps.
PunctualInv ==
    input = "open" /\ ~stopped =>
       /\ latest = NoFrame => received = 0 /\ emitted = 0
       /\ latest # NoFrame =>
             /\ anchor <= latest.receivedAt /\ latest.receivedAt <= now
             /\ latest.elapsed <= latest.receivedAt - anchor + Slack
             /\ \/ emitted <= GridPosition(latest.elapsed)
                \/ emitted <= GridPosition(now - anchor + Slack - HoldLag)

\* The blocks s show the frames fs right up to any position: what is said of
\* the last frame also holds where the timeline has not ended yet.
Complete(s, fs) == \A p \in Nat : Pictured(s, fs, p)

FrameRecords == [size : Sizes, start : Nat]

\* The inductive invariant.
IInv == TypeInv /\ ProcessInv /\ LineInv /\ ShownInv /\ EndInv /\ PunctualInv

----------------------------------------------------------------------------
(* The grid.                                                               *)

LEMMA GridInt == \A t \in Int : GridPosition(t) \in Int
  BY TimeAssumption DEF GridPosition

LEMMA GridZero == GridPosition(0) = 0
  BY TimeAssumption DEF GridPosition

LEMMA DivMonotone ==
  ASSUME NEW a \in Int, NEW b \in Int, NEW d \in Nat \ {0}, a <= b
  PROVE  a \div d <= b \div d
<1> DEFINE q == a \div d  r == b \div d
<1>1. q \in Int /\ r \in Int /\ d * q <= a /\ b < d * r + d
  OBVIOUS
<1>2. d * q < d * (r + 1)
  BY <1>1
<1>3. q < r + 1
  BY <1>1, <1>2
<1>4. QED
  BY <1>1, <1>3

LEMMA GridMonotone ==
  \A a, b \in Int : a <= b => GridPosition(a) <= GridPosition(b)
<1> SUFFICES ASSUME NEW a \in Int, NEW b \in Int, a <= b
             PROVE  GridPosition(a) <= GridPosition(b)
  OBVIOUS
<1>1. TicksPerStep \in Nat \ {0}
  BY TimeAssumption
<1>2. 2 * TicksPerStep \in Nat \ {0}
  BY <1>1
<1>3. 2 * a + TicksPerStep \in Int /\ 2 * b + TicksPerStep \in Int
  BY <1>1
<1>4. 2 * a + TicksPerStep <= 2 * b + TicksPerStep
  BY <1>1
<1>5. QED
  BY <1>2, <1>3, <1>4, DivMonotone DEF GridPosition

----------------------------------------------------------------------------
(* Adding a block at the end.                                              *)

LEMMA BlockTypes ==
  \A s \in Seq(Blocks) : \A i \in DOMAIN s :
     s[i] \in Blocks /\ s[i].position \in Nat /\ s[i].frame \in Nat
<1> SUFFICES ASSUME NEW s \in Seq(Blocks), NEW i \in DOMAIN s
             PROVE  s[i] \in Blocks /\ s[i].position \in Nat /\ s[i].frame \in Nat
  OBVIOUS
<1>1. s[i] \in Blocks
  OBVIOUS
<1>2. MaxFrames \in Nat
  BY LimitAssumption
<1>3. QED
  BY <1>1, <1>2 DEF Blocks

LEMMA FrameTypes ==
  \A fs \in Seq(FrameRecords) : \A i \in DOMAIN fs : fs[i].start \in Nat
<1> SUFFICES ASSUME NEW fs \in Seq(FrameRecords), NEW i \in DOMAIN fs
             PROVE  fs[i].start \in Nat
  OBVIOUS
<1>1. fs[i] \in FrameRecords
  OBVIOUS
<1>2. QED
  BY <1>1 DEF FrameRecords

LEMMA Appended ==
  ASSUME NEW s \in Seq(Blocks), NEW b \in Blocks
  PROVE  LET t == s \o <<b>> IN
         /\ t \in Seq(Blocks) /\ Len(t) = Len(s) + 1
         /\ t[Len(t)] = b /\ \A i \in DOMAIN s : t[i] = s[i]
  OBVIOUS

\* A block behind all others keeps the order.
LEMMA AppendAscends ==
  ASSUME NEW s \in Seq(Blocks), NEW b \in Blocks,
         Ascends(s), Below(s, b.position)
  PROVE  Ascends(s \o <<b>>) /\ Below(s \o <<b>>, b.position + 1)
<1> DEFINE t == s \o <<b>>
<1>1. t \in Seq(Blocks) /\ Len(t) = Len(s) + 1 /\ t[Len(t)] = b
      /\ \A i \in DOMAIN s : t[i] = s[i]
  BY Appended
<1>2. \A i \in DOMAIN t : t[i].position \in Nat
  BY <1>1, BlockTypes
<1> HIDE DEF t
<1>3. \A i \in DOMAIN t : i \in DOMAIN s \/ i = Len(t)
  BY <1>1
<1>4. \A i \in DOMAIN s : t[i].position < b.position
  BY <1>1 DEF Below
<1>5. Ascends(t)
  BY <1>1, <1>3, <1>4 DEF Ascends
<1>6. Below(t, b.position + 1)
  BY <1>1, <1>2, <1>3, <1>4 DEF Below
<1>7. QED
  BY <1>5, <1>6 DEF t

\* With blocks right up to q, one that shows the last frame from q on completes
\* the timeline.
LEMMA AppendCompletes ==
  ASSUME NEW s \in Seq(Blocks), NEW b \in Blocks, NEW fs \in Seq(FrameRecords),
         Below(s, b.position), fs # <<>>, b.frame = Len(fs),
         fs[Len(fs)].start <= b.position,
         \A p \in 0..(b.position - 1) : Pictured(s, fs, p)
  PROVE  Complete(s \o <<b>>, fs)
<1> DEFINE t == s \o <<b>>
<1>1. t \in Seq(Blocks) /\ Len(t) = Len(s) + 1 /\ t[Len(t)] = b
      /\ \A i \in DOMAIN s : t[i] = s[i]
  BY Appended
<1> HIDE DEF t
<1>2. b.position \in Nat
  BY DEF Blocks
<1>3. \A i \in DOMAIN t : i \in DOMAIN s \/ i = Len(t)
  BY <1>1
<1>4. ASSUME NEW p \in Nat, p < b.position PROVE Pictured(t, fs, p)
  <2>1. Pictured(s, fs, p)
    BY <1>2, <1>4
  <2>2. PICK i \in DOMAIN s :
          /\ s[i].position <= p
          /\ \A j \in DOMAIN s : s[j].position <= p => j <= i
          /\ s[i].frame \in DOMAIN fs
          /\ fs[s[i].frame].start <= p
          /\ \A g \in DOMAIN fs : fs[g].start <= p => g <= s[i].frame
    BY <2>1 DEF Pictured
  <2>3. i \in DOMAIN t /\ t[i] = s[i]
    BY <1>1
  <2>4. \A j \in DOMAIN t : t[j].position <= p => j <= i
    BY <1>1, <1>2, <1>3, <1>4, <2>2
  <2>5. QED
    BY <2>2, <2>3, <2>4 DEF Pictured
<1>5. ASSUME NEW p \in Nat, p >= b.position PROVE Pictured(t, fs, p)
  <2>1. Len(t) \in DOMAIN t /\ Len(fs) \in DOMAIN fs
    BY <1>1
  <2>2. fs[Len(fs)].start <= p
    BY <1>2, <1>5, <2>1, FrameTypes
  <2>3. QED
    BY <1>1, <1>2, <1>5, <2>1, <2>2 DEF Pictured
<1>6. QED
  BY <1>2, <1>4, <1>5 DEF Complete, t

\* So does one that is there already.
LEMMA LastCompletes ==
  ASSUME NEW s \in Seq(Blocks), NEW fs \in Seq(FrameRecords), NEW e \in Nat,
         s # <<>>, fs # <<>>, Below(s, e), s[Len(s)].frame = Len(fs),
         fs[Len(fs)].start <= e,
         \A p \in 0..(e - 1) : Pictured(s, fs, p)
  PROVE  Complete(s, fs)
<1>1. Len(s) \in DOMAIN s /\ Len(fs) \in DOMAIN fs
  OBVIOUS
<1>2. \A i \in DOMAIN s : s[i].position \in Nat
  BY BlockTypes
<1>3. ASSUME NEW p \in Nat, p >= e PROVE Pictured(s, fs, p)
  <2>1. s[Len(s)].position <= p /\ fs[Len(fs)].start <= p
    BY <1>1, <1>2, <1>3, FrameTypes DEF Below
  <2>2. /\ \A j \in DOMAIN s : j <= Len(s)
        /\ \A g \in DOMAIN fs : g <= Len(fs)
    OBVIOUS
  <2>3. QED
    BY <1>1, <2>1, <2>2 DEF Pictured
<1>4. QED
  BY <1>3 DEF Complete

\* In a complete timeline the last block shows the last frame.
LEMMA CompleteLast ==
  ASSUME NEW s \in Seq(Blocks), NEW fs \in Seq(FrameRecords), fs # <<>>,
         Complete(s, fs), Ascends(s)
  PROVE  /\ s # <<>> /\ s[Len(s)].frame = Len(fs)
         /\ fs[Len(fs)].start <= s[Len(s)].position
<1>1. Pictured(s, fs, 0)
  BY DEF Complete
<1>2. s # <<>> /\ Len(s) \in DOMAIN s /\ Len(fs) \in DOMAIN fs
  BY <1>1 DEF Pictured
<1>3. s[Len(s)].position \in Nat /\ fs[Len(fs)].start \in Nat
  BY <1>2, BlockTypes, FrameTypes
<1>4. \A i \in DOMAIN s : s[i].position <= s[Len(s)].position
  <2>1. ASSUME NEW i \in DOMAIN s, i # Len(s)
        PROVE  s[i].position < s[Len(s)].position
    BY <1>2, <2>1 DEF Ascends
  <2>2. QED
    BY <1>3, <2>1, BlockTypes
<1> DEFINE p == s[Len(s)].position + fs[Len(fs)].start
<1>5. Pictured(s, fs, p)
  BY <1>3 DEF Complete
<1>6. PICK i \in DOMAIN s :
        /\ \A j \in DOMAIN s : s[j].position <= p => j <= i
        /\ s[i].frame \in DOMAIN fs
        /\ \A g \in DOMAIN fs : fs[g].start <= p => g <= s[i].frame
  BY <1>5 DEF Pictured
<1>7. s[Len(s)].position <= p /\ fs[Len(fs)].start <= p
  BY <1>3
<1>8. i = Len(s) /\ s[i].frame = Len(fs)
  BY <1>2, <1>6, <1>7
<1>9. Pictured(s, fs, s[Len(s)].position)
  BY <1>3 DEF Complete
<1>10. PICK k \in DOMAIN s :
        /\ \A j \in DOMAIN s : s[j].position <= s[Len(s)].position => j <= k
        /\ fs[s[k].frame].start <= s[Len(s)].position
  BY <1>9 DEF Pictured
<1>11. k = Len(s)
  BY <1>2, <1>3, <1>10
<1>12. QED
  BY <1>2, <1>8, <1>10, <1>11

----------------------------------------------------------------------------
(* What is queued.                                                         *)

\* The block that shows the held frame from position p on.
HeldBlock(p) == [frame |-> latest.id, position |-> p]

LEMMA HeldBlocks ==
  ASSUME TypeInv, latest # NoFrame
  PROVE  /\ latest.id \in 1..MaxFrames /\ latest.id = Len(frames)
         /\ frames # <<>> /\ frames \in Seq(FrameRecords)
         /\ \A p \in Nat : HeldBlock(p) \in Blocks
         /\ BlocksOfLatest(<<>>) = <<>>
         /\ \A p : BlocksOfLatest(<<p>>) = <<HeldBlock(p)>>
         /\ \A p, q : BlocksOfLatest(<<p, q>>) = <<HeldBlock(p), HeldBlock(q)>>
<1>1. /\ latest.id \in DOMAIN frames /\ latest.id = Len(frames)
      /\ frames \in Seq(FrameRecords) /\ Len(frames) <= received
      /\ received \in 0..MaxFrames
  BY DEF TypeInv, TypeOK, FrameRecords
<1>2. MaxFrames \in Nat
  BY LimitAssumption
<1>3. latest.id \in 1..MaxFrames /\ frames # <<>>
  BY <1>1, <1>2
<1>4. QED
  BY <1>1, <1>3 DEF HeldBlock, BlocksOfLatest, Blocks

LEMMA Regroup ==
  ASSUME NEW r \in Seq(Blocks), NEW s \in Seq(Blocks), NEW t \in Seq(Blocks)
  PROVE  (r \o s) \o t = r \o (s \o t)
  BY ConcatAssociative

LEMMA Split ==
  ASSUME NEW s \in Seq(Blocks), NEW n \in 0..Len(s)
  PROVE  /\ SubSeq(s, 1, n) \in Seq(Blocks)
         /\ SubSeq(s, n + 1, Len(s)) \in Seq(Blocks)
         /\ SubSeq(s, 1, n) \o SubSeq(s, n + 1, Len(s)) = s
<1> DEFINE a == SubSeq(s, 1, n)  b == SubSeq(s, n + 1, Len(s))
<1>1. a \in Seq(Blocks) /\ Len(a) = n /\ \A i \in 1..n : a[i] = s[i]
  OBVIOUS
<1>2. b \in Seq(Blocks) /\ Len(b) = Len(s) - n
      /\ \A i \in 1..(Len(s) - n) : b[i] = s[n + i]
  OBVIOUS
<1> HIDE DEF a, b
<1>3. a \o b \in Seq(Blocks) /\ Len(a \o b) = Len(s)
      /\ \A i \in 1..Len(s) : (a \o b)[i] = s[i]
  <2>1. /\ a \o b \in Seq(Blocks) /\ Len(a \o b) = Len(a) + Len(b)
        /\ \A i \in 1..(Len(a) + Len(b)) :
              (a \o b)[i] = IF i <= Len(a) THEN a[i] ELSE b[i - Len(a)]
    BY <1>1, <1>2, ConcatProperties
  <2>2. ASSUME NEW i \in 1..Len(s), i > n PROVE b[i - n] = s[i]
    <3>1. i - n \in 1..(Len(s) - n) /\ n + (i - n) = i
      BY <2>2
    <3>2. QED
      BY <1>2, <3>1
  <2>3. QED
    BY <1>1, <1>2, <2>1, <2>2
<1>4. a \o b = s
  BY <1>3, SeqEqual
<1>5. QED
  BY <1>1, <1>2, <1>4 DEF a, b

\* enqueue() appends its blocks to what has been sent, and leaves none behind
\* without a writer.
LEMMA Enqueued ==
  ASSUME TypeInv, NEW blocks \in Seq(Blocks), Enqueue(blocks)
  PROVE  /\ Sent' = Sent \o blocks
         /\ written' \in Seq(Blocks) /\ pending' \in Seq(Blocks)
         /\ writer' \in {"idle", "blocked", "yielded"}
         /\ writer' = "idle" => pending' = <<>>
<1>1. written \in Seq(Blocks) /\ pending \in Seq(Blocks)
      /\ writer \in {"idle", "blocked", "yielded"}
      /\ (writer = "idle" => pending = <<>>)
  BY DEF TypeInv, TypeOK
<1>2. CASE writer # "idle"
  <2>1. pending' = pending \o blocks /\ UNCHANGED <<writer, written>>
    BY <1>2 DEF Enqueue
  <2>2. (written \o pending) \o blocks = written \o (pending \o blocks)
    BY <1>1, Regroup
  <2>3. QED
    BY <1>1, <1>2, <2>1, <2>2 DEF Sent
<1>3. CASE writer = "idle"
  <2>1. PICK n \in 0..Len(blocks) :
          /\ written' = written \o SubSeq(blocks, 1, n)
          /\ pending' = SubSeq(blocks, n + 1, Len(blocks))
          /\ \/ n = Len(blocks) /\ writer' = "idle"
             \/ n > 0 /\ writer' = "blocked"
    BY <1>3 DEF Enqueue
  <2> DEFINE a == SubSeq(blocks, 1, n)  b == SubSeq(blocks, n + 1, Len(blocks))
  <2>2. a \in Seq(Blocks) /\ b \in Seq(Blocks)
    BY Split
  <2>3. a \o b = blocks
    BY Split
  <2>7. n = Len(blocks) => b = <<>>
    OBVIOUS
  <2> HIDE DEF a, b
  <2>4. (written \o a) \o b = written \o (a \o b)
    BY <1>1, <2>2, Regroup
  <2>5. Sent = written
    BY <1>1, <1>3, ConcatEmptySeq DEF Sent
  <2>6. Sent' = Sent \o blocks
    BY <2>1, <2>3, <2>4, <2>5 DEF Sent, a, b
  <2>8. QED
    BY <1>1, <2>1, <2>2, <2>6, <2>7 DEF a, b
<1>4. QED
  BY <1>2, <1>3

\* The block that extends the timeline is of the held frame and starts where
\* the timeline ends; without one the last block pending shows that frame.
LEMMA Extensions ==
  ASSUME TypeInv, latest # NoFrame, NEW position \in Int
  PROVE  /\ Extension(position) \in Seq(Blocks)
         /\ \/ /\ position > emitted /\ Writable
               /\ Extension(position) = <<HeldBlock(emitted)>>
            \/ /\ Extension(position) = <<>>
               /\ \/ position <= emitted \/ ~Writable
                  \/ pending # <<>> /\ Last(pending).frame = Len(frames)
<1>1. emitted \in Nat
  BY DEF TypeInv, TypeOK
<1>2. /\ HeldBlock(emitted) \in Blocks /\ latest.id = Len(frames)
      /\ BlocksOfLatest(<<emitted>>) = <<HeldBlock(emitted)>>
  BY <1>1, HeldBlocks
<1>3. <<HeldBlock(emitted)>> \in Seq(Blocks) /\ <<>> \in Seq(Blocks)
  BY <1>2
<1>4. CASE position > emitted /\ Writable
           /\ (pending # <<>> => Last(pending).frame # latest.id)
  BY <1>2, <1>3, <1>4 DEF Extension
<1>5. CASE ~(position > emitted /\ Writable
             /\ (pending # <<>> => Last(pending).frame # latest.id))
  <2>1. Extension(position) = <<>>
    BY <1>5 DEF Extension
  <2>2. position > emitted \/ position <= emitted
    BY <1>1
  <2>3. QED
    BY <1>2, <1>3, <1>5, <2>1, <2>2
<1>6. QED
  BY <1>4, <1>5

LEMMA LargerInt ==
  \A a, b \in Int :
     Larger(a, b) \in Int /\ a <= Larger(a, b) /\ b <= Larger(a, b)
     /\ Larger(a, b) \in {a, b}
  BY DEF Larger

\* The end of the video: the order is kept, the timeline stays complete, and the
\* last two blocks are one step apart.
LEMMA Endings ==
  ASSUME TypeInv, latest # NoFrame, NEW s \in Seq(Blocks), NEW end \in Nat,
         Ascends(s), Below(s, end)
  PROVE  LET ends == EndPositions(end, s)
             t == s \o BlocksOfLatest(ends)
             last == IF ends # <<>> /\ Last(ends) = end THEN end + 1 ELSE end
         IN  /\ BlocksOfLatest(ends) \in Seq(Blocks)
             /\ Ascends(t) /\ Below(t, last)
             /\ Len(t) > 1 => /\ PositionFromEnd(t, 1) = last - 1
                              /\ PositionFromEnd(t, 2) = last - 2
             /\ Complete(s, frames) => Complete(t, frames)
<1> DEFINE ends == EndPositions(end, s)
           t == s \o BlocksOfLatest(ends)
           last == IF ends # <<>> /\ Last(ends) = end THEN end + 1 ELSE end
           l == PositionFromEnd(s, 1)
           Goal == /\ BlocksOfLatest(ends) \in Seq(Blocks)
                   /\ Ascends(t) /\ Below(t, last)
                   /\ Len(t) > 1 => /\ PositionFromEnd(t, 1) = last - 1
                                    /\ PositionFromEnd(t, 2) = last - 2
                   /\ Complete(s, frames) => Complete(t, frames)
<1> SUFFICES Goal
  OBVIOUS
<1>1. /\ l \in Int /\ -1 <= l /\ l < end
      /\ s = <<>> => l = -1
      /\ s # <<>> => l = s[Len(s)].position
  BY BlockTypes DEF PositionFromEnd, Below
<1>2. \A q \in Nat : l < q => Below(s, q)
  <2> SUFFICES ASSUME NEW q \in Nat, l < q, NEW i \in DOMAIN s
               PROVE  s[i].position < q
    BY DEF Below
  <2>1. CASE i = Len(s)
    BY <1>1, <2>1
  <2>2. CASE i # Len(s)
    <3>1. i < Len(s) /\ Len(s) \in DOMAIN s
      BY <2>2
    <3>2. s[i].position < s[Len(s)].position
      BY <3>1 DEF Ascends
    <3>3. QED
      BY <1>1, <3>1, <3>2, BlockTypes
  <2>3. QED
    BY <2>1, <2>2
<1>3. /\ latest.id = Len(frames) /\ frames # <<>>
      /\ frames \in Seq(FrameRecords)
      /\ \A p \in Nat : HeldBlock(p) \in Blocks
  BY HeldBlocks
\* One block behind all others.
<1>4. ASSUME NEW r \in Seq(Blocks), NEW q \in Nat, Ascends(r), Below(r, q)
      PROVE  /\ r \o <<HeldBlock(q)>> \in Seq(Blocks)
             /\ Ascends(r \o <<HeldBlock(q)>>)
             /\ Below(r \o <<HeldBlock(q)>>, q + 1)
             /\ Complete(r, frames) => Complete(r \o <<HeldBlock(q)>>, frames)
  <2>1. HeldBlock(q) \in Blocks /\ HeldBlock(q).position = q
        /\ HeldBlock(q).frame = Len(frames)
    BY <1>3 DEF HeldBlock
  <2>2. ASSUME Complete(r, frames)
        PROVE  Complete(r \o <<HeldBlock(q)>>, frames)
    <3>1. r # <<>> /\ frames[Len(frames)].start <= r[Len(r)].position
      BY <1>3, <1>4, <2>2, CompleteLast
    <3>2. frames[Len(frames)].start \in Nat /\ r[Len(r)].position \in Nat
          /\ r[Len(r)].position < q
      BY <1>3, <1>4, <3>1, FrameTypes, BlockTypes DEF Below
    <3>3. frames[Len(frames)].start <= q
      BY <3>1, <3>2
    <3>4. \A p \in 0..(q - 1) : Pictured(r, frames, p)
      BY <2>2 DEF Complete
    <3>5. QED
      BY <1>3, <1>4, <2>1, <3>3, <3>4, AppendCompletes
  <2>3. QED
    BY <1>4, <2>1, <2>2, AppendAscends
<1>5. CASE l < end - 2
  <2>1. ends = <<end - 2, end - 1>> /\ end - 2 \in Nat /\ end - 1 \in Nat
    BY <1>1, <1>5 DEF EndPositions
  <2> DEFINE b == HeldBlock(end - 2)  c == HeldBlock(end - 1)  u == s \o <<b>>
  <2>2. BlocksOfLatest(ends) = <<b, c>> /\ b \in Blocks /\ c \in Blocks
    BY <1>3, <2>1, HeldBlocks
  <2>3. t = u \o <<c>>
    BY <2>2
  <2>4. Ascends(u) /\ Below(u, end - 1) /\ u \in Seq(Blocks)
        /\ (Complete(s, frames) => Complete(u, frames))
    BY <1>2, <1>4, <1>5, <2>1
  <2>5. Ascends(t) /\ Below(t, (end - 1) + 1) /\ t \in Seq(Blocks)
        /\ (Complete(s, frames) => Complete(t, frames))
    BY <1>4, <2>1, <2>3, <2>4
  <2>6. last = end /\ (end - 1) + 1 = end
    BY <2>1 DEF Last
  <2>7. PositionFromEnd(t, 1) = end - 1 /\ PositionFromEnd(t, 2) = end - 2
    BY <2>2 DEF PositionFromEnd, HeldBlock
  <2>8. QED
    BY <2>2, <2>5, <2>6, <2>7
<1>6. CASE l = end - 2
  <2>1. ends = <<end - 1>> /\ end - 1 \in Nat
    BY <1>1, <1>6 DEF EndPositions
  <2> DEFINE c == HeldBlock(end - 1)
  <2>2. BlocksOfLatest(ends) = <<c>> /\ c \in Blocks
    BY <1>3, <2>1, HeldBlocks
  <2>7. l < end - 1 /\ Below(s, end - 1)
    BY <1>1, <1>2, <1>6, <2>1
  <2>3. Ascends(t) /\ Below(t, (end - 1) + 1) /\ t \in Seq(Blocks)
        /\ (Complete(s, frames) => Complete(t, frames))
    BY <1>4, <2>1, <2>2, <2>7
  <2>4. last = end /\ (end - 1) + 1 = end
    BY <2>1 DEF Last
  <2>5. Len(t) > 1 =>
          PositionFromEnd(t, 1) = end - 1 /\ PositionFromEnd(t, 2) = end - 2
    BY <1>1, <1>6, <2>2 DEF PositionFromEnd, HeldBlock
  <2>6. QED
    BY <2>2, <2>3, <2>4, <2>5
<1>7. CASE l = end - 1 /\ PositionFromEnd(s, 2) # end - 2
  <2>1. ends = <<end>>
    BY <1>1, <1>7 DEF EndPositions
  <2> DEFINE c == HeldBlock(end)
  <2>2. BlocksOfLatest(ends) = <<c>> /\ c \in Blocks
    BY <1>3, <2>1, HeldBlocks
  <2>3. Ascends(t) /\ Below(t, end + 1) /\ t \in Seq(Blocks)
        /\ (Complete(s, frames) => Complete(t, frames))
    BY <1>2, <1>4, <1>7, <2>1, <2>2
  <2>4. last = end + 1
    BY <2>1 DEF Last
  <2>5. Len(t) > 1 => PositionFromEnd(t, 1) = end /\ PositionFromEnd(t, 2) = end - 1
    BY <1>1, <1>7, <2>2 DEF PositionFromEnd, HeldBlock
  <2>6. QED
    BY <2>2, <2>3, <2>4, <2>5
<1>8. CASE l = end - 1 /\ PositionFromEnd(s, 2) = end - 2
  <2>1. ends = <<>>
    BY <1>1, <1>8 DEF EndPositions
  <2>2. BlocksOfLatest(ends) = <<>> /\ t = s
    BY <2>1, HeldBlocks
  <2>3. last = end
    BY <2>1
  <2>4. QED
    BY <1>8, <2>2, <2>3
<1>9. QED
  BY <1>1, <1>5, <1>6, <1>7, <1>8

----------------------------------------------------------------------------
(* The timeline is extended: fillTo.                                       *)

LEMMA SentIsSeq == TypeInv => Sent \in Seq(Blocks) /\ emitted \in Nat
  BY DEF TypeInv, TypeOK, Sent

LEMMA Filled ==
  ASSUME TypeInv, LineInv, latest # NoFrame, NEW position \in Int,
         NEW t, t = Sent \o Extension(position)
  PROVE  /\ t \in Seq(Blocks)
         /\ Larger(emitted, position) \in Nat /\ emitted <= Larger(emitted, position)
         /\ Ascends(t) /\ Below(t, Larger(emitted, position))
         /\ /\ Writable /\ Last(frames).start <= emitted
            /\ \A p \in 0..(emitted - 1) : Pictured(Sent, frames, p)
            /\ position > emitted \/ Last(frames).start < emitted
            => Complete(t, frames)
<1> DEFINE e == Larger(emitted, position)
<1>1. Sent \in Seq(Blocks) /\ emitted \in Nat
  BY SentIsSeq
<1>2. e \in Nat /\ emitted <= e /\ position <= e
      /\ (position <= emitted => e = emitted)
      /\ (position > emitted => e = position)
  BY <1>1 DEF Larger
<1>3. /\ latest.id = Len(frames) /\ frames # <<>>
      /\ frames \in Seq(FrameRecords)
      /\ HeldBlock(emitted) \in Blocks /\ HeldBlock(emitted).position = emitted
      /\ HeldBlock(emitted).frame = Len(frames)
  BY <1>1, HeldBlocks DEF HeldBlock
<1> HIDE DEF e
<1>4. CASE /\ position > emitted /\ Writable
           /\ Extension(position) = <<HeldBlock(emitted)>>
  <2>1. t = Sent \o <<HeldBlock(emitted)>>
    BY <1>4
  <2>2. t \in Seq(Blocks)
    BY <1>1, <1>3, <2>1
  <2>3. Ascends(t) /\ Below(t, emitted + 1)
    BY <1>1, <1>3, <2>1, AppendAscends DEF LineInv
  <2>4. Below(t, e)
    <3>1. \A i \in DOMAIN t : t[i].position \in Nat
      BY <2>2, BlockTypes
    <3>2. QED
      BY <1>1, <1>2, <1>4, <2>3, <3>1 DEF Below
  <2>5. ASSUME Last(frames).start <= emitted,
               \A p \in 0..(emitted - 1) : Pictured(Sent, frames, p)
        PROVE  Complete(t, frames)
    BY <1>1, <1>3, <2>1, <2>5, AppendCompletes DEF LineInv, Last
  <2>6. QED
    BY <1>2, <2>2, <2>3, <2>4, <2>5 DEF e
<1>5. CASE /\ Extension(position) = <<>>
           /\ \/ position <= emitted \/ ~Writable
              \/ pending # <<>> /\ Last(pending).frame = Len(frames)
  <2>1. t = Sent
    BY <1>1, <1>5, ConcatEmptySeq
  <2>2. Ascends(t) /\ Below(t, e)
    <3>1. \A i \in DOMAIN t : t[i].position \in Nat
      BY <1>1, <2>1, BlockTypes
    <3>2. QED
      BY <1>1, <1>2, <2>1, <3>1 DEF Below, LineInv
  <2>3. ASSUME Writable, Last(frames).start <= emitted,
               \A p \in 0..(emitted - 1) : Pictured(Sent, frames, p),
               position > emitted \/ Last(frames).start < emitted
        PROVE  Complete(t, frames)
    <3>1. CASE position > emitted
      <4>1. pending # <<>> /\ Last(pending).frame = Len(frames)
        BY <1>1, <1>5, <2>3, <3>1
      <4>2. written \in Seq(Blocks) /\ pending \in Seq(Blocks)
        BY DEF TypeInv, TypeOK
      <4>3. Sent # <<>> /\ Sent[Len(Sent)] = pending[Len(pending)]
        BY <4>1, <4>2 DEF Sent
      <4>4. Sent[Len(Sent)].frame = Len(frames)
        BY <4>1, <4>3 DEF Last
      <4>5. QED
        BY <1>1, <1>3, <2>1, <2>3, <4>3, <4>4, LastCompletes DEF LineInv, Last
    <3>2. CASE Last(frames).start < emitted
      <4>1. Len(frames) \in DOMAIN frames /\ frames[Len(frames)].start \in Nat
        BY <1>3, FrameTypes
      <4>2. emitted - 1 \in 0..(emitted - 1)
            /\ frames[Len(frames)].start <= emitted - 1
        BY <1>1, <3>2, <4>1 DEF Last
      <4>3. Pictured(Sent, frames, emitted - 1)
        BY <2>3, <4>2
      <4>4. PICK i \in DOMAIN Sent :
              /\ \A j \in DOMAIN Sent : Sent[j].position <= emitted - 1 => j <= i
              /\ Sent[i].frame \in DOMAIN frames
              /\ \A g \in DOMAIN frames :
                    frames[g].start <= emitted - 1 => g <= Sent[i].frame
        BY <4>3 DEF Pictured
      <4>5. Sent # <<>> /\ Len(Sent) \in DOMAIN Sent
        BY <1>1, <4>4
      <4>6. Sent[Len(Sent)].position <= emitted - 1
        BY <1>1, <4>5, BlockTypes DEF LineInv, Below
      <4>7. i = Len(Sent) /\ Sent[i].frame = Len(frames)
        BY <1>1, <1>3, <4>1, <4>2, <4>4, <4>5, <4>6
      <4>8. QED
        BY <1>1, <1>3, <2>1, <2>3, <4>5, <4>7, LastCompletes DEF LineInv, Last
    <3>3. QED
      BY <2>3, <3>1, <3>2
  <2>4. QED
    BY <1>1, <1>2, <2>1, <2>2, <2>3 DEF e
<1>6. QED
  BY <1>4, <1>5, Extensions

----------------------------------------------------------------------------
(* Stopping, aborting and the encoder.                                     *)

LEMMA ProcessStep ==
  ASSUME IInv, [Next]_vars
  PROVE  ProcessInv'
<1> USE DEF ProcessInv, Before
<1>0. ProcessInv /\ (writer = "idle" => pending = <<>>)
  BY DEF IInv, TypeInv
<1>1. CASE Tick
  BY <1>0, <1>1 DEF Tick, queue, process, control
<1>2. CASE Frame
  BY <1>0, <1>2 DEF Frame, process, control
<1>3. CASE Hold
  BY <1>0, <1>3 DEF Hold, process, control
<1>4. CASE Write
  BY <1>0, <1>4 DEF Write, process, control
<1>5. CASE EncoderExits
  BY <1>0, <1>5 DEF EncoderExits, queue, control
<1>6. CASE InputFails
  BY <1>0, <1>6 DEF InputFails, queue, control
<1>7. CASE ExitNoticed
  BY <1>0, <1>7 DEF ExitNoticed, queue, control
<1>8. CASE EncoderCloses
  BY <1>0, <1>8 DEF EncoderCloses, EarlyExit, ReleasePending, control
<1>9. CASE StopRecorder
  BY <1>0, <1>9 DEF StopRecorder, queue, process
<1>10. CASE Flushed
  BY <1>0, <1>10 DEF Flushed, process
<1>11. CASE Drained
  BY <1>0, <1>11 DEF Drained, ReleasePending, process, Exited, EarlyExit
<1>12. CASE Ended
  BY <1>0, <1>12 DEF Ended, queue, process
<1>13. CASE Detached
  BY <1>0, <1>13 DEF Detached, queue, process
<1>14. CASE Cancelled
  BY <1>0, <1>14 DEF Cancelled, Interruptible, queue, process
<1>15. CASE StopExpires
  BY <1>0, <1>15 DEF StopExpires, Abort, ReleasePending, Exited, EarlyExit
<1>16. CASE Discard
  BY <1>0, <1>16 DEF Discard, Abort, ReleasePending, Exited, EarlyExit
<1>17. CASE AbortSettles
  BY <1>0, <1>17 DEF AbortSettles, queue
<1>18. CASE Judge
  BY <1>0, <1>18 DEF Judge, queue, process
<1>19. CASE GiveUp
  BY <1>0, <1>19 DEF GiveUp, queue, process
<1>20. CASE UNCHANGED vars
  BY <1>0, <1>20 DEF vars, queue, process, control
<1>21. QED
  BY <1>1, <1>2, <1>3, <1>4, <1>5, <1>6, <1>7, <1>8, <1>9, <1>10, <1>11,
     <1>12, <1>13, <1>14, <1>15, <1>16, <1>17, <1>18, <1>19, <1>20 DEF Next

----------------------------------------------------------------------------
(* Steps that queue nothing.                                               *)

LEMMA DropsTail ==
  ASSUME NEW r \in Seq(Blocks), NEW s \in Seq(Blocks), NEW end \in Nat,
         Ascends(r \o s), Below(r \o s, end)
  PROVE  Ascends(r) /\ Below(r, end)
<1>1. \A i \in DOMAIN r : i \in DOMAIN (r \o s) /\ (r \o s)[i] = r[i]
  OBVIOUS
<1>2. QED
  BY <1>1 DEF Ascends, Below

\* What is pending may be dropped, together with the held frame, but only by
\* an abort, with the encoder gone, or when nothing is pending.
Kept ==
    UNCHANGED <<written, pending, latest>>

Dropped ==
    /\ ReleasePending /\ UNCHANGED written
    /\ pending = <<>> \/ ~Intact'

LEMMA QuietStep ==
  ASSUME IInv, Kept \/ Dropped, UNCHANGED <<frames, emitted>>,
         cutShort' = "no" => cutShort = "no",
         aborting' = "no" => aborting = "no",
         Intact' /\ stop' \in Before => stop \in Before /\ latest' = latest,
         stop' = "draining" => stop = "draining",
         stop' = "ending" =>
            stop = "ending" \/ (stop = "draining" /\ aborting' = "no"),
         stop \in Before => stop' \in Before \/ aborting' # "no"
  PROVE  LineInv' /\ ShownInv' /\ EndInv'
<1>0. TypeInv /\ ProcessInv /\ LineInv /\ ShownInv /\ EndInv
  BY DEF IInv
<1>1. written \in Seq(Blocks) /\ pending \in Seq(Blocks) /\ emitted \in Nat
  BY <1>0 DEF TypeInv, TypeOK
<1>2. Sent' = Sent \/ (~Intact' /\ Sent' = written)
  <2>1. CASE Kept
    <3>1. written' = written /\ pending' = pending
      BY <2>1 DEF Kept
    <3>2. Sent' = Sent
      BY <3>1 DEF Sent
    <3>3. QED
      BY <3>2
  <2>2. CASE Dropped
    <3>1. written' = written /\ pending' = <<>>
      BY <2>2 DEF Dropped, ReleasePending
    <3>2. Sent' = written
      BY <1>1, <3>1, ConcatEmptySeq DEF Sent
    <3>3. pending = <<>> => Sent' = Sent
      BY <3>1 DEF Sent
    <3>4. QED
      BY <2>2, <3>2, <3>3 DEF Dropped
  <2>3. QED
    BY <2>1, <2>2
<1>3. stop = "ending" => Sent' = Sent
  <2>1. stop = "ending" => pending = <<>>
    BY <1>0 DEF ProcessInv
  <2>2. QED
    BY <2>1 DEF Kept, Dropped, ReleasePending, Sent
<1>4. LineInv'
  <2>1. CASE Sent' = Sent
    BY <1>0, <2>1 DEF LineInv
  <2>2. CASE Sent' = written
    BY <1>0, <1>1, <2>2, DropsTail DEF LineInv, Sent
  <2>3. QED
    BY <1>2, <2>1, <2>2
<1>5. ShownInv'
  <2> SUFFICES ASSUME Intact' PROVE ShownInv'
    BY DEF ShownInv
  <2>1. Intact /\ Sent' = Sent
    BY <1>2 DEF Intact
  <2>2. \A p \in 0..(emitted - 1) : Pictured(Sent, frames, p)
    BY <1>0, <2>1 DEF ShownInv
  <2>3. \A p \in 0..(emitted' - 1) : Pictured(Sent', frames', p)
    BY <2>1, <2>2
  <2>4. frames # <<>> /\ stop' \in Before => latest' # NoFrame
    BY <1>0, <2>1 DEF ShownInv
  <2>5. frames # <<>> =>
          /\ Last(frames').start <= emitted'
          /\ (stop' \in Before => latest'.shown) => Last(frames').start < emitted'
    BY <1>0, <2>1 DEF ShownInv, Intact
  <2>6. QED
    BY <2>3, <2>4, <2>5 DEF ShownInv
<1>6. EndInv'
  <2>1. CASE stop' = "draining" /\ Intact'
    <3>1. Intact /\ Sent' = Sent /\ stop = "draining"
      BY <1>2, <2>1 DEF Intact
    <3>2. QED
      BY <1>0, <3>1 DEF EndInv
  <2>2. CASE stop' = "ending" /\ cutShort' = "no" /\ stop = "ending"
    BY <1>0, <1>3, <2>2 DEF EndInv
  <2>3. CASE stop' = "ending" /\ cutShort' = "no" /\ stop = "draining"
    <3>1. Intact
      BY <2>3 DEF Intact
    <3>2. Sent' = Sent
      BY <1>2, <2>3 DEF Intact
    <3>3. QED
      BY <1>0, <2>3, <3>1, <3>2 DEF EndInv
  <2>4. QED
    BY <2>1, <2>2, <2>3 DEF EndInv
<1>7. QED
  BY <1>4, <1>5, <1>6

\* The types of what these steps leave alone.
LEMMA QuietTypes ==
  ASSUME TypeInv, Kept \/ (ReleasePending /\ UNCHANGED written),
         UNCHANGED <<frames, emitted, received, anchor>>,
         now' \in 0..MaxTime,
         writer' \in {"idle", "blocked", "yielded"},
         writer' = "idle" => writer = "idle" \/ pending' = <<>>,
         {stopped', inputEnded'} \subseteq BOOLEAN,
         cutShort' \in {"no", "unseen", "seen"},
         incomplete' \in {"no", "overload", "exited"},
         input' \in {"open", "destroyed"},
         encoder' \in {"running", "gone", "exited", "closed"},
         exit' \in {"none", "zero", "failed"},
         stop' \in {"none", "flushing", "draining", "ending", "detaching",
                   "returned"},
         aborting' \in {"no", "terminating", "done"},
         engine' \in {"capturing", "stopping", "expired", "discarding", "done"},
         verdict' \in {"none", "healthy", "unclean", "discarded"}
  PROVE  TypeInv'
<1>1. written' = written /\ pending' \in {pending, <<>>}
      /\ latest' \in {latest, NoFrame}
  BY DEF Kept, ReleasePending
<1>2. pending' \in Seq(Blocks)
  <2>1. pending \in Seq(Blocks) /\ <<>> \in Seq(Blocks)
    BY DEF TypeInv, TypeOK
  <2>2. QED
    BY <1>1, <2>1
<1>3. TypeOK'
  BY <1>1, <1>2 DEF TypeInv, TypeOK
<1>4. writer' = "idle" => pending' = <<>>
  BY <1>1 DEF TypeInv
<1>5. frames' = <<>> => emitted' = 0 /\ Sent' = <<>>
  <2>1. written \in Seq(Blocks) /\ pending \in Seq(Blocks)
    BY DEF TypeInv, TypeOK
  <2>2. frames = <<>> => emitted = 0 /\ written = <<>> /\ pending = <<>>
    BY <2>1 DEF TypeInv, Sent
  <2>3. QED
    BY <1>1, <2>2 DEF Sent
<1>6. QED
  BY <1>1, <1>3, <1>4, <1>5 DEF TypeInv

LEMMA TypesOfControl ==
  TypeInv =>
     /\ now \in 0..MaxTime /\ writer \in {"idle", "blocked", "yielded"}
     /\ {stopped, inputEnded} \subseteq BOOLEAN
     /\ cutShort \in {"no", "unseen", "seen"}
     /\ incomplete \in {"no", "overload", "exited"}
     /\ input \in {"open", "destroyed"}
     /\ encoder \in {"running", "gone", "exited", "closed"}
     /\ exit \in {"none", "zero", "failed"}
     /\ stop \in {"none", "flushing", "draining", "ending", "detaching",
                 "returned"}
     /\ aborting \in {"no", "terminating", "done"}
     /\ engine \in {"capturing", "stopping", "expired", "discarding", "done"}
     /\ verdict \in {"none", "healthy", "unclean", "discarded"}
  BY DEF TypeInv, TypeOK

QuietNext ==
    \/ Tick \/ EncoderExits \/ InputFails \/ ExitNoticed \/ EncoderCloses
    \/ StopRecorder \/ Drained \/ Ended \/ Detached \/ Cancelled
    \/ StopExpires \/ Discard \/ AbortSettles \/ Judge \/ GiveUp
    \/ UNCHANGED vars

LEMMA QuietNextTypes ==
  ASSUME IInv, QuietNext
  PROVE  TypeInv'
<1>1. TypeInv
  BY DEF IInv
<1> USE <1>1, TypesOfControl DEF Kept, queue, process, control, clock, timeline
<1>2. CASE Tick
  BY <1>2, QuietTypes, TimeAssumption DEF Tick
<1>3. CASE EncoderExits
  BY <1>3, QuietTypes DEF EncoderExits
<1>4. CASE InputFails
  BY <1>4, QuietTypes DEF InputFails
<1>5. CASE ExitNoticed
  BY <1>5, QuietTypes DEF ExitNoticed
<1>6. CASE EncoderCloses
  <2>1. EarlyExit \in {"no", "overload", "exited"}
    BY DEF EarlyExit
  <2>2. /\ Kept \/ (ReleasePending /\ UNCHANGED written)
        /\ stopped' \in BOOLEAN
    BY <1>6 DEF EncoderCloses
  <2>3. QED
    BY <1>6, <2>1, <2>2, QuietTypes DEF EncoderCloses
<1>7. CASE StopRecorder
  BY <1>7, QuietTypes DEF StopRecorder
<1>8. CASE Drained
  BY <1>8, QuietTypes DEF Drained, EarlyExit, ReleasePending
<1>9. CASE Ended
  BY <1>9, QuietTypes DEF Ended
<1>10. CASE Detached
  BY <1>10, QuietTypes DEF Detached
<1>11. CASE Cancelled
  BY <1>11, QuietTypes DEF Cancelled
<1>12. CASE StopExpires
  BY <1>12, QuietTypes DEF StopExpires, Abort, EarlyExit, ReleasePending
<1>13. CASE Discard
  BY <1>13, QuietTypes DEF Discard, Abort, EarlyExit, ReleasePending
<1>14. CASE AbortSettles
  BY <1>14, QuietTypes DEF AbortSettles
<1>15. CASE Judge
  BY <1>15, QuietTypes DEF Judge
<1>16. CASE GiveUp
  BY <1>16, QuietTypes DEF GiveUp
<1>17. CASE UNCHANGED vars
  BY <1>17, QuietTypes DEF vars
<1>18. QED
  BY <1>2, <1>3, <1>4, <1>5, <1>6, <1>7, <1>8, <1>9, <1>10, <1>11, <1>12,
     <1>13, <1>14, <1>15, <1>16, <1>17 DEF QuietNext

LEMMA QuietNextLine ==
  ASSUME IInv, QuietNext
  PROVE  LineInv' /\ ShownInv' /\ EndInv'
<1>1. ProcessInv /\ (writer = "idle" => pending = <<>>)
  BY DEF IInv, TypeInv
<1> USE <1>1 DEF Kept, Dropped, Before, Intact, queue, process, control, clock,
                 timeline
<1>2. CASE Tick
  BY <1>2, QuietStep DEF Tick
<1>3. CASE EncoderExits
  BY <1>3, QuietStep DEF EncoderExits, ProcessInv
<1>4. CASE InputFails
  BY <1>4, QuietStep DEF InputFails
<1>5. CASE ExitNoticed
  BY <1>5, QuietStep DEF ExitNoticed
<1>6. CASE EncoderCloses
  <2>1. stop = "none" => ~Intact
    BY <1>6 DEF EncoderCloses, ProcessInv
  <2>2. UNCHANGED <<written, frames, emitted, cutShort, stop, aborting>>
    BY <1>6 DEF EncoderCloses
  <2>3. Kept \/ (ReleasePending /\ ~Intact')
    BY <1>6, <2>1, <2>2 DEF EncoderCloses
  <2>4. Intact' => latest' = latest
    BY <2>3
  <2>5. QED
    BY <2>2, <2>3, <2>4, QuietStep
<1>7. CASE StopRecorder
  BY <1>7, QuietStep DEF StopRecorder, ProcessInv
<1>8. CASE Drained
  BY <1>8, QuietStep DEF Drained, EarlyExit, ReleasePending
<1>9. CASE Ended
  BY <1>9, QuietStep DEF Ended
<1>10. CASE Detached
  BY <1>10, QuietStep DEF Detached
<1>11. CASE Cancelled
  BY <1>11, QuietStep DEF Cancelled, Interruptible
<1>12. CASE StopExpires
  BY <1>12, QuietStep DEF StopExpires, Abort, EarlyExit, ReleasePending
<1>13. CASE Discard
  BY <1>13, QuietStep DEF Discard, Abort, EarlyExit, ReleasePending
<1>14. CASE AbortSettles
  BY <1>14, QuietStep DEF AbortSettles, ProcessInv
<1>15. CASE Judge
  BY <1>15, QuietStep DEF Judge
<1>16. CASE GiveUp
  BY <1>16, QuietStep DEF GiveUp
<1>17. CASE UNCHANGED vars
  BY <1>17, QuietStep DEF vars
<1>18. QED
  BY <1>2, <1>3, <1>4, <1>5, <1>6, <1>7, <1>8, <1>9, <1>10, <1>11, <1>12,
     <1>13, <1>14, <1>15, <1>16, <1>17 DEF QuietNext

----------------------------------------------------------------------------
(* Steps that queue blocks.                                                *)

LEMMA Heights ==
  ASSUME TypeInv
  PROVE  /\ GridPosition(now - anchor) \in Int
         /\ latest # NoFrame => \A lag \in Int : HeldPosition(lag) \in Int
<1>1. now \in Nat /\ anchor \in Nat
  BY TimeAssumption DEF TypeInv, TypeOK
<1>2. ASSUME latest # NoFrame, NEW lag \in Int PROVE HeldPosition(lag) \in Int
  <2>1. latest.elapsed \in Int /\ latest.receivedAt \in Int
    BY <1>2, TimeAssumption DEF TypeInv, TypeOK
  <2>2. latest.elapsed + (now - latest.receivedAt) - lag \in Int
    BY <1>1, <2>1
  <2>3. QED
    BY <2>2, GridInt DEF HeldPosition
<1>3. now - anchor \in Int
  BY <1>1
<1>4. QED
  BY <1>2, <1>3, GridInt

LEMMA FillStep ==
  ASSUME IInv, latest # NoFrame, NEW position \in Int, FillTo(position)
  PROVE  /\ written' \in Seq(Blocks) /\ pending' \in Seq(Blocks)
         /\ writer' \in {"idle", "blocked", "yielded"}
         /\ writer' = "idle" => pending' = <<>>
         /\ emitted' \in Nat /\ emitted <= emitted'
         /\ emitted' = Larger(emitted, position)
         /\ LineInv'
         /\ Intact /\ ~stopped =>
               /\ \A p \in 0..(emitted' - 1) : Pictured(Sent', frames, p)
               /\ Last(frames).start <= emitted'
               /\ latest.shown \/ position > emitted => Last(frames).start < emitted'
<1>1. TypeInv /\ ProcessInv /\ LineInv /\ ShownInv
  BY DEF IInv
<1>2. Extension(position) \in Seq(Blocks)
  BY <1>1, Extensions
<1>3. /\ Sent' = Sent \o Extension(position)
      /\ written' \in Seq(Blocks) /\ pending' \in Seq(Blocks)
      /\ writer' \in {"idle", "blocked", "yielded"}
      /\ writer' = "idle" => pending' = <<>>
  BY <1>1, <1>2, Enqueued DEF FillTo
<1>4. emitted' = Larger(emitted, position)
  BY DEF FillTo
<1>5. /\ emitted' \in Nat /\ emitted <= emitted'
      /\ Ascends(Sent') /\ Below(Sent', emitted')
      /\ /\ Writable /\ Last(frames).start <= emitted
         /\ \A p \in 0..(emitted - 1) : Pictured(Sent, frames, p)
         /\ position > emitted \/ Last(frames).start < emitted
         => Complete(Sent', frames)
  BY <1>1, <1>3, <1>4, Filled
<1>6. emitted \in Nat /\ Sent \in Seq(Blocks)
  BY <1>1, SentIsSeq
<1>7. frames # <<>> /\ Last(frames).start \in Nat
  BY <1>1, HeldBlocks, FrameTypes DEF Last
<1>8. ASSUME Intact, ~stopped
      PROVE  /\ \A p \in 0..(emitted' - 1) : Pictured(Sent', frames, p)
             /\ Last(frames).start <= emitted'
             /\ latest.shown \/ position > emitted => Last(frames).start < emitted'
  <2>1. stop \in Before /\ Writable
    BY <1>1, <1>8 DEF ProcessInv, Writable, Intact, Before
  <2>2. /\ \A p \in 0..(emitted - 1) : Pictured(Sent, frames, p)
        /\ Last(frames).start <= emitted
        /\ latest.shown => Last(frames).start < emitted
    BY <1>1, <1>7, <1>8 DEF ShownInv
  <2>3. position > emitted => position <= emitted'
    BY <1>4, <1>6 DEF Larger
  <2>4. /\ Last(frames).start <= emitted'
        /\ latest.shown \/ position > emitted => Last(frames).start < emitted'
    BY <1>5, <1>6, <1>7, <2>2, <2>3
  <2>5. CASE position > emitted \/ Last(frames).start < emitted
    <3>1. Complete(Sent', frames)
      BY <1>5, <2>1, <2>2, <2>5
    <3>2. \A p \in 0..(emitted' - 1) : Pictured(Sent', frames, p)
      BY <1>5, <3>1 DEF Complete
    <3>3. QED
      BY <2>4, <3>2
  <2>6. CASE position <= emitted
    <3>1. Extension(position) = <<>> /\ emitted' = emitted
      BY <1>4, <1>6, <2>6 DEF Extension, Larger
    <3>2. Sent' = Sent
      BY <1>3, <1>6, <3>1, ConcatEmptySeq
    <3>3. QED
      BY <2>2, <2>4, <3>1, <3>2
  <2>7. QED
    BY <1>6, <2>5, <2>6
<1>9. QED
  BY <1>3, <1>4, <1>5, <1>8 DEF LineInv

\* The held frame after an extension.
LEMMA ExtendedHeld ==
  ASSUME TypeInv, latest # NoFrame, NEW position \in Int
  PROVE  LET held == Extended(position) IN
         /\ held \in HeldFrames /\ held # NoFrame
         /\ held.id = latest.id /\ held.elapsed = latest.elapsed
         /\ held.receivedAt = latest.receivedAt
         /\ held.shown = (latest.shown \/ position > emitted)
<1>1. latest \in HeldFrames
  BY DEF TypeInv
<1>2. emitted \in Nat
  BY SentIsSeq
<1>3. (position > emitted) \in BOOLEAN /\ (Extension(position) # <<>>) \in BOOLEAN
  OBVIOUS
<1>4. QED
  BY <1>1, <1>3, NoFrameAssumption DEF Extended, HeldFrames

LEMMA HoldStep ==
  ASSUME IInv, Hold
  PROVE  TypeInv' /\ LineInv' /\ ShownInv' /\ EndInv' /\ PunctualInv'
<1>1. TypeInv /\ ProcessInv /\ LineInv /\ ShownInv /\ PunctualInv
  BY DEF IInv
<1> DEFINE position == HeldPosition(HoldLag)
<1>2. /\ ~stopped /\ latest # NoFrame /\ FillTo(position)
      /\ latest' = Extended(position)
      /\ UNCHANGED <<clock, received, frames, stopped, incomplete, process, control>>
  BY DEF Hold
<1>3. position \in Int /\ emitted \in Nat
  BY <1>1, <1>2, Heights, TimeAssumption, SentIsSeq
<1>4. /\ written' \in Seq(Blocks) /\ pending' \in Seq(Blocks)
      /\ writer' \in {"idle", "blocked", "yielded"}
      /\ writer' = "idle" => pending' = <<>>
      /\ emitted' \in Nat /\ emitted <= emitted'
      /\ emitted' = Larger(emitted, position)
      /\ LineInv'
      /\ Intact =>
            /\ \A p \in 0..(emitted' - 1) : Pictured(Sent', frames, p)
            /\ Last(frames).start <= emitted'
            /\ latest.shown \/ position > emitted => Last(frames).start < emitted'
  BY <1>2, <1>3, FillStep
<1>5. /\ latest' \in HeldFrames /\ latest' # NoFrame
      /\ latest'.id = latest.id /\ latest'.elapsed = latest.elapsed
      /\ latest'.receivedAt = latest.receivedAt
      /\ latest'.shown = (latest.shown \/ position > emitted)
  BY <1>1, <1>2, <1>3, ExtendedHeld
<1>6. frames # <<>>
  BY <1>1, <1>2, HeldBlocks
<1> HIDE DEF position
<1>7. TypeInv'
  <2>1. TypeOK'
    BY <1>1, <1>2, <1>4, <1>5
       DEF TypeInv, TypeOK, clock, process, control, HeldFrames
  <2>2. QED
    BY <1>1, <1>2, <1>4, <1>5, <1>6, <2>1 DEF TypeInv
<1>8. ShownInv'
  <2> SUFFICES ASSUME Intact' PROVE ShownInv'
    BY DEF ShownInv
  <2>1. Intact /\ stop' = stop /\ frames' = frames
    BY <1>2 DEF Intact, process, control
  <2>2. stop \in Before
    BY <1>1, <1>2 DEF ProcessInv
  <2>3. QED
    BY <1>4, <1>5, <2>1, <2>2 DEF ShownInv
<1>9. EndInv'
  BY <1>1, <1>2 DEF EndInv, ProcessInv, Before, control
<1>10. PunctualInv'
  <2> SUFFICES ASSUME input = "open" PROVE PunctualInv'
    BY <1>2 DEF PunctualInv, process
  <2>1. /\ anchor <= latest.receivedAt /\ latest.receivedAt <= now
        /\ latest.elapsed <= latest.receivedAt - anchor + Slack
        /\ \/ emitted <= GridPosition(latest.elapsed)
           \/ emitted <= GridPosition(now - anchor + Slack - HoldLag)
    BY <1>1, <1>2 DEF PunctualInv
  <2>2. /\ now \in Nat /\ anchor \in Nat /\ Slack \in Nat /\ HoldLag \in Nat
        /\ latest.elapsed \in Nat /\ latest.receivedAt \in Nat
    BY <1>1, <1>2, TimeAssumption DEF TypeInv, TypeOK, HeldFrames
  <2>3. latest.elapsed + (now - latest.receivedAt) - HoldLag
          <= now - anchor + Slack - HoldLag
    BY <2>1, <2>2
  <2>4. position <= GridPosition(now - anchor + Slack - HoldLag)
    BY <2>2, <2>3, GridMonotone DEF position, HeldPosition
  <2>5. /\ GridPosition(now - anchor + Slack - HoldLag) \in Int
        /\ GridPosition(latest.elapsed) \in Int
    BY <2>2, GridInt
  <2>6. \/ emitted' <= GridPosition(latest.elapsed)
        \/ emitted' <= GridPosition(now - anchor + Slack - HoldLag)
    BY <1>3, <1>4, <2>1, <2>4, <2>5 DEF Larger
  <2>7. QED
    BY <1>2, <1>5, <2>1, <2>6 DEF PunctualInv, clock
<1>11. QED
  BY <1>4, <1>7, <1>8, <1>9, <1>10

\* The writer only moves blocks along, unless the encoder is gone.
LEMMA WriteStep ==
  ASSUME IInv, Write
  PROVE  TypeInv' /\ LineInv' /\ ShownInv' /\ EndInv' /\ PunctualInv'
<1>1. TypeInv /\ ProcessInv /\ LineInv /\ ShownInv /\ EndInv /\ PunctualInv
  BY DEF IInv
<1>2. /\ writer \in {"yielded", "blocked"}
      /\ UNCHANGED <<clock, received, frames, emitted, stopped, incomplete>>
      /\ UNCHANGED <<process, control>>
      /\ writer' \in {"idle", "yielded", "blocked"}
  BY DEF Write
<1>3. written \in Seq(Blocks) /\ pending \in Seq(Blocks) /\ emitted \in Nat
  BY <1>1 DEF TypeInv, TypeOK
<1>4. ~inputEnded
  BY <1>1, <1>2 DEF ProcessInv
<1>5. CASE pending # <<>> /\ ~Writable
  <2>1. writer' = "idle" /\ ReleasePending /\ UNCHANGED written
    BY <1>5 DEF Write
  <2>2. ~Intact /\ ~Intact' /\ stop' # "ending" /\ input # "open"
    BY <1>1, <1>2, <1>4, <1>5
       DEF ProcessInv, Intact, Writable, process, control
  <2>3. TypeInv'
    BY <1>1, <1>2, <2>1, QuietTypes, TypesOfControl DEF clock, process, control,
       ReleasePending
  <2>4. LineInv' /\ ShownInv' /\ EndInv'
    <3>1. Dropped
      BY <2>1, <2>2 DEF Dropped
    <3>2. QED
      BY <1>2, <2>2, <3>1, QuietStep DEF process, control
  <2>5. PunctualInv'
    BY <1>2, <2>2 DEF PunctualInv, process
  <2>6. QED
    BY <2>3, <2>4, <2>5
<1>6. CASE pending = <<>> \/ Writable
  <2>1. /\ written' \in Seq(Blocks) /\ pending' \in Seq(Blocks)
        /\ Sent' = Sent /\ UNCHANGED latest
        /\ writer' = "idle" => pending' = <<>>
    <3>1. CASE pending = <<>>
      BY <1>2, <1>3, <3>1 DEF Write, Sent
    <3>2. CASE pending # <<>>
      <4>1. PICK n \in 1..Len(pending) :
              /\ written' = written \o SubSeq(pending, 1, n)
              /\ pending' = SubSeq(pending, n + 1, Len(pending))
              /\ \/ writer' = "blocked"
                 \/ n = WriteBatch /\ writer' = "yielded"
                 \/ n < WriteBatch /\ pending' = <<>> /\ writer' = "idle"
        BY <1>6, <3>2 DEF Write
      <4> DEFINE a == SubSeq(pending, 1, n)
                 b == SubSeq(pending, n + 1, Len(pending))
      <4>2. a \in Seq(Blocks) /\ b \in Seq(Blocks) /\ a \o b = pending
        BY <1>3, Split
      <4>3. written' = written \o a /\ pending' = b
        BY <4>1
      <4> HIDE DEF a, b
      <4>4. (written \o a) \o b = written \o (a \o b)
        BY <1>3, <4>2, Regroup
      <4>5. Sent' = Sent
        BY <4>2, <4>3, <4>4 DEF Sent
      <4>6. written \o a \in Seq(Blocks)
        BY <1>3, <4>2, ConcatProperties
      <4>7. UNCHANGED latest
        BY <1>6, <3>2 DEF Write
      <4>8. QED
        BY <4>1, <4>2, <4>3, <4>5, <4>6, <4>7
    <3>3. QED
      BY <3>1, <3>2
  <2>2. TypeInv'
    <3>1. TypeOK'
      BY <1>1, <1>2, <2>1 DEF TypeInv, TypeOK, clock, process, control
    <3>2. QED
      BY <1>1, <1>2, <2>1, <3>1 DEF TypeInv
  <2>3. LineInv'
    BY <1>1, <1>2, <2>1 DEF LineInv
  <2>4. ShownInv'
    BY <1>1, <1>2, <2>1 DEF ShownInv, Intact, process, control
  <2>5. EndInv'
    BY <1>1, <1>2, <2>1 DEF EndInv, Intact, process, control
  <2>6. PunctualInv'
    BY <1>1, <1>2, <2>1 DEF PunctualInv, clock, process
  <2>7. QED
    BY <2>2, <2>3, <2>4, <2>5, <2>6
<1>7. QED
  BY <1>5, <1>6

\* A new last frame that starts at the end of the timeline hides none before.
LEMMA NewFrame ==
  ASSUME NEW s \in Seq(Blocks), NEW fs \in Seq(FrameRecords), NEW e \in Nat,
         NEW size \in Sizes
  PROVE  LET gs == Append(fs, [size |-> size, start |-> e]) IN
         /\ gs \in Seq(FrameRecords) /\ Len(gs) = Len(fs) + 1
         /\ Last(gs).start = e
         /\ \A p \in 0..(e - 1) : Pictured(s, fs, p) => Pictured(s, gs, p)
<1> DEFINE r == [size |-> size, start |-> e]
           gs == Append(fs, r)
<1>1. r \in FrameRecords /\ r.start = e
  BY DEF FrameRecords
<1> HIDE DEF r
<1>2. /\ gs \in Seq(FrameRecords) /\ Len(gs) = Len(fs) + 1
      /\ gs[Len(gs)] = r /\ \A g \in DOMAIN fs : gs[g] = fs[g]
  BY <1>1
<1> HIDE DEF gs
<1>3. DOMAIN fs \subseteq DOMAIN gs
      /\ \A g \in DOMAIN gs : g \in DOMAIN fs \/ g = Len(gs)
  BY <1>2
<1>4. ASSUME NEW p \in 0..(e - 1), Pictured(s, fs, p) PROVE Pictured(s, gs, p)
  <2>1. PICK i \in DOMAIN s :
          /\ s[i].position <= p
          /\ \A j \in DOMAIN s : s[j].position <= p => j <= i
          /\ s[i].frame \in DOMAIN fs
          /\ fs[s[i].frame].start <= p
          /\ \A g \in DOMAIN fs : fs[g].start <= p => g <= s[i].frame
    BY <1>4 DEF Pictured
  <2>2. ~(gs[Len(gs)].start <= p)
    BY <1>1, <1>2
  <2>3. s[i].frame \in DOMAIN gs /\ gs[s[i].frame].start <= p
    BY <1>2, <1>3, <2>1
  <2>4. \A g \in DOMAIN gs : gs[g].start <= p => g <= s[i].frame
    BY <1>2, <1>3, <2>1, <2>2
  <2>5. QED
    BY <2>1, <2>3, <2>4 DEF Pictured
<1>5. QED
  BY <1>1, <1>2, <1>4 DEF gs, r, Last

\* onFrame: the frame before is shown up to the new one.
LEMMA FrameStep ==
  ASSUME IInv, Frame
  PROVE  /\ TypeInv' /\ LineInv' /\ ShownInv' /\ EndInv' /\ PunctualInv'
         /\ /\ Len(frames') > Len(frames) /\ input = "open"
            /\ latest'.elapsed + HoldLag - Slack >= now - anchor'
            => Last(frames').start = GridPosition(latest'.elapsed)
<1>1. TypeInv /\ ProcessInv /\ LineInv /\ ShownInv /\ PunctualInv
  BY DEF IInv
<1>2. /\ ~stopped /\ received < MaxFrames /\ received' = received + 1
      /\ UNCHANGED <<now, process, control>>
  BY DEF Frame
<1>3. PICK elapsed \in ElapsedTimes, size \in Sizes :
        /\ IF latest = NoFrame
           THEN anchor' = now /\ UNCHANGED <<queue, emitted>>
           ELSE FillTo(GridPosition(elapsed)) /\ UNCHANGED anchor
        /\ \/ /\ latest' = IF latest = NoFrame THEN NoFrame
                           ELSE Extended(GridPosition(elapsed))
              /\ incomplete' = "overload"
              /\ stopped' = TRUE
              /\ UNCHANGED frames
           \/ /\ frames' = Append(frames, [size |-> size, start |-> emitted'])
              /\ latest' = [id |-> Len(frames'), elapsed |-> elapsed,
                            receivedAt |-> now, shown |-> FALSE,
                            decoded |-> FALSE]
              /\ UNCHANGED <<stopped, incomplete>>
  BY DEF Frame
<1>4. /\ now \in 0..MaxTime /\ anchor \in 0..MaxTime /\ MaxTime \in Nat
      /\ Slack \in Nat /\ HoldLag \in Nat
      /\ emitted \in Nat /\ received \in Nat /\ received' \in 0..MaxFrames
      /\ frames \in Seq(FrameRecords) /\ Len(frames) <= received
  BY <1>1, <1>2, TimeAssumption, LimitAssumption DEF TypeInv, TypeOK, FrameRecords
<1>5. elapsed \in 0..(MaxTime + Slack)
  <2>1. latest # NoFrame => latest.elapsed \in 0..(MaxTime + Slack)
    BY <1>1 DEF TypeInv, TypeOK
  <2>2. now - anchor + Slack <= MaxTime + Slack /\ now - anchor + Slack \in Int
    BY <1>4
  <2>3. QED
    BY <1>4, <2>1, <2>2 DEF ElapsedTimes, Larger
<1>6. GridPosition(elapsed) \in Int
  BY <1>4, <1>5, GridInt
<1>7. latest # NoFrame => latest \in HeldFrames /\ latest.id = Len(frames)
                          /\ frames # <<>>
  BY <1>1, HeldBlocks DEF TypeInv
\* With or without a frame held so far, the timeline is kept in order.
<1>8. /\ written' \in Seq(Blocks) /\ pending' \in Seq(Blocks)
      /\ writer' \in {"idle", "blocked", "yielded"}
      /\ writer' = "idle" => pending' = <<>>
      /\ emitted' \in Nat /\ LineInv'
      /\ anchor' \in 0..MaxTime
      /\ frames = <<>> => emitted' = 0 /\ Sent' = <<>>
      /\ Intact /\ frames # <<>> =>
            /\ latest # NoFrame
            /\ \A p \in 0..(emitted' - 1) : Pictured(Sent', frames, p)
            /\ Last(frames).start <= emitted'
            /\ latest.shown \/ GridPosition(elapsed) > emitted
               => Last(frames).start < emitted'
  <2>1. CASE latest = NoFrame
    <3>1. anchor' = now /\ UNCHANGED <<written, pending, writer, emitted>>
      BY <1>3, <2>1 DEF queue
    <3>2. Sent' = Sent
      BY <3>1 DEF Sent
    <3>3. LineInv'
      BY <1>1, <3>1, <3>2 DEF LineInv
    <3>4. ~(Intact /\ frames # <<>>)
      BY <1>1, <1>2, <2>1 DEF ShownInv, ProcessInv
    <3>5. QED
      BY <1>1, <1>4, <3>1, <3>2, <3>3, <3>4 DEF TypeInv, TypeOK
  <2>2. CASE latest # NoFrame
    <3>1. FillTo(GridPosition(elapsed)) /\ UNCHANGED anchor
      BY <1>3, <2>2
    <3>2. QED
      BY <1>2, <1>4, <1>6, <1>7, <2>2, <3>1, FillStep
  <2>3. QED
    BY <2>1, <2>2
<1>9. EndInv'
  BY <1>1, <1>2 DEF EndInv, ProcessInv, Before, control
\* An overload: the frame before stays the last.
<1>10. CASE /\ latest' = IF latest = NoFrame THEN NoFrame
                         ELSE Extended(GridPosition(elapsed))
            /\ incomplete' = "overload" /\ stopped' = TRUE /\ UNCHANGED frames
  <2>1. latest # NoFrame =>
          /\ latest' \in HeldFrames /\ latest' # NoFrame
          /\ latest'.id = latest.id /\ latest'.elapsed = latest.elapsed
          /\ latest'.receivedAt = latest.receivedAt
          /\ latest'.shown = (latest.shown \/ GridPosition(elapsed) > emitted)
    BY <1>1, <1>6, <1>10, ExtendedHeld
  <2>2. latest = NoFrame => latest' = NoFrame
    BY <1>10
  <2>3. TypeInv'
    <3>1. latest' = NoFrame \/
            /\ latest'.id \in DOMAIN frames
            /\ latest'.elapsed \in 0..(MaxTime + Slack)
            /\ latest'.receivedAt \in 0..MaxTime
            /\ {latest'.shown, latest'.decoded} \subseteq BOOLEAN
      <4>1. CASE latest = NoFrame
        BY <2>2, <4>1
      <4>2. CASE latest # NoFrame
        BY <1>1, <2>1, <4>2 DEF TypeInv, TypeOK, HeldFrames
      <4>3. QED
        BY <4>1, <4>2
    <3>2. TypeOK'
      BY <1>1, <1>2, <1>4, <1>8, <1>10, <3>1
         DEF TypeInv, TypeOK, process, control
    <3>3. QED
      BY <1>2, <1>4, <1>7, <1>8, <1>10, <2>1, <2>2, <3>2 DEF TypeInv
  <2>4. ShownInv'
    <3> SUFFICES ASSUME Intact' PROVE ShownInv'
      BY DEF ShownInv
    <3>1. Intact /\ stop' = stop /\ frames' = frames
      BY <1>2, <1>10 DEF Intact, process, control
    <3>2. stop \in Before
      BY <1>1, <1>2 DEF ProcessInv
    <3>3. CASE frames = <<>>
      BY <1>8, <3>1, <3>3 DEF ShownInv
    <3>4. CASE frames # <<>>
      BY <1>8, <2>1, <3>1, <3>2, <3>4 DEF ShownInv
    <3>5. QED
      BY <3>3, <3>4
  <2>5. PunctualInv'
    BY <1>10 DEF PunctualInv
  <2>6. QED
    BY <1>8, <1>9, <1>10, <2>3, <2>4, <2>5
\* The new frame starts where the timeline ends by now.
<1>11. CASE /\ frames' = Append(frames, [size |-> size, start |-> emitted'])
            /\ latest' = [id |-> Len(frames'), elapsed |-> elapsed,
                          receivedAt |-> now, shown |-> FALSE,
                          decoded |-> FALSE]
            /\ UNCHANGED <<stopped, incomplete>>
  <2>1. /\ frames' \in Seq(FrameRecords) /\ Len(frames') = Len(frames) + 1
        /\ Last(frames').start = emitted'
        /\ \A p \in 0..(emitted' - 1) :
              Pictured(Sent', frames, p) => Pictured(Sent', frames', p)
    <3>1. Sent' \in Seq(Blocks)
      BY <1>8 DEF Sent
    <3>2. QED
      BY <1>4, <1>8, <1>11, <3>1, NewFrame
  <2>2. /\ latest' \in HeldFrames /\ latest' # NoFrame
        /\ latest'.id = Len(frames') /\ latest'.elapsed = elapsed
        /\ latest'.receivedAt = now /\ latest'.shown = FALSE
        /\ latest'.decoded = FALSE
    <3>1. elapsed \in Nat /\ now \in Nat /\ Len(frames') \in Nat
      BY <1>4, <1>5, <2>1
    <3> DEFINE held == [id |-> Len(frames'), elapsed |-> elapsed,
                        receivedAt |-> now, shown |-> FALSE,
                        decoded |-> FALSE]
    <3>2. held \in HeldFrames
      BY <3>1 DEF HeldFrames
    <3>3. latest' = held
      BY <1>11
    <3>4. latest' \in HeldFrames /\ latest' # NoFrame
      BY <3>2, <3>3, NoFrameAssumption
    <3>5. QED
      BY <3>3, <3>4
  <2>3. TypeInv'
    <3>1. TypeOK'
      BY <1>1, <1>2, <1>4, <1>5, <1>8, <1>11, <2>1, <2>2
         DEF TypeInv, TypeOK, process, control, FrameRecords
    <3>2. frames' # <<>>
      BY <1>4, <2>1
    <3>3. QED
      BY <1>2, <1>4, <1>8, <2>1, <2>2, <3>1, <3>2 DEF TypeInv
  <2>4. ShownInv'
    <3> SUFFICES ASSUME Intact' PROVE ShownInv'
      BY DEF ShownInv
    <3>1. Intact /\ stop' = stop
      BY <1>2 DEF Intact, process, control
    <3>2. stop \in Before
      BY <1>1, <1>2 DEF ProcessInv
    <3>3. \A p \in 0..(emitted' - 1) : Pictured(Sent', frames', p)
      <4>1. CASE frames = <<>>
        <5>1. emitted' = 0
          BY <1>8, <4>1
        <5>2. QED
          BY <5>1
      <4>2. CASE frames # <<>>
        BY <1>8, <2>1, <3>1, <4>2
      <4>3. QED
        BY <4>1, <4>2
    <3>4. Last(frames').start <= emitted'
      BY <1>8, <2>1
    <3>5. ~(stop' \in Before => latest'.shown)
      BY <2>2, <3>1, <3>2
    <3>6. QED
      BY <2>2, <3>3, <3>4, <3>5 DEF ShownInv
  <2>5. ASSUME input = "open"
        PROVE  /\ anchor' <= now /\ elapsed <= now - anchor' + Slack
               /\ \/ emitted' = GridPosition(elapsed)
                  \/ /\ emitted' <= GridPosition(now - anchor' + Slack - HoldLag)
                     /\ emitted' > GridPosition(elapsed)
    <3>1. CASE latest = NoFrame
      <4>1. received = 0 /\ emitted = 0
        BY <1>1, <1>2, <2>5, <3>1 DEF PunctualInv
      <4>2. elapsed = 0 /\ anchor' = now /\ emitted' = 0
        BY <1>3, <3>1, <4>1 DEF ElapsedTimes
      <4>3. QED
        BY <1>4, <4>2, GridZero
    <3>2. CASE latest # NoFrame
      <4>1. /\ anchor <= latest.receivedAt /\ latest.receivedAt <= now
            /\ latest.elapsed <= latest.receivedAt - anchor + Slack
            /\ \/ emitted <= GridPosition(latest.elapsed)
               \/ emitted <= GridPosition(now - anchor + Slack - HoldLag)
        BY <1>1, <1>2, <2>5, <3>2 DEF PunctualInv
      <4>2. anchor' = anchor /\ emitted' = Larger(emitted, GridPosition(elapsed))
        BY <1>3, <3>2 DEF FillTo
      <4>3. latest.elapsed \in Nat /\ latest.receivedAt \in Nat /\ received # 0
        BY <1>4, <1>7, <3>2 DEF HeldFrames
      <4>4. latest.elapsed <= elapsed /\ elapsed <= now - anchor + Slack
        <5>1. elapsed \in latest.elapsed..Larger(latest.elapsed, now - anchor + Slack)
          BY <3>2, <4>3 DEF ElapsedTimes
        <5>2. latest.elapsed <= now - anchor + Slack
          BY <1>4, <4>1, <4>3
        <5>3. QED
          BY <1>4, <4>3, <5>1, <5>2 DEF Larger
      <4>5. GridPosition(latest.elapsed) <= GridPosition(elapsed)
        BY <1>4, <1>5, <4>3, <4>4, GridMonotone
      <4>6. /\ GridPosition(latest.elapsed) \in Int
            /\ GridPosition(now - anchor + Slack - HoldLag) \in Int
        <5>1. now - anchor + Slack - HoldLag \in Int /\ latest.elapsed \in Int
          BY <1>4, <4>3
        <5>2. QED
          BY <5>1, GridInt
      <4>7. \/ emitted' = GridPosition(elapsed)
            \/ /\ emitted' <= GridPosition(now - anchor + Slack - HoldLag)
               /\ emitted' > GridPosition(elapsed)
        BY <1>4, <1>6, <4>1, <4>2, <4>5, <4>6 DEF Larger
      <4>8. QED
        BY <1>4, <4>1, <4>2, <4>3, <4>4, <4>7
    <3>3. QED
      BY <3>1, <3>2
  <2>6. PunctualInv'
    <3> SUFFICES ASSUME input = "open" PROVE PunctualInv'
      BY <1>2 DEF PunctualInv, process
    <3>1. /\ anchor' <= now /\ elapsed <= now - anchor' + Slack
          /\ \/ emitted' = GridPosition(elapsed)
             \/ emitted' <= GridPosition(now - anchor' + Slack - HoldLag)
      BY <2>5
    <3>2. QED
      BY <1>2, <1>4, <1>6, <1>8, <2>2, <3>1 DEF PunctualInv
  <2>7. ASSUME input = "open", latest'.elapsed + HoldLag - Slack >= now - anchor'
        PROVE  Last(frames').start = GridPosition(latest'.elapsed)
    <3>1. /\ \/ emitted' = GridPosition(elapsed)
             \/ /\ emitted' <= GridPosition(now - anchor' + Slack - HoldLag)
                /\ emitted' > GridPosition(elapsed)
      BY <2>5, <2>7
    <3>2. /\ now \in Nat /\ anchor' \in Nat /\ Slack \in Nat /\ HoldLag \in Nat
          /\ elapsed \in Nat
      BY <1>4, <1>5, <1>8
    <3>3. elapsed + HoldLag - Slack >= now - anchor'
      BY <2>2, <2>7
    <3>4. /\ now - anchor' + Slack - HoldLag \in Int /\ elapsed \in Int
          /\ now - anchor' + Slack - HoldLag <= elapsed
      <4>1. \A n, a, l, h, e \in Nat :
              /\ n - a + l - h \in Int /\ e \in Int
              /\ e + h - l >= n - a => n - a + l - h <= e
        OBVIOUS
      <4>2. QED
        BY <3>2, <3>3, <4>1
    <3>5. /\ GridPosition(now - anchor' + Slack - HoldLag) \in Int
          /\ GridPosition(now - anchor' + Slack - HoldLag) <= GridPosition(elapsed)
      BY <3>4, GridInt, GridMonotone
    <3>6. emitted' = GridPosition(elapsed)
      BY <1>6, <1>8, <3>1, <3>5
    <3>7. QED
      BY <2>1, <2>2, <3>6
  <2>8. QED
    BY <1>8, <1>9, <2>3, <2>4, <2>6, <2>7
<1>12. QED
  BY <1>3, <1>10, <1>11

LEMMA FinalPositions ==
  ASSUME TypeInv, latest # NoFrame
  PROVE  /\ FinalPosition \in Int
         /\ ~latest.shown => FinalPosition > emitted
<1>1. emitted \in Nat /\ latest.shown \in BOOLEAN
  BY SentIsSeq DEF TypeInv, HeldFrames
<1>2. HeldPosition(0) \in Int /\ GridPosition(now - anchor) \in Int
  BY Heights
<1> DEFINE least == IF latest.shown THEN 0 ELSE emitted + 1
           most == Larger(HeldPosition(0), GridPosition(now - anchor))
<1>3. least \in Int /\ (~latest.shown => least > emitted)
  BY <1>1
<1>4. most \in Int
  BY <1>2, LargerInt
<1> HIDE DEF least, most
<1>5. FinalPosition = IF stopped THEN least ELSE Larger(least, most)
  BY DEF FinalPosition, least, most
<1>6. Larger(least, most) \in Int /\ least <= Larger(least, most)
  BY <1>3, <1>4, LargerInt
<1>7. QED
  BY <1>1, <1>3, <1>5, <1>6

\* finish(): the final frame gets its span and the video its end.
LEMMA FlushedStep ==
  ASSUME IInv, Flushed
  PROVE  TypeInv' /\ LineInv' /\ ShownInv' /\ EndInv' /\ PunctualInv'
<1>1. TypeInv /\ ProcessInv /\ LineInv /\ ShownInv
  BY DEF IInv
<1>2. /\ stop = "flushing" /\ aborting = "no"
      /\ stop' = "draining" /\ stopped' = TRUE
      /\ UNCHANGED <<clock, received, frames, incomplete, process, inputEnded>>
      /\ UNCHANGED <<aborting, engine, verdict>>
  BY DEF Flushed
<1>3. ~inputEnded /\ stop \in Before
  BY <1>1, <1>2 DEF ProcessInv, Before
<1>4. Intact' => Intact /\ Writable
  BY <1>1, <1>2, <1>3 DEF ProcessInv, Intact, Writable, process
<1>5. PunctualInv'
  BY <1>2 DEF PunctualInv
<1>6. CASE latest = NoFrame
  <2>1. UNCHANGED <<written, pending, writer, emitted, latest>>
    BY <1>6 DEF Flushed, queue
  <2>2. Sent' = Sent
    BY <2>1 DEF Sent
  <2>3. TypeInv'
    <3>1. TypeOK'
      BY <1>1, <1>2, <2>1 DEF TypeInv, TypeOK, clock, process
    <3>2. QED
      BY <1>1, <1>2, <2>1, <2>2, <3>1 DEF TypeInv
  <2>4. LineInv'
    BY <1>1, <2>1, <2>2 DEF LineInv
  <2>5. Intact => frames = <<>> /\ emitted = 0 /\ Sent = <<>>
    BY <1>1, <1>3, <1>6 DEF ShownInv, TypeInv
  <2>6. ShownInv'
    BY <1>2, <1>4, <2>1, <2>2, <2>5 DEF ShownInv
  <2>7. EndInv'
    BY <1>2, <1>4, <2>2, <2>5 DEF EndInv
  <2>8. QED
    BY <1>5, <2>3, <2>4, <2>6, <2>7
<1>7. CASE latest # NoFrame
  <2> DEFINE filled == Larger(emitted, FinalPosition)
             added == Extension(FinalPosition)
             t == Sent \o added
             ends == IF ~Writable THEN <<>> ELSE EndPositions(filled, t)
             closing == BlocksOfLatest(ends)
             last == IF ends # <<>> /\ Last(ends) = filled
                     THEN filled + 1 ELSE filled
  <2>1. /\ FinalPosition \in Int /\ (~latest.shown => FinalPosition > emitted)
        /\ emitted \in Nat /\ Sent \in Seq(Blocks) /\ added \in Seq(Blocks)
    BY <1>1, <1>7, FinalPositions, SentIsSeq, Extensions
  <2>2. /\ t \in Seq(Blocks) /\ filled \in Nat /\ emitted <= filled
        /\ Ascends(t) /\ Below(t, filled)
        /\ /\ Writable /\ Last(frames).start <= emitted
           /\ \A p \in 0..(emitted - 1) : Pictured(Sent, frames, p)
           /\ FinalPosition > emitted \/ Last(frames).start < emitted
           => Complete(t, frames)
    BY <1>1, <1>7, <2>1, Filled
  <2>3. FinalPosition <= filled
    BY <2>1, LargerInt
  <2>4. /\ Enqueue(added \o closing) /\ emitted' = last
        /\ latest' = [Extended(FinalPosition) EXCEPT
                         !.decoded = @ \/ ends # <<>>]
    BY <1>7 DEF Flushed, Sent
  <2>5. BlocksOfLatest(<<>>) = <<>> /\ frames # <<>>
        /\ frames \in Seq(FrameRecords)
    BY <1>1, <1>7, HeldBlocks
  <2> HIDE DEF filled, added
  <2>6. /\ closing \in Seq(Blocks) /\ last \in Nat /\ filled <= last
        /\ Ascends(t \o closing) /\ Below(t \o closing, last)
        /\ Writable =>
              /\ Len(t \o closing) > 1 =>
                    /\ PositionFromEnd(t \o closing, 1) = last - 1
                    /\ PositionFromEnd(t \o closing, 2) = last - 2
              /\ Complete(t, frames) => Complete(t \o closing, frames)
    <3>1. CASE Writable
      <4>1. ends = EndPositions(filled, t)
        BY <3>1
      <4> HIDE DEF ends, t
      <4>2. last \in Nat /\ filled <= last
        BY <2>2
      <4>3. QED
        BY <1>1, <1>7, <2>2, <4>1, <4>2, Endings
    <3>2. CASE ~Writable
      <4>1. ends = <<>> /\ last = filled
        BY <3>2
      <4>2. closing = <<>>
        BY <2>5, <4>1
      <4> HIDE DEF t, closing, last
      <4>3. t \o closing = t
        BY <2>2, <4>2, ConcatEmptySeq
      <4>4. QED
        BY <2>2, <3>2, <4>1, <4>2, <4>3
    <3>3. QED
      BY <3>1, <3>2
  <2> HIDE DEF ends, closing, last
  <2>7. /\ Sent' = t \o closing
        /\ written' \in Seq(Blocks) /\ pending' \in Seq(Blocks)
        /\ writer' \in {"idle", "blocked", "yielded"}
        /\ writer' = "idle" => pending' = <<>>
    <3>1. added \o closing \in Seq(Blocks)
      BY <2>1, <2>6, ConcatProperties
    <3>2. (Sent \o added) \o closing = Sent \o (added \o closing)
      BY <2>1, <2>6, Regroup
    <3>3. QED
      BY <1>1, <2>4, <3>1, <3>2, Enqueued
  <2> HIDE DEF t
  <2>8. /\ latest' \in HeldFrames /\ latest' # NoFrame
        /\ latest'.id = latest.id /\ latest'.elapsed = latest.elapsed
        /\ latest'.receivedAt = latest.receivedAt
    <3> DEFINE held == Extended(FinalPosition)
               now1 == [held EXCEPT !.decoded = @ \/ ends # <<>>]
    <3>1. /\ held \in HeldFrames
          /\ held.id = latest.id /\ held.elapsed = latest.elapsed
          /\ held.receivedAt = latest.receivedAt
      BY <1>1, <1>7, <2>1, ExtendedHeld
    <3> HIDE DEF held
    <3>2. (ends # <<>>) \in BOOLEAN
      OBVIOUS
    <3>3. /\ now1 \in HeldFrames /\ now1.id = held.id
          /\ now1.elapsed = held.elapsed /\ now1.receivedAt = held.receivedAt
      BY <3>1, <3>2 DEF HeldFrames
    <3>4. latest' = now1
      BY <2>4 DEF held
    <3> HIDE DEF now1
    <3>5. QED
      BY <3>1, <3>3, <3>4, NoFrameAssumption
  <2>9. TypeInv'
    <3>1. latest'.shown \in BOOLEAN /\ latest'.decoded \in BOOLEAN
      BY <2>8 DEF HeldFrames
    <3>2. /\ latest.id \in DOMAIN frames
          /\ latest.elapsed \in 0..(MaxTime + Slack)
          /\ latest.receivedAt \in 0..MaxTime
      BY <1>1, <1>7 DEF TypeInv, TypeOK
    <3>3. emitted' \in Nat
      BY <2>4, <2>6
    <3>4. TypeOK'
      BY <1>1, <1>2, <2>7, <2>8, <3>1, <3>2, <3>3
         DEF TypeInv, TypeOK, clock, process
    <3>5. QED
      BY <1>1, <1>2, <1>7, <2>5, <2>7, <2>8, <3>4 DEF TypeInv
  <2>10. LineInv'
    BY <2>4, <2>6, <2>7 DEF LineInv
  <2>11. ShownInv'
    <3> SUFFICES ASSUME Intact' PROVE ShownInv'
      BY DEF ShownInv
    <3>1. Intact /\ Writable /\ frames' = frames /\ stop' \notin Before
      BY <1>2, <1>4 DEF Before
    <3>2. /\ \A p \in 0..(emitted - 1) : Pictured(Sent, frames, p)
          /\ Last(frames).start <= emitted
          /\ latest.shown => Last(frames).start < emitted
      BY <1>1, <1>3, <2>5, <3>1 DEF ShownInv
    <3>3. latest.shown \/ FinalPosition > emitted
      BY <2>1
    <3>4. Complete(t \o closing, frames)
      BY <2>2, <2>6, <3>1, <3>2, <3>3
    <3>5. \A p \in 0..(emitted' - 1) : Pictured(Sent', frames, p)
      BY <2>4, <2>6, <2>7, <3>4 DEF Complete
    <3>6. Last(frames).start \in Nat
      BY <2>5, FrameTypes DEF Last
    <3>7. Last(frames).start < emitted'
      BY <2>1, <2>2, <2>3, <2>4, <2>6, <3>2, <3>3, <3>6
    <3>8. Last(frames).start <= emitted'
      BY <2>4, <2>6, <3>6, <3>7
    <3>9. QED
      BY <3>1, <3>5, <3>7, <3>8 DEF ShownInv
  <2>12. EndInv'
    BY <1>2, <1>4, <2>4, <2>6, <2>7 DEF EndInv
  <2>13. QED
    BY <1>5, <2>9, <2>10, <2>11, <2>12
<1>8. QED
  BY <1>6, <1>7

----------------------------------------------------------------------------
(* The invariant is inductive.                                             *)

\* Time passes, and what stops the recorder makes the claim void.
LEMMA QuietNextPunctual ==
  ASSUME IInv, QuietNext
  PROVE  PunctualInv'
<1>1. TypeInv /\ PunctualInv
  BY DEF IInv
<1> USE DEF PunctualInv, clock, timeline, process, control
<1>2. CASE Tick
  <2>1. /\ received > 0 /\ ~stopped /\ now' = now + 1
        /\ UNCHANGED <<anchor, received, latest, emitted, input, stopped>>
    BY <1>2 DEF Tick
  <2> SUFFICES ASSUME input = "open" PROVE PunctualInv'
    BY <2>1
  <2>2. received # 0 => latest # NoFrame
    BY <1>1, <2>1
  <2>3. latest # NoFrame
    BY <2>1, <2>2
  <2>4. /\ now \in Nat /\ anchor \in Nat /\ Slack \in Nat /\ HoldLag \in Nat
        /\ emitted \in Nat
        /\ latest.elapsed \in Nat /\ latest.receivedAt \in Nat
    BY <1>1, <2>3, TimeAssumption DEF TypeInv, TypeOK, HeldFrames
  <2>5. /\ anchor <= latest.receivedAt /\ latest.receivedAt <= now
        /\ latest.elapsed <= latest.receivedAt - anchor + Slack
        /\ \/ emitted <= GridPosition(latest.elapsed)
           \/ emitted <= GridPosition(now - anchor + Slack - HoldLag)
    BY <1>1, <2>1, <2>3
  <2>6. latest.receivedAt <= now + 1
    BY <2>4, <2>5
  <2>7. /\ now - anchor + Slack - HoldLag \in Int
        /\ (now + 1) - anchor + Slack - HoldLag \in Int
        /\ now - anchor + Slack - HoldLag <= (now + 1) - anchor + Slack - HoldLag
    BY <2>4
  <2>8. /\ GridPosition(now - anchor + Slack - HoldLag)
             <= GridPosition((now + 1) - anchor + Slack - HoldLag)
        /\ GridPosition(now - anchor + Slack - HoldLag) \in Int
        /\ GridPosition((now + 1) - anchor + Slack - HoldLag) \in Int
    BY <2>7, GridInt, GridMonotone
  <2>9. \/ emitted <= GridPosition(latest.elapsed)
        \/ emitted <= GridPosition((now + 1) - anchor + Slack - HoldLag)
    BY <2>4, <2>5, <2>8
  <2>10. QED
    BY <2>1, <2>3, <2>5, <2>6, <2>9
<1>3. CASE EncoderExits
  BY <1>1, <1>3 DEF EncoderExits
<1>4. CASE InputFails
  BY <1>4 DEF InputFails
<1>5. CASE ExitNoticed
  BY <1>5 DEF ExitNoticed
<1>6. CASE EncoderCloses
  <2>1. UNCHANGED <<latest, stopped>> \/ stopped' = TRUE
    BY <1>6 DEF EncoderCloses
  <2>2. QED
    BY <1>1, <1>6, <2>1 DEF EncoderCloses
<1>7. CASE StopRecorder
  BY <1>1, <1>7 DEF StopRecorder
<1>8. CASE Drained
  <2>1. stopped
    BY <1>8 DEF Drained, IInv, ProcessInv, Before
  <2>2. QED
    BY <1>8, <2>1 DEF Drained
<1>9. CASE Ended
  BY <1>1, <1>9 DEF Ended
<1>10. CASE Detached
  BY <1>1, <1>10 DEF Detached
<1>11. CASE Cancelled
  BY <1>1, <1>11 DEF Cancelled
<1>12. CASE StopExpires
  BY <1>12 DEF StopExpires, Abort
<1>13. CASE Discard
  BY <1>13 DEF Discard, Abort
<1>14. CASE AbortSettles
  BY <1>1, <1>14 DEF AbortSettles
<1>15. CASE Judge
  BY <1>1, <1>15 DEF Judge
<1>16. CASE GiveUp
  BY <1>1, <1>16 DEF GiveUp
<1>17. CASE UNCHANGED vars
  BY <1>1, <1>17 DEF vars
<1>18. QED
  BY <1>2, <1>3, <1>4, <1>5, <1>6, <1>7, <1>8, <1>9, <1>10, <1>11, <1>12,
     <1>13, <1>14, <1>15, <1>16, <1>17 DEF QuietNext

LEMMA Initially == Init => IInv
<1> SUFFICES ASSUME Init PROVE IInv
  OBVIOUS
<1>1. Sent = <<>> /\ frames = <<>> /\ emitted = 0 /\ latest = NoFrame
  BY DEF Init, Sent
<1>2. TypeInv
  <2>1. /\ <<>> \in Seq(Blocks) /\ <<>> \in Seq([size : Sizes, start : Nat])
        /\ 0 \in 0..MaxTime /\ 0 \in 0..MaxFrames
    BY TimeAssumption, LimitAssumption
  <2>2. TypeOK
    BY <2>1 DEF Init, TypeOK
  <2>3. QED
    BY <1>1, <2>2 DEF Init, TypeInv
<1>3. ProcessInv
  BY DEF Init, ProcessInv, Before
<1>4. LineInv
  BY <1>1 DEF LineInv, Ascends, Below
<1>5. ShownInv
  BY <1>1 DEF ShownInv
<1>6. EndInv
  BY <1>1 DEF EndInv
<1>7. PunctualInv
  BY DEF Init, PunctualInv
<1>8. QED
  BY <1>2, <1>3, <1>4, <1>5, <1>6, <1>7 DEF IInv

LEMMA Steps ==
  ASSUME [Next]_vars
  PROVE  QuietNext \/ Frame \/ Hold \/ Write \/ Flushed
  BY DEF Next, QuietNext

LEMMA Inductive == IInv /\ [Next]_vars => IInv'
<1> SUFFICES ASSUME IInv, [Next]_vars PROVE IInv'
  OBVIOUS
<1>1. ProcessInv'
  BY ProcessStep
<1>2. TypeInv' /\ LineInv' /\ ShownInv' /\ EndInv' /\ PunctualInv'
  <2>1. CASE QuietNext
    BY <2>1, QuietNextTypes, QuietNextLine, QuietNextPunctual
  <2>2. CASE Frame
    BY <2>2, FrameStep
  <2>3. CASE Hold
    BY <2>3, HoldStep
  <2>4. CASE Write
    BY <2>4, WriteStep
  <2>5. CASE Flushed
    BY <2>5, FlushedStep
  <2>6. QED
    BY <2>1, <2>2, <2>3, <2>4, <2>5, Steps
<1>3. QED
  BY <1>1, <1>2 DEF IInv

LEMMA AlwaysIInv == Spec => []IInv
<1>1. QED
  BY Initially, Inductive, PTL DEF Spec

----------------------------------------------------------------------------
(* The theorems.                                                           *)

\* The recorder's state keeps its types: the held frame is the last accepted
\* one, and without a writer no block is left waiting.
THEOREM TypeCorrect == Spec => []TypeOK
<1>1. IInv => TypeOK
  BY DEF IInv, TypeInv
<1>2. QED
  BY <1>1, AlwaysIInv, PTL

\* Blocks reach the encoder in order, no two for the same position.
THEOREM BlocksAscendHolds == Spec => []BlocksAscend
<1>1. IInv => BlocksAscend
  BY DEF IInv, LineInv, Ascends, Sent, BlocksAscend
<1>2. QED
  BY <1>1, AlwaysIInv, PTL

\* What a player shows where the blocks picture the frames.
LEMMA PicturedShown ==
  ASSUME NEW s \in Seq(Blocks), frames \in Seq(FrameRecords), NEW p \in Nat,
         Pictured(s, frames, p)
  PROVE  Shown(s, p) = FrameAt(p)
<1>1. PICK i \in DOMAIN s :
        /\ s[i].position <= p
        /\ \A j \in DOMAIN s : s[j].position <= p => j <= i
        /\ s[i].frame \in DOMAIN frames
        /\ frames[s[i].frame].start <= p
        /\ \A g \in DOMAIN frames : frames[g].start <= p => g <= s[i].frame
  BY DEF Pictured
<1> DEFINE at == {k \in DOMAIN s : s[k].position <= p}
<1>2. i \in at /\ \A j \in at : j <= i
  BY <1>1
<1>3. \A k \in at : (\A j \in at : j <= k) => k = i
  BY <1>2
<1>4. (CHOOSE k \in at : \A j \in at : j <= k) = i
  BY <1>2, <1>3
<1>5. Shown(s, p) = s[i].frame
  BY <1>2, <1>4 DEF Shown
<1>6. \A f \in DOMAIN frames :
        /\ frames[f].start <= p
        /\ \A g \in DOMAIN frames : frames[g].start <= p => g <= f
        => f = s[i].frame
  BY <1>1
<1>7. FrameAt(p) = s[i].frame
  BY <1>1, <1>6 DEF FrameAt
<1>8. QED
  BY <1>5, <1>7

\* When stop returns and the encoder stayed to the end, every accepted frame is
\* shown for exactly its span, the last one at least once.
THEOREM AcceptedFramesShownHolds == Spec => []AcceptedFramesShown
<1>1. ASSUME IInv PROVE AcceptedFramesShown
  <2> SUFFICES ASSUME stop = "returned", aborting = "no", cutShort = "no",
                      frames # <<>>
               PROVE  /\ \A p \in 0..(emitted - 1) :
                            Shown(written, p) = FrameAt(p)
                      /\ emitted > Last(frames).start
    BY DEF AcceptedFramesShown
  <2>1. TypeInv /\ ProcessInv /\ ShownInv
    BY <1>1 DEF IInv
  <2>2. /\ written \in Seq(Blocks) /\ emitted \in Nat
        /\ frames \in Seq(FrameRecords)
    BY <2>1 DEF TypeInv, TypeOK, FrameRecords
  <2>3. pending = <<>>
    BY <2>1 DEF ProcessInv
  <2>4. Sent = written
    BY <2>2, <2>3, ConcatEmptySeq DEF Sent
  <2>5. /\ \A p \in 0..(emitted - 1) : Pictured(written, frames, p)
        /\ Last(frames).start < emitted
    BY <2>1, <2>4 DEF ShownInv, Intact, Before
  <2>6. Last(frames).start \in Nat
    BY <2>2, FrameTypes DEF Last
  <2>7. ASSUME NEW p \in 0..(emitted - 1) PROVE Shown(written, p) = FrameAt(p)
    BY <2>2, <2>5, PicturedShown
  <2>8. QED
    BY <2>2, <2>5, <2>6, <2>7
<1>2. QED
  BY <1>1, AlwaysIInv, PTL

\* A video of more than one block ends on two that are one step apart.
THEOREM EndsOnAStepHolds == Spec => []EndsOnAStep
<1>1. ASSUME IInv PROVE EndsOnAStep
  <2> SUFFICES ASSUME stop = "ending", cutShort = "no", Len(written) > 1
               PROVE  /\ PositionFromEnd(written, 1) = emitted - 1
                      /\ PositionFromEnd(written, 2) = emitted - 2
    BY DEF EndsOnAStep
  <2>1. TypeInv /\ ProcessInv /\ EndInv
    BY <1>1 DEF IInv
  <2>2. written \in Seq(Blocks) /\ pending = <<>>
    BY <2>1 DEF TypeInv, TypeOK, ProcessInv
  <2>3. Sent = written
    BY <2>2, ConcatEmptySeq DEF Sent
  <2>4. QED
    BY <2>1, <2>3 DEF EndInv
<1>2. QED
  BY <1>1, AlwaysIInv, PTL

\* An encoder known to have left before stop ended its input never makes a
\* healthy recording.
THEOREM EarlyExitReportedHolds == Spec => []EarlyExitReported
<1>1. IInv => EarlyExitReported
  BY DEF IInv, ProcessInv, EarlyExitReported
<1>2. QED
  BY <1>1, AlwaysIInv, PTL

\* A frame that is little late starts at its own timestamp: neither holds nor
\* earlier frames push the timeline past it.
THEOREM PunctualFramesStartOnTimeHolds == Spec => PunctualFramesStartOnTime
<1> DEFINE A == /\ Len(frames') > Len(frames)
                /\ input = "open"
                /\ latest'.elapsed + HoldLag - Slack >= now - anchor'
                => Last(frames').start = GridPosition(latest'.elapsed)
<1>1. IInv /\ [Next]_vars => [A]_vars
  <2> SUFFICES ASSUME IInv, [Next]_vars PROVE A
    OBVIOUS
  <2>1. CASE Frame
    BY <2>1, FrameStep
  <2>2. CASE frames' = frames
    <3>1. Len(frames) \in Nat
      BY DEF IInv, TypeInv, TypeOK
    <3>2. QED
      BY <2>2, <3>1
  <2>3. QuietNext \/ Hold \/ Write \/ Flushed => frames' = frames
    BY DEF QuietNext, Hold, Write, Flushed, Tick, EncoderExits, InputFails,
       ExitNoticed, EncoderCloses, StopRecorder, Drained, Ended, Detached,
       Cancelled, StopExpires, Discard, Abort, AbortSettles, Judge, GiveUp,
       vars, timeline
  <2>4. QED
    BY <2>1, <2>2, <2>3, Steps
<1>2. QED
  BY <1>1, AlwaysIInv, PTL DEF Spec, PunctualFramesStartOnTime

----------------------------------------------------------------------------
(* The length of the queue.                                                *)

\* Until the flush there is room for a block of the held frame, unless the
\* last block pending is one; the flush adds two more.
RoomInv ==
    /\ Len(pending) <= MaxPendingBlocks + 2
    /\ stop \in Before =>
          /\ latest = NoFrame => pending = <<>>
          /\ latest # NoFrame => MaxPendingBlocks > 0
          /\ Len(pending) <= MaxPendingBlocks
          /\ latest # NoFrame /\ pending # <<>> =>
                Last(pending).frame = latest.id \/ Len(pending) < MaxPendingBlocks

LEMMA WhatIsLeft ==
  ASSUME NEW s \in Seq(Blocks), NEW n \in 0..Len(s)
  PROVE  /\ SubSeq(s, n + 1, Len(s)) \in Seq(Blocks)
         /\ Len(SubSeq(s, n + 1, Len(s))) = Len(s) - n
         /\ SubSeq(s, n + 1, Len(s)) # <<>> =>
               s # <<>> /\ Last(SubSeq(s, n + 1, Len(s))) = Last(s)
<1> DEFINE r == SubSeq(s, n + 1, Len(s))
<1>1. r \in Seq(Blocks) /\ Len(r) = Len(s) - n
      /\ \A i \in 1..(Len(s) - n) : r[i] = s[n + i]
  OBVIOUS
<1> HIDE DEF r
<1>2. ASSUME r # <<>>
      PROVE  s # <<>> /\ Last(r) = Last(s)
  <2>1. Len(s) - n \in 1..(Len(s) - n) /\ n + (Len(s) - n) = Len(s)
    BY <1>1, <1>2
  <2>2. r[Len(s) - n] = s[n + (Len(s) - n)]
    BY <1>1, <2>1
  <2>3. r[Len(r)] = s[Len(s)]
    BY <1>1, <2>1, <2>2
  <2>4. s # <<>>
    BY <1>1, <2>1
  <2>5. QED
    BY <2>3, <2>4 DEF Last
<1>3. QED
  BY <1>1, <1>2 DEF r

LEMMA EnqueuedRoom ==
  ASSUME TypeInv, NEW blocks \in Seq(Blocks), Enqueue(blocks)
  PROVE  /\ pending' \in Seq(Blocks)
         /\ Len(pending') <= Len(pending) + Len(blocks)
         /\ blocks = <<>> => pending' = pending
         /\ blocks # <<>> /\ pending' # <<>> => Last(pending') = Last(blocks)
<1>1. pending \in Seq(Blocks) /\ (writer = "idle" => pending = <<>>)
  BY DEF TypeInv, TypeOK
<1>2. CASE writer # "idle"
  <2>1. pending' = pending \o blocks
    BY <1>2 DEF Enqueue
  <2>2. /\ pending' \in Seq(Blocks) /\ Len(pending') = Len(pending) + Len(blocks)
        /\ \A i \in 1..Len(blocks) : pending'[Len(pending) + i] = blocks[i]
    BY <1>1, <2>1
  <2>3. blocks # <<>> => Len(blocks) \in 1..Len(blocks)
    OBVIOUS
  <2>4. blocks = <<>> => pending' = pending
    BY <1>1, <2>1, ConcatEmptySeq
  <2>5. QED
    BY <1>1, <2>2, <2>3, <2>4 DEF Last
<1>3. CASE writer = "idle"
  <2>1. PICK n \in 0..Len(blocks) : pending' = SubSeq(blocks, n + 1, Len(blocks))
    BY <1>3 DEF Enqueue
  <2>2. /\ pending' \in Seq(Blocks) /\ Len(pending') = Len(blocks) - n
        /\ pending' # <<>> => blocks # <<>> /\ Last(pending') = Last(blocks)
    <3>1. LET r == SubSeq(blocks, n + 1, Len(blocks)) IN
          /\ r \in Seq(Blocks) /\ Len(r) = Len(blocks) - n
          /\ r # <<>> => blocks # <<>> /\ Last(r) = Last(blocks)
      BY <2>1, WhatIsLeft
    <3>2. QED
      BY <2>1, <3>1
  <2>3. pending = <<>> /\ Len(pending) = 0
    BY <1>1, <1>3
  <2>4. blocks = <<>> => pending' = pending
    BY <2>2, <2>3
  <2>5. QED
    BY <2>2, <2>3, <2>4
<1>4. QED
  BY <1>2, <1>3

\* An extension needs a block only if there is room for one.
LEMMA ExtensionRoom ==
  ASSUME TypeInv, RoomInv, stop \in Before, latest # NoFrame,
         NEW position \in Int
  PROVE  /\ Extension(position) \in Seq(Blocks)
         /\ Len(pending) + Len(Extension(position)) <= MaxPendingBlocks
         /\ Extension(position) # <<>> =>
               Last(Extension(position)).frame = latest.id
<1>1. pending \in Seq(Blocks) /\ MaxPendingBlocks \in Nat
  BY LimitAssumption DEF TypeInv, TypeOK
<1>2. \/ Extension(position) = <<HeldBlock(emitted)>>
      \/ Extension(position) = <<>>
  BY Extensions
<1>3. Extension(position) \in Seq(Blocks)
  BY Extensions
<1>4. CASE Extension(position) = <<>>
  BY <1>1, <1>3, <1>4 DEF RoomInv
<1>5. CASE Extension(position) = <<HeldBlock(emitted)>>
  <2>1. Len(Extension(position)) = 1 /\ Extension(position) # <<>>
        /\ Last(Extension(position)) = HeldBlock(emitted)
    BY <1>5 DEF Last
  <2>2. pending # <<>> => Last(pending).frame # latest.id
    BY <2>1 DEF Extension
  <2>3. Len(pending) < MaxPendingBlocks
    BY <1>1, <2>2 DEF RoomInv
  <2>4. QED
    BY <1>1, <1>3, <2>1, <2>3 DEF HeldBlock
<1>6. QED
  BY <1>2, <1>4, <1>5

LEMMA FillRoom ==
  ASSUME TypeInv, RoomInv, stop \in Before, latest # NoFrame,
         NEW position \in Int, FillTo(position)
  PROVE  /\ pending' \in Seq(Blocks) /\ Len(pending') <= MaxPendingBlocks
         /\ pending' # <<>> =>
               Last(pending').frame = latest.id \/ Len(pending') < MaxPendingBlocks
<1>1. /\ Extension(position) \in Seq(Blocks)
      /\ Len(pending) + Len(Extension(position)) <= MaxPendingBlocks
      /\ Extension(position) # <<>> => Last(Extension(position)).frame = latest.id
  BY ExtensionRoom
<1>2. /\ pending' \in Seq(Blocks)
      /\ Len(pending') <= Len(pending) + Len(Extension(position))
      /\ Extension(position) = <<>> => pending' = pending
      /\ Extension(position) # <<>> /\ pending' # <<>> =>
            Last(pending') = Last(Extension(position))
  BY <1>1, EnqueuedRoom DEF FillTo
<1>3. pending \in Seq(Blocks) /\ MaxPendingBlocks \in Nat
  BY LimitAssumption DEF TypeInv, TypeOK
<1>4. Len(pending') <= MaxPendingBlocks
  BY <1>1, <1>2, <1>3
<1>5. CASE Extension(position) = <<>>
  BY <1>2, <1>4, <1>5 DEF RoomInv
<1>6. CASE Extension(position) # <<>>
  BY <1>1, <1>2, <1>4, <1>6
<1>7. QED
  BY <1>5, <1>6

LEMMA FrameRoom ==
  ASSUME IInv, RoomInv, Frame
  PROVE  RoomInv'
<1>1. TypeInv /\ ProcessInv /\ pending \in Seq(Blocks) /\ MaxPendingBlocks \in Nat
  BY LimitAssumption DEF IInv, TypeInv, TypeOK
<1>2. ~stopped /\ stop' = stop /\ stop \in Before
  BY <1>1 DEF Frame, control, ProcessInv
<1>3. PICK elapsed \in ElapsedTimes, size \in Sizes :
        /\ IF latest = NoFrame
           THEN anchor' = now /\ UNCHANGED <<queue, emitted>>
           ELSE FillTo(GridPosition(elapsed)) /\ UNCHANGED anchor
        /\ \/ latest' = IF latest = NoFrame THEN NoFrame
                        ELSE Extended(GridPosition(elapsed))
           \/ /\ ~Overload(pending', size)
              /\ frames' = Append(frames, [size |-> size, start |-> emitted'])
              /\ latest' = [id |-> Len(frames'), elapsed |-> elapsed,
                            receivedAt |-> now, shown |-> FALSE,
                            decoded |-> FALSE]
  BY DEF Frame
<1>4. GridPosition(elapsed) \in Int /\ elapsed \in Nat /\ now \in Nat
  <2>1. /\ latest # NoFrame => latest.elapsed \in Nat
        /\ now \in Nat /\ anchor \in Nat /\ Slack \in Nat
    BY <1>1, TimeAssumption DEF TypeInv, TypeOK
  <2>2. elapsed \in Nat /\ elapsed \in Int
    BY <2>1 DEF ElapsedTimes, Larger
  <2>3. QED
    BY <2>1, <2>2, GridInt
<1>5. /\ pending' \in Seq(Blocks) /\ Len(pending') <= MaxPendingBlocks
      /\ latest = NoFrame => pending' = <<>>
      /\ latest # NoFrame /\ pending' # <<>> =>
            Last(pending').frame = latest.id \/ Len(pending') < MaxPendingBlocks
  <2>1. CASE latest = NoFrame
    BY <1>1, <1>2, <1>3, <2>1 DEF queue, RoomInv
  <2>2. CASE latest # NoFrame
    BY <1>1, <1>2, <1>3, <1>4, <2>2, FillRoom
  <2>3. QED
    BY <2>1, <2>2
<1>6. CASE latest' = IF latest = NoFrame THEN NoFrame
                     ELSE Extended(GridPosition(elapsed))
  <2>1. latest # NoFrame => latest' # NoFrame /\ latest'.id = latest.id
    BY <1>1, <1>4, <1>6, ExtendedHeld
  <2>2. QED
    BY <1>1, <1>2, <1>5, <1>6, <2>1 DEF RoomInv
<1>7. ASSUME ~Overload(pending', size),
             frames' = Append(frames, [size |-> size, start |-> emitted']),
             latest' = [id |-> Len(frames'), elapsed |-> elapsed,
                        receivedAt |-> now, shown |-> FALSE, decoded |-> FALSE]
      PROVE  RoomInv'
  <2>1. Len(pending') < MaxPendingBlocks
    BY <1>1, <1>5, <1>7 DEF Overload
  <2>2. latest' # NoFrame
    <3>1. Len(frames') \in Nat
      <4>1. frames \in Seq([size : Sizes, start : Nat])
            /\ [size |-> size, start |-> emitted'] \in [size : Sizes, start : {emitted'}]
        BY <1>1 DEF TypeInv, TypeOK
      <4>2. Len(Append(frames, [size |-> size, start |-> emitted'])) = Len(frames) + 1
            /\ Len(frames) \in Nat
        BY <4>1
      <4>3. QED
        BY <1>7, <4>2
    <3>2. elapsed \in Nat /\ now \in Nat
      BY <1>1, <1>4
    <3>3. latest' \in HeldFrames
      BY <1>7, <3>1, <3>2 DEF HeldFrames
    <3>4. QED
      BY <3>3, NoFrameAssumption
  <2>3. QED
    BY <1>1, <1>2, <1>5, <2>1, <2>2 DEF RoomInv
<1>8. QED
  BY <1>3, <1>6, <1>7

LEMMA HoldRoom ==
  ASSUME IInv, RoomInv, Hold
  PROVE  RoomInv'
<1> DEFINE position == HeldPosition(HoldLag)
<1>1. TypeInv /\ ProcessInv /\ MaxPendingBlocks \in Nat
  BY LimitAssumption DEF IInv
<1>2. /\ ~stopped /\ latest # NoFrame /\ FillTo(position)
      /\ latest' = Extended(position) /\ stop' = stop
  BY DEF Hold, control
<1>3. position \in Int /\ stop \in Before
  BY <1>1, <1>2, Heights, TimeAssumption DEF ProcessInv
<1>4. latest' # NoFrame /\ latest'.id = latest.id
  BY <1>1, <1>2, <1>3, ExtendedHeld
<1>5. /\ pending' \in Seq(Blocks) /\ Len(pending') <= MaxPendingBlocks
      /\ pending' # <<>> =>
            Last(pending').frame = latest.id \/ Len(pending') < MaxPendingBlocks
  BY <1>1, <1>2, <1>3, FillRoom
<1>6. QED
  BY <1>1, <1>2, <1>3, <1>4, <1>5 DEF RoomInv

LEMMA WriteRoom ==
  ASSUME IInv, RoomInv, Write
  PROVE  RoomInv'
<1>1. pending \in Seq(Blocks) /\ MaxPendingBlocks \in Nat
  BY LimitAssumption DEF IInv, TypeInv, TypeOK
<1>2. stop' = stop
  BY DEF Write, control
<1>3. CASE ReleasePending
  BY <1>1, <1>2, <1>3 DEF ReleasePending, RoomInv
<1>4. CASE UNCHANGED latest /\ pending' = pending
  BY <1>2, <1>4 DEF RoomInv
<1>5. ASSUME UNCHANGED latest, NEW n \in 1..Len(pending),
             pending' = SubSeq(pending, n + 1, Len(pending))
      PROVE  RoomInv'
  <2>1. /\ pending' \in Seq(Blocks) /\ Len(pending') <= Len(pending)
        /\ pending' # <<>> => pending # <<>> /\ Last(pending') = Last(pending)
    <3>1. n \in 0..Len(pending) /\ Len(pending) - n <= Len(pending)
      BY <1>1
    <3>2. LET r == SubSeq(pending, n + 1, Len(pending)) IN
          /\ r \in Seq(Blocks) /\ Len(r) = Len(pending) - n
          /\ r # <<>> => pending # <<>> /\ Last(r) = Last(pending)
      BY <1>1, <3>1, WhatIsLeft
    <3>3. QED
      BY <1>5, <3>1, <3>2
  <2>2. pending # <<>>
    BY <1>5
  <2>3. QED
    BY <1>1, <1>2, <1>5, <2>1, <2>2 DEF RoomInv
<1>6. QED
  BY <1>3, <1>4, <1>5 DEF Write

LEMMA FlushedRoom ==
  ASSUME IInv, RoomInv, Flushed
  PROVE  RoomInv'
<1>1. TypeInv /\ ProcessInv /\ LineInv /\ pending \in Seq(Blocks)
      /\ MaxPendingBlocks \in Nat
  BY LimitAssumption DEF IInv, TypeInv, TypeOK
<1>2. stop \in Before /\ stop' \notin Before
  BY DEF Flushed, Before
<1>3. CASE latest = NoFrame
  BY <1>1, <1>2, <1>3 DEF Flushed, queue, RoomInv
<1>4. CASE latest # NoFrame
  <2> DEFINE filled == Larger(emitted, FinalPosition)
             added == Extension(FinalPosition)
             ends == IF ~Writable THEN <<>>
                     ELSE EndPositions(filled, written \o pending \o added)
             closing == BlocksOfLatest(ends)
  <2>1. FinalPosition \in Int /\ emitted \in Nat
    BY <1>1, <1>4, FinalPositions, SentIsSeq
  <2>2. /\ added \in Seq(Blocks)
        /\ Len(pending) + Len(added) <= MaxPendingBlocks
    BY <1>1, <1>2, <1>4, <2>1, ExtensionRoom
  <2>3. filled \in Nat
    BY <2>1, LargerInt DEF Larger
  <2>4. closing \in Seq(Blocks) /\ Len(closing) <= 2
    <3>1. \/ ends = <<>>
          \/ \E p : ends = <<p>>
          \/ \E p, q : ends = <<p, q>>
      BY DEF EndPositions
    <3> HIDE DEF ends, closing
    <3>2. closing \in Seq(Blocks)
      <4> DEFINE t == Sent \o added
      <4>1. t \in Seq(Blocks) /\ Ascends(t) /\ Below(t, filled)
        BY <1>1, <1>4, <2>1, Filled
      <4>2. BlocksOfLatest(EndPositions(filled, t)) \in Seq(Blocks)
        BY <1>1, <1>4, <2>3, <4>1, Endings
      <4>3. BlocksOfLatest(<<>>) = <<>>
        BY <1>1, <1>4, HeldBlocks
      <4>4. ends = <<>> \/ ends = EndPositions(filled, t)
        BY DEF ends, Sent
      <4>5. CASE ends = <<>>
        <5>1. closing = <<>>
          BY <4>3, <4>5 DEF closing
        <5>2. QED
          BY <5>1
      <4>6. CASE ends = EndPositions(filled, t)
        <5>1. closing = BlocksOfLatest(EndPositions(filled, t))
          BY <4>6 DEF closing
        <5>2. QED
          BY <4>2, <5>1
      <4>7. QED
        BY <4>4, <4>5, <4>6
    <3>3. \/ closing = <<>>
          \/ \E p : closing = <<HeldBlock(p)>>
          \/ \E p, q : closing = <<HeldBlock(p), HeldBlock(q)>>
      BY <1>1, <1>4, <3>1, HeldBlocks DEF closing
    <3>4. Len(closing) <= 2
      <4>1. CASE closing = <<>>
        BY <4>1
      <4>2. ASSUME NEW p, closing = <<HeldBlock(p)>>
            PROVE  Len(closing) <= 2
        BY <4>2
      <4>3. ASSUME NEW p, NEW q, closing = <<HeldBlock(p), HeldBlock(q)>>
            PROVE  Len(closing) <= 2
        BY <4>3
      <4>4. QED
        BY <3>3, <4>1, <4>2, <4>3
    <3>5. QED
      BY <3>2, <3>4
  <2>5. Enqueue(added \o closing)
    BY <1>4 DEF Flushed
  <2>6. added \o closing \in Seq(Blocks)
        /\ Len(added \o closing) = Len(added) + Len(closing)
    BY <2>2, <2>4
  <2>7. Len(pending') <= Len(pending) + Len(added \o closing)
        /\ pending' \in Seq(Blocks)
    BY <1>1, <2>5, <2>6, EnqueuedRoom
  <2>8. QED
    BY <1>1, <1>2, <2>2, <2>4, <2>6, <2>7 DEF RoomInv
<1>5. QED
  BY <1>3, <1>4

LEMMA QuietRoom ==
  ASSUME IInv, RoomInv, QuietNext
  PROVE  RoomInv'
<1>1. MaxPendingBlocks \in Nat /\ pending \in Seq(Blocks) /\ ProcessInv
  BY LimitAssumption DEF IInv, TypeInv, TypeOK
<1>2. ASSUME Kept \/ ReleasePending, stop' \in Before => stop \in Before
      PROVE  RoomInv'
  BY <1>1, <1>2 DEF Kept, ReleasePending, RoomInv
<1>3. CASE StopRecorder \/ Drained \/ Ended \/ Detached \/ Cancelled
  <2>1. Kept \/ ReleasePending
    BY <1>3 DEF StopRecorder, Drained, Ended, Detached, Cancelled, Kept,
       timeline, queue
  <2>2. stop' \in Before => stop \in Before
    BY <1>1, <1>3 DEF ProcessInv, StopRecorder, Drained, Ended, Detached, Cancelled, Before
  <2>3. QED
    BY <1>2, <2>1, <2>2
<1>4. CASE StopExpires \/ Discard
  BY <1>2, <1>4 DEF StopExpires, Discard, Abort
<1>5. CASE EncoderCloses
  <2>1. Kept \/ ReleasePending
    BY <1>5 DEF EncoderCloses, Kept
  <2>2. stop' = stop
    BY <1>5 DEF EncoderCloses, control
  <2>3. QED
    BY <1>2, <2>1, <2>2
<1>6. CASE \/ Tick \/ EncoderExits \/ InputFails \/ ExitNoticed
           \/ AbortSettles \/ Judge \/ GiveUp \/ UNCHANGED vars
  <2>1. Kept /\ stop' = stop
    BY <1>6 DEF Tick, EncoderExits, InputFails, ExitNoticed, AbortSettles,
       Judge, GiveUp, vars, Kept, timeline, queue, control
  <2>2. QED
    BY <1>2, <2>1
<1>7. QED
  BY <1>3, <1>4, <1>5, <1>6 DEF QuietNext

\* The writer may stall for as long as it likes: while frames are taken the
\* queue never holds more blocks than its limit, and the stop adds two at most.
THEOREM BlocksBoundedHolds == Spec => []BlocksBounded
<1>1. Init => RoomInv
  BY LimitAssumption DEF Init, RoomInv
<1>2. IInv /\ RoomInv /\ [Next]_vars => RoomInv'
  BY Steps, QuietRoom, FrameRoom, HoldRoom, WriteRoom, FlushedRoom
<1>3. IInv /\ RoomInv => BlocksBounded
  BY LimitAssumption DEF IInv, TypeInv, TypeOK, RoomInv, BlocksBounded, Before
<1>4. QED
  BY <1>1, <1>2, <1>3, AlwaysIInv, PTL DEF Spec
=============================================================================
