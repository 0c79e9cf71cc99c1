------------------------------ MODULE IqProofs ------------------------------
(***************************************************************************)
(* Proofs about the IQ ring and its two readers.                           *)
(*                                                                         *)
(* The ring, for every buffer size, every set of block lengths and every   *)
(* bound: the inductive invariant is RingInv, what each slot holds at      *)
(* every point of a work() call.                                           *)
(*                                                                         *)
(* The processor (module IqDecode): its lock-free copies are intact for    *)
(* every buffer size, window length and block size, provided only that the *)
(* RX advances by at most B - D samples while a cycle reads (Headroom).    *)
(* ChunksIntact is not inductive: it says nothing of the samples still to  *)
(* be copied.  The strengthening adds what the ring holds (RingInv) and    *)
(* how far the RX can be from the index the cycle works with (CycleInv).   *)
(*                                                                         *)
(* The capture (module IqCapture): it returns exactly the samples received *)
(* after the request, for every ring and block size, every length and any  *)
(* number of clients, under the two conditions TLC found to be needed: the *)
(* RX advances by at most half a chunk between two looks at the index      *)
(* (FastHost), and no capture begins at index 0, B/2 or B (Unaligned).     *)
(* The inductive invariant follows the distance between the RX and the     *)
(* chunk (TrackInv) and extends CaptureContiguous to the samples that the  *)
(* integrity guard has not passed yet (SegmentInv).  The last part proves  *)
(* what the guard is still worth when the RX may advance by half the       *)
(* buffer between two looks (SlowHost), for captures of whole chunks       *)
(* (WholeChunks): SlowInv follows the lap of every sample of the chunk     *)
(* instead.                                                                *)
(*                                                                         *)
(* The two readers are here together, and never act together: no theorem   *)
(* uses the assumption on the constants of the other one.                  *)
(***************************************************************************)
EXTENDS IqDecode, IqCapture, TLAPS

RingInv == RingTypeOK /\ RingContent

(* The ring starts in a state that satisfies the invariant.                *)
LEMMA RingInitInv == RingInit => RingInv
  BY RingAssumption
  DEF RingInit, RingInv, RingTypeOK, RingContent, Content, DropRecord

(* work() starts: no slot changes.                                         *)
LEMMA WorkBeginInv ==
  ASSUME RingInv, NEW n \in Blocks, NEW gap \in BOOLEAN, WorkBegin(n, gap)
  PROVE  RingInv'
<1> USE RingAssumption
<1>1. RingTypeOK'
  <2>1. drop_feeder' \in Seq(DropRecord)
    <3> DEFINE position == [idx |-> buf_write_idx, at |-> Received]
    <3>1. position \in DropRecord
      BY DEF RingInv, RingTypeOK, DropRecord, Received
    <3>2. drop_feeder' \in {drop_feeder, Append(drop_feeder, position)}
      BY Zenon DEF WorkBegin
    <3>3. drop_feeder \in Seq(DropRecord)
      BY DEF RingInv, RingTypeOK
    <3> HIDE DEF position
    <3> QED  BY <3>1, <3>2, <3>3
  <2> QED  BY <2>1, SMTT(20) DEF RingInv, RingTypeOK, WorkBegin
<1>2. RingContent'
  BY SMTT(20) DEF RingInv, RingTypeOK, RingContent, Content, WorkBegin
<1> QED  BY <1>1, <1>2 DEF RingInv

(* One sample is written: to the slot RingContent gives it, on either side *)
(* of the end of the buffer.                                               *)
LEMMA WorkCopyInv == RingInv /\ WorkCopy => RingInv'
<1> SUFFICES ASSUME RingInv, WorkCopy  PROVE RingInv'
  OBVIOUS
<1> USE RingAssumption
<1> DEFINE space == B - buf_write_idx
           slot  == IF copied < space THEN buf_write_idx + copied ELSE copied - space
<1>1. /\ blk \in 1..B
      /\ copied \in 0..blk-1
      /\ slot \in 0..B-1
  BY DEF RingInv, RingTypeOK, WorkCopy
<1>2. iq_buffer' = [iq_buffer EXCEPT ![slot] = Received + copied]
  BY DEF WorkCopy
<1>3. RingTypeOK'
  BY <1>1, <1>2 DEF RingInv, RingTypeOK, WorkCopy, Received
<1>4. RingContent'
  <2> SUFFICES ASSUME NEW i \in 0..B-1  PROVE iq_buffer'[i] = Content(i)'
    BY DEF RingContent
  <2>1. iq_buffer[i] = Content(i)
    BY DEF RingInv, RingContent
  <2>2. CASE i = slot
    <3>1. iq_buffer'[i] = Received + copied
      BY <1>2, <2>2 DEF RingInv, RingTypeOK
    <3>2. /\ buf_write_idx' = buf_write_idx /\ lap' = lap /\ copied' = copied + 1
          /\ buf_write_idx \in 0..B /\ lap \in Nat /\ copied \in Nat
      BY <1>1 DEF RingInv, RingTypeOK, WorkCopy
    <3>3. Content(i)' = Received + copied
      <4>1. CASE copied < space
        BY <1>1, <2>2, <3>2, <4>1 DEF Content, Received
      <4>2. CASE ~(copied < space)
        BY <1>1, <2>2, <3>2, <4>2 DEF Content, Received
      <4> QED  BY <4>1, <4>2
    <3> QED  BY <3>1, <3>3
  <2>3. CASE i # slot
    <3>1. iq_buffer'[i] = iq_buffer[i]
      BY <1>2, <2>3 DEF RingInv, RingTypeOK
    <3>2. Content(i)' = Content(i)
      BY <1>1, <2>3 DEF RingInv, RingTypeOK, Content, WorkCopy
    <3> QED  BY <2>1, <3>1, <3>2
  <2> QED  BY <2>2, <2>3
<1> QED  BY <1>3, <1>4 DEF RingInv

(* The index is published: every slot already holds what the new index     *)
(* says it holds.                                                          *)
LEMMA WorkPublishInv == RingInv /\ WorkPublish => RingInv'
<1> SUFFICES ASSUME RingInv, WorkPublish  PROVE RingInv'
  OBVIOUS
<1> USE RingAssumption
<1>1. blk \in 1..B /\ copied = blk
  BY DEF RingInv, RingTypeOK, WorkPublish
<1>2. RingTypeOK'
  BY <1>1 DEF RingInv, RingTypeOK, WorkPublish
<1>3. RingContent'
  <2> SUFFICES ASSUME NEW i \in 0..B-1  PROVE iq_buffer'[i] = Content(i)'
    BY DEF RingContent
  <2>1. iq_buffer'[i] = Content(i)
    BY DEF RingInv, RingContent, WorkPublish
  <2>2. Content(i)' = Content(i)
    <3>1. CASE blk <= B - buf_write_idx
      BY <1>1, <3>1 DEF RingInv, RingTypeOK, Content, WorkPublish
    <3>2. CASE blk > B - buf_write_idx
      BY <1>1, <3>2, SMTT(20) DEF RingInv, RingTypeOK, Content, WorkPublish
    <3> QED  BY <1>1, <3>1, <3>2 DEF RingInv, RingTypeOK
  <2> QED  BY <2>1, <2>2
<1> QED  BY <1>2, <1>3 DEF RingInv

(* The queue's feeder thread does not touch the buffer.                    *)
LEMMA FeedDropInv == RingInv /\ FeedDrop => RingInv'
<1> SUFFICES ASSUME RingInv, FeedDrop  PROVE RingInv'
  OBVIOUS
<1>1. Head(drop_feeder) \in DropRecord /\ Tail(drop_feeder) \in Seq(DropRecord)
  BY DEF RingInv, RingTypeOK, FeedDrop
<1>2. RingTypeOK'
  BY <1>1 DEF RingInv, RingTypeOK, FeedDrop
<1>3. RingContent'
  BY DEF RingInv, RingContent, Content, FeedDrop
<1> QED  BY <1>2, <1>3 DEF RingInv

(* Nothing changes, nothing breaks.                                        *)
LEMMA RingStutterInv == RingInv /\ UNCHANGED ringVars => RingInv'
  BY DEF RingInv, RingTypeOK, RingContent, Content, ringVars

(* The content of every slot is known at every moment.                     *)
THEOREM RingInvariant == RingSpec => []RingInv
<1>1. RingInv /\ [RingNext]_ringVars => RingInv'
  BY WorkBeginInv, WorkCopyInv, WorkPublishInv, FeedDropInv, RingStutterInv
  DEF RingNext
<1> QED  BY RingInitInv, <1>1, PTL DEF RingSpec

(* Every slot holds the sample that belongs there, also in the middle of a  *)
(* block that is split over the end of the buffer.                         *)
THEOREM ContentHolds == RingSpec => [](RingTypeOK /\ RingContent)
<1>1. RingInv => RingTypeOK /\ RingContent
  BY DEF RingInv
<1> QED  BY RingInvariant, <1>1, PTL

(* The newest samples are where a reader looks for them, all of the last B *)
(* but those the block in progress has replaced, whatever the block sizes. *)
LEMMA ContentHoldsNewest == RingInv => RingHoldsNewest
  BY RingAssumption
  DEF RingInv, RingTypeOK, RingContent, Content, RingHoldsNewest, Home, Received

(* At every moment the newest samples are in the ring.                     *)
THEOREM HoldsNewest == RingSpec => []RingHoldsNewest
  BY RingInvariant, ContentHoldsNewest, PTL

(* The same with the readers at work, however slow they are: the processor *)
(* changes nothing of the ring but the pipe's end of the drop queue.       *)
LEMMA ProcessorKeepsRing == RingInv /\ [DecodeNext]_decodeVars => RingInv'
<1> SUFFICES ASSUME RingInv, [DecodeNext]_decodeVars  PROVE RingInv'
  OBVIOUS
<1>1. CASE DecodeRx
  BY <1>1, WorkBeginInv, WorkCopyInv, WorkPublishInv, FeedDropInv DEF DecodeRx, DecodeRxBegin
<1>2. CASE DrainDrop
  <2>1. Tail(drop_queue) \in Seq(DropRecord)
    BY <1>2 DEF RingInv, RingTypeOK, DrainDrop
  <2> QED  BY <1>2, <2>1 DEF RingInv, RingTypeOK, RingContent, Content, DrainDrop
<1>3. CASE UNCHANGED ringVars
  BY <1>3, RingStutterInv
<1> QED
  BY <1>1, <1>2, <1>3 DEF DecodeNext, Proc, ReadIdx, ConvertDrops, CopySpec, CopyDecode,
     EndCycle, decodeVars, ringVars

LEMMA CaptureKeepsRing == RingInv /\ [Next]_vars => RingInv'
<1> SUFFICES ASSUME RingInv, [Next]_vars  PROVE RingInv'
  OBVIOUS
<1>1. CASE Rx
  BY <1>1, WorkBeginInv, WorkCopyInv, WorkPublishInv DEF Rx, RxBegin
<1>2. CASE UNCHANGED ringVars
  BY <1>2, RingStutterInv
<1>3. CASE Capture
  <2>1. UNCHANGED ringVars
    BY <1>3 DEF Capture, Poll, PollTimeout, ChunkReady, CopySample, GuardOverrun, GuardPass
  <2> QED  BY <1>2, <2>1
<1>4. CASE Request
  <2>1. UNCHANGED ringVars
    BY <1>4 DEF Request, StartCapture, RejectCapture
  <2> QED  BY <1>2, <2>1
<1>5. CASE UNCHANGED vars
  <2>1. UNCHANGED ringVars
    BY <1>5 DEF vars, ringVars
  <2> QED  BY <1>2, <2>1
<1> QED  BY <1>1, <1>3, <1>4, <1>5 DEF Next

(* At every moment the newest samples are in the ring, whatever the        *)
(* processor does with it and however long it takes (processor_main).      *)
THEOREM ProcessorSparesRing == DecodeSpec => []RingHoldsNewest
  BY RingInitInv, ProcessorKeepsRing, ContentHoldsNewest, PTL DEF DecodeSpec, DecodeInit

(* ... and whatever the captures do (_capture_iq).                         *)
THEOREM CaptureSparesRing == Spec => []RingHoldsNewest
  BY RingInitInv, CaptureKeepsRing, ContentHoldsNewest, PTL DEF Spec, Init

-----------------------------------------------------------------------------
(* For the readers: appending the next number to a run of consecutive      *)
(* numbers gives a run of consecutive numbers.                             *)
LEMMA AppendToRun ==
  ASSUME NEW run \in Seq(Int), NEW a \in Int,
         \A j \in 1..Len(run) : run[j] = a + j - 1
  PROVE  LET longer == Append(run, a + Len(run))
         IN  /\ longer \in Seq(Int)
             /\ Len(longer) = Len(run) + 1
             /\ \A j \in 1..Len(run)+1 : longer[j] = a + j - 1
<1> DEFINE x == a + Len(run)
           longer == Append(run, x)
<1>1. x \in Int /\ Len(run) \in Nat
  OBVIOUS
<1>2. longer \in Seq(Int) /\ Len(longer) = Len(run) + 1
  BY <1>1
<1>3. ASSUME NEW j \in 1..Len(run)+1  PROVE longer[j] = a + j - 1
  <2>1. CASE j \in 1..Len(run)
    <3>1. longer[j] = run[j]
      BY <2>1
    <3> QED  BY <2>1, <3>1
  <2>2. CASE j = Len(run) + 1
    <3>1. longer[j] = x
      BY <2>2
    <3> QED  BY <1>1, <2>2, <3>1
  <2> QED  BY <1>1, <1>3, <2>1, <2>2
<1> QED  BY <1>2, <1>3
-----------------------------------------------------------------------------
(* The processor as a reader of the ring.                                  *)

Headroom == ReadLag <= B - D

(* While a cycle reads, the RX is at most ReadLag samples past the index it    *)
(* read, the block in progress included, and at most one lap further.      *)
CycleInv ==
    Reading =>
        /\ read_at <= Received
        /\ Received + blk <= read_at + ReadLag
        /\ lap \in {read_at - widx, read_at - widx + B}

(* How much of each chunk there is in each phase.                          *)
PhaseInv ==
    /\ pc = "drain" => spec_chunk_iq = <<>>
    /\ pc = "spec" => Len(spec_chunk_iq) < S
    /\ pc \in {"drain", "spec"} => decode_chunk = <<>>
    /\ pc = "decode" => Len(decode_chunk) < D

DecodeInv == DecodeTypeOK /\ RingContent /\ CycleInv /\ PhaseInv /\ ChunksIntact

(* The processor starts before its first cycle, with nothing read.         *)
LEMMA DecodeInitInv == DecodeInit => DecodeInv
<1> SUFFICES ASSUME DecodeInit  PROVE DecodeInv
  OBVIOUS
<1>1. RingInv
  BY RingInitInv DEF DecodeInit
<1>2. DecodeTypeOK
  BY <1>1, RingAssumption, DecodeAssumption DEF DecodeInit, DecodeTypeOK, RingInv
<1> QED  BY <1>1, <1>2 DEF DecodeInit, DecodeInv, RingInv, CycleInv, Reading, PhaseInv, ChunksIntact

(* The point of the argument: while the RX stays within the headroom, the  *)
(* k-th index _extract_last(n) reads holds the k-th of the last n samples  *)
(* published when the cycle began.                                         *)
LEMMA ReadsOwnSample ==
  ASSUME Headroom, DecodeTypeOK, RingContent, CycleInv, Reading,
         NEW n \in 1..D, NEW k \in 0..n-1
  PROVE  /\ SampleIndex(n, k) \in 0..B-1
         /\ iq_buffer[SampleIndex(n, k)] = read_at - n + k
<1> USE RingAssumption, DecodeAssumption
<1> DEFINE i == SampleIndex(n, k)
<1>1. /\ widx \in 0..B /\ read_at \in Nat /\ lap \in Nat
      /\ buf_write_idx \in 0..B /\ blk \in 0..B /\ copied \in 0..blk
  BY DEF DecodeTypeOK, RingTypeOK
<1>2. /\ i \in 0..B-1
      /\ \/ i = widx - n + k
         \/ i = widx - n + k + B /\ widx - n + k < 0
  BY <1>1 DEF SampleIndex, StartOf
<1>3. /\ lap + buf_write_idx + blk <= read_at + (B - D)
      /\ read_at <= lap + buf_write_idx
      /\ lap = read_at - widx \/ lap = read_at - widx + B
  BY <1>1 DEF CycleInv, Headroom, Received
<1>4. Content(i) = read_at - n + k
  <2>1. CASE lap = read_at - widx /\ i = widx - n + k
    BY <1>1, <1>2, <1>3, <2>1 DEF Content
  <2>2. CASE lap = read_at - widx /\ i = widx - n + k + B /\ widx - n + k < 0
    BY <1>1, <1>2, <1>3, <2>2 DEF Content
  <2>3. CASE lap = read_at - widx + B /\ i = widx - n + k
    BY <1>1, <1>2, <1>3, <2>3 DEF Content
  <2>4. CASE lap = read_at - widx + B /\ i = widx - n + k + B /\ widx - n + k < 0
    BY <1>1, <1>2, <1>3, <2>4 DEF Content
  <2> QED  BY <1>2, <1>3, <2>1, <2>2, <2>3, <2>4
<1> QED  BY <1>2, <1>4 DEF RingContent

-----------------------------------------------------------------------------
(* Steps of the RX thread.                                                 *)
LEMMA RxInv == ASSUME Headroom, DecodeInv, DecodeRx  PROVE DecodeInv'
<1> USE RingAssumption, DecodeAssumption
<1>1. UNCHANGED procVars
  BY DEF DecodeRx, DecodeRxBegin
<1>2. RingInv'
  BY WorkBeginInv, WorkCopyInv, WorkPublishInv, FeedDropInv
  DEF DecodeRx, DecodeRxBegin, DecodeInv, DecodeTypeOK, RingInv
<1>3. DecodeTypeOK'
  BY <1>1, <1>2 DEF DecodeInv, DecodeTypeOK, RingInv, procVars
<1>4. ChunksIntact' /\ PhaseInv'
  BY <1>1 DEF DecodeInv, ChunksIntact, PhaseInv, procVars
<1>5. CycleInv'
  <2> SUFFICES ASSUME Reading'  PROVE (CycleInv!2)'
    BY DEF CycleInv
  <2>1. /\ Reading /\ widx' = widx /\ read_at' = read_at
    BY <1>1 DEF Reading, procVars
  <2>2. /\ read_at <= Received /\ Received + blk <= read_at + ReadLag
        /\ lap \in {read_at - widx, read_at - widx + B}
    BY <2>1 DEF DecodeInv, CycleInv
  <2>3. /\ widx \in 0..B /\ read_at \in Nat /\ lap \in Nat
        /\ buf_write_idx \in 0..B /\ blk \in 0..B
    BY DEF DecodeInv, DecodeTypeOK, RingTypeOK
  <2>4. CASE \E n \in Blocks, gap \in BOOLEAN : DecodeRxBegin(n, gap)
    BY <2>1, <2>2, <2>3, <2>4 DEF DecodeRxBegin, WorkBegin, Received
  <2>5. CASE WorkCopy
    BY <2>1, <2>2, <2>5 DEF WorkCopy, Received
  <2>6. CASE WorkPublish
    <3>1. CASE blk <= B - buf_write_idx
      BY <2>1, <2>2, <2>3, <2>6, <3>1 DEF WorkPublish, Received
    <3>2. CASE blk > B - buf_write_idx
      BY <2>1, <2>2, <2>3, <2>6, <3>2 DEF WorkPublish, Received, Headroom
    <3> QED  BY <2>3, <3>1, <3>2
  <2>7. CASE FeedDrop
    BY <2>1, <2>2, <2>7 DEF FeedDrop, Received
  <2> QED  BY <2>4, <2>5, <2>6, <2>7 DEF DecodeRx
<1> QED  BY <1>2, <1>3, <1>4, <1>5 DEF DecodeInv, RingInv

(* Steps of the processor.  A cycle starts at the published index; the     *)
(* block in progress at that moment is within the headroom.                *)
LEMMA ReadIdxInv == ASSUME DecodeInv, ReadIdx  PROVE DecodeInv'
<1> USE RingAssumption, DecodeAssumption
<1>1. DecodeTypeOK'
  BY DEF DecodeInv, DecodeTypeOK, RingTypeOK, ReadIdx, ringVars, Received
<1>2. RingContent' /\ PhaseInv' /\ ChunksIntact'
  BY DEF DecodeInv, ReadIdx, ringVars, RingContent, Content, PhaseInv, ChunksIntact
<1>3. CycleInv'
  BY DEF DecodeInv, DecodeTypeOK, RingTypeOK, ReadIdx, ringVars, CycleInv, Received
<1> QED  BY <1>1, <1>2, <1>3 DEF DecodeInv

(* Drop positions are bookkeeping beside the chunks.                       *)
LEMMA DrainInv == ASSUME DecodeInv, DrainDrop \/ ConvertDrops  PROVE DecodeInv'
<1> USE RingAssumption, DecodeAssumption
<1>1. CASE DrainDrop
  <2>1. Head(drop_queue) \in DropRecord /\ Tail(drop_queue) \in Seq(DropRecord)
    BY <1>1 DEF DecodeInv, DecodeTypeOK, RingTypeOK, DrainDrop
  <2>2. DecodeTypeOK'
    BY <1>1, <2>1 DEF DecodeInv, DecodeTypeOK, RingTypeOK, DrainDrop
  <2>3. RingContent' /\ CycleInv' /\ PhaseInv' /\ ChunksIntact'
    BY <1>1 DEF DecodeInv, DrainDrop, RingContent, Content, CycleInv, PhaseInv,
                ChunksIntact, Reading, Received
  <2> QED  BY <2>2, <2>3 DEF DecodeInv
<1>2. CASE ConvertDrops
  <2>1. drop_offsets' \subseteq Int
    <3>1. \A d \in drop_positions : OffsetOf(d.idx) \in Int
      BY DEF DecodeInv, DecodeTypeOK, DropRecord, OffsetOf, decode_start, StartOf
    <3> QED  BY <1>2, <3>1 DEF ConvertDrops
  <2>2. DecodeTypeOK'
    BY <1>2, <2>1 DEF DecodeInv, DecodeTypeOK, RingTypeOK, ConvertDrops, ringVars
  <2>3. RingContent' /\ CycleInv' /\ PhaseInv' /\ ChunksIntact'
    BY <1>2 DEF DecodeInv, ConvertDrops, ringVars, RingContent, Content, CycleInv,
                PhaseInv, ChunksIntact, Reading, Received
  <2> QED  BY <2>2, <2>3 DEF DecodeInv
<1> QED  BY <1>1, <1>2
(* A copy step appends the sample ReadsOwnSample speaks of.                *)
LEMMA CopySpecInv == ASSUME Headroom, DecodeInv, CopySpec  PROVE DecodeInv'
<1> USE RingAssumption, DecodeAssumption
<1> DEFINE k == Len(spec_chunk_iq)
           x == iq_buffer[SampleIndex(S, k)]
<1>1. /\ spec_chunk_iq \in Seq(Int) /\ k \in 0..S-1 /\ S \in 1..D
      /\ \A j \in 1..k : spec_chunk_iq[j] = read_at - S + j - 1
      /\ read_at \in Nat
  BY DEF DecodeInv, DecodeTypeOK, PhaseInv, ChunksIntact, CopySpec
<1>2. x = read_at - S + k
  BY <1>1, ReadsOwnSample DEF DecodeInv, CopySpec, Reading
<1>3. spec_chunk_iq' = Append(spec_chunk_iq, x)
  BY DEF CopySpec
<1>4. /\ spec_chunk_iq' \in Seq(Int) /\ Len(spec_chunk_iq') = k + 1
      /\ \A j \in 1..k+1 : spec_chunk_iq'[j] = read_at - S + j - 1
  <2> DEFINE a == read_at - S
  <2>1. a \in Int /\ x = a + Len(spec_chunk_iq)
        /\ \A j \in 1..Len(spec_chunk_iq) : spec_chunk_iq[j] = a + j - 1
    BY <1>1, <1>2
  <2> HIDE DEF a, x
  <2>2. /\ spec_chunk_iq' \in Seq(Int) /\ Len(spec_chunk_iq') = k + 1
        /\ \A j \in 1..k+1 : spec_chunk_iq'[j] = a + j - 1
    BY <1>1, <1>3, <2>1, AppendToRun
  <2> QED  BY <2>2 DEF a
<1>5. DecodeTypeOK'
  <2>1. RingTypeOK'
    BY DEF DecodeInv, DecodeTypeOK, RingTypeOK, CopySpec, ringVars
  <2>2. pc' \in {"spec", "decode"} /\ Len(spec_chunk_iq') <= S
    BY <1>1, <1>4 DEF CopySpec
  <2> QED  BY <1>4, <2>1, <2>2 DEF DecodeInv, DecodeTypeOK, CopySpec
<1>6. ChunksIntact'
  BY <1>1, <1>4 DEF DecodeInv, ChunksIntact, CopySpec
<1>7. RingContent' /\ CycleInv'
  BY DEF DecodeInv, CopySpec, ringVars, RingContent, Content, CycleInv, Reading, Received
<1>8. PhaseInv'
  BY <1>1, <1>4 DEF DecodeInv, PhaseInv, CopySpec
<1> QED  BY <1>5, <1>6, <1>7, <1>8 DEF DecodeInv

(* The copy for the decoder is taken from cells the RX has not reached.    *)
LEMMA CopyDecodeInv == ASSUME Headroom, DecodeInv, CopyDecode  PROVE DecodeInv'
<1> USE RingAssumption, DecodeAssumption
<1> DEFINE k == Len(decode_chunk)
           x == iq_buffer[SampleIndex(D, k)]
<1>1. /\ decode_chunk \in Seq(Int) /\ k \in 0..D-1 /\ D \in 1..D
      /\ \A j \in 1..k : decode_chunk[j] = read_at - D + j - 1
      /\ read_at \in Nat
  BY DEF DecodeInv, DecodeTypeOK, PhaseInv, ChunksIntact, CopyDecode
<1>2. x = read_at - D + k
  BY <1>1, ReadsOwnSample DEF DecodeInv, CopyDecode, Reading
<1>3. decode_chunk' = Append(decode_chunk, x)
  BY DEF CopyDecode
<1>4. /\ decode_chunk' \in Seq(Int) /\ Len(decode_chunk') = k + 1
      /\ \A j \in 1..k+1 : decode_chunk'[j] = read_at - D + j - 1
  <2> DEFINE a == read_at - D
  <2>1. a \in Int /\ x = a + Len(decode_chunk)
        /\ \A j \in 1..Len(decode_chunk) : decode_chunk[j] = a + j - 1
    BY <1>1, <1>2
  <2> HIDE DEF a, x
  <2>2. /\ decode_chunk' \in Seq(Int) /\ Len(decode_chunk') = k + 1
        /\ \A j \in 1..k+1 : decode_chunk'[j] = a + j - 1
    BY <1>1, <1>3, <2>1, AppendToRun
  <2> QED  BY <2>2 DEF a
<1>5. DecodeTypeOK'
  BY <1>1, <1>4, SMTT(20) DEF DecodeInv, DecodeTypeOK, RingTypeOK, CopyDecode, ringVars
<1>6. ChunksIntact'
  BY <1>1, <1>4 DEF DecodeInv, ChunksIntact, CopyDecode
<1>7. RingContent' /\ CycleInv'
  BY DEF DecodeInv, CopyDecode, ringVars, RingContent, Content, CycleInv, Reading, Received
<1>8. PhaseInv'
  BY <1>1, <1>4 DEF DecodeInv, PhaseInv, CopyDecode
<1> QED  BY <1>5, <1>6, <1>7, <1>8 DEF DecodeInv

(* The end of a cycle forgets its index and its chunks.                    *)
LEMMA EndCycleInv == ASSUME DecodeInv, EndCycle  PROVE DecodeInv'
  BY DEF DecodeInv, EndCycle, ringVars, DecodeTypeOK, RingTypeOK, RingContent, Content,
         CycleInv, PhaseInv, ChunksIntact, Reading

-----------------------------------------------------------------------------
(* Every step of the RX and of the processor keeps the invariant.          *)
LEMMA DecodeNextInv == ASSUME Headroom, DecodeInv, [DecodeNext]_decodeVars  PROVE DecodeInv'
<1>1. CASE DecodeRx
  BY <1>1, RxInv
<1>2. CASE Proc
  BY <1>2, ReadIdxInv, DrainInv, CopySpecInv, CopyDecodeInv, EndCycleInv DEF Proc
<1>3. CASE UNCHANGED decodeVars
  BY <1>3 DEF decodeVars, DecodeInv, DecodeTypeOK, RingTypeOK, RingContent, Content, CycleInv,
              PhaseInv, ChunksIntact, Reading, Received
<1> QED  BY <1>1, <1>2, <1>3 DEF DecodeNext

(* With the headroom, the state is well typed and no chunk is ever torn,   *)
(* for every ring, window, block size and interleaving.                    *)
THEOREM DecodeTypes == ASSUME Headroom  PROVE DecodeSpec => []DecodeTypeOK
<1>1. DecodeInv /\ [DecodeNext]_decodeVars => DecodeInv'
  BY DecodeNextInv
<1>2. DecodeInv => DecodeTypeOK
  BY DEF DecodeInv
<1> QED  BY DecodeInitInv, <1>1, <1>2, PTL DEF DecodeSpec

(* With the headroom, the decoder gets consecutive samples, in order.      *)
THEOREM DecodeChunksIntact == ASSUME Headroom  PROVE DecodeSpec => []ChunksIntact
<1>1. DecodeInv /\ [DecodeNext]_decodeVars => DecodeInv'
  BY DecodeNextInv
<1>2. DecodeInv => ChunksIntact
  BY DEF DecodeInv
<1> QED  BY DecodeInitInv, <1>1, <1>2, PTL DEF DecodeSpec

-----------------------------------------------------------------------------
(* Drop positions.  A position that has not been converted yet is young    *)
(* enough to be told apart from the same index one lap earlier or later:   *)
(* it is at most DropAge samples old and was put in this lap or the last.  *)
FreshDrop(d) ==
    /\ d.at < Received + blk
    /\ Received + blk - d.at <= DropAge
    /\ d.at - d.idx \in {lap, lap - B}
    /\ d.at >= d.idx

(* The index is 0 only before the first sample: later it rests at B.       *)
OriginInv ==
    /\ buf_write_idx = 0 => lap = 0
    /\ widx = 0 => read_at = 0

DropInv == OriginInv /\ \A d \in Undrained : FreshDrop(d)

DrainedInLap == DropAge <= B

(* What has not been drained is a set of drop positions.                   *)
LEMMA UndrainedType == DecodeTypeOK => Undrained \subseteq DropRecord
  BY DEF DecodeTypeOK, RingTypeOK, Undrained

(* Moving a position from the feeder to the pipe, or from the pipe to the  *)
(* processor, adds nothing to the set; a gap adds the current index.       *)
LEMMA UndrainedStep ==
  ASSUME DecodeTypeOK, [DecodeNext]_decodeVars
  PROVE  \A d \in Undrained' :
            \/ d \in Undrained
            \/ /\ d = [idx |-> buf_write_idx, at |-> Received]
               /\ \E n \in Blocks : DecodeRxBegin(n, TRUE)
<1> DEFINE position == [idx |-> buf_write_idx, at |-> Received]
<1>0. /\ drop_feeder \in Seq(DropRecord) /\ drop_queue \in Seq(DropRecord)
      /\ position \in DropRecord
  BY DEF DecodeTypeOK, RingTypeOK, DropRecord, Received
<1>1. ASSUME NEW n \in Blocks, DecodeRxBegin(n, TRUE), NEW d \in Undrained'
      PROVE  d \in Undrained \/ d = position
  <2> HIDE DEF position
  <2>1. /\ drop_feeder' = Append(drop_feeder, position) /\ drop_queue' = drop_queue
        /\ drop_positions' = drop_positions /\ pc' = pc
    BY <1>1 DEF DecodeRxBegin, WorkBegin, procVars, position
  <2>2. \A j \in 1..Len(drop_feeder') :
            \/ drop_feeder'[j] = position
            \/ \E h \in 1..Len(drop_feeder) : drop_feeder'[j] = drop_feeder[h]
    BY <1>0, <2>1
  <2> QED  BY <1>1, <2>1, <2>2 DEF Undrained
<1>2. ASSUME FeedDrop /\ UNCHANGED procVars, NEW d \in Undrained'  PROVE d \in Undrained
  <2>1. /\ drop_feeder # <<>> /\ drop_queue' = Append(drop_queue, Head(drop_feeder))
        /\ drop_feeder' = Tail(drop_feeder)
        /\ drop_positions' = drop_positions /\ pc' = pc
    BY <1>2 DEF FeedDrop, procVars
  <2>2. \A j \in 1..Len(drop_queue') :
            \/ drop_queue'[j] = drop_feeder[1]
            \/ \E h \in 1..Len(drop_queue) : drop_queue'[j] = drop_queue[h]
    BY <1>0, <2>1
  <2>3. \A j \in 1..Len(drop_feeder') : \E h \in 1..Len(drop_feeder) : drop_feeder'[j] = drop_feeder[h]
    BY <1>0, <2>1
  <2>4. 1 \in 1..Len(drop_feeder)
    BY <1>0, <2>1
  <2>5. CASE \E j \in 1..Len(drop_feeder') : d = drop_feeder'[j]
    BY <2>3, <2>5 DEF Undrained
  <2>6. CASE \E j \in 1..Len(drop_queue') : d = drop_queue'[j]
    BY <2>2, <2>4, <2>6 DEF Undrained
  <2>7. CASE pc' = "drain" /\ d \in drop_positions'
    BY <2>1, <2>7 DEF Undrained
  <2> QED  BY <1>2, <2>5, <2>6, <2>7 DEF Undrained
<1>3. ASSUME DrainDrop, NEW d \in Undrained'  PROVE d \in Undrained
  <2>1. /\ drop_queue # <<>> /\ drop_queue' = Tail(drop_queue) /\ drop_feeder' = drop_feeder
        /\ drop_positions' = drop_positions \cup {Head(drop_queue)} /\ pc = "drain" /\ pc' = "drain"
    BY <1>3 DEF DrainDrop
  <2>2. \A j \in 1..Len(drop_queue') : \E h \in 1..Len(drop_queue) : drop_queue'[j] = drop_queue[h]
    BY <1>0, <2>1
  <2>3. 1 \in 1..Len(drop_queue) /\ Head(drop_queue) = drop_queue[1]
    BY <1>0, <2>1
  <2> QED  BY <1>3, <2>1, <2>2, <2>3 DEF Undrained
<1>4. ASSUME ReadIdx \/ ConvertDrops \/ CopySpec \/ CopyDecode \/ EndCycle \/ UNCHANGED decodeVars
             \/ ((WorkCopy \/ WorkPublish) /\ UNCHANGED procVars)
             \/ (\E n \in Blocks : DecodeRxBegin(n, FALSE)),
             NEW d \in Undrained'
      PROVE  d \in Undrained
  <2>1. /\ drop_feeder' = drop_feeder /\ drop_queue' = drop_queue
        /\ pc' = "drain" => (drop_positions' = {} \/ (pc = "drain" /\ drop_positions' = drop_positions))
    BY <1>4 DEF ReadIdx, ConvertDrops, CopySpec, CopyDecode, EndCycle, decodeVars, ringVars,
                procVars, WorkCopy, WorkPublish, DecodeRxBegin, WorkBegin
  <2> QED  BY <1>4, <2>1 DEF Undrained
<1> QED  BY <1>1, <1>2, <1>3, <1>4 DEF DecodeNext, DecodeRx, Proc

(* Positions stay fresh.  The one arithmetic fact: a position of the lap   *)
(* before the current one cannot survive the start of the next lap, it     *)
(* would be more than B >= DropAge samples old.                            *)
LEMMA DropInvStep ==
  ASSUME DrainedInLap, DecodeInv, DropInv, [DecodeNext]_decodeVars  PROVE DropInv'
<1> USE RingAssumption, DecodeAssumption
<1>0. /\ lap \in Nat /\ buf_write_idx \in 0..B /\ blk \in 0..B /\ copied \in 0..blk
      /\ (blk # 0 => blk \in Blocks)
  BY DEF DecodeInv, DecodeTypeOK, RingTypeOK
<1>a. OriginInv'
  <2>1. CASE ReadIdx
    BY <1>0, <2>1 DEF DropInv, OriginInv, ReadIdx, ringVars, Received
  <2>2. CASE WorkPublish /\ UNCHANGED procVars
    BY <1>0, <2>2 DEF DropInv, OriginInv, WorkPublish, procVars
  <2>3. CASE UNCHANGED <<lap, buf_write_idx, widx, read_at>>
    BY <2>3 DEF DropInv, OriginInv
  <2> QED  BY <2>1, <2>2, <2>3
    DEF DecodeNext, DecodeRx, DecodeRxBegin, WorkBegin, Proc, DrainDrop, ConvertDrops,
        CopySpec, CopyDecode,
        EndCycle, WorkCopy, FeedDrop, ringVars, procVars, decodeVars
<1> SUFFICES ASSUME NEW d \in Undrained'  PROVE FreshDrop(d)'
  BY <1>a DEF DropInv
<1>1. CASE d \notin Undrained
  <2>1. PICK n \in Blocks : DecodeRxBegin(n, TRUE) /\ d = [idx |-> buf_write_idx, at |-> Received]
    BY <1>1, UndrainedStep DEF DecodeInv
  <2>2. d.idx = buf_write_idx /\ d.at = Received
    BY <2>1
  <2>3. lap' = lap /\ buf_write_idx' = buf_write_idx /\ blk' = n
    BY <2>1 DEF DecodeRxBegin, WorkBegin
  <2> QED  BY <1>0, <2>2, <2>3 DEF FreshDrop, Received
<1>2. CASE d \in Undrained
  <2>0. /\ d.at \in Nat /\ d.idx \in 0..B /\ DropAge \in Nat /\ DropAge <= B
        /\ d.at < Received + blk /\ Received + blk - d.at <= DropAge
        /\ d.at - d.idx = lap \/ d.at - d.idx = lap - B
        /\ d.at >= d.idx
    BY <1>2, UndrainedType DEF DropInv, FreshDrop, DropRecord, DecodeInv, DrainedInLap
  <2>1. CASE \E n \in Blocks, gap \in BOOLEAN : DecodeRxBegin(n, gap)
    <3>1. PICK n \in Blocks : /\ Received + n - d.at <= DropAge
                             /\ lap' = lap /\ buf_write_idx' = buf_write_idx
                             /\ blk = 0 /\ blk' = n
      BY <1>2, <2>1 DEF DecodeRxBegin, WorkBegin
    <3> QED  BY <1>0, <2>0, <3>1 DEF FreshDrop, Received
  <2>2. CASE WorkPublish
    <3>1. CASE blk <= B - buf_write_idx
      BY <1>0, <2>0, <2>2, <3>1 DEF WorkPublish, FreshDrop, Received
    <3>2. CASE blk > B - buf_write_idx
      <4>1. lap' = lap + B /\ buf_write_idx' = blk - (B - buf_write_idx) /\ blk' = 0
        BY <1>0, <2>2, <3>2 DEF WorkPublish
      <4>2. d.at - d.idx = lap
        BY <1>0, <2>0, <3>2 DEF Received
      <4> QED  BY <1>0, <2>0, <4>1, <4>2 DEF FreshDrop, Received
    <3> QED  BY <1>0, <3>1, <3>2
  <2>3. CASE UNCHANGED <<lap, buf_write_idx, blk>>
    BY <1>0, <2>0, <2>3 DEF FreshDrop, Received
  <2>4. \/ \E n \in Blocks, gap \in BOOLEAN : DecodeRxBegin(n, gap)
        \/ WorkPublish
        \/ UNCHANGED <<lap, buf_write_idx, blk>>
    BY DEF DecodeNext, DecodeRx, Proc, ReadIdx, DrainDrop, ConvertDrops, CopySpec, CopyDecode,
           EndCycle, WorkCopy, FeedDrop, ringVars, decodeVars
  <2> QED  BY <2>1, <2>2, <2>3, <2>4
<1> QED  BY <1>1, <1>2

(* A fresh position is in the window the code computes exactly when its    *)
(* sample is in the window, and at the offset the code computes.           *)
LEMMA OffsetIsExact ==
  ASSUME Headroom, DrainedInLap, DecodeInv, OriginInv, Reading, widx # D,
         NEW d \in DropRecord, FreshDrop(d)
  PROVE  /\ InWindow(d.idx) <=> (read_at - D <= d.at /\ d.at < read_at)
         /\ InWindow(d.idx) => OffsetOf(d.idx) = d.at - (read_at - D)
<1> USE RingAssumption, DecodeAssumption
<1>1. /\ widx \in 0..B /\ read_at \in Nat /\ lap \in Nat
      /\ buf_write_idx \in 0..B /\ blk \in 0..B
  BY DEF DecodeInv, DecodeTypeOK, RingTypeOK
<1>2. /\ lap + buf_write_idx + blk <= read_at + (B - D)
      /\ read_at <= lap + buf_write_idx
      /\ lap = read_at - widx \/ lap = read_at - widx + B
  BY <1>1 DEF DecodeInv, CycleInv, Headroom, Received
<1>3. /\ d.at \in Nat /\ d.idx \in 0..B
      /\ d.at < lap + buf_write_idx + blk
      /\ lap + buf_write_idx + blk - d.at <= B
      /\ d.at - d.idx = lap \/ d.at - d.idx = lap - B
      /\ d.at >= d.idx
      /\ widx = 0 => read_at = 0
  BY <1>1 DEF DropRecord, FreshDrop, DrainedInLap, Received, OriginInv
<1>4. CASE widx > D
  <2>1. decode_start = widx - D
    BY <1>1, <1>4 DEF decode_start, StartOf
  <2> QED  BY <1>1, <1>2, <1>3, <1>4, <2>1 DEF InWindow, OffsetOf
<1>5. CASE widx < D
  <2>1. decode_start = widx - D + B
    BY <1>1, <1>5 DEF decode_start, StartOf
  <2> QED  BY <1>1, <1>2, <1>3, <1>5, <2>1 DEF InWindow, OffsetOf
<1> QED  BY <1>1, <1>4, <1>5

(* Conversion places a drop that is younger than a lap where it happened.  *)
LEMMA DropOffsetsStep ==
  ASSUME Headroom, DrainedInLap, DecodeInv, DropInv, DropOffsetsExact, [DecodeNext]_decodeVars
  PROVE  DropOffsetsExact'
<1>1. CASE ConvertDrops
  <2> SUFFICES ASSUME widx # D
      PROVE  drop_offsets' = {d.at - (read_at - D) :
                d \in {x \in drop_positions : read_at - D <= x.at /\ x.at < read_at}}
    BY <1>1 DEF ConvertDrops, DropOffsetsExact
  <2>1. \A d \in drop_positions :
            /\ InWindow(d.idx) <=> (read_at - D <= d.at /\ d.at < read_at)
            /\ InWindow(d.idx) => OffsetOf(d.idx) = d.at - (read_at - D)
    <3> SUFFICES ASSUME NEW d \in drop_positions
        PROVE  /\ InWindow(d.idx) <=> (read_at - D <= d.at /\ d.at < read_at)
               /\ InWindow(d.idx) => OffsetOf(d.idx) = d.at - (read_at - D)
      OBVIOUS
    <3>1. d \in Undrained /\ Reading
      BY <1>1 DEF ConvertDrops, Undrained, Reading
    <3>2. d \in DropRecord /\ FreshDrop(d)
      BY <3>1, UndrainedType DEF DropInv, DecodeInv
    <3> QED  BY <3>1, <3>2, OffsetIsExact DEF DropInv
  <2>2. drop_offsets' = {OffsetOf(d.idx) : d \in {x \in drop_positions : InWindow(x.idx)}}
    BY <1>1 DEF ConvertDrops
  <2> DEFINE In  == {x \in drop_positions : InWindow(x.idx)}
             Due == {x \in drop_positions : read_at - D <= x.at /\ x.at < read_at}
  <2>3. In = Due
    BY <2>1
  <2>4. \A d \in In : OffsetOf(d.idx) = d.at - (read_at - D)
    BY <2>1
  <2>5. drop_offsets' = {OffsetOf(d.idx) : d \in In}
    BY <2>2
  <2> HIDE DEF In, Due
  <2>6. {OffsetOf(d.idx) : d \in In} = {d.at - (read_at - D) : d \in In}
    BY <2>4
  <2> QED  BY <2>3, <2>5, <2>6 DEF Due
<1>2. CASE pc' \in {"spec", "decode", "use"} /\ ~ConvertDrops
  <2>1. /\ pc \in {"spec", "decode", "use"}
        /\ UNCHANGED <<widx, read_at, drop_positions, drop_offsets>>
    BY <1>2 DEF DecodeNext, DecodeRx, Proc, DecodeRxBegin, procVars, decodeVars, ReadIdx, DrainDrop,
                CopySpec, CopyDecode, EndCycle
  <2> QED  BY <2>1 DEF DropOffsetsExact
<1>3. CASE pc' \notin {"spec", "decode", "use"}
  BY <1>3 DEF DropOffsetsExact
<1> QED  BY <1>1, <1>2, <1>3

(* Every drained drop inside the window is reported at its place, and none *)
(* outside, with the headroom and when positions are drained within a lap. *)
THEOREM DecodeDropOffsets ==
  ASSUME Headroom, DrainedInLap  PROVE DecodeSpec => []DropOffsetsExact
<1> DEFINE Inv == DecodeInv /\ DropInv /\ DropOffsetsExact
<1>1. DecodeInit => Inv
  BY DecodeInitInv DEF DecodeInit, RingInit, DropInv, OriginInv, Undrained, DropOffsetsExact
<1>2. Inv /\ [DecodeNext]_decodeVars => Inv'
  BY DecodeNextInv, DropInvStep, DropOffsetsStep
<1>3. Inv => DropOffsetsExact
  OBVIOUS
<1> QED  BY <1>1, <1>2, <1>3, PTL DEF DecodeSpec
-----------------------------------------------------------------------------
(* The capture as a reader of the ring.                                    *)

FastHost == 2 * Lag <= Chunk

Unaligned == AlignedStarts = FALSE

(* The number of the first sample of the current chunk, and how far past   *)
(* it the RX has published.                                                *)
ChunkFirst == first + filled
Distance == Received - ChunkFirst

TrackInv ==
    phase # "idle" =>
        /\ filled < n_samples
        /\ chunk_start \in 1..B-1
        /\ chunk_start # Chunk
        /\ lap \in {ChunkFirst - chunk_start, ChunkFirst - chunk_start + B}
        /\ ChunkFirst <= seen
        /\ seen <= Received
        /\ Received + blk <= seen + Lag
        /\ phase = "poll" => seen <= ChunkFirst + Chunk
        /\ phase # "poll" => /\ seen <= ChunkFirst + Chunk + Lag
                             /\ seen >= ChunkFirst + this_n

SegmentInv ==
    /\ \A k \in 1..Len(segment) : segment[k] = first + k - 1
    /\ filled <= Len(segment)
    /\ phase = "poll" => Len(segment) = filled
    /\ phase = "copy" => Len(segment) < filled + this_n
    /\ phase = "guard" => Len(segment) = filled + this_n
    /\ filled = n_samples => Len(segment) = filled

CaptureInv == TypeOK /\ RingContent /\ TrackInv /\ SegmentInv

(* No capture is in progress and the ring is empty at the start.           *)
LEMMA CaptureInitInv == Init => CaptureInv
<1> SUFFICES ASSUME Init  PROVE CaptureInv
  OBVIOUS
<1> USE RingAssumption, CaptureAssumption
<1>1. RingInv
  BY RingInitInv DEF Init
<1>2. TypeOK
  BY <1>1 DEF Init, TypeOK, RingInv, Outcomes
<1> QED  BY <1>1, <1>2 DEF Init, CaptureInv, RingInv, TrackInv, SegmentInv

(* The numbers the arithmetic below is about.                              *)
LEMMA CaptureNumbers ==
  ASSUME TypeOK
  PROVE  /\ B = 2 * Chunk /\ Chunk \in Nat \ {0} /\ Lag \in Nat
         /\ lap \in Nat /\ buf_write_idx \in 0..B /\ blk \in 0..B /\ copied \in 0..blk
         /\ first \in Nat /\ filled \in 0..n_samples /\ n_samples \in Nat
         /\ seen \in Nat /\ chunk_start \in 0..B
  BY RingAssumption, CaptureAssumption DEF TypeOK, RingTypeOK

(* _samples_advanced is the true distance, but for a distance of exactly B.*)
LEMMA AdvancedIsDistance ==
  ASSUME FastHost, TypeOK, TrackInv, phase # "idle"
  PROVE  /\ Distance \in 0..B
         /\ \/ Advanced = Distance
            \/ Advanced = 0 /\ Distance = B
         /\ this_n \in 1..Chunk
         /\ this_n < Chunk => filled + this_n = n_samples
         /\ phase = "poll" => Distance < B
<1>1. Distance \in 0..B /\ (phase = "poll" => Distance < B)
  BY CaptureNumbers DEF FastHost, TrackInv, Distance, ChunkFirst, Received, this_n
<1>2. Advanced = Distance \/ (Advanced = 0 /\ Distance = B)
  BY <1>1, CaptureNumbers
  DEF TrackInv, Advanced, _samples_advanced, Distance, ChunkFirst, Received
<1>3. this_n \in 1..Chunk /\ (this_n < Chunk => filled + this_n = n_samples)
  BY CaptureNumbers DEF TrackInv, this_n
<1> QED  BY <1>1, <1>2, <1>3

(* The point of the argument: a sample copied from the chunk is the one    *)
(* that belongs there.                                                     *)
LEMMA CopiesOwnSample ==
  ASSUME FastHost, CaptureInv, phase = "copy"
  PROVE  iq_buffer[ReadIndex(Len(segment) - filled)] = first + Len(segment)
<1> DEFINE k == Len(segment) - filled
           i == ReadIndex(k)
<1>1. k \in 0..this_n-1 /\ this_n \in 1..Chunk
  BY CaptureNumbers, AdvancedIsDistance DEF CaptureInv, SegmentInv, TypeOK
<1>2. /\ chunk_start \in 1..B-1
      /\ lap = ChunkFirst - chunk_start \/ lap = ChunkFirst - chunk_start + B
      /\ ChunkFirst + this_n <= lap + buf_write_idx
      /\ lap + buf_write_idx + blk <= ChunkFirst + B
  <2>1. /\ ChunkFirst \in Nat /\ TypeOK /\ TrackInv
    BY CaptureNumbers DEF CaptureInv, ChunkFirst
  <2>2. /\ chunk_start \in 1..B-1
        /\ lap \in {ChunkFirst - chunk_start, ChunkFirst - chunk_start + B}
        /\ seen <= lap + buf_write_idx
        /\ lap + buf_write_idx + blk <= seen + Lag
        /\ seen <= ChunkFirst + Chunk + Lag
        /\ seen >= ChunkFirst + this_n
    BY <2>1 DEF TrackInv, Received
  <2>3. /\ B = 2 * Chunk /\ Chunk \in Nat /\ Lag \in Nat /\ 2 * Lag <= Chunk
        /\ lap \in Nat /\ buf_write_idx \in Nat /\ blk \in Nat /\ seen \in Nat
        /\ this_n \in Nat
    BY CaptureNumbers, <1>1, <2>1 DEF FastHost
  <2>4. lap + buf_write_idx + blk <= ChunkFirst + B
    BY <2>1, <2>2, <2>3
  <2>5. ChunkFirst + this_n <= lap + buf_write_idx
    BY <2>1, <2>2, <2>3
  <2> QED  BY <2>2, <2>4, <2>5
<1>3. /\ i \in 0..B-1
      /\ i = chunk_start + k \/ (i = chunk_start + k - B /\ chunk_start + k >= B)
  <2>1. k \in Int /\ B = 2 * Chunk /\ Chunk \in Nat \ {0} /\ 0 <= k /\ k < Chunk
    BY CaptureNumbers, <1>1, SMTT(20) DEF CaptureInv
  <2> HIDE DEF k
  <2> QED  BY <1>2, <2>1 DEF ReadIndex
<1>4. Content(i) = ChunkFirst + k
  <2>0. ChunkFirst \in Nat /\ k \in Nat
    BY CaptureNumbers, <1>1, SMTT(20) DEF CaptureInv, ChunkFirst
  <2> HIDE DEF k, i
  <2>1. CASE lap = ChunkFirst - chunk_start /\ i = chunk_start + k
    BY CaptureNumbers, <1>1, <1>2, <1>3, <2>0, <2>1 DEF Content, CaptureInv
  <2>2. CASE lap = ChunkFirst - chunk_start /\ i = chunk_start + k - B /\ chunk_start + k >= B
    BY CaptureNumbers, <1>1, <1>2, <1>3, <2>0, <2>2 DEF Content, CaptureInv
  <2>3. CASE lap = ChunkFirst - chunk_start + B /\ i = chunk_start + k
    BY CaptureNumbers, <1>1, <1>2, <1>3, <2>0, <2>3 DEF Content, CaptureInv
  <2>4. CASE lap = ChunkFirst - chunk_start + B /\ i = chunk_start + k - B /\ chunk_start + k >= B
    BY CaptureNumbers, <1>1, <1>2, <1>3, <2>0, <2>4 DEF Content, CaptureInv
  <2> QED  BY <1>2, <1>3, <2>1, <2>2, <2>3, <2>4
<1>5. iq_buffer[i] = Content(i)
  BY <1>3 DEF CaptureInv, RingContent
<1> QED  BY <1>1, <1>4, <1>5, CaptureNumbers DEF CaptureInv, ChunkFirst, TypeOK

-----------------------------------------------------------------------------
(* The RX writes while a capture waits or copies: half a chunk of delay is too*)
(* little to reach the samples still to be copied.                         *)
LEMMA CaptureRxInv == ASSUME FastHost, CaptureInv, Rx  PROVE CaptureInv'
<1> USE RingAssumption, CaptureAssumption
<1>1. UNCHANGED capVars
  BY DEF Rx, RxBegin
<1>2. RingInv'
  BY WorkBeginInv, WorkCopyInv, WorkPublishInv
  DEF Rx, RxBegin, CaptureInv, TypeOK, RingInv
<1>3. TypeOK' /\ SegmentInv'
  BY <1>1, <1>2 DEF CaptureInv, TypeOK, SegmentInv, RingInv, capVars, this_n
<1>4. TrackInv'
  <2> SUFFICES ASSUME phase # "idle"  PROVE TrackInv'
    BY <1>1 DEF TrackInv, capVars
  <2>1. /\ UNCHANGED <<chunk_start, seen, first, filled, phase, n_samples>>
        /\ ChunkFirst' = ChunkFirst /\ this_n' = this_n
    BY <1>1 DEF capVars, ChunkFirst, this_n
  <2>2. /\ lap \in {ChunkFirst - chunk_start, ChunkFirst - chunk_start + B}
        /\ seen <= Received /\ Received + blk <= seen + Lag
        /\ chunk_start \in 1..B-1
        /\ seen <= ChunkFirst + Chunk + Lag
    BY CaptureNumbers DEF CaptureInv, TrackInv, ChunkFirst
  <2>3. /\ ChunkFirst \in Nat /\ B = 2 * Chunk /\ Chunk \in Nat /\ Lag \in Nat
        /\ 2 * Lag <= Chunk /\ lap \in Nat /\ buf_write_idx \in 0..B /\ blk \in 0..B
        /\ seen \in Nat
    BY CaptureNumbers DEF CaptureInv, ChunkFirst, FastHost
  <2>4. /\ seen <= Received' /\ Received' + blk' <= seen + Lag
        /\ lap' \in {ChunkFirst - chunk_start, ChunkFirst - chunk_start + B}
    <3>1. CASE \E n \in Blocks : RxBegin(n)
      <4>1. PICK n \in Blocks : /\ Received + n <= seen + Lag
                               /\ lap' = lap /\ buf_write_idx' = buf_write_idx /\ blk' = n
        BY <3>1 DEF RxBegin, WorkBegin, CaptureInv, TypeOK
      <4> QED  BY <2>2, <2>3, <4>1 DEF Received
    <3>2. CASE WorkCopy
      BY <2>2, <3>2 DEF WorkCopy, Received
    <3>3. CASE WorkPublish
      <4>1. CASE blk <= B - buf_write_idx
        BY <2>2, <2>3, <3>3, <4>1 DEF WorkPublish, Received
      <4>2. CASE blk > B - buf_write_idx
        <5>1. lap' = lap + B /\ buf_write_idx' = blk - (B - buf_write_idx) /\ blk' = 0
          BY <2>3, <3>3, <4>2 DEF WorkPublish
        <5>2. lap + B < ChunkFirst + B
          BY <2>2, <2>3, <4>2 DEF Received
        <5> QED  BY <2>2, <2>3, <4>2, <5>1, <5>2 DEF Received
      <4> QED  BY <2>3, <4>1, <4>2
    <3> QED  BY <3>1, <3>2, <3>3 DEF Rx
  <2> QED  BY <2>1, <2>4 DEF CaptureInv, TrackInv
<1> QED  BY <1>2, <1>3, <1>4 DEF CaptureInv, RingInv

(* Steps of the requests: the ring is untouched.                           *)
LEMMA RingUntouched == CaptureInv /\ UNCHANGED ringVars => RingTypeOK' /\ RingContent'
  BY RingStutterInv DEF CaptureInv, TypeOK, RingInv

(* A capture starts at the index of the moment and waits from there.        *)
LEMMA StartInv ==
  ASSUME Unaligned, CaptureInv, NEW c \in Clients, NEW n \in Sizes, StartCapture(c, n)
  PROVE  CaptureInv'
<1> USE RingAssumption, CaptureAssumption
<1>1. UNCHANGED ringVars
  BY DEF StartCapture
<1>2. RingTypeOK' /\ RingContent'
  BY <1>1, RingUntouched
<1>3. TypeOK'
  BY <1>1, <1>2, CaptureNumbers
  DEF CaptureInv, TypeOK, StartCapture, Outcomes, ringVars, Received
<1>4. TrackInv'
  <2>1. /\ buf_write_idx \in 1..B-1 /\ buf_write_idx # Chunk
        /\ phase' = "poll" /\ filled' = 0 /\ n_samples' = n /\ first' = Received
        /\ chunk_start' = buf_write_idx /\ seen' = Received
        /\ lap' = lap /\ buf_write_idx' = buf_write_idx /\ blk' = blk
    BY CaptureNumbers DEF StartCapture, Unaligned, CaptureInv, ringVars
  <2>2. n \in Nat \ {0} /\ (blk = 0 \/ blk \in Blocks) /\ blk <= Lag
    BY DEF CaptureInv, TypeOK, RingTypeOK
  <2>3. /\ lap \in Nat /\ Chunk \in Nat /\ blk \in Nat /\ Lag \in Nat
    BY CaptureNumbers DEF CaptureInv
  <2> QED  BY <2>1, <2>2, <2>3 DEF TrackInv, ChunkFirst, Received
<1>5. SegmentInv'
  <2>1. phase' = "poll" /\ filled' = 0 /\ n_samples' = n /\ segment' = <<>> /\ n # 0
    BY DEF StartCapture
  <2> QED  BY <2>1 DEF SegmentInv
<1> QED  BY <1>2, <1>3, <1>4, <1>5 DEF CaptureInv

(* A request that meets the lock, and the answers, touch nothing of the capture.*)
LEMMA RejectInv ==
  ASSUME CaptureInv, NEW c \in Clients, RejectCapture(c)  PROVE CaptureInv'
<1>1. RingTypeOK' /\ RingContent'
  BY RingUntouched DEF RejectCapture
<1>2. TypeOK'
  BY <1>1 DEF CaptureInv, TypeOK, RejectCapture, Outcomes
<1>3. TrackInv' /\ SegmentInv'
  BY DEF CaptureInv, TrackInv, SegmentInv, RejectCapture, ringVars, this_n, ChunkFirst, Received
<1> QED  BY <1>1, <1>2, <1>3 DEF CaptureInv

(* A failed request keeps what was copied, but nothing counts as delivered.*)
LEMMA FailInv ==
  ASSUME CaptureInv, PollTimeout \/ GuardOverrun  PROVE CaptureInv'
<1>1. RingTypeOK' /\ RingContent'
  BY RingUntouched DEF PollTimeout, GuardOverrun
<1>2. phase # "idle" /\ phase' = "idle" /\ lock' = NoClient
      /\ UNCHANGED <<n_samples, filled, chunk_start, segment, polls, first, seen>>
  BY DEF PollTimeout, GuardOverrun, Respond
<1>3. lock \in Clients
  BY <1>2 DEF CaptureInv, TypeOK
<1>4. outcome' \in [Clients -> Outcomes]
  BY <1>3 DEF CaptureInv, TypeOK, PollTimeout, GuardOverrun, Respond, Outcomes
<1>5. TypeOK'
  BY <1>1, <1>2, <1>4 DEF CaptureInv, TypeOK
<1>6. TrackInv' /\ SegmentInv'
  BY <1>2 DEF CaptureInv, TrackInv, SegmentInv
<1> QED  BY <1>1, <1>5, <1>6 DEF CaptureInv

(* A look at the index, in the wait loop: seen becomes Received.           *)
LEMMA PollInv ==
  ASSUME FastHost, CaptureInv, Poll \/ ChunkReady  PROVE CaptureInv'
<1> USE RingAssumption, CaptureAssumption
<1>1. RingTypeOK' /\ RingContent'
  BY RingUntouched DEF Poll, ChunkReady
<1>2. /\ phase = "poll" /\ phase' \in {"poll", "copy"} /\ seen' = Received
      /\ UNCHANGED <<lock, outcome, n_samples, filled, chunk_start, segment, first>>
      /\ UNCHANGED <<lap, buf_write_idx, blk>>
  BY DEF Poll, ChunkReady, ringVars
<1>3. TypeOK'
  <2>1. polls' \in 0..MaxPolls
    BY DEF CaptureInv, TypeOK, Poll, ChunkReady
  <2>2. seen' \in Nat
    BY <1>2, CaptureNumbers DEF CaptureInv, Received
  <2>3. (lock' = NoClient) <=> (phase' = "idle")
    BY <1>2 DEF CaptureInv, TypeOK
  <2> QED  BY <1>1, <1>2, <2>1, <2>2, <2>3 DEF CaptureInv, TypeOK
<1>4. TrackInv'
  <2>1. /\ this_n' = this_n /\ ChunkFirst' = ChunkFirst /\ Received' = Received
    BY <1>2 DEF this_n, ChunkFirst, Received
  <2>2. /\ filled < n_samples /\ chunk_start \in 1..B-1 /\ chunk_start # Chunk
        /\ lap \in {ChunkFirst - chunk_start, ChunkFirst - chunk_start + B}
        /\ ChunkFirst <= seen /\ seen <= Received /\ Received + blk <= seen + Lag
        /\ seen <= ChunkFirst + Chunk
    BY <1>2 DEF CaptureInv, TrackInv
  <2>3. /\ Received \in Nat /\ blk \in Nat /\ Lag \in Nat /\ ChunkFirst \in Nat /\ seen \in Nat
        /\ (blk = 0 \/ blk \in Blocks) /\ blk <= Lag /\ Chunk \in Nat
    BY CaptureNumbers DEF CaptureInv, TypeOK, RingTypeOK, ChunkFirst, Received
  <2>4. /\ this_n \in 1..Chunk
        /\ Advanced = Received - ChunkFirst
    BY <1>2, <2>3, AdvancedIsDistance DEF CaptureInv, Distance
  <2>5. CASE Poll
    <3>1. phase' = "poll" /\ Received - ChunkFirst < this_n
      BY <2>4, <2>5 DEF Poll
    <3> QED  BY <1>2, <2>1, <2>2, <2>3, <2>4, <3>1 DEF TrackInv
  <2>6. CASE ChunkReady
    <3>1. phase' = "copy" /\ Received - ChunkFirst >= this_n
      BY <2>4, <2>6 DEF ChunkReady
    <3> QED  BY <1>2, <2>1, <2>2, <2>3, <2>4, <3>1 DEF TrackInv
  <2> QED  BY <2>5, <2>6
<1>5. SegmentInv'
  <2>1. this_n \in Nat \ {0} /\ this_n' = this_n /\ filled \in Nat /\ filled < n_samples
    BY <1>2, CaptureNumbers, AdvancedIsDistance DEF CaptureInv, TrackInv, this_n
  <2> QED  BY <1>2, <2>1 DEF CaptureInv, SegmentInv
<1> QED  BY <1>1, <1>3, <1>4, <1>5 DEF CaptureInv

(* One copied sample is the one the chunk needs next.                      *)
LEMMA CopySampleInv ==
  ASSUME FastHost, CaptureInv, CopySample  PROVE CaptureInv'
<1> USE RingAssumption, CaptureAssumption
<1> DEFINE x == first + Len(segment)
<1>1. RingTypeOK' /\ RingContent'
  BY RingUntouched DEF CopySample
<1>2. /\ phase = "copy" /\ phase' \in {"copy", "guard"}
      /\ segment' = Append(segment, x)
      /\ UNCHANGED <<lock, outcome, n_samples, filled, chunk_start, polls, first, seen>>
      /\ UNCHANGED <<lap, buf_write_idx, blk>>
  BY CopiesOwnSample DEF CopySample, ringVars
<1>3. /\ segment \in Seq(Int) /\ first \in Int
      /\ \A j \in 1..Len(segment) : segment[j] = first + j - 1
  BY CaptureNumbers DEF CaptureInv, TypeOK, SegmentInv
<1>4. /\ segment' \in Seq(Int) /\ Len(segment') = Len(segment) + 1
      /\ \A j \in 1..Len(segment)+1 : segment'[j] = first + j - 1
  BY <1>2, <1>3, AppendToRun
<1>5. TypeOK'
  BY <1>1, <1>2, <1>4 DEF CaptureInv, TypeOK
<1>6. TrackInv'
  BY <1>2 DEF CaptureInv, TrackInv, this_n, ChunkFirst, Received
<1>7. SegmentInv'
  <2>1. /\ Len(segment) \in Nat /\ filled \in Nat /\ this_n \in Nat /\ this_n' = this_n
        /\ Len(segment) < filled + this_n /\ filled <= Len(segment) /\ filled < n_samples
        /\ n_samples \in Nat
    <3>1. filled \in Nat /\ this_n \in 1..Chunk /\ n_samples \in Nat /\ Chunk \in Nat
      BY <1>2, CaptureNumbers, AdvancedIsDistance DEF CaptureInv
    <3>2. this_n' = this_n
      BY <1>2 DEF this_n
    <3> QED  BY <1>2, <1>3, <3>1, <3>2 DEF CaptureInv, SegmentInv, TrackInv
  <2>2. phase' = IF Len(segment) + 1 = filled + this_n THEN "guard" ELSE "copy"
    BY DEF CopySample
  <2> QED  BY <1>2, <1>4, <2>1, <2>2 DEF SegmentInv
<1> QED  BY <1>1, <1>5, <1>6, <1>7 DEF CaptureInv

(* The next chunk begins where this one ended; because it does not begin   *)
(* at index 0, the RX is known to have entered the lap it begins in.       *)
LEMMA GuardPassInv ==
  ASSUME FastHost, CaptureInv, GuardPass  PROVE CaptureInv'
<1> USE RingAssumption, CaptureAssumption
<1>1. RingTypeOK' /\ RingContent'
  BY RingUntouched DEF GuardPass
<1>2. /\ phase = "guard" /\ seen' = Received /\ chunk_start' = chunk_end
      /\ filled' = filled + this_n /\ polls' = 0
      /\ \/ filled' < n_samples /\ phase' = "poll" /\ lock' = lock /\ outcome' = outcome
         \/ /\ ~(filled' < n_samples) /\ phase' = "idle" /\ lock' = NoClient
            /\ outcome' = [outcome EXCEPT ![lock] = "ok"]
      /\ UNCHANGED <<n_samples, segment, first, lap, buf_write_idx, blk>>
  BY DEF GuardPass, Respond, ringVars
<1>3. /\ this_n \in 1..Chunk /\ (this_n < Chunk => filled + this_n = n_samples)
      /\ filled + this_n <= n_samples
  BY <1>2, CaptureNumbers, AdvancedIsDistance DEF CaptureInv, TrackInv, this_n
<1>4. /\ filled < n_samples /\ chunk_start \in 1..B-1 /\ chunk_start # Chunk
      /\ lap = ChunkFirst - chunk_start \/ lap = ChunkFirst - chunk_start + B
      /\ seen <= lap + buf_write_idx
      /\ lap + buf_write_idx + blk <= seen + Lag
      /\ seen <= ChunkFirst + Chunk + Lag
      /\ seen >= ChunkFirst + this_n
  BY <1>2 DEF CaptureInv, TrackInv, Received
<1>5. /\ B = 2 * Chunk /\ Chunk \in Nat \ {0} /\ Lag \in Nat /\ 2 * Lag <= Chunk
      /\ lap \in Nat /\ buf_write_idx \in 0..B /\ blk \in Nat /\ blk <= Lag /\ seen \in Nat
      /\ ChunkFirst \in Nat /\ filled \in Nat /\ n_samples \in Nat
  BY CaptureNumbers DEF CaptureInv, TypeOK, RingTypeOK, ChunkFirst, FastHost
<1>6. TypeOK'
  <2>1. chunk_end \in 0..B
    BY <1>3, <1>4, <1>5 DEF chunk_end
  <2>2. lock \in Clients /\ outcome' \in [Clients -> Outcomes]
    BY <1>2 DEF CaptureInv, TypeOK, Outcomes
  <2>3. filled' \in 0..n_samples /\ polls' \in 0..MaxPolls /\ seen' \in Nat
    BY <1>2, <1>3, <1>5 DEF Received
  <2> QED  BY <1>1, <1>2, <2>1, <2>2, <2>3 DEF CaptureInv, TypeOK
<1>7. TrackInv'
  <2> SUFFICES ASSUME phase' # "idle"  PROVE TrackInv'
    BY DEF TrackInv
  <2>1. /\ phase' = "poll" /\ filled' < n_samples' /\ this_n = Chunk
        /\ ChunkFirst' = ChunkFirst + Chunk
    BY <1>2, <1>3, <1>5 DEF ChunkFirst, CaptureInv, TypeOK
  <2>2. \/ chunk_start < Chunk /\ chunk_start' = chunk_start + Chunk
        \/ chunk_start > Chunk /\ chunk_start' = chunk_start + Chunk - B
    BY <1>2, <1>4, <1>5, <2>1 DEF chunk_end
  <2>3. chunk_start' \in 1..B-1 /\ chunk_start' # Chunk
    BY <1>4, <1>5, <2>2
  <2>4. lap' = ChunkFirst' - chunk_start' \/ lap' = ChunkFirst' - chunk_start' + B
    <3>1. CASE chunk_start < Chunk
      BY <1>2, <1>4, <1>5, <2>1, <2>2, <3>1
    <3>2. CASE chunk_start > Chunk
      BY <1>2, <1>4, <1>5, <2>1, <2>2, <3>2
    <3> QED  BY <1>4, <1>5, <3>1, <3>2
  <2>5. /\ ChunkFirst' <= seen' /\ seen' <= Received'
        /\ Received' + blk' <= seen' + Lag
        /\ seen' <= ChunkFirst' + Chunk
    BY <1>2, <1>4, <1>5, <2>1 DEF Received
  <2> QED  BY <2>1, <2>3, <2>4, <2>5 DEF TrackInv
<1>8. SegmentInv'
  <2>1. /\ Len(segment) = filled + this_n
        /\ \A j \in 1..Len(segment) : segment[j] = first + j - 1
    BY <1>2 DEF CaptureInv, SegmentInv
  <2> QED  BY <1>2, <2>1 DEF SegmentInv
<1> QED  BY <1>1, <1>6, <1>7, <1>8 DEF CaptureInv

-----------------------------------------------------------------------------
(* Every step of the RX, the capture and the requests keeps the invariant.  *)
LEMMA CaptureNextInv ==
  ASSUME FastHost, Unaligned, CaptureInv, [Next]_vars  PROVE CaptureInv'
<1>1. CASE Rx
  BY <1>1, CaptureRxInv
<1>2. CASE Capture
  BY <1>2, PollInv, FailInv, CopySampleInv, GuardPassInv DEF Capture
<1>3. CASE Request
  BY <1>3, StartInv, RejectInv DEF Request
<1>4. CASE UNCHANGED vars
  <2>1. RingTypeOK' /\ RingContent'
    BY <1>4, RingUntouched DEF vars, ringVars
  <2> QED  BY <1>4, <2>1
           DEF vars, CaptureInv, TypeOK, TrackInv, SegmentInv, this_n, ChunkFirst, Received
<1> QED  BY <1>1, <1>2, <1>3, <1>4 DEF Next

(* The capture composed with the sink is well typed.                       *)
THEOREM CaptureTypeOK == ASSUME FastHost, Unaligned  PROVE Spec => []TypeOK
<1>1. CaptureInv /\ [Next]_vars => CaptureInv'
  BY CaptureNextInv
<1>2. CaptureInv => TypeOK
  BY DEF CaptureInv
<1> QED  BY CaptureInitInv, <1>1, <1>2, PTL DEF Spec

(* What a capture has accepted is the samples from the request on, in      *)
(* order and without a gap.                                                *)
THEOREM CaptureIsContiguous ==
  ASSUME FastHost, Unaligned  PROVE Spec => []CaptureContiguous
<1>1. CaptureInv /\ [Next]_vars => CaptureInv'
  BY CaptureNextInv
<1>2. CaptureInv => CaptureContiguous
  BY CaptureNumbers DEF CaptureInv, SegmentInv, CaptureContiguous, TypeOK
<1> QED  BY CaptureInitInv, <1>1, <1>2, PTL DEF Spec

-----------------------------------------------------------------------------
(* Refinement: each step is a step of the Recorder or changes nothing it   *)
(* shows.                                                                  *)
Recording == IF filled = n_samples THEN segment ELSE <<>>

(* A block of samples received is a step of the Recorder or nothing to it. *)
LEMMA RxRefines ==
  ASSUME CaptureInv, Rx  PROVE [R!Next]_R!vars
<1>1. UNCHANGED <<lock, outcome, first, n_samples, Recording>>
  BY DEF Rx, RxBegin, capVars, Recording
<1>2. Received' > Received \/ Received' = Received
  <2>1. lap \in Nat /\ buf_write_idx \in 0..B /\ blk \in 0..B /\ B \in Nat
    BY CaptureNumbers, RingAssumption DEF CaptureInv
  <2> QED  BY <2>1 DEF Rx, RxBegin, WorkBegin, WorkCopy, WorkPublish, Received
<1> QED  BY <1>1, <1>2 DEF R!Next, R!Receive, R!vars, Recording

(* Starting and refusing a capture are the steps of the Recorder of that name.*)
LEMMA RequestRefines ==
  ASSUME CaptureInv, Request  PROVE [R!Next]_R!vars
<1>1. UNCHANGED Received
  BY DEF Request, StartCapture, RejectCapture, ringVars, Received
<1>2. ASSUME NEW c \in Clients, NEW n \in Sizes, StartCapture(c, n)
      PROVE  R!Start(c, n)
  <2>1. n # 0 /\ Recording' = <<>>
    BY <1>2, CaptureAssumption DEF StartCapture, Recording
  <2> QED  BY <1>1, <1>2, <2>1 DEF StartCapture, R!Start, Recording
<1>3. ASSUME NEW c \in Clients, RejectCapture(c)  PROVE R!Reject(c)
  BY <1>1, <1>3 DEF RejectCapture, R!Reject
<1> QED  BY <1>2, <1>3 DEF Request, R!Next

(* A segment that is complete is the run of samples the Recorder delivers. *)
LEMMA SegmentIsRun ==
  ASSUME NEW run \in Seq(Int), NEW a \in Nat, NEW n \in Nat, Len(run) = n,
         \A k \in 1..n : run[k] = a + k - 1
  PROVE  run = [k \in 1..n |-> a + k - 1]
<1>1. run \in [1..n -> Int]
  OBVIOUS
<1> QED  BY <1>1

(* Waiting and copying are nothing to the Recorder; accepting the last chunk*)
(* delivers the recording, and the deadline and the guard abandon it.      *)
LEMMA CaptureStepRefines ==
  ASSUME FastHost, CaptureInv, CaptureInv', Capture  PROVE [R!Next]_R!vars
<1>1. UNCHANGED <<Received, first, n_samples>>
  BY DEF Capture, Poll, PollTimeout, ChunkReady, CopySample, GuardOverrun, GuardPass,
         ringVars, Received
<1>2. CASE Poll \/ ChunkReady
  BY <1>1, <1>2 DEF Poll, ChunkReady, R!vars
<1>3. CASE CopySample
  <2>1. filled # n_samples /\ UNCHANGED <<lock, outcome, filled, n_samples>>
    BY <1>3, CaptureNumbers DEF CopySample, CaptureInv, TrackInv
  <2> QED  BY <1>1, <2>1 DEF R!vars
<1>4. CASE PollTimeout \/ GuardOverrun
  <2>1. lock # NoClient /\ UNCHANGED <<filled, segment>>
    BY <1>4 DEF PollTimeout, GuardOverrun, CaptureInv, TypeOK
  <2>2. \E why \in {"stalled", "overrun"} : R!Fail(why)
    BY <1>1, <1>4, <2>1 DEF PollTimeout, GuardOverrun, Respond, R!Fail
  <2> QED  BY <2>2 DEF R!Next
<1>5. CASE GuardPass /\ filled' < n_samples
  <2>1. filled # n_samples /\ filled' # n_samples' /\ UNCHANGED <<lock, outcome>>
    BY <1>1, <1>5, CaptureNumbers DEF GuardPass, CaptureInv, TrackInv, TypeOK
  <2> QED  BY <1>1, <2>1 DEF R!vars
<1>6. CASE GuardPass /\ ~(filled' < n_samples)
  <2>1. /\ lock # NoClient /\ lock' = NoClient
        /\ outcome' = [outcome EXCEPT ![lock] = "ok"]
    BY <1>6 DEF GuardPass, Respond, CaptureInv, TypeOK
  <2>2. filled' = n_samples' /\ filled' = filled + this_n
    BY <1>1, <1>6, CaptureNumbers DEF GuardPass, CaptureInv, TypeOK
  <2>3. Received >= first + n_samples
    <3>1. Received >= first + filled + this_n
      <4>1. seen <= Received /\ seen >= first + filled + this_n
        BY <1>6 DEF GuardPass, CaptureInv, TrackInv, ChunkFirst
      <4>2. /\ seen \in Nat /\ Received \in Nat /\ first \in Nat /\ filled \in Nat
            /\ this_n \in 1..Chunk
        BY <1>6, CaptureNumbers, AdvancedIsDistance DEF CaptureInv, GuardPass, Received
      <4> QED  BY <4>1, <4>2
    <3>2. n_samples = filled + this_n
      BY <1>1, <2>2
    <3>3. first \in Nat /\ filled \in Nat /\ this_n \in 1..Chunk
      BY <1>6, CaptureNumbers, AdvancedIsDistance DEF CaptureInv, GuardPass
    <3> QED  BY <3>1, <3>2, <3>3
  <2>4. segment' = [k \in 1..n_samples |-> first + k - 1]
    <3>1. /\ segment' \in Seq(Int) /\ Len(segment') = n_samples
          /\ \A k \in 1..Len(segment') : segment'[k] = first + k - 1
      BY <1>1, <2>2 DEF CaptureInv, SegmentInv, TypeOK
    <3> QED  BY <3>1, CaptureNumbers, SegmentIsRun DEF CaptureInv
  <2>5. R!Deliver
    BY <1>1, <2>1, <2>2, <2>3, <2>4 DEF R!Deliver
  <2> QED  BY <2>5 DEF R!Next
<1> QED  BY <1>2, <1>3, <1>4, <1>5, <1>6 DEF Capture

(* The lock-free, chunked capture of a ring that is being overwritten      *)
(* implements the Recorder.                                                *)
THEOREM CaptureImplementsRecorder ==
  ASSUME FastHost, Unaligned  PROVE Spec => ImplementsRecorder
<1>1. Init => R!Init
  BY DEF Init, RingInit, R!Init, Received
<1>2. CaptureInv /\ [Next]_vars => CaptureInv'
  BY CaptureNextInv
<1>3. CaptureInv /\ CaptureInv' /\ [Next]_vars => [R!Next]_R!vars
  <2> SUFFICES ASSUME CaptureInv, CaptureInv', [Next]_vars  PROVE [R!Next]_R!vars
    OBVIOUS
  <2>1. CASE UNCHANGED vars
    BY <2>1 DEF vars, R!vars, Received
  <2> QED  BY <2>1, RxRefines, RequestRefines, CaptureStepRefines DEF Next
<1> QED  BY CaptureInitInv, <1>1, <1>2, <1>3, PTL DEF Spec, ImplementsRecorder, R!Spec
-----------------------------------------------------------------------------
(* A slower host: the RX may advance by half the buffer between two looks, *)
(* so that it may overwrite the chunk while it is copied.                  *)
SlowHost == 2 * Lag <= B

(* seconds is a whole number, and a chunk is a second (app.py 611, 564).   *)
Whole(n) == \E q \in Nat : n = q * Chunk

WholeChunks == \A n \in Sizes : Whole(n)

SlowTrackInv ==
    phase # "idle" =>
        /\ Whole(filled) /\ Whole(n_samples) /\ filled < n_samples
        /\ chunk_start \in 1..B-1
        /\ chunk_start # Chunk
        /\ lap \in {ChunkFirst - chunk_start, ChunkFirst - chunk_start + B,
                    ChunkFirst - chunk_start + 2 * B}
        /\ ChunkFirst <= seen
        /\ seen <= Received
        /\ Received + blk <= seen + Lag
        /\ phase = "poll" => seen < ChunkFirst + Chunk
        /\ phase # "poll" => /\ seen >= ChunkFirst + Chunk
                             /\ seen < ChunkFirst + B

(* What has been copied is right, or the block of the moment, or one before *)
(* it, has reached that sample.                                            *)
Overtaken(k) == first + k + B <= Received + copied

SlowSegmentInv ==
    /\ filled <= Len(segment)
    /\ phase = "poll" => Len(segment) = filled
    /\ phase = "copy" => Len(segment) < filled + Chunk
    /\ phase = "guard" => Len(segment) = filled + Chunk
    /\ phase # "idle" =>
         \A k \in filled+1..Len(segment) : segment[k] = first + k - 1 \/ Overtaken(k)

SlowInv == TypeOK /\ RingContent /\ SlowTrackInv /\ SlowSegmentInv /\ GuardLimitsDamage

(* Of two different whole numbers of chunks the larger has a chunk more.   *)
LEMMA WholeStep ==
  ASSUME NEW m, NEW n, Whole(m), Whole(n), m < n
  PROVE  m + Chunk <= n /\ Whole(m + Chunk)
<1>1. Chunk \in Nat \ {0}
  BY CaptureAssumption
<1>2. PICK q \in Nat : m = q * Chunk
  BY DEF Whole
<1>3. PICK p \in Nat : n = p * Chunk
  BY DEF Whole
<1>4. ASSUME NEW c \in Nat \ {0}, NEW a \in Nat, NEW b \in Nat, a * c < b * c
      PROVE  a * c + c <= b * c /\ a * c + c = (a + 1) * c
  <2>1. a < b
    BY <1>4
  <2>2. (a + 1) * c = a * c + c
    OBVIOUS
  <2>3. (b - (a + 1)) * c >= 0
    BY <2>1
  <2>4. (b - (a + 1)) * c = b * c - (a + 1) * c
    OBVIOUS
  <2> QED  BY <2>2, <2>3, <2>4
<1>5. m + Chunk <= n /\ m + Chunk = (q + 1) * Chunk
  BY <1>1, <1>2, <1>3, <1>4
<1> QED  BY <1>5 DEF Whole

(* The place of a sample in its chunk.                                     *)
LEMMA PlaceInChunk ==
  ASSUME NEW m \in Nat, Whole(m), NEW k \in m+1..m+Chunk
  PROVE  (k - 1) % Chunk = k - 1 - m
<1>1. Chunk \in Nat \ {0}
  BY CaptureAssumption
<1>2. PICK q \in Nat : m = q * Chunk
  BY DEF Whole
<1>3. ASSUME NEW c \in Nat \ {0}, NEW a \in Nat, NEW j \in 0..c-1
      PROVE  (a * c + j) % c = j
  OBVIOUS
<1>4. k - 1 - m \in 0..Chunk-1 /\ k - 1 = q * Chunk + (k - 1 - m)
  BY <1>1, <1>2
<1> QED  BY <1>1, <1>3, <1>4

(* The numbers and bounds of a capture that waits or copies.               *)
LEMMA SlowNumbers ==
  ASSUME SlowHost, TypeOK, SlowTrackInv, phase # "idle"
  PROVE  /\ B = 2 * Chunk /\ Chunk \in Nat \ {0} /\ Lag \in Nat /\ Lag <= Chunk
         /\ lap \in Nat /\ buf_write_idx \in 0..B /\ blk \in Nat /\ copied \in 0..blk
         /\ first \in Nat /\ filled \in Nat /\ n_samples \in Nat /\ seen \in Nat
         /\ ChunkFirst = first + filled /\ ChunkFirst \in Nat
         /\ Received = lap + buf_write_idx /\ Received \in Nat
         /\ chunk_start \in 1..B-1 /\ chunk_start # Chunk
         /\ \/ lap = ChunkFirst - chunk_start
            \/ lap = ChunkFirst - chunk_start + B
            \/ lap = ChunkFirst - chunk_start + 2 * B
         /\ ChunkFirst <= seen /\ seen <= Received /\ Received + blk <= seen + Lag
         /\ this_n = Chunk
         /\ filled + Chunk <= n_samples /\ Whole(filled + Chunk)
<1>1. /\ B = 2 * Chunk /\ Chunk \in Nat \ {0} /\ Lag \in Nat /\ Lag <= Chunk
      /\ lap \in Nat /\ buf_write_idx \in 0..B /\ blk \in Nat /\ copied \in 0..blk
      /\ first \in Nat /\ filled \in Nat /\ n_samples \in Nat /\ seen \in Nat
  BY CaptureNumbers DEF SlowHost
<1>2. /\ Whole(filled) /\ Whole(n_samples) /\ filled < n_samples
      /\ chunk_start \in 1..B-1 /\ chunk_start # Chunk
      /\ \/ lap = ChunkFirst - chunk_start
         \/ lap = ChunkFirst - chunk_start + B
         \/ lap = ChunkFirst - chunk_start + 2 * B
      /\ ChunkFirst <= seen /\ seen <= Received /\ Received + blk <= seen + Lag
  BY DEF SlowTrackInv
<1>3. filled + Chunk <= n_samples /\ Whole(filled + Chunk)
  BY <1>2, WholeStep
<1>4. this_n = Chunk
  BY <1>1, <1>3 DEF this_n
<1> QED  BY <1>1, <1>2, <1>3, <1>4 DEF ChunkFirst, Received

(* _samples_advanced is the distance of the RX, modulo the buffer.         *)
LEMMA SlowAdvanced ==
  ASSUME SlowHost, TypeOK, SlowTrackInv, phase # "idle"
  PROVE  /\ Distance \in 0..B+Chunk-1
         /\ phase = "poll" => Distance < B
         /\ Distance < B => Advanced = Distance
         /\ Distance >= B => Advanced = Distance - B
<1>1. Distance = Received - ChunkFirst
  BY DEF Distance
<1>2. /\ phase = "poll" => seen < ChunkFirst + Chunk
      /\ phase # "poll" => seen < ChunkFirst + B
  BY DEF SlowTrackInv
<1>3. Distance \in 0..B+Chunk-1 /\ (phase = "poll" => Distance < B)
  BY <1>1, <1>2, SlowNumbers
<1>4. Distance < B => Advanced = Distance
  BY <1>1, <1>3, SlowNumbers DEF Advanced, _samples_advanced
<1>5. Distance >= B => Advanced = Distance - B
  BY <1>1, <1>3, SlowNumbers DEF Advanced, _samples_advanced
<1> QED  BY <1>3, <1>4, <1>5

(* A cell the capture reads holds the sample it needs, or the RX has been  *)
(* there a lap later.                                                      *)
LEMMA SlowCopy ==
  ASSUME SlowHost, SlowInv, phase = "copy"
  PROVE  /\ iq_buffer[ReadIndex(Len(segment) - filled)] \in Int
         /\ \/ iq_buffer[ReadIndex(Len(segment) - filled)] = first + Len(segment)
            \/ Overtaken(Len(segment) + 1)
<1> DEFINE k == Len(segment) - filled
           i == ReadIndex(k)
<1>0. /\ B = 2 * Chunk /\ Chunk \in Nat \ {0} /\ Lag \in Nat /\ Lag <= Chunk
      /\ lap \in Nat /\ buf_write_idx \in 0..B /\ blk \in Nat /\ copied \in 0..blk
      /\ first \in Nat /\ filled \in Nat /\ ChunkFirst = first + filled
      /\ Received = lap + buf_write_idx
      /\ chunk_start \in 1..B-1
      /\ \/ lap = ChunkFirst - chunk_start
         \/ lap = ChunkFirst - chunk_start + B
         \/ lap = ChunkFirst - chunk_start + 2 * B
  BY SlowNumbers DEF SlowInv
<1>1. k \in 0..Chunk-1 /\ Len(segment) = filled + k
  BY <1>0 DEF SlowInv, SlowSegmentInv, TypeOK
<1>2. /\ i \in 0..B-1
      /\ i = chunk_start + k \/ (i = chunk_start + k - B /\ chunk_start + k >= B)
  <2> HIDE DEF k
  <2> QED  BY <1>0, <1>1 DEF ReadIndex
<1>3. Distance \in 0..B+Chunk-1 /\ Distance = Received - ChunkFirst
  BY SlowAdvanced DEF SlowInv, Distance
<1>4. Received >= ChunkFirst + Chunk
  BY <1>0, SlowNumbers DEF SlowInv, SlowTrackInv
<1>5. Content(i) = ChunkFirst + k \/ ChunkFirst + k + B + 1 <= Received + copied
  <2> HIDE DEF k, i
  <2>1. CASE lap = ChunkFirst - chunk_start
    BY <1>0, <1>1, <1>2, <1>3, <1>4, <2>1 DEF Content
  <2>2. CASE lap = ChunkFirst - chunk_start + B
    BY <1>0, <1>1, <1>2, <1>3, <1>4, <2>2 DEF Content
  <2>3. CASE lap = ChunkFirst - chunk_start + 2 * B
    BY <1>0, <1>1, <1>2, <1>3, <1>4, <2>3 DEF Content
  <2> QED  BY <1>0, <2>1, <2>2, <2>3
<1>6. iq_buffer[i] = Content(i) /\ iq_buffer[i] \in Int
  BY <1>2 DEF SlowInv, RingContent, TypeOK, RingTypeOK
<1>7. first + Len(segment) = ChunkFirst + k
  BY <1>0, <1>1
<1>8. Overtaken(Len(segment) + 1) <=> ChunkFirst + k + B + 1 <= Received + copied
  BY <1>0, <1>1 DEF Overtaken
<1> QED  BY <1>5, <1>6, <1>7, <1>8

(* The RX goes on: it never comes near the chunk by more than Lag, and what *)
(* it has overtaken stays overtaken.                                       *)
LEMMA SlowRxInv == ASSUME SlowHost, SlowInv, Rx  PROVE SlowInv'
<1> USE RingAssumption, CaptureAssumption
<1>1. UNCHANGED capVars
  BY DEF Rx, RxBegin
<1>2. RingTypeOK' /\ RingContent'
  <2>1. RingInv
    BY DEF SlowInv, TypeOK, RingInv
  <2> QED  BY <2>1, WorkBeginInv, WorkCopyInv, WorkPublishInv DEF Rx, RxBegin, RingInv
<1>3. TypeOK'
  BY <1>1, <1>2 DEF SlowInv, TypeOK, capVars
<1>4. Received + copied <= Received' + copied'
      /\ Received \in Nat /\ copied \in Nat /\ Received' \in Nat /\ copied' \in Nat
  <2>1. /\ lap \in Nat /\ buf_write_idx \in 0..B /\ blk \in Nat /\ copied \in 0..blk /\ B \in Nat
    BY CaptureNumbers DEF SlowInv
  <2>2. CASE \E n \in Blocks : RxBegin(n)
    <3>1. blk = 0 /\ copied' = 0 /\ lap' = lap /\ buf_write_idx' = buf_write_idx
      BY <2>2 DEF RxBegin, WorkBegin
    <3> QED  BY <2>1, <3>1 DEF Received
  <2>3. CASE WorkCopy
    BY <2>1, <2>3 DEF WorkCopy, Received
  <2>4. CASE WorkPublish
    BY <2>1, <2>4 DEF WorkPublish, Received
  <2> QED  BY <2>2, <2>3, <2>4 DEF Rx
<1>5. SlowTrackInv'
  <2> SUFFICES ASSUME phase' # "idle"  PROVE SlowTrackInv'
    BY DEF SlowTrackInv
  <2>1. /\ phase # "idle" /\ ChunkFirst' = ChunkFirst
        /\ UNCHANGED <<phase, filled, n_samples, chunk_start, seen>>
    BY <1>1 DEF capVars, ChunkFirst
  <2>2. /\ B = 2 * Chunk /\ Chunk \in Nat \ {0} /\ Lag \in Nat /\ Lag <= Chunk
        /\ lap \in Nat /\ buf_write_idx \in 0..B /\ blk \in Nat
        /\ ChunkFirst \in Nat /\ seen \in Nat /\ Received = lap + buf_write_idx
        /\ chunk_start \in 1..B-1
        /\ \/ lap = ChunkFirst - chunk_start
           \/ lap = ChunkFirst - chunk_start + B
           \/ lap = ChunkFirst - chunk_start + 2 * B
        /\ seen <= Received /\ Received + blk <= seen + Lag
    BY <2>1, SlowNumbers DEF SlowInv
  <2>3. seen < ChunkFirst + B
    BY <2>1, <2>2 DEF SlowInv, SlowTrackInv
  <2>4. /\ seen <= Received' /\ Received' + blk' <= seen + Lag
        /\ lap' \in {ChunkFirst - chunk_start, ChunkFirst - chunk_start + B,
                     ChunkFirst - chunk_start + 2 * B}
    <3>1. CASE \E n \in Blocks : RxBegin(n)
      <4>1. PICK n \in Blocks : /\ Received + n <= seen + Lag
                               /\ lap' = lap /\ buf_write_idx' = buf_write_idx /\ blk' = n
        BY <2>1, <3>1 DEF RxBegin, WorkBegin, SlowInv, TypeOK
      <4> QED  BY <2>2, <4>1 DEF Received
    <3>2. CASE WorkCopy
      BY <2>2, <3>2 DEF WorkCopy, Received
    <3>3. CASE WorkPublish
      <4>1. CASE blk <= B - buf_write_idx
        <5>1. lap' = lap /\ buf_write_idx' = buf_write_idx + blk /\ blk' = 0
          BY <3>3, <4>1 DEF WorkPublish
        <5> QED  BY <2>2, <5>1 DEF Received
      <4>2. CASE blk > B - buf_write_idx
        <5>1. lap' = lap + B /\ buf_write_idx' = blk - (B - buf_write_idx) /\ blk' = 0
          BY <2>2, <3>3, <4>2 DEF WorkPublish
        <5>2. lap + B < ChunkFirst + B + Chunk
          BY <2>2, <2>3, <4>2
        <5>3. lap # ChunkFirst - chunk_start + 2 * B
          BY <2>2, <5>2
        <5>4. seen <= Received' /\ Received' + blk' <= seen + Lag
          BY <2>2, <4>2, <5>1 DEF Received
        <5> QED  BY <2>2, <5>1, <5>3, <5>4
      <4> QED  BY <2>2, <4>1, <4>2
    <3> QED  BY <3>1, <3>2, <3>3 DEF Rx
  <2> QED  BY <2>1, <2>4 DEF SlowInv, SlowTrackInv
<1>6. SlowSegmentInv'
  <2>1. UNCHANGED <<phase, filled, segment, first>>
    BY <1>1 DEF capVars
  <2>2. ASSUME NEW k \in filled+1..Len(segment), Overtaken(k)  PROVE Overtaken(k)'
    <3>1. first \in Nat /\ filled \in Nat /\ B \in Nat /\ k \in Int
      BY CaptureNumbers DEF SlowInv, TypeOK
    <3>2. first + k + B <= Received + copied
      BY <2>2 DEF Overtaken
    <3>3. ASSUME NEW x \in Int, NEW a \in Nat, NEW b \in Nat, NEW c \in Nat, NEW d \in Nat,
                 x <= a + b, a + b <= c + d
          PROVE  x <= c + d
      BY <3>3
    <3>4. first + k + B \in Int
      BY <3>1
    <3>5. first + k + B <= Received' + copied'
      BY <1>4, <3>2, <3>3, <3>4, Zenon
    <3> QED  BY <2>1, <3>5, Zenon DEF Overtaken
  <2> QED  BY <2>1, <2>2 DEF SlowInv, SlowSegmentInv
<1>7. GuardLimitsDamage'
  BY <1>1 DEF SlowInv, GuardLimitsDamage, capVars
<1> QED  BY <1>2, <1>3, <1>5, <1>6, <1>7 DEF SlowInv

(* The other steps leave the ring alone.                                   *)
LEMMA SlowRing ==
  SlowInv /\ UNCHANGED ringVars
    => /\ RingTypeOK' /\ RingContent'
       /\ \A k : Overtaken(k) /\ first' = first => Overtaken(k)'
  BY RingStutterInv DEF SlowInv, TypeOK, RingInv, Overtaken, Received, ringVars

(* A capture starts at the index of the moment.                            *)
LEMMA SlowStartInv ==
  ASSUME Unaligned, WholeChunks, SlowHost, SlowInv,
         NEW c \in Clients, NEW n \in Sizes, StartCapture(c, n)
  PROVE  SlowInv'
<1> USE RingAssumption, CaptureAssumption
<1>1. UNCHANGED ringVars
  BY DEF StartCapture
<1>2. RingTypeOK' /\ RingContent'
  BY <1>1, SlowRing
<1>3. TypeOK'
  BY <1>1, <1>2, CaptureNumbers
  DEF SlowInv, TypeOK, StartCapture, Outcomes, ringVars, Received
<1>4. phase' = "poll" /\ filled' = 0 /\ n_samples' = n /\ segment' = <<>> /\ n # 0
      /\ first' = Received /\ chunk_start' = buf_write_idx /\ seen' = Received
      /\ lap' = lap /\ buf_write_idx' = buf_write_idx /\ blk' = blk
  BY <1>1 DEF StartCapture, ringVars
<1>5. SlowTrackInv'
  <2>1. buf_write_idx \in 1..B-1 /\ buf_write_idx # Chunk
    BY CaptureNumbers DEF StartCapture, Unaligned, SlowInv
  <2>2. n \in Nat \ {0} /\ (blk = 0 \/ blk \in Blocks) /\ blk <= Lag
    BY DEF SlowInv, TypeOK, RingTypeOK
  <2>3. lap \in Nat /\ Chunk \in Nat \ {0} /\ blk \in Nat /\ Lag \in Nat
    BY CaptureNumbers DEF SlowInv
  <2>4. Whole(0) /\ Whole(n)
    <3>1. 0 = 0 * Chunk
      BY <2>3
    <3> QED  BY <3>1 DEF Whole, WholeChunks
  <2>5. ChunkFirst' = Received /\ Received' = Received
    BY <1>4, <2>1, <2>3 DEF ChunkFirst, Received
  <2>6. Whole(filled)' /\ Whole(n_samples)'
    BY <1>4, <2>4 DEF Whole
  <2>7. /\ filled' < n_samples' /\ chunk_start' \in 1..B-1 /\ chunk_start' # Chunk
        /\ lap' = ChunkFirst' - chunk_start'
        /\ ChunkFirst' <= seen' /\ seen' <= Received' /\ Received' + blk' <= seen' + Lag
        /\ seen' < ChunkFirst' + Chunk
    BY <1>4, <2>1, <2>2, <2>3, <2>5 DEF Received
  <2> QED  BY <1>4, <2>6, <2>7 DEF SlowTrackInv
<1>6. SlowSegmentInv'
  BY <1>4 DEF SlowSegmentInv
<1>7. GuardLimitsDamage'
  BY <1>4 DEF GuardLimitsDamage
<1> QED  BY <1>2, <1>3, <1>5, <1>6, <1>7 DEF SlowInv

(* A request that meets the lock touches nothing of the capture.            *)
LEMMA SlowRejectInv ==
  ASSUME SlowInv, NEW c \in Clients, RejectCapture(c)  PROVE SlowInv'
<1>1. RingTypeOK' /\ RingContent'
  BY SlowRing DEF RejectCapture
<1>2. TypeOK'
  BY <1>1 DEF SlowInv, TypeOK, RejectCapture, Outcomes
<1>3. SlowTrackInv'
  BY DEF SlowInv, SlowTrackInv, RejectCapture, ringVars, ChunkFirst, Received, Whole
<1>4. SlowSegmentInv' /\ GuardLimitsDamage'
  BY DEF SlowInv, SlowSegmentInv, GuardLimitsDamage, Overtaken, RejectCapture, ringVars, Received
<1> QED  BY <1>1, <1>2, <1>3, <1>4 DEF SlowInv

(* A failed request: nothing more is accepted.                             *)
LEMMA SlowFailInv ==
  ASSUME SlowInv, PollTimeout \/ GuardOverrun  PROVE SlowInv'
<1>1. RingTypeOK' /\ RingContent'
  BY SlowRing DEF PollTimeout, GuardOverrun
<1>2. phase # "idle" /\ phase' = "idle" /\ lock' = NoClient
      /\ UNCHANGED <<n_samples, filled, chunk_start, segment, polls, first, seen>>
  BY DEF PollTimeout, GuardOverrun, Respond
<1>3. lock \in Clients
  BY <1>2 DEF SlowInv, TypeOK
<1>4. outcome' \in [Clients -> Outcomes]
  BY <1>3 DEF SlowInv, TypeOK, PollTimeout, GuardOverrun, Respond, Outcomes
<1>5. TypeOK'
  BY <1>1, <1>2, <1>4 DEF SlowInv, TypeOK
<1>6. SlowTrackInv' /\ SlowSegmentInv' /\ GuardLimitsDamage'
  BY <1>2 DEF SlowInv, SlowTrackInv, SlowSegmentInv, GuardLimitsDamage
<1> QED  BY <1>1, <1>5, <1>6 DEF SlowInv

(* A look at the index: what it sees is less than a buffer ahead.          *)
LEMMA SlowPollInv ==
  ASSUME SlowHost, SlowInv, Poll \/ ChunkReady  PROVE SlowInv'
<1> USE RingAssumption, CaptureAssumption
<1>1. /\ phase = "poll" /\ phase' \in {"poll", "copy"} /\ seen' = Received
      /\ UNCHANGED <<lock, outcome, n_samples, filled, chunk_start, segment, first>>
      /\ UNCHANGED ringVars
  BY DEF Poll, ChunkReady
<1>2. RingTypeOK' /\ RingContent'
  BY <1>1, SlowRing
<1>3. TypeOK'
  <2>1. polls' \in 0..MaxPolls
    BY DEF SlowInv, TypeOK, Poll, ChunkReady
  <2>2. seen' \in Nat
    BY <1>1, CaptureNumbers DEF SlowInv, Received
  <2>3. (lock' = NoClient) <=> (phase' = "idle")
    BY <1>1 DEF SlowInv, TypeOK
  <2> QED  BY <1>1, <1>2, <2>1, <2>2, <2>3 DEF SlowInv, TypeOK
<1>4. /\ ChunkFirst' = ChunkFirst /\ Received' = Received
      /\ UNCHANGED <<lap, blk, buf_write_idx, copied>>
  BY <1>1 DEF ChunkFirst, Received, ringVars
<1>5. /\ B = 2 * Chunk /\ Chunk \in Nat \ {0} /\ Lag \in Nat
      /\ Received \in Nat /\ ChunkFirst \in Nat /\ blk \in Nat /\ blk <= Lag
      /\ ChunkFirst <= Received /\ this_n = Chunk
  <2>1. (blk = 0 \/ blk \in Blocks) /\ blk <= Lag
    BY DEF SlowInv, TypeOK, RingTypeOK
  <2>2. phase # "idle"
    BY <1>1
  <2>3. seen <= Received /\ ChunkFirst <= seen /\ seen \in Nat
    BY <2>2, SlowNumbers DEF SlowInv
  <2> QED  BY <2>1, <2>2, <2>3, SlowNumbers DEF SlowInv
<1>6. Distance = Received - ChunkFirst /\ Distance < B /\ Advanced = Distance
  BY <1>1, SlowAdvanced DEF SlowInv, Distance
<1>7. /\ phase' = "poll" => Received < ChunkFirst + Chunk
      /\ phase' = "copy" => Received >= ChunkFirst + Chunk /\ Received < ChunkFirst + B
  BY <1>1, <1>5, <1>6 DEF Poll, ChunkReady
<1>8. SlowTrackInv'
  <2>1. /\ Whole(filled)' /\ Whole(n_samples)' /\ filled' < n_samples'
        /\ chunk_start' \in 1..B-1 /\ chunk_start' # Chunk
        /\ lap' \in {ChunkFirst' - chunk_start', ChunkFirst' - chunk_start' + B,
                     ChunkFirst' - chunk_start' + 2 * B}
    BY <1>1, <1>4 DEF SlowInv, SlowTrackInv, Whole
  <2>2. ChunkFirst' <= seen' /\ seen' <= Received' /\ Received' + blk' <= seen' + Lag
    BY <1>1, <1>4, <1>5
  <2> QED  BY <1>1, <1>4, <1>7, <2>1, <2>2 DEF SlowTrackInv
<1>9. SlowSegmentInv'
  <2>1. Len(segment) = filled /\ filled \in Nat /\ Chunk \in Nat \ {0}
    BY <1>1, CaptureNumbers DEF SlowInv, SlowSegmentInv
  <2> QED  BY <1>1, <2>1 DEF SlowSegmentInv
<1>10. GuardLimitsDamage'
  BY <1>1 DEF SlowInv, GuardLimitsDamage
<1> QED  BY <1>2, <1>3, <1>8, <1>9, <1>10 DEF SlowInv

(* One copied sample is right, or the RX has been there a lap later.       *)
LEMMA SlowCopyInv == ASSUME SlowHost, SlowInv, CopySample  PROVE SlowInv'
<1> DEFINE x == iq_buffer[ReadIndex(Len(segment) - filled)]
<1>1. /\ phase = "copy" /\ phase' = IF Len(segment) + 1 = filled + this_n THEN "guard" ELSE "copy"
      /\ segment' = Append(segment, x)
      /\ UNCHANGED <<lock, outcome, n_samples, filled, chunk_start, polls, first, seen>>
      /\ UNCHANGED ringVars
  BY DEF CopySample
<1>2. RingTypeOK' /\ RingContent'
  BY <1>1, SlowRing
<1>3. x \in Int /\ (x = first + Len(segment) \/ Overtaken(Len(segment) + 1))
  BY <1>1, SlowCopy
<1>4. /\ segment \in Seq(Int) /\ Len(segment) \in Nat /\ filled \in Nat /\ first \in Nat
      /\ Chunk \in Nat \ {0} /\ this_n = Chunk
  BY <1>1, SlowNumbers DEF SlowInv, TypeOK
<1> HIDE DEF x
<1>5. /\ segment' \in Seq(Int) /\ Len(segment') = Len(segment) + 1
      /\ \A k \in 1..Len(segment) : segment'[k] = segment[k]
      /\ segment'[Len(segment) + 1] = x
  BY <1>1, <1>3, <1>4
<1>6. TypeOK'
  BY <1>1, <1>2, <1>5 DEF SlowInv, TypeOK
<1>7. SlowTrackInv'
  BY <1>1 DEF SlowInv, SlowTrackInv, ringVars, ChunkFirst, Received, Whole
<1>8. SlowSegmentInv'
  <2>1. filled <= Len(segment) /\ Len(segment) < filled + Chunk
    BY <1>1 DEF SlowInv, SlowSegmentInv
  <2>2. ASSUME NEW k \in filled+1..Len(segment)+1
        PROVE  segment'[k] = first + k - 1 \/ Overtaken(k)
    <3>1. CASE k = Len(segment) + 1
      BY <1>3, <1>4, <1>5, <3>1
    <3>2. CASE k \in filled+1..Len(segment)
      <4>1. segment'[k] = segment[k]
        BY <1>4, <1>5, <3>2
      <4> QED  BY <1>1, <3>2, <4>1 DEF SlowInv, SlowSegmentInv
    <3> QED  BY <1>4, <3>1, <3>2
  <2>3. \A k : Overtaken(k) => Overtaken(k)'
    BY <1>1, SlowRing
  <2>4. \A k \in filled'+1..Len(segment') : segment'[k] = first' + k - 1 \/ Overtaken(k)'
    BY <1>1, <1>5, <2>2, <2>3
  <2>5. /\ filled' <= Len(segment') /\ phase' \in {"copy", "guard"}
        /\ phase' = "copy" => Len(segment') < filled' + Chunk
        /\ phase' = "guard" => Len(segment') = filled' + Chunk
    BY <1>1, <1>4, <1>5, <2>1
  <2> QED  BY <2>4, <2>5 DEF SlowSegmentInv
<1>9. GuardLimitsDamage'
  <2>1. filled \in Nat /\ filled <= Len(segment)
    BY <1>4 DEF SlowInv, SlowSegmentInv
  <2>2. \A k \in 1..filled : segment'[k] = segment[k]
    BY <1>4, <1>5, <2>1
  <2> QED  BY <1>1, <2>2 DEF SlowInv, GuardLimitsDamage
<1> QED  BY <1>2, <1>6, <1>7, <1>8, <1>9 DEF SlowInv

(* What the guard tells: the RX is less than a buffer ahead, for a whole    *)
(* chunk it cannot be so far that its index is beyond the chunk again.     *)
LEMMA GuardTells ==
  ASSUME SlowHost, SlowInv, GuardPass
  PROVE  Received < ChunkFirst + B /\ Received >= ChunkFirst + Chunk
<1>1. phase = "guard" /\ Advanced >= this_n
  BY DEF GuardPass
<1>2. /\ Distance \in 0..B+Chunk-1
      /\ Distance < B => Advanced = Distance
      /\ Distance >= B => Advanced = Distance - B
  BY <1>1, SlowAdvanced DEF SlowInv
<1>3. /\ B = 2 * Chunk /\ Chunk \in Nat \ {0} /\ this_n = Chunk
      /\ Received \in Nat /\ ChunkFirst \in Nat
  BY <1>1, SlowNumbers DEF SlowInv
<1> QED  BY <1>1, <1>2, <1>3 DEF Distance

(* The chunk the guard accepts: what is wrong in it was overtaken, by no   *)
(* more than the block in progress.                                        *)
LEMMA DamageInBlock ==
  ASSUME SlowHost, SlowInv, GuardPass, NEW k \in filled+1..filled+Chunk,
         segment[k] # first + k - 1
  PROVE  \E n \in Blocks : (k - 1) % Chunk < n
<1>1. phase = "guard" /\ phase # "idle"
  BY DEF GuardPass
<1>2. /\ Chunk \in Nat \ {0} /\ first \in Nat /\ filled \in Nat /\ blk \in Nat
      /\ copied \in 0..blk /\ Received \in Nat /\ B \in Nat /\ ChunkFirst = first + filled
  BY <1>1, SlowNumbers DEF SlowInv
<1>3. Len(segment) = filled + Chunk
  BY <1>1 DEF SlowInv, SlowSegmentInv
<1>4. Overtaken(k)
  BY <1>1, <1>3 DEF SlowInv, SlowSegmentInv
<1>5. Received < first + filled + B
  BY <1>2, GuardTells
<1>6. k - 1 - filled < blk
  BY <1>2, <1>4, <1>5 DEF Overtaken
<1>7. blk \in Blocks
  <2>1. blk # 0
    BY <1>2, <1>6
  <2> QED  BY <2>1 DEF SlowInv, TypeOK, RingTypeOK
<1>8. (k - 1) % Chunk = k - 1 - filled
  <2>1. Whole(filled)
    BY <1>1 DEF SlowInv, SlowTrackInv
  <2> QED  BY <1>2, <2>1, PlaceInChunk
<1> QED  BY <1>6, <1>7, <1>8

(* The guard passes and the chunk is accepted.                             *)
LEMMA SlowPassInv == ASSUME SlowHost, SlowInv, GuardPass  PROVE SlowInv'
<1> USE RingAssumption, CaptureAssumption
<1>1. /\ phase = "guard" /\ seen' = Received /\ chunk_start' = chunk_end
      /\ filled' = filled + this_n /\ polls' = 0
      /\ \/ filled' < n_samples /\ phase' = "poll" /\ lock' = lock /\ outcome' = outcome
         \/ /\ ~(filled' < n_samples) /\ phase' = "idle" /\ lock' = NoClient
            /\ outcome' = [outcome EXCEPT ![lock] = "ok"]
      /\ UNCHANGED <<n_samples, segment, first>> /\ UNCHANGED ringVars
  BY DEF GuardPass, Respond
<1>2. RingTypeOK' /\ RingContent'
  BY <1>1, SlowRing
<1>3. /\ B = 2 * Chunk /\ Chunk \in Nat \ {0} /\ Lag \in Nat
      /\ lap \in Nat /\ buf_write_idx \in 0..B /\ blk \in Nat
      /\ first \in Nat /\ filled \in Nat /\ n_samples \in Nat
      /\ ChunkFirst = first + filled /\ ChunkFirst \in Nat
      /\ Received = lap + buf_write_idx /\ Received \in Nat
      /\ chunk_start \in 1..B-1 /\ chunk_start # Chunk
      /\ \/ lap = ChunkFirst - chunk_start
         \/ lap = ChunkFirst - chunk_start + B
         \/ lap = ChunkFirst - chunk_start + 2 * B
      /\ this_n = Chunk /\ filled + Chunk <= n_samples /\ Whole(filled + Chunk)
  BY <1>1, SlowNumbers DEF SlowInv
<1>4. Received < ChunkFirst + B /\ Received >= ChunkFirst + Chunk
  BY GuardTells
<1>5. \/ chunk_start < Chunk /\ chunk_end = chunk_start + Chunk
      \/ chunk_start > Chunk /\ chunk_end = chunk_start + Chunk - B
  BY <1>3 DEF chunk_end
<1>6. TypeOK'
  <2>1. chunk_end \in 0..B
    BY <1>3, <1>5
  <2>2. lock \in Clients /\ outcome' \in [Clients -> Outcomes]
    BY <1>1 DEF SlowInv, TypeOK, Outcomes
  <2>3. filled' \in 0..n_samples /\ polls' \in 0..MaxPolls /\ seen' \in Nat
    BY <1>1, <1>3
  <2> QED  BY <1>1, <1>2, <2>1, <2>2, <2>3 DEF SlowInv, TypeOK
<1>7. SlowTrackInv'
  <2> SUFFICES ASSUME phase' # "idle"  PROVE SlowTrackInv'
    BY DEF SlowTrackInv
  <2>1. /\ phase' = "poll" /\ filled' < n_samples' /\ filled' = filled + Chunk
        /\ UNCHANGED <<first, n_samples, lap, buf_write_idx, blk>>
    BY <1>1, <1>3 DEF ringVars
  <2>2. ChunkFirst' = ChunkFirst + Chunk /\ Received' = Received
    BY <1>3, <2>1 DEF ChunkFirst, Received
  <2>3. Whole(filled)' /\ Whole(n_samples)'
    <3>1. Whole(n_samples)
      BY <1>1 DEF SlowInv, SlowTrackInv
    <3> QED  BY <1>3, <2>1, <3>1 DEF Whole
  <2>4. chunk_end \in 1..B-1 /\ chunk_end # Chunk
    BY <1>3, <1>5
  <2>5. lap \in {(ChunkFirst + Chunk) - chunk_end, (ChunkFirst + Chunk) - chunk_end + B,
                 (ChunkFirst + Chunk) - chunk_end + 2 * B}
    <3>1. CASE chunk_start < Chunk
      BY <1>3, <1>5, <3>1
    <3>2. CASE chunk_start > Chunk
      BY <1>3, <1>4, <1>5, <3>2
    <3> QED  BY <1>5, <3>1, <3>2
  <2>6. blk <= Lag
    BY DEF SlowInv, TypeOK, RingTypeOK
  <2>7. /\ ChunkFirst + Chunk <= Received /\ Received + blk <= Received + Lag
        /\ Received < ChunkFirst + Chunk + Chunk
    BY <1>3, <1>4, <2>6
  <2>8. /\ lap' \in {ChunkFirst' - chunk_start', ChunkFirst' - chunk_start' + B,
                     ChunkFirst' - chunk_start' + 2 * B}
        /\ chunk_start' \in 1..B-1 /\ chunk_start' # Chunk
    <3>1. chunk_start' = chunk_end /\ lap' = lap
      BY <1>1, <2>1
    <3> QED  BY <2>2, <2>4, <2>5, <3>1, Zenon
  <2>9. /\ ChunkFirst' <= seen' /\ seen' <= Received'
        /\ Received' + blk' <= seen' + Lag /\ seen' < ChunkFirst' + Chunk
    BY <1>1, <1>3, <2>1, <2>2, <2>7
  <2> QED  BY <2>1, <2>3, <2>8, <2>9 DEF SlowTrackInv
<1>8. Len(segment) = filled + Chunk
  BY <1>1 DEF SlowInv, SlowSegmentInv
<1>9. SlowSegmentInv'
  <2>1. filled' = filled + Chunk /\ Len(segment') = filled + Chunk /\ phase' \in {"poll", "idle"}
    BY <1>1, <1>3, <1>8
  <2> QED  BY <1>3, <2>1 DEF SlowSegmentInv
<1>10. GuardLimitsDamage'
  <2>1. ASSUME NEW k \in 1..filled+Chunk, segment[k] # first + k - 1
        PROVE  \E n \in Blocks : (k - 1) % Chunk < n
    <3>1. CASE k \in 1..filled
      BY <2>1, <3>1 DEF SlowInv, GuardLimitsDamage
    <3>2. CASE k \in filled+1..filled+Chunk
      BY <2>1, <3>2, DamageInBlock
    <3> QED  BY <1>3, <3>1, <3>2
  <2>2. filled' = filled + Chunk /\ segment' = segment /\ first' = first
    BY <1>1, <1>3
  <2> QED  BY <2>1, <2>2 DEF GuardLimitsDamage
<1> QED  BY <1>2, <1>6, <1>7, <1>9, <1>10 DEF SlowInv

(* On a host that stops for half the buffer a capture may contain samples  *)
(* of a later lap; the guard lets no more of them pass than the block in   *)
(* progress has written, at the front of a chunk.                          *)
THEOREM DamageIsLimited ==
  ASSUME SlowHost, Unaligned, WholeChunks  PROVE Spec => []GuardLimitsDamage
<1>1. Init => SlowInv
  <2> SUFFICES ASSUME Init  PROVE SlowInv
    OBVIOUS
  <2>1. TypeOK /\ RingContent
    BY CaptureInitInv DEF CaptureInv
  <2>2. phase = "idle" /\ filled = 0 /\ segment = <<>>
    BY DEF Init
  <2> QED  BY <2>1, <2>2 DEF SlowInv, SlowTrackInv, SlowSegmentInv, GuardLimitsDamage
<1>2. SlowInv /\ [Next]_vars => SlowInv'
  <2> SUFFICES ASSUME SlowInv, [Next]_vars  PROVE SlowInv'
    OBVIOUS
  <2>1. CASE Rx
    BY <2>1, SlowRxInv
  <2>2. CASE Capture
    BY <2>2, SlowPollInv, SlowFailInv, SlowCopyInv, SlowPassInv DEF Capture
  <2>3. CASE Request
    BY <2>3, SlowStartInv, SlowRejectInv DEF Request
  <2>4. CASE UNCHANGED vars
    <3>1. UNCHANGED ringVars /\ UNCHANGED capVars
      BY <2>4 DEF vars, ringVars, capVars
    <3>2. RingTypeOK' /\ RingContent'
      BY <3>1, SlowRing
    <3>3. TypeOK' /\ GuardLimitsDamage'
      BY <3>1, <3>2 DEF SlowInv, TypeOK, GuardLimitsDamage, capVars
    <3>4. SlowTrackInv'
      BY <3>1 DEF SlowInv, SlowTrackInv, ringVars, capVars, ChunkFirst, Received, Whole
    <3>5. SlowSegmentInv'
      BY <3>1 DEF SlowInv, SlowSegmentInv, Overtaken, ringVars, capVars, Received
    <3> QED  BY <3>2, <3>3, <3>4, <3>5 DEF SlowInv
  <2> QED  BY <2>1, <2>2, <2>3, <2>4 DEF Next
<1>3. SlowInv => GuardLimitsDamage
  BY DEF SlowInv
<1> QED  BY <1>1, <1>2, <1>3, PTL DEF Spec
=============================================================================
