------------------------------- MODULE IqRing -------------------------------
(***************************************************************************)
(* The IQ circular buffer that the RX thread writes and two readers copy   *)
(* from without a lock: SharedState.iq_buffer / buf_write_idx / drop_queue *)
(* (stream_web/app.py) and _BufferSink.work (stream_web/gnuradio_rx.py).   *)
(*                                                                         *)
(* A sample is represented by its number: sample a is the a-th one handed  *)
(* to work().  The zeros the buffer starts with are numbered -B .. -1.     *)
(*                                                                         *)
(* One call of work() is three kinds of step, because its readers run in   *)
(* another process (the processor) or in another thread while numpy copies *)
(* the slice: WorkBegin (overflow detection), one WorkCopy per sample, and *)
(* WorkPublish, the assignment to buf_write_idx.  As in the code the index *)
(* is allowed to rest at B (one past the end) until the next call.         *)
(*                                                                         *)
(* The readers are in IqDecode and IqCapture, which extend this module.    *)
(***************************************************************************)
EXTENDS Integers, Sequences

CONSTANTS
    B,          \* config.IQ_BUFFER_SIZE
    Blocks,     \* the lengths GNU Radio hands to work()
    MaxTotal,   \* bound: samples received in a behaviour
    MaxDrops    \* bound: overflow gaps in a behaviour

ASSUME RingAssumption ==
    /\ B \in Nat \ {0}
    /\ Blocks \subseteq 1..B
    /\ MaxTotal \in Nat
    /\ MaxDrops \in Nat

VARIABLES
    iq_buffer,      \* 0..B-1 -> the number of the sample in that slot
    buf_write_idx,  \* the published write index, 0..B
    lap,            \* ghost: the number of the sample at index 0 of this lap
    blk,            \* length of the block work() is handling, 0 between calls
    copied,         \* samples of that block already in the buffer
    rx_overflows,   \* gaps of more than 50 ms seen so far
    drop_feeder,    \* drop positions put but not yet written to the pipe
    drop_queue      \* drop positions the processor can get

ringVars == <<iq_buffer, buf_write_idx, lap, blk, copied,
              rx_overflows, drop_feeder, drop_queue>>

-----------------------------------------------------------------------------
(* How many samples have been published: what buf_write_idx stands for.    *)
Received == lap + buf_write_idx

(* The index of sample a, for the samples of this lap and its neighbours.  *)
Home(a) == IF a < lap THEN a - lap + B
           ELSE IF a < lap + B THEN a - lap
           ELSE a - lap - B

RingInit ==
    /\ iq_buffer = [i \in 0..B-1 |-> i - B]
    /\ buf_write_idx = 0
    /\ lap = 0
    /\ blk = 0
    /\ copied = 0
    /\ rx_overflows = 0
    /\ drop_feeder = <<>>
    /\ drop_queue = <<>>

(* GNU Radio calls work() with n samples.  After a gap of more than 50 ms  *)
(* the current write index is put in the drop queue; "at" is a ghost that  *)
(* remembers the sample number that index stood for.                       *)
WorkBegin(n, gap) ==
    /\ blk = 0
    /\ Received + n <= MaxTotal
    /\ IF gap
       THEN /\ rx_overflows < MaxDrops
            /\ rx_overflows' = rx_overflows + 1
            /\ drop_feeder' =
                 Append(drop_feeder, [idx |-> buf_write_idx, at |-> Received])
       ELSE UNCHANGED <<rx_overflows, drop_feeder>>
    /\ blk' = n
    /\ copied' = 0
    /\ UNCHANGED <<iq_buffer, buf_write_idx, lap, drop_queue>>

(* The next sample of the block goes to its slot: buf[wi:wi+n], or         *)
(* buf[wi:] and then buf[:remainder] when the block does not fit.          *)
WorkCopy ==
    /\ copied < blk
    /\ LET space == B - buf_write_idx
           slot  == IF copied < space THEN buf_write_idx + copied
                                      ELSE copied - space
       IN  iq_buffer' = [iq_buffer EXCEPT ![slot] = Received + copied]
    /\ copied' = copied + 1
    /\ UNCHANGED <<buf_write_idx, lap, blk, rx_overflows, drop_feeder, drop_queue>>

(* Seeded fault: the index is published before the samples are written.    *)
WorkPublish_beforeCopy ==
    /\ blk > 0
    /\ IF blk <= B - buf_write_idx
       THEN /\ buf_write_idx' = buf_write_idx + blk
            /\ lap' = lap
       ELSE /\ buf_write_idx' = blk - (B - buf_write_idx)
            /\ lap' = lap + B
    /\ blk' = 0
    /\ copied' = 0
    /\ UNCHANGED <<iq_buffer, rx_overflows, drop_feeder, drop_queue>>

(* The block is in the buffer: publish the new write index.                *)
WorkPublish ==
    /\ blk > 0
    /\ copied = blk
    /\ IF blk <= B - buf_write_idx
       THEN /\ buf_write_idx' = buf_write_idx + blk
            /\ lap' = lap
       ELSE /\ buf_write_idx' = blk - (B - buf_write_idx)
            /\ lap' = lap + B
    /\ blk' = 0
    /\ copied' = 0
    /\ UNCHANGED <<iq_buffer, rx_overflows, drop_feeder, drop_queue>>

(* multiprocessing.Queue: put_nowait hands the item to a feeder thread,    *)
(* which writes it to the pipe later; only then can the processor get it.  *)
FeedDrop ==
    /\ drop_feeder # <<>>
    /\ drop_queue' = Append(drop_queue, Head(drop_feeder))
    /\ drop_feeder' = Tail(drop_feeder)
    /\ UNCHANGED <<iq_buffer, buf_write_idx, lap, blk, copied, rx_overflows>>

RingNext ==
    \/ \E n \in Blocks, gap \in BOOLEAN : WorkBegin(n, gap)
    \/ WorkCopy
    \/ WorkPublish
    \/ FeedDrop

RingSpec == RingInit /\ [][RingNext]_ringVars

-----------------------------------------------------------------------------
DropRecord == [idx : 0..B, at : Nat]

RingTypeOK ==
    /\ iq_buffer \in [0..B-1 -> Int]
    /\ buf_write_idx \in 0..B
    /\ lap \in Nat
    /\ blk \in {0} \cup Blocks
    /\ copied \in 0..blk
    /\ rx_overflows \in Nat
    /\ drop_feeder \in Seq(DropRecord)
    /\ drop_queue \in Seq(DropRecord)

(* What each slot holds at every point of work(), also in the middle of a  *)
(* block and with the index resting at B: the inductive invariant.         *)
Content(i) ==
    IF i < buf_write_idx
    THEN IF i < copied - (B - buf_write_idx) THEN lap + B + i ELSE lap + i
    ELSE IF i - buf_write_idx < copied THEN lap + i ELSE lap + i - B

RingContent == \A i \in 0..B-1 : iq_buffer[i] = Content(i)

(* The guarantee a reader builds on: at every moment, also while work() is *)
(* half way through a block, the newest published samples are each at their*)
(* own index, all of the last B but those the block in progress replaces   *)
(* (_BufferSink.work, the split of a block over the end of the buffer).    *)
RingHoldsNewest ==
    \A a \in (Received - B + copied) .. (Received - 1) : iq_buffer[Home(a)] = a
=============================================================================
