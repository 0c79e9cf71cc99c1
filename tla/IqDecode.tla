------------------------------ MODULE IqDecode ------------------------------
(***************************************************************************)
(* The processor's decode cycle as a reader of the IQ ring                 *)
(* (stream_web/processor.py, processor_main): read the write index, drain  *)
(* the drop positions and convert them to offsets in the decode window,    *)
(* copy the newest S samples for the spectrogram, then the newest D        *)
(* samples for the decoder.  Nothing is locked: the RX thread goes on      *)
(* writing during the whole cycle and is never checked again.              *)
(*                                                                         *)
(* The model is untimed, so the two facts about time the code relies on    *)
(* are explicit bounds on how far the RX may advance:                      *)
(*   ReadLag  between the read of the index and the end of the last copy;  *)
(*   DropAge  between the put of a drop position and its conversion.       *)
(***************************************************************************)
EXTENDS IqRing

CONSTANTS
    D,          \* config.DECODE_SAMPLES
    S,          \* config.SPEC_CHUNK_SAMPLES
    ReadLag,    \* samples the RX may receive while one cycle reads
    DropAge     \* samples the RX may receive before a drop is converted

ASSUME DecodeAssumption ==
    /\ D \in 1..B-1
    /\ S \in 1..D
    /\ ReadLag \in Nat
    /\ DropAge \in Nat
    /\ \A n \in Blocks : n <= ReadLag /\ n <= DropAge

VARIABLES
    pc,                 \* where processor_main is in its loop
    widx,               \* its copy of buf_write_idx
    read_at,            \* ghost: Received when widx was read
    drop_positions,     \* drops taken from drop_queue this cycle
    drop_offsets,       \* drop_sample_offsets
    spec_chunk_iq,
    decode_chunk

procVars == <<pc, widx, read_at, drop_positions, drop_offsets, spec_chunk_iq, decode_chunk>>
decodeVars ==
    <<iq_buffer, buf_write_idx, lap, blk, copied, rx_overflows, drop_feeder,
      drop_queue, pc, widx, read_at, drop_positions, drop_offsets,
      spec_chunk_iq, decode_chunk>>

-----------------------------------------------------------------------------
(* Seeded fault: the live write index instead of the cycle's copy of it.   *)
StartOf_liveIndex(n) ==
    IF buf_write_idx < n THEN buf_write_idx - n + B ELSE buf_write_idx - n

(* (widx - n) % buf_len                                                    *)
StartOf(n) == IF widx < n THEN widx - n + B ELSE widx - n

decode_start == StartOf(D)

(* The index _extract_last(n) reads its k-th sample from, k = 0 .. n-1:    *)
(* one slice, or the end of the buffer followed by its beginning.          *)
SampleIndex(n, k) ==
    IF StartOf(n) + k < B THEN StartOf(n) + k ELSE StartOf(n) + k - B

(* Seeded fault: the window is taken to include the write index.           *)
InWindow_closed(dp) ==
    IF decode_start < widx THEN decode_start <= dp /\ dp <= widx
                           ELSE dp >= decode_start \/ dp <= widx

(* The offset in the decode window that a raw position dp is given; the    *)
(* code drops the positions for which InWindow is false.                   *)
InWindow(dp) ==
    IF decode_start < widx THEN decode_start <= dp /\ dp < widx
                           ELSE dp >= decode_start \/ dp < widx

OffsetOf(dp) ==
    IF dp >= decode_start THEN dp - decode_start ELSE B - decode_start + dp

DecodeInit ==
    /\ RingInit
    /\ pc = "idle"
    /\ widx = 0
    /\ read_at = 0
    /\ drop_positions = {}
    /\ drop_offsets = {}
    /\ spec_chunk_iq = <<>>
    /\ decode_chunk = <<>>

(* Seeded fault: the decode chunk of the previous cycle is kept.           *)
ReadIdx_keepChunk ==
    /\ pc = "idle"
    /\ pc' = "drain"
    /\ widx' = buf_write_idx
    /\ read_at' = Received
    /\ drop_positions' = {}
    /\ drop_offsets' = {}
    /\ spec_chunk_iq' = <<>>
    /\ UNCHANGED <<decode_chunk>>
    /\ UNCHANGED ringVars

(* Top of the loop.  Locals of the previous cycle are forgotten here.      *)
ReadIdx ==
    /\ pc = "idle"
    /\ pc' = "drain"
    /\ widx' = buf_write_idx
    /\ read_at' = Received
    /\ drop_positions' = {}
    /\ drop_offsets' = {}
    /\ spec_chunk_iq' = <<>>
    /\ decode_chunk' = <<>>
    /\ UNCHANGED ringVars

DrainDrop ==
    /\ pc = "drain"
    /\ drop_queue # <<>>
    /\ drop_positions' = drop_positions \cup {Head(drop_queue)}
    /\ drop_queue' = Tail(drop_queue)
    /\ UNCHANGED <<iq_buffer, buf_write_idx, lap, blk, copied, rx_overflows,
                   drop_feeder, pc, widx, read_at, drop_offsets, spec_chunk_iq,
                   decode_chunk>>

(* queue.Empty: every drained position becomes an offset or is discarded.  *)
ConvertDrops ==
    /\ pc = "drain"
    /\ drop_queue = <<>>
    /\ pc' = "spec"
    /\ drop_offsets' = {OffsetOf(d.idx) : d \in {x \in drop_positions : InWindow(x.idx)}}
    /\ UNCHANGED <<widx, read_at, drop_positions, spec_chunk_iq, decode_chunk>>
    /\ UNCHANGED ringVars

(* One sample of _extract_last(SPEC_CHUNK_SAMPLES).                        *)
CopySpec ==
    /\ pc = "spec"
    /\ spec_chunk_iq' =
         Append(spec_chunk_iq, iq_buffer[SampleIndex(S, Len(spec_chunk_iq))])
    /\ pc' = IF Len(spec_chunk_iq) + 1 = S THEN "decode" ELSE "spec"
    /\ UNCHANGED <<widx, read_at, drop_positions, drop_offsets, decode_chunk>>
    /\ UNCHANGED ringVars

(* One sample of _extract_last(DECODE_SAMPLES).                            *)
CopyDecode ==
    /\ pc = "decode"
    /\ decode_chunk' =
         Append(decode_chunk, iq_buffer[SampleIndex(D, Len(decode_chunk))])
    /\ pc' = IF Len(decode_chunk) + 1 = D THEN "use" ELSE "decode"
    /\ UNCHANGED <<widx, read_at, drop_positions, drop_offsets, spec_chunk_iq>>
    /\ UNCHANGED ringVars

(* Decode, de-duplicate, annotate, render, send the result, sleep.         *)
EndCycle ==
    /\ pc = "use"
    /\ pc' = "idle"
    /\ UNCHANGED <<widx, read_at, drop_positions, drop_offsets, spec_chunk_iq, decode_chunk>>
    /\ UNCHANGED ringVars

Reading == pc \in {"drain", "spec", "decode"}

Undrained ==
    {drop_feeder[j] : j \in 1..Len(drop_feeder)}
      \cup {drop_queue[j] : j \in 1..Len(drop_queue)}
      \cup (IF pc = "drain" THEN drop_positions ELSE {})

(* The RX thread receives a block within the two real-time bounds.         *)
DecodeRxBegin(n, gap) ==
    /\ Reading => Received + n <= read_at + ReadLag
    /\ \A d \in Undrained : Received + n - d.at <= DropAge
    /\ WorkBegin(n, gap)
    /\ UNCHANGED procVars

DecodeRx ==
    \/ \E n \in Blocks, gap \in BOOLEAN : DecodeRxBegin(n, gap)
    \/ WorkCopy /\ UNCHANGED procVars
    \/ WorkPublish /\ UNCHANGED procVars
    \/ FeedDrop /\ UNCHANGED procVars

Proc == ReadIdx \/ DrainDrop \/ ConvertDrops \/ CopySpec \/ CopyDecode \/ EndCycle

DecodeNext == DecodeRx \/ Proc

DecodeSpec == DecodeInit /\ [][DecodeNext]_decodeVars

-----------------------------------------------------------------------------
DecodeTypeOK ==
    /\ RingTypeOK
    /\ pc \in {"idle", "drain", "spec", "decode", "use"}
    /\ widx \in 0..B
    /\ read_at \in Nat
    /\ drop_positions \subseteq DropRecord
    /\ drop_offsets \subseteq Int
    /\ spec_chunk_iq \in Seq(Int)
    /\ decode_chunk \in Seq(Int)
    /\ Len(spec_chunk_iq) <= S
    /\ Len(decode_chunk) <= D

(* The decoder is given D consecutive samples that end at the write index  *)
(* read at the top of the cycle, and the spectrogram the last S of them:   *)
(* no sample is torn out by the RX, although _extract_last takes no lock   *)
(* and checks nothing (the sink's comment calls this safe).  It rests on   *)
(* ReadLag <= B - D, the 0.5 s of headroom of the 2 s buffer.              *)
ChunksIntact ==
    /\ \A k \in 1..Len(spec_chunk_iq) : spec_chunk_iq[k] = read_at - S + k - 1
    /\ \A k \in 1..Len(decode_chunk) : decode_chunk[k] = read_at - D + k - 1

(* A drop is reported at the place in the decode window where the samples  *)
(* were lost, and each drained drop inside the window is reported, however *)
(* late the queue delivered it (conversion of drop_positions to            *)
(* drop_sample_offsets).  The window that starts exactly at index 0 is     *)
(* left out: there a position that was recorded as B is missed.            *)
DropOffsetsExact ==
    (pc \in {"spec", "decode", "use"} /\ widx # D) =>
        drop_offsets = {d.at - (read_at - D) :
                          d \in {x \in drop_positions : read_at - D <= x.at /\ x.at < read_at}}
=============================================================================
