----------------------------- MODULE IqCapture -----------------------------
(***************************************************************************)
(* IQ capture over HTTP as the second reader of the IQ ring                *)
(* (stream_web/app.py): /api/iq_capture, /api/record_analyze and           *)
(* /api/fcc_check take _capture_lock without waiting and run _capture_iq,  *)
(* which follows the write index chunk by chunk, a chunk being half of the *)
(* ring, and after each copy checks that the RX has not lapped it.         *)
(*                                                                         *)
(* Each request is served by a thread of its own.  Time is abstracted to   *)
(* two bounds: Lag, how far the RX may advance between two looks of the    *)
(* capture thread at the write index, and MaxPolls, how many 50 ms polls   *)
(* fit in the deadline of a chunk.                                         *)
(***************************************************************************)
EXTENDS IqRing

CONSTANTS
    Clients,        \* HTTP requests that may be in progress together
    NoClient,       \* _capture_lock is free
    Chunk,          \* chunk_n = buf_size // 2
    Sizes,          \* n_samples of the requests, seconds * SAMPLE_RATE
    Lag,            \* samples received between two looks at the index
    MaxPolls,       \* unsuccessful polls before the deadline passes
    AlignedStarts   \* may a capture begin at index 0, B/2 or B?

ASSUME CaptureAssumption ==
    /\ NoClient \notin Clients
    /\ Chunk \in Nat \ {0}
    /\ B = 2 * Chunk
    /\ Sizes \subseteq Nat \ {0}
    /\ Lag \in Nat
    /\ \A n \in Blocks : n <= Lag
    /\ MaxPolls \in Nat
    /\ AlignedStarts \in BOOLEAN

VARIABLES
    lock,           \* the holder of _capture_lock
    phase,          \* where the holder is in _capture_iq
    outcome,        \* the response of each request, "none" while it runs
    n_samples, filled, chunk_start, segment,    \* locals of _capture_iq
    polls,          \* polls made for this chunk
    first,          \* ghost: number of the first sample asked for
    seen            \* ghost: Received at the last look at the index

capVars == <<lock, phase, outcome, n_samples, filled, chunk_start, segment,
             polls, first, seen>>
vars == <<iq_buffer, buf_write_idx, lap, blk, copied, rx_overflows, drop_feeder,
          drop_queue, lock, phase, outcome, n_samples, filled, chunk_start,
          segment, polls, first, seen>>

-----------------------------------------------------------------------------
_samples_advanced(start, end, buf_size) ==
    IF end >= start THEN end - start ELSE buf_size - start + end

this_n == IF Chunk <= n_samples - filled THEN Chunk ELSE n_samples - filled

(* Seeded fault: the next chunk begins at the head, not where this one ended. *)
chunk_end_atHead == buf_write_idx

(* (chunk_start + this_n) % buf_size                                       *)
chunk_end == IF chunk_start + this_n >= B THEN chunk_start + this_n - B
                                          ELSE chunk_start + this_n

Advanced == _samples_advanced(chunk_start, buf_write_idx, B)

(* The index the k-th sample of the chunk is copied from, k = 0, 1, ...    *)
ReadIndex(k) == IF chunk_start + k < B THEN chunk_start + k
                                       ELSE chunk_start + k - B

Init ==
    /\ RingInit
    /\ lock = NoClient
    /\ phase = "idle"
    /\ outcome = [c \in Clients |-> "none"]
    /\ n_samples = 0
    /\ filled = 0
    /\ chunk_start = 0
    /\ segment = <<>>
    /\ polls = 0
    /\ first = 0
    /\ seen = 0

(* A request gets the lock; _capture_iq begins at the current write index. *)
StartCapture(c, n) ==
    /\ lock = NoClient
    /\ AlignedStarts \/ buf_write_idx \notin {0, Chunk, B}
    /\ lock' = c
    /\ phase' = "poll"
    /\ outcome' = [outcome EXCEPT ![c] = "none"]
    /\ n_samples' = n
    /\ filled' = 0
    /\ chunk_start' = buf_write_idx
    /\ segment' = <<>>
    /\ polls' = 0
    /\ first' = Received
    /\ seen' = Received
    /\ UNCHANGED ringVars

(* acquire(blocking=False) fails: 409.                                     *)
RejectCapture(c) ==
    /\ lock \notin {NoClient, c}
    /\ outcome' = [outcome EXCEPT ![c] = "busy"]
    /\ UNCHANGED <<lock, phase, n_samples, filled, chunk_start, segment, polls,
                   first, seen>>
    /\ UNCHANGED ringVars

(* Seeded fault: the lock is not released.                                 *)
Respond_keepLock(result) ==
    /\ outcome' = [outcome EXCEPT ![lock] = result]
    /\ lock' = lock
    /\ phase' = "idle"

(* The request ends, by return or by CaptureError; finally: release().     *)
Respond(result) ==
    /\ outcome' = [outcome EXCEPT ![lock] = result]
    /\ lock' = NoClient
    /\ phase' = "idle"

(* Seeded fault: the deadline moves with every poll.                       *)
Poll_noDeadline ==
    /\ phase = "poll"
    /\ Advanced < this_n
    /\ polls < MaxPolls
    /\ polls' = polls
    /\ seen' = Received
    /\ UNCHANGED <<lock, phase, outcome, n_samples, filled, chunk_start,
                   segment, first>>
    /\ UNCHANGED ringVars

(* Not enough samples yet: sleep 50 ms.                                    *)
Poll ==
    /\ phase = "poll"
    /\ Advanced < this_n
    /\ polls < MaxPolls
    /\ polls' = polls + 1
    /\ seen' = Received
    /\ UNCHANGED <<lock, phase, outcome, n_samples, filled, chunk_start,
                   segment, first>>
    /\ UNCHANGED ringVars

(* Seeded fault: after the deadline what there is is returned with a 200.  *)
PollTimeout_partial ==
    /\ phase = "poll"
    /\ Advanced < this_n
    /\ polls = MaxPolls
    /\ Respond("ok")
    /\ UNCHANGED <<n_samples, filled, chunk_start, segment, polls, first, seen>>
    /\ UNCHANGED ringVars

(* ... or the deadline has passed: CaptureError 504.                       *)
PollTimeout ==
    /\ phase = "poll"
    /\ Advanced < this_n
    /\ polls = MaxPolls
    /\ Respond("stalled")
    /\ UNCHANGED <<n_samples, filled, chunk_start, segment, polls, first, seen>>
    /\ UNCHANGED ringVars

ChunkReady ==
    /\ phase = "poll"
    /\ Advanced >= this_n
    /\ phase' = "copy"
    /\ seen' = Received
    /\ UNCHANGED <<lock, outcome, n_samples, filled, chunk_start, segment,
                   polls, first>>
    /\ UNCHANGED ringVars

CopySample ==
    /\ phase = "copy"
    /\ segment' = Append(segment, iq_buffer[ReadIndex(Len(segment) - filled)])
    /\ phase' = IF Len(segment) + 1 = filled + this_n THEN "guard" ELSE "copy"
    /\ UNCHANGED <<lock, outcome, n_samples, filled, chunk_start, polls, first, seen>>
    /\ UNCHANGED ringVars

(* The integrity guard finds the head behind the chunk: CaptureError 500.  *)
GuardOverrun ==
    /\ phase = "guard"
    /\ Advanced < this_n
    /\ Respond("overrun")
    /\ UNCHANGED <<n_samples, filled, chunk_start, segment, polls, first, seen>>
    /\ UNCHANGED ringVars

(* Seeded fault: the integrity guard is missing.                           *)
GuardPass_unchecked ==
    /\ phase = "guard"
    /\ seen' = Received
    /\ chunk_start' = chunk_end
    /\ filled' = filled + this_n
    /\ polls' = 0
    /\ IF filled' < n_samples
       THEN /\ phase' = "poll"
            /\ UNCHANGED <<lock, outcome>>
       ELSE Respond("ok")
    /\ UNCHANGED <<n_samples, segment, first>>
    /\ UNCHANGED ringVars

(* The guard passes: on to the next chunk, or return the segment.          *)
GuardPass ==
    /\ phase = "guard"
    /\ Advanced >= this_n
    /\ seen' = Received
    /\ chunk_start' = chunk_end
    /\ filled' = filled + this_n
    /\ polls' = 0
    /\ IF filled' < n_samples
       THEN /\ phase' = "poll"
            /\ UNCHANGED <<lock, outcome>>
       ELSE Respond("ok")
    /\ UNCHANGED <<n_samples, segment, first>>
    /\ UNCHANGED ringVars

(* The RX thread receives a block; it is not slowed down by a capture, but *)
(* the capture thread is taken to look at the index once in Lag samples.   *)
RxBegin(n) ==
    /\ lock # NoClient => Received + n <= seen + Lag
    /\ WorkBegin(n, FALSE)
    /\ UNCHANGED capVars

Rx ==
    \/ \E n \in Blocks : RxBegin(n)
    \/ WorkCopy /\ UNCHANGED capVars
    \/ WorkPublish /\ UNCHANGED capVars

Capture ==
    \/ Poll \/ PollTimeout \/ ChunkReady \/ CopySample \/ GuardOverrun \/ GuardPass

Request == \E c \in Clients : (\E n \in Sizes : StartCapture(c, n)) \/ RejectCapture(c)

Next == Rx \/ Capture \/ Request

Spec == Init /\ [][Next]_vars

(* Fairness: only the thread that holds the lock must go on.  Nothing is   *)
(* asked of the RX, which may stop for good, nor of the clients.           *)
FairSpec == Spec /\ WF_vars(Capture)

-----------------------------------------------------------------------------
Outcomes == {"none", "ok", "busy", "stalled", "overrun"}

TypeOK ==
    /\ RingTypeOK
    /\ lock \in Clients \cup {NoClient}
    /\ phase \in {"idle", "poll", "copy", "guard"}
    /\ outcome \in [Clients -> Outcomes]
    /\ n_samples \in {0} \cup Sizes
    /\ filled \in 0..n_samples
    /\ chunk_start \in 0..B
    /\ segment \in Seq(Int)
    /\ polls \in 0..MaxPolls
    /\ first \in Nat
    /\ seen \in Nat
    /\ (lock = NoClient) <=> (phase = "idle")

(* Captured is forward from now and without a seam: the part of the        *)
(* segment that the integrity guard has let pass, all of it in a 200       *)
(* response, is the samples first, first+1, ...  (_capture_iq).  It rests  *)
(* on 2*Lag <= Chunk, a host that is never stopped for more than 0.5 s,    *)
(* and on a capture that does not begin at index 0, B/2 or B.              *)
CaptureContiguous == \A k \in 1..filled : segment[k] = first + k - 1

(* What the integrity guard is worth on a slower host, 2*Lag <= B: in a    *)
(* chunk it lets pass, only samples that the block being written at that   *)
(* moment overlaps can be wrong, fewer than the longest block, at the      *)
(* front of the chunk (the guard at the end of the loop of _capture_iq).   *)
(* It rests on captures of whole chunks, which integer seconds give        *)
(* (app.py 611): a shorter last chunk may be lapped whole and still pass.  *)
GuardLimitsDamage ==
    \A k \in 1..filled :
        segment[k] # first + k - 1 => \E n \in Blocks : (k - 1) % Chunk < n

(* No sample older than the request is ever returned: the docstring's      *)
(* "forward from now" (_capture_iq).                                       *)
ForwardFromNow == \A k \in 1..filled : segment[k] >= first

(* A capture always ends and gives the lock back, also when the SDR stops  *)
(* delivering samples in the middle of a chunk (_capture_iq's deadline and *)
(* the finally of api_iq_capture): no later request is rejected for ever.  *)
LockReleased == \A c \in Clients : lock = c ~> lock # c

(* The capture as its callers see it.  A segment counts as delivered once  *)
(* every chunk of it has passed the integrity guard.                       *)
R == INSTANCE Recorder WITH
        received  <- Received,
        holder    <- lock,
        from      <- first,
        want      <- n_samples,
        recording <- IF filled = n_samples THEN segment ELSE <<>>

(* Every capture is answered with exactly the samples that come in after   *)
(* the request or fails, and one at a time (_capture_iq, its two callers   *)
(* and _capture_lock), under the same two conditions as CaptureContiguous. *)
ImplementsRecorder == R!Spec
=============================================================================
