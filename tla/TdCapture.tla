------------------------------ MODULE TdCapture ------------------------------
(***************************************************************************)
(* Time-domain capture of the Signal Viewer (stream_web/td_capture.py and  *)
(* its caller in processor.py): which failed burst of a chipset, or which  *)
(* packet of a device, is cut out of the decode window and drawn.  A hit   *)
(* too close to the end of the window waits for the next cycle, a failure  *)
(* that the end of the window may have caused waits to be confirmed.  Both *)
(* are remembered by their index in the ring, modulo B, and found again in *)
(* a window that has moved on by then.                                     *)
(*                                                                         *)
(* Positions are numbers in the sample stream; an index in the ring is a   *)
(* position modulo B.  Time is counted in samples too, and the clock a     *)
(* cycle reads runs ahead of its window by at most Jitter.                 *)
(***************************************************************************)
EXTENDS Integers, FiniteSets

CONSTANTS
    B, D,           \* config.IQ_BUFFER_SIZE, config.DECODE_SAMPLES
    W, Pre,         \* length of the segment, its part before the burst
    Tol,            \* TD_TRUNCATION_MATCH_S
    Timeout,        \* TD_PENDING_TIMEOUT_S
    ConfirmFor,     \* TD_TRUNCATION_CONFIRM_S
    Span,           \* length of a burst
    Jitter,         \* the clock of a cycle minus the end of its window
    Gaps,           \* how far the stream moves on from cycle to cycle
    Regular,        \* the longest of them in undisturbed operation
    Sources,        \* devices; each is of a chipset of its own
    Bursts,         \* what may be on the air, one set of bursts per behaviour
    Drops,          \* positions where samples may be missing
    MaxHead         \* bound on the stream

Burst == [at : Nat, of : Sources, good : BOOLEAN, echo : BOOLEAN]

ASSUME TdAssumption ==
    /\ B \in Nat /\ D \in 1..B-1 /\ W \in 1..D /\ Pre \in 0..W
    /\ {Tol, Span} \subseteq Nat \ {0}
    /\ {Timeout, ConfirmFor, Jitter, Regular, MaxHead} \subseteq Nat
    /\ Gaps \subseteq Nat \ {0}
    /\ Bursts \subseteq SUBSET Burst /\ Drops \subseteq Nat

(* config.py:156-161: _TD_MAX_AGE_S leaves room for scheduling jitter.     *)
MaxAge == Timeout + Jitter <= B

(* config.py:133-138, 154-171: the next cycle begins before a hit that had *)
(* no room for its segment leaves the window, or gets too old.             *)
HitsInReach ==
    /\ Regular + W <= D + Pre + 1
    /\ Regular + W + Jitter <= Timeout + Pre + 1

(* config.py:133-138: a cycle is longer than a packet, and two cycles are  *)
(* within the window; and a device sends one packet at a time.             *)
CutsInReach ==
    /\ \A g \in Gaps : Span <= g
    /\ Regular + Span <= D + 1
    /\ \A s \in Bursts : \A x, y \in s :
         x.of = y.of /\ x.at < y.at => x.at + Span + Tol <= y.at
    /\ \A s \in Bursts : \A x, y \in s : x.of = y.of /\ x.at = y.at => x = y

Dist(x, y) == IF x < y THEN y - x ELSE x - y

None == [at |-> -1]
NoTarget == [kind |-> "none"]
Chipset(s) == [kind |-> "chipset", of |-> s]
Device(s) == [kind |-> "ntw_id", of |-> s]
Targets == {NoTarget} \cup {Chipset(s) : s \in Sources} \cup {Device(s) : s \in Sources}

VARIABLES
    air,            \* the bursts of this behaviour
    dropped,        \* positions of missing samples
    head,           \* end of the window of the last cycle
    now,            \* t0 of that cycle
    running,        \* td_on in that cycle
    target, pending_hit, pending_confirm,       \* TdCaptureState
    capture         \* td_result.capture of that cycle

vars == <<air, dropped, head, now, running, target, pending_hit, pending_confirm,
          capture>>
-----------------------------------------------------------------------------
(* What decode_signal reports of a window.  A burst that lies whole in it  *)
(* is decoded or fails for a reason of its own; one that its end cuts off  *)
(* is not reported or "pdu_incomplete"/"unknown".  Some bursts also cause  *)
(* a second, failed detection inside them: a phantom, and a lone one when   *)
(* the burst itself is not reported, its start having left the window.     *)
Attempt(b, at, phantom, end) ==
    [at |-> at, of |-> b.of, phantom |-> phantom, bad |-> ~b.good,
     lone |-> b.at < end - D,
     decoded |-> b.good /\ ~phantom /\ b.at + Span <= end,
     cut |-> b.at + Span > end, drop |-> FALSE]

Certain(end) ==
    {Attempt(b, b.at, FALSE, end) :
        b \in {x \in air : end - D <= x.at /\ x.at + Span <= end}}

Optional(end) ==
    {Attempt(b, b.at, FALSE, end) :
        b \in {x \in air : end - D <= x.at /\ x.at < end /\ end < x.at + Span}}
      \cup {Attempt(b, b.at + 1, TRUE, end) :
              b \in {x \in air : /\ x.echo
                                /\ end - D <= x.at + 1 /\ x.at + 1 < end}}

(* "Annotate sample-drop failures": the drops drained in this cycle.       *)
Annotate(a, end) ==
    IF ~a.decoded /\ \E p \in dropped : head <= p /\ p < end /\ a.at = p
    THEN [a EXCEPT !.drop = TRUE] ELSE a

(* reason in _TRUNCATION_REASONS; "pdu_incomplete+sample_drop" is not.     *)
Truncation(a) == a.cut /\ ~a.drop

(* What select_td_capture is given in the cycle that takes the stream g on. *)
Cycle(g, j, on, t, opt) ==
    [end |-> head + g, now |-> head + g + j, on |-> on, target |-> t,
     attempts |-> {Annotate(a, head + g) : a \in Certain(head + g) \cup opt}]

(* (hit["_abs_start"] - decode_start) % buf_len                            *)
Rel(h, o) == (h.abs - (o.end - D)) % B

InCycle(at, o) == at - (o.end - D)      \* _start_sample


(* Seeded fault: the capture goes on with what is pending for the old one. *)
Hit_kept(o) == pending_hit

(* The pending state after the reset for a changed target or a stop.       *)
Hit(o) == IF o.on /\ o.target = target THEN pending_hit ELSE None
ToConfirm(o) == IF o.on /\ o.target = target THEN pending_confirm ELSE None

(* Seeded fault: the failure is looked for where it was at first.          *)
Again_notMoved(o) ==
    {a \in o.attempts : /\ a.of = o.target.of
                        /\ Dist(InCycle(a.at, o), ToConfirm(o).rel) < Tol}

(* The attempts at the place of the failure that is held.                  *)
Again(o) ==
    {a \in o.attempts : /\ a.of = o.target.of
                        /\ Dist(InCycle(a.at, o), Rel(ToConfirm(o), o)) < Tol}

(* It is no failure after all, or has left the window.                     *)
Resolved(o) ==
    (\E a \in Again(o) : a.decoded) \/ Rel(ToConfirm(o), o) >= D

(* ... that failed, any of which the code may meet first.                  *)
FailedAgain(o) ==
    IF ToConfirm(o) = None THEN {}
    ELSE IF Resolved(o) THEN {} ELSE {a \in Again(o) : ~a.decoded}

Confirms(o, a) == a \in FailedAgain(o) /\ ~Truncation(a)

Unconfirmed(o) ==
    (\E a \in FailedAgain(o) : ~Confirms(o, a)) \/ FailedAgain(o) = {}

(* What is still to be confirmed when no attempt confirmed it.             *)
StillHeld(o) ==
    IF ToConfirm(o) = None \/ Resolved(o) \/ o.now - ToConfirm(o).seen > ConfirmFor
    THEN None ELSE ToConfirm(o)

(* Seeded fault: a pending hit does not age.                               *)
RetryHit_ageless(o) ==
    IF Hit(o) = None \/ Rel(Hit(o), o) >= D
    THEN None ELSE [Hit(o) EXCEPT !.rel = Rel(Hit(o), o)]

(* Seeded fault: an index that has wrapped counts as aged out.             *)
RetryHit_noWrap(o) ==
    IF Hit(o) = None \/ Hit(o).abs < (o.end - D) % B \/ o.now - Hit(o).seen > Timeout
    THEN None ELSE [Hit(o) EXCEPT !.rel = Rel(Hit(o), o)]

(* _retry_pending                                                          *)
RetryHit(o) ==
    IF Hit(o) = None \/ Rel(Hit(o), o) >= D \/ o.now - Hit(o).seen > Timeout
    THEN None ELSE [Hit(o) EXCEPT !.rel = Rel(Hit(o), o)]

(* A hit made of attempt a; at, pos, phantom, lone, bad and confirmed are   *)
(* ghosts.                                                                 *)
Candidate(o, a, rel, abs, confirmed) ==
    [at |-> a.at, of |-> a.of, phantom |-> a.phantom, lone |-> a.lone, bad |-> a.bad,
     decoded |-> a.decoded, cut |-> a.cut, drop |-> a.drop, confirmed |-> confirmed,
     abs |-> abs, rel |-> rel, pos |-> o.end - D + rel, seen |-> o.now]

(* Seeded fault: the index is not wrapped.                                 *)
FreshHit_unwrapped(o, a) == Candidate(o, a, InCycle(a.at, o), a.at, FALSE)

FreshHit(o, a) == Candidate(o, a, InCycle(a.at, o), a.at % B, FALSE)

(* The attempt lies inside a packet decoded in this cycle.                 *)
Phantom(o, a) ==
    \E p \in o.attempts : p.decoded /\ p.at <= a.at /\ a.at <= p.at + Span

(* Seeded fault: detections inside a decoded packet are matches as well.    *)
Matches_phantoms(o) ==
    {a \in o.attempts : a.of = o.target.of /\ (a.decoded <=> o.target.kind = "ntw_id")}

Matches(o) ==
    IF o.target.kind = "chipset"
    THEN {a \in o.attempts : a.of = o.target.of /\ ~a.decoded /\ ~Phantom(o, a)}
    ELSE {a \in o.attempts : a.of = o.target.of /\ a.decoded}

(* _render_window                                                          *)
SegmentStart(h) == IF h.rel >= Pre THEN h.rel - Pre ELSE 0
-----------------------------------------------------------------------------
Init ==
    /\ air \in Bursts
    /\ dropped \in SUBSET Drops
    /\ head = D /\ now = D
    /\ running = FALSE /\ target = NoTarget
    /\ pending_hit = None /\ pending_confirm = None
    /\ capture = None

(* A hit whose segment fits into the window is cut out of it, otherwise it *)
(* stays pending; "from" is the stream position of the segment.            *)
Serve(o, h) ==
    IF SegmentStart(h) + W > D
    THEN pending_hit' = h /\ capture' = None
    ELSE /\ pending_hit' = None
         /\ capture' = [at |-> h.at, hit |-> h, from |-> o.end - D + SegmentStart(h)]

Off(o) ==
    /\ ~o.on
    /\ pending_hit' = None /\ pending_confirm' = None /\ capture' = None

(* The failure that was held has failed for a reason of its own.           *)
Confirmed(o) ==
    /\ o.on /\ o.target.kind = "chipset"
    /\ \E a \in o.attempts :
         /\ Confirms(o, a)
         /\ Serve(o, Candidate(o, a, Rel(ToConfirm(o), o), ToConfirm(o).abs, TRUE))
    /\ pending_confirm' = None

NothingConfirmed(o) ==
    IF o.target.kind = "chipset"
    THEN Unconfirmed(o) /\ pending_confirm' = StillHeld(o)
    ELSE pending_confirm' = ToConfirm(o)

Retry(o) ==
    /\ o.on /\ o.target # NoTarget
    /\ NothingConfirmed(o)
    /\ RetryHit(o) # None
    /\ Serve(o, RetryHit(o))

(* A new match: rendered, kept for a later cycle, or held to be confirmed. *)
Fresh(o) ==
    /\ o.on /\ o.target # NoTarget
    /\ RetryHit(o) = None
    /\ o.target.kind = "chipset" => StillHeld(o) = None
    /\ \E a \in Matches(o) :
         IF o.target.kind = "chipset" /\ Truncation(a)
         THEN /\ Unconfirmed(o)
              /\ pending_confirm' = FreshHit(o, a)
              /\ pending_hit' = None /\ capture' = None
         ELSE NothingConfirmed(o) /\ Serve(o, FreshHit(o, a))

(* Nothing to show: no target, no match, or a failure that is still held.  *)
Wait(o) ==
    /\ o.on
    /\ IF o.target = NoTarget THEN pending_confirm' = ToConfirm(o)
       ELSE /\ NothingConfirmed(o)
            /\ RetryHit(o) = None
            /\ Matches(o) = {} \/ (o.target.kind = "chipset" /\ StillHeld(o) # None)
    /\ pending_hit' = IF o.target = NoTarget THEN Hit(o) ELSE None
    /\ capture' = None

(* One turn of processor_main's loop.                                      *)
Step(o) ==
    /\ head' = o.end /\ now' = o.now
    /\ running' = o.on /\ target' = o.target
    /\ Off(o) \/ Confirmed(o) \/ Retry(o) \/ Fresh(o) \/ Wait(o)
    /\ UNCHANGED <<air, dropped>>

Next ==
    \E g \in {x \in Gaps : head + x <= MaxHead}, j \in 0..Jitter,
       on \in BOOLEAN, t \in Targets :
         (* A stop leaves the target as it is. *)
         /\ on \/ t = target
         /\ \E opt \in SUBSET Optional(head + g) : Step(Cycle(g, j, on, t, opt))

Spec == Init /\ [][Next]_vars

-----------------------------------------------------------------------------
HitType ==
    [at : Nat, of : Sources, phantom : BOOLEAN, lone : BOOLEAN, bad : BOOLEAN, decoded : BOOLEAN,
     cut : BOOLEAN, drop : BOOLEAN, confirmed : BOOLEAN, abs : 0..B-1, rel : Nat, pos : Int, seen : Nat]

TypeOK ==
    /\ air \in Bursts /\ dropped \in SUBSET Drops
    /\ head \in Nat /\ now \in Nat /\ running \in BOOLEAN
    /\ target \in Targets
    /\ pending_hit \in {None} \cup HitType
    /\ pending_confirm \in {None} \cup HitType
    /\ capture # None => /\ capture.hit \in HitType
                         /\ capture.at = capture.hit.at /\ capture.from \in Int

(* The segment that is drawn holds the burst it is drawn for, at the place *)
(* the plot marks, never samples of another lap of the ring: the index of  *)
(* a hit that waited is projected modulo B into a window that has moved on,*)
(* and only its age and the room it needs keep it apart from a later lap   *)
(* (_retry_pending, _render_window; config.py:156-161).                    *)
RendersOwnBurst ==
    capture # None =>
        /\ Dist(head - D + capture.hit.rel, capture.at) < Tol
        /\ capture.from <= head - D + capture.hit.rel
        /\ head - D <= capture.from /\ capture.from + W <= head

(* What is drawn is of the target set now, nothing of the search before a  *)
(* change or a stop (select_td_capture's reset); and a packet that the     *)
(* device sent intact is not drawn as a failure.  Three ways past the      *)
(* checks are left: a phantom that the end of the window cut off is        *)
(* confirmed without a look at the packet it lies in; a phantom is not     *)
(* suppressed when the start of its packet has left the window, since then *)
(* nothing was decoded that it could lie in; and a cut-off burst with      *)
(* missing samples is not recognised as cut off.                           *)
OfTarget(h) == target # NoTarget /\ h.of = target.of /\ (h.decoded <=> target.kind = "ntw_id")
FailureIsReal ==
    capture # None =>
        /\ OfTarget(capture.hit)
        /\ \/ capture.hit.decoded \/ capture.hit.bad
           \/ capture.hit.phantom /\ (capture.hit.confirmed \/ capture.hit.lone)
           \/ capture.hit.cut /\ capture.hit.drop

(* Backlog: as long as the cycles keep their pace and the search goes on, a *)
(* hit that had to wait is drawn or goes on waiting (_retry_pending).      *)
Undisturbed(h) ==
    /\ head - D <= h.pos /\ head' - head <= Regular
    /\ target' = target /\ running'
Serves(h) == capture' # None /\ capture'.hit.pos = h.pos
HitNotLost ==
    [][(pending_hit # None /\ Undisturbed(pending_hit)) =>
           \/ Serves(pending_hit)
           \/ pending_hit' # None /\ pending_hit'.pos = pending_hit.pos]_vars

(* A burst that the end of the window cut off and that is really bad comes *)
(* out as a failure in the next cycle: by then it lies whole in the window, *)
(* because a cycle is longer than a packet (config.py:135-137).            *)
BadIsConfirmed ==
    [][(/\ pending_confirm # None /\ pending_confirm.bad /\ ~pending_confirm.phantom
        /\ Undisturbed(pending_confirm)) =>
           \/ Serves(pending_confirm)
           \/ pending_hit' # None /\ pending_hit'.pos = pending_confirm.pos]_vars
=============================================================================
