------------------------------ MODULE Analysis ------------------------------
(***************************************************************************)
(* decode_packets (stream_web/analysis.py): a recording is decoded in      *)
(* windows of the decoder's fixed size, which overlap; each packet found   *)
(* is given the start of its attempt, kept once, and its symbol edges are  *)
(* located in the recording (module Edges).                                *)
(*                                                                         *)
(* The decoder finds the packets that lie whole in its window and places   *)
(* each within Jitter of its start; it may raise.                          *)
(***************************************************************************)
EXTENDS Edges, FiniteSets, FiniteSetsExt

CONSTANTS
    Win,            \* config.DECODE_SAMPLES
    Interval,       \* config.DECODE_INTERVAL_S in samples
    Tol,            \* config.DEDUP_START_TOL_S
    Jitter,         \* error of the decoder's start_sample
    NumSym,         \* symbols of a packet (packet_symbol_grid)
    Recordings,     \* [n, packets, noise]: length, packets, samples with noise
    MaxFailures     \* bound on the windows the decoder fails on

(* A gap is a tenth of a symbol (0.8 of 8 ms), the decoder's error is less *)
(* than the search allows for and far less than the tolerance of a second. *)
ASSUME AnalysisAssumption ==
    /\ Win \in Nat \ {0} /\ Interval \in Nat /\ Tol \in Nat /\ Jitter \in Nat
    /\ NumSym \in Nat \ {0} /\ MaxFailures \in Nat
    /\ 2 * Gap <= SymLen /\ Jitter < search_margin /\ 2 * Jitter < Tol

VARIABLES
    rec,            \* the recording
    left,           \* offsets of the windows still to decode
    failed,         \* those the decoder failed on
    packets,        \* of the window decoded last: those not yet looked at
    cur,            \* the one whose edges are searched
    accepted

anVars == <<rec, left, failed, packets, cur, accepted>>

None == [abs_start |-> -1]

(* Environment: a packet of device id begins at "at"; its slots are longer *)
(* than nominal by drift, its symbols in "faded" are below the threshold.  *)
SymStart(p, j) == p.at + j * (Slot + p.drift)
SymEnd(p, j) == SymStart(p, j) + SymLen
PacketEnd(p) == SymEnd(p, NumSym - 1)
Symbols(p) == UNION {SymStart(p, j) .. SymEnd(p, j) - 1 : j \in (0..NumSym-1) \ p.faded}
On(r) == r.noise \cup UNION {Symbols(p) : p \in r.packets}

Within(p, o) == o <= p.at /\ PacketEnd(p) <= AtMost(o + Win, rec.n)

Step == AtLeast(Win - Interval, 1)

(* Seeded fault: the windows follow each other without the last one.       *)
window_offsets_noTail(n) ==
    IF n <= Win THEN {0} ELSE {o \in 0 .. n - Win : o % Step = 0}

window_offsets(n) ==
    IF n <= Win THEN {0} ELSE {o \in 0 .. n - Win : o % Step = 0} \cup {n - Win}

(* The slots of a packet are shorter than nominal by less than the gap;    *)
(* the windows overlap by more than the longest packet (_window_offsets).  *)
ASSUME RecordingsAssumption ==
    \A r \in Recordings :
        /\ r.n \in Nat \ {0} /\ r.noise \subseteq Int
        /\ \A p \in r.packets :
             /\ p.at \in Nat /\ p.drift \in Int /\ p.drift > -Gap
             /\ p.faded \subseteq 0..NumSym-1
             /\ PacketEnd(p) - p.at <= Win - Step + 1

Key(p) == <<p.id, p.seq>>
Content(p) == <<p.seq, p.content>>      \* seq_num, auth_tag and payload_val

is_duplicate(d) ==
    \E a \in accepted :
        /\ Content(a.of) = Content(d.of)
        /\ a.abs_start - d.abs_start < Tol /\ d.abs_start - a.abs_start < Tol

(* Of the attempts with the same key the last one gives the start of all.  *)
Starts(heard) ==
    {f \in [heard -> heard] :
        \A p, q \in heard : Key(f[p]) = Key(p) /\ (Key(p) = Key(q) => f[p] = f[q])}
-----------------------------------------------------------------------------
NoRecording == [n |-> 0, packets |-> {}, noise |-> {}]

AnalysisInit ==
    /\ rec = NoRecording /\ left = {} /\ failed = {}
    /\ packets = {} /\ cur = None /\ accepted = {}
    /\ seg = Segment(0, 0, 0, {}, {}) /\ k = 0 /\ prev_end = -1 /\ edges = <<>>

StartAnalysis(r) ==
    /\ rec' = r /\ left' = window_offsets(r.n)
    /\ UNCHANGED <<failed, packets, cur, accepted, edgeVars>>

NextWindow == left # {} /\ packets = {} /\ cur = None

DecodeWindow ==
    /\ NextWindow
    /\ LET o == Min(left)
           heard == {p \in rec.packets : Within(p, o)}
       IN  /\ \E start \in [heard -> -Jitter..Jitter], f \in Starts(heard) :
                packets' = {[of |-> p, abs_start |-> AtLeast(f[p].at + start[f[p]], o)] :
                               p \in heard}
           /\ left' = left \ {o}
    /\ UNCHANGED <<rec, failed, cur, accepted, edgeVars>>

WindowFails ==
    /\ NextWindow
    /\ Cardinality(failed) < MaxFailures
    /\ failed' = failed \cup {Min(left)} /\ left' = left \ {Min(left)}
    /\ UNCHANGED <<rec, packets, cur, accepted, edgeVars>>

DropDuplicate ==
    /\ cur = None
    /\ \E d \in packets : is_duplicate(d) /\ packets' = packets \ {d}
    /\ UNCHANGED <<rec, left, failed, cur, accepted, edgeVars>>

(* The samples of the packet and a slot more on either side.               *)
SliceLo(d) == AtLeast(d.abs_start - Slot, 0)
SliceHi(d) == AtMost(d.abs_start + NumSym * Slot + Slot, rec.n)

AcceptPacket ==
    /\ cur = None
    /\ \E d \in packets :
         /\ ~is_duplicate(d)
         /\ cur' = d /\ packets' = packets \ {d}
         /\ LET lo == SliceLo(d)
                hi == SliceHi(d)
                on == {i - lo : i \in On(rec) \cap lo..hi-1}
            IN  EdgesStart(Segment(hi - lo, d.abs_start - lo, NumSym,
                                   Rising(on, hi - lo), Falling(on, hi - lo)))
    /\ UNCHANGED <<rec, left, failed, accepted>>

FindEdge == cur # None /\ EdgesNext /\ UNCHANGED anVars

(* ... back to absolute indices.                                           *)
KeepPacket ==
    /\ cur # None /\ EdgesDone
    /\ accepted' = accepted \cup
         {[of |-> cur.of, abs_start |-> cur.abs_start,
           edges |-> [i \in 1..Len(edges) |->
                        <<edges[i][1] + SliceLo(cur), edges[i][2] + SliceLo(cur)>>]]}
    /\ cur' = None
    /\ UNCHANGED <<rec, left, failed, packets, edgeVars>>

AnalysisNext ==
    \/ DecodeWindow \/ WindowFails \/ DropDuplicate
    \/ AcceptPacket \/ FindEdge \/ KeepPacket

AnalysisDone == left = {} /\ packets = {} /\ cur = None
-----------------------------------------------------------------------------
AnalysisTypeOK ==
    /\ left \cup failed \subseteq window_offsets(rec.n)
    /\ {d.of : d \in packets \cup accepted} \subseteq rec.packets
    /\ \A d \in packets \cup accepted : d.abs_start \in 0..rec.n-1
    /\ k \in 0..seg.count /\ Len(edges) <= k

(* Two packets of one device with the same number in one window: the start *)
(* of either may be given to both.                                         *)
Mistakable(p, q) ==
    Key(p) = Key(q) /\ \E o \in window_offsets(rec.n) : Within(p, o) /\ Within(q, o)

(* ... and two that the duplicate test cannot tell apart, because q, or a  *)
(* packet that q is mistaken for, begins near p.                           *)
Confusable(p, q) ==
    \/ Mistakable(p, q)
    \/ /\ Content(p) = Content(q)
       /\ \E x \in rec.packets :
            /\ x = q \/ Mistakable(q, x)
            /\ p.at - x.at \in -Tol-2*Jitter+1 .. Tol+2*Jitter-1

(* Each packet that lies whole in the recording is reported once and at    *)
(* its own place, wherever it lies among the windows ("every packet lands  *)
(* fully inside at least one window", _window_offsets); a window that      *)
(* fails loses no more than the packets only it holds (decode_packets).    *)
PacketsOnce ==
    AnalysisDone =>
        \A p \in rec.packets :
            (/\ PacketEnd(p) <= rec.n
             /\ \A q \in rec.packets \ {p} : ~Confusable(p, q)
             /\ failed # {} => \E o \in window_offsets(rec.n) \ failed : Within(p, o))
            => \E a \in accepted :
                 /\ {b \in accepted : b.of = p} = {a}
                 /\ a.abs_start \in p.at-Jitter .. p.at+Jitter

(* Nothing else crosses the threshold around the packet, and it does not   *)
(* touch the ends of the recording.                                        *)
Quiet(p) ==
    LET others == rec.noise \cup UNION {Symbols(q) : q \in rec.packets \ {p}}
    IN  /\ 0 < p.at /\ p.at + NumSym * Slot + Jitter <= rec.n
        /\ others \cap (p.at - Slot - Jitter .. p.at + (NumSym + 1) * Slot + Jitter) = {}

(* The drift that adds up over the missing symbols i .. j-1 leaves the     *)
(* next one within the search, which begins behind the last one's supposed *)
(* end; the packet ends in the slice.                                      *)
Followable(p) ==
    /\ p.drift < 0 => p.faded = {}
    /\ PacketEnd(p) + Jitter <= p.at + (NumSym + 1) * Slot
    /\ \A j \in (0..NumSym-1) \ p.faded : \A i \in 0..j :
         i..j-1 \subseteq p.faded =>
            IF i = 0 THEN /\ j * p.drift + Jitter - 1 <= search_margin
                          /\ j > 0 => Jitter + 2 - j * p.drift <= Gap
                     ELSE (j - i + 1) * p.drift <= search_margin

(* Every symbol of a packet that nothing else disturbs is found at the     *)
(* place it has in the recording, although the packet drifts away from the *)
(* nominal grid by more than the search reaches, and symbols of it are     *)
(* missing; and noise never makes two symbols overlap                      *)
(* (correct_symbol_edges' chaining; decode_packets' slice).                *)
EdgesFollowSymbols ==
    /\ Apart(edges, seg.n)
    /\ \A a \in accepted :
         (/\ Quiet(a.of) /\ Followable(a.of)
          /\ \A q \in rec.packets \ {a.of} : ~Mistakable(a.of, q)) =>
           /\ Len(a.edges) = NumSym
           /\ \A j \in (0..NumSym-1) \ a.of.faded :
                a.edges[j+1] = <<SymStart(a.of, j) - 1, SymEnd(a.of, j) - 1>>
=============================================================================
