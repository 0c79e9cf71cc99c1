--------------------------- MODULE TdCaptureProofs ---------------------------
(***************************************************************************)
(* The time-domain capture draws the burst it is looking for, for every     *)
(* size of ring, window and segment, every pace of the cycles and whatever  *)
(* is on the air: under MaxAge never samples of another lap of the ring,    *)
(* under HitsInReach every hit that had to wait, under CutsInReach every    *)
(* bad burst that the end of a window cut off.                              *)
(***************************************************************************)
EXTENDS TdCapture, TLAPS

(* An attempt of the decoder that is due to burst b, seen in a window that   *)
(* ends at `end`.                                                          *)
AttemptType ==
    [at : Nat, of : Sources, phantom : BOOLEAN, lone : BOOLEAN, bad : BOOLEAN,
     decoded : BOOLEAN, cut : BOOLEAN, drop : BOOLEAN]

Reports(a, b, end) ==
    /\ a.of = b.of /\ (a.bad <=> ~b.good)
    /\ a.at = IF a.phantom THEN b.at + 1 ELSE b.at
    /\ end - D <= a.at /\ a.at <= end
    /\ a.lone <=> b.at < end - D
    /\ a.cut <=> end < b.at + Span
    /\ a.decoded <=> b.good /\ ~a.phantom /\ ~a.cut

(* What every turn of the loop is given.                                    *)
CycleOK(o) ==
    /\ o.end \in Nat /\ o.end - head \in Gaps
    /\ o.now \in Nat /\ o.end <= o.now /\ o.now <= o.end + Jitter
    /\ o.on \in BOOLEAN /\ o.target \in Targets
    /\ o.attempts \subseteq AttemptType
    /\ \A a \in o.attempts : \E b \in air : Reports(a, b, o.end)
    /\ \A b \in air : o.end - D <= b.at /\ b.at + Span <= o.end =>
           \E a \in o.attempts : Reports(a, b, o.end) /\ ~a.phantom

(* A hit projected into the window that ends at `end`: its index is that of  *)
(* its position, which is where its burst is.                               *)
Placed(h, end) ==
    /\ Dist(h.pos, h.at) < Tol
    /\ h.abs = h.pos % B /\ h.rel = (h.pos - (end - D)) % B
    /\ h.pos <= end /\ h.pos <= h.seen

(* It has no room for its segment; and had none in the cycle that found it.  *)
Waits(h) == D < SegmentStart(h) + W
Late(h) == h.seen + Pre < h.pos + Jitter + W

PlaceInv ==
    pending_hit # None => /\ Placed(pending_hit, head)
                          /\ Waits(pending_hit) /\ Late(pending_hit)

IsReal(h) ==
    h.decoded \/ h.bad \/ (h.phantom /\ (h.confirmed \/ h.lone)) \/ (h.cut /\ h.drop)

(* There is one search at a time, and it is for the target set now.          *)
CauseInv ==
    /\ pending_hit # None =>
         pending_confirm = None /\ OfTarget(pending_hit) /\ IsReal(pending_hit)
    /\ pending_confirm # None =>
         target.kind = "chipset" /\ pending_confirm.of = target.of
    /\ capture # None => OfTarget(capture.hit) /\ IsReal(capture.hit)

HeldInv ==
    pending_confirm # None =>
        /\ pending_confirm.pos = pending_confirm.at
        /\ pending_confirm.abs = pending_confirm.pos % B
        /\ pending_confirm.pos <= head

TdInv == TypeOK /\ PlaceInv /\ CauseInv /\ HeldInv

(* A bad burst that is held and still in view is cut off by the end of this  *)
(* very window: one that lies whole in it has been confirmed.               *)
CutInv ==
    (/\ pending_confirm # None /\ pending_confirm.bad /\ ~pending_confirm.phantom
     /\ head - D <= pending_confirm.pos) =>
        \E b \in air : /\ b.at = pending_confirm.at /\ b.of = pending_confirm.of
                       /\ ~b.good /\ head < b.at + Span
-----------------------------------------------------------------------------
LEMMA TdNumbers ==
    /\ {B, D, W, Tol, Span} \subseteq Nat \ {0} /\ D < B /\ W <= D
    /\ {Pre, Timeout, ConfirmFor, Jitter, Regular, MaxHead} \subseteq Nat /\ Pre <= W
    /\ Gaps \subseteq Nat \ {0}
  BY TdAssumption

LEMMA DistInt ==
    ASSUME NEW x \in Int, NEW y \in Int
    PROVE  Dist(x, y) \in Nat /\ (Dist(x, y) < Tol <=> x - y < Tol /\ y - x < Tol)
  BY TdNumbers DEF Dist

(* What an index in the ring tells of a position: which one it is, if it is  *)
(* known to be within a lap of q.                                           *)
LEMMA ModLap ==
    ASSUME NEW x \in Int, NEW q \in Int
    PROVE  /\ ((x % B) - q) % B = (x - q) % B
           /\ (x - q) % B \in 0..B-1
           /\ 0 <= x - q /\ x - q < B => (x - q) % B = x - q
           /\ -B <= x - q /\ x - q < 0 => (x - q) % B = x - q + B
<1>0. B \in Nat \ {0}
  BY TdNumbers
<1>1. \A i \in Int : i % B \in 0..B-1
  BY <1>0
<1>2. \A i \in Int : i >= 0 /\ i < B => i % B = i
  BY <1>0
<1>3. \A i \in Int : i >= -B /\ i < 0 => i % B = i + B
  BY <1>0
<1>4. ASSUME NEW b \in Nat \ {0}, NEW y \in Int, NEW k \in Int
      PROVE  (y - b * k) % b = y % b
  <2> DEFINE n == y \div b
             m == (y - b * k) \div b
             r == y % b
             s == (y - b * k) % b
  <2>1. n \in Int /\ m \in Int /\ r \in 0..b-1 /\ s \in 0..b-1
    OBVIOUS
  <2>2. y = b * n + r /\ y - b * k = b * m + s
    OBVIOUS
  <2> HIDE DEF n, m, r, s
  <2>3. b * (n - k - m) = s - r
    BY <2>1, <2>2
  <2>4. n - k - m = 0
    <3>1. \A i \in Int : i >= 1 => b * i >= b
      OBVIOUS
    <3>2. \A i \in Int : i <= -1 => b * i <= -b
      OBVIOUS
    <3>3. -b < s - r /\ s - r < b
      BY <2>1
    <3> QED  BY <3>1, <3>2, <3>3, <2>1, <2>3
  <2>5. s = r
    BY <2>1, <2>3, <2>4
  <2> QED  BY <2>5 DEF r, s
<1>5. x \div B \in Int /\ x % B = x - B * (x \div B)
  BY <1>0
<1>6. ((x % B) - q) % B = (x - q) % B
  <2>1. (x % B) - q = x - q - B * (x \div B)
    BY <1>0, <1>5
  <2>2. x - q \in Int
    OBVIOUS
  <2> QED  BY <1>0, <1>4, <1>5, <2>1, <2>2
<1>7. (x - q) % B \in 0..B-1
  BY <1>1
<1>8. 0 <= x - q /\ x - q < B => (x - q) % B = x - q
  BY <1>2
<1>9. -B <= x - q /\ x - q < 0 => (x - q) % B = x - q + B
  BY <1>3
<1> QED  BY <1>6, <1>7, <1>8, <1>9

-----------------------------------------------------------------------------
(* The decoder's report of a burst, at a place in the window.               *)
LEMMA AttemptReports ==
    ASSUME NEW b \in Burst, NEW end \in Nat, NEW ph \in BOOLEAN,
           end - D <= (IF ph THEN b.at + 1 ELSE b.at), (IF ph THEN b.at + 1 ELSE b.at) <= end
    PROVE  LET a == Attempt(b, IF ph THEN b.at + 1 ELSE b.at, ph, end)
           IN  a \in AttemptType /\ Reports(a, b, end) /\ a.phantom = ph
<1> DEFINE at == IF ph THEN b.at + 1 ELSE b.at
           dec == b.good /\ ~ph /\ b.at + Span <= end
           ct == b.at + Span > end
           ln == b.at < end - D
           a == Attempt(b, at, ph, end)
<1>1. b.at \in Nat /\ b.of \in Sources /\ b.good \in BOOLEAN
  BY DEF Burst
<1>2. /\ at \in Nat /\ dec \in BOOLEAN /\ ct \in BOOLEAN /\ ln \in BOOLEAN
      /\ (~b.good) \in BOOLEAN
  BY <1>1
<1>3. a = [at |-> at, of |-> b.of, phantom |-> ph, bad |-> ~b.good, lone |-> ln,
           decoded |-> dec, cut |-> ct, drop |-> FALSE]
  BY DEF Attempt
<1> HIDE DEF a
<1>4. /\ a.at = at /\ a.of = b.of /\ a.phantom = ph /\ a.bad = ~b.good
      /\ a.lone = ln /\ a.decoded = dec /\ a.cut = ct
  BY <1>3
<1>5. a \in AttemptType
  <2> HIDE DEF at, dec, ct, ln
  <2> QED  BY <1>1, <1>2, <1>3 DEF AttemptType
<1>6. Reports(a, b, end)
  <2>1. a.at \in Nat /\ Span \in Nat
    BY <1>2, <1>4, TdNumbers
  <2>2. ct <=> end < b.at + Span
    BY <1>1, <2>1
  <2>3. dec <=> b.good /\ ~ph /\ ~ct
    BY <1>1, <2>1
  <2>4. end - D <= at /\ at <= end
    OBVIOUS
  <2>5. ln <=> b.at < end - D
    OBVIOUS
  <2> HIDE DEF ct, dec, ln
  <2> QED  BY <1>4, <2>2, <2>3, <2>4, <2>5 DEF Reports
<1> QED  BY <1>4, <1>5, <1>6 DEF a

(* Annotating it leaves all but the reason as it is.                        *)
LEMMA AnnotateKeeps ==
    ASSUME NEW a \in AttemptType, NEW end
    PROVE  LET c == Annotate(a, end)
           IN  /\ c \in AttemptType /\ c.at = a.at /\ c.of = a.of
               /\ c.phantom = a.phantom /\ c.lone = a.lone /\ c.bad = a.bad /\ c.decoded = a.decoded
               /\ c.cut = a.cut
  BY DEF Annotate, AttemptType

LEMMA CycleFacts ==
    ASSUME TypeOK, NEW g \in Gaps, NEW j \in 0..Jitter, NEW on \in BOOLEAN,
           NEW t \in Targets, NEW opt \in SUBSET Optional(head + g)
    PROVE  CycleOK(Cycle(g, j, on, t, opt))
<1> DEFINE end == head + g
           all == Certain(end) \cup opt
           o == Cycle(g, j, on, t, opt)
<1>1. end \in Nat /\ end - head = g /\ end + j \in Nat /\ end + j <= end + Jitter /\ end <= end + j
  BY TdNumbers DEF TypeOK
<1>2. air \subseteq Burst
  BY TdAssumption DEF TypeOK
<1>3. o = [end |-> end, now |-> end + j, on |-> on, target |-> t,
           attempts |-> {Annotate(a, end) : a \in all}]
  BY DEF Cycle
<1> HIDE DEF o
<1>4. /\ o.end = end /\ o.now = end + j /\ o.on = on /\ o.target = t
      /\ o.attempts = {Annotate(a, end) : a \in all}
  BY <1>3
<1>5. ASSUME NEW a \in all
      PROVE  a \in AttemptType /\ \E b \in air : Reports(a, b, end)
  <2>1. CASE a \in Certain(end)
    <3>1. PICK b \in air : a = Attempt(b, b.at, FALSE, end) /\ end - D <= b.at /\ b.at + Span <= end
      BY <2>1 DEF Certain
    <3>2. b.at <= end
      BY <1>1, <1>2, <3>1, TdNumbers DEF Burst
    <3> QED  BY <1>1, <1>2, <3>1, <3>2, AttemptReports
  <2>2. CASE \E b \in air : a = Attempt(b, b.at, FALSE, end) /\ end - D <= b.at /\ b.at < end
    <3>1. PICK b \in air : a = Attempt(b, b.at, FALSE, end) /\ end - D <= b.at /\ b.at < end
      BY <2>2
    <3>2. b.at <= end
      BY <1>1, <1>2, <3>1 DEF Burst
    <3> QED  BY <1>1, <1>2, <3>1, <3>2, AttemptReports
  <2>3. CASE \E b \in air : a = Attempt(b, b.at + 1, TRUE, end) /\ end - D <= b.at + 1 /\ b.at + 1 < end
    <3>1. PICK b \in air : a = Attempt(b, b.at + 1, TRUE, end) /\ end - D <= b.at + 1 /\ b.at + 1 < end
      BY <2>3
    <3>2. b.at + 1 <= end
      BY <1>1, <1>2, <3>1 DEF Burst
    <3> QED  BY <1>1, <1>2, <3>1, <3>2, AttemptReports
  <2>4. a \in Certain(end) \/ a \in Optional(end)
    OBVIOUS
  <2> QED  BY <2>1, <2>2, <2>3, <2>4 DEF Optional
<1>6. ASSUME NEW c \in o.attempts
      PROVE  c \in AttemptType /\ \E b \in air : Reports(c, b, end)
  <2>1. PICK a \in all : c = Annotate(a, end)
    BY <1>4
  <2>2. PICK b \in air : Reports(a, b, end)
    BY <1>5
  <2>3. Reports(c, b, end)
    BY <1>5, <2>1, <2>2, AnnotateKeeps DEF Reports
  <2> QED  BY <1>5, <2>1, <2>3, AnnotateKeeps
<1>7. ASSUME NEW b \in air, end - D <= b.at, b.at + Span <= end
      PROVE  \E c \in o.attempts : Reports(c, b, end) /\ ~c.phantom
  <2> DEFINE a == Attempt(b, b.at, FALSE, end)
  <2>1. b.at <= end
    BY <1>1, <1>2, <1>7, TdNumbers DEF Burst
  <2>2. a \in AttemptType /\ Reports(a, b, end) /\ ~a.phantom
    BY <1>1, <1>2, <1>7, <2>1, AttemptReports
  <2>3. a \in all
    BY <1>7 DEF Certain
  <2> HIDE DEF a
  <2>4. Annotate(a, end) \in o.attempts
    BY <1>4, <2>3
  <2>5. Reports(Annotate(a, end), b, end) /\ ~Annotate(a, end).phantom
    BY <2>2, AnnotateKeeps DEF Reports
  <2> QED  BY <2>4, <2>5
<1> QED
  <2>1. o.attempts \subseteq AttemptType
    BY <1>6
  <2> HIDE DEF end, all
  <2>2. CycleOK(o)
    BY <1>1, <1>4, <1>6, <1>7, <2>1 DEF CycleOK
  <2> QED  BY <2>2 DEF o
-----------------------------------------------------------------------------
(* Hits: a record of one is never the absence of one.                       *)
LEMMA HitIsSome == \A h \in HitType : h # None
<1> SUFFICES ASSUME NEW h \in HitType  PROVE h # None
  OBVIOUS
<1>1. h.at \in Nat /\ None.at = -1
  BY DEF HitType, None
<1> QED  BY <1>1

LEMMA CandidateIs ==
    ASSUME NEW o, CycleOK(o), NEW a \in AttemptType, NEW rel \in Nat, NEW abs \in 0..B-1,
           NEW confirmed \in BOOLEAN
    PROVE  LET h == Candidate(o, a, rel, abs, confirmed)
           IN  /\ h \in HitType
               /\ h.at = a.at /\ h.of = a.of /\ h.phantom = a.phantom /\ h.lone = a.lone /\ h.bad = a.bad
               /\ h.decoded = a.decoded /\ h.cut = a.cut /\ h.drop = a.drop
               /\ h.confirmed = confirmed /\ h.abs = abs /\ h.rel = rel
               /\ h.pos = o.end - D + rel /\ h.seen = o.now
<1> DEFINE pos == o.end - D + rel
           h == Candidate(o, a, rel, abs, confirmed)
<1>1. pos \in Int /\ o.now \in Nat
  BY TdNumbers DEF CycleOK
<1>2. /\ a.at \in Nat /\ a.of \in Sources /\ a.phantom \in BOOLEAN /\ a.lone \in BOOLEAN
      /\ a.bad \in BOOLEAN
      /\ a.decoded \in BOOLEAN /\ a.cut \in BOOLEAN /\ a.drop \in BOOLEAN
  BY DEF AttemptType
<1>3. h = [at |-> a.at, of |-> a.of, phantom |-> a.phantom, lone |-> a.lone, bad |-> a.bad,
           decoded |-> a.decoded, cut |-> a.cut, drop |-> a.drop, confirmed |-> confirmed,
           abs |-> abs, rel |-> rel, pos |-> pos, seen |-> o.now]
  BY DEF Candidate
<1> HIDE DEF h, pos
<1>4. h \in HitType
  BY <1>1, <1>2, <1>3 DEF HitType
<1>5. /\ h.at = a.at /\ h.of = a.of /\ h.phantom = a.phantom /\ h.lone = a.lone /\ h.bad = a.bad
      /\ h.decoded = a.decoded /\ h.cut = a.cut /\ h.drop = a.drop
      /\ h.confirmed = confirmed /\ h.abs = abs /\ h.rel = rel
      /\ h.pos = pos /\ h.seen = o.now
  BY <1>3
<1> QED  BY <1>4, <1>5 DEF h, pos

(* What the reset for a changed target or a stop leaves.                     *)
LEMMA Kept ==
    ASSUME NEW o
    PROVE  /\ Hit(o) # None => o.on /\ o.target = target /\ Hit(o) = pending_hit
           /\ ToConfirm(o) # None =>
                o.on /\ o.target = target /\ ToConfirm(o) = pending_confirm
  BY DEF Hit, ToConfirm

LEMMA RelIs ==
    ASSUME NEW o, CycleOK(o), NEW h \in HitType
    PROVE  /\ Rel(h, o) \in 0..B-1 /\ Rel(h, o) \in Nat
           /\ (o.end - D + Rel(h, o)) % B = h.abs
           /\ h.abs = h.pos % B => Rel(h, o) = (h.pos - (o.end - D)) % B
<1>1. h.abs \in 0..B-1 /\ h.abs \in Int /\ h.pos \in Int /\ o.end - D \in Int
  BY TdNumbers DEF HitType, CycleOK
<1>2. Rel(h, o) = (h.abs - (o.end - D)) % B
  BY DEF Rel
<1>3. Rel(h, o) \in 0..B-1 /\ Rel(h, o) \in Nat
  <2>1. Rel(h, o) \in 0..B-1
    <3>1. \A x \in Int, q \in Int : (x - q) % B \in 0..B-1
      BY ModLap
    <3> QED  BY <1>1, <1>2, <3>1
  <2> QED  BY <2>1, TdNumbers
<1>4. h.abs = h.pos % B => Rel(h, o) = (h.pos - (o.end - D)) % B
  BY <1>1, <1>2, ModLap
<1>5. (o.end - D + Rel(h, o)) % B = h.abs
  <2> DEFINE q == o.end - D
  <2>1. (((h.abs - q) % B) - (-q)) % B = ((h.abs - q) - (-q)) % B
    <3>1. h.abs - q \in Int /\ -q \in Int
      BY <1>1
    <3> HIDE DEF q
    <3> QED  BY <3>1, ModLap
  <2>2. (h.abs - q) - (-q) = h.abs
    BY <1>1
  <2>3. ((h.abs - q) % B) - (-q) = q + Rel(h, o)
    BY <1>1, <1>2, <1>3
  <2>4. h.abs % B = h.abs
    <3>1. \A x \in 0..B-1 : x % B = x
      BY TdNumbers
    <3> QED  BY <1>1, <3>1
  <2> QED  BY <2>1, <2>2, <2>3, <2>4
<1> QED  BY <1>3, <1>4, <1>5

(* The hit that waited, projected into the window of this cycle.             *)
LEMMA RetryIs ==
    ASSUME TypeOK, NEW o, CycleOK(o), RetryHit(o) # None
    PROVE  LET h == RetryHit(o)
           IN  /\ pending_hit # None /\ o.on /\ o.target = target
               /\ pending_hit \in HitType /\ h \in HitType
               /\ h.at = pending_hit.at /\ h.of = pending_hit.of
               /\ h.phantom = pending_hit.phantom /\ h.lone = pending_hit.lone /\ h.bad = pending_hit.bad
               /\ h.decoded = pending_hit.decoded /\ h.cut = pending_hit.cut
               /\ h.drop = pending_hit.drop /\ h.confirmed = pending_hit.confirmed
               /\ h.abs = pending_hit.abs /\ h.pos = pending_hit.pos
               /\ h.seen = pending_hit.seen /\ h.rel = Rel(pending_hit, o)
               /\ h.rel < D /\ o.now - h.seen <= Timeout
<1>1. /\ Hit(o) # None /\ ~(Rel(Hit(o), o) >= D) /\ ~(o.now - Hit(o).seen > Timeout)
      /\ RetryHit(o) = [Hit(o) EXCEPT !.rel = Rel(Hit(o), o)]
  BY DEF RetryHit
<1>2. pending_hit # None /\ o.on /\ o.target = target /\ Hit(o) = pending_hit
  BY <1>1, Kept
<1>3. pending_hit \in HitType
  BY <1>2 DEF TypeOK
<1> DEFINE r == Rel(pending_hit, o)
           h == RetryHit(o)
<1>4. r \in Nat
  BY <1>3, RelIs
<1>5. h = [pending_hit EXCEPT !.rel = r]
  BY <1>1, <1>2
<1>6. r < D /\ o.now - pending_hit.seen <= Timeout
  <2>1. pending_hit.seen \in Nat /\ o.now \in Nat
    BY <1>3 DEF HitType, CycleOK
  <2> HIDE DEF r
  <2>2. ~(r >= D)
    BY <1>1, <1>2 DEF r
  <2>3. ~(o.now - pending_hit.seen > Timeout)
    BY <1>1, <1>2
  <2> QED  BY <1>4, <2>1, <2>2, <2>3, TdNumbers
<1> HIDE DEF r, h
<1>7. h \in HitType
  BY <1>3, <1>4, <1>5 DEF HitType
<1>8. /\ h.at = pending_hit.at /\ h.of = pending_hit.of
      /\ h.phantom = pending_hit.phantom /\ h.lone = pending_hit.lone /\ h.bad = pending_hit.bad
      /\ h.decoded = pending_hit.decoded /\ h.cut = pending_hit.cut
      /\ h.drop = pending_hit.drop /\ h.confirmed = pending_hit.confirmed
      /\ h.abs = pending_hit.abs /\ h.pos = pending_hit.pos
      /\ h.seen = pending_hit.seen /\ h.rel = r
  BY <1>3, <1>4, <1>5 DEF HitType
<1> QED  BY <1>2, <1>3, <1>6, <1>7, <1>8 DEF h, r
-----------------------------------------------------------------------------
(* A hit that this cycle may draw or keep: its place, and what it shows.     *)
Ready(h, o) == h \in HitType /\ Placed(h, o.end) /\ (Waits(h) => Late(h))

Sourced(h, o) ==
    /\ o.target # NoTarget /\ h.of = o.target.of
    /\ h.decoded <=> o.target.kind = "ntw_id"
    /\ IsReal(h)

(* A new hit: if it has no room, it lies in the last W - Pre of the window.  *)
LEMMA NewReady ==
    ASSUME NEW o, CycleOK(o), NEW h \in HitType, h.pos = o.end - D + h.rel,
           h.seen = o.now, h.rel <= D, h.abs = h.pos % B, Dist(h.pos, h.at) < Tol
    PROVE  Ready(h, o)
<1>1. h.pos \in Int /\ h.rel \in Nat /\ h.seen \in Nat /\ o.end - D \in Int /\ o.end \in Nat
  BY TdNumbers DEF HitType, CycleOK
<1>2. h.pos <= o.end /\ h.pos <= h.seen
  BY <1>1, TdNumbers DEF CycleOK
<1>3. h.rel = (h.pos - (o.end - D)) % B
  <2> DEFINE q == o.end - D
  <2>1. h.pos - q = h.rel /\ 0 <= h.pos - q /\ h.pos - q < B
    BY <1>1, TdNumbers
  <2>2. q \in Int
    BY <1>1
  <2> HIDE DEF q
  <2>3. (h.pos - q) % B = h.pos - q
    BY <1>1, <2>1, <2>2, ModLap
  <2> QED  BY <2>1, <2>3 DEF q
<1>4. Waits(h) => Late(h)
  <2> SUFFICES ASSUME Waits(h)  PROVE Late(h)
    OBVIOUS
  <2>1. h.rel >= Pre /\ D < h.rel - Pre + W
    BY <1>1, TdNumbers DEF Waits, SegmentStart
  <2> QED  BY <1>1, <2>1, TdNumbers DEF Late, CycleOK
<1> QED  BY <1>2, <1>3, <1>4 DEF Ready, Placed

LEMMA RetryReady ==
    ASSUME TdInv, NEW o, CycleOK(o), RetryHit(o) # None
    PROVE  Ready(RetryHit(o), o) /\ Sourced(RetryHit(o), o)
<1> DEFINE h == RetryHit(o)
<1>1. /\ pending_hit # None /\ o.on /\ o.target = target
      /\ pending_hit \in HitType /\ h \in HitType
      /\ h.at = pending_hit.at /\ h.of = pending_hit.of
      /\ h.phantom = pending_hit.phantom /\ h.lone = pending_hit.lone /\ h.bad = pending_hit.bad
      /\ h.decoded = pending_hit.decoded /\ h.cut = pending_hit.cut
      /\ h.drop = pending_hit.drop /\ h.confirmed = pending_hit.confirmed
      /\ h.abs = pending_hit.abs /\ h.pos = pending_hit.pos
      /\ h.seen = pending_hit.seen /\ h.rel = Rel(pending_hit, o)
  BY RetryIs DEF TdInv
<1> HIDE DEF h
<1>2. Placed(pending_hit, head) /\ Late(pending_hit) /\ OfTarget(pending_hit) /\ IsReal(pending_hit)
  BY <1>1 DEF TdInv, PlaceInv, CauseInv
<1>3. Placed(h, o.end)
  <2>1. h.pos <= o.end
    <3>1. o.end - head \in Nat /\ o.end \in Nat /\ head \in Nat /\ h.pos \in Int /\ h.pos <= head
      BY <1>1, <1>2, TdNumbers DEF CycleOK, TdInv, TypeOK, Placed, HitType
    <3> QED  BY <3>1
  <2>2. h.abs = h.pos % B /\ h.rel = (h.pos - (o.end - D)) % B
    BY <1>1, <1>2, RelIs DEF Placed
  <2> QED  BY <1>1, <1>2, <2>1, <2>2 DEF Placed
<1>4. Late(h)
  BY <1>1, <1>2 DEF Late
<1>5. Sourced(h, o)
  BY <1>1, <1>2 DEF Sourced, OfTarget, IsReal
<1> QED  BY <1>1, <1>3, <1>4, <1>5 DEF Ready, h

(* What confirms a failure that is held, found where it was.                *)
LEMMA AgainIs ==
    ASSUME TypeOK, NEW o, CycleOK(o), NEW a \in FailedAgain(o)
    PROVE  /\ pending_confirm # None /\ pending_confirm \in HitType
           /\ o.on /\ o.target = target /\ ToConfirm(o) = pending_confirm
           /\ a \in o.attempts /\ a \in AttemptType /\ a.of = o.target.of /\ ~a.decoded
           /\ Rel(pending_confirm, o) < D
           /\ Dist(o.end - D + Rel(pending_confirm, o), a.at) < Tol
<1>1. /\ ToConfirm(o) # None /\ ~Resolved(o) /\ a \in Again(o) /\ ~a.decoded
  BY DEF FailedAgain
<1>2. /\ pending_confirm # None /\ o.on /\ o.target = target
      /\ ToConfirm(o) = pending_confirm
  BY <1>1, Kept
<1>3. pending_confirm \in HitType
  BY <1>2 DEF TypeOK
<1>4. /\ a \in o.attempts /\ a.of = o.target.of
      /\ Dist(InCycle(a.at, o), Rel(pending_confirm, o)) < Tol
  BY <1>1, <1>2 DEF Again
<1>5. a \in AttemptType
  BY <1>4 DEF CycleOK
<1>6. Rel(pending_confirm, o) < D
  <2>1. ~(Rel(pending_confirm, o) >= D)
    BY <1>1, <1>2 DEF Resolved
  <2> QED  BY <1>3, <2>1, RelIs, TdNumbers
<1>7. Dist(o.end - D + Rel(pending_confirm, o), a.at) < Tol
  <2> DEFINE r == Rel(pending_confirm, o)
             q == o.end - D
  <2>1. r \in Int /\ q \in Int /\ a.at \in Int /\ InCycle(a.at, o) = a.at - q
    BY <1>3, <1>5, RelIs, TdNumbers DEF CycleOK, AttemptType, InCycle
  <2>2. Dist(a.at - q, r) < Tol
    BY <1>4, <2>1
  <2> HIDE DEF r, q
  <2>3. Dist(q + r, a.at) < Tol
    <3>1. a.at - q \in Int /\ q + r \in Int
      BY <2>1
    <3>2. (a.at - q) - r < Tol /\ r - (a.at - q) < Tol
      BY <2>1, <2>2, <3>1, DistInt
    <3>3. (q + r) - a.at < Tol /\ a.at - (q + r) < Tol
      BY <2>1, <3>2
    <3> QED  BY <2>1, <3>1, <3>3, DistInt
  <2> QED  BY <2>3 DEF r, q
<1> QED  BY <1>1, <1>2, <1>3, <1>4, <1>5, <1>6, <1>7

(* An attempt that was neither decoded nor cut off failed for a reason: it   *)
(* is of a bad burst, or a phantom, which a packet decoded in this cycle     *)
(* shows it to be if the burst is good and its start still in the window.   *)
LEMMA FailureHasCause ==
    ASSUME TypeOK, NEW o, CycleOK(o), NEW a \in o.attempts, ~a.decoded, ~Truncation(a)
    PROVE  \/ a.bad \/ (a.cut /\ a.drop)
           \/ a.phantom /\ (a.lone \/ Phantom(o, a))
<1>1. SUFFICES ASSUME ~a.bad, ~a.cut  PROVE a.phantom /\ (a.lone \/ Phantom(o, a))
  BY DEF Truncation
<1>2. PICK b \in air : Reports(a, b, o.end)
  BY DEF CycleOK
<1>3. b.good /\ a.phantom /\ a.at = b.at + 1 /\ ~(o.end < b.at + Span)
  BY <1>1, <1>2 DEF Reports
<1>4. b.at \in Nat /\ o.end \in Nat
  BY TdAssumption DEF TypeOK, Burst, CycleOK
<1>5. a.lone <=> b.at < o.end - D
  BY <1>2 DEF Reports
<1>6. SUFFICES ASSUME ~(b.at < o.end - D)  PROVE Phantom(o, a)
  BY <1>3, <1>5
<1>7. PICK p \in o.attempts : Reports(p, b, o.end) /\ ~p.phantom
  BY <1>3, <1>4, <1>6, TdNumbers DEF CycleOK
<1>8. p.decoded /\ p.at = b.at
  BY <1>3, <1>7 DEF Reports
<1>9. p.at <= a.at /\ a.at <= p.at + Span
  BY <1>3, <1>4, <1>8, TdNumbers
<1> QED  BY <1>3, <1>8, <1>9 DEF Phantom

LEMMA ConfirmedReady ==
    ASSUME TypeOK, NEW o, CycleOK(o), o.target.kind = "chipset",
           NEW a \in o.attempts, Confirms(o, a)
    PROVE  LET h == Candidate(o, a, Rel(ToConfirm(o), o), ToConfirm(o).abs, TRUE)
           IN  Ready(h, o) /\ Sourced(h, o) /\ h.pos = o.end - D + Rel(pending_confirm, o)
<1>1. a \in FailedAgain(o) /\ ~Truncation(a)
  BY DEF Confirms
<1> DEFINE r == Rel(pending_confirm, o)
           abs == pending_confirm.abs
           yes == TRUE
           h == Candidate(o, a, r, abs, yes)
<1>2. /\ pending_confirm \in HitType /\ ToConfirm(o) = pending_confirm
      /\ a \in AttemptType /\ a.of = o.target.of /\ ~a.decoded
      /\ r < D /\ Dist(o.end - D + r, a.at) < Tol
  BY <1>1, AgainIs
<1>3. r \in Nat /\ abs \in 0..B-1 /\ (o.end - D + r) % B = abs
  BY <1>2, RelIs DEF HitType
<1> yes \in BOOLEAN
  OBVIOUS
<1> HIDE DEF r, abs, yes
<1>4. /\ h \in HitType /\ h.at = a.at /\ h.of = a.of /\ h.phantom = a.phantom /\ h.lone = a.lone
      /\ h.bad = a.bad /\ h.decoded = a.decoded /\ h.cut = a.cut /\ h.drop = a.drop
      /\ h.confirmed = yes /\ h.abs = abs /\ h.rel = r
      /\ h.pos = o.end - D + r /\ h.seen = o.now
  BY <1>2, <1>3, CandidateIs
<1> HIDE DEF h
<1>5. Ready(h, o)
  BY <1>2, <1>3, <1>4, NewReady, TdNumbers
<1>6. Sourced(h, o)
  <2>1. o.target # NoTarget /\ o.target.kind # "ntw_id"
    BY DEF NoTarget
  <2>2. a.bad \/ (a.cut /\ a.drop) \/ a.phantom
    BY <1>1, <1>2, FailureHasCause
  <2> QED  BY <1>2, <1>4, <2>1, <2>2 DEF Sourced, IsReal, yes
<1> QED  BY <1>2, <1>4, <1>5, <1>6 DEF h, r, abs, yes

(* A match of this cycle, as the hit it becomes.                            *)
LEMMA FreshIs ==
    ASSUME TypeOK, NEW o, CycleOK(o), NEW a \in o.attempts
    PROVE  LET h == FreshHit(o, a)
           IN  /\ Ready(h, o)
               /\ h.at = a.at /\ h.of = a.of /\ h.phantom = a.phantom /\ h.lone = a.lone /\ h.bad = a.bad
               /\ h.decoded = a.decoded /\ h.cut = a.cut /\ h.drop = a.drop
               /\ h.pos = h.at
<1> DEFINE r == InCycle(a.at, o)
           abs == a.at % B
           no == FALSE
           h == Candidate(o, a, r, abs, no)
<1>1. a \in AttemptType /\ a.at \in Nat /\ o.end \in Nat
  BY DEF CycleOK, AttemptType
<1>2. o.end - D <= a.at /\ a.at <= o.end
  <2>1. PICK b \in air : Reports(a, b, o.end)
    BY DEF CycleOK
  <2>2. b.at \in Nat
    BY TdAssumption DEF TypeOK, Burst
  <2> QED  BY <1>1, <2>1, <2>2, TdNumbers DEF Reports
<1>3. r \in Nat /\ r <= D /\ o.end - D + r = a.at /\ abs \in 0..B-1
  BY <1>1, <1>2, TdNumbers DEF InCycle
<1>4. h = FreshHit(o, a)
  BY DEF FreshHit
<1>5. abs = a.at % B /\ no \in BOOLEAN
  OBVIOUS
<1> HIDE DEF r, abs, no
<1>6. /\ h \in HitType /\ h.at = a.at /\ h.of = a.of /\ h.phantom = a.phantom /\ h.lone = a.lone
      /\ h.bad = a.bad /\ h.decoded = a.decoded /\ h.cut = a.cut /\ h.drop = a.drop
      /\ h.abs = abs /\ h.rel = r /\ h.pos = o.end - D + r /\ h.seen = o.now
  BY <1>1, <1>3, <1>5, CandidateIs
<1> HIDE DEF h
<1>7. h.pos = h.at /\ h.abs = h.pos % B
  BY <1>3, <1>5, <1>6
<1>8. Dist(h.pos, h.at) < Tol
  BY <1>1, <1>6, <1>7, TdNumbers DEF Dist
<1>9. Ready(h, o)
  BY <1>3, <1>6, <1>7, <1>8, NewReady
<1> QED  BY <1>4, <1>6, <1>7, <1>9

LEMMA FreshSourced ==
    ASSUME TypeOK, NEW o, CycleOK(o), o.target # NoTarget, NEW a \in Matches(o),
           o.target.kind = "chipset" => ~Truncation(a)
    PROVE  Sourced(FreshHit(o, a), o)
<1>1. o.target.kind \in {"chipset", "ntw_id"}
  BY DEF CycleOK, Targets, Chipset, Device
<1>2. a \in o.attempts /\ a.of = o.target.of /\ (a.decoded <=> o.target.kind = "ntw_id")
  BY <1>1 DEF Matches
<1>3. o.target.kind = "chipset" => ~Phantom(o, a)
  BY DEF Matches
<1>4. a.decoded \/ a.bad \/ (a.phantom /\ a.lone) \/ (a.cut /\ a.drop)
  BY <1>1, <1>2, <1>3, FailureHasCause
<1> QED  BY <1>2, <1>4, FreshIs DEF Sourced, IsReal
-----------------------------------------------------------------------------
(* A hit that is drawn or kept leaves the state as it should be.             *)
LEMMA ServeInv ==
    ASSUME TypeOK, NEW o, CycleOK(o), NEW h, Ready(h, o), Sourced(h, o),
           head' = o.end, target' = o.target, pending_confirm' = None, Serve(o, h)
    PROVE  /\ pending_hit' \in {None} \cup HitType
           /\ capture' # None => /\ capture'.hit \in HitType /\ capture'.at = capture'.hit.at
                                 /\ capture'.from \in Int
           /\ PlaceInv' /\ CauseInv' /\ HeldInv'
<1>1. h \in HitType /\ h # None
  BY HitIsSome DEF Ready
<1>2. SegmentStart(h) \in Nat
  BY <1>1, TdNumbers DEF SegmentStart, HitType
<1>3. OfTarget(h)' /\ IsReal(h)
  BY DEF Sourced, OfTarget
<1>4. CASE SegmentStart(h) + W > D
  <2>1. pending_hit' = h /\ capture' = None
    BY <1>4 DEF Serve
  <2>2. Waits(h)
    BY <1>2, <1>4, TdNumbers DEF Waits
  <2>3. Placed(h, o.end) /\ Late(h)
    BY <2>2 DEF Ready
  <2>4. PlaceInv'
    BY <2>1, <2>2, <2>3 DEF PlaceInv, Placed, Waits, Late, SegmentStart
  <2>5. CauseInv'
    BY <1>3, <2>1 DEF CauseInv, OfTarget, IsReal
  <2> QED  BY <1>1, <2>1, <2>4, <2>5 DEF HeldInv
<1>5. CASE ~(SegmentStart(h) + W > D)
  <2> DEFINE from == o.end - D + SegmentStart(h)
             c == [at |-> h.at, hit |-> h, from |-> from]
  <2>1. pending_hit' = None /\ capture' = c
    BY <1>5 DEF Serve
  <2>2. c.hit = h /\ c.at = h.at /\ c.from = from
    OBVIOUS
  <2>3. from \in Int
    BY <1>2, TdNumbers DEF CycleOK
  <2> HIDE DEF c, from
  <2>4. PlaceInv' /\ HeldInv'
    BY <2>1 DEF PlaceInv, HeldInv
  <2>5. CauseInv'
    BY <1>3, <2>1, <2>2 DEF CauseInv, OfTarget, IsReal
  <2> QED  BY <1>1, <2>1, <2>2, <2>3, <2>4, <2>5
<1> QED  BY <1>4, <1>5

(* A failure is held only for the chipset that is searched.                  *)
LEMMA HeldFor ==
    ASSUME TdInv, NEW o, ToConfirm(o) # None
    PROVE  /\ ToConfirm(o) = pending_confirm /\ o.target = target
           /\ o.target.kind = "chipset" /\ o.target # NoTarget
  BY Kept DEF TdInv, CauseInv, NoTarget

LEMMA StillHeldIs == ASSUME NEW o  PROVE StillHeld(o) \in {None, ToConfirm(o)}
  BY DEF StillHeld

(* A cycle that draws nothing and keeps no hit.                             *)
LEMMA HeldStays ==
    ASSUME TdInv, NEW o, CycleOK(o), head' = o.end, target' = o.target,
           pending_hit' = None, capture' = None, pending_confirm' \in {None, ToConfirm(o)}
    PROVE  /\ pending_confirm' \in {None} \cup HitType
           /\ PlaceInv' /\ CauseInv' /\ HeldInv'
<1>1. CASE pending_confirm' = None
  BY <1>1 DEF PlaceInv, CauseInv, HeldInv
<1>2. CASE pending_confirm' # None
  <2>1. pending_confirm' = pending_confirm /\ pending_confirm # None
        /\ o.target = target /\ target' = target
    BY <1>2, HeldFor
  <2>2. pending_confirm \in HitType
    BY <2>1 DEF TdInv, TypeOK
  <2>3. CauseInv'
    BY <2>1 DEF TdInv, CauseInv
  <2>4. HeldInv'
    <3>1. pending_confirm.pos <= head /\ pending_confirm.pos = pending_confirm.at
          /\ pending_confirm.abs = pending_confirm.pos % B
      BY <2>1 DEF TdInv, HeldInv
    <3>2. pending_confirm.pos <= o.end
      BY <2>2, <3>1, TdNumbers DEF HitType, CycleOK, TdInv, TypeOK
    <3> QED  BY <2>1, <3>1, <3>2 DEF HeldInv
  <2> QED  BY <2>1, <2>2, <2>3, <2>4 DEF PlaceInv
<1> QED  BY <1>1, <1>2

(* A match that may have been cut off is held.                              *)
LEMMA FreshHeld ==
    ASSUME TdInv, NEW o, CycleOK(o), o.target.kind = "chipset", NEW a \in Matches(o),
           head' = o.end, target' = o.target,
           pending_hit' = None, capture' = None, pending_confirm' = FreshHit(o, a)
    PROVE  /\ pending_confirm' \in {None} \cup HitType
           /\ PlaceInv' /\ CauseInv' /\ HeldInv'
<1> DEFINE h == FreshHit(o, a)
<1>1. a \in o.attempts /\ a.of = o.target.of
  BY DEF Matches
<1>2. Ready(h, o) /\ h.of = a.of /\ h.pos = h.at
  BY <1>1, FreshIs DEF TdInv
<1> HIDE DEF h
<1>3. h \in HitType /\ h.abs = h.pos % B /\ h.pos <= o.end
  BY <1>2 DEF Ready, Placed
<1>4. pending_confirm' = h
  BY DEF h
<1> QED  BY <1>1, <1>2, <1>3, <1>4 DEF PlaceInv, CauseInv, HeldInv

(* One turn of the loop.                                                    *)
LEMMA StepInv == ASSUME TdInv, NEW o, CycleOK(o), Step(o)  PROVE TdInv'
<1>1. /\ head' = o.end /\ now' = o.now /\ running' = o.on /\ target' = o.target
      /\ air' = air /\ dropped' = dropped
  BY DEF Step
<1>2. /\ air' \in Bursts /\ dropped' \in SUBSET Drops
      /\ head' \in Nat /\ now' \in Nat /\ running' \in BOOLEAN /\ target' \in Targets
  BY <1>1 DEF TdInv, TypeOK, CycleOK
<1> DEFINE Rest == /\ pending_hit' \in {None} \cup HitType
                   /\ pending_confirm' \in {None} \cup HitType
                   /\ capture' # None => /\ capture'.hit \in HitType
                                         /\ capture'.at = capture'.hit.at
                                         /\ capture'.from \in Int
                   /\ PlaceInv' /\ CauseInv' /\ HeldInv'
<1>3. ASSUME Off(o)  PROVE Rest
  BY <1>1, <1>3, HeldStays DEF Off
<1>4. ASSUME Confirmed(o)  PROVE Rest
  <2>1. PICK a \in o.attempts :
          /\ Confirms(o, a)
          /\ Serve(o, Candidate(o, a, Rel(ToConfirm(o), o), ToConfirm(o).abs, TRUE))
    BY <1>4 DEF Confirmed
  <2>2. o.target.kind = "chipset" /\ pending_confirm' = None
    BY <1>4 DEF Confirmed
  <2>3. TypeOK
    BY DEF TdInv
  <2> QED  BY <1>1, <2>1, <2>2, <2>3, ConfirmedReady, ServeInv
<1>5. ASSUME Retry(o)  PROVE Rest
  <2>1. o.target # NoTarget /\ NothingConfirmed(o) /\ RetryHit(o) # None /\ Serve(o, RetryHit(o))
    BY <1>5 DEF Retry
  <2>2. pending_confirm' = None
    <3>1. pending_confirm = None
      BY <2>1, RetryIs DEF TdInv, CauseInv
    <3>2. ToConfirm(o) = None
      BY <3>1, Kept
    <3> QED  BY <2>1, <3>2, StillHeldIs DEF NothingConfirmed
  <2>3. TypeOK
    BY DEF TdInv
  <2> QED  BY <1>1, <2>1, <2>2, <2>3, RetryReady, ServeInv
<1>6. ASSUME Fresh(o)  PROVE Rest
  <2>1. PICK a \in Matches(o) :
         IF o.target.kind = "chipset" /\ Truncation(a)
         THEN /\ Unconfirmed(o)
              /\ pending_confirm' = FreshHit(o, a)
              /\ pending_hit' = None /\ capture' = None
         ELSE NothingConfirmed(o) /\ Serve(o, FreshHit(o, a))
    BY <1>6 DEF Fresh
  <2>2. o.target # NoTarget /\ (o.target.kind = "chipset" => StillHeld(o) = None)
    BY <1>6 DEF Fresh
  <2>3. CASE o.target.kind = "chipset" /\ Truncation(a)
    BY <1>1, <2>1, <2>3, FreshHeld
  <2>4. CASE ~(o.target.kind = "chipset" /\ Truncation(a))
    <3>1. NothingConfirmed(o) /\ Serve(o, FreshHit(o, a))
      BY <2>1, <2>4
    <3>2. pending_confirm' = None
      BY <2>2, <3>1, HeldFor DEF NothingConfirmed
    <3>3. a \in o.attempts /\ TypeOK
      BY DEF Matches, TdInv
    <3>4. Ready(FreshHit(o, a), o)
      BY <3>3, FreshIs
    <3>5. Sourced(FreshHit(o, a), o)
      BY <2>2, <2>4, <3>3, FreshSourced
    <3> QED  BY <1>1, <3>1, <3>2, <3>3, <3>4, <3>5, ServeInv
  <2> QED  BY <2>3, <2>4
<1>7. ASSUME Wait(o)  PROVE Rest
  <2>1. pending_confirm' \in {None, ToConfirm(o)}
    BY <1>7, StillHeldIs DEF Wait, NothingConfirmed
  <2>2. pending_hit' = None
    <3>1. Hit(o) # None => Hit(o) = pending_hit /\ o.target = target /\ target # NoTarget
      BY Kept DEF TdInv, CauseInv, OfTarget
    <3> QED  BY <1>7, <3>1 DEF Wait
  <2>3. capture' = None
    BY <1>7 DEF Wait
  <2> QED  BY <1>1, <2>1, <2>2, <2>3, HeldStays
<1>8. Rest
  <2> HIDE DEF Rest
  <2> QED  BY <1>3, <1>4, <1>5, <1>6, <1>7 DEF Step
<1> QED  BY <1>2, <1>8 DEF TdInv, TypeOK

LEMMA TdInitInv == Init => TdInv
<1> SUFFICES ASSUME Init  PROVE TdInv
  OBVIOUS
<1>1. NoTarget \in Targets
  BY DEF Targets
<1>2. TypeOK
  BY <1>1, TdNumbers DEF Init, TypeOK
<1> QED  BY <1>2 DEF Init, TdInv, PlaceInv, CauseInv, HeldInv

LEMMA TdNextInv == TdInv /\ [Next]_vars => TdInv'
<1> SUFFICES ASSUME TdInv, [Next]_vars  PROVE TdInv'
  OBVIOUS
<1>1. CASE Next
  <2>1. PICK g \in Gaps, j \in 0..Jitter, on \in BOOLEAN, t \in Targets :
          \E opt \in SUBSET Optional(head + g) : Step(Cycle(g, j, on, t, opt))
    BY <1>1 DEF Next
  <2>2. PICK opt \in SUBSET Optional(head + g) : Step(Cycle(g, j, on, t, opt))
    BY <2>1
  <2>3. CycleOK(Cycle(g, j, on, t, opt))
    BY CycleFacts DEF TdInv
  <2> QED  BY <2>2, <2>3, StepInv
<1>2. CASE UNCHANGED vars
  <2>1. TypeOK'
    BY <1>2 DEF TdInv, TypeOK, vars
  <2>2. PlaceInv' /\ CauseInv' /\ HeldInv'
    BY <1>2 DEF TdInv, PlaceInv, Placed, Waits, Late, SegmentStart, CauseInv, OfTarget, IsReal,
                HeldInv, vars
  <2> QED  BY <2>1, <2>2 DEF TdInv
<1> QED  BY <1>1, <1>2

LEMMA TdAlways == Spec => []TdInv
  BY TdInitInv, TdNextInv, PTL DEF Spec

(* The state of the capture has its type: an index that is remembered is one *)
(* of the ring.                                                             *)
THEOREM TdTypeOK == Spec => []TypeOK
<1>1. TdInv => TypeOK
  BY DEF TdInv
<1> QED  BY <1>1, TdAlways, PTL

(* A failure that is drawn is one of the chipset that is searched, and the   *)
(* three ways past the checks that FailureIsReal names are the only ones.   *)
THEOREM DrawnFailureIsReal == Spec => []FailureIsReal
<1>1. TdInv => FailureIsReal
  BY DEF TdInv, CauseInv, IsReal, FailureIsReal
<1> QED  BY <1>1, TdAlways, PTL
-----------------------------------------------------------------------------
(* Drawing.  A hit that has room is where its index says it is.              *)
LEMMA ServeDraws ==
    ASSUME NEW o, CycleOK(o), NEW h \in HitType, Dist(h.pos, h.at) < Tol,
           ~Waits(h) => h.pos = o.end - D + h.rel, head' = o.end, Serve(o, h)
    PROVE  RendersOwnBurst'
<1>1. SegmentStart(h) \in Nat /\ SegmentStart(h) <= h.rel /\ h.rel \in Nat /\ o.end - D \in Int
  BY TdNumbers DEF SegmentStart, HitType, CycleOK
<1>2. CASE SegmentStart(h) + W > D
  BY <1>2 DEF Serve, RendersOwnBurst
<1>3. CASE ~(SegmentStart(h) + W > D)
  <2> DEFINE from == o.end - D + SegmentStart(h)
             c == [at |-> h.at, hit |-> h, from |-> from]
  <2>1. capture' = c /\ c.hit = h /\ c.at = h.at /\ c.from = from
    BY <1>3 DEF Serve
  <2>2. h.pos = head' - D + h.rel
    BY <1>1, <1>3, TdNumbers DEF Waits
  <2>3. /\ from <= head' - D + h.rel
        /\ head' - D <= from /\ from + W <= head'
    BY <1>1, <1>3, TdNumbers DEF CycleOK
  <2> HIDE DEF c, from
  <2> QED  BY <2>1, <2>2, <2>3 DEF RendersOwnBurst
<1> QED  BY <1>2, <1>3

(* One that waited: an index seen a lap too late would lie so far back in    *)
(* the window that the segment has no room.                                 *)
LEMMA RetryInPlace ==
    ASSUME MaxAge, TdInv, NEW o, CycleOK(o), RetryHit(o) # None, ~Waits(RetryHit(o))
    PROVE  RetryHit(o).pos = o.end - D + RetryHit(o).rel
<1> DEFINE h == RetryHit(o)
           x == h.pos
           q == o.end - D
<1>1. /\ h \in HitType /\ pending_hit # None /\ h.pos = pending_hit.pos
      /\ h.seen = pending_hit.seen /\ o.now - h.seen <= Timeout
  BY RetryIs DEF TdInv
<1>2. Placed(h, o.end) /\ Late(h)
  <2>1. Placed(h, o.end)
    BY RetryReady DEF Ready
  <2>2. Late(h)
    BY <1>1 DEF TdInv, PlaceInv, Late
  <2> QED  BY <2>1, <2>2
<1> HIDE DEF h
<1>3. /\ x \in Int /\ h.rel \in Nat /\ h.seen \in Nat /\ o.now \in Nat
      /\ o.end \in Nat /\ q \in Int /\ o.end <= o.now
  BY <1>1, TdNumbers DEF HitType, CycleOK
<1>4. h.rel = (x - q) % B /\ x <= o.end /\ h.seen + Pre < x + Jitter + W
  BY <1>2 DEF Placed, Late
<1>5. x - q < B /\ -B <= x - q
  BY <1>1, <1>3, <1>4, TdNumbers DEF MaxAge
<1>6. CASE x - q < 0
  <2>1. h.rel = x - q + B
    <3> HIDE DEF x, q
    <3> QED  BY <1>3, <1>4, <1>5, <1>6, ModLap
  <2>2. D + Pre < h.rel + W
    BY <1>1, <1>3, <1>4, <2>1, TdNumbers DEF MaxAge
  <2>3. Waits(h)
    BY <1>3, <2>2, TdNumbers DEF Waits, SegmentStart
  <2> QED  BY <2>3 DEF h
<1>7. CASE 0 <= x - q
  <2>1. h.rel = x - q
    <3> HIDE DEF x, q
    <3> QED  BY <1>3, <1>4, <1>5, <1>7, ModLap
  <2>2. h.pos = o.end - D + h.rel
    BY <1>3, <2>1, TdNumbers
  <2> QED  BY <2>2 DEF h
<1> QED  BY <1>3, <1>6, <1>7

(* One that is drawn at once.                                               *)
LEMMA NewInPlace ==
    ASSUME NEW o, CycleOK(o), NEW a \in AttemptType, NEW rel \in Nat, NEW abs \in 0..B-1,
           NEW confirmed \in BOOLEAN
    PROVE  Candidate(o, a, rel, abs, confirmed).pos
             = o.end - D + Candidate(o, a, rel, abs, confirmed).rel
  BY CandidateIs

LEMMA StepDraws == ASSUME MaxAge, TdInv, NEW o, CycleOK(o), Step(o)  PROVE RendersOwnBurst'
<1>1. head' = o.end /\ TypeOK
  BY DEF Step, TdInv
<1>2. ASSUME capture' = None  PROVE RendersOwnBurst'
  BY <1>2 DEF RendersOwnBurst
<1>3. ASSUME Confirmed(o)  PROVE RendersOwnBurst'
  <2> DEFINE h(a) == Candidate(o, a, Rel(ToConfirm(o), o), ToConfirm(o).abs, TRUE)
  <2>1. PICK a \in o.attempts : Confirms(o, a) /\ Serve(o, h(a))
    BY <1>3 DEF Confirmed
  <2>2. Ready(h(a), o)
    BY <1>1, <1>3, <2>1, ConfirmedReady DEF Confirmed
  <2>3. h(a).pos = o.end - D + h(a).rel
    <3>1. ToConfirm(o) \in HitType /\ a \in AttemptType
      BY <1>1, <2>1, AgainIs DEF Confirms
    <3>2. Rel(ToConfirm(o), o) \in Nat /\ ToConfirm(o).abs \in 0..B-1
      BY <3>1, RelIs DEF HitType
    <3> QED  BY <3>1, <3>2, NewInPlace
  <2> HIDE DEF h
  <2> QED  BY <1>1, <2>1, <2>2, <2>3, ServeDraws DEF Ready, Placed
<1>4. ASSUME Retry(o)  PROVE RendersOwnBurst'
  BY <1>1, <1>4, RetryReady, RetryInPlace, ServeDraws DEF Retry, Ready, Placed
<1>5. ASSUME NEW a \in Matches(o), Serve(o, FreshHit(o, a))  PROVE RendersOwnBurst'
  <2>1. a \in o.attempts
    BY DEF Matches
  <2>2. Ready(FreshHit(o, a), o)
    BY <1>1, <2>1, FreshIs
  <2>3. FreshHit(o, a).pos = o.end - D + FreshHit(o, a).rel
    <3>1. a \in AttemptType /\ a.at \in Int
      BY <2>1 DEF CycleOK, AttemptType
    <3>2. InCycle(a.at, o) \in Int /\ a.at % B \in 0..B-1
      BY <3>1, TdNumbers DEF CycleOK, InCycle
    <3> QED  BY DEF FreshHit, Candidate
  <2> QED  BY <1>1, <1>5, <2>2, <2>3, ServeDraws DEF Ready, Placed
<1> QED  BY <1>2, <1>3, <1>4, <1>5 DEF Step, Off, Fresh, Wait

(* Under the cap on the age of a hit, the segment that is drawn never holds  *)
(* samples of another lap of the ring, and holds the burst it is drawn for.  *)
THEOREM DrawsOwnBurst == ASSUME MaxAge  PROVE Spec => []RendersOwnBurst
<1>1. Init => RendersOwnBurst
  BY DEF Init, RendersOwnBurst
<1>2. RendersOwnBurst /\ TdInv /\ [Next]_vars => RendersOwnBurst'
  <2> SUFFICES ASSUME RendersOwnBurst, TdInv, [Next]_vars  PROVE RendersOwnBurst'
    OBVIOUS
  <2>1. CASE Next
    <3>1. PICK g \in Gaps, j \in 0..Jitter, on \in BOOLEAN, t \in Targets :
            \E opt \in SUBSET Optional(head + g) : Step(Cycle(g, j, on, t, opt))
      BY <2>1 DEF Next
    <3>2. PICK opt \in SUBSET Optional(head + g) : Step(Cycle(g, j, on, t, opt))
      BY <3>1
    <3>3. CycleOK(Cycle(g, j, on, t, opt))
      BY CycleFacts DEF TdInv
    <3> QED  BY <3>2, <3>3, StepDraws
  <2>2. CASE UNCHANGED vars
    BY <2>2 DEF vars, RendersOwnBurst
  <2> QED  BY <2>1, <2>2
<1> QED  BY <1>1, <1>2, TdAlways, PTL DEF Spec
-----------------------------------------------------------------------------
(* Nothing is lost.  What is served is drawn or goes on waiting.             *)
LEMMA ServeKeeps ==
    ASSUME NEW o, NEW h \in HitType, Serve(o, h)
    PROVE  (capture' # None /\ capture'.hit = h) \/ (pending_hit' # None /\ pending_hit' = h)
<1>1. h.at \in Nat /\ None.at = -1
  BY DEF HitType, None
<1>2. CASE SegmentStart(h) + W > D
  BY <1>2, HitIsSome DEF Serve
<1>3. CASE ~(SegmentStart(h) + W > D)
  <2> DEFINE c == [at |-> h.at, hit |-> h, from |-> o.end - D + SegmentStart(h)]
  <2>1. capture' = c /\ c.at = h.at /\ c.hit = h
    BY <1>3 DEF Serve
  <2> HIDE DEF c
  <2> QED  BY <1>1, <2>1
<1> QED  BY <1>2, <1>3

(* A hit that waits in view has its index early enough in the next window.   *)
LEMMA RetryWorks ==
    ASSUME HitsInReach, TdInv, NEW o, CycleOK(o), pending_hit # None, o.on, o.target = target,
           head - D <= pending_hit.pos, o.end - head <= Regular
    PROVE  RetryHit(o) # None
<1> DEFINE x == pending_hit.pos
           q == o.end - D
           p == head - D
           r == Rel(pending_hit, o)
<1>1. Placed(pending_hit, head) /\ Waits(pending_hit) /\ pending_hit \in HitType
  BY DEF TdInv, PlaceInv, TypeOK
<1>2. /\ x \in Int /\ pending_hit.rel \in Nat /\ pending_hit.seen \in Nat /\ o.now \in Nat
      /\ o.end \in Nat /\ head \in Nat /\ q \in Int /\ p \in Int
      /\ head < o.end /\ o.now <= o.end + Jitter
  BY <1>1, TdNumbers DEF HitType, CycleOK, TdInv, TypeOK
<1>3. pending_hit.rel = (x - p) % B /\ x <= head /\ x <= pending_hit.seen
  BY <1>1 DEF Placed
<1>4. pending_hit.rel = x - p
  <2>1. 0 <= x - p /\ x - p < B
    BY <1>2, <1>3, TdNumbers
  <2> HIDE DEF x, p
  <2> QED  BY <1>2, <1>3, <2>1, ModLap
<1>5. D + Pre < pending_hit.rel + W
  BY <1>1, <1>2, TdNumbers DEF Waits, SegmentStart
<1>6. 0 <= x - q /\ x - q < D /\ x - q < B
  BY <1>2, <1>3, <1>4, <1>5, TdNumbers DEF HitsInReach
<1>7. r = x - q
  <2>1. r = (x - q) % B
    BY <1>1, RelIs DEF Placed
  <2> HIDE DEF x, q, r
  <2> QED  BY <1>2, <1>6, <2>1, ModLap
<1>8. o.now - pending_hit.seen <= Timeout
  BY <1>2, <1>3, <1>4, <1>5, TdNumbers DEF HitsInReach
<1>9. Hit(o) = pending_hit
  BY DEF Hit
<1>10. ~(Hit(o) = None \/ Rel(Hit(o), o) >= D \/ o.now - Hit(o).seen > Timeout)
  <2>1. r \in Int /\ r < D
    BY <1>2, <1>6, <1>7
  <2> HIDE DEF r
  <2>2. ~(r >= D) /\ ~(o.now - pending_hit.seen > Timeout)
    BY <1>2, <1>8, <2>1, TdNumbers
  <2> QED  BY <1>9, <2>2 DEF r
<1>11. RetryHit(o) = [pending_hit EXCEPT !.rel = r]
  BY <1>9, <1>10 DEF RetryHit
<1>12. r \in Nat
  BY <1>1, RelIs
<1> HIDE DEF r
<1>13. RetryHit(o) \in HitType
  BY <1>1, <1>11, <1>12 DEF HitType
<1> QED  BY <1>13, HitIsSome

LEMMA StepKeepsHit ==
    ASSUME HitsInReach, TdInv, NEW o, CycleOK(o), Step(o),
           pending_hit # None, Undisturbed(pending_hit)
    PROVE  \/ Serves(pending_hit)
           \/ pending_hit' # None /\ pending_hit'.pos = pending_hit.pos
<1>1. o.on /\ o.target = target /\ head - D <= pending_hit.pos /\ o.end - head <= Regular
  BY DEF Step, Undisturbed
<1>2. RetryHit(o) # None
  BY <1>1, RetryWorks
<1>3. pending_confirm = None /\ target # NoTarget
  BY DEF TdInv, CauseInv, OfTarget
<1>4. ~Confirmed(o)
  <2>1. ToConfirm(o) = None
    BY <1>3, Kept
  <2> QED  BY <2>1 DEF Confirmed, Confirms, FailedAgain
<1>5. Serve(o, RetryHit(o))
  BY <1>1, <1>2, <1>3, <1>4 DEF Step, Off, Retry, Fresh, Wait
<1>6. RetryHit(o) \in HitType /\ RetryHit(o).pos = pending_hit.pos
  BY <1>2, RetryIs DEF TdInv
<1> QED  BY <1>5, <1>6, ServeKeeps DEF Serves

(* As long as the cycles keep their pace and the search goes on, a hit that  *)
(* had to wait is drawn or goes on waiting.                                 *)
THEOREM WaitingHitIsKept == ASSUME HitsInReach  PROVE Spec => HitNotLost
<1> DEFINE A == (pending_hit # None /\ Undisturbed(pending_hit)) =>
                   \/ Serves(pending_hit)
                   \/ pending_hit' # None /\ pending_hit'.pos = pending_hit.pos
<1>1. TdInv /\ [Next]_vars => [A]_vars
  <2> SUFFICES ASSUME TdInv, Next  PROVE A
    OBVIOUS
  <2>1. PICK g \in Gaps, j \in 0..Jitter, on \in BOOLEAN, t \in Targets :
          \E opt \in SUBSET Optional(head + g) : Step(Cycle(g, j, on, t, opt))
    BY DEF Next
  <2>2. PICK opt \in SUBSET Optional(head + g) : Step(Cycle(g, j, on, t, opt))
    BY <2>1
  <2>3. CycleOK(Cycle(g, j, on, t, opt))
    BY CycleFacts DEF TdInv
  <2> QED  BY <2>2, <2>3, StepKeepsHit
<1>2. Spec => [][A]_vars
  <2> HIDE DEF A
  <2> QED  BY <1>1, TdAlways, PTL DEF Spec
<1> QED  BY <1>2 DEF HitNotLost
-----------------------------------------------------------------------------
(* Confirming.  An attempt near the place of a burst is due to that burst.   *)
LEMMA NearIsSame ==
    ASSUME CutsInReach, TypeOK, NEW b \in air, NEW c \in air, b.of = c.of, NEW end \in Nat,
           NEW a \in AttemptType, Reports(a, c, end), Dist(b.at, a.at) < Tol
    PROVE  c = b
<1>1. b.at \in Nat /\ c.at \in Nat /\ a.at \in Nat /\ air \in Bursts
  BY TdAssumption DEF TypeOK, Burst, AttemptType
<1>2. b.at - a.at < Tol /\ a.at - b.at < Tol
  <2>1. b.at \in Int /\ a.at \in Int
    BY <1>1
  <2> QED  BY <2>1, DistInt
<1>3. c.at <= a.at /\ a.at <= c.at + 1
  BY <1>1 DEF Reports
<1>4. /\ b.at < c.at => b.at + Span + Tol <= c.at
      /\ c.at < b.at => c.at + Span + Tol <= b.at
      /\ b.at = c.at => b = c
  BY <1>1 DEF CutsInReach
<1>5. ~(b.at < c.at) /\ ~(c.at < b.at)
  BY <1>1, <1>2, <1>3, <1>4, TdNumbers
<1> QED  BY <1>1, <1>4, <1>5

(* A bad burst that lies whole in the window is confirmed in this cycle.     *)
LEMMA WholeConfirms ==
    ASSUME CutsInReach, TdInv, NEW o, CycleOK(o), ToConfirm(o) # None,
           NEW b \in air, ~b.good, b.at = pending_confirm.at, b.of = pending_confirm.of,
           o.end - D <= b.at, b.at + Span <= o.end
    PROVE  ~Unconfirmed(o) /\ o.end - D + Rel(pending_confirm, o) = pending_confirm.pos
<1> DEFINE x == pending_confirm.pos
           q == o.end - D
           r == Rel(pending_confirm, o)
<1>1. /\ ToConfirm(o) = pending_confirm /\ pending_confirm # None /\ o.target = target
      /\ o.target.kind = "chipset" /\ pending_confirm.of = o.target.of
  BY HeldFor DEF TdInv, CauseInv
<1>2. pending_confirm \in HitType /\ b.at \in Nat /\ TypeOK
  BY <1>1, TdAssumption DEF TdInv, TypeOK, Burst
<1>3. x = b.at /\ pending_confirm.abs = x % B /\ x <= head
  BY <1>1 DEF TdInv, HeldInv
<1>4. x \in Int /\ q \in Int /\ 0 <= x - q /\ x - q < D /\ x - q < B
  BY <1>2, <1>3, TdNumbers DEF CycleOK, TypeOK
<1>5. r = x - q
  <2>1. r = (x - q) % B
    BY <1>2, <1>3, RelIs
  <2> HIDE DEF x, q, r
  <2> QED  BY <1>4, <2>1, ModLap
<1>6. ASSUME NEW a \in Again(o)
      PROVE  a \in AttemptType /\ Reports(a, b, o.end)
  <2>1. a \in o.attempts /\ a.of = o.target.of /\ Dist(InCycle(a.at, o), r) < Tol
    BY <1>1 DEF Again
  <2>2. PICK c \in air : Reports(a, c, o.end)
    BY <2>1 DEF CycleOK
  <2>3. a \in AttemptType /\ a.at \in Int /\ InCycle(a.at, o) = a.at - q
    BY <2>1 DEF CycleOK, AttemptType, InCycle
  <2>4. Dist(b.at, a.at) < Tol
    <3> HIDE DEF x, q, r
    <3>1. a.at - q \in Int /\ r \in Int
      BY <1>4, <1>5, <2>3
    <3>2. (a.at - q) - r < Tol /\ r - (a.at - q) < Tol
      BY <2>1, <2>3, <3>1, DistInt
    <3>3. b.at - a.at < Tol /\ a.at - b.at < Tol
      BY <1>3, <1>4, <1>5, <2>3, <3>2
    <3>4. b.at \in Int
      BY <1>2
    <3> QED  BY <2>3, <3>3, <3>4, DistInt
  <2>5. c.of = b.of
    BY <1>1, <2>1, <2>2 DEF Reports
  <2>6. c = b
    BY <1>2, <2>2, <2>3, <2>4, <2>5, NearIsSame DEF CycleOK
  <2> QED  BY <2>2, <2>3, <2>6
<1>7. ~Resolved(o)
  <2>1. ~(\E a \in Again(o) : a.decoded)
    BY <1>6 DEF Reports
  <2>2. ~(r >= D)
    BY <1>4, <1>5, TdNumbers
  <2> QED  BY <1>1, <2>1, <2>2 DEF Resolved
<1>8. PICK a \in o.attempts : Reports(a, b, o.end) /\ ~a.phantom
  BY DEF CycleOK
<1>9. a \in FailedAgain(o)
  <2>1. a.at = b.at /\ a.of = o.target.of /\ ~a.decoded
    BY <1>1, <1>8 DEF Reports
  <2>2. InCycle(a.at, o) = r
    BY <1>3, <1>5, <2>1 DEF InCycle
  <2>3. Dist(r, r) < Tol
    <3> HIDE DEF r
    <3>1. r \in Int
      BY <1>4, <1>5
    <3> QED  BY <3>1, TdNumbers DEF Dist
  <2>4. a \in Again(o)
    BY <1>1, <2>1, <2>2, <2>3 DEF Again
  <2> QED  BY <1>1, <1>7, <2>1, <2>4 DEF FailedAgain
<1>10. ASSUME NEW c \in FailedAgain(o)  PROVE Confirms(o, c)
  <2>1. c \in Again(o)
    BY DEF FailedAgain
  <2>2. ~(o.end < b.at + Span)
    BY <1>2, TdNumbers DEF CycleOK
  <2>3. ~c.cut
    BY <1>6, <2>1, <2>2 DEF Reports
  <2> QED  BY <2>3 DEF Confirms, Truncation
<1>11. q + r = x
  <2> HIDE DEF x, q, r
  <2> QED  BY <1>4, <1>5
<1> QED  BY <1>9, <1>10, <1>11 DEF Unconfirmed

(* What a cycle leaves to be confirmed: a match that was cut off, or what    *)
(* was held and not confirmed.                                              *)
LEMMA LeavesHeld ==
    ASSUME TdInv, NEW o, CycleOK(o), Step(o), pending_confirm' # None
    PROVE  \/ \E a \in o.attempts : a.cut /\ pending_confirm' = FreshHit(o, a)
           \/ /\ ToConfirm(o) # None /\ pending_confirm' = pending_confirm
              /\ pending_confirm # None /\ Unconfirmed(o)
<1>1. ASSUME NothingConfirmed(o)
      PROVE  /\ ToConfirm(o) # None /\ pending_confirm' = pending_confirm
             /\ pending_confirm # None /\ Unconfirmed(o)
  <2>1. pending_confirm' = ToConfirm(o)
    BY <1>1, StillHeldIs DEF NothingConfirmed
  <2> QED  BY <1>1, <2>1, HeldFor DEF NothingConfirmed
<1>2. ASSUME Fresh(o)  PROVE \/ \E a \in o.attempts : a.cut /\ pending_confirm' = FreshHit(o, a)
                            \/ NothingConfirmed(o)
  BY <1>2 DEF Fresh, Matches, Truncation
<1>3. ASSUME Wait(o)  PROVE NothingConfirmed(o)
  <2>1. o.target # NoTarget
    BY <1>3, HeldFor DEF Wait
  <2> QED  BY <1>3, <2>1 DEF Wait
<1> QED  BY <1>1, <1>2, <1>3 DEF Step, Off, Confirmed, Retry

LEMMA StepCutInv ==
    ASSUME CutsInReach, TdInv, CutInv, NEW o, CycleOK(o), Step(o)  PROVE CutInv'
<1>1. head' = o.end /\ air' = air
  BY DEF Step
<1> SUFFICES ASSUME pending_confirm' # None, pending_confirm'.bad, ~pending_confirm'.phantom,
                    o.end - D <= pending_confirm'.pos
             PROVE  \E b \in air : /\ b.at = pending_confirm'.at /\ b.of = pending_confirm'.of
                                   /\ ~b.good /\ o.end < b.at + Span
  BY <1>1 DEF CutInv
<1>2. CASE \E a \in o.attempts : a.cut /\ pending_confirm' = FreshHit(o, a)
  <2>1. PICK a \in o.attempts : a.cut /\ pending_confirm' = FreshHit(o, a)
    BY <1>2
  <2>2. PICK b \in air : Reports(a, b, o.end)
    BY DEF CycleOK
  <2>3. /\ pending_confirm'.at = a.at /\ pending_confirm'.of = a.of
        /\ pending_confirm'.bad = a.bad /\ pending_confirm'.phantom = a.phantom
    BY <2>1, FreshIs DEF TdInv
  <2> QED  BY <2>1, <2>2, <2>3 DEF Reports
<1>3. CASE /\ ToConfirm(o) # None /\ pending_confirm' = pending_confirm
           /\ pending_confirm # None /\ Unconfirmed(o)
  <2>1. /\ pending_confirm.pos \in Int /\ head \in Nat /\ o.end \in Nat /\ head < o.end
        /\ pending_confirm.pos = pending_confirm.at
    BY <1>3, TdNumbers DEF TdInv, TypeOK, HitType, CycleOK, HeldInv
  <2>2. head - D <= pending_confirm.pos
    BY <1>3, <2>1, TdNumbers
  <2>3. PICK b \in air : /\ b.at = pending_confirm.at /\ b.of = pending_confirm.of
                         /\ ~b.good
    BY <1>3, <2>2 DEF CutInv
  <2>4. ~(b.at + Span <= o.end)
    BY <1>3, <2>1, <2>3, WholeConfirms
  <2>5. o.end < b.at + Span
    BY <2>1, <2>3, <2>4, TdNumbers
  <2> QED  BY <1>3, <2>3, <2>5
<1> QED  BY <1>2, <1>3, LeavesHeld

LEMMA StepConfirms ==
    ASSUME CutsInReach, TdInv, CutInv, NEW o, CycleOK(o), Step(o),
           pending_confirm # None, pending_confirm.bad, ~pending_confirm.phantom,
           Undisturbed(pending_confirm)
    PROVE  \/ Serves(pending_confirm)
           \/ pending_hit' # None /\ pending_hit'.pos = pending_confirm.pos
<1>1. /\ o.on /\ o.target = target /\ head - D <= pending_confirm.pos
      /\ o.end - head <= Regular /\ target.kind = "chipset" /\ TypeOK
  BY DEF Step, Undisturbed, TdInv, CauseInv
<1>2. PICK b \in air : /\ b.at = pending_confirm.at /\ b.of = pending_confirm.of
                       /\ ~b.good /\ head < b.at + Span
  BY <1>1 DEF CutInv
<1>3. ToConfirm(o) = pending_confirm
  BY <1>1 DEF ToConfirm
<1>4. b.at \in Nat /\ b.at <= head
  BY <1>2, TdAssumption DEF TdInv, TypeOK, Burst, HeldInv
<1>5. o.end - D <= b.at /\ b.at + Span <= o.end
  <2>1. Span <= o.end - head /\ o.end - head \in Nat /\ o.end \in Nat /\ head \in Nat
    BY TdNumbers DEF CutsInReach, CycleOK, TdInv, TypeOK
  <2> QED  BY <1>1, <1>2, <1>4, <2>1, TdNumbers DEF CutsInReach
<1>6. ~Unconfirmed(o) /\ o.end - D + Rel(pending_confirm, o) = pending_confirm.pos
  BY <1>2, <1>3, <1>5, WholeConfirms
<1>7. ~NothingConfirmed(o)
  BY <1>1, <1>6 DEF NothingConfirmed
<1>8. Confirmed(o)
  <2>1. target # NoTarget
    BY <1>1 DEF NoTarget
  <2> QED  BY <1>1, <1>6, <1>7, <2>1 DEF Step, Off, Retry, Fresh, Wait
<1> DEFINE h(a) == Candidate(o, a, Rel(ToConfirm(o), o), ToConfirm(o).abs, TRUE)
<1>9. PICK a \in o.attempts : Confirms(o, a) /\ Serve(o, h(a))
  BY <1>8 DEF Confirmed
<1>10. h(a) \in HitType /\ h(a).pos = pending_confirm.pos
  BY <1>1, <1>6, <1>9, ConfirmedReady DEF Ready
<1> HIDE DEF h
<1> QED  BY <1>9, <1>10, ServeKeeps DEF Serves

(* A burst that the end of the window cut off and that is really bad comes   *)
(* out as a failure in the next cycle.                                      *)
THEOREM CutOffBadIsConfirmed == ASSUME CutsInReach  PROVE Spec => BadIsConfirmed
<1> DEFINE A == (/\ pending_confirm # None /\ pending_confirm.bad /\ ~pending_confirm.phantom
                 /\ Undisturbed(pending_confirm)) =>
                   \/ Serves(pending_confirm)
                   \/ pending_hit' # None /\ pending_hit'.pos = pending_confirm.pos
<1>1. Init => CutInv
  BY DEF Init, CutInv
<1>2. TdInv /\ CutInv /\ [Next]_vars => CutInv' /\ [A]_vars
  <2> SUFFICES ASSUME TdInv, CutInv, [Next]_vars  PROVE CutInv' /\ [A]_vars
    OBVIOUS
  <2>1. CASE Next
    <3>1. PICK g \in Gaps, j \in 0..Jitter, on \in BOOLEAN, t \in Targets :
            \E opt \in SUBSET Optional(head + g) : Step(Cycle(g, j, on, t, opt))
      BY <2>1 DEF Next
    <3>2. PICK opt \in SUBSET Optional(head + g) : Step(Cycle(g, j, on, t, opt))
      BY <3>1
    <3>3. CycleOK(Cycle(g, j, on, t, opt))
      BY CycleFacts DEF TdInv
    <3> QED  BY <3>2, <3>3, StepCutInv, StepConfirms
  <2>2. CASE UNCHANGED vars
    BY <2>2 DEF vars, CutInv
  <2> QED  BY <2>1, <2>2
<1>3. Spec => [][A]_vars
  <2> HIDE DEF A
  <2> QED  BY <1>1, <1>2, TdAlways, PTL DEF Spec
<1> QED  BY <1>3 DEF BadIsConfirmed
=============================================================================
