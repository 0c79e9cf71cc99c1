--------------------------- MODULE AnalysisProofs ---------------------------
(***************************************************************************)
(* The analysis of a recording, for windows, packets and recordings of any *)
(* number and length: that packets are kept once and at their place, and   *)
(* that the search for the symbols follows the packet.  Module             *)
(* RecordingProofs states the theorems.                                    *)
(***************************************************************************)
EXTENDS Analysis, WellFoundedInduction, TLAPS

-----------------------------------------------------------------------------
(* Least and greatest elements, and the nearest of a set of crossings.     *)

LEMMA NatLeast ==
  ASSUME NEW T \in SUBSET Nat, T # {}
  PROVE  \E m \in T : \A n \in T : m <= n
<1> DEFINE R == OpToRel(<, Nat)
<1>1. IsWellFoundedOn(R, Nat)
  BY NatLessThanWellFounded
<1>2. \A x, y \in Nat : x < y => <<x, y>> \in R
  BY DEF OpToRel
<1> HIDE DEF R
<1>3. PICK m \in T : \A y \in T : <<y, m>> \notin R
  BY <1>1, WFMin
<1>4. \A n \in T : n \in Nat /\ ~(n < m) /\ m \in Nat
  BY <1>2, <1>3
<1> QED  BY <1>3, <1>4

LEMMA MinOf ==
  ASSUME NEW S \in SUBSET Int, S # {}, NEW b \in Int, \A x \in S : b <= x
  PROVE  Min(S) \in S /\ \A x \in S : Min(S) <= x
<1> DEFINE T == {x - b : x \in S}
<1>0. PICK x0 \in S : TRUE
  OBVIOUS
<1>1. T \in SUBSET Nat /\ T # {}
  BY <1>0
<1>2. PICK m \in T : \A n \in T : m <= n
  BY <1>1, NatLeast
<1>3. PICK x \in S : m = x - b
  BY <1>2
<1>4. \A y \in S : y - b \in T
  OBVIOUS
<1> HIDE DEF T
<1>5. \A y \in S : x <= y
  BY <1>2, <1>3, <1>4
<1> QED  BY <1>5 DEF Min

LEMMA MaxOf ==
  ASSUME NEW S \in SUBSET Int, S # {}, NEW b \in Int, \A x \in S : x <= b
  PROVE  Max(S) \in S /\ \A x \in S : x <= Max(S)
<1> DEFINE T == {b - x : x \in S}
<1>0. PICK x0 \in S : TRUE
  OBVIOUS
<1>1. T \in SUBSET Nat /\ T # {}
  BY <1>0
<1>2. PICK m \in T : \A n \in T : m <= n
  BY <1>1, NatLeast
<1>3. PICK x \in S : m = b - x
  BY <1>2
<1>4. \A y \in S : b - y \in T
  OBVIOUS
<1> HIDE DEF T
<1>5. \A y \in S : x >= y
  BY <1>2, <1>3, <1>4
<1>6. Max(S) \in S /\ \A y \in S : Max(S) >= y
  BY <1>5 DEF Max
<1> QED  BY <1>6

Far(x, target) == IF x < target THEN target - x ELSE x - target

(* nearest_xing returns one of the crossings, the first of the nearest.    *)
LEMMA NearestXing ==
  ASSUME NEW xs \in SUBSET Int, NEW target \in Int
  PROVE  LET z == nearest_xing(xs, target) IN
         /\ z \in Int
         /\ xs = {} => z = target
         /\ xs # {} => z \in xs /\ \A y \in xs : \/ Far(z, target) < Far(y, target)
                                                 \/ Far(z, target) = Far(y, target) /\ z <= y
<1> DEFINE T == {Far(x, target) : x \in xs}
           First(x) == \A y \in xs : \/ Far(x, target) < Far(y, target)
                                     \/ Far(x, target) = Far(y, target) /\ x <= y
<1>1. CASE xs = {}
  BY <1>1 DEF nearest_xing
<1>2. CASE xs # {}
  <2>1. T \in SUBSET Nat /\ T # {}
    <3>1. \A x \in xs : Far(x, target) \in Nat
      BY DEF Far
    <3>2. PICK x \in xs : TRUE
      BY <1>2
    <3> QED  BY <3>1, <3>2
  <2>2. PICK m \in T : \A n \in T : m <= n
    BY <2>1, NatLeast
  <2>3. m \in Nat /\ \A y \in xs : y \in Int /\ Far(y, target) \in Nat /\ m <= Far(y, target)
    BY <2>1, <2>2
  <2>4. PICK x0 \in xs : Far(x0, target) = m
    BY <2>2
  <2> HIDE DEF T
  <2>5. \E x \in xs : First(x)
    <3>1. CASE target - m \in xs
      <4>1. Far(target - m, target) = m
        BY <2>3 DEF Far
      <4>2. ASSUME NEW y \in xs, Far(y, target) = m
            PROVE  target - m <= y
        BY <2>3, <4>2 DEF Far
      <4>3. First(target - m)
        BY <2>3, <4>1, <4>2
      <4> QED  BY <3>1, <4>3
    <3>2. CASE target - m \notin xs
      <4>1. ASSUME NEW y \in xs, Far(y, target) = m
            PROVE  y = target + m
        BY <2>3, <3>2, <4>1 DEF Far
      <4>2. x0 = target + m
        BY <2>4, <4>1
      <4>3. First(x0)
        BY <2>3, <2>4, <4>1, <4>2
      <4> QED  BY <4>3
    <3> QED  BY <3>1, <3>2
  <2>6. nearest_xing(xs, target) = CHOOSE x \in xs : First(x)
    BY <1>2 DEF nearest_xing, Far
  <2> QED  BY <1>2, <2>5, <2>6
<1> QED  BY <1>1, <1>2

(* A crossing that is nearer than any other is found.                      *)
LEMMA NearestIs ==
  ASSUME NEW xs \in SUBSET Int, NEW target \in Int, NEW r \in xs,
         \A y \in xs \ {r} : \/ Far(r, target) < Far(y, target)
                             \/ Far(r, target) = Far(y, target) /\ r < y
  PROVE  nearest_xing(xs, target) = r
<1> DEFINE z == nearest_xing(xs, target)
<1>1. z \in xs /\ \/ Far(z, target) < Far(r, target)
                  \/ Far(z, target) = Far(r, target) /\ z <= r
  BY NearestXing
<1>2. z \in xs
  BY <1>1
<1> HIDE DEF z
<1>4. z \in Int /\ r \in Int /\ Far(z, target) \in Int /\ Far(r, target) \in Int
  BY <1>2 DEF Far
<1>3. ~(z # r)
  BY <1>1, <1>4
<1> QED  BY <1>3 DEF z
-----------------------------------------------------------------------------
(* Whatever crosses the threshold, the symbols found lie in the segment    *)
(* and one behind the other (correct_symbol_edges' clamps).                *)

LEMMA EdgeNumbers ==
  /\ SymLen \in Nat \ {0} /\ Slot \in Nat /\ Gap \in Nat \ {0} /\ Slot = SymLen + Gap
  /\ search_margin \in Nat /\ Gap <= search_margin /\ 2 * search_margin <= SymLen
  /\ fall_margin \in Nat /\ fall_margin <= Gap
  /\ Jitter \in Nat /\ Jitter < search_margin
  /\ Tol \in Nat /\ 2 * Jitter < Tol /\ NumSym \in Nat \ {0}
BY EdgesAssumption, AnalysisAssumption DEF Gap, search_margin, fall_margin, AtLeast

LEMMA Limits ==
  ASSUME NEW x \in Int, NEW y \in Int
  PROVE  /\ AtLeast(x, y) \in Int /\ x <= AtLeast(x, y) /\ y <= AtLeast(x, y)
         /\ AtLeast(x, y) \in {x, y}
         /\ AtMost(x, y) \in Int /\ AtMost(x, y) <= x /\ AtMost(x, y) <= y
         /\ AtMost(x, y) \in {x, y}
BY DEF AtLeast, AtMost

EdgesInv ==
  /\ seg.n \in Int /\ seg.nom \in Int /\ seg.count \in Nat
  /\ seg.rising \subseteq Int /\ seg.falling \subseteq Int
  /\ k \in 0..seg.count
  /\ prev_end \in Int /\ -1 <= prev_end
  /\ edges \in Seq(Int \X Int) /\ Len(edges) <= k
  /\ prev_end = IF edges = <<>> THEN -1 ELSE edges[Len(edges)][2]
  /\ Apart(edges, seg.n)

(* The start and the end that are found, before they are clamped.          *)
LEMMA SymbolTypes ==
  ASSUME EdgesInv
  PROVE  /\ nom_s \in Int /\ search_center \in Int
         /\ SymbolStart \in Int /\ prev_end + 1 <= SymbolStart
         /\ \A s \in Int : SymbolEnd(s) \in Int /\ s + 1 <= SymbolEnd(s)
<1>1. nom_s \in Int
  <2>1. k \in Int /\ seg.nom \in Int /\ Slot \in Int
    BY EdgeNumbers DEF EdgesInv
  <2>2. k * Slot \in Int
    BY <2>1
  <2> QED  BY <2>1, <2>2 DEF nom_s
<1>2. search_center \in Int
  BY EdgeNumbers, <1>1 DEF EdgesInv, search_center
<1>3. \A c : RisesNear(c) \in SUBSET Int
  BY DEF EdgesInv, RisesNear
<1>4. SymbolStart \in Int /\ prev_end + 1 <= SymbolStart
  <2> DEFINE cands == IF RisesNear(search_center) # {} THEN RisesNear(search_center)
                                                       ELSE RisesNear(nom_s)
  <2>1. cands \in SUBSET Int
    BY <1>3
  <2>2. nearest_xing(cands, search_center) \in Int
    BY <1>2, <2>1, NearestXing
  <2>3. SymbolStart = AtLeast(nearest_xing(cands, search_center), prev_end + 1)
    BY DEF SymbolStart
  <2> HIDE DEF cands
  <2>4. prev_end + 1 \in Int
    BY DEF EdgesInv
  <2> QED  BY <2>2, <2>3, <2>4, Limits
<1>5. ASSUME NEW s \in Int
      PROVE  SymbolEnd(s) \in Int /\ s + 1 <= SymbolEnd(s)
  <2> DEFINE falls == {x \in seg.falling : /\ AtLeast(s + SymLen - fall_margin, 0) <= x
                                           /\ x <= AtMost(s + SymLen + fall_margin, seg.n)}
  <2>1. falls \in SUBSET Int
    BY DEF EdgesInv
  <2>2. SymbolEnd(s) = AtLeast(nearest_xing(falls, s + SymLen), s + 1)
    BY DEF SymbolEnd
  <2> HIDE DEF falls
  <2>3. s + SymLen \in Int /\ s + 1 \in Int
    BY EdgeNumbers
  <2>4. nearest_xing(falls, s + SymLen) \in Int
    BY <2>1, <2>3, NearestXing
  <2> QED  BY <2>2, <2>3, <2>4, Limits
<1> QED  BY <1>1, <1>2, <1>4, <1>5

(* Start and end of the symbol that CorrectSymbol appends.                 *)
FoundStart == AtLeast(AtMost(SymbolStart, seg.n - 1), 0)
FoundEnd == AtLeast(AtMost(SymbolEnd(SymbolStart), seg.n), FoundStart + 1)

LEMMA FoundPlace ==
  ASSUME EdgesInv, InRange
  PROVE  /\ FoundStart \in Int /\ FoundEnd \in Int
         /\ 0 <= FoundStart /\ FoundStart < FoundEnd /\ FoundEnd <= seg.n
         /\ prev_end < FoundStart \/ prev_end >= seg.n - 1
         /\ SymbolStart <= seg.n - 1 => FoundStart = SymbolStart
<1>1. seg.n \in Int /\ 1 <= seg.n /\ prev_end \in Int /\ -1 <= prev_end
  BY SymbolTypes, EdgeNumbers DEF EdgesInv, InRange
<1>2. SymbolStart \in Int /\ SymbolEnd(SymbolStart) \in Int /\ prev_end + 1 <= SymbolStart
  BY SymbolTypes
<1>3. \A n, p, s, e \in Int : 1 <= n /\ -1 <= p /\ p + 1 <= s =>
        LET a == AtLeast(AtMost(s, n - 1), 0)
            b == AtLeast(AtMost(e, n), a + 1)
        IN  /\ a \in Int /\ b \in Int /\ 0 <= a /\ a < b /\ b <= n
            /\ p < a \/ p >= n - 1
            /\ s <= n - 1 => a = s
  BY DEF AtLeast, AtMost
<1> QED  BY <1>1, <1>2, <1>3 DEF FoundStart, FoundEnd

LEMMA CorrectSymbolInv ==
  ASSUME EdgesInv, CorrectSymbol
  PROVE  EdgesInv'
<1> DEFINE s == FoundStart
           e == FoundEnd
<1>1. /\ edges' = Append(edges, <<s, e>>) /\ prev_end' = e
      /\ k' = k + 1 /\ seg' = seg /\ k < seg.count /\ InRange
  BY DEF CorrectSymbol, FoundStart, FoundEnd
<1>2. /\ s \in Int /\ e \in Int /\ 0 <= s /\ s < e /\ e <= seg.n
      /\ prev_end < s \/ prev_end >= seg.n - 1
  BY <1>1, FoundPlace
<1> HIDE DEF s, e
<1>3. edges' \in Seq(Int \X Int) /\ Len(edges') = Len(edges) + 1 /\ Len(edges) \in Nat
  BY <1>1, <1>2 DEF EdgesInv
<1>4. \A i \in 1..Len(edges) : edges'[i] = edges[i]
  BY <1>1, <1>2 DEF EdgesInv
<1>5. edges'[Len(edges')] = <<s, e>>
  BY <1>1, <1>2, <1>3 DEF EdgesInv
<1>6. Apart(edges', seg.n)
  <2>1. ASSUME NEW i \in 1..Len(edges')
        PROVE  0 <= edges'[i][1] /\ edges'[i][1] < edges'[i][2] /\ edges'[i][2] <= seg.n
    <3>1. CASE i = Len(edges')
      BY <1>2, <1>5, <3>1
    <3>2. CASE i # Len(edges')
      <4>1. i \in 1..Len(edges)
        BY <1>3, <3>2
      <4>2. 0 <= edges[i][1] /\ edges[i][1] < edges[i][2] /\ edges[i][2] <= seg.n
        BY <4>1 DEF EdgesInv, Apart
      <4> QED  BY <1>4, <4>1, <4>2
    <3> QED  BY <3>1, <3>2
  <2>2. ASSUME NEW i \in 1..Len(edges')-1
        PROVE  edges'[i][2] < edges'[i+1][1] \/ edges'[i][2] >= seg.n - 1
    <3>1. CASE i = Len(edges)
      <4>1. edges # <<>> /\ edges[i][2] = prev_end
        BY <2>2, <1>3, <3>1 DEF EdgesInv
      <4>2. edges'[i] = edges[i] /\ edges'[i+1] = <<s, e>>
        BY <2>2, <1>3, <1>4, <1>5, <3>1
      <4> QED  BY <1>2, <4>1, <4>2
    <3>2. CASE i # Len(edges)
      <4>1. i \in 1..Len(edges)-1 /\ i + 1 \in 1..Len(edges)
        BY <2>2, <1>3, <3>2
      <4>2. edges[i][2] < edges[i+1][1] \/ edges[i][2] >= seg.n - 1
        BY <4>1 DEF EdgesInv, Apart
      <4>3. edges'[i] = edges[i] /\ edges'[i+1] = edges[i+1]
        BY <1>4, <4>1
      <4> QED  BY <4>2, <4>3
    <3> QED  BY <3>1, <3>2
  <2> QED  BY <2>1, <2>2 DEF Apart
<1>7. /\ k' \in 0..seg.count /\ Len(edges') <= k' /\ prev_end' \in Int /\ -1 <= prev_end'
      /\ prev_end' = IF edges' = <<>> THEN -1 ELSE edges'[Len(edges')][2]
  <2>1. edges' # <<>>
    BY <1>3
  <2>2. /\ k' \in 0..seg.count /\ Len(edges') <= k' /\ prev_end' \in Int
        /\ -1 <= prev_end'
    BY <1>1, <1>2, <1>3 DEF EdgesInv
  <2>3. prev_end' = edges'[Len(edges')][2]
    BY <1>1, <1>5
  <2> QED  BY <2>1, <2>2, <2>3
<1> QED  BY <1>1, <1>3, <1>6, <1>7 DEF EdgesInv

LEMMA SkipSymbolInv == EdgesInv /\ SkipSymbol => EdgesInv'
BY DEF EdgesInv, SkipSymbol

LEMMA EdgesStartInv ==
  ASSUME NEW n \in Int, NEW nom \in Int, NEW count \in Nat, NEW rising \in SUBSET Int,
         NEW falling \in SUBSET Int, EdgesStart(Segment(n, nom, count, rising, falling))
  PROVE  EdgesInv'
<1>1. /\ seg' = Segment(n, nom, count, rising, falling)
      /\ k' = 0 /\ prev_end' = -1 /\ edges' = <<>>
  BY DEF EdgesStart
<1>2. /\ seg'.n = n /\ seg'.nom = nom /\ seg'.count = count
      /\ seg'.rising = rising /\ seg'.falling = falling
  BY <1>1 DEF Segment
<1>3. edges' \in Seq(Int \X Int) /\ Len(edges') = 0
  BY <1>1
<1>4. Apart(edges', seg'.n)
  BY <1>3 DEF Apart
<1> QED  BY <1>1, <1>2, <1>3, <1>4 DEF EdgesInv
-----------------------------------------------------------------------------
(* What is known of the packets of a recording.                            *)

LEMMA ProductAtLeast ==
  ASSUME NEW m \in Nat, NEW n \in Nat
  PROVE  m * n \in Nat
OBVIOUS

LEMMA PacketNumbers ==
  ASSUME rec \in Recordings
  PROVE  /\ rec.n \in Nat \ {0}
         /\ \A p \in rec.packets :
              /\ p.at \in Nat /\ p.drift \in Int /\ SymLen < Slot + p.drift
              /\ p.faded \subseteq 0..NumSym-1
              /\ PacketEnd(p) \in Int /\ p.at + SymLen <= PacketEnd(p)
              /\ PacketEnd(p) - p.at <= Win - Step + 1
<1>1. rec.n \in Nat \ {0}
  BY RecordingsAssumption
<1>2. ASSUME NEW p \in rec.packets
      PROVE  /\ p.at \in Nat /\ p.drift \in Int /\ SymLen < Slot + p.drift
             /\ p.faded \subseteq 0..NumSym-1
             /\ PacketEnd(p) \in Int /\ p.at + SymLen <= PacketEnd(p)
             /\ PacketEnd(p) - p.at <= Win - Step + 1
  <2>1. /\ p.at \in Nat /\ p.drift \in Int /\ -Gap < p.drift
        /\ p.faded \subseteq 0..NumSym-1
        /\ PacketEnd(p) - p.at <= Win - Step + 1
    BY <1>2, RecordingsAssumption
  <2>2. SymLen < Slot + p.drift
    BY <2>1, EdgeNumbers
  <2>3. NumSym - 1 \in Nat /\ Slot + p.drift \in Nat
    BY <2>1, <2>2, EdgeNumbers
  <2>4. (NumSym - 1) * (Slot + p.drift) \in Nat
    BY <2>3, ProductAtLeast
  <2> DEFINE w == (NumSym - 1) * (Slot + p.drift)
  <2>5. PacketEnd(p) = (p.at + w) + SymLen
    BY DEF PacketEnd, SymEnd, SymStart
  <2> HIDE DEF w
  <2>6. w \in Nat
    BY <2>4 DEF w
  <2>7. PacketEnd(p) \in Int /\ p.at + SymLen <= PacketEnd(p)
    BY <2>1, <2>5, <2>6, EdgeNumbers
  <2> QED  BY <2>1, <2>2, <2>7
<1> QED  BY <1>1, <1>2

LEMMA WindowNumbers ==
  ASSUME NEW n \in Nat
  PROVE  /\ window_offsets(n) \in SUBSET Nat /\ window_offsets(n) # {}
         /\ \A o \in window_offsets(n) : o <= n
BY AnalysisAssumption DEF window_offsets

(* The windows overlap by more than a packet is long: each packet of the   *)
(* recording lies whole in one of them.                                    *)
LEMMA EveryPacketInAWindow ==
  ASSUME rec \in Recordings, NEW p \in rec.packets, PacketEnd(p) <= rec.n
  PROVE  \E o \in window_offsets(rec.n) : Within(p, o)
<1> DEFINE n == rec.n
           a == p.at
           e == PacketEnd(p)
<1>1. /\ n \in Nat /\ a \in Nat /\ e \in Int /\ a <= e /\ e <= n
      /\ e - a <= Win - Step + 1
  BY PacketNumbers, EdgeNumbers
<1>2. Win \in Nat \ {0} /\ Step \in Nat \ {0}
  BY AnalysisAssumption DEF Step, AtLeast
<1>3. \A o \in Int : Within(p, o) <=> o <= a /\ e <= o + Win /\ e <= n
  BY <1>1, <1>2 DEF Within, AtMost
<1> HIDE DEF n, a, e
<1>4. CASE n <= Win
  <2>1. 0 \in window_offsets(n)
    BY <1>4 DEF window_offsets
  <2>2. Within(p, 0)
    BY <1>1, <1>2, <1>3, <1>4
  <2> QED  BY <2>1, <2>2 DEF n
<1>5. CASE ~(n <= Win)
  <2> DEFINE o == a - (a % Step)
  <2>1. a % Step \in 0..Step-1
    BY <1>1, <1>2
  <2>2. o % Step = 0 /\ o \in Nat
    BY <1>1, <1>2
  <2>3. o \in Nat /\ o <= a /\ a <= o + Step - 1
    BY <1>1, <1>2, <2>1, <2>2
  <2> HIDE DEF o
  <2>4. CASE o <= n - Win
    <3>1. o \in window_offsets(n)
      BY <1>1, <1>2, <1>5, <2>2, <2>3, <2>4 DEF window_offsets
    <3>2. Within(p, o)
      BY <1>1, <1>2, <1>3, <2>3
    <3> QED  BY <3>1, <3>2 DEF n
  <2>5. CASE ~(o <= n - Win)
    <3>1. n - Win \in window_offsets(n) /\ n - Win \in Int
      BY <1>1, <1>2, <1>5 DEF window_offsets
    <3>2. Within(p, n - Win)
      BY <1>1, <1>2, <1>3, <2>3, <2>5
    <3> QED  BY <3>1, <3>2 DEF n
  <2> QED  BY <2>4, <2>5
<1> QED  BY <1>4, <1>5
-----------------------------------------------------------------------------
(* Each packet is reported once.  A report is Placed: its start is that of *)
(* its packet or of one the packet is mistaken for.  Of a packet that can  *)
(* be confused with no other, each window that was decoded and holds it    *)
(* has left a report, and the accepted ones with the current one are one.  *)

Near(d, x) == d.abs_start \in x.at - Jitter .. x.at + Jitter

Placed(d) ==
  /\ d.of \in rec.packets /\ PacketEnd(d.of) <= rec.n /\ d.abs_start \in 0..rec.n-1
  /\ \E x \in rec.packets : (x = d.of \/ Mistakable(d.of, x)) /\ Near(d, x)

Current == IF cur = None THEN {} ELSE {cur}

Clear(p) == PacketEnd(p) <= rec.n /\ \A q \in rec.packets \ {p} : ~Confusable(p, q)

Alone(p) == \A q \in rec.packets \ {p} : ~Mistakable(p, q)

NoLoss(p) ==
  \A o \in window_offsets(rec.n) \ (left \cup failed) :
     Within(p, o) => \E d \in packets \cup Current \cup accepted : d.of = p

NoTwins(p) ==
  /\ \A b, c \in accepted : b.of = p /\ c.of = p => b = c
  /\ \A b \in accepted, c \in Current : ~(b.of = p /\ c.of = p)

PacketsInv ==
  /\ \/ rec \in Recordings
     \/ /\ rec = NoRecording /\ left = {} /\ failed = {} /\ packets = {}
        /\ cur = None /\ accepted = {}
  /\ left \cup failed \subseteq window_offsets(rec.n)
  /\ \A d \in packets \cup Current \cup accepted : Placed(d)
  /\ \A p \in rec.packets : Clear(p) => NoLoss(p) /\ NoTwins(p)

LEMMA ClearIsAlone == ASSUME NEW p, Clear(p)  PROVE Alone(p)
BY DEF Clear, Alone, Confusable

(* A report of a packet that is mistaken for no other is near its start.   *)
LEMMA AloneIsNear ==
  ASSUME NEW d, Placed(d), Alone(d.of)
  PROVE  Near(d, d.of)
BY DEF Placed, Alone

(* The duplicate test does not take another packet's report for this one's *)
(* and finds a second report of it.                                        *)
LEMMA DuplicateIsOwn ==
  ASSUME rec \in Recordings, NEW d, Placed(d), NEW b, Placed(b), Clear(d.of),
         Content(b.of) = Content(d.of),
         b.abs_start - d.abs_start < Tol, d.abs_start - b.abs_start < Tol
  PROVE  b.of = d.of
<1>1. Near(d, d.of)
  BY ClearIsAlone, AloneIsNear
<1>2. PICK x \in rec.packets : (x = b.of \/ Mistakable(b.of, x)) /\ Near(b, x)
  BY DEF Placed
<1>3. d.of \in rec.packets /\ b.of \in rec.packets
  BY DEF Placed
<1>4. d.of.at \in Int /\ x.at \in Int
  BY <1>3, PacketNumbers
<1>5. d.of.at - x.at \in -Tol-2*Jitter+1 .. Tol+2*Jitter-1
  <2> DEFINE da == d.abs_start
             ba == b.abs_start
             pa == d.of.at
             xa == x.at
  <2>1. da \in pa - Jitter .. pa + Jitter /\ ba \in xa - Jitter .. xa + Jitter
    BY <1>1, <1>2 DEF Near
  <2>2. pa \in Int /\ xa \in Int /\ ba - da < Tol /\ da - ba < Tol
    BY <1>4
  <2> HIDE DEF da, ba, pa, xa
  <2>3. pa - xa \in -Tol-2*Jitter+1 .. Tol+2*Jitter-1
    BY <2>1, <2>2, EdgeNumbers
  <2> QED  BY <2>3 DEF pa, xa
<1>6. b.of # d.of => Confusable(d.of, b.of)
  BY <1>2, <1>5 DEF Confusable
<1> QED  BY <1>3, <1>6 DEF Clear

LEMMA SecondIsDuplicate ==
  ASSUME rec \in Recordings, NEW d, Placed(d), NEW b \in accepted, Placed(b),
         Clear(d.of), b.of = d.of
  PROVE  is_duplicate(d)
<1>1. Near(d, d.of) /\ Near(b, d.of)
  BY ClearIsAlone, AloneIsNear
<1>2. d.of.at \in Int
  BY PacketNumbers DEF Placed
<1>3. b.abs_start - d.abs_start < Tol /\ d.abs_start - b.abs_start < Tol
  BY <1>1, <1>2, EdgeNumbers DEF Near
<1> QED  BY <1>3 DEF is_duplicate

LEMMA NoneIsNotPlaced == ~Placed(None)
BY DEF Placed, None

(* What is said of the recording stays while it is the same.               *)
LEMMA SameRecording ==
  ASSUME rec' = rec
  PROVE  /\ \A d : Placed(d)' <=> Placed(d)
         /\ \A p : Clear(p)' <=> Clear(p)
         /\ \A p : Alone(p)' <=> Alone(p)
         /\ \A p, o : Within(p, o)' <=> Within(p, o)
BY DEF Placed, Clear, Alone, Confusable, Mistakable, Within, Near

LEMMA StartAnalysisPackets ==
  ASSUME PacketsInv, rec = NoRecording, NEW r \in Recordings, StartAnalysis(r)
  PROVE  PacketsInv'
<1>1. rec' = r /\ left' = window_offsets(r.n) /\ UNCHANGED <<failed, packets, cur, accepted>>
  BY DEF StartAnalysis
<1>2. r.n \in Nat \ {0} /\ NoRecording.n = 0
  BY RecordingsAssumption DEF NoRecording
<1>3. failed = {} /\ packets = {} /\ cur = None /\ accepted = {}
  BY <1>2, RecordingsAssumption DEF PacketsInv
<1>4. packets' \cup Current' \cup accepted' = {}
  BY <1>1, <1>3 DEF Current
<1>5. \A p : NoLoss(p)' /\ NoTwins(p)'
  BY <1>1, <1>3, <1>4 DEF NoLoss, NoTwins
<1> QED  BY <1>1, <1>3, <1>4, <1>5 DEF PacketsInv

(* The next window is one of the recording's.                              *)
LEMMA NextOffset ==
  ASSUME PacketsInv, NextWindow
  PROVE  /\ Min(left) \in left /\ Min(left) \in Nat /\ rec \in Recordings
         /\ cur = None /\ packets = {}
<1>1. rec \in Recordings /\ left # {} /\ cur = None /\ packets = {}
  BY DEF PacketsInv, NextWindow
<1>2. rec.n \in Nat
  BY <1>1, PacketNumbers
<1>3. left \in SUBSET Nat
  BY <1>2, WindowNumbers DEF PacketsInv
<1>4. left \in SUBSET Int /\ \A x \in left : 0 <= x
  BY <1>3
<1>5. Min(left) \in left
  BY <1>1, <1>4, MinOf
<1> QED  BY <1>1, <1>3, <1>5

LEMMA DecodeWindowPackets ==
  ASSUME PacketsInv, DecodeWindow
  PROVE  PacketsInv'
<1> DEFINE o == Min(left)
           heard == {p \in rec.packets : Within(p, o)}
<1>1. /\ o \in left /\ o \in Nat /\ rec \in Recordings /\ cur = None /\ packets = {}
  BY NextOffset DEF DecodeWindow
<1>2. PICK start \in [heard -> -Jitter..Jitter], f \in Starts(heard) :
         packets' = {[of |-> p, abs_start |-> AtLeast(f[p].at + start[f[p]], o)] : p \in heard}
  BY DEF DecodeWindow
<1>3. left' = left \ {o} /\ UNCHANGED <<rec, failed, cur, accepted>>
  BY DEF DecodeWindow
<1>4. o \in window_offsets(rec.n)
  BY <1>1 DEF PacketsInv
<1> HIDE DEF o
<1>5. ASSUME NEW p \in heard
      PROVE  Placed([of |-> p, abs_start |-> AtLeast(f[p].at + start[f[p]], o)])
  <2> DEFINE x == f[p]
             z == AtLeast(x.at + start[x], o)
  <2>1. x \in heard /\ Key(x) = Key(p)
    BY DEF Starts
  <2>2. p \in rec.packets /\ x \in rec.packets /\ Within(p, o) /\ Within(x, o)
    BY <2>1
  <2>3. x = p \/ Mistakable(p, x)
    BY <1>4, <2>1, <2>2 DEF Mistakable
  <2>4. start[x] \in -Jitter..Jitter
    BY <1>2, <2>1
  <2>5. /\ x.at \in Nat /\ PacketEnd(x) \in Int /\ x.at + SymLen <= PacketEnd(x)
        /\ PacketEnd(p) \in Int /\ rec.n \in Nat
    BY <1>1, <2>2, PacketNumbers
  <2>6. o <= x.at /\ PacketEnd(x) <= rec.n /\ PacketEnd(p) <= rec.n
    BY <1>1, <2>2, <2>5, AnalysisAssumption DEF Within, AtMost
  <2> HIDE DEF x
  <2>7. z \in x.at - Jitter .. x.at + Jitter /\ z \in 0..rec.n-1
    <3>1. x.at + start[x] \in Int /\ start[x] \in Int
      BY <2>4, <2>5, EdgeNumbers
    <3>2. z \in {x.at + start[x], o} /\ o <= z
      BY <1>1, <3>1, Limits
    <3> HIDE DEF z
    <3>3. z \in x.at - Jitter .. x.at + Jitter
      <4>1. CASE z = x.at + start[x]
        BY <2>4, <2>5, <3>1, <4>1, EdgeNumbers
      <4>2. CASE z = o
        <5>1. ~(x.at + start[x] > o)
          BY <1>1, <3>1, <4>2 DEF z, AtLeast
        <5> QED  BY <1>1, <2>4, <2>5, <2>6, <3>1, <4>2, <5>1, EdgeNumbers
      <4> QED  BY <3>2, <4>1, <4>2
    <3>4. z \in 0..rec.n-1
      BY <1>1, <2>5, <2>6, <3>2, <3>3, EdgeNumbers
    <3> QED  BY <3>3, <3>4
  <2> DEFINE d == [of |-> p, abs_start |-> z]
  <2>8. d.of = p /\ d.abs_start = z
    OBVIOUS
  <2> HIDE DEF d, z
  <2>9. Placed(d)
    BY <2>2, <2>3, <2>6, <2>7, <2>8 DEF Placed, Near
  <2> QED  BY <2>9 DEF d, z, x
<1>6. \A d \in packets' : Placed(d)
  BY <1>2, <1>5
<1>7. \A p \in heard : \E d \in packets' : d.of = p
  <2> TAKE p \in heard
  <2> DEFINE d == [of |-> p, abs_start |-> AtLeast(f[p].at + start[f[p]], o)]
  <2>1. d \in packets' /\ d.of = p
    BY <1>2
  <2> QED  BY <2>1
<1>8. Current' = Current /\ \A p : NoTwins(p)' <=> NoTwins(p)
  BY <1>3 DEF Current, NoTwins
<1>9. ASSUME NEW p \in rec.packets, NoLoss(p)
      PROVE  NoLoss(p)'
  <2>1. SUFFICES ASSUME NEW w \in window_offsets(rec.n) \ (left' \cup failed), Within(p, w)
                 PROVE  \E d \in packets' \cup Current' \cup accepted' : d.of = p
    BY <1>3, SameRecording DEF NoLoss
  <2>2. CASE w = o
    BY <1>7, <2>1, <2>2
  <2>3. CASE w # o
    <3>1. w \in window_offsets(rec.n) \ (left \cup failed)
      BY <1>3, <2>1, <2>3
    <3> QED  BY <1>1, <1>3, <1>8, <1>9, <2>1, <3>1 DEF NoLoss
  <2> QED  BY <2>2, <2>3
<1>10. \A d \in packets' \cup Current' \cup accepted' : Placed(d)'
  BY <1>3, <1>6, <1>8, SameRecording DEF PacketsInv
<1>11. \A p \in rec.packets : Clear(p)' => NoLoss(p)' /\ NoTwins(p)'
  BY <1>3, <1>8, <1>9, SameRecording DEF PacketsInv
<1>12. rec' \in Recordings /\ left' \cup failed' \subseteq window_offsets(rec'.n)
  BY <1>1, <1>3 DEF PacketsInv
<1> QED  BY <1>3, <1>10, <1>11, <1>12 DEF PacketsInv

LEMMA WindowFailsPackets ==
  ASSUME PacketsInv, WindowFails
  PROVE  PacketsInv'
<1> DEFINE o == Min(left)
<1>1. /\ o \in left /\ rec \in Recordings
  BY NextOffset DEF WindowFails
<1>2. /\ left' = left \ {o} /\ failed' = failed \cup {o}
      /\ UNCHANGED <<rec, packets, cur, accepted>>
  BY DEF WindowFails
<1> HIDE DEF o
<1>3. left' \cup failed' = left \cup failed /\ Current' = Current
  BY <1>1, <1>2 DEF Current
<1>4. \A p : (NoLoss(p)' <=> NoLoss(p)) /\ (NoTwins(p)' <=> NoTwins(p))
  BY <1>2, <1>3, SameRecording DEF NoLoss, NoTwins
<1> QED  BY <1>1, <1>2, <1>3, <1>4, SameRecording DEF PacketsInv

LEMMA DropDuplicatePackets ==
  ASSUME PacketsInv, DropDuplicate
  PROVE  PacketsInv'
<1>1. PICK d \in packets : is_duplicate(d) /\ packets' = packets \ {d}
  BY DEF DropDuplicate
<1>2. UNCHANGED <<rec, left, failed, cur, accepted>>
  BY DEF DropDuplicate
<1>3. rec \in Recordings /\ Placed(d)
  BY <1>1 DEF PacketsInv
<1>4. Current' = Current /\ \A p : NoTwins(p)' <=> NoTwins(p)
  BY <1>2 DEF Current, NoTwins
<1>5. ASSUME NEW p \in rec.packets, Clear(p), NoLoss(p)
      PROVE  NoLoss(p)'
  <2>1. PICK b \in accepted : /\ Content(b.of) = Content(d.of)
                              /\ b.abs_start - d.abs_start < Tol
                              /\ d.abs_start - b.abs_start < Tol
    BY <1>1 DEF is_duplicate
  <2>2. d.of = p => b.of = p
    BY <1>3, <1>5, <2>1, DuplicateIsOwn DEF PacketsInv
  <2>3. (\E x \in packets \cup Current \cup accepted : x.of = p)
           => \E x \in packets' \cup Current' \cup accepted' : x.of = p
    BY <1>1, <1>2, <1>4, <2>2
  <2> QED  BY <1>2, <1>5, <2>3, SameRecording DEF NoLoss
<1>6. packets' \cup Current' \cup accepted' \subseteq packets \cup Current \cup accepted
  BY <1>1, <1>2, <1>4
<1>7. \A x \in packets' \cup Current' \cup accepted' : Placed(x)'
  BY <1>2, <1>6, SameRecording DEF PacketsInv
<1>8. \A p \in rec.packets : Clear(p)' => NoLoss(p)' /\ NoTwins(p)'
  BY <1>2, <1>4, <1>5, SameRecording DEF PacketsInv
<1> QED  BY <1>2, <1>3, <1>7, <1>8 DEF PacketsInv

LEMMA AcceptPackets ==
  ASSUME PacketsInv, AcceptPacket
  PROVE  PacketsInv'
<1>1. PICK d \in packets : /\ ~is_duplicate(d)
                           /\ cur' = d /\ packets' = packets \ {d}
  BY DEF AcceptPacket
<1>2. cur = None /\ UNCHANGED <<rec, left, failed, accepted>>
  BY DEF AcceptPacket
<1>3. rec \in Recordings /\ Placed(d) /\ d # None
  BY <1>1, NoneIsNotPlaced DEF PacketsInv
<1>4. Current = {} /\ Current' = {d}
  BY <1>1, <1>2, <1>3 DEF Current
<1>5. packets' \cup Current' \cup accepted' = packets \cup Current \cup accepted
  BY <1>1, <1>2, <1>4
<1>6. \A p : NoLoss(p) => NoLoss(p)'
  BY <1>2, <1>5, SameRecording DEF NoLoss
<1>7. ASSUME NEW p \in rec.packets, Clear(p), NoTwins(p)
      PROVE  NoTwins(p)'
  <2>1. ASSUME NEW b \in accepted, b.of = p, d.of = p
        PROVE  FALSE
    <3>1. Placed(b)
      BY <2>1 DEF PacketsInv
    <3> QED  BY <1>1, <1>3, <1>7, <2>1, <3>1, SecondIsDuplicate
  <2> QED  BY <1>2, <1>4, <1>7, <2>1 DEF NoTwins
<1>8. \A p \in rec.packets : Clear(p)' => NoLoss(p)' /\ NoTwins(p)'
  BY <1>2, <1>6, <1>7, SameRecording DEF PacketsInv
<1> QED  BY <1>2, <1>3, <1>5, <1>8, SameRecording DEF PacketsInv

LEMMA KeepPackets ==
  ASSUME PacketsInv, KeepPacket
  PROVE  PacketsInv'
<1>1. PICK a : /\ a.of = cur.of /\ a.abs_start = cur.abs_start
               /\ accepted' = accepted \cup {a}
  <2> DEFINE a == [of |-> cur.of, abs_start |-> cur.abs_start,
                   edges |-> [i \in 1..Len(edges) |->
                     <<edges[i][1] + SliceLo(cur), edges[i][2] + SliceLo(cur)>>]]
  <2>1. a.of = cur.of /\ a.abs_start = cur.abs_start
    OBVIOUS
  <2>2. accepted' = accepted \cup {a}
    BY DEF KeepPacket
  <2> QED  BY <2>1, <2>2
<1>2. cur # None /\ cur' = None /\ UNCHANGED <<rec, left, failed, packets>>
  BY DEF KeepPacket
<1>3. rec \in Recordings /\ Current = {cur} /\ Current' = {}
  BY <1>2 DEF PacketsInv, Current
<1>4. Placed(cur) /\ Placed(a)
  <2>1. Placed(cur)
    BY <1>3 DEF PacketsInv
  <2> QED  BY <1>1, <2>1 DEF Placed, Near
<1>5. \A d \in packets' \cup Current' \cup accepted' : Placed(d)'
  BY <1>1, <1>2, <1>3, <1>4, SameRecording DEF PacketsInv
<1>6. ASSUME NEW p \in rec.packets, NoLoss(p)
      PROVE  NoLoss(p)'
  <2>1. (\E x \in packets \cup Current \cup accepted : x.of = p)
           => \E x \in packets' \cup Current' \cup accepted' : x.of = p
    BY <1>1, <1>2, <1>3
  <2> QED  BY <1>2, <1>6, <2>1, SameRecording DEF NoLoss
<1>7. ASSUME NEW p \in rec.packets, NoTwins(p)
      PROVE  NoTwins(p)'
  BY <1>1, <1>3, <1>7 DEF NoTwins
<1>8. \A p \in rec.packets : Clear(p)' => NoLoss(p)' /\ NoTwins(p)'
  BY <1>2, <1>6, <1>7, SameRecording DEF PacketsInv
<1> QED  BY <1>2, <1>3, <1>5, <1>8 DEF PacketsInv

LEMMA StutterPackets ==
  PacketsInv /\ UNCHANGED <<rec, left, failed, packets, cur, accepted>> => PacketsInv'
<1> SUFFICES ASSUME PacketsInv, UNCHANGED <<rec, left, failed, packets, cur, accepted>>
             PROVE  PacketsInv'
  OBVIOUS
<1>1. Current' = Current
  BY DEF Current
<1>2. \A p : (NoLoss(p)' <=> NoLoss(p)) /\ (NoTwins(p)' <=> NoTwins(p))
  BY <1>1, SameRecording DEF NoLoss, NoTwins
<1> QED  BY <1>1, <1>2, SameRecording DEF PacketsInv

(* When all is done, the reports left are the accepted ones.               *)
LEMMA ReportedOnce == PacketsInv => PacketsOnce
<1> SUFFICES ASSUME PacketsInv, AnalysisDone, NEW p \in rec.packets,
                    PacketEnd(p) <= rec.n,
                    \A q \in rec.packets \ {p} : ~Confusable(p, q),
                    failed # {} => \E o \in window_offsets(rec.n) \ failed : Within(p, o)
             PROVE  \E a \in accepted : /\ {b \in accepted : b.of = p} = {a}
                                        /\ a.abs_start \in p.at-Jitter .. p.at+Jitter
  BY DEF PacketsOnce
<1>1. left = {} /\ packets = {} /\ Current = {}
  BY DEF AnalysisDone, Current
<1>2. rec \in Recordings
  BY DEF PacketsInv, NoRecording
<1>3. Clear(p)
  BY DEF Clear
<1>4. \E o \in window_offsets(rec.n) \ failed : Within(p, o)
  BY <1>2, EveryPacketInAWindow
<1>5. PICK a \in accepted : a.of = p
  BY <1>1, <1>3, <1>4 DEF PacketsInv, NoLoss
<1>6. {b \in accepted : b.of = p} = {a}
  BY <1>3, <1>5 DEF PacketsInv, NoTwins
<1>7. Near(a, p)
  BY <1>3, <1>5, ClearIsAlone, AloneIsNear DEF PacketsInv
<1> QED  BY <1>5, <1>6, <1>7 DEF Near
-----------------------------------------------------------------------------
(* Where the symbols of a packet that is followed lie in its slice: Rise   *)
(* and Fall are the crossings that belong to symbol j, and the slice has   *)
(* no others.                                                              *)

Rise(d, j) == SymStart(d.of, j) - 1 - SliceLo(d)
Fall(d, j) == SymEnd(d.of, j) - 1 - SliceLo(d)
Heard(p) == (0..NumSym-1) \ p.faded

SliceOn(d) == {i - SliceLo(d) : i \in On(rec) \cap SliceLo(d)..SliceHi(d)-1}
SegmentOf(d) ==
    Segment(SliceHi(d) - SliceLo(d), d.abs_start - SliceLo(d), NumSym,
            Rising(SliceOn(d), SliceHi(d) - SliceLo(d)),
            Falling(SliceOn(d), SliceHi(d) - SliceLo(d)))

Followed(d) == Quiet(d.of) /\ Followable(d.of) /\ Alone(d.of)

LEMMA Spread ==
  ASSUME NEW i \in Int, NEW j \in Int, i < j, NEW w \in Nat
  PROVE  i * w \in Int /\ j * w \in Int /\ i * w + w <= j * w
<1>1. j - i - 1 \in Nat
  OBVIOUS
<1>2. (j - i - 1) * w \in Nat
  BY <1>1, ProductAtLeast
<1>3. j * w = (i * w + w) + (j - i - 1) * w
  OBVIOUS
<1>4. i * w \in Int /\ j * w \in Int
  OBVIOUS
<1> QED  BY <1>2, <1>3, <1>4

(* The symbols follow each other by more than a symbol, and the packet's   *)
(* last one ends it.                                                       *)
LEMMA SymbolPlaces ==
  ASSUME rec \in Recordings, NEW p \in rec.packets
  PROVE  /\ \A j \in Int : /\ SymStart(p, j) \in Int
                           /\ SymEnd(p, j) = SymStart(p, j) + SymLen
         /\ SymStart(p, 0) = p.at
         /\ \A i, j \in Int : i < j => SymStart(p, i) + SymLen < SymStart(p, j)
         /\ \A j \in 0..NumSym-1 : p.at <= SymStart(p, j) /\ SymEnd(p, j) <= PacketEnd(p)
<1> DEFINE w == Slot + p.drift
<1>1. w \in Nat /\ SymLen < w /\ p.at \in Nat
  BY PacketNumbers, EdgeNumbers
<1>2. \A j : SymStart(p, j) = p.at + j * w /\ SymEnd(p, j) = SymStart(p, j) + SymLen
  BY DEF SymStart, SymEnd
<1> HIDE DEF w
<1>3. \A j \in Int : SymStart(p, j) \in Int
  BY <1>1, <1>2
<1>4. ASSUME NEW i \in Int, NEW j \in Int, i < j
      PROVE  SymStart(p, i) + SymLen < SymStart(p, j)
  <2>1. i * w \in Int /\ j * w \in Int /\ i * w + w <= j * w
    BY <1>1, <1>4, Spread
  <2> QED  BY <1>1, <1>2, <2>1, EdgeNumbers
<1>5. SymStart(p, 0) = p.at
  BY <1>1, <1>2
<1>6. ASSUME NEW j \in 0..NumSym-1
      PROVE  p.at <= SymStart(p, j) /\ SymEnd(p, j) <= PacketEnd(p)
  <2>1. p.at <= SymStart(p, j)
    <3>1. CASE j = 0
      BY <1>1, <1>5, <3>1
    <3>2. CASE j # 0
      BY <1>1, <1>3, <1>4, <1>5, <3>2, EdgeNumbers
    <3> QED  BY <3>1, <3>2
  <2>2. PacketEnd(p) = SymStart(p, NumSym-1) + SymLen
    BY <1>2 DEF PacketEnd
  <2>3. NumSym - 1 \in Int /\ j \in Int
    BY EdgeNumbers
  <2>4. SymEnd(p, j) <= PacketEnd(p)
    <3>1. CASE j = NumSym - 1
      BY <1>2, <1>3, <2>2, <2>3, <3>1, EdgeNumbers
    <3>2. CASE j # NumSym - 1
      <4>1. SymStart(p, j) + SymLen < SymStart(p, NumSym-1)
        BY <1>4, <2>3, <3>2
      <4>2. SymEnd(p, j) = SymStart(p, j) + SymLen
        BY <1>2
      <4>3. SymStart(p, j) \in Int /\ SymStart(p, NumSym-1) \in Int
        BY <1>3, <2>3
      <4> QED  BY <2>2, <4>1, <4>2, <4>3, EdgeNumbers
    <3> QED  BY <3>1, <3>2
  <2> QED  BY <2>1, <2>4
<1> QED  BY <1>2, <1>3, <1>4, <1>5, <1>6

(* The slice around a packet.                                              *)
LEMMA SlicePlace ==
  ASSUME rec \in Recordings, NEW d, Placed(d), Followed(d)
  PROVE  LET p == d.of
             lo == SliceLo(d)
             hi == SliceHi(d)
         IN  /\ lo \in Nat /\ hi \in Nat /\ d.abs_start \in Nat /\ p.at \in Nat
             /\ p \in rec.packets
             /\ p.at - Jitter <= d.abs_start /\ d.abs_start <= p.at + Jitter
             /\ lo < p.at /\ PacketEnd(p) <= hi /\ lo <= d.abs_start
             /\ (d.abs_start + NumSym * Slot) - lo <= hi - lo
             /\ lo >= p.at - Slot - Jitter /\ hi <= p.at + (NumSym + 1) * Slot + Jitter
<1> DEFINE p == d.of
           b == d.abs_start
           m == NumSym * Slot
           e == PacketEnd(p)
           a == p.at
           n == rec.n
<1>1. p \in rec.packets /\ b \in 0..n-1 /\ e <= n
  BY DEF Placed
<1>2. Near(d, p)
  BY AloneIsNear DEF Followed
<1>3. n \in Nat /\ a \in Nat /\ e \in Int
  BY <1>1, PacketNumbers
<1>4. m \in Nat
  BY EdgeNumbers, ProductAtLeast
<1>5. 0 < a /\ a + m + Jitter <= n
  BY DEF Followed, Quiet
<1>6. e + Jitter <= a + (m + Slot)
  <2>1. e + Jitter <= a + (NumSym + 1) * Slot
    BY DEF Followed, Followable
  <2>2. (NumSym + 1) * Slot = m + Slot
    BY EdgeNumbers
  <2> QED  BY <2>1, <2>2
<1>7. a - Jitter <= b /\ b <= a + Jitter
  BY <1>2, <1>3 DEF Near
<1>8. SliceLo(d) = AtLeast(b - Slot, 0) /\ SliceHi(d) = AtMost((b + m) + Slot, n)
  BY <1>1, <1>3, <1>4, EdgeNumbers DEF SliceLo, SliceHi
<1>9. (NumSym + 1) * Slot = m + Slot
  BY EdgeNumbers
<1> HIDE DEF p, b, m, e, a, n
<1>10. /\ SliceLo(d) \in Nat /\ SliceLo(d) < a /\ SliceLo(d) <= b
       /\ SliceLo(d) >= (a - Slot) - Jitter
  BY <1>1, <1>3, <1>5, <1>7, <1>8, EdgeNumbers DEF AtLeast
<1>11. /\ SliceHi(d) \in Nat /\ e <= SliceHi(d) /\ b + m <= SliceHi(d)
       /\ SliceHi(d) <= (a + (m + Slot)) + Jitter
  BY <1>1, <1>3, <1>4, <1>5, <1>6, <1>7, <1>8, EdgeNumbers DEF AtMost
<1>12. (b + m) - SliceLo(d) <= SliceHi(d) - SliceLo(d)
  BY <1>1, <1>3, <1>4, <1>10, <1>11
<1>13. b \in Nat
  BY <1>1, <1>3
<1> QED  BY <1>1, <1>3, <1>7, <1>9, <1>10, <1>11, <1>12, <1>13 DEF p, b, m, e, a, n

LEMMA SliceHoldsPacket ==
  ASSUME rec \in Recordings, NEW d, Placed(d), Followed(d),
         NEW i \in SliceLo(d) .. SliceHi(d)-1
  PROVE  /\ i \in Int
         /\ i - SliceLo(d) \in SliceOn(d) <=>
              \E j \in Heard(d.of) : SymStart(d.of, j) <= i /\ i < SymEnd(d.of, j)
<1> DEFINE p == d.of
           lo == SliceLo(d)
           hi == SliceHi(d)
           others == rec.noise \cup UNION {Symbols(q) : q \in rec.packets \ {p}}
<1>1. /\ lo \in Nat /\ hi \in Nat /\ p \in rec.packets /\ p.at \in Nat
      /\ lo >= p.at - Slot - Jitter /\ hi <= p.at + (NumSym + 1) * Slot + Jitter
  BY SlicePlace
<1>2. others \cap (p.at - Slot - Jitter .. p.at + (NumSym + 1) * Slot + Jitter) = {}
  BY DEF Followed, Quiet
<1>3. i \in Int /\ i \in lo..hi-1
  BY <1>1
<1>4. i \in p.at - Slot - Jitter .. p.at + (NumSym + 1) * Slot + Jitter
  <2> DEFINE x == p.at - Slot - Jitter
             y == p.at + (NumSym + 1) * Slot + Jitter
  <2>1. x \in Int /\ y \in Int
    BY <1>1, EdgeNumbers
  <2>2. lo >= x /\ hi <= y
    BY <1>1
  <2> HIDE DEF x, y, lo, hi
  <2>3. i \in x .. y
    BY <1>1, <1>3, <2>1, <2>2
  <2> QED  BY <2>3 DEF x, y
<1>5. i \notin others
  BY <1>2, <1>4
<1>6. \A q \in rec.packets \ {p} : i \notin Symbols(q)
  BY <1>5
<1>7. i \in On(rec) <=> i \in Symbols(p)
  <2>1. i \in On(rec) <=> i \in rec.noise \/ \E q \in rec.packets : i \in Symbols(q)
    BY DEF On
  <2>2. i \notin rec.noise
    BY <1>5
  <2>3. p \in rec.packets
    BY <1>1
  <2> QED  BY <1>6, <2>1, <2>2, <2>3
<1>8. i \in Symbols(p) <=> \E j \in Heard(p) : SymStart(p, j) <= i /\ i < SymEnd(p, j)
  <2>1. \A j \in Heard(p) : SymStart(p, j) \in Int /\ SymEnd(p, j) \in Int
    BY <1>1, SymbolPlaces, EdgeNumbers DEF Heard
  <2>2. \A j \in Heard(p) : i \in SymStart(p, j) .. SymEnd(p, j) - 1
                              <=> SymStart(p, j) <= i /\ i < SymEnd(p, j)
    BY <1>3, <2>1
  <2> QED  BY <2>2 DEF Symbols, Heard
<1>9. i - lo \in SliceOn(d) <=> i \in On(rec)
  <2>1. \A x \in On(rec) \cap lo..hi-1 : x \in Int /\ (x - lo = i - lo => x = i)
    BY <1>1, <1>3
  <2> QED  BY <1>3, <2>1 DEF SliceOn
<1> QED  BY <1>3, <1>7, <1>8, <1>9

LEMMA SliceCrossings ==
  ASSUME rec \in Recordings, NEW d, Placed(d), Followed(d)
  PROVE  LET s == SegmentOf(d) IN
         /\ s.n \in Nat /\ s.nom \in Nat /\ s.count = NumSym
         /\ s.rising \subseteq Int /\ s.falling \subseteq Int
         /\ \A x \in s.rising : \E j \in Heard(d.of) : x = Rise(d, j)
         /\ \A j \in Heard(d.of) : Rise(d, j) \in s.rising
         /\ \A x \in s.falling : \E j \in Heard(d.of) : x = Fall(d, j)
<1> DEFINE p == d.of
           lo == SliceLo(d)
           hi == SliceHi(d)
           on == SliceOn(d)
           n == hi - lo
<1>1. /\ lo \in Nat /\ hi \in Nat /\ p \in rec.packets /\ p.at \in Nat
      /\ lo < p.at /\ PacketEnd(p) <= hi /\ lo <= d.abs_start /\ d.abs_start \in Nat
  BY SlicePlace
<1>2. /\ SegmentOf(d).n = n /\ SegmentOf(d).nom = d.abs_start - lo
      /\ SegmentOf(d).count = NumSym
      /\ SegmentOf(d).rising = Rising(on, n) /\ SegmentOf(d).falling = Falling(on, n)
  BY DEF SegmentOf, Segment
<1>3. PacketEnd(p) \in Int /\ p.at <= PacketEnd(p)
  BY <1>1, PacketNumbers, EdgeNumbers
<1>4. \A j \in Heard(p) :
        /\ SymStart(p, j) \in Int /\ SymEnd(p, j) = SymStart(p, j) + SymLen
        /\ lo < SymStart(p, j) /\ SymEnd(p, j) <= hi /\ j \in Int
  <2> TAKE j \in Heard(p)
  <2>1. j \in 0..NumSym-1 /\ j \in Int
    BY EdgeNumbers DEF Heard
  <2>2. SymStart(p, j) \in Int /\ SymEnd(p, j) = SymStart(p, j) + SymLen
    BY <1>1, <2>1, SymbolPlaces
  <2>3. p.at <= SymStart(p, j) /\ SymEnd(p, j) <= PacketEnd(p)
    BY <1>1, <2>1, SymbolPlaces
  <2> HIDE DEF p, lo, hi
  <2> QED  BY <1>1, <1>3, <2>1, <2>2, <2>3, EdgeNumbers
<1>5. \A i, j \in Heard(p) : i < j => SymEnd(p, i) < SymStart(p, j)
  BY <1>1, <1>4, SymbolPlaces
<1>6. \A y \in lo..hi-1 : y - lo \in on <=>
         \E j \in Heard(p) : SymStart(p, j) <= y /\ y < SymEnd(p, j)
  BY SliceHoldsPacket
<1>7. on \subseteq 0..n-1
  BY <1>1 DEF SliceOn
<1>8. \A j : Rise(d, j) = (SymStart(p, j) - 1) - lo /\ Fall(d, j) = (SymEnd(p, j) - 1) - lo
  BY DEF Rise, Fall
<1> HIDE DEF p, lo, hi, on, n
<1>9. n = hi - lo /\ n \in Nat
  BY <1>1, <1>3 DEF n
<1>10. ASSUME NEW x \in Rising(on, n)
       PROVE  x \in Int /\ \E j \in Heard(p) : x = Rise(d, j)
  <2>1. x + 1 \in on /\ x + 1 # 0 /\ x \notin on /\ x \in Int
    BY <1>7 DEF Rising
  <2> DEFINE y == (x + 1) + lo
  <2>2. y \in lo..hi-1 /\ y - lo = x + 1 /\ y - 1 \in lo..hi-1 /\ (y - 1) - lo = x
    BY <1>1, <1>7, <1>9, <2>1
  <2> HIDE DEF y
  <2>3. PICK j \in Heard(p) : SymStart(p, j) <= y /\ y < SymEnd(p, j)
    BY <1>6, <2>1, <2>2
  <2>4. ~(SymStart(p, j) <= y - 1 /\ y - 1 < SymEnd(p, j))
    BY <1>6, <2>1, <2>2
  <2>5. SymStart(p, j) \in Int /\ SymEnd(p, j) \in Int
    BY <1>4, EdgeNumbers
  <2>6. y = SymStart(p, j)
    BY <1>1, <2>2, <2>3, <2>4, <2>5
  <2> QED  BY <1>8, <2>1, <2>2, <2>6
<1>11. ASSUME NEW j \in Heard(p)
       PROVE  Rise(d, j) \in Rising(on, n)
  <2> DEFINE y == SymStart(p, j)
  <2>1. y \in Int /\ SymEnd(p, j) = y + SymLen /\ lo < y /\ SymEnd(p, j) <= hi /\ j \in Int
    BY <1>4
  <2>2. y \in lo..hi-1 /\ y - 1 \in lo..hi-1 /\ y < SymEnd(p, j) /\ y - lo # 0
    BY <1>1, <2>1, EdgeNumbers
  <2>3. y - lo \in on
    BY <1>6, <2>1, <2>2
  <2>4. ASSUME NEW i \in Heard(p), SymStart(p, i) <= y - 1, y - 1 < SymEnd(p, i)
        PROVE  FALSE
    <3>1. /\ SymStart(p, i) \in Int /\ SymEnd(p, i) \in Int /\ i \in Int
          /\ SymStart(p, i) < SymEnd(p, i)
      BY <1>4, EdgeNumbers
    <3>2. i < j => SymEnd(p, i) < y
      BY <1>5
    <3>3. j < i => SymEnd(p, j) < SymStart(p, i)
      BY <1>5
    <3>4. i = j => SymStart(p, i) = y
      OBVIOUS
    <3> HIDE DEF y
    <3> QED  BY <2>1, <2>2, <2>4, <3>1, <3>2, <3>3, <3>4, EdgeNumbers
  <2>5. (y - 1) - lo \notin on
    BY <1>6, <2>2, <2>4
  <2>6. (y - 1) - lo = (y - lo) - 1
    BY <1>1, <2>1
  <2> HIDE DEF y
  <2>7. (y - 1) - lo \in Rising(on, n)
    BY <2>2, <2>3, <2>5, <2>6 DEF Rising
  <2> QED  BY <1>8, <2>7 DEF y
<1>12. ASSUME NEW x \in Falling(on, n)
       PROVE  x \in Int /\ \E j \in Heard(p) : x = Fall(d, j)
  <2>1. x \in on /\ x # n - 1 /\ x + 1 \notin on /\ x \in Int
    BY <1>7 DEF Falling
  <2> DEFINE y == x + lo
  <2>2. y \in lo..hi-1 /\ y - lo = x /\ y + 1 \in lo..hi-1 /\ (y + 1) - lo = x + 1
    BY <1>1, <1>7, <1>9, <2>1
  <2> HIDE DEF y
  <2>3. PICK j \in Heard(p) : SymStart(p, j) <= y /\ y < SymEnd(p, j)
    BY <1>6, <2>1, <2>2
  <2>4. ~(SymStart(p, j) <= y + 1 /\ y + 1 < SymEnd(p, j))
    BY <1>6, <2>1, <2>2
  <2>5. SymStart(p, j) \in Int /\ SymEnd(p, j) \in Int
    BY <1>4, EdgeNumbers
  <2>6. y + 1 = SymEnd(p, j)
    BY <1>1, <2>2, <2>3, <2>4, <2>5
  <2> QED  BY <1>8, <1>1, <2>1, <2>2, <2>5, <2>6
<1>13. d.abs_start - lo \in Nat
  BY <1>1
<1> QED  BY <1>2, <1>9, <1>10, <1>11, <1>12, <1>13 DEF p
-----------------------------------------------------------------------------
(* One step of the search: where a crossing of the symbol itself is near   *)
(* the place it is looked for at, and every other one farther away than a  *)
(* symbol is long, it is found; where there is none, the place is kept.    *)

LEMMA StartFound ==
  ASSUME EdgesInv, NEW r \in seg.rising, prev_end < r,
         search_center - search_margin <= r, r <= search_center + search_margin,
         \A x \in seg.rising \ {r} : x + SymLen < r \/ r + SymLen < x
  PROVE  SymbolStart = r
<1> DEFINE c == search_center
           cands == RisesNear(c)
<1>0. seg.rising \subseteq Int /\ prev_end \in Int
  BY DEF EdgesInv
<1>1. /\ c \in Int /\ r \in Int /\ prev_end \in Int /\ prev_end + 1 \in Int
      /\ seg.rising \subseteq Int
  BY <1>0, SymbolTypes
<1>2. \A x \in seg.rising : x \in cands <=>
         AtLeast(c - search_margin, prev_end + 1) <= x /\ x <= c + search_margin
  BY DEF RisesNear
<1>3. cands \in SUBSET seg.rising
  BY DEF RisesNear
<1> HIDE DEF c, cands
<1>4. c - search_margin <= r /\ r <= c + search_margin
  BY DEF c
<1>5. AtLeast(c - search_margin, prev_end + 1) \in {c - search_margin, prev_end + 1}
  BY <1>1, EdgeNumbers, Limits
<1>6. r \in cands
  BY <1>1, <1>2, <1>4, <1>5, EdgeNumbers
<1>7. ASSUME NEW y \in cands \ {r}
      PROVE  Far(r, c) < Far(y, c)
  <2>1. y \in Int /\ (y + SymLen < r \/ r + SymLen < y)
    BY <1>1, <1>3, <1>7
  <2> QED  BY <1>1, <1>4, <2>1, EdgeNumbers DEF Far
<1>8. nearest_xing(cands, c) = r
  BY <1>1, <1>3, <1>6, <1>7, NearestIs
<1>9. SymbolStart = AtLeast(nearest_xing(cands, c), prev_end + 1)
  BY <1>6 DEF SymbolStart, c, cands
<1> QED  BY <1>1, <1>8, <1>9 DEF AtLeast

LEMMA StartKept ==
  ASSUME EdgesInv, prev_end < search_center,
         \A x \in seg.rising : \/ x <= prev_end
                               \/ /\ search_center + search_margin < x
                                  /\ nom_s + search_margin < x
  PROVE  SymbolStart = search_center
<1>1. /\ search_center \in Int /\ nom_s \in Int /\ prev_end \in Int
      /\ seg.rising \subseteq Int
  BY SymbolTypes DEF EdgesInv
<1>2. ASSUME NEW c \in {search_center, nom_s}
      PROVE  RisesNear(c) = {}
  <2>1. ASSUME NEW x \in RisesNear(c)
        PROVE  FALSE
    <3>1. /\ x \in seg.rising /\ x <= c + search_margin
          /\ AtLeast(c - search_margin, prev_end + 1) <= x
      BY <2>1 DEF RisesNear
    <3>2. /\ c - search_margin \in Int /\ prev_end + 1 \in Int /\ x \in Int /\ c \in Int
      BY <1>1, <3>1, EdgeNumbers
    <3>3. prev_end + 1 <= x
      <4> DEFINE u == c - search_margin
                 v == prev_end + 1
      <4>1. u \in Int /\ v \in Int /\ AtLeast(u, v) <= x
        BY <3>1, <3>2
      <4> HIDE DEF u, v
      <4>2. v <= x
        BY <3>2, <4>1 DEF AtLeast
      <4> QED  BY <4>2 DEF v
    <3>4. \/ x <= prev_end
          \/ search_center + search_margin < x /\ nom_s + search_margin < x
      BY <3>1
    <3> QED  BY <1>1, <3>1, <3>2, <3>3, <3>4, EdgeNumbers
  <2> QED  BY <2>1
<1>3. nearest_xing({}, search_center) = search_center
  BY DEF nearest_xing
<1>4. SymbolStart = AtLeast(search_center, prev_end + 1)
  BY <1>2, <1>3 DEF SymbolStart
<1> QED  BY <1>1, <1>4 DEF AtLeast

LEMMA EndFound ==
  ASSUME EdgesInv, NEW s \in Int,
         \A x \in seg.falling : \/ x = s + SymLen
                                \/ x + Gap < s + SymLen
                                \/ s + SymLen + Gap < x
  PROVE  SymbolEnd(s) = s + SymLen
<1> DEFINE t == s + SymLen
           falls == {x \in seg.falling : /\ AtLeast(s + SymLen - fall_margin, 0) <= x
                                         /\ x <= AtMost(s + SymLen + fall_margin, seg.n)}
<1>1. t \in Int /\ seg.n \in Int /\ seg.falling \subseteq Int
  BY EdgeNumbers DEF EdgesInv
<1>2. ASSUME NEW x \in falls
      PROVE  x = t
  <2>1. /\ AtLeast(s + SymLen - fall_margin, 0) <= x
        /\ x <= AtMost(s + SymLen + fall_margin, seg.n) /\ x \in Int
    BY <1>1
  <2>2. t - fall_margin <= x /\ x <= t + fall_margin
    <3> DEFINE u == s + SymLen - fall_margin
               v == s + SymLen + fall_margin
    <3>1. u \in Int /\ v \in Int /\ u = t - fall_margin /\ v = t + fall_margin
      BY EdgeNumbers
    <3>2. AtLeast(u, 0) <= x /\ x <= AtMost(v, seg.n)
      BY <2>1
    <3> HIDE DEF u, v, t, falls
    <3>3. u <= x /\ x <= v
      BY <1>1, <2>1, <3>1, <3>2 DEF AtLeast, AtMost
    <3> QED  BY <3>1, <3>3
  <2>3. x = t \/ x + Gap < t \/ t + Gap < x
    OBVIOUS
  <2> HIDE DEF t
  <2> QED  BY <1>1, <2>1, <2>2, <2>3, EdgeNumbers
<1>3. falls = {} \/ falls = {t}
  BY <1>2
<1>4. SymbolEnd(s) = AtLeast(nearest_xing(falls, t), s + 1)
  BY DEF SymbolEnd
<1> HIDE DEF t, falls
<1>5. nearest_xing(falls, t) = t
  <2>1. CASE falls = {}
    BY <2>1 DEF nearest_xing
  <2>2. CASE falls = {t}
    <3>1. falls \in SUBSET Int /\ falls # {}
      BY <1>1, <2>2
    <3>2. nearest_xing(falls, t) \in falls
      BY <1>1, <3>1, NearestXing
    <3> QED  BY <2>2, <3>2
  <2> QED  BY <1>3, <2>1, <2>2
<1>6. t = s + SymLen
  BY DEF t
<1> QED  BY <1>4, <1>5, <1>6, EdgeNumbers DEF AtLeast
-----------------------------------------------------------------------------
(* The chain: each symbol that is there is found at its own crossings, and *)
(* the next one is looked for a slot behind the last that was found or, as *)
(* long as none was, at its nominal place.                                 *)

Chain(d) ==
  /\ Len(edges) = k
  /\ \A j \in Heard(d.of) : j < k => edges[j+1] = <<Rise(d, j), Fall(d, j)>>
  /\ \/ 0..k-1 \subseteq d.of.faded /\ search_center = nom_s
     \/ \E i \in 1..k : /\ i - 1 \in Heard(d.of) /\ i..k-1 \subseteq d.of.faded
                        /\ search_center = Rise(d, i-1) + (k - i + 1) * Slot

LEMMA RiseNumbers ==
  ASSUME rec \in Recordings, NEW d, Placed(d), Followed(d)
  PROVE  /\ \A j \in Int : Rise(d, j) \in Int /\ Fall(d, j) = Rise(d, j) + SymLen
         /\ \A i, j \in Int : i < j => Rise(d, i) + SymLen < Rise(d, j)
         /\ \A j \in 0..NumSym-1 :
              0 <= Rise(d, j) /\ Fall(d, j) < SliceHi(d) - SliceLo(d)
         /\ \A i, j \in Int :
              Rise(d, j) = Rise(d, i) + ((j - i) * Slot + (j - i) * d.of.drift)
         /\ Rise(d, 0) = d.of.at - 1 - SliceLo(d)
<1> DEFINE p == d.of
           lo == SliceLo(d)
           hi == SliceHi(d)
<1>1. lo \in Nat /\ hi \in Nat /\ p.at \in Nat /\ p \in rec.packets
      /\ lo < p.at /\ PacketEnd(p) <= hi
  BY SlicePlace
<1>2. p.drift \in Int /\ PacketEnd(p) \in Int
  BY <1>1, PacketNumbers
<1>3. \A j : Rise(d, j) = SymStart(p, j) - 1 - lo /\ Fall(d, j) = SymEnd(p, j) - 1 - lo
  BY DEF Rise, Fall
<1>4. \A j \in Int : SymStart(p, j) \in Int /\ SymEnd(p, j) = SymStart(p, j) + SymLen
  BY <1>1, SymbolPlaces
<1>5. \A j : SymStart(p, j) = p.at + j * (Slot + p.drift)
  BY DEF SymStart
<1>6. SymStart(p, 0) = p.at
  BY <1>1, SymbolPlaces
<1>7. \A i, j \in Int : i < j => SymStart(p, i) + SymLen < SymStart(p, j)
  BY <1>1, SymbolPlaces
<1>8. \A j \in 0..NumSym-1 : p.at <= SymStart(p, j) /\ SymEnd(p, j) <= PacketEnd(p)
  BY <1>1, SymbolPlaces
<1> HIDE DEF p, lo, hi
<1>9. \A j \in Int : Rise(d, j) \in Int /\ Fall(d, j) = Rise(d, j) + SymLen
  BY <1>1, <1>3, <1>4, EdgeNumbers
<1>10. ASSUME NEW i \in Int, NEW j \in Int
       PROVE  i < j => Rise(d, i) + SymLen < Rise(d, j)
  <2>1. SymStart(p, i) \in Int /\ SymStart(p, j) \in Int
    BY <1>4
  <2>2. i < j => SymStart(p, i) + SymLen < SymStart(p, j)
    BY <1>7
  <2>3. Rise(d, i) = SymStart(p, i) - 1 - lo /\ Rise(d, j) = SymStart(p, j) - 1 - lo
    BY <1>3
  <2> QED  BY <1>1, <2>1, <2>2, <2>3, EdgeNumbers
<1>11. ASSUME NEW j \in 0..NumSym-1
       PROVE  0 <= Rise(d, j) /\ Fall(d, j) < hi - lo
  <2>1. j \in Int
    BY EdgeNumbers
  <2>2. SymStart(p, j) \in Int /\ SymEnd(p, j) \in Int
    BY <1>4, <2>1, EdgeNumbers
  <2>3. Rise(d, j) = SymStart(p, j) - 1 - lo /\ Fall(d, j) = SymEnd(p, j) - 1 - lo
    BY <1>3
  <2>4. p.at <= SymStart(p, j) /\ SymEnd(p, j) <= PacketEnd(p)
    BY <1>8
  <2> QED  BY <1>1, <1>2, <2>2, <2>3, <2>4
<1>12. ASSUME NEW i \in Int, NEW j \in Int
       PROVE  Rise(d, j) = Rise(d, i) + ((j - i) * Slot + (j - i) * p.drift)
  <2>1. \A v, w \in Int : j * (v + w) = i * (v + w) + ((j - i) * v + (j - i) * w)
    OBVIOUS
  <2>2. j * (Slot + p.drift) = i * (Slot + p.drift) + ((j - i) * Slot + (j - i) * p.drift)
    BY <1>2, <2>1, EdgeNumbers
  <2> DEFINE u == j * (Slot + p.drift)
             v == i * (Slot + p.drift)
             w == (j - i) * Slot + (j - i) * p.drift
  <2>3. u \in Int /\ v \in Int /\ w \in Int
    BY <1>2, EdgeNumbers
  <2>4. Rise(d, j) = (p.at + u) - 1 - lo /\ Rise(d, i) = (p.at + v) - 1 - lo
    BY <1>3, <1>5
  <2>5. u = v + w
    BY <2>2
  <2> HIDE DEF u, v, w
  <2>6. Rise(d, j) = Rise(d, i) + w
    BY <1>1, <2>3, <2>4, <2>5
  <2> QED  BY <2>6 DEF w
<1>13. Rise(d, 0) = p.at - 1 - lo
  BY <1>3, <1>6
<1> QED  BY <1>9, <1>10, <1>11, <1>12, <1>13 DEF p, lo, hi

(* Where the search stands: behind the symbol before it.                   *)
LEMMA SearchPlace ==
  ASSUME EdgesInv, Len(edges) = k
  PROVE  /\ k \in Nat /\ prev_end \in Int /\ search_center \in Int /\ nom_s \in Int
         /\ k = 0 => prev_end = -1 /\ search_center = nom_s
         /\ k # 0 => 0 <= prev_end /\ search_center = prev_end + Gap
<1>1. k \in Nat /\ prev_end \in Int /\ seg.count \in Nat
  BY DEF EdgesInv
<1>2. search_center \in Int /\ nom_s \in Int
  BY SymbolTypes
<1>3. ASSUME k = 0
      PROVE  prev_end = -1 /\ search_center = nom_s
  <2>1. edges = <<>>
    BY <1>3 DEF EdgesInv
  <2>2. prev_end = -1
    BY <2>1 DEF EdgesInv
  <2> QED  BY <2>2 DEF search_center
<1>4. ASSUME k # 0
      PROVE  0 <= prev_end /\ search_center = prev_end + Gap
  <2>1. edges # <<>> /\ Len(edges) \in 1..Len(edges)
    BY <1>1, <1>4 DEF EdgesInv
  <2>2. prev_end = edges[Len(edges)][2]
    BY <2>1 DEF EdgesInv
  <2>3. 0 <= edges[Len(edges)][1] /\ edges[Len(edges)][1] < edges[Len(edges)][2]
    BY <2>1 DEF EdgesInv, Apart
  <2>4. edges[Len(edges)] \in Int \X Int
    BY <2>1 DEF EdgesInv
  <2>5. edges[Len(edges)][1] \in Int
    BY <2>4
  <2>6. 0 <= prev_end
    BY <1>1, <2>2, <2>3, <2>5
  <2>7. prev_end # -1
    BY <2>6
  <2> QED  BY <2>6, <2>7 DEF search_center
<1> QED  BY <1>1, <1>2, <1>3, <1>4

(* The nominal place of the symbol is in the slice.                        *)
LEMMA NominalInRange ==
  ASSUME rec \in Recordings, NEW d, Placed(d), Followed(d), seg = SegmentOf(d),
         k \in 0..NumSym-1
  PROVE  /\ InRange /\ seg.nom = d.abs_start - SliceLo(d)
         /\ seg.n = SliceHi(d) - SliceLo(d) /\ seg.n \in Int
         /\ nom_s = (d.abs_start - SliceLo(d)) + k * Slot /\ k * Slot \in Nat
<1> DEFINE b == d.abs_start
           lo == SliceLo(d)
           hi == SliceHi(d)
           m == NumSym * Slot
           x == k * Slot
<1>1. /\ lo \in Nat /\ hi \in Nat /\ b \in Nat /\ lo <= b /\ (b + m) - lo <= hi - lo
  BY SlicePlace
<1>2. seg.n = hi - lo /\ seg.nom = b - lo
  BY DEF SegmentOf, Segment
<1>3. nom_s = (b - lo) + x
  BY <1>2 DEF nom_s
<1>4. x \in Int /\ m \in Int /\ x + Slot <= m /\ 0 <= x
  <2>1. k \in Nat /\ NumSym \in Nat /\ k < NumSym
    BY EdgeNumbers
  <2>2. k * Slot \in Int /\ NumSym * Slot \in Int /\ k * Slot + Slot <= NumSym * Slot
    BY <2>1, Spread, EdgeNumbers
  <2>3. k * Slot \in Nat
    BY <2>1, ProductAtLeast, EdgeNumbers
  <2> QED  BY <2>2, <2>3
<1> HIDE DEF b, lo, hi, m, x
<1>5. nom_s >= 0 /\ nom_s + SymLen <= seg.n /\ seg.n \in Int
  BY <1>1, <1>2, <1>3, <1>4, EdgeNumbers
<1> QED  BY <1>2, <1>3, <1>4, <1>5 DEF InRange, b, lo, hi, x

(* A symbol that is there is found: the drift that has added up since the  *)
(* last one that was found is within the search (Followable).              *)
LEMMA HeardStart ==
  ASSUME rec \in Recordings, NEW d, Placed(d), Followed(d), seg = SegmentOf(d),
         EdgesInv, Chain(d), k \in Heard(d.of)
  PROVE  SymbolStart = Rise(d, k)
<1> DEFINE p == d.of
           r == Rise(d, k)
           c == search_center
<1>1. /\ k \in 0..NumSym-1 /\ k \in Nat /\ p.drift \in Int /\ -Gap < p.drift
      /\ p.faded \subseteq 0..NumSym-1 /\ p \in rec.packets
  BY PacketNumbers, EdgeNumbers DEF Heard, Placed
<1>2. /\ prev_end \in Int /\ c \in Int /\ nom_s \in Int
      /\ k = 0 => prev_end = -1 /\ c = nom_s
      /\ k # 0 => 0 <= prev_end /\ c = prev_end + Gap
  BY SearchPlace DEF Chain
<1>3. r \in Int /\ 0 <= r
  BY <1>1, RiseNumbers
<1>4. Rise(d, k) \in seg.rising
  BY SliceCrossings
<1>5. \A x \in seg.rising \ {r} : x + SymLen < r \/ r + SymLen < x
  <2> TAKE x \in seg.rising \ {r}
  <2>1. PICK j \in Heard(p) : x = Rise(d, j)
    BY SliceCrossings
  <2>2. j \in Int /\ j # k /\ k \in Int
    BY <1>1, <2>1, EdgeNumbers DEF Heard
  <2>3. j < k \/ k < j
    BY <2>2
  <2>4. j < k => Rise(d, j) + SymLen < Rise(d, k)
    BY <2>2, RiseNumbers
  <2>5. k < j => Rise(d, k) + SymLen < Rise(d, j)
    BY <2>2, RiseNumbers
  <2> QED  BY <2>1, <2>3, <2>4, <2>5
<1>6. /\ prev_end < r /\ c - search_margin <= r /\ r <= c + search_margin
  <2>1. CASE 0..k-1 \subseteq p.faded /\ c = nom_s
    <3> DEFINE b == d.abs_start
               lo == SliceLo(d)
               v == k * p.drift
               x == k * Slot
    <3>1. /\ lo \in Nat /\ b \in Nat /\ p.at \in Nat
          /\ p.at - Jitter <= b /\ b <= p.at + Jitter
      BY SlicePlace
    <3>2. nom_s = (b - lo) + x
      BY <1>1, NominalInRange
    <3>3. r = (p.at - 1 - lo) + (x + v)
      <4>0. k \in Int /\ 0 \in Int
        BY <1>1
      <4>1. Rise(d, k) = Rise(d, 0) + ((k - 0) * Slot + (k - 0) * p.drift)
        BY <4>0, RiseNumbers, Zenon
      <4>2. Rise(d, 0) = p.at - 1 - lo
        BY RiseNumbers
      <4>3. k - 0 = k
        BY <1>1
      <4> QED  BY <4>1, <4>2, <4>3
    <3>4. /\ v + Jitter - 1 <= search_margin
          /\ k > 0 => Jitter + 2 - v <= Gap
      BY <1>1, <2>1 DEF Followed, Followable, Heard
    <3>5. v \in Int /\ x \in Int
      BY <1>1, EdgeNumbers
    <3>6. k = 0 => v = 0
      BY <1>1
    <3> HIDE DEF b, lo, v, x, r, c, p
    <3>7. r <= c + search_margin
      BY <2>1, <3>1, <3>2, <3>3, <3>4, <3>5, EdgeNumbers
    <3>8. CASE k = 0
      <4>1. prev_end = -1 /\ v = 0
        BY <1>2, <3>6, <3>8
      <4>2. c - search_margin <= r
        BY <2>1, <3>1, <3>2, <3>3, <3>5, <4>1, EdgeNumbers
      <4> QED  BY <1>3, <3>7, <4>1, <4>2
    <3>9. CASE k # 0
      <4>1. c = prev_end + Gap /\ Jitter + 2 - v <= Gap
        BY <1>1, <1>2, <3>4, <3>9
      <4>2. c - Gap < r
        BY <2>1, <3>1, <3>2, <3>3, <3>5, <4>1, EdgeNumbers
      <4> QED  BY <1>2, <1>3, <3>7, <4>1, <4>2, EdgeNumbers
    <3> QED  BY <3>8, <3>9
  <2>2. ASSUME NEW i \in 1..k, i - 1 \in Heard(p), i..k-1 \subseteq p.faded,
               c = Rise(d, i-1) + (k - i + 1) * Slot
        PROVE  prev_end < r /\ c - search_margin <= r /\ r <= c + search_margin
    <3> DEFINE v == (k - i + 1) * p.drift
    <3>1. i \in Int /\ i \in 0..k /\ i # 0 /\ k - i + 1 \in Nat /\ k # 0
      BY <1>1
    <3>2. v \in Int
      BY <1>1, <3>1
    <3>3. r = c + v
      <4>1. Rise(d, k) = Rise(d, i-1) + ((k - (i-1)) * Slot + (k - (i-1)) * p.drift)
        BY <1>1, <3>1, RiseNumbers
      <4>2. k - (i-1) = k - i + 1
        BY <1>1, <3>1
      <4>3. Rise(d, i-1) \in Int
        BY <1>1, <3>1, RiseNumbers
      <4>4. (k - i + 1) * Slot \in Int
        BY <3>1, EdgeNumbers
      <4> DEFINE y == (k - i + 1) * Slot
      <4>5. r = Rise(d, i-1) + (y + v) /\ c = Rise(d, i-1) + y /\ y \in Int
        BY <2>2, <4>1, <4>2, <4>4
      <4> HIDE DEF y, v, r, c
      <4> QED  BY <3>2, <4>3, <4>5
    <3>4. v <= search_margin
      BY <1>1, <2>2, <3>1 DEF Followed, Followable, Heard
    <3>5. -Gap < v
      <4>1. CASE p.drift >= 0
        <5>1. v \in Nat
          BY <1>1, <3>1, <4>1, ProductAtLeast
        <5> QED  BY <5>1, EdgeNumbers
      <4>2. CASE p.drift < 0
        <5>1. p.faded = {}
          BY <4>2 DEF Followed, Followable
        <5>2. i = k
          BY <1>1, <2>2, <3>1, <5>1
        <5>3. v = p.drift
          BY <1>1, <5>2
        <5> QED  BY <1>1, <5>3
      <4> QED  BY <1>1, <4>1, <4>2
    <3>6. c = prev_end + Gap
      BY <1>2, <3>1
    <3> HIDE DEF v, r, c
    <3> QED  BY <1>2, <1>3, <3>2, <3>3, <3>4, <3>5, <3>6, EdgeNumbers
  <2> QED  BY <2>1, <2>2 DEF Chain
<1> QED  BY <1>4, <1>5, <1>6, StartFound

(* ... and so is its end.                                                  *)
LEMMA HeardEnd ==
  ASSUME rec \in Recordings, NEW d, Placed(d), Followed(d), seg = SegmentOf(d),
         EdgesInv, k \in Heard(d.of)
  PROVE  SymbolEnd(Rise(d, k)) = Fall(d, k)
<1>1. k \in Int /\ Rise(d, k) \in Int /\ Fall(d, k) = Rise(d, k) + SymLen
  BY RiseNumbers, EdgeNumbers DEF Heard
<1>2. ASSUME NEW x \in seg.falling
      PROVE  \/ x = Rise(d, k) + SymLen
             \/ x + Gap < Rise(d, k) + SymLen
             \/ Rise(d, k) + SymLen + Gap < x
  <2>1. PICK j \in Heard(d.of) : x = Fall(d, j)
    BY SliceCrossings
  <2>2. j \in Int
    BY <2>1, EdgeNumbers DEF Heard
  <2>4. Rise(d, j) \in Int /\ x = Rise(d, j) + SymLen
    BY <2>1, <2>2, RiseNumbers
  <2>5. /\ j < k => Rise(d, j) + SymLen < Rise(d, k)
        /\ k < j => Rise(d, k) + SymLen < Rise(d, j)
    BY <1>1, <2>2, RiseNumbers
  <2>3. j = k => x = Rise(d, k) + SymLen
    BY <2>4
  <2> QED  BY <1>1, <2>2, <2>3, <2>4, <2>5, EdgeNumbers
<1> QED  BY <1>1, <1>2, EndFound

(* A missing symbol is taken to be where it is looked for: the crossings   *)
(* of the symbols before it are behind, those of the next ones out of the  *)
(* search, which is a gap or an eighth of a symbol wide.                   *)
LEMMA LostPlace ==
  ASSUME rec \in Recordings, NEW d, Placed(d), Followed(d), seg = SegmentOf(d),
         EdgesInv, Chain(d), k \in 0..NumSym-1, k \in d.of.faded
  PROVE  /\ prev_end < search_center /\ 0 <= search_center
         /\ search_center + SymLen <= seg.n
         /\ \A j \in Heard(d.of) :
              \/ Rise(d, j) <= prev_end /\ Fall(d, j) + Gap < search_center + SymLen
              \/ /\ search_center + search_margin < Rise(d, j)
                 /\ nom_s + search_margin < Rise(d, j)
<1> DEFINE p == d.of
           c == search_center
<1>1. /\ k \in Nat /\ p.drift \in Int /\ p \in rec.packets
  BY PacketNumbers, EdgeNumbers DEF Placed
<1>2. p.drift \in Nat
  BY <1>1 DEF Followed, Followable
<1>3. /\ prev_end \in Int /\ c \in Int /\ nom_s \in Int
      /\ k = 0 => prev_end = -1 /\ c = nom_s
      /\ k # 0 => 0 <= prev_end /\ c = prev_end + Gap
  BY SearchPlace DEF Chain
<1>4. nom_s >= 0 /\ nom_s + SymLen <= seg.n /\ seg.n \in Int
  BY NominalInRange DEF InRange
<1>5. \A j \in Heard(p) : j \in 0..NumSym-1 /\ j \in Int /\ j # k /\ j \notin p.faded
  BY EdgeNumbers DEF Heard
<1>6. \A j \in Int : Rise(d, j) \in Int /\ Fall(d, j) = Rise(d, j) + SymLen
  BY RiseNumbers
(* From one symbol to a later one it is a slot for each and more.          *)
<1>7. ASSUME NEW i \in Int, NEW n \in Nat, NEW j \in Int, i + n < j
      PROVE  /\ n * Slot \in Nat /\ Rise(d, i) + n * Slot + Slot <= Rise(d, j)
  <2>1. Rise(d, j) = Rise(d, i) + ((j - i) * Slot + (j - i) * p.drift)
    BY <1>7, RiseNumbers, Zenon
  <2>2. j - i \in Nat /\ n < j - i
    BY <1>7
  <2>3. (j - i) * p.drift \in Nat
    BY <1>2, <2>2, ProductAtLeast
  <2>4. n * Slot \in Int /\ (j - i) * Slot \in Int /\ n * Slot + Slot <= (j - i) * Slot
    BY <2>2, Spread, EdgeNumbers
  <2>5. n * Slot \in Nat
    BY ProductAtLeast, EdgeNumbers
  <2> DEFINE u == (j - i) * p.drift
             v == n * Slot
             w == (j - i) * Slot
  <2>6. Rise(d, j) = Rise(d, i) + (w + u) /\ u \in Nat /\ v \in Nat /\ w \in Int
        /\ v + Slot <= w
    BY <2>1, <2>3, <2>4, <2>5
  <2> HIDE DEF u, v, w
  <2>7. Rise(d, i) \in Int /\ Rise(d, j) \in Int
    BY <1>6
  <2>8. v \in Nat /\ Rise(d, i) + v + Slot <= Rise(d, j)
    BY <2>6, <2>7, EdgeNumbers
  <2> QED  BY <2>8 DEF v
<1>8. ASSUME NEW j \in Int, k < j
      PROVE  nom_s + search_margin < Rise(d, j)
  <2> DEFINE b == d.abs_start
             lo == SliceLo(d)
             x == k * Slot
  <2>1. /\ lo \in Nat /\ b \in Nat /\ p.at \in Nat /\ b <= p.at + Jitter
    BY SlicePlace
  <2>2. nom_s = (b - lo) + x
    BY NominalInRange
  <2>3. x \in Nat /\ Rise(d, 0) + x + Slot <= Rise(d, j)
    <3>1. 0 \in Int /\ 0 + k < j
      BY <1>1, <1>8
    <3> QED  BY <1>1, <1>7, <3>1
  <2>4. Rise(d, 0) = p.at - 1 - lo
    BY RiseNumbers
  <2>5. Rise(d, j) \in Int
    BY <1>6
  <2> HIDE DEF b, lo, x
  <2> QED  BY <2>1, <2>2, <2>3, <2>4, <2>5, EdgeNumbers
<1>9. CASE 0..k-1 \subseteq p.faded /\ c = nom_s
  <2>1. prev_end < c
    BY <1>3, <1>4, <1>9, EdgeNumbers
  <2>2. ASSUME NEW j \in Heard(p)
        PROVE  c + search_margin < Rise(d, j) /\ nom_s + search_margin < Rise(d, j)
    <3>1. j \in Int /\ 0 <= j /\ j # k /\ j \notin 0..k-1
      BY <1>5, <1>9, EdgeNumbers
    <3>2. k < j
      BY <1>1, <3>1
    <3>3. nom_s + search_margin < Rise(d, j)
      BY <1>8, <3>1, <3>2
    <3> QED  BY <1>9, <3>3
  <2> QED  BY <1>4, <1>9, <2>1, <2>2
<1>10. ASSUME NEW i \in 1..k, i - 1 \in Heard(p), i..k-1 \subseteq p.faded,
              c = Rise(d, i-1) + (k - i + 1) * Slot
       PROVE  /\ prev_end < c /\ 0 <= c /\ c + SymLen <= seg.n
              /\ \A j \in Heard(p) :
                   \/ Rise(d, j) <= prev_end /\ Fall(d, j) + Gap < c + SymLen
                   \/ c + search_margin < Rise(d, j) /\ nom_s + search_margin < Rise(d, j)
  <2> DEFINE m == k - i
             y == m * Slot
  <2>1. i \in Int /\ i - 1 \in Int /\ m \in Nat /\ k # 0
    BY <1>1
  <2>2. c = prev_end + Gap
    BY <1>3, <2>1
  <2>3. y \in Nat /\ c = Rise(d, i-1) + y + Slot
    <3>1. (k - i + 1) * Slot = m * Slot + Slot
      BY <1>1, <2>1, EdgeNumbers
    <3>2. m * Slot \in Nat
      BY <2>1, ProductAtLeast, EdgeNumbers
    <3>3. Rise(d, i-1) \in Int
      BY <1>6, <2>1
    <3>4. c = Rise(d, i-1) + (y + Slot) /\ y \in Nat
      BY <1>10, <3>1, <3>2
    <3> HIDE DEF y, c
    <3> QED  BY <3>3, <3>4, EdgeNumbers
  <2>4. c <= Rise(d, k)
    <3>1. (i-1) + m < k
      BY <1>1, <2>1
    <3>2. Rise(d, i-1) + m * Slot + Slot <= Rise(d, k)
      BY <1>1, <1>7, <2>1, <3>1
    <3> QED  BY <2>3, <3>2
  <2>5. Rise(d, i-1) \in Int /\ 0 <= Rise(d, i-1) /\ Rise(d, k) \in Int
    BY <1>1, <1>5, <1>6, <1>10, <2>1, RiseNumbers
  <2>6. 0 <= c
    <3> HIDE DEF y, c
    <3> QED  BY <1>3, <2>3, <2>5, EdgeNumbers
  <2>7. c + SymLen <= seg.n
    <3>1. Fall(d, k) < SliceHi(d) - SliceLo(d) /\ Fall(d, k) = Rise(d, k) + SymLen
      BY <1>1, <1>6, RiseNumbers
    <3>2. seg.n = SliceHi(d) - SliceLo(d)
      BY NominalInRange
    <3>3. Rise(d, k) + SymLen < seg.n
      BY <3>1, <3>2
    <3> HIDE DEF c
    <3> QED  BY <1>3, <1>4, <2>4, <2>5, <3>3, EdgeNumbers
  <2>8. ASSUME NEW j \in Heard(p)
        PROVE  \/ Rise(d, j) <= prev_end /\ Fall(d, j) + Gap < c + SymLen
               \/ c + search_margin < Rise(d, j) /\ nom_s + search_margin < Rise(d, j)
    <3>1. j \in Int /\ 0 <= j /\ j # k /\ j \notin i..k-1
      BY <1>5, <1>10, EdgeNumbers
    <3>2. j <= i - 1 \/ k < j
      BY <1>1, <2>1, <3>1
    <3>3. Rise(d, j) \in Int /\ Fall(d, j) = Rise(d, j) + SymLen
      BY <1>6, <3>1
    <3>4. CASE k < j
      <4>1. nom_s + search_margin < Rise(d, j)
        BY <1>8, <3>1, <3>4
      <4>2. Rise(d, k) + SymLen < Rise(d, j)
        BY <1>1, <3>1, <3>4, RiseNumbers
      <4> HIDE DEF c
      <4>3. c + search_margin < Rise(d, j)
        BY <1>3, <2>4, <2>5, <3>3, <4>2, EdgeNumbers
      <4> QED  BY <4>1, <4>3
    <3>5. CASE j <= i - 1
      <4>1. Rise(d, j) <= Rise(d, i-1)
        <5>1. j < i - 1 => Rise(d, j) + SymLen < Rise(d, i-1)
          BY <2>1, <3>1, RiseNumbers
        <5>2. j = i - 1 => Rise(d, j) = Rise(d, i-1)
          OBVIOUS
        <5> QED  BY <2>1, <2>5, <3>1, <3>3, <3>5, <5>1, <5>2, EdgeNumbers
      <4> HIDE DEF c, y
      <4>2. Rise(d, j) <= prev_end /\ Fall(d, j) + Gap < c + SymLen
        BY <1>3, <2>2, <2>3, <2>5, <3>3, <4>1, EdgeNumbers
      <4> QED  BY <4>2
    <3> QED  BY <3>2, <3>4, <3>5
  <2>9. prev_end < c
    BY <1>3, <2>2, EdgeNumbers
  <2> QED  BY <2>6, <2>7, <2>8, <2>9
<1> QED  BY <1>9, <1>10 DEF Chain

LEMMA LostKept ==
  ASSUME rec \in Recordings, NEW d, Placed(d), Followed(d), seg = SegmentOf(d),
         EdgesInv, Chain(d), k \in 0..NumSym-1, k \in d.of.faded
  PROVE  /\ SymbolStart = search_center
         /\ SymbolEnd(search_center) = search_center + SymLen
<1>1. search_center \in Int /\ nom_s \in Int /\ prev_end \in Int
  BY SymbolTypes DEF EdgesInv
<1>2. ASSUME NEW x \in seg.rising
      PROVE  \/ x <= prev_end
             \/ search_center + search_margin < x /\ nom_s + search_margin < x
  <2>1. PICK j \in Heard(d.of) : x = Rise(d, j)
    BY SliceCrossings
  <2> QED  BY <2>1, LostPlace
<1>3. SymbolStart = search_center
  BY <1>2, StartKept, LostPlace
<1>4. ASSUME NEW x \in seg.falling
      PROVE  \/ x = search_center + SymLen
             \/ x + Gap < search_center + SymLen
             \/ search_center + SymLen + Gap < x
  <2>1. PICK j \in Heard(d.of) : x = Fall(d, j)
    BY SliceCrossings
  <2>2. j \in Int
    BY <2>1, EdgeNumbers DEF Heard
  <2>3. Rise(d, j) \in Int /\ x = Rise(d, j) + SymLen
    BY <2>1, <2>2, RiseNumbers
  <2>4. \/ x + Gap < search_center + SymLen
        \/ search_center + search_margin < Rise(d, j)
    BY <2>1, LostPlace
  <2> QED  BY <1>1, <2>3, <2>4, EdgeNumbers
<1> QED  BY <1>1, <1>3, <1>4, EndFound

LEMMA FoundAre ==
  ASSUME EdgesInv, NEW s \in Int, NEW e \in Int, SymbolStart = s, SymbolEnd(s) = e,
         0 <= s, s < e, e <= seg.n
  PROVE  FoundStart = s /\ FoundEnd = e
<1>1. seg.n \in Int
  BY DEF EdgesInv
<1>2. \A n \in Int : e <= n => /\ AtLeast(AtMost(s, n - 1), 0) = s
                               /\ AtLeast(AtMost(e, n), s + 1) = e
  BY DEF AtLeast, AtMost
<1>3. /\ AtLeast(AtMost(s, seg.n - 1), 0) = s
      /\ AtLeast(AtMost(e, seg.n), s + 1) = e
  BY <1>1, <1>2
<1> QED  BY <1>3 DEF FoundStart, FoundEnd

LEMMA ChainStep ==
  ASSUME rec \in Recordings, NEW d, Placed(d), Followed(d), seg = SegmentOf(d),
         EdgesInv, Chain(d), CorrectSymbol
  PROVE  Chain(d)'
<1> DEFINE p == d.of
           s == FoundStart
           e == FoundEnd
<1>1. /\ edges' = Append(edges, <<s, e>>) /\ prev_end' = e
      /\ k' = k + 1 /\ seg' = seg /\ k < seg.count
  BY DEF CorrectSymbol, FoundStart, FoundEnd
<1>2. seg.count = NumSym /\ k \in Nat /\ k \in 0..NumSym-1 /\ p.faded \subseteq 0..NumSym-1
  <2>1. seg.count = NumSym /\ k \in Nat
    BY SliceCrossings DEF EdgesInv
  <2>2. p.faded \subseteq 0..NumSym-1
    BY PacketNumbers DEF Placed
  <2> QED  BY <1>1, <2>1, <2>2, EdgeNumbers
<1>3. search_center \in Int /\ nom_s \in Int /\ nom_s = seg.nom + k * Slot /\ seg.nom \in Int
  BY SymbolTypes DEF EdgesInv, nom_s
<1>4. nom_s' = nom_s + Slot
  <2>1. nom_s' = seg.nom + (k + 1) * Slot
    BY <1>1 DEF nom_s
  <2>2. (k + 1) * Slot = k * Slot + Slot /\ k * Slot \in Int
    BY <1>2, EdgeNumbers
  <2> DEFINE x == k * Slot
  <2>3. nom_s' = seg.nom + (x + Slot) /\ nom_s = seg.nom + x /\ x \in Int
    BY <1>3, <2>1, <2>2
  <2> HIDE DEF x
  <2> QED  BY <1>3, <2>3, EdgeNumbers
<1>5. Len(edges) = k /\ edges \in Seq(Int \X Int)
  BY DEF Chain, EdgesInv
<1>6. Len(edges') = k' /\ edges'[k+1] = <<s, e>> /\ \A j \in 1..k : edges'[j] = edges[j]
  <2> HIDE DEF s, e
  <2> QED  BY <1>1, <1>2, <1>5
<1>7. ASSUME NEW i \in Int
      PROVE  ((k' - i) + 1) * Slot = (k - i + 1) * Slot + Slot /\ (k - i + 1) * Slot \in Int
  BY <1>1, <1>2, EdgeNumbers
<1>8. CASE k \in p.faded
  <2> DEFINE c == search_center
  <2>1. /\ SymbolStart = c /\ SymbolEnd(c) = c + SymLen
        /\ 0 <= c /\ c + SymLen <= seg.n
    BY <1>2, <1>8, LostKept, LostPlace
  <2>2. s = c /\ e = c + SymLen
    BY <1>3, <2>1, FoundAre, EdgeNumbers
  <2>3. search_center' = c + Slot
    <3>1. prev_end' = c + SymLen /\ prev_end' # -1
      BY <1>1, <1>3, <2>1, <2>2, EdgeNumbers
    <3>2. search_center' = prev_end' + Gap
      BY <3>1 DEF search_center
    <3> QED  BY <1>3, <3>1, <3>2, EdgeNumbers
  <2>4. ASSUME NEW j \in Heard(p), j < k'
        PROVE  edges'[j+1] = <<Rise(d, j), Fall(d, j)>>
    <3>1. j \in Int /\ 0 <= j /\ j # k
      BY <1>8, EdgeNumbers DEF Heard
    <3>2. j < k /\ j + 1 \in 1..k
      BY <1>1, <1>2, <2>4, <3>1
    <3> QED  BY <1>6, <3>2 DEF Chain
  <2>5. CASE 0..k-1 \subseteq p.faded /\ c = nom_s
    <3>1. 0..k'-1 \subseteq p.faded
      BY <1>1, <1>2, <1>8, <2>5
    <3>2. search_center' = nom_s'
      BY <1>4, <2>3, <2>5
    <3> QED  BY <1>6, <2>4, <3>1, <3>2 DEF Chain
  <2>6. ASSUME NEW i \in 1..k, i - 1 \in Heard(p), i..k-1 \subseteq p.faded,
               c = Rise(d, i-1) + (k - i + 1) * Slot
        PROVE  Chain(d)'
    <3>1. i \in Int /\ i - 1 \in Int /\ i \in 1..k' /\ i..k'-1 \subseteq p.faded
      BY <1>1, <1>2, <1>8, <2>6
    <3>2. Rise(d, i-1) \in Int
      BY <3>1, RiseNumbers
    <3> DEFINE y == (k - i + 1) * Slot
    <3>3. y \in Int /\ ((k' - i) + 1) * Slot = y + Slot /\ c = Rise(d, i-1) + y
      BY <1>7, <2>6, <3>1
    <3> HIDE DEF y
    <3>4. search_center' = Rise(d, i-1) + ((k' - i) + 1) * Slot
      BY <2>3, <3>2, <3>3, EdgeNumbers
    <3>5. k' - i + 1 = (k' - i) + 1
      OBVIOUS
    <3> QED  BY <1>6, <2>4, <2>6, <3>1, <3>4, <3>5 DEF Chain
  <2> QED  BY <2>5, <2>6 DEF Chain
<1>9. CASE k \notin p.faded
  <2>1. k \in Heard(p)
    BY <1>2, <1>9 DEF Heard
  <2>2. SymbolStart = Rise(d, k) /\ SymbolEnd(Rise(d, k)) = Fall(d, k)
    BY <2>1, HeardStart, HeardEnd
  <2>3. /\ Rise(d, k) \in Int /\ Fall(d, k) \in Int /\ 0 <= Rise(d, k)
        /\ Fall(d, k) = Rise(d, k) + SymLen
    <3>1. Rise(d, k) \in Int /\ Fall(d, k) = Rise(d, k) + SymLen
      BY <1>2, RiseNumbers
    <3>2. 0 <= Rise(d, k)
      BY <1>2, RiseNumbers
    <3> QED  BY <3>1, <3>2, EdgeNumbers
  <2>4. Fall(d, k) <= seg.n
    <3>1. Fall(d, k) < SliceHi(d) - SliceLo(d)
      BY <1>2, RiseNumbers
    <3>2. seg.n = SliceHi(d) - SliceLo(d) /\ seg.n \in Int
      BY <1>2, NominalInRange
    <3> QED  BY <2>3, <3>1, <3>2
  <2>5. s = Rise(d, k) /\ e = Fall(d, k)
    BY <2>2, <2>3, <2>4, FoundAre, EdgeNumbers
  <2>6. search_center' = Rise(d, k) + Slot
    <3>1. prev_end' = Rise(d, k) + SymLen /\ prev_end' # -1
      BY <1>1, <2>3, <2>5, EdgeNumbers
    <3>2. search_center' = prev_end' + Gap
      BY <3>1 DEF search_center
    <3> QED  BY <2>3, <3>1, <3>2, EdgeNumbers
  <2>7. ASSUME NEW j \in Heard(p), j < k'
        PROVE  edges'[j+1] = <<Rise(d, j), Fall(d, j)>>
    <3>1. j \in Int /\ 0 <= j
      BY EdgeNumbers DEF Heard
    <3>2. CASE j = k
      BY <1>6, <2>5, <3>2
    <3>3. CASE j # k
      <4>1. j < k /\ j + 1 \in 1..k
        BY <1>1, <1>2, <2>7, <3>1, <3>3
      <4> QED  BY <1>6, <4>1 DEF Chain
    <3> QED  BY <3>2, <3>3
  <2>8. /\ k' \in 1..k' /\ k' - 1 = k /\ k'..k'-1 \subseteq p.faded
        /\ (k' - k' + 1) * Slot = Slot
    BY <1>1, <1>2, EdgeNumbers
  <2>9. /\ k' - 1 \in Heard(p)
        /\ search_center' = Rise(d, k'-1) + (k' - k' + 1) * Slot
    BY <2>1, <2>6, <2>8
  <2> QED  BY <1>6, <2>7, <2>8, <2>9 DEF Chain
<1> QED  BY <1>8, <1>9
-----------------------------------------------------------------------------
(* The invariant of the search and of what it has left in accepted.        *)

Exact(a) ==
  /\ Len(a.edges) = NumSym
  /\ \A j \in (0..NumSym-1) \ a.of.faded :
       a.edges[j+1] = <<SymStart(a.of, j) - 1, SymEnd(a.of, j) - 1>>

SearchInv ==
  /\ EdgesInv
  /\ \A d \in Current : seg = SegmentOf(d) /\ (Followed(d) => Chain(d))
  /\ \A a \in accepted : Followed(a) => Exact(a)

AnalysisInv == PacketsInv /\ SearchInv

LEMMA SameSlices ==
  ASSUME rec' = rec
  PROVE  /\ \A d : SegmentOf(d)' = SegmentOf(d)
         /\ \A d : Followed(d)' <=> Followed(d)
<1>1. \A d : SegmentOf(d)' = SegmentOf(d)
  BY DEF SegmentOf, SliceOn, SliceLo, SliceHi
<1>2. \A d : Followed(d)' <=> Followed(d)
  BY SameRecording DEF Followed, Quiet
<1> QED  BY <1>1, <1>2

LEMMA ExactIsConstant == \A a : Exact(a)' <=> Exact(a)
BY DEF Exact

LEMMA StartAnalysisSearch ==
  ASSUME AnalysisInv, rec = NoRecording, NEW r \in Recordings, StartAnalysis(r)
  PROVE  SearchInv'
<1>1. UNCHANGED <<failed, packets, cur, accepted, edgeVars>>
  BY DEF StartAnalysis
<1>2. EdgesInv'
  BY <1>1 DEF AnalysisInv, SearchInv, EdgesInv, edgeVars
<1>3. r.n \in Nat \ {0} /\ NoRecording.n = 0
  BY RecordingsAssumption DEF NoRecording
<1>4. cur = None /\ accepted = {}
  BY <1>3, RecordingsAssumption DEF AnalysisInv, PacketsInv
<1>5. Current' = {} /\ accepted' = {}
  BY <1>1, <1>4 DEF Current
<1> QED  BY <1>2, <1>5 DEF SearchInv

(* As long as no packet is begun and none is finished, nothing changes.    *)
LEMMA SearchWaits ==
  ASSUME SearchInv, UNCHANGED <<rec, cur, accepted, edgeVars>>
  PROVE  SearchInv'
<1>1. EdgesInv' /\ Current' = Current
  BY DEF SearchInv, EdgesInv, edgeVars, Current
<1>2. \A d : Chain(d)' <=> Chain(d)
  BY DEF Chain, edgeVars, search_center, nom_s, Rise, Fall, SliceLo
<1> QED  BY <1>1, <1>2, SameSlices, ExactIsConstant DEF SearchInv, edgeVars

LEMMA AcceptSearch ==
  ASSUME AnalysisInv, AcceptPacket
  PROVE  SearchInv'
<1>1. PICK d \in packets :
        /\ cur' = d
        /\ LET lo == SliceLo(d)
               hi == SliceHi(d)
               on == {i - lo : i \in On(rec) \cap lo..hi-1}
           IN  EdgesStart(Segment(hi - lo, d.abs_start - lo, NumSym,
                                  Rising(on, hi - lo), Falling(on, hi - lo)))
  BY DEF AcceptPacket
<1>2. EdgesStart(SegmentOf(d))
  BY <1>1 DEF SegmentOf, SliceOn
<1>3. cur = None /\ UNCHANGED <<rec, accepted>>
  BY DEF AcceptPacket
<1>4. seg' = SegmentOf(d) /\ k' = 0 /\ prev_end' = -1 /\ edges' = <<>>
  BY <1>2 DEF EdgesStart
<1>5. EdgesInv'
  <2>1. Placed(d) /\ rec \in Recordings
    BY <1>1 DEF AnalysisInv, PacketsInv
  <2>2. d.abs_start \in Nat /\ rec.n \in Nat
    BY <2>1, PacketNumbers DEF Placed
  <2>3. SliceLo(d) \in Int /\ SliceHi(d) \in Int
    <3> DEFINE m == NumSym * Slot
    <3>1. m \in Int
      BY EdgeNumbers
    <3>2. SliceLo(d) = AtLeast(d.abs_start - Slot, 0)
      BY DEF SliceLo
    <3>3. SliceHi(d) = AtMost((d.abs_start + m) + Slot, rec.n)
      BY DEF SliceHi
    <3> HIDE DEF m
    <3>4. d.abs_start - Slot \in Int /\ (d.abs_start + m) + Slot \in Int
      BY <2>2, <3>1, EdgeNumbers
    <3>5. rec.n \in Int /\ 0 \in Int
      BY <2>2
    <3>6. SliceLo(d) \in Int
      BY <3>2, <3>4, <3>5, Limits
    <3>7. SliceHi(d) \in Int
      BY <3>3, <3>4, <3>5, Limits
    <3> QED  BY <3>6, <3>7
  <2> DEFINE n == SliceHi(d) - SliceLo(d)
             rising == Rising(SliceOn(d), n)
             falling == Falling(SliceOn(d), n)
  <2>4. SliceOn(d) \subseteq Int
    BY <2>3 DEF SliceOn
  <2>5. rising \in SUBSET Int /\ falling \in SUBSET Int
    BY <2>4 DEF Rising, Falling
  <2>6. SegmentOf(d) = Segment(n, d.abs_start - SliceLo(d), NumSym, rising, falling)
    BY DEF SegmentOf
  <2>7. n \in Int /\ d.abs_start - SliceLo(d) \in Int /\ NumSym \in Nat
    BY <2>2, <2>3, EdgeNumbers
  <2> HIDE DEF n, rising, falling
  <2> QED  BY <1>2, <2>5, <2>6, <2>7, EdgesStartInv
<1>6. Chain(d)'
  <2>1. Len(edges') = k' /\ 0..k'-1 = {}
    BY <1>4
  <2>2. search_center' = nom_s'
    BY <1>4 DEF search_center
  <2>3. \A j \in Heard(d.of) : ~(j < k')
    BY <1>4, EdgeNumbers DEF Heard
  <2> QED  BY <2>1, <2>2, <2>3 DEF Chain
<1>7. seg' = SegmentOf(d)'
  BY <1>3, <1>4, SameSlices
<1>8. Current' \subseteq {d} /\ \A a \in accepted' : Followed(a)' => Exact(a)'
  BY <1>1, <1>3, SameSlices, ExactIsConstant DEF Current, AnalysisInv, SearchInv
<1> QED  BY <1>5, <1>6, <1>7, <1>8 DEF SearchInv

LEMMA FindEdgeSearch ==
  ASSUME AnalysisInv, FindEdge
  PROVE  SearchInv'
<1>1. cur # None /\ UNCHANGED anVars
  BY DEF FindEdge
<1>2. Current' = Current /\ rec' = rec /\ accepted' = accepted
  BY <1>1 DEF Current, anVars
<1>3. \A a \in accepted' : Followed(a)' => Exact(a)'
  BY <1>2, SameSlices, ExactIsConstant DEF AnalysisInv, SearchInv
<1>4. \A d \in Current : Placed(d) /\ seg = SegmentOf(d) /\ rec \in Recordings
  BY DEF AnalysisInv, SearchInv, PacketsInv, Current
<1>5. CASE CorrectSymbol
  <2>1. EdgesInv'
    BY <1>5, CorrectSymbolInv DEF AnalysisInv, SearchInv
  <2>2. seg' = seg
    BY <1>5 DEF CorrectSymbol
  <2>3. ASSUME NEW d \in Current, Followed(d)
        PROVE  Chain(d)'
    BY <1>4, <1>5, <2>3, ChainStep DEF AnalysisInv, SearchInv
  <2> QED  BY <1>2, <1>3, <1>4, <2>1, <2>2, <2>3, SameSlices DEF SearchInv
<1>6. CASE SkipSymbol
  <2>1. EdgesInv'
    BY <1>6, SkipSymbolInv DEF AnalysisInv, SearchInv
  <2>2. seg' = seg
    BY <1>6 DEF SkipSymbol
  <2>3. ASSUME NEW d \in Current, Followed(d)
        PROVE  FALSE
    <3>1. rec \in Recordings /\ Placed(d) /\ seg = SegmentOf(d)
      BY <1>4
    <3>2. k \in 0..NumSym-1
      <4>1. seg.count = NumSym
        BY <2>3, <3>1, SliceCrossings
      <4>2. k < seg.count /\ k \in 0..seg.count
        BY <1>6 DEF SkipSymbol, AnalysisInv, SearchInv, EdgesInv
      <4> QED  BY <4>1, <4>2, EdgeNumbers
    <3>3. InRange
      BY <2>3, <3>1, <3>2, NominalInRange
    <3> QED  BY <1>6, <3>3 DEF SkipSymbol
  <2> QED  BY <1>2, <1>3, <1>4, <2>1, <2>2, <2>3, SameSlices DEF SearchInv
<1> QED  BY <1>5, <1>6 DEF FindEdge, EdgesNext

LEMMA KeepSearch ==
  ASSUME AnalysisInv, KeepPacket
  PROVE  SearchInv'
<1> DEFINE lo == SliceLo(cur)
           a == [of |-> cur.of, abs_start |-> cur.abs_start,
                 edges |-> [i \in 1..Len(edges) |->
                              <<edges[i][1] + SliceLo(cur), edges[i][2] + SliceLo(cur)>>]]
<1>1. /\ cur # None /\ cur' = None /\ k = seg.count /\ UNCHANGED <<rec, edgeVars>>
      /\ accepted' = accepted \cup {a}
  BY DEF KeepPacket, EdgesDone
<1>2. /\ a.of = cur.of /\ a.abs_start = cur.abs_start
      /\ a.edges = [i \in 1..Len(edges) |-> <<edges[i][1] + lo, edges[i][2] + lo>>]
  OBVIOUS
<1> HIDE DEF a
<1>3. EdgesInv' /\ Current' = {} /\ cur \in Current
  BY <1>1 DEF AnalysisInv, SearchInv, EdgesInv, edgeVars, Current
<1>4. ASSUME Followed(a)
      PROVE  Exact(a)
  <2>1. Followed(cur)
    BY <1>2, <1>4 DEF Followed
  <2>2. Placed(cur) /\ rec \in Recordings /\ seg = SegmentOf(cur) /\ Chain(cur)
    BY <1>1, <1>3, <2>1 DEF AnalysisInv, SearchInv, PacketsInv
  <2>3. seg.count = NumSym
    BY <2>1, <2>2, SliceCrossings
  <2>4. Len(edges) = NumSym /\ NumSym \in Nat
    BY <1>1, <2>2, <2>3, EdgeNumbers DEF Chain
  <2>5. a.edges = [i \in 1..NumSym |-> <<edges[i][1] + lo, edges[i][2] + lo>>]
    BY <1>2, <2>4
  <2>6. Len(a.edges) = NumSym
    BY <2>4, <2>5
  <2>7. lo \in Nat
    BY <2>1, <2>2, SlicePlace
  <2> HIDE DEF lo
  <2>8. ASSUME NEW j \in (0..NumSym-1) \ a.of.faded
        PROVE  a.edges[j+1] = <<SymStart(a.of, j) - 1, SymEnd(a.of, j) - 1>>
    <3>1. j \in Heard(cur.of) /\ j \in Int /\ j + 1 \in 1..NumSym /\ j < NumSym
      BY <1>2, <2>4, <2>8 DEF Heard
    <3>2. edges[j+1] = <<Rise(cur, j), Fall(cur, j)>>
      BY <1>1, <2>2, <2>3, <3>1 DEF Chain
    <3>3. a.edges[j+1] = <<Rise(cur, j) + lo, Fall(cur, j) + lo>>
      BY <2>5, <3>1, <3>2
    <3>4. SymStart(cur.of, j) \in Int /\ SymEnd(cur.of, j) \in Int
      <4>1. cur.of \in rec.packets
        BY <2>2 DEF Placed
      <4> QED  BY <2>2, <3>1, <4>1, SymbolPlaces, EdgeNumbers
    <3>5. /\ Rise(cur, j) = (SymStart(cur.of, j) - 1) - lo
          /\ Fall(cur, j) = (SymEnd(cur.of, j) - 1) - lo
      BY DEF Rise, Fall, lo
    <3>6. Rise(cur, j) + lo = SymStart(cur.of, j) - 1 /\ Fall(cur, j) + lo = SymEnd(cur.of, j) - 1
      BY <2>7, <3>4, <3>5
    <3> QED  BY <1>2, <3>3, <3>6
  <2> QED  BY <2>6, <2>8 DEF Exact
<1>5. \A b \in accepted' : Followed(b)' => Exact(b)'
  BY <1>1, <1>4, SameSlices, ExactIsConstant DEF AnalysisInv, SearchInv
<1> QED  BY <1>3, <1>5 DEF SearchInv
-----------------------------------------------------------------------------
(* The whole analysis.                                                     *)

LEMMA AnalysisInitInv == AnalysisInit => AnalysisInv
<1> SUFFICES ASSUME AnalysisInit  PROVE AnalysisInv
  OBVIOUS
<1>1. /\ rec = NoRecording /\ left = {} /\ failed = {} /\ packets = {}
      /\ cur = None /\ accepted = {} /\ Current = {}
  BY DEF AnalysisInit, Current
<1>2. PacketsInv
  BY <1>1 DEF PacketsInv, NoRecording
<1>3. EdgesInv
  <2>1. /\ seg.n = 0 /\ seg.nom = 0 /\ seg.count = 0 /\ seg.rising = {} /\ seg.falling = {}
        /\ k = 0 /\ prev_end = -1 /\ edges = <<>>
    BY DEF AnalysisInit, Segment
  <2>2. Apart(edges, seg.n) /\ edges \in Seq(Int \X Int) /\ Len(edges) = 0
    BY <2>1 DEF Apart
  <2> QED  BY <2>1, <2>2 DEF EdgesInv
<1> QED  BY <1>1, <1>2, <1>3 DEF AnalysisInv, SearchInv

LEMMA AnalysisStartInv ==
  ASSUME AnalysisInv, rec = NoRecording, NEW r \in Recordings, StartAnalysis(r)
  PROVE  AnalysisInv'
BY StartAnalysisPackets, StartAnalysisSearch DEF AnalysisInv

LEMMA AnalysisNextInv ==
  ASSUME AnalysisInv, AnalysisNext
  PROVE  AnalysisInv'
<1>1. CASE DecodeWindow
  <2>1. SearchInv'
    BY <1>1, SearchWaits DEF AnalysisInv, DecodeWindow
  <2> QED  BY <1>1, <2>1, DecodeWindowPackets DEF AnalysisInv
<1>2. CASE WindowFails
  <2>1. SearchInv'
    BY <1>2, SearchWaits DEF AnalysisInv, WindowFails
  <2> QED  BY <1>2, <2>1, WindowFailsPackets DEF AnalysisInv
<1>3. CASE DropDuplicate
  <2>1. SearchInv'
    BY <1>3, SearchWaits DEF AnalysisInv, DropDuplicate
  <2> QED  BY <1>3, <2>1, DropDuplicatePackets DEF AnalysisInv
<1>4. CASE AcceptPacket
  BY <1>4, AcceptPackets, AcceptSearch DEF AnalysisInv
<1>5. CASE FindEdge
  <2>1. PacketsInv'
    BY <1>5, StutterPackets DEF AnalysisInv, FindEdge, anVars
  <2> QED  BY <1>5, <2>1, FindEdgeSearch DEF AnalysisInv
<1>6. CASE KeepPacket
  BY <1>6, KeepPackets, KeepSearch DEF AnalysisInv
<1> QED  BY <1>1, <1>2, <1>3, <1>4, <1>5, <1>6 DEF AnalysisNext

LEMMA AnalysisStutterInv == AnalysisInv /\ UNCHANGED <<anVars, edgeVars>> => AnalysisInv'
BY StutterPackets, SearchWaits DEF AnalysisInv, anVars

(* What the invariant says.                                                *)
LEMMA SymbolsFollowed == AnalysisInv => EdgesFollowSymbols
BY DEF AnalysisInv, SearchInv, EdgesInv, EdgesFollowSymbols, Followed, Alone, Exact

LEMMA AnalysisTypes == AnalysisInv => AnalysisTypeOK
<1> SUFFICES ASSUME AnalysisInv  PROVE AnalysisTypeOK
  OBVIOUS
<1>1. \A d \in packets \cup accepted : d.of \in rec.packets /\ d.abs_start \in 0..rec.n-1
  BY DEF AnalysisInv, PacketsInv, Placed
<1> QED  BY <1>1 DEF AnalysisTypeOK, AnalysisInv, PacketsInv, SearchInv, EdgesInv
=============================================================================
