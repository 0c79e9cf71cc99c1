-------------------------------- MODULE Edges --------------------------------
(***************************************************************************)
(* correct_symbol_edges (stream_web/timing.py): where the symbols of a     *)
(* packet begin and end.  The envelope's crossings of a threshold are      *)
(* given; each symbol is looked for near the place that the end of the     *)
(* symbol before it suggests, then near its nominal place, and where the   *)
(* envelope shows nothing the suggestion is kept.  One action per symbol.  *)
(***************************************************************************)
EXTENDS Integers, Sequences

CONSTANTS
    SymLen,         \* config.samples_per_symbol
    Slot            \* a symbol and the gap after it

ASSUME EdgesAssumption == SymLen \in Nat \ {0} /\ Slot \in Nat /\ Slot > SymLen

VARIABLES
    seg,            \* [n, nom, count, rising, falling]: see Segment
    k,              \* the symbol looked at
    prev_end,       \* end of the symbol before it, -1: there was none
    edges           \* those found

edgeVars == <<seg, k, prev_end, edges>>

AtLeast(x, lo) == IF x < lo THEN lo ELSE x
AtMost(x, hi) == IF x > hi THEN hi ELSE x

Gap == Slot - SymLen
search_margin == AtLeast(Gap, SymLen \div 8)
fall_margin == Gap \div 4

(* n samples, the first of count symbols expected at nom.                  *)
Segment(n, nom, count, rising, falling) ==
    [n |-> n, nom |-> nom, count |-> count, rising |-> rising, falling |-> falling]

(* build_crossings of n samples, on being those above the threshold.       *)
Rising(on, n) == {i - 1 : i \in on \ {0}} \ on
Falling(on, n) == {i \in on \ {n - 1} : i + 1 \notin on}

(* The first of the crossings nearest to the target.                       *)
nearest_xing(xs, target) ==
    LET far(x) == IF x < target THEN target - x ELSE x - target
    IN  IF xs = {} THEN target
        ELSE CHOOSE x \in xs : \A y \in xs : far(x) < far(y) \/ (far(x) = far(y) /\ x <= y)

nom_s == seg.nom + k * Slot

(* Seeded fault: every symbol is expected at its nominal place.            *)
search_center_nominal == nom_s

search_center == IF prev_end = -1 THEN nom_s ELSE prev_end + Gap

RisesNear(center) ==
    {x \in seg.rising : /\ AtLeast(center - search_margin, prev_end + 1) <= x
                        /\ x <= center + search_margin}

SymbolStart ==
    LET cands == IF RisesNear(search_center) # {} THEN RisesNear(search_center)
                                                  ELSE RisesNear(nom_s)
    IN  AtLeast(nearest_xing(cands, search_center), prev_end + 1)

SymbolEnd(s) ==
    LET falls == {x \in seg.falling : /\ AtLeast(s + SymLen - fall_margin, 0) <= x
                                      /\ x <= AtMost(s + SymLen + fall_margin, seg.n)}
    IN  AtLeast(nearest_xing(falls, s + SymLen), s + 1)

InRange == nom_s >= 0 /\ nom_s + SymLen <= seg.n
-----------------------------------------------------------------------------
EdgesStart(s) ==
    /\ seg' = s
    /\ k' = 0 /\ prev_end' = -1 /\ edges' = <<>>

CorrectSymbol ==
    /\ k < seg.count /\ InRange
    /\ LET s == AtLeast(AtMost(SymbolStart, seg.n - 1), 0)
           e == AtLeast(AtMost(SymbolEnd(SymbolStart), seg.n), s + 1)
       IN  edges' = Append(edges, <<s, e>>) /\ prev_end' = e
    /\ k' = k + 1
    /\ UNCHANGED seg

SkipSymbol ==
    /\ k < seg.count /\ ~InRange
    /\ k' = k + 1
    /\ UNCHANGED <<seg, prev_end, edges>>

EdgesNext == CorrectSymbol \/ SkipSymbol
EdgesDone == k = seg.count
-----------------------------------------------------------------------------
(* Each symbol lies in the segment, has a length, and lies after the one   *)
(* before it, whatever noise crosses the threshold; only where the end of  *)
(* the segment has been reached may the next share its last sample.        *)
Apart(found, n) ==
    /\ \A i \in 1..Len(found) :
         0 <= found[i][1] /\ found[i][1] < found[i][2] /\ found[i][2] <= n
    /\ \A i \in 1..Len(found)-1 :
         found[i][2] < found[i+1][1] \/ found[i][2] >= n - 1
=============================================================================
