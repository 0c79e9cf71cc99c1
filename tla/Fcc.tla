--------------------------------- MODULE Fcc ---------------------------------
(***************************************************************************)
(* evaluate_fcc_compliance (stream_web/spectrogram.py): the verdict of     *)
(* /api/fcc_check and of the overlay, from an averaged spectrum.  A trace  *)
(* is a function from bins to levels, in a unit in which the interpolation *)
(* over the notch at DC and the median are whole numbers.                  *)
(***************************************************************************)
EXTENDS Integers, FiniteSets, FiniteSetsExt

CONSTANTS
    Bins,           \* number of bins
    NotchBins,      \* config.SPEC_DC_NOTCH_BINS
    MinSnr,         \* config.FCC_OVERLAY_MIN_SNR_DB
    SkirtDrop,      \* 20 dB
    SpurSnr, SpurProminence, SpurSep, SpurLimit,    \* config.SPUR_*
    Spacing,        \* config.CHANNEL_SPACING in bins
    GuardExtra,     \* 3
    Traces          \* averaged spectra

ASSUME FccAssumption ==
    /\ Bins \in Nat \ {0} /\ NotchBins \in Nat /\ SpurSep \in Nat \ {0}
    /\ Spacing \in Nat /\ GuardExtra \in Nat
    /\ {MinSnr, SkirtDrop, SpurSnr, SpurProminence, SpurLimit} \subseteq Nat
    /\ Traces \subseteq [0..Bins-1 -> Int]

VARIABLES
    trace,          \* avg_dB
    carrier,        \* the strongest tone and what is measured of it
    verdict

fccVars == <<trace, carrier, verdict>>

Bin == 0..Bins-1
Away(p, q) == IF p < q THEN q - p ELSE p - q

(* The j-th smallest level; the noise floor is the median.                 *)
Smallest(j) ==
    CHOOSE x \in {trace[b] : b \in Bin} :
        /\ Cardinality({b \in Bin : trace[b] < x}) < j
        /\ Cardinality({b \in Bin : trace[b] <= x}) >= j
noise_dB == (Smallest((Bins + 1) \div 2) + Smallest(Bins \div 2 + 1)) \div 2

(* The strongest tone; where it is 20 dB down on either side.              *)
peak_idx == Min({b \in Bin : \A c \in Bin : trace[c] <= trace[b]})

Skirt(p) ==
    LET down == {b \in Bin : trace[b] <= trace[p] - SkirtDrop}
    IN  <<Max({0} \cup {b \in down : b < p}), Min({Bins - 1} \cup {b \in down : b > p})>>

(* scipy.signal.find_peaks: the middle of each plateau between lower bins. *)
Maxima ==
    {(e[1] + e[2]) \div 2 : e \in
        {x \in (1..Bins-2) \X (1..Bins-2) :
            /\ x[1] <= x[2]
            /\ trace[x[1]-1] < trace[x[1]] /\ trace[x[2]+1] < trace[x[2]]
            /\ \A b \in x[1]..x[2] : trace[b] = trace[x[1]]}}

(* Of two peaks closer than SpurSep the higher one is kept.                *)
Spaced(kept, high) ==
    /\ \A p, q \in kept : p # q => Away(p, q) >= SpurSep
    /\ \A p \in high \ kept : \E q \in kept : Away(p, q) < SpurSep /\ trace[p] <= trace[q]

(* The lowest point towards the next higher bin, or the end, on each side. *)
Prominence(p) ==
    LET left == Max({-1} \cup {b \in Bin : b < p /\ trace[b] > trace[p]})
        right == Min({Bins} \cup {b \in Bin : b > p /\ trace[b] > trace[p]})
    IN  trace[p] - Max({Min({trace[b] : b \in left+1..p}), Min({trace[b] : b \in p..right-1})})

High(c) == {p \in Maxima : trace[p] >= c.noise + SpurSnr}
OverLimit(c, p) == trace[p] - trace[c.idx] > -SpurLimit
-----------------------------------------------------------------------------
Unknown == [state |-> "unknown"]
FccInit == trace = <<>> /\ carrier = Unknown /\ verdict = Unknown

StartFcc(t) ==
    /\ trace' = t /\ carrier' = [state |-> "recorded"]
    /\ UNCHANGED verdict

(* _interpolate_dc, of the averaged trace.                                 *)
InterpolateDc ==
    LET lo == Bins \div 2 - NotchBins
        hi == Bins \div 2 + NotchBins
    IN  IF NotchBins = 0 \/ lo < 1 \/ hi + 1 >= Bins THEN trace
        ELSE [b \in Bin |->
                IF b \in lo..hi
                THEN trace[lo-1]
                       + ((b - lo + 1) * (trace[hi+1] - trace[lo-1])) \div (hi - lo + 2)
                ELSE trace[b]]

SpectrumTraces ==
    /\ carrier.state = "recorded"
    /\ trace' = InterpolateDc
    /\ carrier' = [state |-> "averaged"]
    /\ UNCHANGED verdict

MeasureCarrier ==
    /\ carrier.state = "averaged"
    /\ LET p == peak_idx
           skirt == Skirt(p)
       IN  carrier' = [state |-> "measured", idx |-> p, noise |-> noise_dB,
              lo |-> skirt[1], hi |-> skirt[2],
              guard |-> Max({p - skirt[1], skirt[2] - p, Spacing \div 2}) + GuardExtra]
    /\ UNCHANGED <<trace, verdict>>

NoSignal ==
    /\ carrier.state = "measured" /\ verdict = Unknown
    /\ trace[carrier.idx] - carrier.noise < MinSnr
    /\ verdict' = [state |-> "no_signal"]
    /\ UNCHANGED <<trace, carrier>>

(* Seeded fault: the result of the last peak stands for all.               *)
Judge_lastSpur ==
    /\ carrier.state = "measured" /\ verdict = Unknown
    /\ trace[carrier.idx] - carrier.noise >= MinSnr
    /\ \E kept \in SUBSET High(carrier) :
         /\ Spaced(kept, High(carrier))
         /\ LET spurs == {p \in kept : /\ Prominence(p) >= SpurProminence
                                       /\ Away(p, carrier.idx) > carrier.guard}
                narrow == 2 * (carrier.hi - carrier.lo) <= 3 * Spacing
                bad == {p \in spurs : OverLimit(carrier, p) /\ \A q \in spurs : q <= p}
            IN  verdict' = [state |-> IF narrow /\ bad = {} THEN "pass" ELSE "fail",
                            spurs |-> spurs, over |-> bad, narrow |-> narrow]
    /\ UNCHANGED <<trace, carrier>>

(* The carrier's own skirt and channel are not looked at for spurs.        *)
Judge ==
    /\ carrier.state = "measured" /\ verdict = Unknown
    /\ trace[carrier.idx] - carrier.noise >= MinSnr
    /\ \E kept \in SUBSET High(carrier) :
         /\ Spaced(kept, High(carrier))
         /\ LET spurs == {p \in kept : /\ Prominence(p) >= SpurProminence
                                       /\ Away(p, carrier.idx) > carrier.guard}
                narrow == 2 * (carrier.hi - carrier.lo) <= 3 * Spacing
                bad == {p \in spurs : OverLimit(carrier, p)}
            IN  verdict' = [state |-> IF narrow /\ bad = {} THEN "pass" ELSE "fail",
                            spurs |-> spurs, over |-> bad, narrow |-> narrow]
    /\ UNCHANGED <<trace, carrier>>

FccNext == SpectrumTraces \/ MeasureCarrier \/ NoSignal \/ Judge
-----------------------------------------------------------------------------
(* The rule for spurious emissions as the docstring states it: a spectrum  *)
(* is passed only if no prominent peak outside the carrier's own skirt and *)
(* channel is over the limit.  That find_peaks drops a peak in favour of a *)
(* higher neighbour does not hide it, unless the neighbour itself is left  *)
(* out, because it lies in the channel or is no prominent peak             *)
(* (evaluate_fcc_compliance).                                              *)
LeftOut(p) ==
    Prominence(p) < SpurProminence \/ Away(p, carrier.idx) <= carrier.guard
Hidden(p) ==
    \E q \in High(carrier) : Away(p, q) < SpurSep /\ trace[p] <= trace[q] /\ LeftOut(q)
VerdictSound ==
    verdict.state = "pass" =>
       \A p \in High(carrier) : LeftOut(p) \/ Hidden(p) \/ ~OverLimit(carrier, p)
=============================================================================
