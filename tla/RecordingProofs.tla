-------------------------- MODULE RecordingProofs --------------------------
(***************************************************************************)
(* The theorems about the two routes, for recordings and spectra of any    *)
(* length.  The inductive invariant is RecordingInv: AnalysisInv of module *)
(* AnalysisProofs, what is measured of a spectrum and that a verdict is    *)
(* sound (FccInv), and how far the request is (RouteInv).                  *)
(***************************************************************************)
EXTENDS Recording, AnalysisProofs

-----------------------------------------------------------------------------
(* What is measured of a spectrum is a number.                             *)

LEMMA FccNumbers ==
  /\ Bins \in Nat \ {0} /\ Spacing \in Nat /\ GuardExtra \in Nat
  /\ SpurProminence \in Int /\ SpurLimit \in Int
  /\ NotchBins \in Nat
BY FccAssumption

(* A trace has a greatest and a least level in any range of bins.          *)
LEMMA RangeExtremes ==
  ASSUME NEW f \in [Bin -> Int], NEW a \in Bin, NEW b \in Bin, a <= b
  PROVE  /\ \E m \in a..b : \A c \in a..b : f[c] <= f[m]
         /\ \E m \in a..b : \A c \in a..b : f[m] <= f[c]
<1> DEFINE Good(n) == /\ \E m \in a..a+n : \A c \in a..a+n : f[c] <= f[m]
                      /\ \E m \in a..a+n : \A c \in a..a+n : f[m] <= f[c]
           T == {n \in 0..b-a : ~Good(n)}
<1>1. a \in Int /\ b \in Int /\ b - a \in Nat /\ \A c \in a..b : c \in Bin /\ f[c] \in Int
  BY FccNumbers DEF Bin
<1>2. Good(0)
  <2>1. a..a+0 = {a} /\ f[a] \in Int
    BY <1>1
  <2> QED  BY <2>1
<1>3. ASSUME NEW n \in 1..b-a, Good(n-1)
      PROVE  Good(n)
  <2>1. n \in Nat /\ a + n \in a..b /\ f[a+n] \in Int
    BY <1>1
  <2>2. \A c \in a..a+n : c \in a..a+(n-1) \/ c = a + n
    BY <1>1
  <2>3. \A c \in a..a+(n-1) : c \in a..a+n /\ c \in a..b /\ f[c] \in Int
    BY <1>1
  <2>4. a + n \in a..a+n
    BY <1>1
  <2>5. \E m \in a..a+n : \A c \in a..a+n : f[c] <= f[m]
    <3>1. PICK m \in a..a+(n-1) : \A c \in a..a+(n-1) : f[c] <= f[m]
      BY <1>3
    <3>2. f[m] \in Int /\ m \in a..a+n
      BY <2>3, <3>1
    <3>3. CASE f[a+n] <= f[m]
      BY <2>2, <3>1, <3>2, <3>3
    <3>4. CASE ~(f[a+n] <= f[m])
      <4>1. \A c \in a..a+n : f[c] <= f[a+n]
        BY <2>1, <2>2, <2>3, <3>1, <3>2, <3>4
      <4> QED  BY <2>4, <4>1
    <3> QED  BY <3>3, <3>4
  <2>6. \E m \in a..a+n : \A c \in a..a+n : f[m] <= f[c]
    <3>1. PICK m \in a..a+(n-1) : \A c \in a..a+(n-1) : f[m] <= f[c]
      BY <1>3
    <3>2. f[m] \in Int /\ m \in a..a+n
      BY <2>3, <3>1
    <3>3. CASE f[m] <= f[a+n]
      BY <2>2, <3>1, <3>2, <3>3
    <3>4. CASE ~(f[m] <= f[a+n])
      <4>1. \A c \in a..a+n : f[a+n] <= f[c]
        BY <2>1, <2>2, <2>3, <3>1, <3>2, <3>4
      <4> QED  BY <2>4, <4>1
    <3> QED  BY <3>3, <3>4
  <2> QED  BY <2>5, <2>6
<1> HIDE DEF Good
<1>4. T = {}
  <2>1. SUFFICES ASSUME T # {}  PROVE FALSE
    OBVIOUS
  <2>2. T \in SUBSET Nat
    OBVIOUS
  <2>3. PICK m \in T : \A n \in T : m <= n
    BY <2>1, <2>2, NatLeast
  <2>4. m \in 0..b-a /\ ~Good(m)
    BY <2>3
  <2>5. m # 0
    BY <1>2, <2>4
  <2>6. m \in 1..b-a /\ m - 1 \in 0..b-a /\ ~(m <= m - 1)
    BY <1>1, <2>4, <2>5
  <2>7. m - 1 \notin T
    BY <2>3, <2>6
  <2>8. Good(m-1)
    BY <2>6, <2>7
  <2> QED  BY <1>3, <2>4, <2>6, <2>8
<1>5. Good(b-a)
  BY <1>1, <1>4
<1>6. a + (b - a) = b
  BY <1>1
<1> QED  BY <1>5, <1>6 DEF Good

LEMMA TraceMin ==
  ASSUME trace \in [Bin -> Int], NEW a \in Bin, NEW b \in Bin, a <= b
  PROVE  Min({trace[c] : c \in a..b}) \in Int
<1> DEFINE S == {trace[c] : c \in a..b}
<1>1. \A c \in a..b : c \in Bin
  BY FccNumbers DEF Bin
<1>2. S \in SUBSET Int
  BY <1>1
<1>3. PICK m \in a..b : \A c \in a..b : trace[m] <= trace[c]
  BY RangeExtremes
<1>4. trace[m] \in S /\ \A x \in S : trace[m] <= x
  BY <1>3
<1> HIDE DEF S
<1>5. trace[m] \in Int /\ S # {}
  BY <1>2, <1>4
<1>6. Min(S) \in S
  BY <1>2, <1>4, <1>5, MinOf
<1> QED  BY <1>2, <1>6 DEF S

LEMMA PeakIsBin == trace \in [Bin -> Int] => peak_idx \in Bin
<1> SUFFICES ASSUME trace \in [Bin -> Int]  PROVE peak_idx \in Bin
  OBVIOUS
<1> DEFINE S == {b \in Bin : \A c \in Bin : trace[c] <= trace[b]}
<1>1. 0 \in Bin /\ Bins - 1 \in Bin /\ 0 <= Bins - 1 /\ Bin = 0..Bins-1
  BY FccNumbers DEF Bin
<1>2. PICK m \in 0..Bins-1 : \A c \in 0..Bins-1 : trace[c] <= trace[m]
  BY <1>1, RangeExtremes
<1>3. m \in S
  BY <1>1, <1>2
<1>4. S \in SUBSET Int /\ \A x \in S : 0 <= x
  BY FccNumbers DEF Bin
<1> HIDE DEF S
<1>5. Min(S) \in S
  BY <1>3, <1>4, MinOf
<1> QED  BY <1>5 DEF S, peak_idx

LEMMA SkirtTypes ==
  ASSUME trace \in [Bin -> Int], NEW p \in Bin
  PROVE  Skirt(p)[1] \in Int /\ Skirt(p)[2] \in Int
<1> DEFINE down == {b \in Bin : trace[b] <= trace[p] - SkirtDrop}
           S == {0} \cup {b \in down : b < p}
           T == {Bins - 1} \cup {b \in down : b > p}
<1>1. Bin \in SUBSET Int /\ \A x \in Bin : 0 <= x /\ x <= Bins - 1
  BY FccNumbers DEF Bin
<1>2. down \in SUBSET Bin /\ Bins - 1 \in Int /\ 0 <= Bins - 1
  BY FccNumbers
<1>3. Skirt(p) = <<Max(S), Min(T)>>
  BY DEF Skirt
<1> HIDE DEF down
<1>4. S \in SUBSET Int /\ S # {} /\ \A x \in S : x <= Bins - 1
  <2>1. \A x \in S : x = 0 \/ x \in Bin
    BY <1>2
  <2>2. 0 \in S
    OBVIOUS
  <2> HIDE DEF S
  <2>3. ASSUME NEW x \in S  PROVE x \in Int /\ x <= Bins - 1
    <3>1. CASE x = 0
      BY <1>2, <3>1
    <3>2. CASE x \in Bin
      BY <1>1, <3>2
    <3> QED  BY <2>1, <3>1, <3>2
  <2>4. S \subseteq Int
    BY <2>3
  <2> QED  BY <2>2, <2>3, <2>4
<1>5. T \in SUBSET Int /\ T # {} /\ \A x \in T : 0 <= x
  BY <1>1, <1>2
<1> HIDE DEF S, T
<1>6. Max(S) \in S
  BY <1>2, <1>4, MaxOf
<1>7. Min(T) \in T
  BY <1>5, MinOf
<1>8. Max(S) \in Int /\ Min(T) \in Int
  BY <1>4, <1>5, <1>6, <1>7
<1>9. Skirt(p)[1] = Max(S) /\ Skirt(p)[2] = Min(T)
  BY <1>3
<1> QED  BY <1>8, <1>9

LEMMA ProminenceType ==
  ASSUME trace \in [Bin -> Int], NEW p \in Bin
  PROVE  Prominence(p) \in Int
<1> DEFINE S == {-1} \cup {b \in Bin : b < p /\ trace[b] > trace[p]}
           T == {Bins} \cup {b \in Bin : b > p /\ trace[b] > trace[p]}
           lo == Max(S)
           hi == Min(T)
           below == Min({trace[b] : b \in lo+1..p})
           above == Min({trace[b] : b \in p..hi-1})
<1>1. /\ Bin \in SUBSET Int /\ \A x \in Bin : 0 <= x /\ x <= Bins - 1
      /\ p \in Int /\ Bin = 0..Bins-1
  BY FccNumbers DEF Bin
<1>2. S \in SUBSET Int /\ S # {} /\ \A x \in S : -1 <= x /\ x < p /\ x <= p
  BY <1>1
<1>3. T \in SUBSET Int /\ T # {} /\ \A x \in T : x <= Bins /\ p < x /\ p <= x
  BY <1>1, FccNumbers
<1>4. Prominence(p) = trace[p] - Max({below, above})
  BY DEF Prominence
<1> HIDE DEF S, T
<1>5. lo \in S
  BY <1>1, <1>2, MaxOf
<1>6. hi \in T
  BY <1>1, <1>3, MinOf
<1> HIDE DEF lo, hi
<1>7. lo \in Int /\ -1 <= lo /\ lo < p /\ hi \in Int /\ hi <= Bins /\ p < hi
  BY <1>2, <1>3, <1>5, <1>6
<1>8. lo + 1 \in Bin /\ lo + 1 <= p /\ hi - 1 \in Bin /\ p <= hi - 1
  BY <1>1, <1>7, FccNumbers
<1>9. below \in Int /\ above \in Int
  BY <1>8, TraceMin
<1> HIDE DEF below, above
<1>10. Max({below, above}) \in Int
  <2> DEFINE b == IF below <= above THEN above ELSE below
  <2>1. {below, above} \in SUBSET Int /\ b \in Int /\ \A x \in {below, above} : x <= b
    BY <1>9
  <2> HIDE DEF b
  <2>2. {below, above} # {}
    OBVIOUS
  <2>3. Max({below, above}) \in {below, above}
    BY <2>1, <2>2, MaxOf
  <2> QED  BY <1>9, <2>3
<1> QED  BY <1>4, <1>10

LEMMA InterpolatedType ==
  ASSUME trace \in [Bin -> Int]
  PROVE  InterpolateDc \in [Bin -> Int]
<1> DEFINE lo == Bins \div 2 - NotchBins
           hi == Bins \div 2 + NotchBins
           u(b) == ((b - lo + 1) * (trace[hi+1] - trace[lo-1])) \div (hi - lo + 2)
           g == [b \in Bin |-> IF b \in lo..hi THEN trace[lo-1] + u(b) ELSE trace[b]]
<1>1. CASE NotchBins = 0 \/ lo < 1 \/ hi + 1 >= Bins
  BY <1>1 DEF InterpolateDc
<1>2. CASE ~(NotchBins = 0 \/ lo < 1 \/ hi + 1 >= Bins)
  <2>1. lo \in Int /\ hi \in Int /\ hi - lo + 2 \in Nat \ {0}
    BY FccNumbers
  <2>2. lo - 1 \in Bin /\ hi + 1 \in Bin
    BY <1>2, <2>1, FccNumbers DEF Bin
  <2>3. trace[lo-1] \in Int /\ trace[hi+1] \in Int
    BY <2>2
  <2>4. InterpolateDc = g
    BY <1>2 DEF InterpolateDc
  <2> HIDE DEF lo, hi
  <2>5. ASSUME NEW b \in Bin
        PROVE  u(b) \in Int
    <3>1. b \in Int
      BY FccNumbers DEF Bin
    <3>2. (b - lo + 1) * (trace[hi+1] - trace[lo-1]) \in Int
      BY <2>1, <2>3, <3>1
    <3> QED  BY <2>1, <3>2
  <2> HIDE DEF u
  <2>6. g \in [Bin -> Int]
    BY <2>3, <2>5
  <2> QED  BY <2>4, <2>6
<1> QED  BY <1>1, <1>2
-----------------------------------------------------------------------------
(* The verdict of /api/fcc_check.                                          *)

FccInv ==
  /\ carrier.state \in {"unknown", "recorded", "averaged", "measured"}
  /\ carrier.state = "unknown" => carrier = Unknown /\ verdict = Unknown
  /\ carrier.state # "unknown" => trace \in [Bin -> Int]
  /\ carrier.state = "measured" => carrier.idx \in Bin /\ carrier.guard \in Int
  /\ verdict.state \in {"unknown", "no_signal", "pass", "fail"}
  /\ verdict # Unknown => carrier.state = "measured"
  /\ VerdictSound

LEMMA FccInitInv == FccInit => FccInv
BY DEF FccInit, FccInv, VerdictSound, Unknown

LEMMA StartFccInv ==
  ASSUME FccInv, carrier = Unknown, NEW t \in Traces, StartFcc(t)
  PROVE  FccInv'
<1>1. t \in [Bin -> Int]
  BY FccAssumption DEF Bin
<1>2. verdict = Unknown
  BY DEF FccInv, Unknown
<1> QED  BY <1>1, <1>2 DEF StartFcc, FccInv, VerdictSound, Unknown

LEMMA SpectrumTracesInv ==
  ASSUME FccInv, SpectrumTraces
  PROVE  FccInv'
<1>1. trace' \in [Bin -> Int]
  BY InterpolatedType DEF SpectrumTraces, FccInv
<1>2. carrier'.state = "averaged" /\ verdict' = verdict
  BY DEF SpectrumTraces
<1>3. verdict = Unknown
  BY DEF SpectrumTraces, FccInv
<1>4. verdict'.state = "unknown"
  BY <1>2, <1>3 DEF Unknown
<1> QED  BY <1>1, <1>2, <1>3, <1>4 DEF FccInv, VerdictSound

LEMMA MeasureCarrierInv ==
  ASSUME FccInv, MeasureCarrier
  PROVE  FccInv'
<1> DEFINE p == peak_idx
           s == Skirt(p)
           g == {p - s[1], s[2] - p, Spacing \div 2}
<1>1. trace \in [Bin -> Int] /\ verdict = Unknown
  BY DEF MeasureCarrier, FccInv
<1>2. p \in Bin
  BY <1>1, PeakIsBin
<1>3. s[1] \in Int /\ s[2] \in Int
  BY <1>1, <1>2, SkirtTypes
<1>4. /\ carrier'.state = "measured" /\ carrier'.idx = p
      /\ carrier'.guard = Max(g) + GuardExtra /\ UNCHANGED <<trace, verdict>>
  BY DEF MeasureCarrier
<1> HIDE DEF s
<1>5. p \in Int
  BY <1>2, FccNumbers DEF Bin
<1> HIDE DEF p
<1>6. Max(g) \in Int
  <2>1. g \in SUBSET Int /\ g # {}
    BY <1>3, <1>5, FccNumbers
  <2>2. \E b \in Int : \A x \in g : x <= b
    <3> DEFINE u == p - s[1]
               v == s[2] - p
               w == Spacing \div 2
    <3>1. u \in Int /\ v \in Int /\ w \in Int
      BY <1>3, <1>5, FccNumbers
    <3>2. g = {u, v, w}
      OBVIOUS
    <3> HIDE DEF u, v, w, g
    <3>3. \E b \in {u, v, w} : u <= b /\ v <= b /\ w <= b
      BY <3>1
    <3> QED  BY <3>1, <3>2, <3>3
  <2> HIDE DEF g
  <2>3. Max(g) \in g
    BY <2>1, <2>2, MaxOf
  <2> QED  BY <2>1, <2>3
<1>7. carrier'.guard \in Int
  BY <1>4, <1>6, FccNumbers
<1>8. verdict'.state = "unknown"
  BY <1>1, <1>4 DEF Unknown
<1> QED  BY <1>1, <1>2, <1>4, <1>7, <1>8 DEF FccInv, VerdictSound

LEMMA NoSignalInv == FccInv /\ NoSignal => FccInv'
BY DEF FccInv, NoSignal, VerdictSound, Unknown

(* A peak over the limit that was not judged lies next to one that was     *)
(* kept and is no lower: were that one not left out, it would be over the  *)
(* limit too.                                                              *)
LEMMA JudgeInv ==
  ASSUME FccInv, Judge
  PROVE  FccInv'
<1>1. PICK kept \in SUBSET High(carrier) :
        /\ Spaced(kept, High(carrier))
        /\ LET spurs == {p \in kept : /\ Prominence(p) >= SpurProminence
                                      /\ Away(p, carrier.idx) > carrier.guard}
               narrow == 2 * (carrier.hi - carrier.lo) <= 3 * Spacing
               bad == {p \in spurs : OverLimit(carrier, p)}
           IN  verdict' = [state |-> IF narrow /\ bad = {} THEN "pass" ELSE "fail",
                           spurs |-> spurs, over |-> bad, narrow |-> narrow]
  BY DEF Judge
<1>2. /\ carrier.state = "measured" /\ trace \in [Bin -> Int]
      /\ carrier.idx \in Bin /\ carrier.guard \in Int
      /\ UNCHANGED <<trace, carrier>>
  BY DEF Judge, FccInv
<1>3. \A p \in High(carrier) : p \in Bin /\ p \in Int /\ trace[p] \in Int
  <2>1. \A p \in Maxima : p \in Bin
    <3> TAKE p \in Maxima
    <3>1. PICK x \in (1..Bins-2) \X (1..Bins-2) : x[1] <= x[2] /\ p = (x[1] + x[2]) \div 2
      BY DEF Maxima
    <3>2. x[1] \in 1..Bins-2 /\ x[2] \in 1..Bins-2
      BY <3>1
    <3> DEFINE u == x[1]
               v == x[2]
    <3>3. u \in 1..Bins-2 /\ v \in 1..Bins-2 /\ u <= v /\ p = (u + v) \div 2
      BY <3>1, <3>2
    <3> HIDE DEF u, v
    <3> QED  BY <3>3, FccNumbers DEF Bin
  <2>2. Bin \subseteq Int
    BY FccNumbers DEF Bin
  <2> QED  BY <1>2, <2>1, <2>2 DEF High
<1>4. ASSUME NEW p \in High(carrier)
      PROVE  /\ Prominence(p) \in Int /\ Away(p, carrier.idx) \in Int
             /\ ~LeftOut(p) <=> /\ Prominence(p) >= SpurProminence
                                /\ Away(p, carrier.idx) > carrier.guard
  <2>1. Prominence(p) \in Int
    BY <1>2, <1>3, ProminenceType
  <2>2. carrier.idx \in Int
    BY <1>2, FccNumbers DEF Bin
  <2>3. Away(p, carrier.idx) \in Int
    BY <1>3, <2>2 DEF Away
  <2> QED  BY <1>2, <2>1, <2>3, FccNumbers DEF LeftOut
<1>5. /\ verdict' # Unknown /\ verdict'.state \in {"pass", "fail"}
      /\ verdict'.state = "pass" =>
            \A p \in kept : ~LeftOut(p) => ~OverLimit(carrier, p)
  <2>1. verdict'.state \in {"pass", "fail"} /\ "pass" # "fail"
    BY <1>1
  <2>2. ASSUME verdict'.state = "pass", NEW p \in kept, ~LeftOut(p)
        PROVE  ~OverLimit(carrier, p)
    <3>1. {q \in {q \in kept : /\ Prominence(q) >= SpurProminence
                               /\ Away(q, carrier.idx) > carrier.guard} :
              OverLimit(carrier, q)} = {}
      BY <1>1, <2>2
    <3>2. p \in kept /\ Prominence(p) >= SpurProminence /\ Away(p, carrier.idx) > carrier.guard
      BY <1>4, <2>2
    <3> QED  BY <3>1, <3>2
  <2>3. verdict' # Unknown
    BY <2>1 DEF Unknown
  <2> QED  BY <2>1, <2>2, <2>3
<1>6. ASSUME verdict'.state = "pass", NEW p \in High(carrier)
      PROVE  LeftOut(p) \/ Hidden(p) \/ ~OverLimit(carrier, p)
  <2>1. CASE p \in kept
    BY <1>5, <1>6, <2>1
  <2>2. CASE p \notin kept
    <3>1. PICK q \in kept : Away(p, q) < SpurSep /\ trace[p] <= trace[q]
      BY <1>1, <2>2 DEF Spaced
    <3>2. CASE LeftOut(q)
      BY <3>1, <3>2 DEF Hidden
    <3>3. CASE ~LeftOut(q)
      <4>1. ~OverLimit(carrier, q)
        BY <1>5, <1>6, <3>1, <3>3
      <4>2. trace[carrier.idx] \in Int /\ trace[p] \in Int /\ trace[q] \in Int
        BY <1>2, <1>3, <3>1
      <4> QED  BY <3>1, <4>1, <4>2, FccNumbers DEF OverLimit
    <3> QED  BY <3>2, <3>3
  <2> QED  BY <2>1, <2>2
<1>7. VerdictSound'
  <2>1. \A p : /\ LeftOut(p)' <=> LeftOut(p)
               /\ Hidden(p)' <=> Hidden(p)
               /\ OverLimit(carrier, p)' <=> OverLimit(carrier, p)
    BY <1>2 DEF LeftOut, Hidden, OverLimit, Prominence, High, Maxima
  <2>2. High(carrier)' = High(carrier)
    BY <1>2 DEF High, Maxima
  <2> QED  BY <1>6, <2>1, <2>2 DEF VerdictSound
<1> QED  BY <1>2, <1>5, <1>7 DEF FccInv

LEMMA FccNextInv == FccInv /\ FccNext => FccInv'
BY SpectrumTracesInv, MeasureCarrierInv, NoSignalInv, JudgeInv DEF FccNext

LEMMA FccStutterInv == FccInv /\ UNCHANGED fccVars => FccInv'
<1> SUFFICES ASSUME FccInv, UNCHANGED fccVars  PROVE FccInv'
  OBVIOUS
<1>1. trace' = trace /\ carrier' = carrier /\ verdict' = verdict
  BY DEF fccVars
<1>2. VerdictSound'
  <2>1. \A p : /\ LeftOut(p)' <=> LeftOut(p)
               /\ Hidden(p)' <=> Hidden(p)
               /\ OverLimit(carrier, p)' <=> OverLimit(carrier, p)
    BY <1>1 DEF LeftOut, Hidden, OverLimit, Prominence, High, Maxima
  <2>2. High(carrier)' = High(carrier)
    BY <1>1 DEF High, Maxima
  <2> QED  BY <1>1, <2>1, <2>2 DEF VerdictSound, FccInv
<1> QED  BY <1>1, <1>2 DEF FccInv
-----------------------------------------------------------------------------
(* The routes.  A recording or a spectrum is there only after a request    *)
(* for a length of time that was checked, and only that request's; once it *)
(* is answered, nothing goes on.                                           *)

SecondsInv ==
  /\ route = "none" => rec = NoRecording /\ carrier = Unknown
  /\ route # "none" /\ response = NoResponse => seconds \in 1..MaxSeconds
  /\ RecordedFor

RouteInv ==
  /\ route \in Routes \cup {"none"} /\ seconds \in 0..MaxSeconds
  /\ response.status \in {0, 200, 400, 409, 500, 504}
  /\ response.status = 0 => response = NoResponse
  /\ SecondsInv /\ AnswerFits

RecordingInv == AnalysisInv /\ FccInv /\ RouteInv

LEMMA Statuses ==
  /\ NoResponse.status = 0
  /\ \A n \in {200, 400, 409, 500, 504} : Failure(n) # NoResponse /\ Failure(n).status = n
BY DEF Failure, NoResponse

LEMMA RecordingInitInv == Init => RecordingInv
<1> SUFFICES ASSUME Init  PROVE RecordingInv
  OBVIOUS
<1>1. AnalysisInv /\ FccInv
  BY AnalysisInitInv, FccInitInv DEF Init
<1>2. rec = NoRecording /\ carrier = Unknown
  BY DEF Init, AnalysisInit, FccInit
<1>3. RouteInv
  BY <1>2, SecondsAssumption
     DEF Init, RouteInv, SecondsInv, RecordedFor, AnswerFits, NoResponse
<1> QED  BY <1>1, <1>3 DEF RecordingInv

(* What does not touch the recording or the spectrum does not either what  *)
(* an answer is told from.                                                 *)
LEMMA AnswerStays ==
  ASSUME AnswerFits, UNCHANGED <<anVars, fccVars, response>>
  PROVE  AnswerFits'
<1>1. UNCHANGED <<rec, left, packets, cur, carrier, verdict, response>>
  BY DEF anVars, fccVars
<1> QED  BY <1>1 DEF AnswerFits, AnalysisDone

LEMMA RequestInv ==
  ASSUME RecordingInv, NEW r \in Routes, NEW raw \in Raw, Request(r, raw)
  PROVE  RecordingInv'
<1>1. AnalysisInv' /\ FccInv'
  BY AnalysisStutterInv, FccStutterInv DEF Request, RecordingInv
<1>2. /\ rec' = rec /\ carrier' = carrier /\ rec = NoRecording /\ carrier = Unknown
      /\ route' = r
  BY DEF Request, RecordingInv, RouteInv, SecondsInv, anVars, fccVars
<1>3. \/ seconds' \in 1..MaxSeconds /\ response' = response
      \/ response' = Failure(400) /\ seconds' = seconds
  <2>1. CASE Valid(raw)
    <3>1. DefaultSeconds[r] \in 1..MaxSeconds
      BY SecondsAssumption DEF Routes
    <3>2. raw.kind # "absent" => raw.value \in 1..MaxSeconds
      BY <2>1 DEF Valid
    <3> QED  BY <2>1, <3>1, <3>2 DEF Request
  <2>2. CASE ~Valid(raw)
    BY <2>2 DEF Request
  <2> QED  BY <2>1, <2>2
<1>4. RouteInv'
  <2>1. seconds' \in 0..MaxSeconds
    BY <1>3, SecondsAssumption DEF RecordingInv, RouteInv
  <2>2. AnswerFits'
    <3>1. CASE response' = response
      BY <1>2, <3>1, AnswerStays DEF Request, RecordingInv, RouteInv
    <3>2. CASE response' = Failure(400)
      BY <1>2, <3>2, Statuses DEF AnswerFits
    <3> QED  BY <1>3, <3>1, <3>2
  <2>3. SecondsInv'
    BY <1>2, <1>3, Statuses DEF SecondsInv, RecordedFor
  <2>4. /\ response'.status \in {0, 200, 400, 409, 500, 504}
        /\ response'.status = 0 => response' = NoResponse
    BY <1>3, Statuses DEF RecordingInv, RouteInv
  <2> QED  BY <1>2, <2>1, <2>2, <2>3, <2>4 DEF RouteInv
<1> QED  BY <1>1, <1>4 DEF RecordingInv

(* What leaves the request alone keeps RouteInv as long as a recording or  *)
(* a spectrum that was not there does not appear.                          *)
LEMMA WorkingKeepsRoute ==
  ASSUME RouteInv, UNCHANGED <<route, seconds, response>>, AnswerFits',
         rec = NoRecording => rec' = NoRecording, carrier = Unknown => carrier' = Unknown
  PROVE  RouteInv'
BY DEF RouteInv, SecondsInv, RecordedFor

LEMMA AnsweringKeepsRoute ==
  ASSUME RouteInv, response = NoResponse, AnswerFits',
         UNCHANGED <<anVars, edgeVars, fccVars, route, seconds>>,
         response'.status \in {200, 409, 500, 504}
  PROVE  RouteInv'
<1>1. rec' = rec /\ carrier' = carrier /\ route' = route /\ seconds' = seconds
  BY DEF anVars, fccVars
<1>2. response' # NoResponse /\ response'.status # 0
  BY Statuses
<1> QED  BY <1>1, <1>2 DEF RouteInv, SecondsInv, RecordedFor

LEMMA CapturedInv == ASSUME RecordingInv, Captured  PROVE RecordingInv'
<1>1. /\ route # "none" /\ response = NoResponse /\ rec = NoRecording /\ carrier = Unknown
      /\ UNCHANGED <<route, seconds, response>>
  BY DEF Captured, Capturing
<1>2. AnswerFits'
  BY <1>1, Statuses DEF AnswerFits
<1>3. ASSUME rec' = NoRecording \/ route = "record_analyze",
             carrier' = Unknown \/ route = "fcc_check"
      PROVE  RouteInv'
  BY <1>1, <1>2, <1>3 DEF RecordingInv, RouteInv, SecondsInv, RecordedFor
<1>4. CASE /\ route = "record_analyze"
           /\ \E r \in Recordings : StartAnalysis(r)
           /\ UNCHANGED fccVars
  <2>1. carrier' = Unknown
    BY <1>1, <1>4 DEF fccVars
  <2> QED  BY <1>1, <1>3, <1>4, <2>1, AnalysisStartInv, FccStutterInv DEF RecordingInv
<1>5. CASE /\ route = "fcc_check"
           /\ \E t \in Traces : StartFcc(t)
           /\ UNCHANGED <<anVars, edgeVars>>
  <2>1. rec' = NoRecording
    BY <1>1, <1>5 DEF anVars
  <2> QED  BY <1>1, <1>3, <1>5, <2>1, StartFccInv, AnalysisStutterInv DEF RecordingInv
<1> QED  BY <1>4, <1>5 DEF Captured

(* An analysis that is over goes no further.                               *)
LEMMA DoneIsOver == ~(AnalysisDone /\ AnalysisNext)
BY DEF AnalysisDone, AnalysisNext, NextWindow, DecodeWindow, WindowFails, DropDuplicate,
       AcceptPacket, FindEdge, KeepPacket

LEMMA AnalyzeInv == ASSUME RecordingInv, Analyze  PROVE RecordingInv'
<1>1. AnalysisInv' /\ FccInv'
  BY AnalysisNextInv, FccStutterInv DEF Analyze, RecordingInv
<1>2. /\ rec' = rec /\ carrier' = carrier /\ verdict' = verdict /\ ~AnalysisDone
      /\ UNCHANGED <<route, seconds, response>>
  BY DoneIsOver
     DEF Analyze, fccVars, AnalysisNext, DecodeWindow, WindowFails, DropDuplicate,
         AcceptPacket, FindEdge, KeepPacket, anVars
<1>3. AnswerFits'
  BY <1>2 DEF RecordingInv, RouteInv, AnswerFits
<1>4. RouteInv'
  BY <1>2, <1>3, WorkingKeepsRoute DEF RecordingInv
<1> QED  BY <1>1, <1>4 DEF RecordingInv

(* ... nor does a check with a verdict.                                    *)
LEMMA VerdictIsLast == ASSUME FccInv, FccNext  PROVE verdict = Unknown
<1>1. carrier.state = "measured" \/ verdict = Unknown
  BY DEF FccInv
<1>2. CASE SpectrumTraces \/ MeasureCarrier
  BY <1>1, <1>2 DEF SpectrumTraces, MeasureCarrier
<1>3. CASE NoSignal \/ Judge
  BY <1>3 DEF NoSignal, Judge
<1> QED  BY <1>2, <1>3 DEF FccNext

LEMMA CheckInv == ASSUME RecordingInv, Check  PROVE RecordingInv'
<1>1. AnalysisInv' /\ FccInv'
  BY AnalysisStutterInv, FccNextInv DEF Check, RecordingInv
<1>2. UNCHANGED <<rec, left, packets, cur, route, seconds, response>>
  BY DEF Check, anVars
<1>3. carrier = Unknown => carrier' = Unknown
  <2> SUFFICES ASSUME carrier = Unknown  PROVE carrier' = Unknown
    OBVIOUS
  <2>1. carrier.state = "unknown"
    BY DEF Unknown
  <2> QED  BY <2>1 DEF Check, FccNext, SpectrumTraces, MeasureCarrier, NoSignal, Judge
<1>4. AnswerFits'
  <2>1. verdict = Unknown
    BY VerdictIsLast DEF Check, RecordingInv
  <2> QED  BY <1>2, <1>3, <2>1 DEF RecordingInv, RouteInv, AnswerFits, AnalysisDone
<1>5. RouteInv'
  BY <1>2, <1>3, <1>4, WorkingKeepsRoute DEF RecordingInv
<1> QED  BY <1>1, <1>5 DEF RecordingInv

LEMMA AnsweringInv ==
  ASSUME RecordingInv, CaptureFails \/ Report \/ Answer
  PROVE  RecordingInv'
<1>1. /\ UNCHANGED <<anVars, edgeVars, fccVars, route, seconds>>
      /\ response = NoResponse /\ response'.status \in {200, 409, 500, 504}
      /\ AnswerFits'
  <2>1. CASE CaptureFails
    <3>1. PICK status \in {409, 500, 504} : response' = Failure(status)
      BY <2>1 DEF CaptureFails
    <3>2. /\ UNCHANGED <<anVars, edgeVars, fccVars, route, seconds>>
          /\ response = NoResponse /\ rec = NoRecording /\ carrier = Unknown
      BY <2>1 DEF CaptureFails, Capturing
    <3>3. rec' = NoRecording /\ carrier' = Unknown
      BY <3>2 DEF anVars, fccVars
    <3>4. response'.status \in {409, 500, 504}
      BY <3>1 DEF Failure
    <3> QED  BY <3>2, <3>3, <3>4 DEF AnswerFits
  <2>2. CASE Report
    <3> DEFINE sorted == SetToSortSeq(accepted, LAMBDA a, b : a.abs_start < b.abs_start)
    <3>1. response' = [status |-> 200, packets |-> sorted]
      BY <2>2, Zenon DEF Report
    <3> HIDE DEF sorted
    <3>2. response'.status = 200
      BY <3>1
    <3>3. UNCHANGED <<anVars, edgeVars, fccVars, route, seconds>> /\ response = NoResponse
      BY <2>2, Zenon DEF Report
    <3>4. rec # NoRecording /\ AnalysisDone
      BY <2>2, Zenon DEF Report
    <3>5. UNCHANGED <<rec, left, packets, cur>>
      BY <3>3 DEF anVars
    <3>6. AnswerFits'
      BY <3>2, <3>4, <3>5 DEF AnswerFits, AnalysisDone
    <3> QED  BY <3>2, <3>3, <3>6
  <2>3. CASE Answer
    <3>1. /\ response' = [status |-> 200, state |-> verdict.state] /\ verdict # Unknown
          /\ UNCHANGED <<anVars, edgeVars, fccVars, route, seconds>> /\ response = NoResponse
      BY <2>3 DEF Answer
    <3>2. verdict' = verdict /\ response'.status = 200
      BY <3>1 DEF fccVars
    <3>3. AnswerFits'
      BY <3>1, <3>2 DEF AnswerFits
    <3> QED  BY <3>1, <3>2, <3>3
  <2> QED  BY <2>1, <2>2, <2>3
<1>2. RouteInv'
  BY <1>1, AnsweringKeepsRoute DEF RecordingInv
<1>3. AnalysisInv' /\ FccInv'
  BY <1>1, AnalysisStutterInv, FccStutterInv DEF RecordingInv
<1> QED  BY <1>2, <1>3 DEF RecordingInv

LEMMA RecordingNextInv == RecordingInv /\ [Next]_vars => RecordingInv'
<1> SUFFICES ASSUME RecordingInv, [Next]_vars  PROVE RecordingInv'
  OBVIOUS
<1>1. CASE \E r \in Routes, raw \in Raw : Request(r, raw)
  BY <1>1, RequestInv
<1>2. CASE CaptureFails \/ Report \/ Answer
  BY <1>2, AnsweringInv
<1>3. CASE Captured
  BY <1>3, CapturedInv
<1>4. CASE Analyze
  BY <1>4, AnalyzeInv
<1>5. CASE Check
  BY <1>5, CheckInv
<1>6. CASE UNCHANGED vars
  <2>1. UNCHANGED <<anVars, edgeVars>> /\ UNCHANGED fccVars /\ UNCHANGED <<route, seconds, response>>
    BY <1>6 DEF vars
  <2>2. rec' = rec /\ carrier' = carrier
    BY <2>1 DEF anVars, fccVars
  <2>3. AnswerFits'
    BY <2>1, AnswerStays DEF RecordingInv, RouteInv
  <2> QED
    BY <2>1, <2>2, <2>3, AnalysisStutterInv, FccStutterInv, WorkingKeepsRoute DEF RecordingInv
<1> QED  BY <1>1, <1>2, <1>3, <1>4, <1>5, <1>6 DEF Next

THEOREM RecordingInvariant == Spec => []RecordingInv
BY RecordingInitInv, RecordingNextInv, PTL DEF Spec

(* The type invariant; a recording or a spectrum is there only for its     *)
(* route and a length that was checked, and what is answered is told from   *)
(* it (_parse_seconds, api_record_analyze, api_fcc_check).                 *)
THEOREM RecordingTypes == Spec => []TypeOK
<1>1. RecordingInv => TypeOK
  <2> SUFFICES ASSUME RecordingInv  PROVE TypeOK
    OBVIOUS
  <2>1. AnalysisTypeOK
    BY AnalysisTypes DEF RecordingInv
  <2>2. carrier # Unknown => carrier.state \in {"recorded", "averaged", "measured"}
    BY DEF RecordingInv, FccInv
  <2> QED  BY <2>1, <2>2 DEF RecordingInv, FccInv, RouteInv, SecondsInv, TypeOK
<1> QED  BY <1>1, RecordingInvariant, PTL

(* Each packet that lies whole in a recording is reported once, at its own *)
(* place, whatever windows decode it or fail, unless it can be taken for   *)
(* another (decode_packets, _window_offsets, _is_duplicate).               *)
THEOREM RecordingPacketsOnce == Spec => []PacketsOnce
<1>1. RecordingInv => PacketsOnce
  BY ReportedOnce DEF RecordingInv, AnalysisInv
<1> QED  BY <1>1, RecordingInvariant, PTL

(* The edges reported for a packet that nothing else disturbs are those of *)
(* its symbols, as far as the search can follow its drift over the missing *)
(* ones (Followable), and edges never overlap (correct_symbol_edges).      *)
THEOREM RecordingEdgesFollow == Spec => []EdgesFollowSymbols
<1>1. RecordingInv => EdgesFollowSymbols
  BY SymbolsFollowed DEF RecordingInv
<1> QED  BY <1>1, RecordingInvariant, PTL

(* A spectrum that is passed has no prominent peak over the limit outside  *)
(* the carrier's channel, except one hidden by a neighbour                 *)
(* (evaluate_fcc_compliance).                                              *)
THEOREM RecordingVerdict == Spec => []VerdictSound
<1>1. RecordingInv => VerdictSound
  BY DEF RecordingInv, FccInv
<1> QED  BY <1>1, RecordingInvariant, PTL
=============================================================================
