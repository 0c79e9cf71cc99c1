-------------------------- MODULE ResultFlowProofs --------------------------
(***************************************************************************)
(* From the air to the readers of the packet feed, for any number of        *)
(* packets, processors, results on their way and requests.                  *)
(***************************************************************************)
EXTENDS ResultFlow, SequenceTheorems, FiniteSetTheorems, WellFoundedInduction, TLAPS

-----------------------------------------------------------------------------
(* Induction, as the least number of a set: what the proofs about the two    *)
(* loops of the model need (Joined and Deduped).                            *)
LEMMA NatLeast ==
  ASSUME NEW T \in SUBSET Nat, T # {}
  PROVE  \E m \in T : \A k \in T : m <= k
<1> DEFINE R == OpToRel(<, Nat)
<1>1. IsWellFoundedOn(R, Nat)
  BY NatLessThanWellFounded
<1>2. \A x, y \in Nat : x < y => <<x, y>> \in R
  BY DEF OpToRel
<1> HIDE DEF R
<1>3. PICK m \in T : \A y \in T : <<y, m>> \notin R
  BY <1>1, WFMin
<1>4. \A k \in T : k \in Nat /\ ~(k < m) /\ m \in Nat
  BY <1>2, <1>3
<1> QED  BY <1>3, <1>4

(* ... and what follows from a base and a step for a set of numbers.         *)
LEMMA NatSetInduction ==
  ASSUME NEW N \in Nat, NEW G, 0 \in G, \A n \in 1..N : n - 1 \in G => n \in G
  PROVE  0..N \subseteq G
<1> DEFINE T == {n \in 0..N : n \notin G}
<1>1. CASE T = {}
  BY <1>1
<1>2. CASE T # {}
  <2>1. T \in SUBSET Nat
    OBVIOUS
  <2>2. PICK m \in T : \A k \in T : m <= k
    BY <1>2, <2>1, NatLeast
  <2>3. m \in 1..N /\ m - 1 \in 0..N /\ ~(m <= m - 1)
    BY <2>2
  <2>4. m - 1 \in G
    BY <2>2, <2>3
  <2> QED  BY <2>2, <2>3, <2>4
<1> QED  BY <1>1, <1>2

(* f follows a recursion over 0..N.                                         *)
Follows(f, N, base, step) == f[0] = base /\ \A n \in 1..N : f[n] = step[<<f[n-1], n>>]

(* A function that follows a given recursion exists.                        *)
LEMMA Recursion ==
  ASSUME NEW N \in Nat, NEW S, NEW base \in S, NEW step \in [S \X (1..N) -> S]
  PROVE  \E f \in [0..N -> S] : Follows(f, N, base, step)
<1> DEFINE Good(f, k) == /\ f \in [0..k -> S] /\ f[0] = base
                         /\ \A n \in 1..k : f[n] = step[<<f[n-1], n>>]
           G == {k \in 0..N : \E f : Good(f, k)}
<1> HIDE DEF Good
<1>1. 0 \in G
  <2> DEFINE f == [i \in 0..0 |-> base]
  <2>1. f \in [0..0 -> S] /\ f[0] = base /\ \A n \in 1..0 : FALSE
    OBVIOUS
  <2> HIDE DEF f
  <2>2. Good(f, 0)
    BY <2>1 DEF Good
  <2> QED  BY <2>2
<1>2. ASSUME NEW m \in 1..N, m - 1 \in G  PROVE m \in G
  <2>1. PICK f : Good(f, m - 1)
    BY <1>2
  <2>2. /\ f \in [0..m-1 -> S] /\ f[0] = base
        /\ \A n \in 1..m-1 : f[n] = step[<<f[n-1], n>>]
    BY <2>1 DEF Good
  <2> DEFINE x == step[<<f[m-1], m>>]
             g == [i \in 0..m |-> IF i = m THEN x ELSE f[i]]
  <2>3. x \in S
    BY <2>2
  <2>4. x = step[<<f[m-1], m>>]
    OBVIOUS
  <2> HIDE DEF x
  <2>5. g \in [0..m -> S] /\ g[0] = base
    BY <2>2, <2>3
  <2>6. \A n \in 1..m : g[n-1] = f[n-1] /\ g[n] = IF n = m THEN x ELSE f[n]
    OBVIOUS
  <2> HIDE DEF g
  <2>7. ASSUME NEW n \in 1..m  PROVE g[n] = step[<<g[n-1], n>>]
    <3>1. CASE n = m
      BY <2>4, <2>6, <3>1
    <3>2. CASE n # m
      <4>1. n \in 1..m-1 /\ g[n] = f[n]
        BY <2>6, <3>2
      <4> QED  BY <2>2, <2>6, <4>1
    <3> QED  BY <3>1, <3>2
  <2>8. Good(g, m)
    BY <2>5, <2>7 DEF Good
  <2> QED  BY <2>8
<1>3. N \in G
  <2> HIDE DEF G
  <2> QED  BY <1>1, <1>2, NatSetInduction
<1>4. PICK f : Good(f, N)
  BY <1>3
<1>5. f \in [0..N -> S] /\ Follows(f, N, base, step)
  BY <1>4 DEF Good, Follows
<1> QED  BY <1>5

-----------------------------------------------------------------------------
(* The account of the annotations: types, the bound of the queue, and one    *)
(* entry being posted at most: each counter moves by the entry that leaves a *)
(* queue or does not enter it.                                             *)
AnnInv == AnnTypeOK /\ EntriesAccounted

(* Nothing is submitted and nothing counted at the start.                   *)
LEMMA AnnInitInv == AnnInit => AnnInv
<1> SUFFICES ASSUME AnnInit  PROVE AnnInv
  OBVIOUS
<1>1. <<>> \in Seq(Entries) /\ Len(<<>>) = 0
  BY EmptySeq
<1>2. _failing \in BOOLEAN
  BY DEF AnnInit
<1> QED  BY <1>1, <1>2, AnnotatorAssumption
         DEF AnnInit, AnnInv, AnnTypeOK, EntriesAccounted

(* The one entry given to submit() goes to one place.                       *)
LEMMA SubmitInv == ASSUME AnnInv, NEW e \in Entries, Submit(e)  PROVE AnnInv'
<1> USE AnnotatorAssumption DEF AnnInv, AnnTypeOK, EntriesAccounted
<1>1. CASE e \in LegacyEntries
  <2>1. skipped' = skipped + 1 /\ UNCHANGED <<aqueue, dropped>>
    BY <1>1 DEF Submit
  <2> QED  BY <2>1 DEF Submit
<1>2. CASE e \notin LegacyEntries /\ Len(aqueue) < QueueMax
  <2>1. aqueue' = Append(aqueue, e) /\ UNCHANGED <<dropped, skipped>>
    BY <1>2 DEF Submit
  <2>2. aqueue' \in Seq(Entries) /\ Len(aqueue') = Len(aqueue) + 1
    BY <2>1, AppendProperties
  <2>3. Len(aqueue) \in Nat
    OBVIOUS
  <2> QED  BY <1>2, <2>1, <2>2, <2>3 DEF Submit
<1>3. CASE e \notin LegacyEntries /\ Len(aqueue) >= QueueMax
  <2>1. Len(aqueue) \in Nat
    OBVIOUS
  <2>2. dropped' = dropped + 1 /\ UNCHANGED <<aqueue, skipped>>
    BY <1>3, <2>1 DEF Submit
  <2> QED  BY <2>2 DEF Submit
<1>4. Len(aqueue) \in Nat
  OBVIOUS
<1> QED  BY <1>1, <1>2, <1>3, <1>4

(* The posting thread takes entries in order and counts each of them once.   *)
LEMMA PostInv == ASSUME AnnInv, Post  PROVE AnnInv'
<1> USE AnnotatorAssumption DEF AnnInv, AnnTypeOK, EntriesAccounted
<1>1. CASE Take
  <2>1. /\ aqueue' \in Seq(Entries) /\ Len(aqueue') = Len(aqueue) - 1
        /\ Head(aqueue) \in Entries
    BY <1>1 DEF Take
  <2>2. posting' \in Seq(Entries) /\ Len(posting') = 1 /\ Len(posting) = 0
    BY <1>1, <2>1 DEF Take
  <2> QED  BY <1>1, <2>1, <2>2 DEF Take
<1>2. ASSUME PostOk \/ PostFails  PROVE AnnInv'
  <2>1. <<>> \in Seq(Entries) /\ Len(<<>>) = 0
    BY EmptySeq
  <2>2. posting # <<>> /\ posting' = <<>>
    BY <1>2 DEF PostOk, PostFails
  <2>3. Len(posting) = 1
    <3>1. posting \in Seq(Entries) /\ Len(posting) \in Nat /\ Len(posting) <= 1
      OBVIOUS
    <3>2. Len(posting) # 0
      BY <2>2, <3>1, EmptySeq
    <3>3. \A n \in Nat : n <= 1 /\ n # 0 => n = 1
      OBVIOUS
    <3> HIDE DEF AnnInv, AnnTypeOK, EntriesAccounted
    <3> QED  BY <3>1, <3>2, <3>3
  <2>4. _failing' \in BOOLEAN
    BY <1>2 DEF PostOk, PostFails
  <2>5. CASE PostOk
    BY <2>5, <2>1, <2>2, <2>3, <2>4 DEF PostOk
  <2>6. CASE PostFails
    BY <2>6, <2>1, <2>2, <2>3, <2>4 DEF PostFails
  <2> QED  BY <1>2, <2>5, <2>6
<1> QED  BY <1>1, <1>2 DEF Post

(* The annotator alone, with any stream of entries.                          *)
THEOREM AnnotatorAddsUp == AnnSpec => []EntriesAccounted
<1>1. AnnInv /\ [AnnNext]_annVars => AnnInv'
  <2> SUFFICES ASSUME AnnInv, [AnnNext]_annVars  PROVE AnnInv'
    OBVIOUS
  <2>1. CASE UNCHANGED annVars
    BY <2>1 DEF AnnInv, AnnTypeOK, EntriesAccounted, annVars
  <2> QED  BY <2>1, SubmitInv, PostInv DEF AnnNext
<1>2. AnnInv => EntriesAccounted
  BY DEF AnnInv
<1> QED  BY AnnInitInv, <1>1, <1>2, PTL DEF AnnSpec

-----------------------------------------------------------------------------
LEMMA FlowNumbers ==
  /\ Dur \in Nat \ {0} /\ Spacing \in Nat \ {0} /\ Window \in Nat \ {0}
  /\ Interval \in Nat \ {0} /\ Tol \in Nat \ {0} /\ Expiry \in Nat \ {0}
  /\ FeedMax \in Nat \ {0} /\ HistoryMax \in Nat \ {0} /\ MaxQueued \in Nat \ {0}
  /\ Slowest \in Nat /\ Jitter \in Nat /\ MaxTime \in Nat /\ MaxDeaths \in Nat
  /\ Entries \subseteq Nat \ {0}
  BY FlowAssumption

(* What the variables hold, in parts that the steps touch one by one.        *)
OnAir == 1..Len(air)
Packet == [content : Contents, start : Nat]

(* Packets of one content rest in between.                                  *)
AirInv ==
  /\ now \in 0..MaxTime /\ air \in Seq(Packet) /\ OnAir \subseteq Entries
  /\ \A p \in OnAir : air[p].start <= now
  /\ \A p, q \in OnAir : p < q /\ air[p].content = air[q].content
                           => air[p].start + Spacing <= air[q].start

ProcInv ==
  /\ up \in BOOLEAN /\ t0 \in Int /\ deaths \in 0..MaxDeaths
  /\ recent_decodes \in [Contents -> Int] /\ chips \in Statistics
  /\ viewed \subseteq OnAir /\ decoded \subseteq OnAir /\ reported \subseteq OnAir

PipeInv == unwritten \in Seq(Results) /\ result_queue \in Seq(Results)

DrainInv ==
  /\ r \in Results /\ next_entry \in 0..Len(r.decode_entries) + 1
  /\ next_entry = 0 => r = NoResult

FeedInv ==
  /\ packet_feed \in Seq(Entries) /\ Len(packet_feed) <= FeedMax
  /\ decode_results \in Seq(Entries) /\ Len(decode_results) <= HistoryMax
  /\ chipset_stats \in Statistics /\ given \in Seq(Entries)

FlowInv == AirInv /\ ProcInv /\ PipeInv /\ DrainInv /\ FeedInv /\ AnnInv

(* A part whose variables stay is kept.                                     *)
LEMMA FlowFrame ==
  /\ AirInv /\ UNCHANGED airVars => AirInv'
  /\ ProcInv /\ UNCHANGED airVars /\ UNCHANGED procVars => ProcInv'
  /\ PipeInv /\ UNCHANGED pipeVars => PipeInv'
  /\ DrainInv /\ UNCHANGED drainVars => DrainInv'
  /\ FeedInv /\ UNCHANGED feedVars => FeedInv'
  /\ AnnInv /\ UNCHANGED annVars => AnnInv'
<1>1. AirInv /\ UNCHANGED airVars => AirInv'
  BY DEF AirInv, OnAir, airVars
<1>2. ProcInv /\ UNCHANGED airVars /\ UNCHANGED procVars => ProcInv'
  BY DEF ProcInv, OnAir, airVars, procVars
<1>3. PipeInv /\ UNCHANGED pipeVars => PipeInv'
  BY DEF PipeInv, pipeVars
<1>4. DrainInv /\ UNCHANGED drainVars => DrainInv'
  BY DEF DrainInv, drainVars
<1>5. FeedInv /\ UNCHANGED feedVars => FeedInv'
  BY DEF FeedInv, feedVars
<1>6. AnnInv /\ UNCHANGED annVars => AnnInv'
  BY DEF AnnInv, AnnTypeOK, EntriesAccounted, annVars
<1> QED  BY <1>1, <1>2, <1>3, <1>4, <1>5, <1>6

LEMMA FlowInitInv == Init => FlowInv
<1> SUFFICES ASSUME Init  PROVE FlowInv
  OBVIOUS
<1>1. /\ \A S : <<>> \in Seq(S)
      /\ Len(<<>>) = 0
  BY EmptySeq
<1>2. AirInv
  BY <1>1, FlowNumbers DEF Init, AirInv, OnAir
<1>3. ProcInv
  BY <1>1, FlowNumbers DEF Init, ProcInv, OnAir, Statistics, Never
<1>4. NoResult \in Results /\ NoResult.decode_entries = <<>>
  BY <1>1 DEF NoResult, Results, Statistics
<1>5. DrainInv
  BY <1>1, <1>4 DEF Init, DrainInv
<1>6. PipeInv /\ FeedInv
  BY <1>1, FlowNumbers DEF Init, PipeInv, FeedInv, Statistics
<1>7. AnnInv
  BY AnnInitInv DEF Init
<1> QED  BY <1>2, <1>3, <1>5, <1>6, <1>7 DEF FlowInv

(* What a transmission adds.                                                *)
LEMMA Transmitted ==
  ASSUME AirInv, NEW k \in Contents, Transmit(k)
  PROVE  /\ air' \in Seq(Packet) /\ Len(air') = Len(air) + 1 /\ Len(air) \in Nat
         /\ \A p \in OnAir : air'[p] = air[p]
         /\ air'[Len(air) + 1] = [content |-> k, start |-> now]
         /\ now' = now /\ OnAir \subseteq OnAir'
<1>1. [content |-> k, start |-> now] \in Packet
  BY DEF AirInv, Packet
<1>2. /\ air' = Append(air, [content |-> k, start |-> now]) /\ now' = now
      /\ air \in Seq(Packet) /\ Len(air) \in Nat
  BY DEF Transmit, AirInv
<1> DEFINE x == [content |-> k, start |-> now]
<1> HIDE DEF x
<1>3. /\ Append(air, x) \in Seq(Packet) /\ Len(Append(air, x)) = Len(air) + 1
      /\ \A i \in 1..Len(air) : Append(air, x)[i] = air[i]
      /\ Append(air, x)[Len(air) + 1] = x
  BY <1>1, <1>2, AppendProperties DEF x
<1>4. OnAir \subseteq OnAir'
  BY <1>2, <1>3 DEF OnAir, x
<1> QED  BY <1>2, <1>3, <1>4 DEF OnAir, x

LEMMA TransmitAir ==
  ASSUME AirInv, NEW k \in Contents, Transmit(k)  PROVE AirInv'
<1> DEFINE n == Len(air) + 1
<1>1. /\ air' \in Seq(Packet) /\ Len(air') = n /\ Len(air) \in Nat
      /\ \A p \in OnAir : air'[p] = air[p]
      /\ air'[n].content = k /\ air'[n].start = now
      /\ now' = now
  <2>1. /\ air' \in Seq(Packet) /\ Len(air') = n /\ Len(air) \in Nat
        /\ \A p \in OnAir : air'[p] = air[p]
        /\ air'[n] = [content |-> k, start |-> now] /\ now' = now
    BY Transmitted, Zenon
  <2> HIDE DEF n
  <2> QED  BY <2>1
<1>2. now \in Nat /\ now \in 0..MaxTime /\ Spacing \in Nat
  BY FlowNumbers DEF AirInv
<1>3. \A p \in OnAir : air[p].start \in Nat /\ air[p].start <= now
  <2>1. \A p \in OnAir : air[p] \in Packet
    BY ElementOfSeq DEF AirInv, OnAir
  <2> QED  BY <2>1 DEF AirInv, Packet
<1>4. OnAir \subseteq Entries /\ n \in Entries
  BY DEF Transmit, AirInv
<1>5. \A p \in OnAir : air[p].content = k => now >= air[p].start + Spacing
  BY DEF Transmit, OnAir
<1> HIDE DEF n
<1>6. \A p \in OnAir' : p \in OnAir \/ p = n
  BY <1>1 DEF OnAir, n
<1>7. \A p \in OnAir : p < n /\ p \in Nat /\ n \in Nat
  BY <1>1 DEF OnAir, n
<1>8. \A p \in OnAir' : air'[p].start <= now'
  BY <1>1, <1>2, <1>3, <1>6
<1>9. \A p, q \in OnAir : p < q /\ air[p].content = air[q].content
                           => air[p].start + Spacing <= air[q].start
  BY DEF AirInv
<1>10. ASSUME NEW p \in OnAir', NEW q \in OnAir', p < q, air'[p].content = air'[q].content
       PROVE  air'[p].start + Spacing <= air'[q].start
  <2>1. CASE q = n
    <3>1. p \in OnAir
      BY <1>6, <1>10, <2>1, <1>1 DEF n
    <3>2. air[p].content = k /\ air'[p].start = air[p].start /\ air'[q].start = now
      BY <1>1, <1>10, <2>1, <3>1
    <3>3. now >= air[p].start + Spacing
      BY <1>5, <3>1, <3>2
    <3> QED  BY <3>1, <3>2, <3>3, <1>2, <1>3
  <2>2. CASE q # n
    <3>1. q \in OnAir
      BY <1>6, <2>2
    <3>2. p \in OnAir
      BY <1>6, <1>7, <1>10, <3>1
    <3> QED  BY <1>1, <1>9, <1>10, <3>1, <3>2
  <2> QED  BY <2>1, <2>2
<1> QED  BY <1>1, <1>2, <1>4, <1>6, <1>8, <1>10 DEF AirInv

-----------------------------------------------------------------------------
(* The de-duplication loop, turn by turn.                                   *)
Accs == [recent : [Contents -> Int], deduped : Seq(OnAir)]
FirstAcc == [recent |-> Unexpired, deduped |-> <<>>]

LEMMA AirStart ==
  ASSUME AirInv, NEW p \in OnAir
  PROVE  air[p].content \in Contents /\ air[p].start \in Nat /\ air[p].start <= now
<1>1. air[p] \in Packet
  BY ElementOfSeq DEF AirInv, OnAir
<1> QED  BY <1>1 DEF AirInv, Packet

LEMMA FirstAccTyped == ASSUME AirInv, ProcInv  PROVE FirstAcc \in Accs
<1>1. <<>> \in Seq(OnAir)
  BY EmptySeq
<1>2. Unexpired \in [Contents -> Int]
  BY DEF Unexpired, ProcInv, Never
<1> QED  BY <1>1, <1>2 DEF FirstAcc, Accs

(* What a turn does: it passes a packet over or reports it.                  *)
LEMMA DedupCases ==
  ASSUME AirInv, NEW acc \in Accs, NEW p \in OnAir, NEW late \in 0..Jitter
  PROVE  LET k == air[p].content
             d == (air[p].start + late) - acc.recent[k]
             new == Dedup(acc, p, late)
         IN  /\ k \in Contents /\ air[p].start \in Nat /\ acc.recent[k] \in Int /\ new \in Accs
             /\ acc.recent[k] # Never /\ d < Tol /\ -d < Tol => new = acc
             /\ ~(acc.recent[k] # Never /\ d < Tol /\ -d < Tol) =>
                  /\ new.recent[k] = air[p].start + late
                  /\ \A c \in Contents \ {k} : new.recent[c] = acc.recent[c]
                  /\ new.deduped = Append(acc.deduped, p)
<1> DEFINE k == air[p].content
           e == air[p].start + late
           d == e - acc.recent[k]
           new == Dedup(acc, p, late)
<1>1. k \in Contents /\ air[p].start \in Nat /\ e \in Int
  BY AirStart, FlowNumbers
<1>2. /\ acc.recent \in [Contents -> Int] /\ acc.deduped \in Seq(OnAir)
      /\ acc.recent[k] \in Int
  BY <1>1 DEF Accs
<1> DEFINE rep == acc.recent[k] # Never /\ d < Tol /\ -d < Tol
           add == [recent |-> [acc.recent EXCEPT ![k] = e], deduped |-> Append(acc.deduped, p)]
<1>3. new = IF rep THEN acc ELSE add
  BY Zenon DEF Dedup, StartEstimate
<1>4. Append(acc.deduped, p) \in Seq(OnAir)
  BY <1>2, AppendProperties
<1> HIDE DEF k, e
<1>5. /\ add \in Accs /\ add.recent[k] = e /\ add.deduped = Append(acc.deduped, p)
      /\ \A c \in Contents \ {k} : add.recent[c] = acc.recent[c]
  BY <1>1, <1>2, <1>4 DEF Accs
<1> HIDE DEF add, new, d
<1>6. new \in Accs
  BY <1>3, <1>5
<1>7. rep => new = acc
  BY <1>3
<1>8. ~rep => /\ new.recent[k] = e /\ \A c \in Contents \ {k} : new.recent[c] = acc.recent[c]
              /\ new.deduped = Append(acc.deduped, p)
  BY <1>3, <1>5
<1> QED  BY <1>1, <1>2, <1>6, <1>7, <1>8 DEF k, e, d, new

LEMMA DedupedLoop ==
  ASSUME AirInv, ProcInv, NEW packets \in Seq(OnAir), NEW late \in 0..Jitter
  PROVE  \E turn \in [0..Len(packets) -> Accs] :
           /\ turn[0] = FirstAcc
           /\ \A n \in 1..Len(packets) : turn[n] = Dedup(turn[n-1], packets[n], late)
           /\ Deduped(packets, late) = turn[Len(packets)]
<1> DEFINE N == Len(packets)
           step == [a \in Accs \X (1..N) |-> Dedup(a[1], packets[a[2]], late)]
           P(f) == f = [n \in 0..N |-> IF n = 0 THEN FirstAcc
                                       ELSE Dedup(f[n-1], packets[n], late)]
<1>1. N \in Nat /\ \A n \in 1..N : packets[n] \in OnAir
  BY ElementOfSeq
<1>2. \A acc \in Accs, n \in 1..N : Dedup(acc, packets[n], late) \in Accs
  BY <1>1, DedupCases
<1>3. /\ step \in [Accs \X (1..N) -> Accs]
      /\ \A acc \in Accs, n \in 1..N : step[<<acc, n>>] = Dedup(acc, packets[n], late)
  BY <1>2
<1>4. Deduped(packets, late) = (CHOOSE f : P(f))[N]
  BY DEF Deduped, FirstAcc
<1>5. FirstAcc \in Accs
  BY FirstAccTyped
<1> HIDE DEF N, step
<1>6. PICK g \in [0..N -> Accs] :
        g[0] = FirstAcc /\ \A n \in 1..N : g[n] = step[<<g[n-1], n>>]
  <2>1. N \in Nat /\ FirstAcc \in Accs /\ step \in [Accs \X (1..N) -> Accs]
    BY <1>1, <1>3, <1>5
  <2>2. PICK f \in [0..N -> Accs] : Follows(f, N, FirstAcc, step)
    BY <2>1, Recursion
  <2> QED  BY <2>2 DEF Follows
<1>7. \A n \in 0..N : g[n] = IF n = 0 THEN FirstAcc ELSE Dedup(g[n-1], packets[n], late)
  <2> SUFFICES ASSUME NEW n \in 0..N, n # 0
               PROVE  g[n] = Dedup(g[n-1], packets[n], late)
    BY <1>6
  <2>1. n \in 1..N /\ n - 1 \in 0..N
    BY <1>1
  <2> QED  BY <1>3, <1>6, <2>1
<1>8. P(g)
  BY <1>6, <1>7
<1> DEFINE turn == CHOOSE f : P(f)
<1>9. P(turn)
  BY <1>8
<1>10. /\ turn[0] = FirstAcc
       /\ \A n \in 1..N : turn[n] = Dedup(turn[n-1], packets[n], late)
       /\ DOMAIN turn = 0..N
  <2> HIDE DEF turn
  <2> QED  BY <1>1, <1>9
<1>11. Deduped(packets, late) = turn[N]
  BY <1>4
<1> HIDE DEF turn, P
<1>12. 0..N \subseteq {n \in 0..N : turn[n] \in Accs}
  <2> DEFINE G == {n \in 0..N : turn[n] \in Accs}
  <2>1. 0 \in G
    BY <1>1, <1>5, <1>10
  <2>2. \A n \in 1..N : n - 1 \in G => n \in G
    BY <1>1, <1>2, <1>10
  <2> HIDE DEF G
  <2>3. 0..N \subseteq G
    BY <1>1, <2>1, <2>2, NatSetInduction
  <2> QED  BY <2>3 DEF G
<1>13. turn \in [0..N -> Accs]
  <2>1. turn = [n \in 0..N |-> turn[n]]
    BY <1>9, <1>10 DEF P
  <2> QED  BY <1>12, <2>1
<1> QED  BY <1>10, <1>11, <1>13 DEF N

-----------------------------------------------------------------------------
(* A cycle, with the order in which decode_signal returned the packets.      *)
CycleWith(packets, late) ==
  LET out == Deduped(packets, late)
  IN  /\ \A i \in 1..Len(packets) : packets[i] \in InWindow(late)
      /\ \A i, j \in 1..Len(packets) : packets[i] = packets[j] => i = j
      /\ recent_decodes' = out.recent
      /\ chips' = (IF packets # <<>> /\ chips = "none" THEN "fresh" ELSE chips)
      /\ unwritten' = Append(unwritten,
           [decode_entries |-> out.deduped, chipset_stats |-> chips'])
      /\ decoded' = decoded \cup ToSet(packets)
      /\ reported' = reported \cup ToSet(out.deduped)

LEMMA CycleIs ==
  ASSUME AirInv, NEW late \in 0..Jitter, Cycle(late)
  PROVE  \E packets \in Seq(OnAir) : CycleWith(packets, late)
<1>0. PICK found \in SUBSET InWindow(late) : \E packets \in SetToSeqs(found) :
        LET out == Deduped(packets, late)
        IN  /\ recent_decodes' = out.recent
            /\ chips' = (IF packets # <<>> /\ chips = "none" THEN "fresh" ELSE chips)
            /\ unwritten' = Append(unwritten,
                 [decode_entries |-> out.deduped, chipset_stats |-> chips'])
            /\ decoded' = decoded \cup ToSet(packets)
            /\ reported' = reported \cup ToSet(out.deduped)
  BY Zenon DEF Cycle
<1>1. PICK packets \in SetToSeqs(found) :
        LET out == Deduped(packets, late)
        IN  /\ recent_decodes' = out.recent
            /\ chips' = (IF packets # <<>> /\ chips = "none" THEN "fresh" ELSE chips)
            /\ unwritten' = Append(unwritten,
                 [decode_entries |-> out.deduped, chipset_stats |-> chips'])
            /\ decoded' = decoded \cup ToSet(packets)
            /\ reported' = reported \cup ToSet(out.deduped)
  BY <1>0, Zenon
<1>2. found \subseteq OnAir /\ Len(air) \in Nat
  BY DEF InWindow, OnAir, AirInv
<1>3. IsFiniteSet(OnAir)
  BY <1>2, FS_Interval DEF OnAir
<1>4. Cardinality(found) \in Nat
  BY <1>2, <1>3, FS_Subset, FS_CardinalityType
<1> DEFINE n == Cardinality(found)
<1>5. /\ packets \in [1..n -> found]
      /\ \A i, j \in 1..n : i # j => packets[i] # packets[j]
  BY DEF SetToSeqs
<1> HIDE DEF n
<1>6. packets \in Seq(OnAir) /\ Len(packets) = n
  BY <1>2, <1>4, <1>5 DEF n
<1>7. \A i \in 1..Len(packets) : packets[i] \in InWindow(late)
  BY <1>5, <1>6
<1>8. \A i, j \in 1..Len(packets) : packets[i] = packets[j] => i = j
  BY <1>5, <1>6
<1>9. CycleWith(packets, late)
  BY <1>1, <1>7, <1>8, Zenon DEF CycleWith
<1> QED  BY <1>6, <1>9

LEMMA ToSetOfSeq ==
  ASSUME NEW S, NEW s \in Seq(S)
  PROVE  /\ ToSet(s) = {s[i] : i \in 1..Len(s)} /\ ToSet(s) \subseteq S
         /\ \A x : x \in ToSet(s) <=> \E i \in 1..Len(s) : s[i] = x
BY ElementOfSeq DEF ToSet

LEMMA ToSetAppend ==
  ASSUME NEW S, NEW s \in Seq(S), NEW e \in S
  PROVE  ToSet(Append(s, e)) = ToSet(s) \cup {e}
<1> DEFINE a == Append(s, e)
<1>1. /\ a \in Seq(S) /\ Len(a) = Len(s) + 1 /\ Len(s) \in Nat
      /\ \A i \in 1..Len(s) : a[i] = s[i]
      /\ a[Len(s) + 1] = e
  BY AppendProperties
<1> HIDE DEF a
<1>2. ToSet(a) = {a[i] : i \in 1..Len(a)} /\ ToSet(s) = {s[i] : i \in 1..Len(s)}
  BY <1>1, ToSetOfSeq
<1> QED  BY <1>1, <1>2 DEF a

(* Types after a cycle.                                                     *)
LEMMA CycleFlow ==
  ASSUME FlowInv, NEW late \in 0..Jitter, Cycle(late)  PROVE FlowInv'
<1>1. AirInv /\ ProcInv /\ PipeInv /\ DrainInv /\ FeedInv /\ AnnInv
  BY DEF FlowInv
<1>2. PICK packets \in Seq(OnAir) : CycleWith(packets, late)
  BY <1>1, CycleIs
<1> DEFINE out == Deduped(packets, late)
           chipsNow == IF packets # <<>> /\ chips = "none" THEN "fresh" ELSE chips
           new == [decode_entries |-> out.deduped, chipset_stats |-> chipsNow]
<1>3. /\ recent_decodes' = out.recent /\ chips' = chipsNow
      /\ unwritten' = Append(unwritten, new)
      /\ decoded' = decoded \cup ToSet(packets)
      /\ reported' = reported \cup ToSet(out.deduped)
  BY <1>2 DEF CycleWith
<1>4. /\ viewed' = viewed \cup InWindow(late) /\ t0' = now
      /\ UNCHANGED <<airVars, up, deaths, result_queue, drainVars, feedVars, annVars>>
  BY DEF Cycle
<1>5. out \in Accs
  <2>1. PICK turn \in [0..Len(packets) -> Accs] : out = turn[Len(packets)]
    BY <1>1, DedupedLoop
  <2> QED  BY <2>1
<1>6. out.recent \in [Contents -> Int] /\ out.deduped \in Seq(OnAir)
  BY <1>5 DEF Accs
<1>7. ToSet(packets) \subseteq OnAir /\ ToSet(out.deduped) \subseteq OnAir
  BY <1>6, ToSetOfSeq
<1>8. OnAir' = OnAir /\ InWindow(late) \subseteq OnAir
  BY <1>4 DEF OnAir, airVars, InWindow
<1>9. chipsNow \in Statistics
  BY <1>1 DEF ProcInv, Statistics
<1>10. new \in Results
  <2>1. OnAir \subseteq Entries
    BY <1>1 DEF AirInv
  <2>2. out.deduped \in Seq(Entries)
    BY <1>6, <2>1, SeqMonotonic
  <2> HIDE DEF out, chipsNow
  <2> QED  BY <1>9, <2>2 DEF Results
<1> HIDE DEF new, out, chipsNow
<1>11. ProcInv'
  <2>1. viewed' \subseteq OnAir' /\ decoded' \subseteq OnAir' /\ reported' \subseteq OnAir'
    BY <1>1, <1>3, <1>4, <1>7, <1>8 DEF ProcInv
  <2>2. t0' \in Int
    BY <1>1, <1>4 DEF AirInv
  <2> QED  BY <1>1, <1>3, <1>4, <1>6, <1>9, <2>1, <2>2 DEF ProcInv
<1>12. PipeInv'
  BY <1>1, <1>3, <1>4, <1>10, AppendProperties DEF PipeInv
<1> QED  BY <1>1, <1>4, <1>11, <1>12, FlowFrame DEF FlowInv

LEMMA NewestShort ==
  ASSUME NEW S, NEW s \in Seq(S), NEW n \in Nat
  PROVE  Newest(s, n) \in Seq(S) /\ Len(Newest(s, n)) <= n
<1>1. Len(s) \in Nat
  OBVIOUS
<1>2. CASE Len(s) <= n
  BY <1>2 DEF Newest
<1>3. CASE Len(s) > n
  <2>1. \A i \in Len(s) - n + 1..Len(s) : s[i] \in S
    BY <1>1, <1>3, ElementOfSeq
  <2>2. /\ SubSeq(s, Len(s) - n + 1, Len(s)) \in Seq(S)
        /\ Len(SubSeq(s, Len(s) - n + 1, Len(s)))
             = IF Len(s) - n + 1 <= Len(s) THEN Len(s) - (Len(s) - n + 1) + 1 ELSE 0
    BY <1>1, <2>1, SubSeqProperties
  <2> QED  BY <1>1, <1>3, <2>2 DEF Newest
<1> QED  BY <1>1, <1>2, <1>3

-----------------------------------------------------------------------------
(* Every step keeps the types and the account of the annotations.            *)
LEMMA ProcessorFlow == ASSUME FlowInv, Processor  PROVE FlowInv'
<1>1. AirInv /\ ProcInv /\ PipeInv /\ DrainInv /\ FeedInv /\ AnnInv
  BY DEF FlowInv
<1>2. CASE FeedResult
  <2>1. /\ unwritten \in Seq(Results) /\ unwritten # <<>> /\ result_queue \in Seq(Results)
        /\ result_queue' = Append(result_queue, Head(unwritten))
        /\ unwritten' = Tail(unwritten)
    BY <1>1, <1>2 DEF FeedResult, PipeInv
  <2>2. Head(unwritten) \in Results /\ Tail(unwritten) \in Seq(Results)
    BY <2>1, HeadTailProperties
  <2>3. PipeInv'
    BY <2>1, <2>2, AppendProperties DEF PipeInv
  <2> QED  BY <1>1, <1>2, <2>3, FlowFrame DEF FeedResult, FlowInv
<1>3. CASE ProcessorDies
  <2>1. <<>> \in Seq(Results)
    BY EmptySeq
  <2>2. PipeInv'
    BY <1>1, <1>3, <2>1 DEF ProcessorDies, PipeInv
  <2>3. ProcInv'
    <3>1. /\ up' = FALSE /\ deaths' = deaths + 1 /\ deaths < MaxDeaths /\ t0' = 0
          /\ chips' = "none" /\ recent_decodes' = [k \in Contents |-> Never]
          /\ UNCHANGED <<air, viewed, decoded, reported>>
      BY <1>3 DEF ProcessorDies, airVars
    <3>2. deaths' \in 0..MaxDeaths
      BY <1>1, <3>1, FlowNumbers DEF ProcInv
    <3>3. recent_decodes' \in [Contents -> Int] /\ t0' \in Int /\ chips' \in Statistics
      BY <3>1 DEF Never, Statistics
    <3>4. up' \in BOOLEAN
      BY <3>1
    <3> QED  BY <1>1, <3>1, <3>2, <3>3, <3>4 DEF ProcInv, OnAir
  <2> QED  BY <1>1, <1>3, <2>2, <2>3, FlowFrame DEF ProcessorDies, FlowInv
<1>4. CASE ProcessorRestarts
  <2>1. ProcInv'
    <3>1. /\ up' = TRUE /\ t0' = now - Interval
          /\ UNCHANGED <<air, recent_decodes, chips, deaths, viewed, decoded, reported>>
      BY <1>4 DEF ProcessorRestarts, airVars
    <3>2. t0' \in Int
      BY <1>1, <3>1, FlowNumbers DEF AirInv
    <3>3. up' \in BOOLEAN
      BY <3>1
    <3> QED  BY <1>1, <3>1, <3>2, <3>3 DEF ProcInv, OnAir
  <2> QED  BY <1>1, <1>4, <2>1, FlowFrame DEF ProcessorRestarts, FlowInv
<1>5. CASE \E late \in 0..Jitter : Cycle(late)
  BY <1>5, CycleFlow
<1> QED  BY <1>2, <1>3, <1>4, <1>5 DEF Processor

LEMMA DrainFlow == ASSUME FlowInv, Drain  PROVE FlowInv'
<1>1. AirInv /\ ProcInv /\ PipeInv /\ DrainInv /\ FeedInv /\ AnnInv
  BY DEF FlowInv
<1>2. r \in Results /\ r.decode_entries \in Seq(Entries) /\ Len(r.decode_entries) \in Nat
  BY <1>1 DEF DrainInv, Results
<1>3. CASE GetResult
  <2>1. /\ result_queue \in Seq(Results) /\ result_queue # <<>>
        /\ r' = Head(result_queue) /\ result_queue' = Tail(result_queue) /\ next_entry' = 1
        /\ UNCHANGED <<airVars, procVars, unwritten, feedVars, annVars>>
    BY <1>1, <1>3 DEF GetResult, PipeInv
  <2>2. r' \in Results /\ result_queue' \in Seq(Results)
    BY <2>1, HeadTailProperties
  <2>3. Len(r'.decode_entries) \in Nat
    BY <2>2 DEF Results
  <2>4. PipeInv' /\ DrainInv'
    BY <1>1, <2>1, <2>2, <2>3 DEF PipeInv, DrainInv
  <2> QED  BY <1>1, <2>1, <2>4, FlowFrame DEF FlowInv
<1>4. CASE SubmitEntry
  <2>1. /\ next_entry \in 1..Len(r.decode_entries) /\ next_entry' = next_entry + 1 /\ r' = r
        /\ Submit(r.decode_entries[next_entry])
        /\ UNCHANGED <<airVars, procVars, pipeVars, feedVars>>
    BY <1>2, <1>4 DEF SubmitEntry
  <2>2. r.decode_entries[next_entry] \in Entries
    BY <1>2, <2>1, ElementOfSeq
  <2>3. AnnInv'
    BY <1>1, <2>1, <2>2, SubmitInv
  <2>4. DrainInv'
    BY <1>2, <2>1 DEF DrainInv
  <2> QED  BY <1>1, <2>1, <2>3, <2>4, FlowFrame DEF FlowInv
<1>5. CASE StoreResult
  <2>1. packet_feed \o r.decode_entries \in Seq(Entries)
        /\ decode_results \o r.decode_entries \in Seq(Entries)
    BY <1>1, <1>2, ConcatProperties DEF FeedInv
  <2>2. /\ packet_feed' \in Seq(Entries) /\ Len(packet_feed') <= FeedMax
        /\ decode_results' \in Seq(Entries) /\ Len(decode_results') <= HistoryMax
    BY <1>5, <2>1, NewestShort, FlowNumbers DEF StoreResult
  <2>3. chipset_stats' \in Statistics /\ given' = given
    <3>1. chipset_stats \in Statistics /\ r.chipset_stats \in Statistics
      BY <1>1 DEF DrainInv, FeedInv, Results
    <3> QED  BY <1>5, <3>1 DEF StoreResult
  <2>4. FeedInv'
    BY <1>1, <2>2, <2>3 DEF FeedInv
  <2>5. DrainInv'
    <3>1. <<>> \in Seq(Entries) /\ Len(<<>>) = 0
      BY EmptySeq
    <3>2. NoResult \in Results /\ Len(NoResult.decode_entries) = 0
      BY <3>1 DEF NoResult, Results, Statistics
    <3> QED  BY <1>5, <3>2 DEF StoreResult, DrainInv
  <2> QED  BY <1>1, <1>5, <2>4, <2>5, FlowFrame DEF StoreResult, FlowInv
<1> QED  BY <1>3, <1>4, <1>5 DEF Drain

LEMMA FlowStep == FlowInv /\ [Next]_vars => FlowInv'
<1> SUFFICES ASSUME FlowInv, [Next]_vars  PROVE FlowInv'
  OBVIOUS
<1>1. AirInv /\ ProcInv /\ PipeInv /\ DrainInv /\ FeedInv /\ AnnInv
  BY DEF FlowInv
<1>2. CASE Tick
  <2>1. AirInv'
    <3>1. now' = now + 1 /\ now < MaxTime /\ air' = air /\ MaxTime \in Nat
      BY <1>2, FlowNumbers DEF Tick
    <3>2. \A p \in OnAir : air[p].start \in Nat /\ air[p].start <= now
      BY <1>1, AirStart
    <3>3. now' \in 0..MaxTime /\ \A p \in OnAir : air[p].start <= now'
      BY <1>1, <3>1, <3>2 DEF AirInv
    <3> QED  BY <1>1, <3>1, <3>3 DEF AirInv, OnAir
  <2>2. ProcInv'
    BY <1>1, <1>2 DEF Tick, ProcInv, OnAir, procVars
  <2> QED  BY <1>1, <1>2, <2>1, <2>2, FlowFrame DEF Tick, FlowInv
<1>3. ASSUME NEW k \in Contents, Transmit(k)  PROVE FlowInv'
  <2>1. AirInv'
    BY <1>1, <1>3, TransmitAir
  <2>2. OnAir \subseteq OnAir'
    BY <1>1, <1>3, Transmitted
  <2>3. ProcInv'
    BY <1>1, <1>3, <2>2 DEF Transmit, ProcInv, procVars
  <2> QED  BY <1>1, <1>3, <2>1, <2>3, FlowFrame DEF Transmit, FlowInv
<1>4. CASE GetPackets
  <2>1. <<>> \in Seq(Entries) /\ Len(<<>>) = 0
    BY EmptySeq
  <2>2. given \o packet_feed \in Seq(Entries)
    BY <1>1, ConcatProperties DEF FeedInv
  <2>3. FeedInv'
    BY <1>1, <1>4, <2>1, <2>2, FlowNumbers DEF GetPackets, FeedInv
  <2> QED  BY <1>1, <1>4, <2>3, FlowFrame DEF GetPackets, FlowInv
<1>5. CASE Reset
  <2>1. <<>> \in Seq(Entries) /\ Len(<<>>) = 0
    BY EmptySeq
  <2>2. FeedInv'
    BY <1>1, <1>5, <2>1, FlowNumbers DEF Reset, FeedInv, Statistics
  <2>3. ProcInv'
    BY <1>1, <1>5 DEF Reset, ProcInv, Statistics, OnAir, airVars
  <2> QED  BY <1>1, <1>5, <2>2, <2>3, FlowFrame DEF Reset, FlowInv
<1>6. CASE Post /\ UNCHANGED <<airVars, procVars, pipeVars, drainVars, feedVars>>
  <2>1. AnnInv'
    BY <1>1, <1>6, PostInv
  <2> QED  BY <1>1, <1>6, <2>1, FlowFrame DEF FlowInv
<1>7. CASE UNCHANGED vars
  BY <1>1, <1>7, FlowFrame DEF vars, FlowInv
<1> QED  BY <1>2, <1>3, <1>4, <1>5, <1>6, <1>7, ProcessorFlow, DrainFlow DEF Next

(* Feed, history and annotator queue keep within their caps, and every value *)
(* on its way from the processor to the readers is one the model describes.  *)
THEOREM FlowTypeOK == Spec => []TypeOK
<1>1. FlowInv => TypeOK
  <2> SUFFICES ASSUME FlowInv  PROVE TypeOK
    OBVIOUS
  <2>1. chips \in Statistics /\ chipset_stats \in Statistics
    BY DEF FlowInv, ProcInv, FeedInv
  <2>2. AnnTypeOK
    BY DEF FlowInv, AnnInv
  <2> QED  BY <2>1, <2>2
           DEF FlowInv, AirInv, ProcInv, PipeInv, DrainInv, FeedInv, TypeOK, Packet, OnAir
<1> QED  BY FlowInitInv, FlowStep, <1>1, PTL DEF Spec

(* Whatever the processor reports and however the posts to the harvester     *)
(* end, each entry given to submit() is sent, failed, dropped, skipped,      *)
(* queued or being posted, and in one place only.                           *)
THEOREM AccountAddsUp == Spec => []EntriesAccounted
<1>1. FlowInv => EntriesAccounted
  BY DEF FlowInv, AnnInv
<1> QED  BY FlowInitInv, FlowStep, <1>1, PTL DEF Spec

-----------------------------------------------------------------------------
(* Every packet lies whole in a decode window before long.  As long as the   *)
(* processor lives, cycles are at most Slowest apart, and what has ended      *)
(* before the last one has been in view.                                    *)
ViewInv ==
  deaths = 0 =>
    /\ up = TRUE /\ t0 <= now /\ now <= t0 + Slowest
    /\ \A p \in OnAir : air[p].start + Dur + Jitter <= t0 => p \in viewed

LEMMA ViewStep == ASSUME InReach, FlowInv, ViewInv, [Next]_vars  PROVE ViewInv'
<1> SUFFICES ASSUME deaths' = 0  PROVE ViewInv'
  BY DEF ViewInv
<1>1. AirInv /\ ProcInv
  BY DEF FlowInv
<1>2. now \in Nat /\ t0 \in Int /\ deaths \in Nat
  BY <1>1, FlowNumbers DEF AirInv, ProcInv
<1>3. {Dur, Window, Jitter, Slowest} \subseteq Nat /\ Dur > 0
  BY FlowNumbers
<1>4. ASSUME deaths = 0
      PROVE  /\ up = TRUE /\ t0 <= now /\ now <= t0 + Slowest
             /\ \A p \in OnAir : air[p].start + Dur + Jitter <= t0 => p \in viewed
  BY <1>4 DEF ViewInv
<1>5. CASE Tick
  <2>1. deaths = 0 /\ now < t0 + Slowest /\ now' = now + 1
    BY <1>4, <1>5 DEF Tick, procVars
  <2>2. UNCHANGED <<air, up, t0, viewed>>
    BY <1>5 DEF Tick, procVars
  <2>3. t0' <= now' /\ now' <= t0' + Slowest
    BY <1>2, <1>3, <1>4, <2>1, <2>2
  <2> QED  BY <1>4, <2>1, <2>2, <2>3 DEF ViewInv, OnAir
<1>6. ASSUME NEW k \in Contents, Transmit(k)  PROVE ViewInv'
  <2>1. deaths = 0 /\ UNCHANGED <<now, up, t0, viewed>>
    BY <1>6 DEF Transmit, procVars
  <2>2. /\ Len(air') = Len(air) + 1 /\ Len(air) \in Nat
        /\ \A p \in OnAir : air'[p] = air[p]
        /\ air'[Len(air) + 1] = [content |-> k, start |-> now]
    BY <1>1, <1>6, Transmitted
  <2>3. air'[Len(air) + 1].start = now
    BY <2>2
  <2>4. ASSUME NEW p \in OnAir', air'[p].start + Dur + Jitter <= t0'  PROVE p \in viewed'
    <3>1. p \in OnAir \/ p = Len(air) + 1
      BY <2>2 DEF OnAir
    <3>2. CASE p = Len(air) + 1
      <4>1. now + Dur + Jitter <= t0
        BY <2>1, <2>3, <2>4, <3>2
      <4> QED  BY <1>2, <1>3, <1>4, <2>1, <4>1
    <3>3. CASE p \in OnAir
      BY <1>4, <2>1, <2>2, <2>4, <3>3
    <3> QED  BY <3>1, <3>2, <3>3
  <2> QED  BY <1>4, <2>1, <2>4 DEF ViewInv
<1>7. ASSUME NEW late \in 0..Jitter, Cycle(late)  PROVE ViewInv'
  <2>1. /\ UNCHANGED <<now, air, up, deaths>> /\ t0' = now
        /\ viewed' = viewed \cup InWindow(late)
    BY <1>7 DEF Cycle, airVars
  <2>2. late \in Nat /\ late <= Jitter
    BY <1>3
  <2>3. OnAir' = OnAir
    BY <2>1 DEF OnAir
  <2>4. ASSUME NEW p \in OnAir, air[p].start + Dur + Jitter <= now  PROVE p \in viewed'
    <3>1. air[p].start \in Nat
      BY <1>1, AirStart
    <3>2. CASE air[p].start + Dur + Jitter <= t0
      BY <1>4, <2>1, <3>2
    <3>3. CASE ~(air[p].start + Dur + Jitter <= t0)
      <4>1. now - late - Window <= air[p].start /\ air[p].start + Dur <= now - late
        <5> DEFINE s == air[p].start
        <5>1. /\ s \in Nat /\ now \in Nat /\ t0 \in Int /\ late \in Nat
              /\ Dur \in Nat /\ Window \in Nat /\ Jitter \in Nat /\ Slowest \in Nat
          BY <1>2, <1>3, <2>2, <3>1
        <5>2. /\ now <= t0 + Slowest /\ late <= Jitter
              /\ s + Dur + Jitter <= now /\ ~(s + Dur + Jitter <= t0)
              /\ Slowest + Dur + Jitter <= Window + 1
          BY <1>4, <2>1, <2>2, <2>4, <3>3 DEF InReach
        <5> HIDE DEF s
        <5>3. now - late - Window <= s /\ s + Dur <= now - late
          BY ONLY <5>1, <5>2
        <5> QED  BY <5>3 DEF s
      <4>2. p \in InWindow(late)
        BY <4>1 DEF InWindow, OnAir
      <4> QED  BY <2>1, <4>2
    <3> QED  BY <3>2, <3>3
  <2>5. t0' <= now' /\ now' <= t0' + Slowest
    BY <1>2, <1>3, <2>1
  <2> QED  BY <1>4, <2>1, <2>3, <2>4, <2>5 DEF ViewInv
<1>8. CASE FeedResult \/ Drain \/ GetPackets \/ Reset \/ UNCHANGED vars
           \/ (Post /\ UNCHANGED <<airVars, procVars, pipeVars, drainVars, feedVars>>)
  <2>1. UNCHANGED <<now, air, up, t0, deaths, viewed>>
    BY <1>8 DEF FeedResult, Drain, GetResult, SubmitEntry, StoreResult, GetPackets, Reset,
                vars, airVars, procVars
  <2> QED  BY <1>4, <2>1 DEF ViewInv, OnAir
<1>9. CASE ProcessorDies
  BY <1>2, <1>9 DEF ProcessorDies
<1>10. CASE ProcessorRestarts
  BY <1>4, <1>10 DEF ProcessorRestarts
<1> QED  BY <1>5, <1>6, <1>7, <1>8, <1>9, <1>10 DEF Next, Processor

(* However cycles and packets fall, each packet lies whole in a window of    *)
(* the processor that lives, if the longest gap between cycles leaves room   *)
(* for that (InReach, config.py 131-137).                                   *)
THEOREM SeenWhole == ASSUME InReach  PROVE Spec => []EveryPacketInView
<1>1. Init => ViewInv
  <2> SUFFICES ASSUME Init  PROVE ViewInv
    OBVIOUS
  <2>1. Len(<<>>) = 0
    BY EmptySeq
  <2> QED  BY <2>1, FlowNumbers DEF Init, ViewInv, OnAir
<1>2. FlowInv /\ ViewInv /\ [Next]_vars => ViewInv'
  BY ViewStep, InReach
<1>3. FlowInv /\ ViewInv => EveryPacketInView
  <2> SUFFICES ASSUME FlowInv, ViewInv, deaths = 0, NEW p \in OnAir,
                      now > air[p].start + Dur + Jitter + Slowest
               PROVE  p \in viewed
    BY DEF EveryPacketInView, OnAir
  <2>1. /\ now <= t0 + Slowest
        /\ air[p].start + Dur + Jitter <= t0 => p \in viewed
    BY DEF ViewInv
  <2>2. now \in Nat /\ t0 \in Int /\ air[p].start \in Nat
    BY FlowNumbers, AirStart DEF FlowInv, AirInv, ProcInv
  <2>3. {Dur, Jitter, Slowest} \subseteq Nat
    BY FlowNumbers
  <2> QED  BY <2>1, <2>2, <2>3
<1> QED  BY FlowInitInv, FlowStep, <1>1, <1>2, <1>3, PTL DEF Spec

-----------------------------------------------------------------------------
(* What an entry of recent_decodes says: it is the estimated start of a      *)
(* packet of its content that was reported.                                 *)
Explained(recent, rep) ==
  \A k \in Contents :
    recent[k] # Never =>
      \E q \in rep, l \in 0..Jitter : air[q].content = k /\ recent[k] = air[q].start + l

SwallowInv == decoded \subseteq reported /\ Explained(recent_decodes, reported)

(* Two packets of one content, told apart by their starts.                   *)
LEMMA StartsApart ==
  ASSUME AirInv, NEW p \in OnAir, NEW q \in OnAir, p # q, air[p].content = air[q].content
  PROVE  \/ air[p].start + Spacing <= air[q].start
         \/ air[q].start + Spacing <= air[p].start
<1>1. p \in Nat /\ q \in Nat
  BY DEF OnAir, AirInv
<1>2. p < q \/ q < p
  BY <1>1
<1> QED  BY <1>2 DEF AirInv

(* A turn passes over a packet only if it was reported.                      *)
LEMMA PassedOver ==
  ASSUME Apart, AirInv, NEW p \in OnAir, NEW late \in 0..Jitter, NEW acc \in Accs,
         NEW rep \in SUBSET OnAir, Explained(acc.recent, rep),
         Dedup(acc, p, late) = acc, acc.deduped # Append(acc.deduped, p)
  PROVE  p \in rep
<1> DEFINE k == air[p].content
           d == (air[p].start + late) - acc.recent[k]
<1>1. /\ k \in Contents /\ air[p].start \in Nat /\ acc.recent[k] \in Int
      /\ ~(acc.recent[k] # Never /\ d < Tol /\ -d < Tol) =>
              Dedup(acc, p, late).deduped = Append(acc.deduped, p)
  BY DedupCases, Zenon
<1>2. acc.recent[k] # Never /\ d < Tol /\ -d < Tol
  BY <1>1
<1>3. PICK q \in rep, l \in 0..Jitter : air[q].content = k /\ acc.recent[k] = air[q].start + l
  BY <1>1, <1>2 DEF Explained
<1>4. CASE p # q
  <2> DEFINE s == air[p].start
             u == air[q].start
  <2>1. /\ s \in Nat /\ u \in Nat /\ late \in Nat /\ l \in Nat /\ late <= Jitter /\ l <= Jitter
        /\ {Tol, Jitter, Spacing} \subseteq Nat
    BY <1>1, <1>3, AirStart, FlowNumbers
  <2>2. s + Spacing <= u \/ u + Spacing <= s
    BY <1>3, <1>4, StartsApart
  <2>3. (s + late) - (u + l) < Tol /\ -((s + late) - (u + l)) < Tol
    BY <1>2, <1>3
  <2>4. Tol + Jitter <= Spacing
    BY DEF Apart
  <2> HIDE DEF s, u
  <2> QED  BY ONLY <2>1, <2>2, <2>3, <2>4
<1> QED  BY <1>3, <1>4

(* The loop explains what it leaves in recent_decodes, and reports every     *)
(* packet it was given unless it was reported before.                       *)
LEMMA LoopReports ==
  ASSUME Apart, AirInv, ProcInv, SwallowInv,
         NEW packets \in Seq(OnAir), NEW late \in 0..Jitter
  PROVE  LET out == Deduped(packets, late)
             rep == reported \cup ToSet(out.deduped)
         IN  Explained(out.recent, rep) /\ ToSet(packets) \subseteq rep
<1> DEFINE N == Len(packets)
<1>1. PICK turn \in [0..N -> Accs] :
        /\ turn[0] = FirstAcc
        /\ \A n \in 1..N : turn[n] = Dedup(turn[n-1], packets[n], late)
        /\ Deduped(packets, late) = turn[N]
  BY DedupedLoop
<1> DEFINE Rep(n) == reported \cup ToSet(turn[n].deduped)
           G == {n \in 0..N : /\ Explained(turn[n].recent, Rep(n))
                              /\ \A i \in 1..n : packets[i] \in Rep(n)}
<1>2. N \in Nat /\ \A n \in 1..N : packets[n] \in OnAir
  BY ElementOfSeq
<1>3. \A n \in 0..N : /\ turn[n] \in Accs /\ turn[n].deduped \in Seq(OnAir)
                      /\ Rep(n) \subseteq OnAir
  <2> SUFFICES ASSUME NEW n \in 0..N
               PROVE  turn[n] \in Accs /\ turn[n].deduped \in Seq(OnAir) /\ Rep(n) \subseteq OnAir
    OBVIOUS
  <2>1. turn[n] \in Accs /\ turn[n].deduped \in Seq(OnAir)
    BY <1>1 DEF Accs
  <2>2. ToSet(turn[n].deduped) \subseteq OnAir
    BY <2>1, ToSetOfSeq
  <2> QED  BY <2>1, <2>2 DEF ProcInv
<1> HIDE DEF N
<1>4. 0 \in G
  <2>1. reported \subseteq Rep(0)
    OBVIOUS
  <2>2. turn[0].recent = Unexpired
    BY <1>1 DEF FirstAcc
  <2> HIDE DEF Rep
  <2>3. \A k \in Contents : Unexpired[k] # Never => Unexpired[k] = recent_decodes[k]
    BY DEF Unexpired
  <2>4. Explained(turn[0].recent, Rep(0))
    BY <2>1, <2>2, <2>3 DEF SwallowInv, Explained
  <2> QED  BY <1>2, <2>4
<1>5. ASSUME NEW n \in 1..N, n - 1 \in G  PROVE n \in G
  <2> DEFINE a == turn[n-1]
             p == packets[n]
             b == turn[n]
             k == air[p].content
             d == (air[p].start + late) - a.recent[k]
             pass == a.recent[k] # Never /\ d < Tol /\ -d < Tol
  <2>1. n \in 0..N /\ n - 1 \in 0..N /\ n \in Nat
    BY <1>2
  <2>2. b = Dedup(a, p, late) /\ a \in Accs /\ p \in OnAir /\ a.deduped \in Seq(OnAir)
    BY <1>1, <1>2, <1>3, <2>1
  <2>3. Explained(a.recent, Rep(n-1)) /\ \A i \in 1..n-1 : packets[i] \in Rep(n-1)
    BY <1>5
  <2>4. Append(a.deduped, p) # a.deduped
    <3>1. Len(Append(a.deduped, p)) = Len(a.deduped) + 1 /\ Len(a.deduped) \in Nat
      BY <2>2, AppendProperties
    <3> QED  BY <3>1
  <2>5. /\ k \in Contents
        /\ pass => b = a
        /\ ~pass => /\ b.recent[k] = air[p].start + late
                    /\ \A c \in Contents \ {k} : b.recent[c] = a.recent[c]
                    /\ b.deduped = Append(a.deduped, p)
    <3> DEFINE c == Dedup(a, p, late)
    <3>1. /\ k \in Contents
          /\ pass => c = a
          /\ ~pass => /\ c.recent[k] = air[p].start + late
                      /\ \A e \in Contents \ {k} : c.recent[e] = a.recent[e]
                      /\ c.deduped = Append(a.deduped, p)
      <4> HIDE DEF a, p
      <4> QED  BY <2>2, DedupCases, Zenon
    <3> HIDE DEF a, b, p, pass, k
    <3> QED  BY <2>2, <3>1
  <2> HIDE DEF pass, d
  <2>6. Rep(n-1) \subseteq Rep(n) /\ p \in Rep(n) /\ Explained(b.recent, Rep(n))
    <3>1. CASE pass
      <4>1. b = a
        BY <2>5, <3>1
      <4>2. Rep(n) = Rep(n-1)
        BY <4>1
      <4>3. Rep(n-1) \subseteq OnAir
        BY <1>3, <2>1
      <4> HIDE DEF Rep, a, b, p
      <4>4. p \in Rep(n-1)
        BY <2>2, <2>3, <2>4, <4>1, <4>3, PassedOver
      <4> QED  BY <2>3, <4>1, <4>2, <4>4
    <3>2. CASE ~pass
      <4>1. /\ b.recent[k] = air[p].start + late
            /\ \A c \in Contents \ {k} : b.recent[c] = a.recent[c]
            /\ b.deduped = Append(a.deduped, p)
        BY <2>5, <3>2
      <4>2. ToSet(b.deduped) = ToSet(a.deduped) \cup {p}
        <5> HIDE DEF a, b, p
        <5> QED  BY <2>2, <4>1, ToSetAppend
      <4>3. Rep(n) = Rep(n-1) \cup {p}
        BY <4>2
      <4> HIDE DEF Rep, a, b
      <4>4. Explained(b.recent, Rep(n))
        <5> SUFFICES ASSUME NEW c \in Contents, b.recent[c] # Never
                     PROVE  \E q \in Rep(n), l \in 0..Jitter :
                              air[q].content = c /\ b.recent[c] = air[q].start + l
          BY DEF Explained
        <5>1. CASE c = k
          BY <4>1, <4>3, <5>1
        <5>2. CASE c # k
          BY <2>3, <4>1, <4>3, <5>2 DEF Explained
        <5> QED  BY <5>1, <5>2
      <4> QED  BY <4>3, <4>4
    <3> QED  BY <3>1, <3>2
  <2>7. \A i \in 1..n : packets[i] \in Rep(n)
    <3>1. \A i \in 1..n : i = n \/ i \in 1..n-1
      BY <2>1
    <3> HIDE DEF Rep
    <3> QED  BY <2>3, <2>6, <3>1
  <2> HIDE DEF Rep
  <2> QED  BY <2>1, <2>6, <2>7
<1>6. N \in G
  <2> HIDE DEF G
  <2>1. \A n \in 1..N : n - 1 \in G => n \in G
    BY <1>5
  <2>2. 0..N \subseteq G
    BY <1>2, <1>4, <2>1, NatSetInduction
  <2> QED  BY <1>2, <2>2
<1>7. ToSet(packets) = {packets[i] : i \in 1..N}
  BY ToSetOfSeq DEF N
<1>8. Explained(turn[N].recent, Rep(N)) /\ \A i \in 1..N : packets[i] \in Rep(N)
  BY <1>6
<1> HIDE DEF G
<1> QED  BY <1>1, <1>7, <1>8

LEMMA SwallowStep ==
  ASSUME Apart, FlowInv, SwallowInv, [Next]_vars  PROVE SwallowInv'
<1>1. AirInv /\ ProcInv
  BY DEF FlowInv
<1>2. ASSUME NEW k \in Contents, Transmit(k)  PROVE SwallowInv'
  <2>1. \A p \in OnAir : air'[p] = air[p]
    BY <1>1, <1>2, Transmitted
  <2>2. UNCHANGED <<recent_decodes, decoded, reported>>
    BY <1>2 DEF Transmit, procVars
  <2>3. reported \subseteq OnAir
    BY <1>1 DEF ProcInv
  <2> QED  BY <2>1, <2>2, <2>3 DEF SwallowInv, Explained
<1>3. ASSUME NEW late \in 0..Jitter, Cycle(late)  PROVE SwallowInv'
  <2>1. PICK packets \in Seq(OnAir) : CycleWith(packets, late)
    BY <1>1, <1>3, CycleIs
  <2> DEFINE out == Deduped(packets, late)
             rep == reported \cup ToSet(out.deduped)
  <2>2. /\ recent_decodes' = out.recent /\ reported' = rep
        /\ decoded' = decoded \cup ToSet(packets)
    BY <2>1 DEF CycleWith
  <2>3. Explained(out.recent, rep) /\ ToSet(packets) \subseteq rep
    BY <1>1, LoopReports, Zenon
  <2>4. air' = air
    BY <1>3 DEF Cycle, airVars
  <2> HIDE DEF out
  <2> QED  BY <2>2, <2>3, <2>4 DEF SwallowInv, Explained
<1>4. CASE ProcessorDies
  BY <1>4 DEF ProcessorDies, SwallowInv, Explained, airVars
<1>5. CASE Tick \/ FeedResult \/ ProcessorRestarts \/ Drain \/ GetPackets \/ Reset
           \/ UNCHANGED vars
           \/ (Post /\ UNCHANGED <<airVars, procVars, pipeVars, drainVars, feedVars>>)
  <2>1. UNCHANGED <<air, recent_decodes, decoded, reported>>
    BY <1>5 DEF Tick, FeedResult, ProcessorRestarts, Drain, GetResult, SubmitEntry,
                StoreResult, GetPackets, Reset, vars, airVars, procVars
  <2> QED  BY <2>1 DEF SwallowInv, Explained
<1> QED  BY <1>2, <1>3, <1>4, <1>5 DEF Next, Processor

(* The tolerance that recognises a packet again never makes the processor    *)
(* take a new packet for an old one, if packets of one content rest for      *)
(* longer than it (Apart, src/README.md 624): what is decoded is reported.    *)
THEOREM DecodedIsReported == ASSUME Apart  PROVE Spec => []NothingSwallowed
<1>1. Init => SwallowInv
  BY DEF Init, SwallowInv, Explained
<1>2. FlowInv /\ SwallowInv /\ [Next]_vars => SwallowInv'
  BY SwallowStep, Apart
<1>3. SwallowInv => NothingSwallowed
  BY DEF SwallowInv, NothingSwallowed
<1> QED  BY FlowInitInv, FlowStep, <1>1, <1>2, <1>3, PTL DEF Spec

-----------------------------------------------------------------------------
(* The packets of a sequence of results, joined: what they do when a result  *)
(* enters at the end and leaves at the front.                               *)
Cat(x, y) == x \o y

LEMMA CatAssociative ==
  \A x \in Seq(Entries), y \in Seq(Entries), z \in Seq(Entries) :
    Cat(Cat(x, y), z) = Cat(x, Cat(y, z))
<1>1. \A x \in Seq(Entries), y \in Seq(Entries), z \in Seq(Entries) :
        (x \o y) \o z = x \o (y \o z)
  BY ConcatAssociative, SMTT(60)
<1> QED  BY <1>1 DEF Cat

LEMMA ResultEntries ==
  ASSUME NEW results \in Seq(Results), NEW n \in 1..Len(results)
  PROVE  results[n] \in Results /\ results[n].decode_entries \in Seq(Entries)
<1>1. results[n] \in Results
  BY ElementOfSeq
<1> QED  BY <1>1 DEF Results

JoinedUpTo(f, results) ==
  /\ f[0] = <<>>
  /\ \A n \in 1..Len(results) : f[n] = f[n-1] \o results[n].decode_entries
  /\ Joined(results) = f[Len(results)]

LEMMA JoinedLoop ==
  ASSUME NEW results \in Seq(Results)
  PROVE  \E f \in [0..Len(results) -> Seq(Entries)] : JoinedUpTo(f, results)
<1> DEFINE N == Len(results)
           S == Seq(Entries)
           step == [a \in S \X (1..N) |-> a[1] \o results[a[2]].decode_entries]
           P(f) == f = [n \in 0..N |-> IF n = 0 THEN <<>>
                                       ELSE f[n-1] \o results[n].decode_entries]
<1>1. N \in Nat /\ <<>> \in S
  BY EmptySeq
<1>2. \A s \in S, n \in 1..N : s \o results[n].decode_entries \in S
  BY ResultEntries, ConcatProperties
<1>3. /\ step \in [S \X (1..N) -> S]
      /\ \A s \in S, n \in 1..N : step[<<s, n>>] = s \o results[n].decode_entries
  BY <1>2
<1>4. Joined(results) = (CHOOSE f : P(f))[N]
  BY DEF Joined
<1> HIDE DEF N, step, S
<1>5. PICK g \in [0..N -> S] :
        g[0] = <<>> /\ \A n \in 1..N : g[n] = step[<<g[n-1], n>>]
  <2>2. PICK f \in [0..N -> S] : Follows(f, N, <<>>, step)
    BY <1>1, <1>3, Recursion
  <2> QED  BY <2>2 DEF Follows
<1>6. \A n \in 0..N : g[n] = IF n = 0 THEN <<>> ELSE g[n-1] \o results[n].decode_entries
  <2> SUFFICES ASSUME NEW n \in 0..N, n # 0
               PROVE  g[n] = g[n-1] \o results[n].decode_entries
    BY <1>5
  <2>1. n \in 1..N /\ n - 1 \in 0..N
    BY <1>1
  <2> QED  BY <1>3, <1>5, <2>1
<1>7. P(g)
  BY <1>5, <1>6
<1> DEFINE f == CHOOSE h : P(h)
<1>8. P(f)
  BY <1>7
<1>9. /\ f[0] = <<>> /\ DOMAIN f = 0..N
      /\ \A n \in 1..N : f[n] = f[n-1] \o results[n].decode_entries
  <2> HIDE DEF f
  <2> QED  BY <1>1, <1>8
<1>10. Joined(results) = f[N]
  BY <1>4
<1> HIDE DEF f
<1> DEFINE G == {n \in 0..N : f[n] \in S}
<1>11. 0..N \subseteq G
  <2>1. 0 \in G
    BY <1>1, <1>9
  <2>2. ASSUME NEW n \in 1..N, n - 1 \in G  PROVE n \in G
    <3>1. f[n-1] \in S /\ n \in 0..N
      BY <1>1, <2>2
    <3>2. f[n-1] \o results[n].decode_entries \in S
      BY <1>2, <3>1
    <3>3. f[n] = f[n-1] \o results[n].decode_entries
      BY <1>9
    <3> QED  BY <3>1, <3>2, <3>3
  <2>3. \A n \in 1..N : n - 1 \in G => n \in G
    BY <2>2
  <2> HIDE DEF G
  <2> QED  BY <1>1, <2>1, <2>3, NatSetInduction
<1>12. f \in [0..N -> S]
  <2>1. f = [n \in 0..N |-> f[n]]
    BY <1>8, <1>9 DEF P
  <2> QED  BY <1>11, <2>1
<1> HIDE DEF P, G
<1>13. JoinedUpTo(f, results)
  BY <1>9, <1>10 DEF JoinedUpTo, N
<1> QED  BY <1>12, <1>13 DEF N, S

LEMMA JoinedTyped == ASSUME NEW results \in Seq(Results)  PROVE Joined(results) \in Seq(Entries)
<1>1. PICK f \in [0..Len(results) -> Seq(Entries)] : JoinedUpTo(f, results)
  BY JoinedLoop
<1>2. Len(results) \in 0..Len(results)
  OBVIOUS
<1> QED  BY <1>1, <1>2 DEF JoinedUpTo

LEMMA JoinedEmpty == Joined(<<>>) = <<>>
<1>1. <<>> \in Seq(Results) /\ Len(<<>>) = 0
  BY EmptySeq
<1>2. PICK f \in [0..Len(<<>>) -> Seq(Entries)] : JoinedUpTo(f, <<>>)
  BY <1>1, JoinedLoop
<1> QED  BY <1>1, <1>2 DEF JoinedUpTo

LEMMA JoinedAppend ==
  ASSUME NEW s \in Seq(Results), NEW x \in Results
  PROVE  Joined(Append(s, x)) = Joined(s) \o x.decode_entries
<1> DEFINE t == Append(s, x)
           N == Len(s)
<1>1. /\ t \in Seq(Results) /\ Len(t) = N + 1 /\ N \in Nat
      /\ \A i \in 1..N : t[i] = s[i]
      /\ t[N + 1] = x
  BY AppendProperties
<1>2. PICK f \in [0..Len(s) -> Seq(Entries)] : JoinedUpTo(f, s)
  BY JoinedLoop
<1> HIDE DEF t
<1>3. PICK g \in [0..Len(t) -> Seq(Entries)] : JoinedUpTo(g, t)
  BY <1>1, JoinedLoop
<1> HIDE DEF N
<1> DEFINE G == {n \in 0..N : f[n] = g[n]}
<1>4. /\ f[0] = <<>> /\ \A n \in 1..N : f[n] = f[n-1] \o s[n].decode_entries
      /\ Joined(s) = f[N]
      /\ g[0] = <<>> /\ \A n \in 1..N : g[n] = g[n-1] \o s[n].decode_entries
      /\ Joined(t) = g[N] \o x.decode_entries
  <2>1. Len(t) = N + 1 /\ Len(s) = N /\ \A n \in 1..N : n \in 1..N+1
    BY <1>1 DEF N
  <2>2. N + 1 \in 1..N+1 /\ (N + 1) - 1 = N
    BY <1>1
  <2> QED  BY <1>1, <1>2, <1>3, <2>1, <2>2 DEF JoinedUpTo
<1>5. 0..N \subseteq G
  <2>1. 0 \in G
    BY <1>1, <1>4
  <2>2. ASSUME NEW n \in 1..N, n - 1 \in G  PROVE n \in G
    <3>1. f[n-1] = g[n-1] /\ n \in 0..N
      BY <1>1, <2>2
    <3>2. /\ f[n] = f[n-1] \o s[n].decode_entries
          /\ g[n] = g[n-1] \o s[n].decode_entries
      BY <1>4
    <3> QED  BY <3>1, <3>2
  <2>3. \A n \in 1..N : n - 1 \in G => n \in G
    BY <2>2
  <2> HIDE DEF G
  <2> QED  BY <1>1, <2>1, <2>3, NatSetInduction
<1>6. f[N] = g[N]
  BY <1>1, <1>5
<1> QED  BY <1>4, <1>6 DEF t

LEMMA JoinedHead ==
  ASSUME NEW s \in Seq(Results), s # <<>>
  PROVE  Joined(s) = Head(s).decode_entries \o Joined(Tail(s))
<1> DEFINE t == Tail(s)
           h == Head(s).decode_entries
           N == Len(t)
<1>1. /\ t \in Seq(Results) /\ Len(s) = N + 1 /\ N \in Nat /\ Head(s) \in Results
      /\ \A i \in 1..N : t[i] = s[i+1]
  BY HeadTailProperties
<1>2. Head(s) = s[1] /\ h \in Seq(Entries)
  BY <1>1 DEF Results
<1>3. PICK f \in [0..Len(s) -> Seq(Entries)] : JoinedUpTo(f, s)
  BY JoinedLoop
<1> HIDE DEF t
<1>4. PICK g \in [0..Len(t) -> Seq(Entries)] : JoinedUpTo(g, t)
  BY <1>1, JoinedLoop
<1>5. \A n \in 0..N : g[n] \in Seq(Entries) /\ n \in Nat
  BY <1>4
<1> HIDE DEF N
<1> DEFINE G == {n \in 0..N : f[n+1] = h \o g[n]}
<1>6. /\ f[1] = <<>> \o h
      /\ \A n \in 1..N : f[n+1] = f[n] \o t[n].decode_entries
      /\ Joined(s) = f[N+1]
      /\ g[0] = <<>> /\ \A n \in 1..N : g[n] = g[n-1] \o t[n].decode_entries
      /\ Joined(t) = g[N]
  <2>1. Len(s) = N + 1 /\ Len(t) = N
    BY <1>1 DEF N
  <2>2. 1 \in 1..N+1 /\ 1 - 1 = 0
    BY <1>1
  <2>3. \A n \in 1..N : n + 1 \in 1..N+1 /\ (n + 1) - 1 = n
    BY <1>1
  <2>4. f[1] = <<>> \o h
    BY <1>2, <1>3, <2>1, <2>2 DEF JoinedUpTo
  <2>5. ASSUME NEW n \in 1..N  PROVE f[n+1] = f[n] \o t[n].decode_entries
    <3>1. t[n] = s[n+1]
      BY <1>1, <2>1
    <3>2. f[n+1] = f[(n+1)-1] \o s[n+1].decode_entries
      BY <1>3, <2>1, <2>3 DEF JoinedUpTo
    <3> QED  BY <2>3, <3>1, <3>2
  <2> QED  BY <1>3, <1>4, <2>1, <2>4, <2>5 DEF JoinedUpTo
<1> HIDE DEF h
<1>7. 0..N \subseteq G
  <2>1. 0 \in G
    <3>1. <<>> \o h = h /\ h \o <<>> = h
      BY <1>2, ConcatEmptySeq
    <3>2. f[1] = h \o g[0]
      BY <1>6, <3>1
    <3> QED  BY <1>1, <3>2
  <2>2. ASSUME NEW n \in 1..N, n - 1 \in G  PROVE n \in G
    <3>1. f[n] = h \o g[n-1]
      <4>1. f[(n-1)+1] = h \o g[n-1]
        BY <2>2
      <4>2. (n-1)+1 = n
        BY <1>1
      <4> QED  BY <4>1, <4>2
    <3>2. t[n].decode_entries \in Seq(Entries)
      BY <1>1, ResultEntries DEF N
    <3>3. n - 1 \in 0..N /\ n \in 0..N /\ n \in Nat
      BY <1>1
    <3>4. g[n-1] \in Seq(Entries)
      BY <1>5, <3>3
    <3>5. g[n] = g[n-1] \o t[n].decode_entries /\ f[n+1] = f[n] \o t[n].decode_entries
      BY <1>6
    <3> DEFINE a == g[n-1]
               b == t[n].decode_entries
    <3>6. (h \o a) \o b = h \o (a \o b)
      <4> HIDE DEF a, b
      <4>1. a \in Seq(Entries) /\ b \in Seq(Entries)
        BY <3>2, <3>4 DEF a, b
      <4>2. Cat(Cat(h, a), b) = Cat(h, Cat(a, b))
        BY ONLY <1>2, <4>1, CatAssociative
      <4> QED  BY ONLY <4>2 DEF Cat
    <3>7. f[n+1] = h \o g[n]
      <4> HIDE DEF b
      <4>1. g[n] = a \o b /\ f[n+1] = f[n] \o b
        BY <3>5 DEF b
      <4>2. f[n+1] = (h \o a) \o b
        BY <3>1, <4>1
      <4> HIDE DEF a
      <4> QED  BY <3>6, <4>1, <4>2
    <3> QED  BY <3>3, <3>7
  <2>3. \A n \in 1..N : n - 1 \in G => n \in G
    BY <2>2
  <2> HIDE DEF G
  <2> QED  BY <1>1, <2>1, <2>3, NatSetInduction
<1>8. f[N+1] = h \o g[N]
  BY <1>1, <1>7
<1> QED  BY <1>6, <1>8 DEF t, h

-----------------------------------------------------------------------------
(* What each step does to the packets on their way.                          *)
Chained(a, b, c, d) == a \o b \o c \o d
Nested(a, b, c, d) == a \o (b \o (c \o d))

LEMMA Regroup ==
  ASSUME NEW a \in Seq(Entries), NEW b \in Seq(Entries), NEW c \in Seq(Entries),
         NEW d \in Seq(Entries)
  PROVE  Chained(a, b, c, d) = Nested(a, b, c, d)
<1>1. a \o b \in Seq(Entries) /\ c \o d \in Seq(Entries)
  BY ConcatProperties
<1>2. ((a \o b) \o c) \o d = (a \o b) \o (c \o d)
  <2> DEFINE e == a \o b
  <2>1. e \in Seq(Entries) /\ c \in Seq(Entries) /\ d \in Seq(Entries)
    BY <1>1
  <2> HIDE DEF e
  <2>2. (e \o c) \o d = e \o (c \o d)
    <3>1. Cat(Cat(e, c), d) = Cat(e, Cat(c, d))
      BY ONLY <2>1, CatAssociative
    <3> QED  BY ONLY <3>1 DEF Cat
  <2> QED  BY <2>2 DEF e
<1>3. (a \o b) \o (c \o d) = a \o (b \o (c \o d))
  <2> DEFINE e == c \o d
  <2>1. a \in Seq(Entries) /\ b \in Seq(Entries) /\ e \in Seq(Entries)
    BY <1>1
  <2> HIDE DEF e
  <2>2. (a \o b) \o e = a \o (b \o e)
    <3>1. Cat(Cat(a, b), e) = Cat(a, Cat(b, e))
      BY ONLY <2>1, CatAssociative
    <3> QED  BY ONLY <3>1 DEF Cat
  <2> QED  BY <2>2 DEF e
<1> QED  BY <1>2, <1>3 DEF Chained, Nested

LEMMA RegroupTyped ==
  ASSUME NEW S, NEW a \in Seq(S), NEW b \in Seq(S), NEW c \in Seq(S), NEW d \in Seq(S)
  PROVE  /\ a \o b \o c \o d \in Seq(S) /\ a \o b \o c \in Seq(S)
         /\ b \o (c \o d) \in Seq(S) /\ c \o d \in Seq(S)
<1>1. a \o b \in Seq(S) /\ c \o d \in Seq(S) /\ a \o b \o c \in Seq(S)
  BY ConcatProperties
<1>2. b \o (c \o d) \in Seq(S) /\ (a \o b \o c) \o d \in Seq(S)
  BY <1>1, ConcatProperties
<1> QED  BY <1>1, <1>2

LEMMA ConcatSubSeqs ==
  ASSUME NEW S, NEW s \in Seq(S), NEW t \in Seq(S)
  PROVE  /\ SubSeq(s \o t, 1, Len(s)) = s
         /\ SubSeq(s \o t, Len(s) + 1, Len(s \o t)) = t
         /\ s \o t \in Seq(S) /\ Len(s \o t) = Len(s) + Len(t)
<1> DEFINE u == s \o t
           m == Len(s)
           n == Len(t)
<1>1. /\ u \in Seq(S) /\ Len(u) = m + n /\ m \in Nat /\ n \in Nat
      /\ \A i \in 1..m + n : u[i] = IF i <= m THEN s[i] ELSE t[i - m]
  BY ConcatProperties
<1> HIDE DEF u
<1>2. \A i \in 1..m + n : u[i] \in S
  BY <1>1, ElementOfSeq
<1>3. SubSeq(u, 1, m) = s
  <2>1. \A i \in 1..m : u[i] \in S
    BY <1>1, <1>2
  <2>2. /\ SubSeq(u, 1, m) \in Seq(S)
        /\ Len(SubSeq(u, 1, m)) = IF 1 <= m THEN m - 1 + 1 ELSE 0
        /\ \A i \in 1..m - 1 + 1 : SubSeq(u, 1, m)[i] = u[1 + i - 1]
    BY <1>1, <2>1, SubSeqProperties
  <2>3. Len(SubSeq(u, 1, m)) = m
    BY <1>1, <2>2
  <2>4. \A i \in 1..m : SubSeq(u, 1, m)[i] = s[i]
    BY <1>1, <2>2
  <2> QED  BY <2>2, <2>3, <2>4, SeqEqual
<1>4. SubSeq(u, m + 1, m + n) = t
  <2>1. \A i \in m + 1..m + n : u[i] \in S
    BY <1>1, <1>2
  <2>2. /\ SubSeq(u, m + 1, m + n) \in Seq(S)
        /\ Len(SubSeq(u, m + 1, m + n))
             = IF m + 1 <= m + n THEN (m + n) - (m + 1) + 1 ELSE 0
        /\ \A i \in 1..(m + n) - (m + 1) + 1 :
             SubSeq(u, m + 1, m + n)[i] = u[(m + 1) + i - 1]
    BY <1>1, <2>1, SubSeqProperties
  <2>3. Len(SubSeq(u, m + 1, m + n)) = n
    BY <1>1, <2>2
  <2>4. \A i \in 1..n : SubSeq(u, m + 1, m + n)[i] = t[i]
    <3> SUFFICES ASSUME NEW i \in 1..n  PROVE SubSeq(u, m + 1, m + n)[i] = t[i]
      OBVIOUS
    <3>1. /\ (m + n) - (m + 1) + 1 = n /\ (m + 1) + i - 1 = m + i /\ m + i \in 1..m + n
          /\ ~(m + i <= m) /\ (m + i) - m = i
      BY <1>1
    <3> QED  BY <1>1, <2>2, <3>1
  <2> QED  BY <2>2, <2>3, <2>4, SeqEqual
<1> QED  BY <1>1, <1>3, <1>4 DEF u

(* What is cut off is the oldest, and only what is above the cap.            *)
LEMMA NewestIsSuffix ==
  ASSUME NEW S, NEW s \in Seq(S), NEW n \in Nat
  PROVE  \E x \in Seq(S) : s = x \o Newest(s, n) /\ (x = <<>> \/ Len(Newest(s, n)) = n)
<1>1. Len(s) \in Nat /\ <<>> \in Seq(S)
  BY EmptySeq
<1>2. CASE Len(s) <= n
  <2>1. Newest(s, n) = s /\ <<>> \o s = s
    BY <1>2, ConcatEmptySeq DEF Newest
  <2> QED  BY <1>1, <2>1
<1>3. CASE Len(s) > n
  <2> DEFINE k == Len(s) - n
             x == SubSeq(s, 1, k)
             y == SubSeq(s, k + 1, Len(s))
  <2>1. k \in 1 - 1..Len(s) /\ 1 \in 1..Len(s) + 1 /\ Len(s) \in k..Len(s) /\ k \in Nat
    BY <1>1, <1>3
  <2>2. x \o y = SubSeq(s, 1, Len(s)) /\ SubSeq(s, 1, Len(s)) = s
    BY <2>1, ConcatAdjacentSubSeq, SubSeqFull
  <2>3. \A i \in 1..Len(s) : s[i] \in S
    BY ElementOfSeq
  <2>4. x \in Seq(S)
    BY <1>1, <2>1, <2>3, SubSeqProperties
  <2>5. /\ Newest(s, n) = y
        /\ Len(y) = IF k + 1 <= Len(s) THEN Len(s) - (k + 1) + 1 ELSE 0
    <3>1. \A i \in k + 1..Len(s) : s[i] \in S
      BY <1>1, <2>1, <2>3
    <3>2. k + 1 \in Int /\ Len(s) \in Int
      BY <1>1, <2>1
    <3>3. Newest(s, n) = y
      BY <1>1, <1>3 DEF Newest
    <3> QED  BY <3>1, <3>2, <3>3, SubSeqProperties
  <2>6. Len(y) = n
    <3> HIDE DEF y
    <3> QED  BY <1>1, <2>1, <2>5
  <2> HIDE DEF x, y
  <2> QED  BY <2>2, <2>4, <2>5, <2>6
<1> QED  BY <1>1, <1>2, <1>3

(* The four stations of a packet: the feed, the result the drain thread has, *)
(* the pipe, the feeder thread.                                             *)
LEMMA Shape ==
  ASSUME NEW feed \in Seq(Entries), NEW res \in Results,
         NEW queue \in Seq(Results), NEW held \in Seq(Results)
  PROVE  LET a == feed
             b == res.decode_entries
             c == Joined(queue)
             d == Joined(held)
         IN  /\ a \in Seq(Entries) /\ b \in Seq(Entries) /\ c \in Seq(Entries) /\ d \in Seq(Entries)
             /\ a \o b \o c \o d = a \o (b \o (c \o d))
             /\ a \o b \o c \o d \in Seq(Entries)
<1> DEFINE a == feed
           b == res.decode_entries
           c == Joined(queue)
           d == Joined(held)
<1>1. a \in Seq(Entries) /\ b \in Seq(Entries) /\ c \in Seq(Entries) /\ d \in Seq(Entries)
  BY JoinedTyped DEF Results
<1> HIDE DEF a, b, c, d
<1>2. a \o b \o c \o d = a \o (b \o (c \o d))
  <2>1. Chained(a, b, c, d) = Nested(a, b, c, d)
    BY <1>1, Regroup
  <2> QED  BY <2>1 DEF Chained, Nested
<1>3. a \o b \o c \o d \in Seq(Entries)
  BY <1>1, RegroupTyped
<1> QED  BY <1>1, <1>2, <1>3 DEF a, b, c, d

LEMMA Stations ==
  ASSUME FlowInv
  PROVE  LET a == packet_feed
             b == r.decode_entries
             c == Joined(result_queue)
             d == Joined(unwritten)
         IN  /\ a \in Seq(Entries) /\ b \in Seq(Entries) /\ c \in Seq(Entries) /\ d \in Seq(Entries)
             /\ InPipeline = a \o b \o c \o d /\ InPipeline = a \o (b \o (c \o d))
             /\ InPipeline \in Seq(Entries) /\ given \in Seq(Entries)
             /\ result_queue \in Seq(Results) /\ unwritten \in Seq(Results)
<1>1. /\ packet_feed \in Seq(Entries) /\ r \in Results
      /\ result_queue \in Seq(Results) /\ unwritten \in Seq(Results) /\ given \in Seq(Entries)
  BY DEF FlowInv, FeedInv, DrainInv, PipeInv
<1> QED  BY <1>1, Shape, Zenon DEF InPipeline

LEMMA StationsNext ==
  ASSUME FlowInv'
  PROVE  LET a == packet_feed'
             b == r'.decode_entries
             c == Joined(result_queue')
             d == Joined(unwritten')
         IN  /\ InPipeline' = a \o b \o c \o d /\ InPipeline' = a \o (b \o (c \o d))
             /\ InPipeline' \in Seq(Entries)
<1>1. /\ packet_feed' \in Seq(Entries) /\ r' \in Results
      /\ result_queue' \in Seq(Results) /\ unwritten' \in Seq(Results)
  BY DEF FlowInv, FeedInv, DrainInv, PipeInv
<1>2. InPipeline' = packet_feed' \o r'.decode_entries \o Joined(result_queue') \o Joined(unwritten')
  BY DEF InPipeline
<1> QED  BY <1>1, <1>2, Shape, Zenon

(* A cycle adds what it reports at the end.                                  *)
LEMMA CycleAdds ==
  ASSUME FlowInv, NEW late \in 0..Jitter, Cycle(late),
         NEW packets \in Seq(OnAir), CycleWith(packets, late)
  PROVE  /\ Deduped(packets, late).deduped \in Seq(Entries)
         /\ InPipeline' = InPipeline \o Deduped(packets, late).deduped
         /\ given' = given
<1> DEFINE new == Deduped(packets, late).deduped
           res == [decode_entries |-> new, chipset_stats |-> chips']
           front == packet_feed \o r.decode_entries \o Joined(result_queue)
<1>1. new \in Seq(OnAir) /\ OnAir \subseteq Entries
  <2>1. AirInv /\ ProcInv
    BY DEF FlowInv
  <2>2. PICK turn \in [0..Len(packets) -> Accs] : Deduped(packets, late) = turn[Len(packets)]
    BY <2>1, DedupedLoop
  <2>3. Deduped(packets, late) \in Accs
    BY <2>2
  <2> QED  BY <2>1, <2>3 DEF Accs, AirInv
<1>2. new \in Seq(Entries)
  BY <1>1, SeqMonotonic
<1>3. chips' \in Statistics
  BY CycleFlow DEF FlowInv, ProcInv
<1>4. unwritten' = Append(unwritten, res)
  BY DEF CycleWith
<1>5. UNCHANGED <<packet_feed, r, result_queue, given>>
  BY DEF Cycle, drainVars, feedVars
<1> HIDE DEF new
<1>6. res \in Results /\ res.decode_entries = new
  BY <1>2, <1>3 DEF Results
<1> HIDE DEF res
<1>7. Joined(unwritten') = Joined(unwritten) \o new
  <2>1. unwritten \in Seq(Results)
    BY Stations
  <2> QED  BY <1>4, <1>6, <2>1, JoinedAppend
<1>8. InPipeline' = front \o Joined(unwritten') /\ InPipeline = front \o Joined(unwritten)
  BY <1>5 DEF InPipeline
<1>9. front \in Seq(Entries) /\ Joined(unwritten) \in Seq(Entries)
  BY Stations, RegroupTyped, Zenon
<1> HIDE DEF front
<1>10. front \o (Joined(unwritten) \o new) = (front \o Joined(unwritten)) \o new
  <2> DEFINE d == Joined(unwritten)
  <2>1. front \in Seq(Entries) /\ d \in Seq(Entries) /\ new \in Seq(Entries)
    BY <1>2, <1>9
  <2> HIDE DEF d
  <2>2. front \o (d \o new) = (front \o d) \o new
    <3>1. Cat(front, Cat(d, new)) = Cat(Cat(front, d), new)
      BY ONLY <2>1, CatAssociative
    <3> QED  BY ONLY <3>1 DEF Cat
  <2> QED  BY <2>2 DEF d
<1> QED  BY <1>2, <1>5, <1>7, <1>8, <1>10 DEF new

(* With the processor go the packets its feeder thread had not written.      *)
LEMMA DeathLoses ==
  ASSUME FlowInv, ProcessorDies
  PROVE  /\ InPipeline' \in Seq(Entries) /\ given' = given
         /\ \E x \in Seq(Entries) : InPipeline = InPipeline' \o x
<1> DEFINE front == packet_feed \o r.decode_entries \o Joined(result_queue)
<1>1. /\ UNCHANGED <<packet_feed, r, result_queue, given>> /\ unwritten' = <<>>
  BY DEF ProcessorDies, drainVars, feedVars
<1>2. InPipeline' = front \o Joined(<<>>) /\ InPipeline = front \o Joined(unwritten)
  BY <1>1 DEF InPipeline
<1>3. front \in Seq(Entries) /\ Joined(unwritten) \in Seq(Entries)
  BY Stations, RegroupTyped, Zenon
<1> HIDE DEF front
<1>4. InPipeline' = front
  BY <1>2, <1>3, JoinedEmpty, ConcatEmptySeq
<1> QED  BY <1>1, <1>2, <1>3, <1>4

(* The feed keeps the newest packets.                                       *)
LEMMA StoreDrops ==
  ASSUME FlowInv, StoreResult
  PROVE  /\ InPipeline' \in Seq(Entries) /\ given' = given
         /\ \E x \in Seq(Entries) : /\ InPipeline = x \o InPipeline'
                                    /\ x = <<>> \/ Len(InPipeline') >= FeedMax
<1> DEFINE a == packet_feed
           b == r.decode_entries
           rest == Joined(result_queue) \o Joined(unwritten)
           kept == Newest(a \o b, FeedMax)
<1>1. /\ packet_feed' = kept /\ r' = NoResult
      /\ UNCHANGED <<result_queue, unwritten, given>>
  BY DEF StoreResult, pipeVars
<1>2. a \in Seq(Entries) /\ b \in Seq(Entries) /\ rest \in Seq(Entries)
  BY Stations, ConcatProperties, Zenon
<1>3. InPipeline = a \o (b \o rest)
  BY Stations, Zenon
<1>4. FlowInv'
  BY DrainFlow DEF Drain
<1>5. /\ InPipeline' = kept \o (<<>> \o rest) /\ InPipeline' \in Seq(Entries)
  <2>1. /\ InPipeline' = packet_feed' \o (r'.decode_entries \o
                            (Joined(result_queue') \o Joined(unwritten')))
        /\ InPipeline' \in Seq(Entries)
    BY <1>4, StationsNext, Zenon
  <2>2. r'.decode_entries = <<>>
    BY <1>1 DEF NoResult
  <2> QED  BY <1>1, <2>1, <2>2
<1> HIDE DEF a, b, rest
<1>6. a \o b \in Seq(Entries) /\ FeedMax \in Nat
  BY <1>2, ConcatProperties, FlowNumbers
<1>7. PICK x \in Seq(Entries) :
        a \o b = x \o kept /\ (x = <<>> \/ Len(kept) = FeedMax)
  BY <1>6, NewestIsSuffix
<1>8. kept \in Seq(Entries)
  BY <1>6, NewestShort
<1> HIDE DEF kept
<1>9. InPipeline' = kept \o rest /\ Len(InPipeline') >= Len(kept)
  <2>1. <<>> \o rest = rest
    BY <1>2, ConcatEmptySeq
  <2>2. Len(kept \o rest) = Len(kept) + Len(rest) /\ Len(kept) \in Nat /\ Len(rest) \in Nat
    BY <1>2, <1>8, ConcatProperties
  <2> QED  BY <1>5, <2>1, <2>2
<1>10. InPipeline = x \o InPipeline'
  <2>1. a \o (b \o rest) = (a \o b) \o rest
    <3>1. a \in Seq(Entries) /\ b \in Seq(Entries) /\ rest \in Seq(Entries)
      BY <1>2
    <3>2. Cat(a, Cat(b, rest)) = Cat(Cat(a, b), rest)
      BY ONLY <3>1, CatAssociative
    <3> QED  BY ONLY <3>2 DEF Cat
  <2>2. (x \o kept) \o rest = x \o (kept \o rest)
    <3>1. x \in Seq(Entries) /\ kept \in Seq(Entries) /\ rest \in Seq(Entries)
      BY <1>2, <1>7, <1>8
    <3>2. Cat(Cat(x, kept), rest) = Cat(x, Cat(kept, rest))
      BY ONLY <3>1, CatAssociative
    <3> QED  BY ONLY <3>2 DEF Cat
  <2> QED  BY <1>3, <1>7, <1>9, <2>1, <2>2
<1>11. x = <<>> \/ Len(InPipeline') >= FeedMax
  BY <1>7, <1>9
<1> QED  BY <1>1, <1>5, <1>10, <1>11

(* A reader takes all that is in the feed.                                  *)
LEMMA ReaderTakes ==
  ASSUME FlowInv, GetPackets
  PROVE  /\ InPipeline' \in Seq(Entries)
         /\ \E x \in Seq(Entries) : InPipeline = x \o InPipeline' /\ given' = given \o x
<1> DEFINE a == packet_feed
           rest == r.decode_entries \o (Joined(result_queue) \o Joined(unwritten))
<1>1. /\ given' = given \o a /\ packet_feed' = <<>>
      /\ UNCHANGED <<r, result_queue, unwritten>>
  BY DEF GetPackets, drainVars, pipeVars
<1>2. InPipeline = a \o rest /\ a \in Seq(Entries)
  BY Stations, Zenon
<1>3. rest \in Seq(Entries)
  BY Stations, RegroupTyped, Zenon
<1>4. FlowInv'
  BY FlowStep DEF Next
<1>5. InPipeline' = <<>> \o rest
  <2>1. InPipeline' = packet_feed' \o (r'.decode_entries \o
                            (Joined(result_queue') \o Joined(unwritten')))
    BY <1>4, StationsNext, Zenon
  <2> QED  BY <1>1, <2>1
<1> HIDE DEF a, rest
<1>6. InPipeline' = rest
  BY <1>3, <1>5, ConcatEmptySeq
<1> QED  BY <1>1, <1>2, <1>3, <1>6

(* No other step adds a packet, loses one or changes the order.              *)
LEMMA PipeKept ==
  ASSUME FlowInv,
         \/ Tick \/ \E k \in Contents : Transmit(k)
         \/ FeedResult \/ ProcessorRestarts \/ GetResult \/ SubmitEntry \/ Reset
         \/ Post /\ UNCHANGED <<airVars, procVars, pipeVars, drainVars, feedVars>>
         \/ UNCHANGED vars
  PROVE  InPipeline' = InPipeline /\ given' = given
<1> DEFINE a == packet_feed
           b == r.decode_entries
           c == Joined(result_queue)
           d == Joined(unwritten)
<1>1. /\ a \in Seq(Entries) /\ b \in Seq(Entries) /\ c \in Seq(Entries) /\ d \in Seq(Entries)
      /\ InPipeline = a \o (b \o (c \o d))
      /\ result_queue \in Seq(Results) /\ unwritten \in Seq(Results)
  BY Stations, Zenon
<1>2. CASE FeedResult
  <2> DEFINE h == Head(unwritten)
             c2 == Joined(result_queue')
             d2 == Joined(unwritten')
  <2>1. /\ unwritten # <<>> /\ result_queue' = Append(result_queue, h)
        /\ unwritten' = Tail(unwritten) /\ UNCHANGED <<packet_feed, r, given>>
    BY <1>2 DEF FeedResult, drainVars, feedVars
  <2>2. h \in Results /\ unwritten' \in Seq(Results)
    BY <1>1, <2>1, HeadTailProperties
  <2>3. h.decode_entries \in Seq(Entries)
    BY <2>2 DEF Results
  <2>4. c2 = c \o h.decode_entries
    <3> HIDE DEF h
    <3> QED  BY <1>1, <2>1, <2>2, JoinedAppend
  <2>5. d = h.decode_entries \o d2
    BY <1>1, <2>1, JoinedHead
  <2>6. d2 \in Seq(Entries)
    BY <2>2, JoinedTyped
  <2>7. InPipeline' = a \o b \o c2 \o d2
    BY <2>1 DEF InPipeline
  <2> HIDE DEF a, b, c, d, c2, d2, h
  <2> DEFINE e == h.decode_entries
  <2>8. e \in Seq(Entries) /\ c2 = c \o e /\ d = e \o d2
    BY <2>3, <2>4, <2>5
  <2> HIDE DEF e
  <2>9. c2 \in Seq(Entries)
    BY <1>1, <2>8, ConcatProperties
  <2>10. a \o b \o c2 \o d2 = a \o (b \o (c2 \o d2))
    <3>1. /\ a \in Seq(Entries) /\ b \in Seq(Entries) /\ c2 \in Seq(Entries)
          /\ d2 \in Seq(Entries)
      BY <1>1, <2>6, <2>9
    <3>2. Chained(a, b, c2, d2) = Nested(a, b, c2, d2)
      BY <3>1, Regroup
    <3> QED  BY <3>2 DEF Chained, Nested
  <2>11. (c \o e) \o d2 = c \o (e \o d2)
    <3>1. c \in Seq(Entries) /\ e \in Seq(Entries) /\ d2 \in Seq(Entries)
      BY <1>1, <2>6, <2>8
    <3>2. Cat(Cat(c, e), d2) = Cat(c, Cat(e, d2))
      BY ONLY <3>1, CatAssociative
    <3> QED  BY ONLY <3>2 DEF Cat
  <2> QED  BY <1>1, <2>1, <2>7, <2>8, <2>10, <2>11
<1>3. CASE GetResult
  <2> DEFINE h == Head(result_queue)
             b2 == r'.decode_entries
             c2 == Joined(result_queue')
  <2>1. /\ next_entry = 0 /\ result_queue # <<>> /\ r' = h
        /\ result_queue' = Tail(result_queue) /\ UNCHANGED <<packet_feed, unwritten, given>>
    BY <1>3 DEF GetResult, feedVars
  <2>2. b = <<>>
    BY <2>1 DEF FlowInv, DrainInv, NoResult
  <2>3. h \in Results /\ result_queue' \in Seq(Results)
    BY <1>1, <2>1, HeadTailProperties
  <2>4. b2 \in Seq(Entries)
    BY <2>1, <2>3 DEF Results
  <2>5. c = b2 \o c2
    BY <1>1, <2>1, JoinedHead
  <2>6. c2 \in Seq(Entries)
    BY <2>3, JoinedTyped
  <2>7. InPipeline' = a \o b2 \o c2 \o d
    BY <2>1 DEF InPipeline
  <2> HIDE DEF a, b, c, d, b2, c2, h
  <2>8. a \o b2 \o c2 \o d = a \o (b2 \o (c2 \o d))
    <3>1. /\ a \in Seq(Entries) /\ b2 \in Seq(Entries) /\ c2 \in Seq(Entries)
          /\ d \in Seq(Entries)
      BY <1>1, <2>4, <2>6
    <3>2. Chained(a, b2, c2, d) = Nested(a, b2, c2, d)
      BY <3>1, Regroup
    <3> QED  BY <3>2 DEF Chained, Nested
  <2>9. (b2 \o c2) \o d = b2 \o (c2 \o d)
    <3>1. b2 \in Seq(Entries) /\ c2 \in Seq(Entries) /\ d \in Seq(Entries)
      BY <1>1, <2>4, <2>6
    <3>2. Cat(Cat(b2, c2), d) = Cat(b2, Cat(c2, d))
      BY ONLY <3>1, CatAssociative
    <3> QED  BY ONLY <3>2 DEF Cat
  <2>10. c \o d \in Seq(Entries)
    BY <1>1, ConcatProperties
  <2>11. b \o (c \o d) = c \o d
    BY <2>2, <2>10, ConcatEmptySeq
  <2> QED  BY <1>1, <2>1, <2>5, <2>7, <2>8, <2>9, <2>11
<1>4. CASE \/ Tick \/ \E k \in Contents : Transmit(k)
           \/ ProcessorRestarts \/ SubmitEntry \/ Reset
           \/ Post /\ UNCHANGED <<airVars, procVars, pipeVars, drainVars, feedVars>>
           \/ UNCHANGED vars
  <2>1. UNCHANGED <<packet_feed, r, result_queue, unwritten, given>>
    BY <1>4 DEF Tick, Transmit, ProcessorRestarts, SubmitEntry, Reset, vars,
                pipeVars, drainVars, feedVars
  <2> QED  BY <2>1 DEF InPipeline
<1> QED  BY <1>2, <1>3, <1>4

-----------------------------------------------------------------------------
(* Feeder thread, pipe, drain thread and feed are one queue of packets.      *)
LEMMA FeedStep == ASSUME FlowInv, [Next]_vars  PROVE [F!Next]_(F!vars)
<1> DEFINE w == InPipeline
           v == InPipeline'
<1>1. w \in Seq(Entries) /\ Len(w) \in Nat
  BY Stations
<1>2. CASE v = w /\ given' = given
  BY <1>2 DEF F!vars
<1>3. ASSUME NEW x \in Seq(Entries), v = w \o x, given' = given  PROVE F!Next
  <2> HIDE DEF w, v
  <2>1. /\ SubSeq(v, 1, Len(w)) = w /\ v \in Seq(Entries) /\ Len(v) = Len(w) + Len(x)
    BY <1>1, <1>3, ConcatSubSeqs
  <2>2. Len(v) >= Len(w)
    BY <1>1, <2>1
  <2> QED  BY <1>3, <2>1, <2>2 DEF w, v, F!Next, F!Decode
<1>4. ASSUME NEW x \in Seq(Entries), v \in Seq(Entries), w = v \o x, given' = given
      PROVE  F!Next
  <2> HIDE DEF w, v
  <2>1. SubSeq(w, 1, Len(v)) = v /\ Len(w) = Len(v) + Len(x)
    BY <1>4, ConcatSubSeqs
  <2>2. Len(v) \in 0..Len(w)
    BY <1>4, <2>1
  <2> QED  BY <1>4, <2>1, <2>2 DEF w, v, F!Next, F!LoseNewest
<1>5. ASSUME NEW x \in Seq(Entries), v \in Seq(Entries), w = x \o v
      PROVE  /\ x = SubSeq(w, 1, Len(x)) /\ v = SubSeq(w, Len(x) + 1, Len(w))
             /\ Len(x) \in 0..Len(w) /\ Len(w) = Len(x) + Len(v)
  <2> HIDE DEF w, v
  <2>1. /\ SubSeq(w, 1, Len(x)) = x /\ SubSeq(w, Len(x) + 1, Len(w)) = v
        /\ Len(w) = Len(x) + Len(v)
    BY <1>5, ConcatSubSeqs
  <2> QED  BY <1>5, <2>1
<1>6. ASSUME NEW x \in Seq(Entries), v \in Seq(Entries), w = x \o v, given' = given \o x
      PROVE  F!Next
  <2>1. /\ x = SubSeq(w, 1, Len(x)) /\ v = SubSeq(w, Len(x) + 1, Len(w))
        /\ Len(x) \in 0..Len(w)
    BY <1>5, <1>6
  <2>2. given' = given \o SubSeq(w, 1, Len(x))
    BY <1>6, <2>1
  <2> QED  BY <2>1, <2>2, Zenon DEF F!Next, F!HandOut
<1>7. ASSUME NEW x \in Seq(Entries), v \in Seq(Entries), w = x \o v, given' = given,
             x = <<>> \/ Len(v) >= FeedMax
      PROVE  F!Next \/ v = w
  <2>1. CASE x = <<>>
    <3> HIDE DEF w, v
    <3>1. w = v
      BY <1>7, <2>1, ConcatEmptySeq
    <3> QED  BY <3>1 DEF w, v
  <2>2. CASE x # <<>>
    <3>1. /\ v = SubSeq(w, Len(x) + 1, Len(w)) /\ Len(w) = Len(x) + Len(v)
      BY <1>5, <1>7
    <3>2. Len(x) \in 1..Len(w) - FeedMax
      <4> HIDE DEF w, v
      <4>1. Len(x) \in Nat \ {0} /\ Len(v) \in Nat /\ FeedMax \in Nat
        BY <1>7, <2>2, EmptySeq, FlowNumbers
      <4> QED  BY <1>7, <2>2, <3>1, <4>1
    <3> QED  BY <1>7, <3>1, <3>2 DEF F!Next, F!DropOldest
  <2> QED  BY <2>1, <2>2
<1>8. CASE ProcessorDies
  <2>1. PICK x \in Seq(Entries) : w = v \o x
    BY <1>8, DeathLoses
  <2>2. v \in Seq(Entries) /\ given' = given
    BY <1>8, DeathLoses
  <2> QED  BY <1>4, <2>1, <2>2
<1>9. CASE \E late \in 0..Jitter : Cycle(late)
  <2>1. PICK late \in 0..Jitter : Cycle(late)
    BY <1>9
  <2>2. PICK packets \in Seq(OnAir) : CycleWith(packets, late)
    BY <2>1, CycleIs DEF FlowInv
  <2>3. /\ Deduped(packets, late).deduped \in Seq(Entries) /\ given' = given
        /\ v = w \o Deduped(packets, late).deduped
    BY <2>1, <2>2, CycleAdds
  <2> QED  BY <1>3, <2>3
<1>10. CASE StoreResult
  <2>1. PICK x \in Seq(Entries) : w = x \o v /\ (x = <<>> \/ Len(v) >= FeedMax)
    BY <1>10, StoreDrops
  <2>2. v \in Seq(Entries) /\ given' = given
    BY <1>10, StoreDrops
  <2> QED  BY <1>2, <1>7, <2>1, <2>2
<1>11. CASE GetPackets
  <2>1. PICK x \in Seq(Entries) : w = x \o v /\ given' = given \o x
    BY <1>11, ReaderTakes
  <2>2. v \in Seq(Entries)
    BY <1>11, ReaderTakes
  <2> QED  BY <1>6, <2>1, <2>2
<1>12. CASE \/ Tick \/ \E k \in Contents : Transmit(k)
            \/ FeedResult \/ ProcessorRestarts \/ GetResult \/ SubmitEntry \/ Reset
            \/ Post /\ UNCHANGED <<airVars, procVars, pipeVars, drainVars, feedVars>>
            \/ UNCHANGED vars
  BY <1>2, <1>12, PipeKept
<1> QED  BY <1>8, <1>9, <1>10, <1>11, <1>12 DEF Next, Processor, Drain

(* Readers of the feed see one queue: packets come out in the order they     *)
(* were reported, each of them once; some are lost at the ends only, the      *)
(* oldest above the cap and the newest when the processor dies.             *)
THEOREM FeedRefined == Spec => ImplementsFeed
<1>1. Init => F!Init
  <2> SUFFICES ASSUME Init  PROVE F!Init
    OBVIOUS
  <2>1. /\ packet_feed = <<>> /\ r.decode_entries = <<>> /\ given = <<>>
        /\ result_queue = <<>> /\ unwritten = <<>>
    BY DEF Init, NoResult
  <2>2. <<>> \in Seq(Entries)
    BY EmptySeq
  <2>3. <<>> \o <<>> = <<>>
    BY <2>2, ConcatEmptySeq
  <2> QED  BY <2>1, <2>3, JoinedEmpty DEF F!Init, InPipeline
<1>2. FlowInv /\ [Next]_vars => [F!Next]_(F!vars)
  BY FeedStep
<1> QED  BY FlowInitInv, FlowStep, <1>1, <1>2, PTL DEF Spec, ImplementsFeed, F!Spec

-----------------------------------------------------------------------------
(* Sequences without repetition.                                            *)
Distinct(s) == \A i, j \in 1..Len(s) : s[i] = s[j] => i = j

LEMMA DistinctConcat ==
  ASSUME NEW S, NEW s \in Seq(S), NEW t \in Seq(S), Distinct(s), Distinct(t),
         ToSet(s) \cap ToSet(t) = {}
  PROVE  Distinct(s \o t) /\ ToSet(s \o t) = ToSet(s) \cup ToSet(t)
<1> DEFINE u == s \o t
           m == Len(s)
           n == Len(t)
<1>1. /\ u \in Seq(S) /\ Len(u) = m + n /\ m \in Nat /\ n \in Nat
      /\ \A i \in 1..m + n : u[i] = IF i <= m THEN s[i] ELSE t[i - m]
  BY ConcatProperties
<1> HIDE DEF u
<1>2. /\ \A x : x \in ToSet(s) <=> \E i \in 1..m : s[i] = x
      /\ \A x : x \in ToSet(t) <=> \E i \in 1..n : t[i] = x
      /\ \A x : x \in ToSet(u) <=> \E i \in 1..m + n : u[i] = x
  <2>1. /\ \A x : x \in ToSet(s) <=> \E i \in 1..Len(s) : s[i] = x
        /\ \A x : x \in ToSet(t) <=> \E i \in 1..Len(t) : t[i] = x
        /\ \A x : x \in ToSet(u) <=> \E i \in 1..Len(u) : u[i] = x
    <3>0. u \in Seq(S)
      BY <1>1
    <3>1. \A x : x \in ToSet(s) <=> \E i \in 1..Len(s) : s[i] = x
      BY ToSetOfSeq
    <3>2. \A x : x \in ToSet(t) <=> \E i \in 1..Len(t) : t[i] = x
      BY ToSetOfSeq
    <3>3. \A x : x \in ToSet(u) <=> \E i \in 1..Len(u) : u[i] = x
      BY ONLY <3>0, ToSetOfSeq
    <3> QED  BY <3>1, <3>2, <3>3
  <2> QED  BY <1>1, <2>1
<1> HIDE DEF m, n
<1>3. \A i \in 1..m + n : (i \in 1..m /\ u[i] = s[i]) \/ (i - m \in 1..n /\ u[i] = t[i - m])
  BY <1>1
<1>4. ASSUME NEW i \in 1..m + n, NEW j \in 1..m + n, u[i] = u[j]  PROVE i = j
  <2>1. CASE i \in 1..m /\ j \in 1..m /\ u[i] = s[i] /\ u[j] = s[j]
    BY <1>4, <2>1 DEF Distinct, m
  <2>2. CASE i - m \in 1..n /\ j - m \in 1..n /\ u[i] = t[i - m] /\ u[j] = t[j - m]
    <3>1. i - m = j - m
      BY <1>4, <2>2 DEF Distinct, n
    <3> QED  BY <1>1, <3>1
  <2>3. CASE i \in 1..m /\ j - m \in 1..n /\ u[i] = s[i] /\ u[j] = t[j - m]
    <3>1. u[i] \in ToSet(s) /\ u[i] \in ToSet(t)
      BY <1>2, <1>4, <2>3
    <3> QED  BY <3>1
  <2>4. CASE j \in 1..m /\ i - m \in 1..n /\ u[j] = s[j] /\ u[i] = t[i - m]
    <3>1. u[i] \in ToSet(s) /\ u[i] \in ToSet(t)
      BY <1>2, <1>4, <2>4
    <3> QED  BY <3>1
  <2> QED  BY <1>3, <2>1, <2>2, <2>3, <2>4
<1>5. Distinct(u)
  BY <1>1, <1>4 DEF Distinct
<1>6. ToSet(u) = ToSet(s) \cup ToSet(t)
  <2>1. ASSUME NEW i \in 1..m  PROVE s[i] \in ToSet(u)
    <3>1. i \in 1..m + n /\ u[i] = s[i]
      BY <1>1, <2>1
    <3> QED  BY <1>2, <3>1
  <2>2. ASSUME NEW i \in 1..n  PROVE t[i] \in ToSet(u)
    <3>1. i + m \in 1..m + n /\ ~(i + m <= m) /\ (i + m) - m = i
      BY <1>1, <2>2
    <3>2. u[i + m] = t[i]
      BY <1>1, <3>1
    <3> QED  BY <1>2, <3>1, <3>2
  <2>3. \A x \in ToSet(u) : x \in ToSet(s) \/ x \in ToSet(t)
    <3> SUFFICES ASSUME NEW i \in 1..m + n  PROVE u[i] \in ToSet(s) \/ u[i] \in ToSet(t)
      BY <1>2
    <3> QED  BY <1>2, <1>3
  <2> QED  BY <1>2, <2>1, <2>2, <2>3
<1> QED  BY <1>5, <1>6 DEF u

LEMMA DistinctAppend ==
  ASSUME NEW S, NEW s \in Seq(S), NEW e \in S, Distinct(s), e \notin ToSet(s)
  PROVE  Distinct(Append(s, e))
<1> DEFINE u == Append(s, e)
           m == Len(s)
<1>1. /\ u \in Seq(S) /\ Len(u) = m + 1 /\ m \in Nat
      /\ \A i \in 1..m : u[i] = s[i]
      /\ u[m + 1] = e
  BY AppendProperties
<1> HIDE DEF u
<1>2. \A i \in 1..m : s[i] # e
  BY ToSetOfSeq
<1>3. \A i, j \in 1..m : s[i] = s[j] => i = j
  BY DEF Distinct
<1> HIDE DEF m
<1>4. \A i \in 1..m + 1 : i \in 1..m \/ i = m + 1
  BY <1>1
<1>5. \A i, j \in 1..m + 1 : u[i] = u[j] => i = j
  BY <1>1, <1>2, <1>3, <1>4
<1>6. Distinct(u)
  BY <1>1, <1>5 DEF Distinct
<1> QED  BY <1>6 DEF u

(* A piece taken out.                                                       *)
LEMMA DistinctWithout ==
  ASSUME NEW S, NEW s \in Seq(S), NEW x \in Seq(S), NEW t \in Seq(S),
         Distinct(s \o (x \o t))
  PROVE  Distinct(s \o t) /\ ToSet(s \o t) \subseteq ToSet(s \o (x \o t))
<1> DEFINE u == s \o t
           w == s \o (x \o t)
           m == Len(s)
           n == Len(t)
           k == Len(x)
           pos(i) == IF i <= m THEN i ELSE i + k
<1>1. m \in Nat /\ n \in Nat /\ k \in Nat
  OBVIOUS
<1>2. /\ u \in Seq(S) /\ Len(u) = m + n
      /\ \A i \in 1..m + n : u[i] = IF i <= m THEN s[i] ELSE t[i - m]
  BY ConcatProperties
<1>3. /\ x \o t \in Seq(S) /\ Len(x \o t) = k + n
      /\ \A i \in 1..k + n : (x \o t)[i] = IF i <= k THEN x[i] ELSE t[i - k]
  BY ConcatProperties
<1> DEFINE y == x \o t
<1>4. y \in Seq(S) /\ Len(y) = k + n
  BY <1>3
<1>5. \A i \in 1..n : y[i + k] = t[i]
  <2> SUFFICES ASSUME NEW i \in 1..n  PROVE y[i + k] = t[i]
    OBVIOUS
  <2>1. i + k \in 1..k + n /\ ~(i + k <= k) /\ (i + k) - k = i
    BY <1>1
  <2> QED  BY <1>3, <2>1
<1> HIDE DEF y
<1>6. /\ w \in Seq(S) /\ Len(w) = m + (k + n)
      /\ \A i \in 1..m + (k + n) : w[i] = IF i <= m THEN s[i] ELSE y[i - m]
  <2>1. w = s \o y
    BY DEF y
  <2> QED  BY <1>4, <2>1, ConcatProperties
<1> HIDE DEF u, w, m, n, k
<1>7. \A i \in 1..m + n : pos(i) \in 1..m + (k + n) /\ u[i] = w[pos(i)]
  <2> SUFFICES ASSUME NEW i \in 1..m + n
               PROVE  pos(i) \in 1..m + (k + n) /\ u[i] = w[pos(i)]
    OBVIOUS
  <2>1. CASE i <= m
    <3>1. pos(i) = i /\ i \in 1..m + (k + n)
      BY <1>1, <2>1
    <3> QED  BY <1>2, <1>6, <2>1, <3>1
  <2>2. CASE ~(i <= m)
    <3>1. /\ pos(i) = i + k /\ i + k \in 1..m + (k + n) /\ ~(i + k <= m)
          /\ i - m \in 1..n /\ (i + k) - m = (i - m) + k
      BY <1>1, <2>2
    <3>2. w[i + k] = y[(i - m) + k]
      BY <1>6, <3>1
    <3>3. u[i] = t[i - m]
      BY <1>2, <2>2
    <3> QED  BY <1>5, <3>1, <3>2, <3>3
  <2> QED  BY <2>1, <2>2
<1>8. \A i, j \in 1..m + n : pos(i) = pos(j) => i = j
  BY <1>1
<1> HIDE DEF pos
<1>9. \A i, j \in 1..m + (k + n) : w[i] = w[j] => i = j
  BY <1>6 DEF Distinct, w
<1>10. \A i, j \in 1..m + n : u[i] = u[j] => i = j
  BY <1>7, <1>8, <1>9
<1>11. Distinct(u)
  BY <1>2, <1>10 DEF Distinct
<1>12. ToSet(u) \subseteq ToSet(w)
  <2>1. /\ \A z : z \in ToSet(u) <=> \E i \in 1..m + n : u[i] = z
        /\ \A z : z \in ToSet(w) <=> \E i \in 1..m + (k + n) : w[i] = z
    BY <1>2, <1>6, ToSetOfSeq
  <2> SUFFICES ASSUME NEW i \in 1..m + n  PROVE u[i] \in ToSet(w)
    BY <2>1
  <2> QED  BY <1>7, <2>1
<1> QED  BY <1>11, <1>12 DEF u, w

-----------------------------------------------------------------------------
(* A packet is marked if recent_decodes holds its start.                     *)
Marked(recent, p) == \E l \in 0..Jitter : recent[air[p].content] = air[p].start + l

(* It may be found by a cycle at `now`, or by a later one.                    *)
InViewNow(p, late) == air[p].start + Window + late >= now
InViewLater(p) == air[p].start + Window + Jitter >= now + Interval

(* What is reported has ended before the last cycle, and what may be found   *)
(* again is marked.                                                         *)
MarkInv ==
  deaths = 0 =>
    /\ up = TRUE
    /\ \A p \in reported : air[p].start + Dur <= t0
    /\ \A p \in reported :
         air[p].start + Window + Jitter >= t0 + Interval => Marked(recent_decodes, p)

OnceInv ==
  deaths = 0 => Distinct(given \o InPipeline) /\ ToSet(given \o InPipeline) \subseteq reported

(* No other packet of its content takes the mark of a packet that may be      *)
(* found: the two are never in view at a time.                              *)
LEMMA NoRival ==
  ASSUME Recognisable, AirInv, NEW late \in 0..Jitter,
         NEW p \in OnAir, NEW q \in InWindow(late), p # q, air[p].content = air[q].content,
         \/ p \in InWindow(late)
         \/ /\ air[p].start + Dur <= now - Interval
            /\ InViewNow(p, late) \/ InViewLater(p)
  PROVE  FALSE
<1> DEFINE s == air[p].start
           u == air[q].start
<1>1. q \in OnAir /\ now - late - Window <= u /\ u + Dur <= now - late
  BY DEF InWindow, OnAir
<1>2. s \in Nat /\ u \in Nat /\ now \in Nat /\ late \in Nat /\ late <= Jitter
  <2>1. s \in Nat /\ u \in Nat
    BY <1>1, AirStart
  <2>2. now \in Nat /\ late \in Nat /\ late <= Jitter
    BY FlowNumbers DEF AirInv
  <2> QED  BY <2>1, <2>2
<1>3. /\ Dur \in Nat /\ Spacing \in Nat /\ Window \in Nat /\ Interval \in Nat /\ Jitter \in Nat
      /\ Window < Spacing + Dur /\ Window + Jitter < Spacing + Dur + Interval
  BY FlowNumbers DEF Recognisable
<1>4. s + Spacing <= u \/ u + Spacing <= s
  BY <1>1, StartsApart
<1>5. \/ now - late - Window <= s /\ s + Dur <= now - late
      \/ s + Dur <= now - Interval /\ (s + Window + late >= now
                                       \/ s + Window + Jitter >= now + Interval)
  BY DEF InWindow, InViewNow, InViewLater
<1> HIDE DEF s, u
<1> QED  BY ONLY <1>1, <1>2, <1>3, <1>4, <1>5

(* The first turn finds every packet that may be found again marked.         *)
LEMMA MarkedAtFirst ==
  ASSUME Recognisable, AirInv, ProcInv, MarkInv, deaths = 0, CycleDue,
         NEW late \in 0..Jitter, NEW p \in reported, InViewNow(p, late) \/ InViewLater(p)
  PROVE  Marked(Unexpired, p)
<1> DEFINE s == air[p].start
           k == air[p].content
<1>1. p \in OnAir
  BY DEF ProcInv
<1>2. k \in Contents /\ s \in Nat /\ s <= now /\ now \in Nat /\ t0 \in Int
  <2>1. k \in Contents /\ s \in Nat /\ s <= now
    BY <1>1, AirStart
  <2>2. now \in Nat /\ t0 \in Int
    BY FlowNumbers DEF ProcInv, AirInv
  <2> QED  BY <2>1, <2>2
<1>3. /\ Window \in Nat /\ Interval \in Nat /\ Jitter \in Nat /\ late \in Nat /\ late <= Jitter
      /\ Expiry \in Nat /\ Window + Jitter < Expiry
  BY FlowNumbers DEF Recognisable
<1>4. now >= t0 + Interval /\ (s + Window + late >= now \/ s + Window + Jitter >= now + Interval)
  BY DEF CycleDue, InViewNow, InViewLater
<1> HIDE DEF s, k
<1>5. s + Window + Jitter >= t0 + Interval
  BY ONLY <1>2, <1>3, <1>4
<1>6. PICK l \in 0..Jitter : recent_decodes[k] = s + l
  BY <1>5 DEF MarkInv, Marked, s, k
<1>7. now - (s + l) < Expiry
  <2>1. l \in Nat
    BY <1>3
  <2> QED  BY ONLY <1>2, <1>3, <1>4, <2>1
<1>8. Unexpired[k] = s + l
  BY <1>2, <1>6, <1>7 DEF Unexpired
<1> QED  BY <1>8 DEF Marked, s, k

(* A marked packet is passed over.                                          *)
LEMMA MarkedIsPassed ==
  ASSUME Recognisable, AirInv, NEW p \in OnAir, NEW late \in 0..Jitter, NEW acc \in Accs,
         Marked(acc.recent, p)
  PROVE  LET d == (air[p].start + late) - acc.recent[air[p].content]
         IN  acc.recent[air[p].content] # Never /\ d < Tol /\ -d < Tol
<1> DEFINE s == air[p].start
           x == acc.recent[air[p].content]
<1>1. s \in Nat
  BY AirStart
<1>2. PICK l \in 0..Jitter : x = s + l
  BY DEF Marked
<1>3. l \in Nat /\ l <= Jitter /\ late \in Nat /\ late <= Jitter /\ Tol \in Nat /\ Jitter \in Nat
      /\ Jitter < Tol
  BY FlowNumbers DEF Recognisable
<1> HIDE DEF s, x
<1>4. x # -1 /\ (s + late) - x < Tol /\ -((s + late) - x) < Tol
  BY ONLY <1>1, <1>2, <1>3
<1> QED  BY <1>4 DEF s, x, Never

(* The loop reports no packet twice, none that was reported, and leaves every *)
(* packet that may be found again marked.                                    *)
LEMMA LoopReportsOnce ==
  ASSUME Recognisable, AirInv, ProcInv, MarkInv, deaths = 0, CycleDue,
         NEW packets \in Seq(OnAir), NEW late \in 0..Jitter,
         \A i \in 1..Len(packets) : packets[i] \in InWindow(late),
         \A i, j \in 1..Len(packets) : packets[i] = packets[j] => i = j
  PROVE  LET out == Deduped(packets, late)
         IN  /\ out.deduped \in Seq(OnAir) /\ Distinct(out.deduped)
             /\ ToSet(out.deduped) \cap reported = {}
             /\ ToSet(out.deduped) \subseteq InWindow(late)
             /\ \A p \in reported : InViewLater(p) => Marked(out.recent, p)
             /\ \A p \in ToSet(out.deduped) : Marked(out.recent, p)
<1> DEFINE N == Len(packets)
           Found(n) == {packets[m] : m \in 1..n}
           Good(n, acc) ==
             /\ Distinct(acc.deduped) /\ ToSet(acc.deduped) \subseteq Found(n)
             /\ ToSet(acc.deduped) \cap reported = {}
             /\ \A p \in reported : InViewNow(p, late) \/ InViewLater(p) => Marked(acc.recent, p)
             /\ \A p \in ToSet(acc.deduped) : Marked(acc.recent, p)
<1>1. PICK turn \in [0..N -> Accs] :
        /\ turn[0] = FirstAcc
        /\ \A n \in 1..N : turn[n] = Dedup(turn[n-1], packets[n], late)
        /\ Deduped(packets, late) = turn[N]
  BY DedupedLoop
<1> DEFINE G == {n \in 0..N : Good(n, turn[n])}
<1>2. N \in Nat /\ \A n \in 1..N : packets[n] \in OnAir /\ packets[n] \in InWindow(late)
  BY ElementOfSeq
<1>3. \A i, j \in 1..N : packets[i] = packets[j] => i = j
  OBVIOUS
<1>4. \A n \in 0..N : turn[n] \in Accs
  BY <1>1
<1>5. \A p \in reported : p \in OnAir /\ air[p].start + Dur <= now - Interval
  <2> SUFFICES ASSUME NEW p \in reported
               PROVE  p \in OnAir /\ air[p].start + Dur <= now - Interval
    OBVIOUS
  <2>1. p \in OnAir
    BY DEF ProcInv
  <2>2. air[p].start + Dur <= t0 /\ now >= t0 + Interval
    BY DEF MarkInv, CycleDue
  <2>3. /\ air[p].start \in Nat /\ now \in Nat /\ t0 \in Int /\ Dur \in Nat
        /\ Interval \in Nat
    BY <2>1, AirStart, FlowNumbers DEF ProcInv, AirInv
  <2> QED  BY <2>1, <2>2, <2>3
<1> HIDE DEF N
<1>6. 0 \in G
  <2>1. FirstAcc.deduped = <<>> /\ FirstAcc.recent = Unexpired
    BY DEF FirstAcc
  <2>2. <<>> \in Seq(OnAir) /\ Len(<<>>) = 0
    BY EmptySeq
  <2>3. ToSet(<<>>) = {}
    BY DEF ToSet
  <2>4. Distinct(<<>>)
    BY <2>2 DEF Distinct
  <2>5. \A p \in reported : InViewNow(p, late) \/ InViewLater(p) => Marked(Unexpired, p)
    BY MarkedAtFirst
  <2>6. Good(0, FirstAcc)
    BY <2>1, <2>3, <2>4, <2>5
  <2> HIDE DEF Good
  <2> QED  BY <1>1, <1>2, <2>6
<1>7. ASSUME NEW n \in 1..N, n - 1 \in G  PROVE n \in G
  <2> DEFINE a == turn[n-1]
             q == packets[n]
             b == turn[n]
             k == air[q].content
             d == (air[q].start + late) - a.recent[k]
             pass == a.recent[k] # Never /\ d < Tol /\ -d < Tol
  <2>1. n \in 0..N /\ n - 1 \in 0..N /\ n \in Nat
    BY <1>2
  <2>2. b = Dedup(a, q, late) /\ a \in Accs /\ q \in OnAir /\ q \in InWindow(late)
    BY <1>1, <1>2, <1>4, <2>1
  <2>3. Good(n-1, a)
    BY <1>7
  <2>4. /\ k \in Contents /\ b \in Accs
        /\ pass => b = a
        /\ ~pass => /\ b.recent[k] = air[q].start + late
                    /\ \A c \in Contents \ {k} : b.recent[c] = a.recent[c]
                    /\ b.deduped = Append(a.deduped, q)
    <3> DEFINE c == Dedup(a, q, late)
    <3>1. /\ k \in Contents /\ c \in Accs
          /\ pass => c = a
          /\ ~pass => /\ c.recent[k] = air[q].start + late
                      /\ \A e \in Contents \ {k} : c.recent[e] = a.recent[e]
                      /\ c.deduped = Append(a.deduped, q)
      <4> HIDE DEF a, q
      <4> QED  BY <2>2, DedupCases, Zenon
    <3> HIDE DEF a, b, q, pass, k
    <3> QED  BY <2>2, <3>1
  <2>5. Marked(a.recent, q) => pass
    <3> HIDE DEF a, q
    <3> QED  BY <2>2, MarkedIsPassed, Zenon
  <2>6. Found(n-1) \subseteq Found(n) /\ q \in Found(n)
    <3>1. \A m \in 1..n-1 : m \in 1..n
      BY <2>1
    <3>2. n \in 1..n
      BY <2>1
    <3> QED  BY <3>1, <3>2
  <2>7. q \notin Found(n-1)
    <3> SUFFICES ASSUME NEW m \in 1..n-1, q = packets[m]  PROVE FALSE
      OBVIOUS
    <3>1. m \in 1..N /\ m # n
      BY <1>2
    <3> QED  BY <1>3, <3>1
  <2>8. Found(n-1) \subseteq InWindow(late)
    <3>1. \A m \in 1..n-1 : m \in 1..N
      BY <1>2
    <3> QED  BY <1>2, <3>1
  <2> HIDE DEF pass, d, Found
  <2>9. CASE pass
    <3>1. b = a
      BY <2>4, <2>9
    <3> HIDE DEF a, b, q, k
    <3>2. Good(n, b)
      BY <2>3, <2>6, <3>1
    <3> HIDE DEF Good
    <3> QED  BY <2>1, <3>2 DEF b
  <2>10. CASE ~pass
    <3>1. /\ b.recent[k] = air[q].start + late
          /\ \A c \in Contents \ {k} : b.recent[c] = a.recent[c]
          /\ b.deduped = Append(a.deduped, q)
      BY <2>4, <2>10
    <3> HIDE DEF a, b, q
    <3>2. a.deduped \in Seq(OnAir)
      BY <2>2 DEF Accs
    <3>3. ToSet(b.deduped) = ToSet(a.deduped) \cup {q}
      BY <2>2, <3>1, <3>2, ToSetAppend
    <3>4. q \notin reported
      <4> SUFFICES ASSUME q \in reported  PROVE FALSE
        OBVIOUS
      <4>1. InViewNow(q, late)
        <5>1. now - late - Window <= air[q].start
          BY <2>2 DEF InWindow
        <5>2. /\ now \in Nat /\ late \in Nat /\ Window \in Nat /\ air[q].start \in Nat
          BY <2>2, AirStart, FlowNumbers DEF AirInv
        <5> QED  BY <5>1, <5>2 DEF InViewNow
      <4>2. Marked(a.recent, q)
        BY <2>3, <4>1
      <4> QED  BY <2>5, <2>10, <4>2
    <3>5. q \notin ToSet(a.deduped)
      BY <2>3, <2>7
    <3>6. Distinct(b.deduped)
      <4>1. Distinct(a.deduped)
        BY <2>3
      <4> QED  BY <2>2, <3>1, <3>2, <3>5, <4>1, DistinctAppend
    <3>7. Marked(b.recent, q)
      BY <3>1 DEF Marked
    <3>8. ASSUME NEW p \in OnAir, p # q, Marked(a.recent, p),
                 \/ p \in InWindow(late)
                 \/ /\ air[p].start + Dur <= now - Interval
                    /\ InViewNow(p, late) \/ InViewLater(p)
          PROVE  Marked(b.recent, p)
      <4>1. air[p].content # k
        BY <2>2, <3>8, NoRival
      <4>2. air[p].content \in Contents
        BY AirStart
      <4>3. b.recent[air[p].content] = a.recent[air[p].content]
        BY <3>1, <4>1, <4>2
      <4> QED  BY <3>8, <4>3 DEF Marked
    <3>9. ASSUME NEW p \in reported, InViewNow(p, late) \/ InViewLater(p)
          PROVE  Marked(b.recent, p)
      <4>1. Marked(a.recent, p)
        BY <2>3, <3>9
      <4>2. p \in OnAir /\ air[p].start + Dur <= now - Interval /\ p # q
        BY <1>5, <3>4
      <4> QED  BY <3>8, <3>9, <4>1, <4>2
    <3>10. ASSUME NEW p \in ToSet(b.deduped)  PROVE Marked(b.recent, p)
      <4>1. CASE p = q
        BY <3>7, <4>1
      <4>2. CASE p # q
        <5>1. p \in ToSet(a.deduped)
          BY <3>3, <4>2
        <5>2. p \in InWindow(late) /\ Marked(a.recent, p)
          BY <2>3, <2>8, <5>1
        <5>3. p \in OnAir
          BY <5>2 DEF InWindow, OnAir
        <5> QED  BY <3>8, <4>2, <5>2, <5>3
      <4> QED  BY <4>1, <4>2
    <3>11. ToSet(b.deduped) \subseteq Found(n) /\ ToSet(b.deduped) \cap reported = {}
      BY <2>3, <2>6, <3>3, <3>4
    <3>12. Good(n, b)
      BY <3>6, <3>9, <3>10, <3>11
    <3> HIDE DEF Good
    <3> QED  BY <2>1, <3>12 DEF b
  <2> QED  BY <2>9, <2>10
<1>8. Good(N, turn[N])
  <2>1. \A n \in 1..N : n - 1 \in G => n \in G
    BY <1>7
  <2> HIDE DEF G
  <2>2. 0..N \subseteq G
    BY <1>2, <1>6, <2>1, NatSetInduction
  <2>3. N \in G
    BY <1>2, <2>2
  <2> HIDE DEF Good
  <2> QED  BY <2>3 DEF G
<1>9. turn[N].deduped \in Seq(OnAir)
  BY <1>2, <1>4 DEF Accs
<1>10. Found(N) \subseteq InWindow(late)
  BY <1>2
<1> HIDE DEF G, Found
<1> QED  BY <1>1, <1>8, <1>9, <1>10

(* After a cycle that lives.                                                *)
LEMMA CycleOnce ==
  ASSUME Recognisable, FlowInv, MarkInv, OnceInv, deaths = 0,
         NEW late \in 0..Jitter, Cycle(late)
  PROVE  MarkInv' /\ OnceInv'
<1>1. AirInv /\ ProcInv /\ CycleDue
  BY DEF FlowInv, Cycle
<1>2. PICK packets \in Seq(OnAir) : CycleWith(packets, late)
  BY <1>1, CycleIs
<1> DEFINE out == Deduped(packets, late)
           new == out.deduped
           all == given \o InPipeline
<1>3. /\ \A i \in 1..Len(packets) : packets[i] \in InWindow(late)
      /\ \A i, j \in 1..Len(packets) : packets[i] = packets[j] => i = j
      /\ recent_decodes' = out.recent /\ reported' = reported \cup ToSet(new)
  BY <1>2 DEF CycleWith
<1>4. /\ new \in Seq(OnAir) /\ Distinct(new) /\ ToSet(new) \cap reported = {}
      /\ ToSet(new) \subseteq InWindow(late)
      /\ \A p \in reported : InViewLater(p) => Marked(out.recent, p)
      /\ \A p \in ToSet(new) : Marked(out.recent, p)
  BY <1>1, <1>3, LoopReportsOnce, Zenon
<1>5. UNCHANGED <<now, air, up, deaths>> /\ t0' = now
  BY DEF Cycle, airVars
<1>6. /\ new \in Seq(Entries) /\ InPipeline' = InPipeline \o new /\ given' = given
  BY <1>2, CycleAdds
<1> HIDE DEF out, new
<1>7. MarkInv'
  <2>1. up' = TRUE
    BY <1>5 DEF MarkInv
  <2>2. now \in Nat /\ t0 \in Int /\ Interval \in Nat /\ Dur \in Nat
    BY <1>1, FlowNumbers DEF AirInv, ProcInv
  <2>3. ASSUME NEW p \in reported \cup ToSet(new)
        PROVE  air[p].start + Dur <= now
    <3>1. CASE p \in reported
      <4>1. p \in OnAir /\ air[p].start + Dur <= t0 /\ now >= t0 + Interval
        BY <1>1, <3>1 DEF ProcInv, MarkInv, CycleDue
      <4>2. air[p].start \in Nat
        BY <1>1, <4>1, AirStart
      <4> QED  BY <2>2, <4>1, <4>2
    <3>2. CASE p \in ToSet(new)
      <4>1. p \in OnAir /\ air[p].start + Dur <= now - late
        BY <1>4, <3>2 DEF InWindow, OnAir
      <4>2. air[p].start \in Nat
        BY <1>1, <4>1, AirStart
      <4>3. late \in Nat
        BY FlowNumbers
      <4> QED  BY <2>2, <4>1, <4>2, <4>3
    <3> QED  BY <3>1, <3>2
  <2>4. ASSUME NEW p \in reported \cup ToSet(new),
               air[p].start + Window + Jitter >= now + Interval
        PROVE  Marked(out.recent, p)
    BY <1>4, <2>4 DEF InViewLater
  <2>5. \A p : Marked(recent_decodes, p)' <=> Marked(out.recent, p)
    BY <1>3, <1>5 DEF Marked
  <2> QED  BY <1>3, <1>5, <2>1, <2>3, <2>4, <2>5 DEF MarkInv
<1>8. OnceInv'
  <2>1. all \in Seq(Entries) /\ InPipeline \in Seq(Entries) /\ given \in Seq(Entries)
    BY Stations, ConcatProperties
  <2>2. Distinct(all) /\ ToSet(all) \subseteq reported
    BY DEF OnceInv
  <2>3. given \o (InPipeline \o new) = all \o new
    <3>1. /\ InPipeline \in Seq(Entries) /\ given \in Seq(Entries)
          /\ new \in Seq(Entries)
      BY <1>6, <2>1
    <3>2. (given \o InPipeline) \o new = given \o (InPipeline \o new)
      <4>1. Cat(Cat(given, InPipeline), new) = Cat(given, Cat(InPipeline, new))
        BY ONLY <3>1, CatAssociative
      <4> QED  BY ONLY <4>1 DEF Cat
    <3> QED  BY <3>2
  <2>4. (given \o InPipeline)' = all \o new
    BY <1>6, <2>3
  <2> HIDE DEF all
  <2>5. Distinct(all \o new) /\ ToSet(all \o new) = ToSet(all) \cup ToSet(new)
    <3>1. ToSet(all) \cap ToSet(new) = {}
      BY <1>4, <2>2
    <3> QED  BY <1>4, <1>6, <2>1, <2>2, <3>1, DistinctConcat
  <2> QED  BY <1>3, <2>2, <2>4, <2>5 DEF OnceInv
<1> QED  BY <1>7, <1>8

LEMMA OnceStep ==
  ASSUME Recognisable, FlowInv, MarkInv, OnceInv, [Next]_vars  PROVE MarkInv' /\ OnceInv'
<1> SUFFICES ASSUME deaths' = 0  PROVE MarkInv' /\ OnceInv'
  BY DEF MarkInv, OnceInv
<1>1. AirInv /\ ProcInv
  BY DEF FlowInv
<1>2. InPipeline \in Seq(Entries) /\ given \in Seq(Entries)
  BY Stations
<1>3. CASE \E late \in 0..Jitter : Cycle(late)
  <2>1. PICK late \in 0..Jitter : Cycle(late)
    BY <1>3
  <2>2. deaths = 0
    BY <2>1 DEF Cycle
  <2> QED  BY <2>1, <2>2, CycleOnce
<1>4. CASE ProcessorDies
  BY <1>1, <1>4 DEF ProcessorDies, ProcInv
<1>5. CASE ProcessorRestarts
  BY <1>5 DEF ProcessorRestarts, MarkInv
<1>6. CASE ~(\/ (\E late \in 0..Jitter : Cycle(late)) \/ ProcessorDies \/ ProcessorRestarts)
  <2>1. /\ UNCHANGED <<up, t0, recent_decodes, reported, deaths>>
        /\ \A p \in OnAir : air'[p] = air[p]
    <3>1. CASE \E k \in Contents : Transmit(k)
      <4>1. PICK k \in Contents : Transmit(k)
        BY <3>1
      <4>2. \A p \in OnAir : air'[p] = air[p]
        BY <1>1, <4>1, Transmitted
      <4> QED  BY <4>1, <4>2 DEF Transmit, procVars
    <3>2. CASE \/ Tick \/ FeedResult \/ Drain \/ GetPackets \/ Reset \/ UNCHANGED vars
               \/ (Post /\ UNCHANGED <<airVars, procVars, pipeVars, drainVars, feedVars>>)
      BY <3>2 DEF Tick, FeedResult, Drain, GetResult, SubmitEntry, StoreResult, GetPackets,
                  Reset, vars, airVars, procVars
    <3> QED  BY <1>6, <3>1, <3>2 DEF Next, Processor
  <2>2. MarkInv'
    <3>1. reported \subseteq OnAir
      BY <1>1 DEF ProcInv
    <3> QED  BY <2>1, <3>1 DEF MarkInv, Marked
  <2>3. Distinct(given \o InPipeline) /\ ToSet(given \o InPipeline) \subseteq reported
    BY <2>1 DEF OnceInv
  <2>4. CASE StoreResult
    <3>1. PICK x \in Seq(Entries) : InPipeline = x \o InPipeline'
      BY <2>4, StoreDrops
    <3>2. InPipeline' \in Seq(Entries) /\ given' = given
      BY <2>4, StoreDrops
    <3> DEFINE v == InPipeline'
    <3>3. v \in Seq(Entries) /\ Distinct(given \o (x \o v))
          /\ ToSet(given \o (x \o v)) \subseteq reported
      BY <2>3, <3>1, <3>2
    <3> HIDE DEF v
    <3>4. Distinct(given \o v) /\ ToSet(given \o v) \subseteq ToSet(given \o (x \o v))
      BY <1>2, <3>3, DistinctWithout
    <3>5. (given \o InPipeline)' = given \o v
      BY <3>2 DEF v
    <3> QED  BY <2>1, <2>2, <3>3, <3>4, <3>5 DEF OnceInv
  <2>5. CASE GetPackets
    <3>1. PICK x \in Seq(Entries) : InPipeline = x \o InPipeline' /\ given' = given \o x
      BY <2>5, ReaderTakes
    <3> DEFINE v == InPipeline'
    <3>2. v \in Seq(Entries) /\ x \in Seq(Entries) /\ given \in Seq(Entries)
      BY <1>2, <2>5, ReaderTakes
    <3>3. (given \o InPipeline)' = (given \o x) \o v /\ InPipeline = x \o v
      BY <3>1
    <3> HIDE DEF v
    <3>4. (given \o x) \o v = given \o (x \o v)
      <4>1. Cat(Cat(given, x), v) = Cat(given, Cat(x, v))
        BY ONLY <3>2, CatAssociative
      <4> QED  BY ONLY <4>1 DEF Cat
    <3>5. (given \o InPipeline)' = given \o InPipeline
      BY <3>3, <3>4
    <3> QED  BY <2>1, <2>2, <2>3, <3>5 DEF OnceInv
  <2>6. CASE ~StoreResult /\ ~GetPackets
    <3>1. InPipeline' = InPipeline /\ given' = given
      BY <1>6, <2>6, PipeKept DEF Next, Processor, Drain
    <3> QED  BY <2>1, <2>2, <2>3, <3>1 DEF OnceInv
  <2> QED  BY <2>4, <2>5, <2>6
<1> QED  BY <1>3, <1>4, <1>5, <1>6

(* Decode windows overlap, so a packet is decoded in several cycles; as long *)
(* as the processor lives it is on its way to the readers, or was handed to   *)
(* them, once (Recognisable).                                               *)
THEOREM HandedOutOnce == ASSUME Recognisable  PROVE Spec => []ReportedOnce
<1>1. Init => MarkInv /\ OnceInv
  <2> SUFFICES ASSUME Init  PROVE MarkInv /\ OnceInv
    OBVIOUS
  <2>1. /\ packet_feed = <<>> /\ r.decode_entries = <<>> /\ given = <<>>
        /\ result_queue = <<>> /\ unwritten = <<>> /\ reported = {} /\ up = TRUE
    BY DEF Init, NoResult
  <2>2. <<>> \in Seq(Entries) /\ Len(<<>>) = 0
    BY EmptySeq
  <2>3. <<>> \o <<>> = <<>>
    BY <2>2, ConcatEmptySeq
  <2>4. given \o InPipeline = <<>>
    BY <2>1, <2>3, JoinedEmpty DEF InPipeline
  <2>5. ToSet(<<>>) = {} /\ Distinct(<<>>)
    BY <2>2 DEF ToSet, Distinct
  <2> QED  BY <2>1, <2>4, <2>5 DEF MarkInv, OnceInv
<1>2. FlowInv /\ MarkInv /\ OnceInv /\ [Next]_vars => MarkInv' /\ OnceInv'
  BY OnceStep, Recognisable
<1>3. FlowInv /\ OnceInv => ReportedOnce
  <2> SUFFICES ASSUME FlowInv, OnceInv, deaths = 0
               PROVE  LET all == given \o InPipeline
                      IN  \A i, j \in DOMAIN all : all[i] = all[j] => i = j
    BY DEF ReportedOnce
  <2> DEFINE all == given \o InPipeline
  <2>1. all \in Seq(Entries)
    BY Stations, ConcatProperties
  <2>2. Distinct(all)
    BY DEF OnceInv
  <2> HIDE DEF all
  <2>3. DOMAIN all = 1..Len(all)
    BY <2>1
  <2>4. \A i, j \in DOMAIN all : all[i] = all[j] => i = j
    BY <2>2, <2>3 DEF Distinct
  <2> QED  BY <2>4 DEF all
<1> QED  BY FlowInitInv, FlowStep, <1>1, <1>2, <1>3, PTL DEF Spec
=============================================================================
