---------------------------- MODULE DisplayProofs ----------------------------
(***************************************************************************)
(* Proofs about the control values and what is shown, for any number of    *)
(* clients and requests: types, that LO requests that follow each other    *)
(* add up, and that the capture target is that of one request.             *)
(***************************************************************************)
EXTENDS Display, SequenceTheorems, TLAPS

(* What a request may store, and the values.                               *)
Stores ==
       ({"rx_gain_dB"} \X (MinGain..MaxGain))
  \cup ({"lo_freq_hz"} \X Int)
  \cup ({"view_mode"} \X Views)
  \cup ({"td_running", "td_has_ntw"} \X BOOLEAN)
  \cup ({"td_chipset"} \X {NoTarget, Chipset})
  \cup ({"td_ntw_id"} \X Devices)

Values ==
  [rx_gain_dB : MinGain..MaxGain, lo_freq_hz : Int, view_mode : Views,
   td_running : BOOLEAN, td_chipset : {NoTarget, Chipset}, td_has_ntw : BOOLEAN,
   td_ntw_id : Devices]

RxStages ==
  {"connect", "gain", "read gain", "set gain", "store gain",
   "lo", "read lo", "set lo", "take back"}

RxType == [pc : RxStages, gain : MinGain..MaxGain, lo : Tunable, new : Int]

CtlInv ==
  /\ val \in Values
  /\ device \in [gain : MinGain..MaxGain, lo : Tunable]
  /\ rx \in RxType
  /\ rx.gain = device.gain /\ rx.lo = device.lo
  /\ rx.pc = "set gain" => rx.new \in MinGain..MaxGain
  /\ rx.pc = "connect" => rx.gain = InitialGain /\ rx.lo = Center
  /\ todo \in [Clients -> Seq(Stores)]
  /\ asked \in Int /\ clean \in BOOLEAN

(* No store of the frequency among them.                                   *)
Plain(s) == \A i \in 1..Len(s) : s[i][1] # "lo_freq_hz"

(* As long as requests come in turn and no frequency is refused, the       *)
(* frequency is what the requests add up to, or the one request that is on *)
(* its way stores that; rx_loop stores none.                               *)
LoInv ==
  clean =>
    /\ rx.pc # "take back"
    /\ \A c, d \in Clients : todo[c] # <<>> /\ todo[d] # <<>> => c = d
    /\ \/ \E c \in Clients : todo[c] = << <<"lo_freq_hz", asked>> >>
       \/ val.lo_freq_hz = asked /\ \A c \in Clients : Plain(todo[c])

(* The sets of numbers the module works with.                              *)
LEMMA CtlNumbers ==
  /\ MinGain \in Int /\ MaxGain \in Int /\ InitialGain \in MinGain..MaxGain
  /\ Center \in Tunable /\ Tunable \subseteq Int /\ Center \in Int
  /\ \A g \in Int : Clamp(g) \in MinGain..MaxGain
  BY ControlsAssumption DEF ControlsAssumption, Clamp

(* One store is a sequence of stores.                                      *)
LEMMA OneStore ==
  ASSUME NEW x \in Stores
  PROVE  << x >> \in Seq(Stores) /\ (x[1] # "lo_freq_hz" => Plain(<< x >>))
<1>1. << x >> \in Seq(Stores) /\ Len(<< x >>) = 1 /\ << x >>[1] = x
  OBVIOUS
<1> QED  BY <1>1 DEF Plain

(* Sequences of three and of four.                                         *)
LEMMA ShortSeqs ==
  ASSUME NEW S, NEW a \in S, NEW b \in S, NEW c \in S, NEW d \in S
  PROVE  <<a, b, c>> \in Seq(S) /\ <<a, b, c, d>> \in Seq(S)
  OBVIOUS

(* The sequence functions that change at one place keep their type.        *)
LEMMA TodoType ==
  ASSUME todo \in [Clients -> Seq(Stores)], NEW c \in Clients, NEW s \in Seq(Stores)
  PROVE  /\ [todo EXCEPT ![c] = s] \in [Clients -> Seq(Stores)]
         /\ [todo EXCEPT ![c] = s][c] = s
         /\ \A d \in Clients \ {c} : [todo EXCEPT ![c] = s][d] = todo[d]
  OBVIOUS

(* What is left after the first store.                                     *)
LEMMA RestOfStores ==
  ASSUME NEW s \in Seq(Stores), s # <<>>
  PROVE  /\ Head(s) \in Stores /\ Tail(s) \in Seq(Stores)
         /\ Plain(s) => Head(s)[1] # "lo_freq_hz" /\ Plain(Tail(s))
<1>1. Head(s) \in Stores /\ Tail(s) \in Seq(Stores)
  BY HeadTailProperties
<1>2. Len(s) \in Nat \ {0} /\ Len(Tail(s)) = Len(s) - 1
  BY EmptySeq, HeadTailProperties
<1>3. Head(s) = s[1] /\ \A i \in 1..Len(Tail(s)) : Tail(s)[i] = s[i+1]
  BY <1>2, HeadTailProperties
<1>4. ASSUME Plain(s) PROVE Head(s)[1] # "lo_freq_hz" /\ Plain(Tail(s))
  <2>1. Head(s)[1] # "lo_freq_hz"
    BY <1>2, <1>3, <1>4 DEF Plain
  <2>2. ASSUME NEW i \in 1..Len(Tail(s)) PROVE Tail(s)[i][1] # "lo_freq_hz"
    <3>1. i + 1 \in 1..Len(s)
      BY <1>2
    <3> QED  BY <1>3, <1>4, <3>1 DEF Plain
  <2> QED  BY <2>1, <2>2 DEF Plain
<1> QED  BY <1>1, <1>4

(* Setting one of the values leaves the others, and their types.           *)
LEMMA StoreValue ==
  ASSUME val \in Values, NEW x \in Stores
  PROVE  LET new == [val EXCEPT ![x[1]] = x[2]]
         IN  /\ new \in Values
             /\ x[1] # "lo_freq_hz" => new.lo_freq_hz = val.lo_freq_hz
             /\ x[1] = "lo_freq_hz" => new.lo_freq_hz = x[2]
  BY DEF Values, Stores

(* Nothing is asked for at the start.                                      *)
LEMMA CtlInitInv == CtlInit => CtlInv /\ LoInv
<1> SUFFICES ASSUME CtlInit PROVE CtlInv /\ LoInv
  OBVIOUS
<1> USE CtlNumbers
<1>1. (CHOOSE d \in Devices : TRUE) \in Devices
  BY ControlsAssumption DEF ControlsAssumption
<1>2. val \in Values
  BY <1>1 DEF CtlInit, Values, Views
<1>3. todo \in [Clients -> Seq(Stores)] /\ \A c \in Clients : todo[c] = <<>>
  BY EmptySeq DEF CtlInit
<1>4. CtlInv
  BY <1>2, <1>3 DEF CtlInit, CtlInv, RxType, RxStages
<1>5. \A c \in Clients : Plain(todo[c])
  BY <1>3, EmptySeq DEF Plain
<1>6. LoInv
  BY <1>3, <1>5 DEF CtlInit, LoInv
<1> QED  BY <1>4, <1>6

(* A request begins with stores of which none is of the frequency ...      *)
LEMMA BeginPlain ==
  ASSUME CtlInv, LoInv, NEW c \in Clients, NEW kind, NEW s \in Seq(Stores), Plain(s),
         Begin(c, kind, s), asked' = asked
  PROVE  CtlInv' /\ LoInv'
<1>1. /\ todo[c] = <<>> /\ todo' = [todo EXCEPT ![c] = s]
      /\ clean' = (clean /\ Active = {}) /\ UNCHANGED <<val, device, rx>>
  BY DEF Begin
<1>2. CtlInv'
  BY <1>1 DEF CtlInv
<1>3. ASSUME clean' PROVE clean /\ \A d \in Clients : todo[d] = <<>>
  BY <1>1, <1>3 DEF Active, CtlInv
<1>4. ASSUME clean'
      PROVE  val.lo_freq_hz = asked /\ \A d \in Clients : Plain(todo'[d])
  <2>1. \A d \in Clients : todo[d] # << <<"lo_freq_hz", asked>> >>
    BY <1>3, <1>4, EmptySeq
  <2>2. val.lo_freq_hz = asked /\ \A d \in Clients : Plain(todo[d])
    BY <1>3, <1>4, <2>1 DEF LoInv
  <2> QED  BY <1>1, <2>2 DEF CtlInv
<1>5. LoInv'
  BY <1>1, <1>3, <1>4 DEF LoInv, CtlInv
<1> QED  BY <1>2, <1>5

(* ... or with the one store of a frequency, which was read just now.      *)
LEMMA ApiLoInv ==
  ASSUME CtlInv, LoInv, NEW c \in Clients, ApiLo(c)
  PROVE  CtlInv' /\ LoInv'
<1>1. PICK delta \in Deltas :
        /\ Begin(c, "lo", << <<"lo_freq_hz", val.lo_freq_hz + delta>> >>)
        /\ asked' = asked + delta
  BY DEF ApiLo
<1> DEFINE x == <<"lo_freq_hz", val.lo_freq_hz + delta>>
<1>2. delta \in Int /\ val.lo_freq_hz \in Int
  BY ControlsAssumption DEF ControlsAssumption, CtlInv, Values
<1>3. x \in Stores
  BY <1>2 DEF Stores
<1>4. << x >> \in Seq(Stores)
  BY <1>3
<1>5. /\ todo[c] = <<>> /\ todo' = [todo EXCEPT ![c] = << x >>]
      /\ clean' = (clean /\ Active = {}) /\ UNCHANGED <<val, device, rx>>
  BY <1>1 DEF Begin
<1>6. CtlInv'
  <2>1. todo' \in [Clients -> Seq(Stores)]
    BY <1>4, <1>5, TodoType DEF CtlInv
  <2>2. asked' \in Int
    <3>1. asked \in Int /\ asked' = asked + delta
      BY <1>1 DEF CtlInv
    <3> QED  BY <1>2, <3>1
  <2>3. clean' \in BOOLEAN
    BY <1>5 DEF CtlInv
  <2> QED  BY <1>5, <2>1, <2>2, <2>3 DEF CtlInv
<1>7. ASSUME clean' PROVE clean /\ \A d \in Clients : todo[d] = <<>>
  BY <1>5, <1>7 DEF Active, CtlInv
<1>8. ASSUME clean' PROVE val.lo_freq_hz = asked
  <2>1. \A d \in Clients : todo[d] # << <<"lo_freq_hz", asked>> >>
    BY <1>7, <1>8, EmptySeq
  <2> QED  BY <1>7, <1>8, <2>1 DEF LoInv
<1>9. ASSUME clean' PROVE todo'[c] = << <<"lo_freq_hz", asked'>> >>
  BY <1>1, <1>5, <1>8, <1>9 DEF CtlInv
<1>10. LoInv'
  BY <1>5, <1>7, <1>9 DEF LoInv, CtlInv
<1> QED  BY <1>6, <1>10

(* The other requests.                                                     *)
LEMMA RequestInv ==
  ASSUME CtlInv, LoInv, NEW c \in Clients, Request(c)
  PROVE  CtlInv' /\ LoInv'
<1>1. CASE ApiGain(c)
  <2>1. PICK dir \in {-1, 1} :
          Begin(c, "gain", << <<"rx_gain_dB", Clamp(val.rx_gain_dB + dir)>> >>)
    BY <1>1 DEF ApiGain
  <2> DEFINE x == <<"rx_gain_dB", Clamp(val.rx_gain_dB + dir)>>
  <2>2. x \in Stores
    <3>0. val.rx_gain_dB \in MinGain..MaxGain
      BY DEF CtlInv, Values
    <3>1. val.rx_gain_dB + dir \in Int
      BY <3>0, CtlNumbers
    <3> QED  BY <3>1, CtlNumbers DEF Stores
  <2>3. << x >> \in Seq(Stores) /\ Plain(<< x >>)
    BY <2>2, OneStore
  <2> QED  BY <1>1, <2>1, <2>3, BeginPlain DEF ApiGain
<1>2. CASE ApiView(c)
  <2>1. PICK v \in Views : Begin(c, "view", << <<"view_mode", v>> >>)
    BY <1>2 DEF ApiView
  <2>2. <<"view_mode", v>> \in Stores
    BY DEF Stores
  <2>3. << <<"view_mode", v>> >> \in Seq(Stores) /\ Plain(<< <<"view_mode", v>> >>)
    BY <2>2, OneStore
  <2> QED  BY <1>2, <2>1, <2>3, BeginPlain DEF ApiView
<1>3. CASE Stop(c)
  <2>1. <<"td_running", FALSE>> \in Stores
    BY DEF Stores
  <2>2. << <<"td_running", FALSE>> >> \in Seq(Stores) /\ Plain(<< <<"td_running", FALSE>> >>)
    BY <2>1, OneStore
  <2> QED  BY <1>3, <2>2, BeginPlain DEF Stop
<1>4. ASSUME NEW t \in {Chipset} \cup Devices, Start(c, t) PROVE CtlInv' /\ LoInv'
  <2> DEFINE run == <<"td_running", TRUE>>
             has(b) == <<"td_has_ntw", b>>
             chip(t0) == <<"td_chipset", t0>>
             id(d) == <<"td_ntw_id", d>>
  <2>0. run \in Stores /\ has(TRUE) \in Stores /\ has(FALSE) \in Stores
        /\ chip(NoTarget) \in Stores /\ chip(Chipset) \in Stores
        /\ \A d \in Devices : id(d) \in Stores
    BY DEF Stores
  <2>1. ChipsetStores \in Seq(Stores) /\ Plain(ChipsetStores)
    <3>1. ChipsetStores = <<chip(Chipset), has(FALSE), run>>
      BY DEF ChipsetStores
    <3>2. <<chip(Chipset), has(FALSE), run>> \in Seq(Stores)
      <4>1. run \in Stores /\ has(FALSE) \in Stores /\ chip(Chipset) \in Stores
        BY <2>0
      <4> HIDE DEF chip, has, run
      <4> QED  BY <4>1, ShortSeqs, Zenon
    <3>3. Plain(<<chip(Chipset), has(FALSE), run>>)
      BY DEF Plain
    <3> QED  BY <3>1, <3>2, <3>3
  <2>2. t \in Devices => DeviceStores(t) \in Seq(Stores) /\ Plain(DeviceStores(t))
    <3> SUFFICES ASSUME t \in Devices
                 PROVE  DeviceStores(t) \in Seq(Stores) /\ Plain(DeviceStores(t))
      OBVIOUS
    <3>1. DeviceStores(t) = <<id(t), has(TRUE), chip(NoTarget), run>>
      BY DEF DeviceStores
    <3>2. <<id(t), has(TRUE), chip(NoTarget), run>> \in Seq(Stores)
      <4>1. /\ id(t) \in Stores /\ has(TRUE) \in Stores
            /\ chip(NoTarget) \in Stores /\ run \in Stores
        BY <2>0
      <4> HIDE DEF chip, has, run, id
      <4> QED  BY <4>1, ShortSeqs, Zenon
    <3>3. Plain(<<id(t), has(TRUE), chip(NoTarget), run>>)
      BY DEF Plain
    <3> QED  BY <3>1, <3>2, <3>3
  <2>3. PICK s \in Seq(Stores) : Plain(s) /\ Begin(c, "target", s)
    BY <1>4, <2>1, <2>2 DEF Start
  <2> QED  BY <1>4, <2>3, BeginPlain DEF Start
<1> QED  BY <1>1, <1>2, <1>3, <1>4, ApiLoInv DEF Request

(* A store of another value, or of the frequency the requests add up to.   *)
LEMMA StoreInv ==
  ASSUME CtlInv, LoInv, NEW c \in Clients, Store(c)
  PROVE  CtlInv' /\ LoInv'
<1>1. /\ todo[c] # <<>> /\ val' = [val EXCEPT ![Head(todo[c])[1]] = Head(todo[c])[2]]
      /\ todo' = [todo EXCEPT ![c] = Tail(todo[c])]
      /\ UNCHANGED <<device, rx, asked, clean>>
  BY DEF Store
<1>2. todo[c] \in Seq(Stores)
  BY DEF CtlInv
<1>3. Head(todo[c]) \in Stores /\ Tail(todo[c]) \in Seq(Stores)
  BY <1>1, <1>2, RestOfStores
<1>4. /\ val' \in Values
      /\ Head(todo[c])[1] # "lo_freq_hz" => val'.lo_freq_hz = val.lo_freq_hz
      /\ Head(todo[c])[1] = "lo_freq_hz" => val'.lo_freq_hz = Head(todo[c])[2]
  BY <1>1, <1>3, StoreValue DEF CtlInv
<1>5. CtlInv'
  BY <1>1, <1>3, <1>4 DEF CtlInv
<1>6. ASSUME clean PROVE \A d \in Clients \ {c} : todo[d] = <<>>
  BY <1>1, <1>6 DEF LoInv
<1>7. ASSUME clean
      PROVE  val'.lo_freq_hz = asked' /\ Plain(todo'[c])
  <2>1. CASE todo[c] = << <<"lo_freq_hz", asked>> >>
    <3>1. Head(todo[c]) = <<"lo_freq_hz", asked>> /\ Tail(todo[c]) = <<>>
      BY <2>1
    <3>2. Plain(<<>>)
      BY EmptySeq DEF Plain
    <3>3. Head(todo[c])[1] = "lo_freq_hz" /\ Head(todo[c])[2] = asked
      BY <3>1
    <3>4. val'.lo_freq_hz = asked'
      BY <1>1, <1>4, <3>3
    <3>5. todo'[c] = <<>>
      BY <1>1, <3>1 DEF CtlInv
    <3> QED  BY <3>2, <3>4, <3>5
  <2>2. CASE val.lo_freq_hz = asked /\ \A d \in Clients : Plain(todo[d])
    <3>1. Head(todo[c])[1] # "lo_freq_hz" /\ Plain(Tail(todo[c]))
      BY <1>1, <1>2, <2>2, RestOfStores
    <3>2. todo'[c] = Tail(todo[c])
      BY <1>1 DEF CtlInv
    <3> QED  BY <1>1, <1>4, <2>2, <3>1, <3>2
  <2>3. \A d \in Clients : todo[d] = << <<"lo_freq_hz", asked>> >> => d = c
    BY <1>6, <1>7, EmptySeq
  <2>4. \/ \E d \in Clients : todo[d] = << <<"lo_freq_hz", asked>> >>
        \/ val.lo_freq_hz = asked /\ \A d \in Clients : Plain(todo[d])
    BY <1>7 DEF LoInv
  <2> QED  BY <2>1, <2>2, <2>3, <2>4
<1>8. ASSUME clean PROVE \A d \in Clients : Plain(todo'[d])
  <2>1. Plain(<<>>)
    BY EmptySeq DEF Plain
  <2> QED  BY <1>1, <1>6, <1>7, <1>8, <2>1 DEF CtlInv
<1>9. ASSUME clean, NEW d \in Clients, NEW e \in Clients, todo'[d] # <<>>, todo'[e] # <<>>
      PROVE  d = e
  BY <1>1, <1>6, <1>9 DEF CtlInv
<1>10. LoInv'
  BY <1>1, <1>7, <1>8, <1>9 DEF LoInv
<1> QED  BY <1>5, <1>10

(* A step of rx_loop that moves on to another stage and sets nothing.      *)
Moves(to) ==
  rx' \in RxType /\ rx'.pc = to /\ rx'.gain = rx.gain /\ rx'.lo = rx.lo

LEMMA RxMoves ==
  ASSUME CtlInv, UNCHANGED <<todo, asked, device>>, val' \in Values, clean' \in BOOLEAN,
         NEW to, to # "connect", Moves(to), to = "set gain" => rx'.new \in MinGain..MaxGain
  PROVE  CtlInv' /\ rx'.pc = to
  BY DEF CtlInv, Moves

LEMMA GoOnMoves ==
  ASSUME CtlInv, NEW from, NEW to \in RxStages, NEW new \in Int, RxGoOn(from, to, new)
  PROVE  Moves(to) /\ rx'.new = new /\ rx.pc = from
<1>1. rx \in RxType
  BY DEF CtlInv
<1> QED  BY <1>1 DEF RxGoOn, Moves, RxType

(* rx_loop writes the gain back, and the frequency only if it was refused.  *)
LEMMA RadioInv ==
  ASSUME CtlInv, LoInv, RxLoop
  PROVE  CtlInv' /\ LoInv'
<1>0. /\ val \in Values /\ val.rx_gain_dB \in MinGain..MaxGain /\ val.lo_freq_hz \in Int
      /\ clean \in BOOLEAN
  BY DEF CtlInv, Values
<1>1. UNCHANGED <<todo, asked>>
  BY DEF RxLoop, RxConnect, RxCompareGain, RxReadGain, RxSetGain, RxSetGainFails,
         RxStoreGain, RxCompareLo, RxReadLo, RxSetLo, RxRefuseLo, RxTakeBack, RxGoOn, apiVars
<1>2. /\ 0 \in Int /\ "gain" \in RxStages /\ "read gain" \in RxStages
      /\ "set gain" \in RxStages /\ "store gain" \in RxStages /\ "lo" \in RxStages
      /\ "read lo" \in RxStages /\ "set lo" \in RxStages /\ "take back" \in RxStages
  BY DEF RxStages
<1> DEFINE Kept == CtlInv' /\ rx'.pc # "take back" /\ val'.lo_freq_hz = val.lo_freq_hz
                   /\ clean' = clean
<1>3. Kept => CtlInv' /\ LoInv'
  <2> SUFFICES ASSUME Kept PROVE LoInv'
    OBVIOUS
  <2> QED  BY <1>1 DEF LoInv, Plain
<1>4. ASSUME NEW to, to \notin {"connect", "take back"}, Moves(to),
             UNCHANGED <<val, device, clean>>, to = "set gain" => rx'.new \in MinGain..MaxGain
      PROVE  CtlInv' /\ LoInv'
  <2>1. CtlInv' /\ rx'.pc = to
    BY <1>0, <1>1, <1>4, RxMoves
  <2> QED  BY <1>3, <1>4, <2>1
<1>5. CASE RxConnect
  <2>1. val' \in Values /\ val'.lo_freq_hz = val.lo_freq_hz
    BY <1>0, <1>5, CtlNumbers DEF RxConnect, Values
  <2>2. RxGoOn("connect", "gain", 0)
    BY <1>5 DEF RxConnect
  <2>3. Moves("gain") /\ rx.pc = "connect"
    BY <1>2, <2>2, GoOnMoves
  <2>4. /\ rx' \in RxType /\ rx'.pc = "gain" /\ rx'.gain = InitialGain /\ rx'.lo = Center
    BY <2>3 DEF CtlInv, Moves
  <2>5. device' = [gain |-> InitialGain, lo |-> Center] /\ clean' = clean
    BY <1>5 DEF RxConnect
  <2>6. CtlInv'
    BY <1>0, <1>1, <2>1, <2>4, <2>5, CtlNumbers DEF CtlInv
  <2> QED  BY <1>3, <2>1, <2>4, <2>5, <2>6
<1>6. CASE RxStoreGain
  <2>1. rx.gain \in MinGain..MaxGain
    BY DEF CtlInv, RxType
  <2>2. val' \in Values /\ val'.lo_freq_hz = val.lo_freq_hz
    BY <1>0, <1>6, <2>1 DEF RxStoreGain, Values
  <2>3. RxGoOn("store gain", "lo", 0) /\ UNCHANGED <<device, clean>>
    BY <1>6 DEF RxStoreGain
  <2>4. Moves("lo")
    BY <1>2, <2>3, GoOnMoves
  <2>5. CtlInv' /\ rx'.pc = "lo"
    BY <1>0, <1>1, <2>2, <2>3, <2>4, RxMoves
  <2> QED  BY <1>3, <2>2, <2>3, <2>5
<1>7. CASE RxTakeBack
  <2>1. rx.lo \in Int
    BY CtlNumbers DEF CtlInv, RxType
  <2>2. val' \in Values
    BY <1>0, <1>7, <2>1 DEF RxTakeBack, Values
  <2>3. RxGoOn("take back", "gain", 0) /\ UNCHANGED <<device, clean>>
    BY <1>7 DEF RxTakeBack
  <2>4. Moves("gain") /\ rx.pc = "take back"
    BY <1>2, <2>3, GoOnMoves
  <2>5. CtlInv'
    BY <1>0, <1>1, <2>2, <2>3, <2>4, RxMoves
  <2>6. ~clean'
    BY <2>3, <2>4 DEF LoInv
  <2> QED  BY <2>5, <2>6 DEF LoInv
<1>8. CASE RxRefuseLo
  <2>1. RxGoOn("set lo", "take back", 0) /\ clean' = FALSE /\ UNCHANGED <<val, device>>
    BY <1>8 DEF RxRefuseLo
  <2>2. Moves("take back")
    BY <1>2, <2>1, GoOnMoves
  <2>3. CtlInv'
    BY <1>0, <1>1, <2>1, <2>2, RxMoves
  <2> QED  BY <2>1, <2>3 DEF LoInv
<1>9. CASE RxCompareGain
  <2>1. /\ RxGoOn("gain", "read gain", 0) \/ RxGoOn("gain", "lo", 0)
        /\ UNCHANGED <<val, device, clean>>
    BY <1>9 DEF RxCompareGain
  <2>2. Moves("read gain") \/ Moves("lo")
    BY <1>2, <2>1, GoOnMoves
  <2> QED  BY <1>4, <2>1, <2>2
<1>10. CASE RxReadGain
  <2>1. Clamp(val.rx_gain_dB) \in MinGain..MaxGain /\ Clamp(val.rx_gain_dB) \in Int
    BY <1>0, CtlNumbers
  <2>2. /\ RxGoOn("read gain", "set gain", Clamp(val.rx_gain_dB))
        /\ UNCHANGED <<val, device, clean>>
    BY <1>10 DEF RxReadGain
  <2>3. Moves("set gain") /\ rx'.new = Clamp(val.rx_gain_dB)
    BY <1>2, <2>1, <2>2, GoOnMoves
  <2> QED  BY <1>4, <2>1, <2>2, <2>3
<1>11. CASE RxSetGainFails
  <2>1. RxGoOn("set gain", "store gain", 0) /\ UNCHANGED <<val, device, clean>>
    BY <1>11 DEF RxSetGainFails
  <2>2. Moves("store gain")
    BY <1>2, <2>1, GoOnMoves
  <2> QED  BY <1>4, <2>1, <2>2
<1>12. CASE RxCompareLo
  <2>1. /\ RxGoOn("lo", "read lo", 0) \/ RxGoOn("lo", "gain", 0)
        /\ UNCHANGED <<val, device, clean>>
    BY <1>12 DEF RxCompareLo
  <2>2. Moves("read lo") \/ Moves("gain")
    BY <1>2, <2>1, GoOnMoves
  <2> QED  BY <1>4, <2>1, <2>2
<1>13. CASE RxReadLo
  <2>1. RxGoOn("read lo", "set lo", val.lo_freq_hz) /\ UNCHANGED <<val, device, clean>>
    BY <1>13 DEF RxReadLo
  <2>2. Moves("set lo")
    BY <1>0, <1>2, <2>1, GoOnMoves
  <2> QED  BY <1>4, <2>1, <2>2
<1>14. CASE RxSetGain \/ RxSetLo
  <2>1. /\ CtlInv' /\ rx'.pc # "take back" /\ UNCHANGED <<val, clean>>
    BY <1>1, <1>14 DEF RxSetGain, RxSetLo, CtlInv, RxType, RxStages
  <2> QED  BY <1>3, <2>1
<1> QED  BY <1>5, <1>6, <1>7, <1>8, <1>9, <1>10, <1>11, <1>12, <1>13, <1>14 DEF RxLoop

(* What is no request, no store and no step of rx_loop leaves the values.  *)
LEMMA OthersLeave ==
  ASSUME Processor \/ FeedJob \/ Renderer \/ DrainDrawn \/ DrainRendered \/ UNCHANGED vars
  PROVE  UNCHANGED <<val, device, rx, todo, asked, clean>>
<1>1. CASE Processor
  BY <1>1 DEF Processor, DrawOrSubmit, DrawFails, DropStale, PutJob, ReadRunning, ReadChipset,
              ReadHas, ReadId, Publish, Proc, apiVars, ctlVars
<1>2. CASE FeedJob \/ DrainDrawn \/ DrainRendered \/ UNCHANGED vars
  BY <1>2 DEF FeedJob, DrainDrawn, DrainRendered, vars, ctlVars, apiVars
<1>3. CASE Renderer
  BY <1>3 DEF Renderer, StartGet, GetEmpty, GetJob, RenderJob, RenderFails, Rend,
              ctlVars, apiVars
<1> QED  BY <1>1, <1>2, <1>3

-----------------------------------------------------------------------------
(* The capture target.  Stores of its values, and those a request has left *)
(* to make when it is the only one.                                        *)
TargetValues == {"td_chipset", "td_has_ntw", "td_ntw_id"}
NoTargetStores(s) == \A i \in 1..Len(s) : s[i][1] \notin TargetValues

InTurn(c) ==
  \/ NoTargetStores(todo[c])
  \/ /\ wanted = Chipset
     /\ \/ todo[c] = ChipsetStores
        \/ todo[c] = Tail(ChipsetStores) /\ val.td_chipset = Chipset
  \/ /\ wanted \in Devices
     /\ \/ todo[c] = DeviceStores(wanted)
        \/ todo[c] = Tail(DeviceStores(wanted)) /\ val.td_ntw_id = wanted
        \/ todo[c] = Tail(Tail(DeviceStores(wanted))) /\ val.td_ntw_id = wanted

(* When no target is being set, the values are those of the last request.  *)
TurnInv ==
  clean =>
    /\ \A c \in Clients : InTurn(c)
    /\ (\A c \in Clients : NoTargetStores(todo[c])) =>
         /\ val.td_chipset = Chipset => wanted = Chipset
         /\ val.td_has_ntw => wanted = val.td_ntw_id

(* What the processor may find was set since it began to read.             *)
SeenInv ==
  clean =>
    /\ wanted \in recent
    /\ val.td_chipset = Chipset => Chipset \in recent
    /\ val.td_has_ntw \/ pc = "id" => val.td_ntw_id \in recent
    /\ pc \in {"has", "publish"} => goal \in recent \cup {NoTarget}

LEMMA TailsOfShort ==
  ASSUME NEW a, NEW b, NEW c, NEW d
  PROVE  /\ Head(<<a, b>>) = a /\ Tail(<<a, b>>) = << b >>
         /\ Head(<<a, b, c>>) = a /\ Tail(<<a, b, c>>) = <<b, c>>
         /\ Head(<<a, b, c, d>>) = a /\ Tail(<<a, b, c, d>>) = <<b, c, d>>
  OBVIOUS

LEMMA FirstOfShort ==
  ASSUME NEW a, NEW b, NEW c, NEW d
  PROVE  /\ NoTargetStores(<< a >>) <=> a[1] \notin TargetValues
         /\ NoTargetStores(<<a, b>>) => a[1] \notin TargetValues
         /\ NoTargetStores(<<a, b, c>>) => a[1] \notin TargetValues
         /\ NoTargetStores(<<a, b, c, d>>) => a[1] \notin TargetValues
  BY DEF NoTargetStores

(* The stores of the two requests that set a target, one after the other.  *)
LEMMA ChipsetSteps ==
  /\ Head(ChipsetStores) = <<"td_chipset", Chipset>>
  /\ Head(Tail(ChipsetStores)) = <<"td_has_ntw", FALSE>>
  /\ NoTargetStores(Tail(Tail(ChipsetStores)))
  /\ ~NoTargetStores(ChipsetStores) /\ ~NoTargetStores(Tail(ChipsetStores))
<1> DEFINE a == <<"td_chipset", Chipset>>
           b == <<"td_has_ntw", FALSE>>
           run == <<"td_running", TRUE>>
<1>1. ChipsetStores = <<a, b, run>>
  BY DEF ChipsetStores
<1>2. a[1] \in TargetValues /\ b[1] \in TargetValues /\ run[1] \notin TargetValues
  BY DEF TargetValues
<1> HIDE DEF a, b, run
<1>3. Tail(ChipsetStores) = <<b, run>> /\ Head(ChipsetStores) = a /\ Head(Tail(ChipsetStores)) = b
      /\ Tail(Tail(ChipsetStores)) = << run >>
  BY <1>1, TailsOfShort
<1>4. NoTargetStores(<< run >>) /\ ~NoTargetStores(<<b, run>>) /\ ~NoTargetStores(<<a, b, run>>)
  BY <1>2, FirstOfShort, Zenon
<1> QED  BY <1>1, <1>3, <1>4 DEF a, b

LEMMA DeviceSteps ==
  ASSUME NEW t
  PROVE  /\ Head(DeviceStores(t)) = <<"td_ntw_id", t>>
         /\ Head(Tail(DeviceStores(t))) = <<"td_has_ntw", TRUE>>
         /\ Head(Tail(Tail(DeviceStores(t)))) = <<"td_chipset", NoTarget>>
         /\ NoTargetStores(Tail(Tail(Tail(DeviceStores(t)))))
         /\ ~NoTargetStores(DeviceStores(t)) /\ ~NoTargetStores(Tail(DeviceStores(t)))
         /\ ~NoTargetStores(Tail(Tail(DeviceStores(t))))
<1> DEFINE s == DeviceStores(t)
           a == <<"td_ntw_id", t>>
           b == <<"td_has_ntw", TRUE>>
           d == <<"td_chipset", NoTarget>>
           run == <<"td_running", TRUE>>
<1>1. s = <<a, b, d, run>>
  BY DEF DeviceStores
<1>2. /\ a[1] \in TargetValues /\ b[1] \in TargetValues /\ d[1] \in TargetValues
      /\ run[1] \notin TargetValues
  BY DEF TargetValues
<1> HIDE DEF s, a, b, d, run
<1>3. /\ Tail(s) = <<b, d, run>> /\ Tail(Tail(s)) = <<d, run>> /\ Tail(Tail(Tail(s))) = << run >>
      /\ Head(s) = a /\ Head(Tail(s)) = b /\ Head(Tail(Tail(s))) = d
  BY <1>1, TailsOfShort
<1>4. /\ NoTargetStores(<< run >>) /\ ~NoTargetStores(<<d, run>>)
      /\ ~NoTargetStores(<<b, d, run>>) /\ ~NoTargetStores(<<a, b, d, run>>)
  BY <1>2, FirstOfShort, Zenon
<1> QED  BY <1>1, <1>3, <1>4 DEF s, a, b, d

(* One store sets one of the values of the target, or none.                *)
LEMMA StoreTarget ==
  ASSUME val \in Values, NEW x \in Stores
  PROVE  LET new == [val EXCEPT ![x[1]] = x[2]]
         IN  /\ x[1] # "td_chipset" => new.td_chipset = val.td_chipset
             /\ x[1] = "td_chipset" => new.td_chipset = x[2]
             /\ x[1] # "td_has_ntw" => new.td_has_ntw = val.td_has_ntw
             /\ x[1] = "td_has_ntw" => new.td_has_ntw = x[2]
             /\ x[1] # "td_ntw_id" => new.td_ntw_id = val.td_ntw_id
             /\ x[1] = "td_ntw_id" => new.td_ntw_id = x[2]
  BY DEF Values, Stores

LEMMA RestNoTarget ==
  ASSUME NEW s \in Seq(Stores), s # <<>>, NoTargetStores(s)
  PROVE  Head(s)[1] \notin TargetValues /\ NoTargetStores(Tail(s))
<1>1. Len(s) \in Nat \ {0} /\ Len(Tail(s)) = Len(s) - 1
  BY EmptySeq, HeadTailProperties
<1>2. Head(s) = s[1] /\ \A i \in 1..Len(Tail(s)) : Tail(s)[i] = s[i+1]
  BY <1>1, HeadTailProperties
<1>3. Head(s)[1] \notin TargetValues
  BY <1>1, <1>2 DEF NoTargetStores
<1>4. ASSUME NEW i \in 1..Len(Tail(s)) PROVE Tail(s)[i][1] \notin TargetValues
  <2>1. i + 1 \in 1..Len(s)
    BY <1>1
  <2> QED  BY <1>2, <2>1 DEF NoTargetStores
<1> QED  BY <1>3, <1>4 DEF NoTargetStores

LEMMA NothingIsNoTarget == NoTargetStores(<<>>)
  BY EmptySeq DEF NoTargetStores

(* A request of another kind begins.                                       *)
LEMMA BeginOther ==
  ASSUME CtlInv, LoInv, TurnInv, SeenInv, NEW c \in Clients, NEW kind, NEW s,
         NoTargetStores(s), Begin(c, kind, s), UNCHANGED <<wanted, recent, pc, goal>>
  PROVE  TurnInv' /\ SeenInv'
<1>1. /\ todo[c] = <<>> /\ todo' = [todo EXCEPT ![c] = s]
      /\ clean' => clean /\ UNCHANGED val
  BY DEF Begin
<1>2. SeenInv'
  BY <1>1 DEF SeenInv
<1>3. \A d \in Clients : todo'[d] = IF d = c THEN s ELSE todo[d]
  BY <1>1 DEF CtlInv
<1>4. ASSUME clean', NEW d \in Clients PROVE InTurn(d)'
  <2>1. CASE d = c
    BY <1>3, <2>1 DEF InTurn
  <2>2. CASE d # c
    <3>1. todo'[d] = todo[d] /\ InTurn(d)
      BY <1>1, <1>3, <1>4, <2>2 DEF TurnInv
    <3> QED  BY <1>1, <1>4, <3>1 DEF InTurn
  <2> QED  BY <2>1, <2>2
<1>5. ASSUME clean', \A d \in Clients : NoTargetStores(todo'[d])
      PROVE  \A d \in Clients : NoTargetStores(todo[d])
  BY <1>1, <1>3, <1>5, NothingIsNoTarget
<1> QED  BY <1>1, <1>2, <1>4, <1>5 DEF TurnInv

(* A search begins: the only request, or the behaviour is not clean.       *)
LEMMA BeginTarget ==
  ASSUME CtlInv, LoInv, TurnInv, SeenInv, NEW c \in Clients,
         NEW t \in {Chipset} \cup Devices, Start(c, t), UNCHANGED <<pc, goal>>
  PROVE  TurnInv' /\ SeenInv'
<1> DEFINE s == IF t = Chipset THEN ChipsetStores ELSE DeviceStores(t)
<1>1. /\ todo[c] = <<>> /\ todo' = [todo EXCEPT ![c] = s]
      /\ clean' = (clean /\ Active = {}) /\ UNCHANGED val
      /\ wanted' = t /\ recent' = recent \cup {t}
  BY DEF Begin, Start
<1>2. SeenInv'
  BY <1>1 DEF SeenInv
<1>3. \A d \in Clients : todo'[d] = IF d = c THEN s ELSE todo[d]
  BY <1>1 DEF CtlInv
<1>4. ~NoTargetStores(todo'[c])
  BY <1>3, ChipsetSteps, DeviceSteps
<1>5. InTurn(c)'
  BY <1>1, <1>3 DEF InTurn
<1>6. ASSUME clean', NEW d \in Clients, d # c PROVE InTurn(d)'
  <2>1. todo'[d] = <<>>
    BY <1>1, <1>3, <1>6 DEF Active
  <2> QED  BY <2>1, NothingIsNoTarget DEF InTurn
<1> QED  BY <1>2, <1>4, <1>5, <1>6 DEF TurnInv

LEMMA RequestTarget ==
  ASSUME CtlInv, LoInv, TurnInv, SeenInv, NEW c \in Clients, Request(c),
         UNCHANGED <<pc, goal>>
  PROVE  TurnInv' /\ SeenInv'
<1>1. \A x : x[1] \notin TargetValues <=> NoTargetStores(<< x >>)
  BY FirstOfShort
<1>2. CASE ApiGain(c)
  <2>1. PICK dir \in {-1, 1} :
          Begin(c, "gain", << <<"rx_gain_dB", Clamp(val.rx_gain_dB + dir)>> >>)
    BY <1>2 DEF ApiGain
  <2> DEFINE x == <<"rx_gain_dB", Clamp(val.rx_gain_dB + dir)>>
  <2>2. x[1] \notin TargetValues
    BY DEF TargetValues
  <2>3. NoTargetStores(<< x >>)
    BY <1>1, <2>2
  <2>4. UNCHANGED <<wanted, recent>>
    BY <1>2 DEF ApiGain
  <2> QED  BY <2>1, <2>3, <2>4, BeginOther
<1>3. CASE ApiLo(c)
  <2>1. PICK delta \in Deltas : Begin(c, "lo", << <<"lo_freq_hz", val.lo_freq_hz + delta>> >>)
    BY <1>3 DEF ApiLo
  <2> DEFINE x == <<"lo_freq_hz", val.lo_freq_hz + delta>>
  <2>2. x[1] \notin TargetValues
    BY DEF TargetValues
  <2>3. NoTargetStores(<< x >>)
    BY <1>1, <2>2
  <2>4. UNCHANGED <<wanted, recent>>
    BY <1>3 DEF ApiLo
  <2> QED  BY <2>1, <2>3, <2>4, BeginOther
<1>4. CASE ApiView(c)
  <2>1. PICK v \in Views : Begin(c, "view", << <<"view_mode", v>> >>)
    BY <1>4 DEF ApiView
  <2> DEFINE x == <<"view_mode", v>>
  <2>2. x[1] \notin TargetValues
    BY DEF TargetValues
  <2>3. NoTargetStores(<< x >>)
    BY <1>1, <2>2
  <2>4. UNCHANGED <<wanted, recent>>
    BY <1>4 DEF ApiView
  <2> QED  BY <2>1, <2>3, <2>4, BeginOther
<1>5. CASE Stop(c)
  <2> DEFINE x == <<"td_running", FALSE>>
  <2>1. Begin(c, "target", << x >>) /\ UNCHANGED <<wanted, recent>>
    BY <1>5 DEF Stop
  <2>2. x[1] \notin TargetValues
    BY DEF TargetValues
  <2>3. NoTargetStores(<< x >>)
    BY <1>1, <2>2
  <2> QED  BY <2>1, <2>3, BeginOther
<1>6. ASSUME NEW t \in {Chipset} \cup Devices, Start(c, t) PROVE TurnInv' /\ SeenInv'
  BY <1>6, BeginTarget
<1> QED  BY <1>2, <1>3, <1>4, <1>5, <1>6 DEF Request

(* The next store of the only request.                                     *)
LEMMA StoreOfTarget ==
  ASSUME CtlInv, LoInv, TurnInv, SeenInv, NEW c \in Clients, Store(c), UNCHANGED <<pc, goal>>
  PROVE  TurnInv' /\ SeenInv'
<1> SUFFICES ASSUME clean PROVE TurnInv' /\ SeenInv'
  BY DEF Store, TurnInv, SeenInv
<1> DEFINE x == Head(todo[c])
           rest == Tail(todo[c])
<1>1. /\ todo[c] # <<>> /\ val' = [val EXCEPT ![x[1]] = x[2]]
      /\ todo' = [todo EXCEPT ![c] = rest]
      /\ UNCHANGED <<wanted, recent, clean>>
  BY DEF Store
<1>2. todo[c] \in Seq(Stores) /\ x \in Stores
  BY <1>1, RestOfStores DEF CtlInv
<1>3. /\ x[1] # "td_chipset" => val'.td_chipset = val.td_chipset
      /\ x[1] = "td_chipset" => val'.td_chipset = x[2]
      /\ x[1] # "td_has_ntw" => val'.td_has_ntw = val.td_has_ntw
      /\ x[1] = "td_has_ntw" => val'.td_has_ntw = x[2]
      /\ x[1] # "td_ntw_id" => val'.td_ntw_id = val.td_ntw_id
      /\ x[1] = "td_ntw_id" => val'.td_ntw_id = x[2]
  BY <1>1, <1>2, StoreTarget DEF CtlInv
<1>4. todo'[c] = rest /\ \A d \in Clients : d # c => todo'[d] = todo[d] /\ todo[d] = <<>>
  BY <1>1 DEF CtlInv, LoInv
<1>5. \A d \in Clients : d # c => NoTargetStores(todo'[d]) /\ InTurn(d)'
  BY <1>4, NothingIsNoTarget DEF InTurn
<1>6. Chipset # NoTarget /\ Chipset \notin Devices
  BY ControlsAssumption DEF ControlsAssumption, NoTarget
<1> HIDE DEF x, rest
<1> DEFINE Left == InTurn(c)' /\ (NoTargetStores(todo'[c]) =>
                     /\ val'.td_chipset = Chipset => wanted = Chipset
                     /\ val'.td_has_ntw => wanted = val'.td_ntw_id)
           Seen == /\ val'.td_chipset = Chipset => Chipset \in recent
                   /\ val'.td_has_ntw \/ pc = "id" => val'.td_ntw_id \in recent
<1>7. ASSUME NoTargetStores(todo[c])
      PROVE  Left /\ Seen
  <2>1. x[1] \notin TargetValues /\ NoTargetStores(rest)
    BY <1>1, <1>2, <1>7, RestNoTarget DEF x, rest
  <2>2. /\ val'.td_chipset = val.td_chipset /\ val'.td_has_ntw = val.td_has_ntw
        /\ val'.td_ntw_id = val.td_ntw_id
    BY <1>3, <2>1 DEF TargetValues
  <2>3. \A d \in Clients : NoTargetStores(todo[d])
    BY <1>4, <1>7, NothingIsNoTarget
  <2>4. /\ val.td_chipset = Chipset => wanted = Chipset
        /\ val.td_has_ntw => wanted = val.td_ntw_id
    BY <2>3 DEF TurnInv
  <2> QED  BY <1>4, <2>1, <2>2, <2>4 DEF InTurn, SeenInv
<1>8. ASSUME wanted = Chipset, todo[c] = ChipsetStores
      PROVE  Left /\ Seen
  <2>1. x = <<"td_chipset", Chipset>> /\ rest = Tail(ChipsetStores)
    BY <1>8, ChipsetSteps DEF x, rest
  <2>2. /\ val'.td_chipset = Chipset /\ val'.td_has_ntw = val.td_has_ntw
        /\ val'.td_ntw_id = val.td_ntw_id
    BY <1>3, <2>1
  <2>3. Left
    BY <1>1, <1>4, <1>8, <2>1, <2>2, ChipsetSteps DEF InTurn
  <2>4. Seen
    BY <1>8, <2>2 DEF SeenInv
  <2> QED  BY <2>3, <2>4
<1>9. ASSUME wanted = Chipset, todo[c] = Tail(ChipsetStores), val.td_chipset = Chipset
      PROVE  Left /\ Seen
  <2>1. x = <<"td_has_ntw", FALSE>> /\ rest = Tail(Tail(ChipsetStores))
    BY <1>9, ChipsetSteps DEF x, rest
  <2>2. /\ val'.td_chipset = val.td_chipset /\ val'.td_has_ntw = FALSE
        /\ val'.td_ntw_id = val.td_ntw_id
    BY <1>3, <2>1
  <2>3. Left
    BY <1>1, <1>4, <1>9, <2>1, <2>2, ChipsetSteps DEF InTurn
  <2>4. Seen
    BY <1>9, <2>2 DEF SeenInv
  <2> QED  BY <2>3, <2>4
<1>10. ASSUME wanted \in Devices, todo[c] = DeviceStores(wanted)
       PROVE  Left /\ Seen
  <2>1. x = <<"td_ntw_id", wanted>> /\ rest = Tail(DeviceStores(wanted))
    BY <1>10, DeviceSteps DEF x, rest
  <2>2. /\ val'.td_chipset = val.td_chipset /\ val'.td_has_ntw = val.td_has_ntw
        /\ val'.td_ntw_id = wanted
    BY <1>3, <2>1
  <2>3. Left
    BY <1>1, <1>4, <1>10, <2>1, <2>2, DeviceSteps DEF InTurn
  <2>4. Seen
    BY <1>10, <2>2 DEF SeenInv
  <2> QED  BY <2>3, <2>4
<1>11. ASSUME wanted \in Devices, todo[c] = Tail(DeviceStores(wanted)), val.td_ntw_id = wanted
       PROVE  Left /\ Seen
  <2>1. x = <<"td_has_ntw", TRUE>> /\ rest = Tail(Tail(DeviceStores(wanted)))
    BY <1>11, DeviceSteps DEF x, rest
  <2>2. /\ val'.td_chipset = val.td_chipset /\ val'.td_ntw_id = wanted
    BY <1>3, <1>11, <2>1
  <2>3. Left
    BY <1>1, <1>4, <1>11, <2>1, <2>2, DeviceSteps DEF InTurn
  <2>4. Seen
    BY <1>11, <2>2 DEF SeenInv
  <2> QED  BY <2>3, <2>4
<1>12. ASSUME wanted \in Devices, val.td_ntw_id = wanted,
              todo[c] = Tail(Tail(DeviceStores(wanted)))
       PROVE  Left /\ Seen
  <2>1. /\ x = <<"td_chipset", NoTarget>>
        /\ rest = Tail(Tail(Tail(DeviceStores(wanted))))
    BY <1>12, DeviceSteps DEF x, rest
  <2>2. /\ val'.td_chipset = NoTarget /\ val'.td_has_ntw = val.td_has_ntw
        /\ val'.td_ntw_id = wanted
    BY <1>3, <1>12, <2>1
  <2>3. Left
    BY <1>1, <1>4, <1>6, <1>12, <2>1, <2>2, DeviceSteps DEF InTurn
  <2>4. Seen
    BY <1>6, <1>12, <2>2 DEF SeenInv
  <2> QED  BY <2>3, <2>4
<1>13. Left /\ Seen
  <2>1. InTurn(c)
    BY DEF TurnInv
  <2> QED  BY <2>1, <1>7, <1>8, <1>9, <1>10, <1>11, <1>12 DEF InTurn
<1>14. TurnInv'
  BY <1>1, <1>5, <1>13 DEF TurnInv
<1>15. SeenInv'
  BY <1>1, <1>13 DEF SeenInv
<1> QED  BY <1>14, <1>15

(* rx_loop stores the gain and the frequency only.                         *)
LEMMA RadioTarget ==
  ASSUME CtlInv, TurnInv, SeenInv, Radio
  PROVE  TurnInv' /\ SeenInv'
<1>1. RxLoop /\ UNCHANGED <<pc, goal>>
  BY DEF Radio, DisplayUnchanged, procVars
<1>2. UNCHANGED <<todo, wanted, recent>>
  BY <1>1 DEF RxLoop, RxConnect, RxCompareGain, RxReadGain, RxSetGain, RxSetGainFails,
              RxStoreGain, RxCompareLo, RxReadLo, RxSetLo, RxRefuseLo, RxTakeBack, RxGoOn,
              apiVars
<1>3. clean' => clean
  BY <1>1 DEF RxLoop, RxConnect, RxCompareGain, RxReadGain, RxSetGain, RxSetGainFails,
              RxStoreGain, RxCompareLo, RxReadLo, RxSetLo, RxRefuseLo, RxTakeBack
<1>4. /\ val'.td_chipset = val.td_chipset /\ val'.td_has_ntw = val.td_has_ntw
      /\ val'.td_ntw_id = val.td_ntw_id
  <2>1. CASE RxConnect \/ RxStoreGain \/ RxTakeBack
    BY <2>1 DEF RxConnect, RxStoreGain, RxTakeBack, CtlInv, Values
  <2>2. CASE ~(RxConnect \/ RxStoreGain \/ RxTakeBack)
    BY <1>1, <2>2 DEF RxLoop, RxCompareGain, RxReadGain, RxSetGain, RxSetGainFails,
                      RxCompareLo, RxReadLo, RxSetLo, RxRefuseLo
  <2> QED  BY <2>1, <2>2
<1>5. TurnInv'
  BY <1>2, <1>3, <1>4 DEF TurnInv, InTurn
<1>6. SeenInv'
  BY <1>1, <1>2, <1>3, <1>4 DEF SeenInv
<1> QED  BY <1>5, <1>6

(* What is neither a request nor rx_loop leaves the values and the turn.   *)
LEMMA TurnStays ==
  ASSUME TurnInv, UNCHANGED <<val, todo, wanted, clean>>
  PROVE  TurnInv'
  BY DEF TurnInv, InTurn

(* The processor reads: whether, then a chipset, then a device.            *)
LEMMA ProcessorTarget ==
  ASSUME CtlInv, TurnInv, SeenInv, Processor
  PROVE  TurnInv' /\ SeenInv'
<1>1. UNCHANGED <<val, todo, wanted, clean>>
  BY DEF Processor, DrawOrSubmit, DrawFails, DropStale, PutJob, ReadRunning, ReadChipset,
         ReadHas, ReadId, Publish, Proc, ctlVars, apiVars
<1>2. ASSUME UNCHANGED <<recent, goal>>, pc' \notin {"has", "id", "publish"}
      PROVE  SeenInv'
  BY <1>1, <1>2 DEF SeenInv
<1>3. CASE DrawOrSubmit \/ DrawFails \/ DropStale \/ PutJob \/ Publish
  <2>1. UNCHANGED <<recent, goal>> /\ pc' \in {"view", "drop", "put", "running"}
    BY <1>3 DEF DrawOrSubmit, DrawFails, DropStale, PutJob, Publish, Proc, ctlVars
  <2> QED  BY <1>1, <1>2, <2>1, TurnStays
<1>4. CASE ReadRunning
  <2>1. /\ goal' = NoTarget /\ pc' \in {"chipset", "publish"}
        /\ recent' = IF Active = {} THEN {wanted} ELSE recent
    BY <1>4 DEF ReadRunning, Proc
  <2>2. CASE Active = {}
    <3>1. recent' = {wanted} /\ \A c \in Clients : NoTargetStores(todo[c])
      BY <2>1, <2>2, NothingIsNoTarget DEF Active
    <3> QED  BY <1>1, <2>1, <3>1, TurnStays DEF TurnInv, SeenInv
  <2>3. CASE Active # {}
    BY <1>1, <2>1, <2>3, TurnStays DEF SeenInv
  <2> QED  BY <2>2, <2>3
<1>5. CASE ReadChipset
  <2>1. /\ UNCHANGED recent /\ goal' = val.td_chipset /\ pc' \in {"has", "publish"}
    BY <1>5 DEF ReadChipset, Proc
  <2>2. val.td_chipset \in {NoTarget, Chipset}
    BY DEF CtlInv, Values
  <2> QED  BY <1>1, <2>1, <2>2, TurnStays DEF SeenInv
<1>6. CASE ReadHas
  <2>1. /\ UNCHANGED <<recent, goal>> /\ pc = "has"
        /\ pc' = "publish" \/ (pc' = "id" /\ val.td_has_ntw)
    BY <1>6 DEF ReadHas, Proc
  <2> QED  BY <1>1, <2>1, TurnStays DEF SeenInv
<1>7. CASE ReadId
  <2>1. UNCHANGED recent /\ goal' = val.td_ntw_id /\ pc = "id" /\ pc' = "publish"
    BY <1>7 DEF ReadId, Proc
  <2> QED  BY <1>1, <2>1, TurnStays DEF SeenInv
<1> QED  BY <1>3, <1>4, <1>5, <1>6, <1>7 DEF Processor

-----------------------------------------------------------------------------
(* What is drawn, and the places it passes through.                        *)
Picture == [view : Views \cup {"none"}, lo : Int]

DispInv ==
  /\ goal \in {NoTarget, Chipset} \cup Devices
  /\ work \in Picture /\ (pc \in {"drop", "put"} => work.view = "spectrum")
  /\ slot \in Picture /\ (slot = NoImage \/ slot.view = "spectrum")
  /\ slot = NoImage => ~written
  /\ renderer \in [pc : {"idle", "get", "draw"}, job : Picture]
  /\ renderer.pc = "draw" => renderer.job.view = "spectrum"
  /\ drawn \in Seq(Picture) /\ Len(drawn) <= MaxQueued
  /\ rendered \in Seq(Picture) /\ Len(rendered) <= MaxQueued

LEMMA Pictures ==
  /\ NoImage \in Picture /\ NoImage.view = "none"
  /\ \A v \in Views, f \in Int : Image(v, f) \in Picture /\ Image(v, f).view = v
  /\ RendererIdle \in [pc : {"idle", "get", "draw"}, job : Picture] /\ RendererIdle.pc = "idle"
  /\ MaxQueued \in Nat \ {0}
  BY CtlNumbers, DisplayAssumption DEF DisplayAssumption, NoImage, Picture, Image, Views, RendererIdle

(* A queue that is drained, and one that takes another image.              *)
LEMMA QueueSteps ==
  ASSUME NEW q \in Seq(Picture), Len(q) <= MaxQueued, NEW x \in Picture
  PROVE  /\ q # <<>> => Tail(q) \in Seq(Picture) /\ Len(Tail(q)) <= MaxQueued
         /\ Len(q) < MaxQueued => Append(q, x) \in Seq(Picture) /\ Len(Append(q, x)) <= MaxQueued
<1>1. MaxQueued \in Nat /\ Len(q) \in Nat
  BY Pictures
<1>2. CASE q # <<>>
  <2>1. Tail(q) \in Seq(Picture) /\ Len(Tail(q)) = Len(q) - 1
    BY <1>2, HeadTailProperties
  <2>2. Append(q, x) \in Seq(Picture) /\ Len(Append(q, x)) = Len(q) + 1
    BY AppendProperties
  <2> QED  BY <1>1, <2>1, <2>2
<1>3. Append(q, x) \in Seq(Picture) /\ Len(Append(q, x)) = Len(q) + 1
  BY AppendProperties
<1> QED  BY <1>1, <1>2, <1>3

LEMMA ProcessorDisp ==
  ASSUME CtlInv, DispInv, Processor
  PROVE  DispInv'
<1> USE Pictures
<1>0. /\ val.view_mode \in Views /\ val.lo_freq_hz \in Int /\ Center \in Int
      /\ val.td_chipset \in {NoTarget, Chipset} /\ val.td_ntw_id \in Devices
  BY CtlNumbers DEF CtlInv, Values
<1>1. UNCHANGED <<renderer, rendered>>
  BY DEF Processor, DrawOrSubmit, DrawFails, DropStale, PutJob, ReadRunning, ReadChipset,
         ReadHas, ReadId, Publish, Proc, rendererVars
<1>2. CASE DrawOrSubmit
  <2>1. /\ pc' = IF val.view_mode = "spectrum" THEN "drop" ELSE "running"
        /\ work' = IF val.view_mode = "spectrum" THEN Image("spectrum", val.lo_freq_hz)
                                             ELSE Image("spectrogram", Center)
        /\ UNCHANGED <<goal, slot, written, drawn>>
    BY <1>2 DEF DrawOrSubmit, Proc
  <2>2. "spectrum" \in Views /\ "spectrogram" \in Views
    BY DEF Views
  <2>3. work' \in Picture /\ (pc' \in {"drop", "put"} => work'.view = "spectrum")
    BY <1>0, <2>1, <2>2
  <2> QED  BY <1>1, <2>1, <2>3 DEF DispInv
<1>3. CASE DrawFails
  BY <1>3 DEF DrawFails, DispInv
<1>4. CASE DropStale
  BY <1>1, <1>4 DEF DropStale, Proc, DispInv
<1>5. CASE PutJob
  <2>1. pc = "put" /\ pc' = "running" /\ slot' = (IF slot = NoImage THEN work ELSE slot)
        /\ work' = NoImage /\ UNCHANGED <<goal, written, drawn>>
    BY <1>5 DEF PutJob, Proc
  <2>2. slot' \in Picture /\ slot'.view = "spectrum"
    BY <2>1 DEF DispInv
  <2> QED  BY <1>1, <2>1, <2>2 DEF DispInv
<1>6. CASE ReadRunning
  BY <1>1, <1>6 DEF ReadRunning, Proc, DispInv
<1>7. CASE ReadChipset
  BY <1>0, <1>1, <1>7 DEF ReadChipset, Proc, DispInv
<1>8. CASE ReadHas
  BY <1>1, <1>8 DEF ReadHas, Proc, DispInv
<1>9. CASE ReadId
  BY <1>0, <1>1, <1>9 DEF ReadId, Proc, DispInv
<1>10. CASE Publish
  <2>1. /\ work # NoImage => Len(drawn) < MaxQueued
        /\ drawn' = IF work = NoImage THEN drawn ELSE Append(drawn, work)
        /\ work' = NoImage /\ pc' = "view" /\ UNCHANGED <<goal, slot, written>>
    BY <1>10 DEF Publish, Proc
  <2>2. drawn' \in Seq(Picture) /\ Len(drawn') <= MaxQueued
    BY <2>1, QueueSteps DEF DispInv
  <2> QED  BY <1>1, <2>1, <2>2 DEF DispInv
<1> QED  BY <1>2, <1>3, <1>4, <1>5, <1>6, <1>7, <1>8, <1>9, <1>10 DEF Processor

(* The feeder, the renderer and the drainer.                               *)
LEMMA ImagesDisp ==
  ASSUME DispInv, FeedJob \/ Renderer \/ DrainDrawn \/ DrainRendered
  PROVE  DispInv'
<1> USE Pictures
<1>1. CASE FeedJob
  BY <1>1 DEF FeedJob, procVars, rendererVars, DispInv
<1>2. CASE Renderer
  <2>1. UNCHANGED <<pc, work, goal, drawn>>
    BY <1>2 DEF Renderer, StartGet, GetEmpty, GetJob, RenderJob, RenderFails, Rend, procVars
  <2>2. CASE StartGet
    <3>1. renderer' = [renderer EXCEPT !.pc = "get"] /\ UNCHANGED <<slot, written, rendered>>
      BY <2>2 DEF StartGet
    <3>2. renderer' \in [pc : {"idle", "get", "draw"}, job : Picture] /\ renderer'.pc = "get"
      BY <3>1 DEF DispInv
    <3> QED  BY <2>1, <3>1, <3>2 DEF DispInv
  <2>3. CASE GetEmpty \/ RenderFails
    <3>1. renderer' = RendererIdle /\ UNCHANGED <<slot, written, rendered>>
      BY <2>3 DEF GetEmpty, RenderFails
    <3> QED  BY <2>1, <3>1 DEF DispInv
  <2>4. CASE GetJob
    <3>1. /\ renderer' = [pc |-> "draw", job |-> slot] /\ written
          /\ slot' = NoImage /\ written' = FALSE /\ UNCHANGED rendered
      BY <2>4 DEF GetJob
    <3>2. /\ renderer' \in [pc : {"idle", "get", "draw"}, job : Picture]
          /\ renderer'.job.view = "spectrum"
      BY <3>1 DEF DispInv
    <3> QED  BY <2>1, <3>1, <3>2 DEF DispInv
  <2>5. CASE RenderJob
    <3>1. /\ Len(rendered) < MaxQueued /\ rendered' = Append(rendered, renderer.job)
          /\ renderer' = RendererIdle /\ UNCHANGED <<slot, written>>
      BY <2>5 DEF RenderJob
    <3>2. rendered' \in Seq(Picture) /\ Len(rendered') <= MaxQueued
      BY <3>1, QueueSteps DEF DispInv
    <3> QED  BY <2>1, <3>1, <3>2 DEF DispInv
  <2> QED  BY <1>2, <2>2, <2>3, <2>4, <2>5 DEF Renderer
<1>3. CASE DrainDrawn
  <2>1. /\ drawn # <<>> /\ drawn' = Tail(drawn)
        /\ UNCHANGED <<pc, work, goal, slot, written, renderer, rendered>>
    BY <1>3 DEF DrainDrawn, procVars, rendererVars
  <2>2. drawn' \in Seq(Picture) /\ Len(drawn') <= MaxQueued
    BY <2>1, QueueSteps DEF DispInv
  <2> QED  BY <2>1, <2>2 DEF DispInv
<1>4. CASE DrainRendered
  <2>1. /\ rendered # <<>> /\ rendered' = Tail(rendered)
        /\ UNCHANGED <<pc, work, goal, slot, written, renderer, drawn>>
    BY <1>4 DEF DrainRendered, procVars
  <2>2. rendered' \in Seq(Picture) /\ Len(rendered') <= MaxQueued
    BY <2>1, QueueSteps DEF DispInv
  <2> QED  BY <2>1, <2>2 DEF DispInv
<1> QED  BY <1>1, <1>2, <1>3, <1>4

(* All of it, from the start and by every step.                            *)
DisplayInv == CtlInv /\ LoInv /\ TurnInv /\ SeenInv /\ DispInv

LEMMA DisplayInitInv == Init => DisplayInv
<1> SUFFICES ASSUME Init PROVE DisplayInv
  OBVIOUS
<1>1. CtlInv /\ LoInv
  BY CtlInitInv DEF Init
<1>2. /\ \A c \in Clients : todo[c] = <<>> /\ wanted = NoTarget /\ recent = {NoTarget}
      /\ val.td_chipset = NoTarget /\ ~val.td_has_ntw /\ pc = "view"
  BY DEF Init, CtlInit
<1>3. NoTarget # Chipset
  BY ControlsAssumption DEF ControlsAssumption, NoTarget
<1>4. TurnInv
  BY <1>2, <1>3, NothingIsNoTarget DEF TurnInv, InTurn
<1>5. wanted = NoTarget /\ recent = {NoTarget}
  BY DEF Init, CtlInit
<1>6. SeenInv
  BY <1>2, <1>3, <1>5 DEF SeenInv
<1>7. DispInv
  BY Pictures DEF Init, DispInv
<1> QED  BY <1>1, <1>4, <1>6, <1>7 DEF DisplayInv

LEMMA DisplayNextInv == ASSUME DisplayInv, [Next]_vars  PROVE DisplayInv'
<1> USE DEF DisplayInv
<1>1. ASSUME NEW c \in Clients, Api(c) PROVE DisplayInv'
  <2>1. CtlInv' /\ LoInv'
    BY <1>1, RequestInv, StoreInv DEF Api
  <2>2. UNCHANGED <<pc, work, goal, slot, written, renderer, rendered, drawn>>
    BY <1>1 DEF Api, DisplayUnchanged, procVars, rendererVars
  <2>3. TurnInv' /\ SeenInv'
    BY <1>1, <2>2, RequestTarget, StoreOfTarget DEF Api
  <2>4. DispInv'
    BY <2>2 DEF DispInv
  <2> QED  BY <2>1, <2>3, <2>4
<1>2. CASE Radio
  <2>1. CtlInv' /\ LoInv'
    BY <1>2, RadioInv DEF Radio
  <2>2. UNCHANGED <<pc, work, goal, slot, written, renderer, rendered, drawn>>
    BY <1>2 DEF Radio, DisplayUnchanged, procVars, rendererVars
  <2>3. DispInv'
    BY <2>2 DEF DispInv
  <2> QED  BY <1>2, <2>1, <2>3, RadioTarget
<1>3. CASE Processor \/ FeedJob \/ Renderer \/ DrainDrawn \/ DrainRendered
             \/ UNCHANGED vars
  <2>1. UNCHANGED <<val, device, rx, todo, asked, clean>>
    BY <1>3, OthersLeave
  <2>2. CtlInv'
    BY <2>1 DEF CtlInv
  <2>3. LoInv'
    BY <2>1 DEF LoInv, Plain
  <2>4. CASE Processor
    BY <2>2, <2>3, <2>4, ProcessorTarget, ProcessorDisp
  <2>5. CASE ~Processor
    <3>1. UNCHANGED <<wanted, recent, pc, goal>>
      BY <1>3, <2>5 DEF FeedJob, Renderer, StartGet, GetEmpty, GetJob, RenderJob, RenderFails,
                        Rend, DrainDrawn, DrainRendered, vars, procVars, ctlVars, apiVars
    <3>2. TurnInv' /\ SeenInv'
      BY <2>1, <3>1, TurnStays DEF SeenInv
    <3>3. UNCHANGED vars => DispInv'
      BY DEF vars, procVars, rendererVars, DispInv
    <3>4. DispInv'
      BY <1>3, <2>5, <3>3, ImagesDisp
    <3> QED  BY <2>2, <2>3, <3>2, <3>4
  <2> QED  BY <2>4, <2>5
<1> QED  BY <1>1, <1>2, <1>3 DEF Next

LEMMA DisplayAlways == Spec => []DisplayInv
<1> USE DisplayInitInv, DisplayNextInv
<1>1. Init => DisplayInv
  OBVIOUS
<1>2. DisplayInv /\ [Next]_vars => DisplayInv'
  OBVIOUS
<1> QED  BY <1>1, <1>2, PTL DEF Spec

(* LO requests that follow each other add up, for any number of clients,   *)
(* frequencies and requests, with rx_loop, the processor and the renderer  *)
(* at any point of their loops (api_lo, rx_loop).                          *)
THEOREM LoAddsUp == Spec => []LoRequestsAddUp
<1>1. DisplayInv => LoRequestsAddUp
  <2> SUFFICES ASSUME LoInv, clean, Active = {}
               PROVE  val.lo_freq_hz = asked
    BY DEF LoRequestsAddUp, DisplayInv
  <2>1. \A c \in Clients : todo[c] # << <<"lo_freq_hz", asked>> >>
    BY EmptySeq DEF Active
  <2> QED  BY <2>1 DEF LoInv
<1> QED  BY <1>1, DisplayAlways, PTL

(* Types of the control values, of rx_loop, and of the images on their way *)
(* from the processor and the renderer, for all bounds.                    *)
THEOREM DisplayTypeOK == Spec => []TypeOK
<1>1. DisplayInv => TypeOK
  BY DEF DisplayInv, CtlInv, Values, DispInv, TypeOK, CtlTypeOK
<1> QED  BY <1>1, DisplayAlways, PTL

(* The capture target is never put together of two requests that follow    *)
(* each other, wherever the processor reads between the stores of          *)
(* api_timedomain, for any number of clients, devices and requests.        *)
THEOREM TargetOfOneRequest == Spec => []TargetIsWhole
<1>1. DisplayInv => TargetIsWhole
  BY DEF DisplayInv, SeenInv, TargetIsWhole
<1> QED  BY <1>1, DisplayAlways, PTL
=============================================================================
