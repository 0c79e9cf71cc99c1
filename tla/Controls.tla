------------------------------ MODULE Controls ------------------------------
(***************************************************************************)
(* The values a client sets while the receiver runs, and the radio that    *)
(* follows them (app.py: SharedState's properties, /api/gain, /api/lo,     *)
(* /api/view, /api/timedomain; gnuradio_rx.py: rx_loop).  Each value is a  *)
(* multiprocessing.Value of its own: a request reads and stores without a  *)
(* lock, rx_loop compares, applies and writes back, and the processor      *)
(* (module Display) reads when it comes to it.                             *)
(***************************************************************************)
EXTENDS Integers, Sequences

CONSTANTS
    Clients,        \* requests that may be served at the same time
    MaxRequests,    \* bound on the requests of a behaviour
    MinGain, MaxGain, InitialGain,      \* config.RX_GAIN_MIN_DB ... in steps
    Center,         \* config.CENTER_FREQ_HZ
    Deltas,         \* delta_khz of the LO requests
    Tunable,        \* frequencies the SDR accepts
    Chipset,        \* a chipset that may be searched for
    Devices,        \* device ids that may be searched for
    Knobs           \* sets of kinds of requests, one set per behaviour

ASSUME ControlsAssumption ==
    /\ MaxRequests \in Nat
    /\ MinGain \in Int /\ MaxGain \in Int /\ InitialGain \in MinGain..MaxGain
    /\ Center \in Tunable /\ Tunable \subseteq Int /\ Deltas \subseteq Int
    /\ Devices # {} /\ Chipset \notin Devices \cup {"none"}
    /\ Knobs \subseteq SUBSET {"gain", "lo", "view", "target"}

NoTarget == "none"
Views == {"spectrogram", "spectrum"}

VARIABLES
    val,            \* the shared values
    device,         \* the gain and the frequency the SDR is set to
    rx,             \* rx_loop: program counter and locals
    todo,           \* for each request: the stores it has still to make
    knobs,          \* the kinds of requests of this behaviour
    served,         \* requests begun
    asked,          \* ghost: the frequency the LO requests add up to
    wanted,         \* ghost: the target of the last request to start
    recent,         \* ghost: the targets set since the processor began to read
    clean           \* ghost: no request overlapped, no frequency was refused

apiVars == <<todo, knobs, served, asked, wanted>>
ctlVars == <<val, device, rx, apiVars, recent, clean>>

Active == {c \in Clients : todo[c] # <<>>}
Clamp_missing(g) == g   \* Seeded fault: the gain is not limited.
Clamp(g) == IF g < MinGain THEN MinGain ELSE IF g > MaxGain THEN MaxGain ELSE g
-----------------------------------------------------------------------------
CtlInit ==
    /\ val = [rx_gain_dB |-> InitialGain, lo_freq_hz |-> Center,
              view_mode |-> "spectrogram", td_running |-> FALSE,
              td_chipset |-> NoTarget, td_has_ntw |-> FALSE,
              td_ntw_id |-> CHOOSE d \in Devices : TRUE]
    /\ device = [gain |-> InitialGain, lo |-> Center]
    /\ rx = [pc |-> "connect", gain |-> InitialGain, lo |-> Center, new |-> 0]
    /\ todo = [c \in Clients |-> <<>>]
    /\ knobs \in Knobs
    /\ served = 0
    /\ asked = Center /\ wanted = NoTarget /\ recent = {NoTarget} /\ clean = TRUE

(* A request begins: it has read what it needs and goes on to its stores.  *)
Begin(c, kind, stores) ==
    /\ todo[c] = <<>> /\ kind \in knobs /\ served < MaxRequests
    /\ served' = served + 1
    /\ clean' = (clean /\ Active = {})
    /\ todo' = [todo EXCEPT ![c] = stores]
    /\ UNCHANGED <<val, device, rx, knobs>>

ApiGain(c) ==
    /\ \E dir \in {-1, 1} :
         Begin(c, "gain", << <<"rx_gain_dB", Clamp(val.rx_gain_dB + dir)>> >>)
    /\ UNCHANGED <<asked, wanted, recent>>

ApiLo(c) ==
    /\ \E delta \in Deltas :
         /\ Begin(c, "lo", << <<"lo_freq_hz", val.lo_freq_hz + delta>> >>)
         /\ asked' = asked + delta
    /\ UNCHANGED <<wanted, recent>>

(* Without a mode: the other one than now.                                 *)
ApiView(c) ==
    /\ \E v \in Views \ {val.view_mode} : Begin(c, "view", << <<"view_mode", v>> >>)
    /\ UNCHANGED <<asked, wanted, recent>>

ChipsetStores ==
    << <<"td_chipset", Chipset>>, <<"td_has_ntw", FALSE>>, <<"td_running", TRUE>> >>

(* Seeded fault: the device id is stored after what makes it valid.         *)
DeviceStores_idLast(d) ==
    << <<"td_chipset", NoTarget>>, <<"td_has_ntw", TRUE>>,
       <<"td_ntw_id", d>>, <<"td_running", TRUE>> >>

DeviceStores(d) ==
    << <<"td_ntw_id", d>>, <<"td_has_ntw", TRUE>>,
       <<"td_chipset", NoTarget>>, <<"td_running", TRUE>> >>

(* api_timedomain: "start" with a chipset or with a device id, and "stop". *)
Start(c, t) ==
    /\ Begin(c, "target", IF t = Chipset THEN ChipsetStores ELSE DeviceStores(t))
    /\ wanted' = t /\ recent' = recent \cup {t}
    /\ UNCHANGED asked

Stop(c) ==
    /\ Begin(c, "target", << <<"td_running", FALSE>> >>)
    /\ UNCHANGED <<asked, wanted, recent>>

Request(c) ==
    ApiGain(c) \/ ApiLo(c) \/ ApiView(c) \/ Stop(c)
      \/ \E t \in {Chipset} \cup Devices : Start(c, t)

(* The next assignment of a request.                                       *)
Store(c) ==
    /\ todo[c] # <<>>
    /\ val' = [val EXCEPT ![Head(todo[c])[1]] = Head(todo[c])[2]]
    /\ todo' = [todo EXCEPT ![c] = Tail(@)]
    /\ UNCHANGED <<device, rx, knobs, served, asked, wanted, recent, clean>>
-----------------------------------------------------------------------------
(* rx_loop.  What it finds to differ it sets, and stores what is set then. *)
RxGoOn(from, to, new) ==
    /\ rx.pc = from
    /\ rx' = [rx EXCEPT !.pc = to, !.new = new]
    /\ UNCHANGED <<apiVars, recent>>

(* _connect: the flowgraph is made with the configured gain and frequency. *)
RxConnect ==
    /\ RxGoOn("connect", "gain", 0)
    /\ val' = [val EXCEPT !.rx_gain_dB = InitialGain]
    /\ device' = [gain |-> InitialGain, lo |-> Center]
    /\ UNCHANGED clean

RxCompareGain ==
    /\ RxGoOn("gain", IF val.rx_gain_dB # rx.gain THEN "read gain" ELSE "lo", 0)
    /\ UNCHANGED <<val, device, clean>>

RxReadGain ==
    /\ RxGoOn("read gain", "set gain", Clamp(val.rx_gain_dB))
    /\ UNCHANGED <<val, device, clean>>

RxSetGain ==
    /\ rx.pc = "set gain"
    /\ rx' = [rx EXCEPT !.pc = "store gain", !.gain = rx.new]
    /\ device' = [device EXCEPT !.gain = rx.new]
    /\ UNCHANGED <<val, apiVars, recent, clean>>

RxSetGainFails ==
    /\ RxGoOn("set gain", "store gain", 0)
    /\ UNCHANGED <<val, device, clean>>

RxStoreGain ==
    /\ RxGoOn("store gain", "lo", 0)
    /\ val' = [val EXCEPT !.rx_gain_dB = rx.gain]
    /\ UNCHANGED <<device, clean>>

RxCompareLo ==
    /\ RxGoOn("lo", IF val.lo_freq_hz # rx.lo THEN "read lo" ELSE "gain", 0)
    /\ UNCHANGED <<val, device, clean>>

RxReadLo ==
    /\ RxGoOn("read lo", "set lo", val.lo_freq_hz)
    /\ UNCHANGED <<val, device, clean>>

(* Seeded fault: the frequency is stored back like the gain.               *)
RxSetLo_storesBack ==
    /\ rx.pc = "set lo" /\ rx.new \in Tunable
    /\ device' = [device EXCEPT !.lo = rx.new]
    /\ rx' = [rx EXCEPT !.pc = "gain", !.lo = rx.new]
    /\ val' = [val EXCEPT !.lo_freq_hz = rx.new]
    /\ UNCHANGED <<apiVars, recent, clean>>

RxSetLo ==
    /\ rx.pc = "set lo" /\ rx.new \in Tunable
    /\ device' = [device EXCEPT !.lo = rx.new]
    /\ rx' = [rx EXCEPT !.pc = "gain", !.lo = rx.new]
    /\ UNCHANGED <<val, apiVars, recent, clean>>

(* The SDR refuses the frequency: the one it is tuned to is shown again.   *)
RxRefuseLo ==
    /\ rx.new \notin Tunable
    /\ RxGoOn("set lo", "take back", 0)
    /\ clean' = FALSE
    /\ UNCHANGED <<val, device>>

(* Seeded fault: the refused frequency stays.                              *)
RxTakeBack_never ==
    /\ RxGoOn("take back", "gain", 0)
    /\ UNCHANGED <<val, device, clean>>

RxTakeBack ==
    /\ RxGoOn("take back", "gain", 0)
    /\ val' = [val EXCEPT !.lo_freq_hz = rx.lo]
    /\ UNCHANGED <<device, clean>>

RxLoop ==
    \/ RxConnect \/ RxCompareGain \/ RxReadGain \/ RxSetGain \/ RxSetGainFails \/ RxStoreGain
    \/ RxCompareLo \/ RxReadLo \/ RxSetLo \/ RxRefuseLo \/ RxTakeBack
-----------------------------------------------------------------------------
CtlTypeOK ==
    /\ val.rx_gain_dB \in MinGain..MaxGain /\ val.lo_freq_hz \in Int
    /\ val.view_mode \in Views
    /\ val.td_running \in BOOLEAN /\ val.td_has_ntw \in BOOLEAN
    /\ val.td_chipset \in {NoTarget, Chipset} /\ val.td_ntw_id \in Devices
    /\ device.gain \in MinGain..MaxGain /\ device.lo \in Tunable
    /\ rx.gain = device.gain /\ rx.lo = device.lo

(* Requests served one after the other move the LO by the sum of what they *)
(* ask for: rx_loop, which may be in the middle of tuning to an older      *)
(* frequency, does not put that one back (api_lo, rx_loop).                *)
LoRequestsAddUp == (clean /\ Active = {}) => val.lo_freq_hz = asked
=============================================================================
