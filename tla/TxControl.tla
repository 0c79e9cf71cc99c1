------------------------------ MODULE TxControl ------------------------------
(***************************************************************************)
(* The transmitter: TXFlowgraph (gnuradio_tx.py) and the /api/tx/start and  *)
(* /api/tx/stop handlers (app.py), which Flask runs in a thread per request.*)
(* tone_mode() and packet_mode() hold the flowgraph's lock; start() and     *)
(* stop() do not, and _get_tx() has none.                                  *)
(*                                                                         *)
(* The GNU Radio top block is external: start() refuses a block that runs,  *)
(* stop() ends it, wait() blocks while it runs, connect() takes effect at   *)
(* the next start().                                                       *)
(***************************************************************************)
EXTENDS Naturals

CONSTANTS
  Clients,      \* requests that may be served at the same time
  MaxFlowgraphs \* bound: flowgraphs _get_tx() may create

ASSUME TxAssumption ==
  /\ "free" \notin Clients /\ MaxFlowgraphs \in Nat \ {0}

Fg == 1..MaxFlowgraphs
None == 0
Modes == {"tone", "packet"}    \* two values of _mode that differ
Requests == Modes \cup {"bad"} \* "bad": unknown mode, no file name, file not there

VARIABLES
  tx_fg,    \* the module-level singleton, None before the first use
  created,  \* number of flowgraphs created
  _running, _mode, source, _lock,  \* per flowgraph: its attributes
  on, sending,                     \* per flowgraph: top block started; what is on the air
  h,        \* per client: program counter and locals of its handler
  overlaps  \* ghost: the kinds of requests that were served while another was

fgVars == <<tx_fg, created>>
tbVars == <<on, sending>>
vars == <<fgVars, _running, _mode, source, _lock, tbVars, h, overlaps>>

(* The flowgraph may exist already: /api/tx/freq and /api/tx/attn create it. *)
Init ==
  /\ created \in {0, 1} /\ tx_fg = created
  /\ _running = [f \in Fg |-> FALSE] /\ _mode = [f \in Fg |-> "none"]
  /\ source = [f \in Fg |-> "none"] /\ _lock = [f \in Fg |-> "free"]
  /\ on = [f \in Fg |-> FALSE] /\ sending = [f \in Fg |-> "none"]
  /\ h = [c \in Clients |-> [pc |-> "idle", fg |-> None, mode |-> "none", was |-> FALSE]]
  /\ overlaps = {}

Goto(c, from, to) == h[c].pc = from /\ h' = [h EXCEPT ![c].pc = to]
Active == {c \in Clients : h[c].pc # "idle"}
Stopping == {c \in Clients : h[c].pc \in {"stop", "wait", "stopped"}}
Overlap(kind) ==
  overlaps' = IF Active = {} THEN overlaps
              ELSE overlaps \cup {kind} \cup (IF Stopping = {} THEN {} ELSE {"stop"})
Free(c) == _lock' = [_lock EXCEPT ![h[c].fg] = "free"]
-----------------------------------------------------------------------------
(* GNU Radio.                                                              *)
TbStart(f) ==
  /\ on' = [on EXCEPT ![f] = TRUE]
  /\ sending' = [sending EXCEPT ![f] = source[f]]
TbStop(f) ==
  /\ on' = [on EXCEPT ![f] = FALSE]
  /\ sending' = [sending EXCEPT ![f] = "none"]

(* A file played without repeat ends; the block counts as started.          *)
FileEnds(f) ==
  /\ sending[f] = "packet"
  /\ sending' = [sending EXCEPT ![f] = "none"]
  /\ UNCHANGED <<fgVars, _running, _mode, source, _lock, on, h, overlaps>>
-----------------------------------------------------------------------------
(* POST /api/tx/start: _get_tx(), first the test and then the creation.     *)
StartRequest(c, mode) ==
  /\ h[c].pc = "idle"
  /\ h' = [h EXCEPT ![c] = [pc |-> IF tx_fg = None THEN "create" ELSE "configure",
                            fg |-> tx_fg, mode |-> mode, was |-> FALSE]]
  /\ Overlap("start")
  /\ UNCHANGED <<fgVars, _running, _mode, source, _lock, tbVars>>

CreateFlowgraph(c) ==
  /\ h[c].pc = "create" /\ created < MaxFlowgraphs
  /\ created' = created + 1 /\ tx_fg' = created'
  /\ h' = [h EXCEPT ![c] = [@ EXCEPT !.pc = "configure", !.fg = created']]
  /\ UNCHANGED <<_running, _mode, source, _lock, tbVars, overlaps>>

(* TXFlowgraph() raises: the device cannot be opened.  Flask answers 500,   *)
(* and the next request tries again.                                       *)
CreateFails(c) ==
  /\ Goto(c, "create", "idle")
  /\ UNCHANGED <<fgVars, _running, _mode, source, _lock, tbVars, overlaps>>

(* The requests answered 400, and packet_mode()'s FileNotFoundError.         *)
BadRequest(c) ==
  /\ h[c].mode = "bad" /\ Goto(c, "configure", "idle")
  /\ UNCHANGED <<fgVars, _running, _mode, source, _lock, tbVars, overlaps>>

(* Seeded fault: an unknown mode is not refused.                            *)
LockFlowgraph_anyMode(c) ==
  LET f == h[c].fg IN
  /\ h[c].pc = "configure" /\ _lock[f] = "free"
  /\ _lock' = [_lock EXCEPT ![f] = c]
  /\ h' = [h EXCEPT ![c] = [@ EXCEPT !.was = _running[f],
                !.pc = IF _running[f] THEN "mode stop" ELSE "connect"]]
  /\ UNCHANGED <<fgVars, _running, _mode, source, tbVars, overlaps>>

(* Seeded fault: a running flowgraph is connected anew without a restart.    *)
LockFlowgraph_noRestart(c) ==
  LET f == h[c].fg IN
  /\ h[c].pc = "configure" /\ h[c].mode # "bad" /\ _lock[f] = "free"
  /\ _lock' = [_lock EXCEPT ![f] = c]
  /\ h' = [h EXCEPT ![c].was = FALSE, ![c].pc = "connect"]
  /\ UNCHANGED <<fgVars, _running, _mode, source, tbVars, overlaps>>

(* tone_mode(), packet_mode(): with self._lock: was_running = self._running  *)
LockFlowgraph(c) ==
  LET f == h[c].fg IN
  /\ h[c].pc = "configure" /\ h[c].mode # "bad" /\ _lock[f] = "free"
  /\ _lock' = [_lock EXCEPT ![f] = c]
  /\ h' = [h EXCEPT ![c] = [@ EXCEPT !.was = _running[f],
                !.pc = IF _running[f] THEN "mode stop" ELSE "connect"]]
  /\ UNCHANGED <<fgVars, _running, _mode, source, tbVars, overlaps>>

(* super().stop() of stop(), called by mode switching and by /api/tx/stop.   *)
StopBlock(c) ==
  /\ \/ Goto(c, "mode stop", "mode wait")
     \/ Goto(c, "stop", "wait")
  /\ TbStop(h[c].fg)
  /\ UNCHANGED <<fgVars, _running, _mode, source, _lock, overlaps>>

(* self.wait(), then self._running = False.                                *)
WaitBlock(c) ==
  /\ \/ Goto(c, "mode wait", "mode stopped")
     \/ Goto(c, "wait", "stopped")
  /\ ~on[h[c].fg]
  /\ UNCHANGED <<fgVars, _running, _mode, source, _lock, tbVars, overlaps>>

Stopped(c) ==
  /\ \/ Goto(c, "mode stopped", "connect")
     \/ Goto(c, "stopped", "idle")
  /\ _running' = [_running EXCEPT ![h[c].fg] = FALSE]
  /\ UNCHANGED <<fgVars, _mode, source, _lock, tbVars, overlaps>>

(* The second wait() of mode switching, disconnect_all() and connect().      *)
Connect(c) ==
  LET f == h[c].fg IN
  /\ h[c].pc = "connect" /\ (h[c].was => ~on[f])
  /\ source' = [source EXCEPT ![f] = h[c].mode]
  /\ _mode' = [_mode EXCEPT ![f] = h[c].mode]
  /\ IF h[c].was
       THEN Goto(c, "connect", "mode start") /\ UNCHANGED _lock
       ELSE Goto(c, "connect", "check") /\ Free(c)
  /\ UNCHANGED <<fgVars, _running, tbVars, overlaps>>

(* super().start() of start(); a block that runs raises, which is answered   *)
(* 500 after the lock, if held, is released.                               *)
StartBlock(c) ==
  /\ \/ Goto(c, "mode start", "mode started")
     \/ Goto(c, "start", "started")
  /\ ~on[h[c].fg]
  /\ TbStart(h[c].fg)
  /\ UNCHANGED <<fgVars, _running, _mode, source, _lock, overlaps>>

(* Seeded fault: the exception skips the release of the lock.                *)
StartRaises_keepsLock(c) ==
  /\ Goto(c, "mode start", "idle") \/ Goto(c, "start", "idle")
  /\ on[h[c].fg]
  /\ UNCHANGED <<fgVars, _running, _mode, source, _lock, tbVars, overlaps>>

StartRaises(c) ==
  /\ \/ Goto(c, "mode start", "idle") /\ Free(c)
     \/ Goto(c, "start", "idle") /\ UNCHANGED _lock
  /\ on[h[c].fg]
  /\ UNCHANGED <<fgVars, _running, _mode, source, tbVars, overlaps>>

(* Seeded fault: start() does not set the flag.                             *)
Started_noFlag(c) ==
  /\ \/ Goto(c, "mode started", "mode started again") /\ UNCHANGED _lock
     \/ Goto(c, "mode started again", "check") /\ Free(c)
     \/ Goto(c, "started", "idle") /\ UNCHANGED _lock
  /\ UNCHANGED <<fgVars, _running, _mode, source, tbVars, overlaps>>

(* self._running = True, in start() and again at the end of mode switching.  *)
Started(c) ==
  /\ \/ Goto(c, "mode started", "mode started again") /\ UNCHANGED _lock
     \/ Goto(c, "mode started again", "check") /\ Free(c)
     \/ Goto(c, "started", "idle") /\ UNCHANGED _lock
  /\ _running' = [_running EXCEPT ![h[c].fg] = TRUE]
  /\ UNCHANGED <<fgVars, _mode, source, tbVars, overlaps>>

(* if not fg.is_running: fg.start()                                         *)
CheckRunning(c) ==
  /\ Goto(c, "check", IF _running[h[c].fg] THEN "idle" ELSE "start")
  /\ UNCHANGED <<fgVars, _running, _mode, source, _lock, tbVars, overlaps>>

(* POST /api/tx/stop: without a running flowgraph it answers at once.        *)
StopRequest(c) ==
  /\ h[c].pc = "idle"
  /\ tx_fg # None /\ _running[tx_fg]
  /\ h' = [h EXCEPT ![c] = [pc |-> "stop", fg |-> tx_fg, mode |-> "none", was |-> FALSE]]
  /\ Overlap("stop")
  /\ UNCHANGED <<fgVars, _running, _mode, source, _lock, tbVars>>

Next ==
  \/ \E f \in Fg : FileEnds(f)
  \/ \E c \in Clients :
       \/ \E mode \in Requests : StartRequest(c, mode)
       \/ CreateFlowgraph(c) \/ CreateFails(c) \/ BadRequest(c) \/ LockFlowgraph(c)
       \/ StopBlock(c) \/ WaitBlock(c) \/ Stopped(c) \/ Connect(c)
       \/ StartBlock(c) \/ StartRaises(c) \/ Started(c) \/ CheckRunning(c)
       \/ StopRequest(c)

Spec == Init /\ [][Next]_vars
-----------------------------------------------------------------------------
TypeOK ==
  /\ tx_fg \in Fg \cup {None} /\ created \in 0..MaxFlowgraphs
  /\ _running \in [Fg -> BOOLEAN] /\ on \in [Fg -> BOOLEAN]
  /\ _mode \in [Fg -> Modes \cup {"none"}] 
  /\ source \in [Fg -> Modes \cup {"none"}]
  /\ sending \in [Fg -> Modes \cup {"none"}]
  /\ _lock \in [Fg -> Clients \cup {"free"}]
  /\ \A c \in Clients : h[c].fg \in Fg \cup {None} /\ h[c].mode \in Requests \cup {"none"}
  /\ overlaps \subseteq {"start", "stop"}

(* While no request is being served, whatever transmits is the flowgraph of  *)
(* /api/tx/stop and counts as running: the next stop request ends it.        *)
(* src/README.md 665: "/api/tx/stop | POST | Stop transmitting".            *)
Stoppable ==
  Active = {} => \A f \in Fg : sending[f] # "none" => f = tx_fg /\ _running[f]

(* The transmitter can be stopped after any history of start requests that   *)
(* overlap, and of stop requests that do not, if the flowgraph was created   *)
(* once: start requests need no lock of the handlers (api_tx_start).         *)
StartsStayStoppable ==
  "stop" \notin overlaps /\ created <= 1 => Stoppable

(* Every way out of mode switching, start()'s exception included, gives the  *)
(* lock back, or no start request would ever be answered again.             *)
LockGivenBack == \A f \in Fg : _lock[f] # "free" => h[_lock[f]].pc # "idle"

(* As long as requests were served one at a time, /api/tx/status names the   *)
(* waveform on the air.  src/README.md 666: "Current TX state (running,      *)
(* mode, ...)" (the restart in tone_mode and packet_mode).                  *)
ModeTruthful ==
  overlaps = {} /\ Active = {} /\ tx_fg # None /\ sending[tx_fg] # "none" =>
    sending[tx_fg] = _mode[tx_fg]
=============================================================================
