--------------------------- MODULE TxControlProofs ---------------------------
(***************************************************************************)
(* Proofs about the transmitter's handlers, for any number of requests at  *)
(* a time: the lock is given back, what start requests switch on can be    *)
(* switched off, and the mode shown is the waveform on the air.            *)
(***************************************************************************)
EXTENDS TxControl, Integers, TLAPS

(* Mode switching, which holds the lock; and the steps between the start of *)
(* the block and the flag that says so.                                    *)
Locked == {"mode stop", "mode wait", "mode stopped", "connect",
           "mode start", "mode started", "mode started again"}
Starting == {"mode started", "mode started again", "started"}
Stages == Locked \cup {"idle", "create", "configure", "check", "start", "started",
                       "stop", "wait", "stopped"}

Handler == [pc : Stages, fg : Fg \cup {None}, mode : Requests \cup {"none"}, was : BOOLEAN]

TxType ==
  /\ created \in 0..MaxFlowgraphs /\ tx_fg = created
  /\ _running \in [Fg -> BOOLEAN] /\ on \in [Fg -> BOOLEAN]
  /\ _mode \in [Fg -> Modes \cup {"none"}] /\ source = _mode
  /\ sending \in [Fg -> Modes \cup {"none"}]
  /\ _lock \in [Fg -> Clients \cup {"free"}]
  /\ h \in [Clients -> Handler]
  /\ overlaps \subseteq {"start", "stop"}

(* Handlers work on flowgraphs that were created, and only those transmit. *)
PlaceInv ==
  /\ \A c \in Clients :
       /\ h[c].pc \notin {"idle", "create"} => h[c].fg \in 1..created
       /\ h[c].pc \in Locked => h[c].mode \in Modes
       /\ h[c].pc \in {"create", "configure"} => h[c].mode \in Requests
       /\ h[c].pc \in {"mode stop", "mode wait", "mode stopped"} => h[c].was
  /\ \A f \in Fg : /\ on[f] => f <= created
                   /\ sending[f] # "none" => on[f]

(* The lock is held by the handler that is in mode switching.              *)
LockInv ==
  /\ \A c \in Clients : h[c].pc \in Locked => _lock[h[c].fg] = c
  /\ \A f \in Fg : _lock[f] # "free" => h[_lock[f]].pc \in Locked /\ h[_lock[f]].fg = f

(* Start requests may overlap: a block that is on counts as running, or a  *)
(* handler will say so, or one waits in mode switching for it to end.      *)
StartInv ==
  "stop" \notin overlaps /\ created <= 1 =>
    /\ \A c \in Stopping, d \in Active : c = d
    /\ \A c \in Clients : h[c].pc = "stopped" => ~on[h[c].fg]
    /\ \A f \in Fg : on[f] /\ ~_running[f] =>
         \E c \in Clients : /\ h[c].fg = f
                            /\ h[c].pc \in Starting \/ (h[c].pc = "connect" /\ h[c].was)

(* One request at a time: what is on the air is what is connected.         *)
AloneInv ==
  overlaps = {} =>
    /\ created <= 1
    /\ \A c, d \in Active : c = d
    /\ \A c \in Clients : /\ h[c].pc = "create" => created = 0
                          /\ h[c].pc = "connect" /\ ~h[c].was => ~on[h[c].fg]
    /\ \A f \in Fg : sending[f] # "none" => sending[f] = source[f]

TxInv == TxType /\ PlaceInv /\ LockInv /\ StartInv /\ AloneInv

(* Client c goes on to another stage and keeps its locals.                 *)
Moves(c, to) ==
  /\ h' \in [Clients -> Handler]
  /\ h'[c].pc = to /\ h'[c].fg = h[c].fg /\ h'[c].mode = h[c].mode /\ h'[c].was = h[c].was
  /\ \A d \in Clients : d # c => h'[d] = h[d]

LEMMA GotoMoves ==
  ASSUME h \in [Clients -> Handler], NEW c \in Clients, NEW from, NEW to \in Stages,
         Goto(c, from, to)
  PROVE  h[c].pc = from /\ Moves(c, to)
  BY DEF Goto, Moves, Handler

(* A handler begins to serve a request.                                    *)
LEMMA SetHandler ==
  ASSUME h \in [Clients -> Handler], NEW c \in Clients, NEW x \in Handler,
         h' = [h EXCEPT ![c] = x]
  PROVE  /\ h' \in [Clients -> Handler] /\ h'[c] = x
         /\ \A d \in Clients : d # c => h'[d] = h[d]
  OBVIOUS

(* Types of what a handler holds.                                          *)
LEMMA HandlerFields ==
  ASSUME h \in [Clients -> Handler], NEW c \in Clients
  PROVE  /\ h[c].pc \in Stages /\ h[c].fg \in Fg \cup {None}
         /\ h[c].mode \in Requests \cup {"none"} /\ h[c].was \in BOOLEAN
  BY DEF Handler

LEMMA TxNumbers ==
  /\ MaxFlowgraphs \in Nat \ {0} /\ "free" \notin Clients
  /\ \A n \in 0..MaxFlowgraphs : 1..n \subseteq Fg /\ 1..n \subseteq Nat
  BY TxAssumption DEF TxAssumption, Fg

(* A step that neither takes nor leaves mode switching leaves the lock.     *)
LEMMA LockOfOthers ==
  ASSUME TxType, LockInv, UNCHANGED _lock, NEW c \in Clients,
         h'[c].pc \in Locked <=> h[c].pc \in Locked,
         h[c].pc \in Locked => h'[c].fg = h[c].fg,
         \A d \in Clients : d # c => h'[d] = h[d]
  PROVE  LockInv'
<1>1. \A d \in Clients : h'[d].pc \in Locked => h[d].pc \in Locked /\ h'[d].fg = h[d].fg
  OBVIOUS
<1>2. \A d \in Clients : h[d].pc \in Locked => h'[d].pc \in Locked /\ h'[d].fg = h[d].fg
  OBVIOUS
<1>3. \A f \in Fg : _lock[f] # "free" => _lock[f] \in Clients
  BY DEF TxType
<1> QED  BY <1>1, <1>2, <1>3 DEF LockInv

LEMMA TxInitInv == Init => TxInv
<1> SUFFICES ASSUME Init PROVE TxInv
  OBVIOUS
<1> USE TxNumbers
<1>1. TxType
  BY DEF Init, TxType, Handler, Stages, Locked, Fg, None
<1>2. \A c \in Clients : h[c].pc = "idle"
  BY DEF Init
<1>3. PlaceInv
  BY <1>2 DEF Init, PlaceInv, Locked
<1>4. LockInv
  BY <1>2 DEF Init, LockInv, Locked
<1>5. StartInv
  BY <1>2 DEF Init, StartInv, Active, Stopping
<1>6. AloneInv
  BY <1>2 DEF Init, AloneInv, Active
<1> QED  BY <1>1, <1>3, <1>4, <1>5, <1>6 DEF TxInv

(* The end of a file.                                                      *)
LEMMA FileEndsInv == ASSUME TxInv, NEW f \in Fg, FileEnds(f)  PROVE TxInv'
<1>1. /\ sending' = [sending EXCEPT ![f] = "none"]
      /\ UNCHANGED <<tx_fg, created, _running, _mode, source, _lock, on, h, overlaps>>
  BY DEF FileEnds, fgVars
<1>2. TxType'
  BY <1>1 DEF TxInv, TxType
<1>3. \A g \in Fg : sending'[g] # "none" => sending'[g] = sending[g]
  BY <1>1 DEF TxInv, TxType
<1>4. PlaceInv' /\ LockInv'
  BY <1>1, <1>3 DEF TxInv, PlaceInv, LockInv
<1>5. StartInv' /\ AloneInv'
  BY <1>1, <1>3 DEF TxInv, StartInv, AloneInv, Active, Stopping
<1> QED  BY <1>2, <1>4, <1>5 DEF TxInv

(* A request begins.  If another one is served, overlaps says so.          *)
LEMMA RequestOverlap ==
  ASSUME TxInv, NEW kind \in {"start", "stop"}, Overlap(kind)
  PROVE  /\ overlaps' \subseteq {"start", "stop"} /\ overlaps \subseteq overlaps'
         /\ overlaps' = {} => Active = {}
         /\ "stop" \notin overlaps' => Stopping = {} /\ (kind = "stop" => Active = {})
<1>1. CASE Active = {}
  BY <1>1 DEF Overlap, TxInv, TxType, Active, Stopping
<1>2. CASE Active # {}
  BY <1>2 DEF Overlap, TxInv, TxType
<1> QED  BY <1>1, <1>2

LEMMA StartRequestInv ==
  ASSUME TxInv, NEW c \in Clients, NEW mode \in Requests, StartRequest(c, mode)
  PROVE  TxInv'
<1> USE TxNumbers
<1> DEFINE to == IF created = 0 THEN "create" ELSE "configure"
<1>1. /\ h[c].pc = "idle" /\ Overlap("start")
      /\ h' = [h EXCEPT ![c] = [pc |-> to, fg |-> created, mode |-> mode, was |-> FALSE]]
      /\ UNCHANGED <<tx_fg, created, _running, _mode, source, _lock, on, sending>>
  BY DEF StartRequest, fgVars, tbVars, TxInv, TxType, None
<1>2. to \in Stages /\ created \in Fg \cup {None}
  BY DEF Stages, TxInv, TxType, Fg, None
<1>3. /\ h' \in [Clients -> Handler]
      /\ h'[c].pc = to /\ h'[c].fg = created /\ h'[c].mode = mode
      /\ \A d \in Clients : d # c => h'[d] = h[d]
  <2> DEFINE x == [pc |-> to, fg |-> created, mode |-> mode, was |-> FALSE]
  <2>1. x \in Handler /\ x.pc = to /\ x.fg = created /\ x.mode = mode
    <3> HIDE DEF to
    <3> QED  BY <1>2 DEF Handler
  <2>2. h' = [h EXCEPT ![c] = x]
    BY <1>1
  <2> HIDE DEF x, to
  <2> QED  BY <2>1, <2>2, SetHandler DEF TxInv, TxType
<1>4. /\ overlaps' \subseteq {"start", "stop"} /\ overlaps \subseteq overlaps'
      /\ overlaps' = {} => Active = {}
      /\ "stop" \notin overlaps' => Stopping = {}
  BY <1>1, RequestOverlap
<1>5. TxType'
  BY <1>1, <1>3, <1>4 DEF TxInv, TxType
<1>6. PlaceInv'
  <2>1. \A f \in Fg : (on[f] => f <= created) /\ (sending[f] # "none" => on[f])
    BY DEF TxInv, PlaceInv
  <2>2. created # 0 => created \in 1..created
    BY DEF TxInv, TxType
  <2>3. \A d \in Clients :
          /\ h'[d].pc \notin {"idle", "create"} => h'[d].fg \in 1..created
          /\ h'[d].pc \in Locked => h'[d].mode \in Modes
          /\ h'[d].pc \in {"create", "configure"} => h'[d].mode \in Requests
          /\ h'[d].pc \in {"mode stop", "mode wait", "mode stopped"} => h'[d].was
    <3> TAKE d \in Clients
    <3>1. CASE d = c
      BY <1>3, <2>2, <3>1 DEF Locked
    <3>2. CASE d # c
      BY <1>3, <3>2 DEF TxInv, PlaceInv
    <3> QED  BY <3>1, <3>2
  <2> QED  BY <1>1, <2>1, <2>3 DEF PlaceInv
<1>7. LockInv'
  BY <1>1, <1>3, LockOfOthers DEF TxInv, Locked
<1>8. StartInv'
  <2> SUFFICES ASSUME "stop" \notin overlaps', created <= 1
               PROVE  /\ \A d \in Stopping', e \in Active' : d = e
                      /\ \A d \in Clients : h'[d].pc = "stopped" => ~on[h'[d].fg]
                      /\ \A f \in Fg : on[f] /\ ~_running[f] =>
                           \E d \in Clients :
                             /\ h'[d].fg = f
                             /\ h'[d].pc \in Starting \/ (h'[d].pc = "connect" /\ h'[d].was)
    BY <1>1 DEF StartInv
  <2>1. Stopping' = {}
    BY <1>3, <1>4 DEF Stopping
  <2>2. \A d \in Clients : h[d].pc \in Starting \cup {"connect"} => d # c
    BY <1>1 DEF Starting
  <2>3. \A f \in Fg : on[f] /\ ~_running[f] =>
          \E d \in Clients : /\ h[d].fg = f
                             /\ h[d].pc \in Starting \/ (h[d].pc = "connect" /\ h[d].was)
    BY <1>4 DEF TxInv, StartInv
  <2> QED  BY <1>3, <2>1, <2>2, <2>3 DEF Stopping
<1>9. AloneInv'
  <2> SUFFICES ASSUME overlaps' = {}
               PROVE  AloneInv'
    BY DEF AloneInv
  <2>1. overlaps = {} /\ \A d \in Clients : d # c => h[d].pc = "idle"
    BY <1>4 DEF Active
  <2> QED  BY <1>1, <1>3, <2>1 DEF TxInv, TxType, AloneInv, Active
<1> QED  BY <1>5, <1>6, <1>7, <1>8, <1>9 DEF TxInv

(* A stop request is the only one, or overlaps has "stop".                 *)
LEMMA StopRequestInv == ASSUME TxInv, NEW c \in Clients, StopRequest(c)  PROVE TxInv'
<1> USE TxNumbers
<1>1. /\ h[c].pc = "idle" /\ created # 0 /\ Overlap("stop")
      /\ h' = [h EXCEPT ![c] = [pc |-> "stop", fg |-> created, mode |-> "none", was |-> FALSE]]
      /\ UNCHANGED <<tx_fg, created, _running, _mode, source, _lock, on, sending>>
  BY DEF StopRequest, fgVars, tbVars, TxInv, TxType, None
<1>2. "stop" \in Stages /\ created \in Fg
  BY <1>1 DEF Stages, TxInv, TxType, Fg
<1>3. /\ h' \in [Clients -> Handler]
      /\ h'[c].pc = "stop" /\ h'[c].fg = created
      /\ \A d \in Clients : d # c => h'[d] = h[d]
  <2> DEFINE x == [pc |-> "stop", fg |-> created, mode |-> "none", was |-> FALSE]
  <2>1. x \in Handler /\ x.pc = "stop" /\ x.fg = created
    BY <1>2 DEF Handler
  <2>2. h' = [h EXCEPT ![c] = x]
    BY <1>1
  <2> HIDE DEF x
  <2> QED  BY <2>1, <2>2, SetHandler DEF TxInv, TxType
<1>4. /\ overlaps' \subseteq {"start", "stop"} /\ overlaps \subseteq overlaps'
      /\ overlaps' = {} => Active = {}
      /\ "stop" \notin overlaps' => Active = {}
  BY <1>1, RequestOverlap
<1>5. TxType'
  BY <1>1, <1>3, <1>4 DEF TxInv, TxType
<1>6. PlaceInv'
  <2>1. \A f \in Fg : (on[f] => f <= created) /\ (sending[f] # "none" => on[f])
    BY DEF TxInv, PlaceInv
  <2>2. created \in 1..created
    BY <1>1 DEF TxInv, TxType
  <2>3. \A d \in Clients :
          /\ h'[d].pc \notin {"idle", "create"} => h'[d].fg \in 1..created
          /\ h'[d].pc \in Locked => h'[d].mode \in Modes
          /\ h'[d].pc \in {"create", "configure"} => h'[d].mode \in Requests
          /\ h'[d].pc \in {"mode stop", "mode wait", "mode stopped"} => h'[d].was
    <3> TAKE d \in Clients
    <3>1. CASE d = c
      BY <1>3, <2>2, <3>1 DEF Locked
    <3>2. CASE d # c
      BY <1>3, <3>2 DEF TxInv, PlaceInv
    <3> QED  BY <3>1, <3>2
  <2> QED  BY <1>1, <2>1, <2>3 DEF PlaceInv
<1>7. LockInv'
  BY <1>1, <1>3, LockOfOthers DEF TxInv, Locked
<1>8. StartInv'
  <2> SUFFICES ASSUME "stop" \notin overlaps', created <= 1
               PROVE  StartInv'
    BY <1>1 DEF StartInv
  <2>1. \A d \in Clients : h[d].pc = "idle"
    BY <1>4 DEF Active
  <2>2. \A f \in Fg : on[f] => _running[f]
    BY <1>4, <2>1 DEF TxInv, StartInv, Starting
  <2> QED  BY <1>1, <1>3, <2>1, <2>2 DEF StartInv, Stopping, Active
<1>9. AloneInv'
  <2> SUFFICES ASSUME overlaps' = {}
               PROVE  AloneInv'
    BY DEF AloneInv
  <2>1. overlaps = {} /\ \A d \in Clients : d # c => h[d].pc = "idle"
    BY <1>4 DEF Active
  <2> QED  BY <1>1, <1>3, <2>1 DEF TxInv, TxType, AloneInv, Active
<1> QED  BY <1>5, <1>6, <1>7, <1>8, <1>9 DEF TxInv

(* What a step of a handler that goes on must see to, for each part of the *)
(* invariant.                                                              *)
LEMMA PlaceFrame ==
  ASSUME TxInv, NEW c \in Clients, NEW to, Moves(c, to), UNCHANGED created,
         h[c].pc \notin {"idle", "create"} \/ to = "idle", to \notin {"create", "configure"},
         to \in Locked => h[c].mode \in Modes,
         to \in {"mode stop", "mode wait", "mode stopped"} => h[c].was,
         \A f \in Fg : (on'[f] => f <= created) /\ (sending'[f] # "none" => on'[f])
  PROVE  PlaceInv'
<1>1. \A d \in Clients :
        /\ h'[d].pc \notin {"idle", "create"} => h'[d].fg \in 1..created
        /\ h'[d].pc \in Locked => h'[d].mode \in Modes
        /\ h'[d].pc \in {"create", "configure"} => h'[d].mode \in Requests
        /\ h'[d].pc \in {"mode stop", "mode wait", "mode stopped"} => h'[d].was
  <2> TAKE d \in Clients
  <2>1. CASE d = c
    BY <2>1 DEF Moves, TxInv, PlaceInv
  <2>2. CASE d # c
    BY <2>2 DEF Moves, TxInv, PlaceInv
  <2> QED  BY <2>1, <2>2
<1> QED  BY <1>1 DEF PlaceInv

LEMMA LockFrame ==
  ASSUME TxInv, NEW c \in Clients, NEW to, Moves(c, to), UNCHANGED _lock,
         to \in Locked <=> h[c].pc \in Locked
  PROVE  LockInv'
  BY LockOfOthers DEF Moves, TxInv

LEMMA UnlockFrame ==
  ASSUME TxInv, NEW c \in Clients, NEW to, Moves(c, to), Free(c),
         to \notin Locked, h[c].pc \in Locked
  PROVE  LockInv'
<1>1. \A d \in Clients : d # c /\ h[d].pc \in Locked => h[d].fg # h[c].fg
  BY DEF TxInv, LockInv
<1>2. h[c].pc \notin {"idle", "create"}
  BY DEF Locked
<1>3. h[c].fg \in Fg /\ \A d \in Clients : h[d].pc \in Locked => h[d].fg \in Fg
  <2>1. ASSUME NEW d \in Clients, h[d].pc \notin {"idle", "create"} PROVE h[d].fg \in Fg
    BY <2>1, TxNumbers DEF TxInv, TxType, PlaceInv
  <2> QED  BY <1>2, <2>1 DEF Locked
<1>4. _lock' = [_lock EXCEPT ![h[c].fg] = "free"]
  BY DEF Free
<1>5. ASSUME NEW d \in Clients, h'[d].pc \in Locked PROVE _lock'[h'[d].fg] = d
  <2>1. d # c
    BY <1>5 DEF Moves
  <2>2. h'[d] = h[d] /\ h[d].fg # h[c].fg /\ h[d].fg \in Fg /\ _lock[h[d].fg] = d
    BY <1>1, <1>3, <1>5, <2>1 DEF Moves, TxInv, LockInv
  <2> QED  BY <1>4, <2>2 DEF TxInv, TxType
<1>6. ASSUME NEW f \in Fg, _lock'[f] # "free"
      PROVE  h'[_lock'[f]].pc \in Locked /\ h'[_lock'[f]].fg = f
  <2>1. f # h[c].fg /\ _lock'[f] = _lock[f]
    BY <1>3, <1>4, <1>6 DEF TxInv, TxType
  <2>2. _lock[f] \in Clients /\ h[_lock[f]].pc \in Locked /\ h[_lock[f]].fg = f
    BY <1>6, <2>1 DEF TxInv, TxType, LockInv
  <2>3. _lock[f] # c
    BY <2>1, <2>2
  <2> QED  BY <2>1, <2>2, <2>3 DEF Moves
<1> QED  BY <1>5, <1>6 DEF LockInv

LEMMA StartFrame ==
  ASSUME TxInv, NEW c \in Clients, NEW to, Moves(c, to), UNCHANGED <<overlaps, created>>,
         h[c].pc # "idle",
         to \in {"stop", "wait", "stopped"} => h[c].pc \in {"stop", "wait", "stopped"},
         to = "stopped" => ~on'[h[c].fg],
         \A f \in Fg :
           on'[f] /\ ~_running'[f] =>
             \/ f = h[c].fg /\ (to \in Starting \/ (to = "connect" /\ h[c].was))
             \/ on[f] /\ ~_running[f] /\ (f = h[c].fg => h[c].pc \notin Starting
                                                          /\ ~(h[c].pc = "connect" /\ h[c].was))
             \/ "stop" \in overlaps \/ ~(created <= 1)
  PROVE  StartInv'
<1> SUFFICES ASSUME "stop" \notin overlaps, created <= 1
             PROVE  /\ \A d \in Stopping', e \in Active' : d = e
                    /\ \A d \in Clients : h'[d].pc = "stopped" => ~on'[h'[d].fg]
                    /\ \A f \in Fg : on'[f] /\ ~_running'[f] =>
                         \E d \in Clients :
                           /\ h'[d].fg = f
                           /\ h'[d].pc \in Starting \/ (h'[d].pc = "connect" /\ h'[d].was)
  BY DEF StartInv
<1>1. \A d \in Stopping, e \in Active : d = e
  BY DEF TxInv, StartInv
<1>2. c \in Active /\ Active' \subseteq Active /\ Stopping' \subseteq Stopping
  <2>1. \A d \in Clients : d # c => h'[d] = h[d]
    BY DEF Moves
  <2>2. h'[c].pc = to
    BY DEF Moves
  <2> QED  BY <2>1, <2>2 DEF Active, Stopping
<1>3. \A d \in Stopping', e \in Active' : d = e
  BY <1>1, <1>2
<1>4. ASSUME NEW d \in Clients, h'[d].pc = "stopped" PROVE ~on'[h'[d].fg]
  <2>1. d \in Stopping'
    BY <1>4 DEF Stopping
  <2>2. d = c
    BY <1>1, <1>2, <2>1
  <2> QED  BY <1>4, <2>2 DEF Moves
<1>5. ASSUME NEW f \in Fg, on'[f], ~_running'[f]
      PROVE  \E d \in Clients :
               /\ h'[d].fg = f
               /\ h'[d].pc \in Starting \/ (h'[d].pc = "connect" /\ h'[d].was)
  <2>1. CASE f = h[c].fg /\ (to \in Starting \/ (to = "connect" /\ h[c].was))
    BY <2>1 DEF Moves
  <2>2. CASE on[f] /\ ~_running[f] /\ (f = h[c].fg => h[c].pc \notin Starting
                                                     /\ ~(h[c].pc = "connect" /\ h[c].was))
    <3>1. PICK d \in Clients : /\ h[d].fg = f
                               /\ h[d].pc \in Starting \/ (h[d].pc = "connect" /\ h[d].was)
      BY <2>2 DEF TxInv, StartInv
    <3>2. d # c
      BY <2>2, <3>1
    <3> QED  BY <3>1, <3>2 DEF Moves
  <2> QED  BY <1>5, <2>1, <2>2
<1> QED  BY <1>3, <1>4, <1>5

LEMMA AloneFrame ==
  ASSUME TxInv, NEW c \in Clients, NEW to, Moves(c, to), UNCHANGED <<overlaps, created>>,
         h[c].pc # "idle", to # "create",
         overlaps = {} /\ to = "connect" /\ ~h[c].was => ~on'[h[c].fg],
         overlaps = {} => \A f \in Fg : sending'[f] # "none" => sending'[f] = source'[f]
  PROVE  AloneInv'
<1> SUFFICES ASSUME overlaps = {}
             PROVE  /\ created <= 1
                    /\ \A d, e \in Active' : d = e
                    /\ \A d \in Clients :
                         /\ h'[d].pc = "create" => created = 0
                         /\ h'[d].pc = "connect" /\ ~h'[d].was => ~on'[h'[d].fg]
  BY DEF AloneInv
<1>1. \A d \in Clients : d # c => h[d].pc = "idle"
  BY DEF TxInv, AloneInv, Active
<1>2. \A d \in Clients : d # c => h'[d].pc = "idle"
  BY <1>1 DEF Moves
<1>3. created <= 1
  BY DEF TxInv, AloneInv
<1> QED  BY <1>2, <1>3 DEF Moves, Active

(* The first use creates the flowgraph, or a second one meanwhile.         *)
LEMMA CreateInv == ASSUME TxInv, NEW c \in Clients, CreateFlowgraph(c)  PROVE TxInv'
<1> DEFINE new == created + 1
<1>1. /\ h[c].pc = "create" /\ created < MaxFlowgraphs /\ created' = new /\ tx_fg' = new
      /\ h' = [h EXCEPT ![c] = [h[c] EXCEPT !.pc = "configure", !.fg = new]]
      /\ UNCHANGED <<_running, _mode, source, _lock, on, sending, overlaps>>
  BY DEF CreateFlowgraph, tbVars
<1>2. created \in 0..MaxFlowgraphs /\ h \in [Clients -> Handler]
  BY DEF TxInv, TxType
<1>3. new \in Fg /\ new \in 0..MaxFlowgraphs /\ new \in 1..new /\ new > created /\ created \in Nat
  BY <1>1, <1>2, TxNumbers DEF Fg
<1> HIDE DEF new
<1>4. /\ h' \in [Clients -> Handler]
      /\ h'[c].pc = "configure" /\ h'[c].fg = new /\ h'[c].mode = h[c].mode
      /\ \A d \in Clients : d # c => h'[d] = h[d]
  <2> DEFINE x == [h[c] EXCEPT !.pc = "configure", !.fg = new]
  <2>1. "configure" \in Stages /\ h[c] \in Handler
    BY <1>2 DEF Stages
  <2>2. x \in Handler /\ x.pc = "configure" /\ x.fg = new /\ x.mode = h[c].mode
    BY <1>3, <2>1 DEF Handler
  <2> HIDE DEF x
  <2>3. h' = [h EXCEPT ![c] = x]
    BY <1>1 DEF x
  <2> QED  BY <1>2, <2>2, <2>3, SetHandler
<1>5. TxType'
  BY <1>1, <1>3, <1>4 DEF TxInv, TxType
<1>6. PlaceInv'
  <2>1. \A f \in Fg : (on[f] => f <= new) /\ (sending[f] # "none" => on[f])
    <3> TAKE f \in Fg
    <3>1. (on[f] => f <= created) /\ (sending[f] # "none" => on[f])
      BY DEF TxInv, PlaceInv
    <3>2. f <= created => f <= new
      BY <1>3 DEF Fg
    <3> QED  BY <3>1, <3>2
  <2>2. \A d \in Clients :
          /\ h'[d].pc \notin {"idle", "create"} => h'[d].fg \in 1..new
          /\ h'[d].pc \in Locked => h'[d].mode \in Modes
          /\ h'[d].pc \in {"create", "configure"} => h'[d].mode \in Requests
          /\ h'[d].pc \in {"mode stop", "mode wait", "mode stopped"} => h'[d].was
    <3> TAKE d \in Clients
    <3>1. CASE d = c
      BY <1>1, <1>3, <1>4, <3>1 DEF TxInv, PlaceInv, Locked
    <3>2. CASE d # c
      <4>1. h[d].fg \in 1..created => h[d].fg \in 1..new
        BY <1>3
      <4> QED  BY <1>4, <3>2, <4>1 DEF TxInv, PlaceInv
    <3> QED  BY <3>1, <3>2
  <2> QED  BY <1>1, <2>1, <2>2 DEF PlaceInv
<1>7. LockInv'
  BY <1>1, <1>4, LockOfOthers DEF TxInv, Locked
<1>8. \A f \in Fg : created = 0 => ~on[f]
  <2> SUFFICES ASSUME NEW f \in Fg, created = 0, on[f] PROVE FALSE
    OBVIOUS
  <2>1. f <= created
    BY DEF TxInv, PlaceInv
  <2> QED  BY <2>1 DEF Fg
<1>9. new <= 1 => created = 0 /\ created <= 1
  BY <1>3 DEF new
<1>10. StartInv'
  <2> SUFFICES ASSUME "stop" \notin overlaps, new <= 1
               PROVE  StartInv'
    BY <1>1 DEF StartInv
  <2>1. \A d \in Stopping, e \in Active : d = e
    BY <1>9 DEF TxInv, StartInv
  <2>2. Stopping' = Stopping /\ Active' = Active
    BY <1>1, <1>4 DEF Stopping, Active
  <2> QED  BY <1>1, <1>8, <1>9, <1>4, <2>1, <2>2, HandlerFields DEF StartInv, TxInv, TxType
<1>11. AloneInv'
  <2> SUFFICES ASSUME overlaps = {}
               PROVE  AloneInv'
    BY <1>1 DEF AloneInv
  <2>1. created = 0 /\ \A d \in Clients : d # c => h[d].pc = "idle"
    BY <1>1 DEF TxInv, AloneInv, Active
  <2>2. new <= 1
    BY <2>1 DEF new
  <2> QED  BY <1>1, <1>4, <2>1, <2>2 DEF TxInv, AloneInv, Active
<1> QED  BY <1>5, <1>6, <1>7, <1>10, <1>11 DEF TxInv

(* Steps that change nothing but the stage of a handler outside of mode    *)
(* switching, or wait in it.                                               *)
LEMMA OnlyMovesInv ==
  ASSUME TxInv, NEW c \in Clients,
         CreateFails(c) \/ BadRequest(c) \/ CheckRunning(c) \/ WaitBlock(c)
  PROVE  TxInv'
<1>1. /\ UNCHANGED <<tx_fg, created, _running, _mode, source, _lock, on, sending, overlaps>>
      /\ h \in [Clients -> Handler]
  BY DEF CreateFails, BadRequest, CheckRunning, WaitBlock, fgVars, tbVars, TxInv, TxType
<1>2. /\ "idle" \in Stages /\ "start" \in Stages /\ "mode stopped" \in Stages
      /\ "stopped" \in Stages
  BY DEF Stages, Locked
<1>3. PICK to \in {"idle", "start", "mode stopped", "stopped"} :
        /\ Moves(c, to)
        /\ to = "idle" => h[c].pc \in {"create", "configure", "check"}
        /\ to = "start" => h[c].pc = "check"
        /\ to = "mode stopped" => h[c].pc = "mode wait"
        /\ to = "stopped" => h[c].pc = "wait" /\ ~on[h[c].fg]
  <2>1. CASE CreateFails(c) \/ BadRequest(c)
    BY <1>1, <1>2, <2>1, GotoMoves DEF CreateFails, BadRequest
  <2>2. CASE CheckRunning(c)
    <3>1. Goto(c, "check", "idle") \/ Goto(c, "check", "start")
      BY <2>2 DEF CheckRunning
    <3> QED  BY <1>1, <1>2, <3>1, GotoMoves
  <2>3. CASE WaitBlock(c)
    BY <1>1, <1>2, <2>3, GotoMoves DEF WaitBlock
  <2> QED  BY <2>1, <2>2, <2>3
<1>4. h[c].pc \in {"create", "configure", "check", "mode wait", "wait"}
  BY <1>3
<1>5. TxType'
  BY <1>1, <1>3 DEF Moves, TxInv, TxType
<1>6. PlaceInv'
  <2>1. \A f \in Fg : (on'[f] => f <= created) /\ (sending'[f] # "none" => on'[f])
    BY <1>1 DEF TxInv, PlaceInv
  <2>2. to = "mode stopped" => h[c].mode \in Modes /\ h[c].was
    BY <1>3 DEF TxInv, PlaceInv, Locked
  <2>3. to \in Locked => to = "mode stopped"
    BY DEF Locked
  <2>4. h[c].pc \notin {"idle", "create"} \/ to = "idle"
    BY <1>3
  <2> QED  BY <1>1, <1>3, <2>1, <2>2, <2>3, <2>4, PlaceFrame
<1>7. LockInv'
  <2>1. to \in Locked <=> h[c].pc \in Locked
    BY <1>3 DEF Locked
  <2> QED  BY <1>1, <1>3, <2>1, LockFrame
<1>8. StartInv'
  BY <1>1, <1>3, <1>4, StartFrame DEF Starting
<1>9. AloneInv'
  <2>1. overlaps = {} => \A f \in Fg : sending[f] # "none" => sending[f] = source[f]
    BY DEF TxInv, AloneInv
  <2> QED  BY <1>1, <1>3, <1>4, <2>1, AloneFrame
<1> QED  BY <1>5, <1>6, <1>7, <1>8, <1>9 DEF TxInv

(* The lock is taken, and whether the flowgraph runs is read.              *)
LEMMA LockFlowgraphInv == ASSUME TxInv, NEW c \in Clients, LockFlowgraph(c)  PROVE TxInv'
<1> DEFINE f == h[c].fg
           to == IF _running[f] THEN "mode stop" ELSE "connect"
<1>1. /\ h[c].pc = "configure" /\ h[c].mode # "bad" /\ _lock[f] = "free"
      /\ _lock' = [_lock EXCEPT ![f] = c]
      /\ h' = [h EXCEPT ![c] = [h[c] EXCEPT !.was = _running[f], !.pc = to]]
      /\ UNCHANGED <<tx_fg, created, _running, _mode, source, on, sending, overlaps>>
  BY DEF LockFlowgraph, fgVars, tbVars
<1>2. /\ created \in 0..MaxFlowgraphs /\ h \in [Clients -> Handler]
      /\ _running \in [Fg -> BOOLEAN] /\ _lock \in [Fg -> Clients \cup {"free"}]
  BY DEF TxInv, TxType
<1>3. f \in 1..created /\ f \in Fg /\ h[c].mode \in Modes
  BY <1>1, <1>2, TxNumbers DEF TxInv, PlaceInv, Requests
<1>4. to \in {"mode stop", "connect"} /\ to \in Locked /\ to \in Stages /\ _running[f] \in BOOLEAN
      /\ (to = "connect" <=> ~_running[f])
  BY <1>2, <1>3 DEF Locked, Stages
<1> HIDE DEF to
<1>5. /\ h' \in [Clients -> Handler]
      /\ h'[c].pc = to /\ h'[c].fg = f /\ h'[c].mode = h[c].mode /\ h'[c].was = _running[f]
      /\ \A d \in Clients : d # c => h'[d] = h[d]
  <2> DEFINE x == [h[c] EXCEPT !.was = _running[f], !.pc = to]
  <2>1. x \in Handler /\ x.pc = to /\ x.fg = f /\ x.mode = h[c].mode /\ x.was = _running[f]
    <3> DEFINE y == h[c]
               b == _running[f]
    <3>1. y \in Handler /\ b \in BOOLEAN
      BY <1>2, <1>4
    <3>2. x = [y EXCEPT !.was = b, !.pc = to]
      OBVIOUS
    <3> HIDE DEF y, b, x
    <3>3. x \in Handler /\ x.pc = to /\ x.fg = y.fg /\ x.mode = y.mode /\ x.was = b
      BY ONLY <1>4, <3>1, <3>2 DEF Handler
    <3>4. y.fg = f /\ y.mode = h[c].mode /\ b = _running[f]
      BY DEF y, b
    <3> QED  BY <3>3, <3>4
  <2> HIDE DEF x
  <2>2. h' = [h EXCEPT ![c] = x]
    BY <1>1 DEF x
  <2> QED  BY <1>2, <2>1, <2>2, SetHandler
<1> HIDE DEF f
<1>6. TxType'
  BY <1>1, <1>3, <1>5 DEF TxInv, TxType
<1>7. PlaceInv'
  <2>1. \A g \in Fg : (on[g] => g <= created) /\ (sending[g] # "none" => on[g])
    BY DEF TxInv, PlaceInv
  <2>2. \A d \in Clients :
          /\ h'[d].pc \notin {"idle", "create"} => h'[d].fg \in 1..created
          /\ h'[d].pc \in Locked => h'[d].mode \in Modes
          /\ h'[d].pc \in {"create", "configure"} => h'[d].mode \in Requests
          /\ h'[d].pc \in {"mode stop", "mode wait", "mode stopped"} => h'[d].was
    <3> TAKE d \in Clients
    <3>1. CASE d = c
      BY <1>3, <1>4, <1>5, <3>1
    <3>2. CASE d # c
      BY <1>5, <3>2 DEF TxInv, PlaceInv
    <3> QED  BY <3>1, <3>2
  <2> QED  BY <1>1, <2>1, <2>2 DEF PlaceInv
<1>8. LockInv'
  <2>1. \A d \in Clients : h[d].pc \in Locked => h[d].fg # f /\ d # c
    <3>1. "configure" \notin Locked
      BY DEF Locked
    <3>2. \A d \in Clients : h[d].pc \in Locked => _lock[h[d].fg] = d /\ d # "free"
      BY TxNumbers DEF TxInv, LockInv
    <3> QED  BY <1>1, <3>1, <3>2
  <2>2. ASSUME NEW d \in Clients, h'[d].pc \in Locked PROVE _lock'[h'[d].fg] = d
    <3>1. CASE d = c
      BY <1>1, <1>2, <1>3, <1>5, <3>1
    <3>2. CASE d # c
      <4>1. h'[d] = h[d] /\ _lock[h[d].fg] = d /\ h[d].fg # f
        BY <1>5, <2>1, <2>2, <3>2 DEF TxInv, LockInv
      <4>2. h[d].fg \in Fg
        BY <1>2, <2>2, <4>1, TxNumbers DEF TxInv, PlaceInv, Locked
      <4> QED  BY <1>1, <1>2, <4>1, <4>2
    <3> QED  BY <3>1, <3>2
  <2>3. ASSUME NEW g \in Fg, _lock'[g] # "free"
        PROVE  h'[_lock'[g]].pc \in Locked /\ h'[_lock'[g]].fg = g
    <3>1. CASE g = f
      BY <1>1, <1>2, <1>4, <1>5, <3>1
    <3>2. CASE g # f
      <4>1. _lock'[g] = _lock[g] /\ _lock[g] \in Clients
        BY <1>1, <1>2, <2>3, <3>2
      <4>2. h[_lock[g]].pc \in Locked /\ h[_lock[g]].fg = g
        BY <2>3, <4>1 DEF TxInv, LockInv
      <4> QED  BY <1>5, <2>1, <4>1, <4>2
    <3> QED  BY <3>1, <3>2
  <2> QED  BY <2>2, <2>3 DEF LockInv
<1>9. StartInv'
  <2> SUFFICES ASSUME "stop" \notin overlaps, created <= 1
               PROVE  StartInv'
    BY <1>1 DEF StartInv
  <2>1. Stopping' = Stopping /\ Active' = Active
    BY <1>1, <1>4, <1>5 DEF Stopping, Active
  <2>2. \A d \in Clients : h'[d].pc = "stopped" => ~on[h'[d].fg]
    BY <1>4, <1>5 DEF TxInv, StartInv
  <2>3. ASSUME NEW g \in Fg, on[g], ~_running[g]
        PROVE  \E d \in Clients :
                 /\ h'[d].fg = g
                 /\ h'[d].pc \in Starting \/ (h'[d].pc = "connect" /\ h'[d].was)
    <3>1. PICK d \in Clients : /\ h[d].fg = g
                               /\ h[d].pc \in Starting \/ (h[d].pc = "connect" /\ h[d].was)
      BY <2>3 DEF TxInv, StartInv
    <3>2. d # c
      BY <1>1, <3>1 DEF Starting
    <3> QED  BY <1>5, <3>1, <3>2
  <2> QED  BY <1>1, <2>1, <2>2, <2>3 DEF StartInv, TxInv
<1>10. AloneInv'
  <2> SUFFICES ASSUME overlaps = {}
               PROVE  AloneInv'
    BY <1>1 DEF AloneInv
  <2>1. \A d \in Clients : d # c => h[d].pc = "idle"
    BY <1>1 DEF TxInv, AloneInv, Active
  <2>2. created <= 1 /\ \A g \in Fg : sending[g] # "none" => sending[g] = source[g]
    BY DEF TxInv, AloneInv
  <2>3. ~_running[f] => ~on[f]
    <3> SUFFICES ASSUME ~_running[f], on[f] PROVE FALSE
      OBVIOUS
    <3>1. PICK d \in Clients : h[d].pc \in Starting \cup {"connect"}
      BY <1>3, <2>2 DEF TxInv, StartInv
    <3> QED  BY <1>1, <2>1, <3>1 DEF Starting
  <2> QED  BY <1>1, <1>4, <1>5, <2>1, <2>2, <2>3 DEF AloneInv, Active
<1> QED  BY <1>6, <1>7, <1>8, <1>9, <1>10 DEF TxInv

(* The flowgraph of a handler that is at work.                             *)
LEMMA AtWork ==
  ASSUME TxInv, NEW c \in Clients, h[c].pc \notin {"idle", "create"}
  PROVE  h[c].fg \in Fg /\ h[c].fg <= created /\ created \in Int
<1>1. created \in 0..MaxFlowgraphs /\ h[c].fg \in 1..created
  BY DEF TxInv, TxType, PlaceInv
<1> QED  BY <1>1, TxNumbers

(* super().stop()                                                          *)
LEMMA StopBlockInv == ASSUME TxInv, NEW c \in Clients, StopBlock(c)  PROVE TxInv'
<1> DEFINE f == h[c].fg
<1>1. /\ on' = [on EXCEPT ![f] = FALSE] /\ sending' = [sending EXCEPT ![f] = "none"]
      /\ UNCHANGED <<tx_fg, created, _running, _mode, source, _lock, overlaps>>
      /\ h \in [Clients -> Handler] /\ on \in [Fg -> BOOLEAN]
      /\ sending \in [Fg -> Modes \cup {"none"}]
  BY DEF StopBlock, TbStop, fgVars, TxInv, TxType
<1>2. PICK to \in {"mode wait", "wait"} :
        /\ Moves(c, to)
        /\ h[c].pc = IF to = "wait" THEN "stop" ELSE "mode stop"
  <2>1. "mode wait" \in Stages /\ "wait" \in Stages
    BY DEF Stages, Locked
  <2> QED  BY <1>1, <2>1, GotoMoves DEF StopBlock
<1>3. f \in Fg
  BY <1>2, AtWork
<1>4. \A g \in Fg : /\ on'[g] => on[g] /\ g # f
                    /\ sending'[g] # "none" => sending'[g] = sending[g] /\ g # f
  BY <1>1, <1>3
<1>5. TxType'
  BY <1>1, <1>2, <1>3 DEF Moves, TxInv, TxType
<1>6. PlaceInv'
  <2>1. \A g \in Fg : (on'[g] => g <= created) /\ (sending'[g] # "none" => on'[g])
    BY <1>1, <1>3, <1>4 DEF TxInv, PlaceInv
  <2>2. to = "mode wait" => h[c].mode \in Modes /\ h[c].was
    BY <1>2 DEF TxInv, PlaceInv, Locked
  <2>3. to \in Locked => to = "mode wait"
    BY DEF Locked
  <2> QED  BY <1>1, <1>2, <2>1, <2>2, <2>3, PlaceFrame
<1>7. LockInv'
  <2>1. to \in Locked <=> h[c].pc \in Locked
    BY <1>2 DEF Locked
  <2> QED  BY <1>1, <1>2, <2>1, LockFrame
<1>8. StartInv'
  BY <1>1, <1>2, <1>4, StartFrame DEF Starting
<1>9. AloneInv'
  <2>1. overlaps = {} => \A g \in Fg : sending'[g] # "none" => sending'[g] = source'[g]
    BY <1>1, <1>4 DEF TxInv, AloneInv
  <2> QED  BY <1>1, <1>2, <2>1, AloneFrame
<1> QED  BY <1>5, <1>6, <1>7, <1>8, <1>9 DEF TxInv

(* self._running = False                                                   *)
LEMMA StoppedInv == ASSUME TxInv, NEW c \in Clients, Stopped(c)  PROVE TxInv'
<1> DEFINE f == h[c].fg
<1>1. /\ _running' = [_running EXCEPT ![f] = FALSE]
      /\ UNCHANGED <<tx_fg, created, _mode, source, _lock, on, sending, overlaps>>
      /\ h \in [Clients -> Handler] /\ _running \in [Fg -> BOOLEAN]
  BY DEF Stopped, fgVars, tbVars, TxInv, TxType
<1>2. PICK to \in {"connect", "idle"} :
        /\ Moves(c, to)
        /\ h[c].pc = IF to = "connect" THEN "mode stopped" ELSE "stopped"
  <2>1. "connect" \in Stages /\ "idle" \in Stages
    BY DEF Stages, Locked
  <2> QED  BY <1>1, <2>1, GotoMoves DEF Stopped
<1>3. f \in Fg
  BY <1>2, AtWork
<1>4. \A g \in Fg : g # f => _running'[g] = _running[g]
  BY <1>1
<1>5. TxType'
  BY <1>1, <1>2, <1>3 DEF Moves, TxInv, TxType
<1>6. to = "connect" => h[c].mode \in Modes /\ h[c].was
  BY <1>2 DEF TxInv, PlaceInv, Locked
<1>7. PlaceInv'
  <2>1. \A g \in Fg : (on'[g] => g <= created) /\ (sending'[g] # "none" => on'[g])
    BY <1>1 DEF TxInv, PlaceInv
  <2>2. to \in Locked => to = "connect"
    BY DEF Locked
  <2> QED  BY <1>1, <1>2, <1>6, <2>1, <2>2, PlaceFrame
<1>8. LockInv'
  <2>1. to \in Locked <=> h[c].pc \in Locked
    BY <1>2 DEF Locked
  <2> QED  BY <1>1, <1>2, <2>1, LockFrame
<1>9. StartInv'
  <2>1. to = "idle" => ~on[f] \/ "stop" \in overlaps \/ ~(created <= 1)
    BY <1>2 DEF TxInv, StartInv
  <2>2. h[c].pc \notin Starting \cup {"connect"}
    BY <1>2 DEF Starting
  <2>3. \A g \in Fg :
          on'[g] /\ ~_running'[g] =>
             \/ g = h[c].fg /\ (to \in Starting \/ (to = "connect" /\ h[c].was))
             \/ on[g] /\ ~_running[g] /\ (g = h[c].fg => h[c].pc \notin Starting
                                                          /\ ~(h[c].pc = "connect" /\ h[c].was))
             \/ "stop" \in overlaps \/ ~(created <= 1)
    BY <1>1, <1>2, <1>4, <1>6, <2>1, <2>2
  <2> QED  BY <1>1, <1>2, <2>3, StartFrame
<1>10. AloneInv'
  <2>1. overlaps = {} => \A g \in Fg : sending'[g] # "none" => sending'[g] = source'[g]
    BY <1>1 DEF TxInv, AloneInv
  <2> QED  BY <1>1, <1>2, <1>6, <2>1, AloneFrame
<1> QED  BY <1>5, <1>7, <1>8, <1>9, <1>10 DEF TxInv

(* disconnect_all() and connect(), with the block at rest if it ran.       *)
LEMMA ConnectInv == ASSUME TxInv, NEW c \in Clients, Connect(c)  PROVE TxInv'
<1> DEFINE f == h[c].fg
<1>1. /\ h[c].pc = "connect" /\ (h[c].was => ~on[f])
      /\ source' = [source EXCEPT ![f] = h[c].mode] /\ _mode' = [_mode EXCEPT ![f] = h[c].mode]
      /\ UNCHANGED <<tx_fg, created, _running, on, sending, overlaps>>
      /\ h \in [Clients -> Handler]
  BY DEF Connect, fgVars, tbVars, TxInv, TxType
<1>2. PICK to \in {"mode start", "check"} :
        /\ Moves(c, to)
        /\ IF to = "check" THEN Free(c) ELSE UNCHANGED _lock
  <2>1. "mode start" \in Stages /\ "check" \in Stages
    BY DEF Stages, Locked
  <2> QED  BY <1>1, <2>1, GotoMoves DEF Connect
<1>3. f \in Fg
  BY <1>1, AtWork
<1>4. h[c].mode \in Modes /\ h[c].pc \in Locked /\ h[c].was \in BOOLEAN
  BY <1>1, HandlerFields DEF TxInv, PlaceInv, Locked
<1>5. TxType'
  <2>1. source' = _mode' /\ _mode' \in [Fg -> Modes \cup {"none"}]
    BY <1>1, <1>3, <1>4 DEF TxInv, TxType
  <2>2. _lock' \in [Fg -> Clients \cup {"free"}]
    BY <1>2, <1>3 DEF Free, TxInv, TxType
  <2> QED  BY <1>1, <1>2, <2>1, <2>2 DEF Moves, TxInv, TxType
<1>6. PlaceInv'
  <2>1. \A g \in Fg : (on'[g] => g <= created) /\ (sending'[g] # "none" => on'[g])
    BY <1>1 DEF TxInv, PlaceInv
  <2> QED  BY <1>1, <1>2, <1>4, <2>1, PlaceFrame
<1>7. LockInv'
  <2>1. to = "check" => to \notin Locked
    BY DEF Locked
  <2>2. to = "mode start" => to \in Locked
    BY DEF Locked
  <2> QED  BY <1>2, <1>4, <2>1, <2>2, LockFrame, UnlockFrame
<1>8. StartInv'
  <2>1. \A g \in Fg :
          on'[g] /\ ~_running'[g] =>
             on[g] /\ ~_running[g] /\ (g = h[c].fg => h[c].pc \notin Starting
                                                       /\ ~(h[c].pc = "connect" /\ h[c].was))
    BY <1>1 DEF Starting
  <2> QED  BY <1>1, <1>2, <2>1, StartFrame
<1>9. AloneInv'
  <2>1. overlaps = {} => ~on[f]
    BY <1>1, <1>4 DEF TxInv, AloneInv
  <2>2. \A g \in Fg : g # f => source'[g] = source[g]
    BY <1>1 DEF TxInv, TxType
  <2>3. overlaps = {} => \A g \in Fg : sending[g] # "none" => g # f
    BY <1>3, <2>1 DEF TxInv, PlaceInv
  <2>4. overlaps = {} => \A g \in Fg : sending'[g] # "none" => sending'[g] = source'[g]
    BY <1>1, <2>2, <2>3 DEF TxInv, AloneInv
  <2> QED  BY <1>1, <1>2, <2>4, AloneFrame
<1> QED  BY <1>5, <1>6, <1>7, <1>8, <1>9 DEF TxInv

(* super().start()                                                         *)
LEMMA StartBlockInv == ASSUME TxInv, NEW c \in Clients, StartBlock(c)  PROVE TxInv'
<1> DEFINE f == h[c].fg
<1>1. /\ on' = [on EXCEPT ![f] = TRUE] /\ sending' = [sending EXCEPT ![f] = source[f]]
      /\ UNCHANGED <<tx_fg, created, _running, _mode, source, _lock, overlaps>>
      /\ h \in [Clients -> Handler] /\ on \in [Fg -> BOOLEAN]
      /\ sending \in [Fg -> Modes \cup {"none"}] /\ source \in [Fg -> Modes \cup {"none"}]
  BY DEF StartBlock, TbStart, fgVars, TxInv, TxType
<1>2. PICK to \in {"mode started", "started"} :
        /\ Moves(c, to)
        /\ h[c].pc = IF to = "started" THEN "start" ELSE "mode start"
  <2>1. "mode started" \in Stages /\ "started" \in Stages
    BY DEF Stages, Locked
  <2> QED  BY <1>1, <2>1, GotoMoves DEF StartBlock
<1>3. f \in Fg /\ f <= created
  BY <1>2, AtWork
<1>4. \A g \in Fg : g # f => on'[g] = on[g] /\ sending'[g] = sending[g]
  BY <1>1, <1>3
<1>5. TxType'
  BY <1>1, <1>2, <1>3 DEF Moves, TxInv, TxType
<1>6. PlaceInv'
  <2>1. \A g \in Fg : (on'[g] => g <= created) /\ (sending'[g] # "none" => on'[g])
    BY <1>1, <1>3, <1>4 DEF TxInv, PlaceInv
  <2>2. to = "mode started" => h[c].mode \in Modes
    BY <1>2 DEF TxInv, PlaceInv, Locked
  <2>3. to \in Locked => to = "mode started"
    BY DEF Locked
  <2> QED  BY <1>1, <1>2, <2>1, <2>2, <2>3, PlaceFrame
<1>7. LockInv'
  <2>1. to \in Locked <=> h[c].pc \in Locked
    BY <1>2 DEF Locked
  <2> QED  BY <1>1, <1>2, <2>1, LockFrame
<1>8. StartInv'
  <2>1. to \in Starting /\ h[c].pc \in {"start", "mode start"}
        /\ h[c].pc \notin Starting \cup {"connect", "idle"}
    BY <1>2 DEF Starting
  <2>2. \A g \in Fg :
          on'[g] /\ ~_running'[g] =>
             \/ g = h[c].fg /\ (to \in Starting \/ (to = "connect" /\ h[c].was))
             \/ on[g] /\ ~_running[g] /\ (g = h[c].fg => h[c].pc \notin Starting
                                                          /\ ~(h[c].pc = "connect" /\ h[c].was))
             \/ "stop" \in overlaps \/ ~(created <= 1)
    <3> TAKE g \in Fg
    <3>1. CASE g = f
      BY <2>1, <3>1
    <3>2. CASE g # f
      <4>1. on'[g] = on[g] /\ _running'[g] = _running[g]
        BY <1>1, <1>4, <3>2
      <4> QED  BY <3>2, <4>1
    <3> QED  BY <3>1, <3>2
  <2>3. to \notin {"stop", "wait", "stopped"}
    BY <1>2
  <2> QED  BY <1>1, <1>2, <2>1, <2>2, <2>3, StartFrame
<1>9. AloneInv'
  <2>1. overlaps = {} => \A g \in Fg : sending'[g] # "none" => sending'[g] = source'[g]
    BY <1>1, <1>4 DEF TxInv, AloneInv
  <2> QED  BY <1>1, <1>2, <2>1, AloneFrame
<1> QED  BY <1>5, <1>6, <1>7, <1>8, <1>9 DEF TxInv

(* ... which raises if the block is on.                                    *)
LEMMA StartRaisesInv == ASSUME TxInv, NEW c \in Clients, StartRaises(c)  PROVE TxInv'
<1>1. /\ UNCHANGED <<tx_fg, created, _running, _mode, source, on, sending, overlaps>>
      /\ h \in [Clients -> Handler] /\ on[h[c].fg]
  BY DEF StartRaises, fgVars, tbVars, TxInv, TxType
<1>2. /\ Moves(c, "idle")
      /\ \/ h[c].pc = "mode start" /\ Free(c)
         \/ h[c].pc = "start" /\ UNCHANGED _lock
  <2>1. "idle" \in Stages
    BY DEF Stages
  <2> QED  BY <1>1, <2>1, GotoMoves DEF StartRaises
<1>3. h[c].fg \in Fg
  BY <1>2, AtWork
<1>4. TxType'
  <2>1. _lock' \in [Fg -> Clients \cup {"free"}]
    BY <1>2, <1>3 DEF Free, TxInv, TxType
  <2> QED  BY <1>1, <1>2, <2>1 DEF Moves, TxInv, TxType
<1>5. PlaceInv'
  <2>1. \A g \in Fg : (on'[g] => g <= created) /\ (sending'[g] # "none" => on'[g])
    BY <1>1 DEF TxInv, PlaceInv
  <2> QED  BY <1>1, <1>2, <2>1, PlaceFrame DEF Locked
<1>6. LockInv'
  <2>1. "idle" \notin Locked /\ "mode start" \in Locked /\ "start" \notin Locked
    BY DEF Locked
  <2> QED  BY <1>2, <2>1, LockFrame, UnlockFrame
<1>7. StartInv'
  <2>1. h[c].pc \notin Starting \cup {"connect", "idle"}
    BY <1>2 DEF Starting
  <2> QED  BY <1>1, <1>2, <2>1, StartFrame
<1>8. AloneInv'
  <2>1. overlaps = {} => \A g \in Fg : sending'[g] # "none" => sending'[g] = source'[g]
    BY <1>1 DEF TxInv, AloneInv
  <2> QED  BY <1>1, <1>2, <2>1, AloneFrame
<1> QED  BY <1>4, <1>5, <1>6, <1>7, <1>8 DEF TxInv

(* self._running = True                                                    *)
LEMMA StartedInv == ASSUME TxInv, NEW c \in Clients, Started(c)  PROVE TxInv'
<1> DEFINE f == h[c].fg
<1>1. /\ _running' = [_running EXCEPT ![f] = TRUE]
      /\ UNCHANGED <<tx_fg, created, _mode, source, on, sending, overlaps>>
      /\ h \in [Clients -> Handler] /\ _running \in [Fg -> BOOLEAN]
  BY DEF Started, fgVars, tbVars, TxInv, TxType
<1>2. PICK to \in {"mode started again", "check", "idle"} :
        /\ Moves(c, to)
        /\ to = "mode started again" => h[c].pc = "mode started" /\ UNCHANGED _lock
        /\ to = "check" => h[c].pc = "mode started again" /\ Free(c)
        /\ to = "idle" => h[c].pc = "started" /\ UNCHANGED _lock
  <2>1. "mode started again" \in Stages /\ "check" \in Stages /\ "idle" \in Stages
    BY DEF Stages, Locked
  <2> QED  BY <1>1, <2>1, GotoMoves DEF Started
<1>3. h[c].pc \in Starting /\ h[c].pc \notin {"idle", "create"}
  BY <1>2 DEF Starting
<1>4. f \in Fg
  BY <1>3, AtWork
<1>5. \A g \in Fg : ~_running'[g] => g # f /\ ~_running[g]
  BY <1>1, <1>4
<1>6. TxType'
  <2>1. _lock' \in [Fg -> Clients \cup {"free"}]
    BY <1>2, <1>4 DEF Free, TxInv, TxType
  <2> QED  BY <1>1, <1>2, <2>1 DEF Moves, TxInv, TxType
<1>7. PlaceInv'
  <2>1. \A g \in Fg : (on'[g] => g <= created) /\ (sending'[g] # "none" => on'[g])
    BY <1>1 DEF TxInv, PlaceInv
  <2>2. to = "mode started again" => h[c].mode \in Modes
    BY <1>2 DEF TxInv, PlaceInv, Locked
  <2>3. to \in Locked => to = "mode started again"
    BY DEF Locked
  <2> QED  BY <1>1, <1>2, <1>3, <2>1, <2>2, <2>3, PlaceFrame
<1>8. LockInv'
  <2>1. to \in Locked <=> to = "mode started again"
    BY DEF Locked
  <2>2. h[c].pc \in Locked <=> h[c].pc # "started"
    BY <1>3 DEF Locked, Starting
  <2> QED  BY <1>2, <2>1, <2>2, LockFrame, UnlockFrame
<1>9. StartInv'
  <2>1. to \notin {"stop", "wait", "stopped"}
    BY <1>2
  <2> QED  BY <1>1, <1>2, <1>3, <1>5, <2>1, StartFrame
<1>10. AloneInv'
  <2>1. overlaps = {} => \A g \in Fg : sending'[g] # "none" => sending'[g] = source'[g]
    BY <1>1 DEF TxInv, AloneInv
  <2> QED  BY <1>1, <1>2, <1>3, <2>1, AloneFrame
<1> QED  BY <1>6, <1>7, <1>8, <1>9, <1>10 DEF TxInv

LEMMA TxNextInv == ASSUME TxInv, [Next]_vars  PROVE TxInv'
<1>1. CASE UNCHANGED vars
  <2>1. UNCHANGED <<tx_fg, created, _running, _mode, source, _lock, on, sending, h, overlaps>>
    BY <1>1 DEF vars, fgVars, tbVars
  <2>2. TxType' /\ PlaceInv' /\ LockInv'
    BY <2>1 DEF TxInv, TxType, PlaceInv, LockInv
  <2>3. StartInv'
    BY <2>1 DEF TxInv, StartInv, Active, Stopping
  <2>4. AloneInv'
    BY <2>1 DEF TxInv, AloneInv, Active
  <2> QED  BY <2>2, <2>3, <2>4 DEF TxInv
<1>2. ASSUME NEW f \in Fg, FileEnds(f) PROVE TxInv'
  BY <1>2, FileEndsInv
<1>3. ASSUME NEW c \in Clients, \E mode \in Requests : StartRequest(c, mode) PROVE TxInv'
  BY <1>3, StartRequestInv
<1>4. ASSUME NEW c \in Clients, CreateFlowgraph(c) \/ CreateFails(c) \/ BadRequest(c)
                                  \/ LockFlowgraph(c) \/ StopBlock(c) \/ WaitBlock(c)
                                  \/ Stopped(c)
      PROVE  TxInv'
  <2>1. CASE CreateFlowgraph(c)
    BY <2>1, CreateInv
  <2>2. CASE CreateFails(c) \/ BadRequest(c) \/ WaitBlock(c)
    BY <2>2, OnlyMovesInv
  <2>3. CASE LockFlowgraph(c)
    BY <2>3, LockFlowgraphInv
  <2>4. CASE StopBlock(c)
    BY <2>4, StopBlockInv
  <2>5. CASE Stopped(c)
    BY <2>5, StoppedInv
  <2> QED  BY <1>4, <2>1, <2>2, <2>3, <2>4, <2>5
<1>5. ASSUME NEW c \in Clients, Connect(c) \/ StartBlock(c) \/ StartRaises(c) \/ Started(c)
                                  \/ CheckRunning(c) \/ StopRequest(c)
      PROVE  TxInv'
  <2>1. CASE Connect(c)
    BY <2>1, ConnectInv
  <2>2. CASE StartBlock(c)
    BY <2>2, StartBlockInv
  <2>3. CASE StartRaises(c)
    BY <2>3, StartRaisesInv
  <2>4. CASE Started(c)
    BY <2>4, StartedInv
  <2>5. CASE CheckRunning(c)
    BY <2>5, OnlyMovesInv
  <2>6. CASE StopRequest(c)
    BY <2>6, StopRequestInv
  <2> QED  BY <1>5, <2>1, <2>2, <2>3, <2>4, <2>5, <2>6
<1> QED  BY <1>1, <1>2, <1>3, <1>4, <1>5 DEF Next

LEMMA TxAlways == Spec => []TxInv
<1>1. Init => TxInv
  BY TxInitInv
<1>2. TxInv /\ [Next]_vars => TxInv'
  BY TxNextInv
<1> QED  BY <1>1, <1>2, PTL DEF Spec

THEOREM TxTypeOK == Spec => []TypeOK
<1>1. TxInv => TypeOK
  <2> SUFFICES ASSUME TxInv PROVE TypeOK
    OBVIOUS
  <2>1. created \in 0..MaxFlowgraphs /\ tx_fg = created
    BY DEF TxInv, TxType
  <2>2. tx_fg \in Fg \cup {None}
    BY <2>1, TxNumbers DEF Fg, None
  <2>3. \A c \in Clients : h[c].fg \in Fg \cup {None} /\ h[c].mode \in Requests \cup {"none"}
    BY HandlerFields DEF TxInv, TxType
  <2> QED  BY <2>1, <2>2, <2>3 DEF TxInv, TxType, TypeOK
<1> QED  BY <1>1, TxAlways, PTL

(* Every way out of mode switching gives the lock back, for any number of  *)
(* handlers and flowgraphs (tone_mode, packet_mode).                       *)
THEOREM LockIsGivenBack == Spec => []LockGivenBack
<1>1. TxInv => LockGivenBack
  BY DEF TxInv, LockInv, LockGivenBack, Locked
<1> QED  BY <1>1, TxAlways, PTL

(* What start requests, overlapping in any way, have put on the air is     *)
(* what the next stop request ends (api_tx_start, TXFlowgraph.start).      *)
THEOREM OverlappingStartsStop == Spec => []StartsStayStoppable
<1>1. TxInv => StartsStayStoppable
  <2> SUFFICES ASSUME TxInv, "stop" \notin overlaps, created <= 1, Active = {},
                      NEW f \in Fg, sending[f] # "none"
               PROVE  f = tx_fg /\ _running[f]
    BY DEF StartsStayStoppable, Stoppable
  <2>1. on[f] /\ f <= created
    BY DEF TxInv, PlaceInv
  <2>2. \A c \in Clients : h[c].pc = "idle"
    BY DEF Active
  <2>3. _running[f]
    BY <2>1, <2>2 DEF TxInv, StartInv, Starting
  <2>4. f \in Nat \ {0} /\ created \in Int /\ tx_fg = created
    BY TxNumbers DEF TxInv, TxType, Fg
  <2>5. f = created
    BY <2>1, <2>4
  <2> QED  BY <2>3, <2>4, <2>5
<1> QED  BY <1>1, TxAlways, PTL

(* Served one at a time, requests leave the status telling the waveform on *)
(* the air (tone_mode, packet_mode: the restart).                          *)
THEOREM StatusTellsMode == Spec => []ModeTruthful
<1>1. TxInv => ModeTruthful
  <2> SUFFICES ASSUME TxInv, overlaps = {}, tx_fg # None, sending[tx_fg] # "none"
               PROVE  sending[tx_fg] = _mode[tx_fg]
    BY DEF ModeTruthful
  <2>1. tx_fg \in Fg /\ source = _mode
    BY TxNumbers DEF TxInv, TxType, Fg, None
  <2> QED  BY <2>1 DEF TxInv, AloneInv
<1> QED  BY <1>1, TxAlways, PTL
=============================================================================
