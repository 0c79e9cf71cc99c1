------------------------------ MODULE Lifecycle ------------------------------
(***************************************************************************)
(* The process tree of the application: the main process with its RX       *)
(* thread (rx_loop, _connect, _exit_for_restart) and its worker watchdog,   *)
(* the worker processes (processor, td_renderer, spectrum_renderer) and the *)
(* supervisor loop of run_stream.py.                                       *)
(*                                                                         *)
(* What a worker computes is left out; what matters is how its life ends.   *)
(* It forks, reads its parent's pid, loops while running_event is set and   *)
(* its parent is the one it read, and on the way out waits until the feeder *)
(* thread of its result queue has written what it put there.  A result      *)
(* larger than the pipe is written only while somebody reads, under a lock  *)
(* (the queue's _wlock) all workers share.                                  *)
(***************************************************************************)
EXTENDS Integers, FiniteSets

CONSTANTS
  NWorkers,       \* number of roles in state.workers (3)
  OpenAttempts,   \* SDR_OPEN_ATTEMPTS_BEFORE_RESTART
  MaxRestarts,    \* _WORKER_MAX_RESTARTS
  Window,         \* _WORKER_RESTART_WINDOW_S, in ticks of the watchdog's clock
  MaxTime,        \* bound: last tick of the clock
  MaxFaults,      \* bound: number of workers that die on their own
  MainDies,       \* environment: the main process may be killed at any moment
  FaultInWrite    \* environment: a worker may die while it holds the pipe's lock

ASSUME LifecycleAssumption ==
  /\ NWorkers \in Nat \ {0} /\ OpenAttempts \in Nat \ {0}
  /\ MaxRestarts \in Nat \ {0}
  /\ Window \in Nat \ {0} /\ MaxTime \in Nat /\ MaxFaults \in Nat
  /\ MainDies \in BOOLEAN /\ FaultInWrite \in BOOLEAN

(* Processes by the order they were forked in: one per role, one for each   *)
(* fault, and one per role that may be respawned while Ctrl-C is handled.   *)
Roles == 1..NWorkers
MaxProcs == 2 * NWorkers + MaxFaults
Inst == 1..MaxProcs
NoOne == 0
NoRole == 0
Initially == -1    \* birth of the workers main() starts, which are no restarts

VARIABLES
  alive, exitcode, sup,            \* main process and supervisor
  running,                         \* state.running, seen by every process
  rx, attempts, snap,              \* RX thread; snap: the list it joins
  workers, restarts, gave_up, wd,  \* state.workers and the watchdog's locals;
                                   \* restarts: by the process each one starts
  now,
  forked, pc, role, born, ppid,    \* the worker processes; born: their time stamp
  backlog, wlock                   \* result queue: unwritten results, pipe lock

mainVars == <<alive, exitcode, sup>>
rxVars == <<rx, attempts, snap>>
wdVars == <<workers, restarts, gave_up, wd>>
procVars == <<forked, role, born>>
vars == <<mainVars, running, rxVars, wdVars, now, procVars, pc, ppid, backlog, wlock>>

Live(i) == pc[i] \notin {"unborn", "dead"}
Kill(S) == pc' = [i \in Inst |-> IF i \in S /\ Live(i) THEN "dead" ELSE pc[i]]

(* main(): the workers are forked before any thread starts.                 *)
Init ==
  /\ alive = TRUE /\ exitcode = "none" /\ sup = "watching" /\ running = TRUE
  /\ rx = "connecting" /\ attempts = 0 /\ snap = {}
  /\ workers = [r \in Roles |-> r]
  /\ restarts = [r \in Roles |-> {}] /\ gave_up = {}
  /\ wd = [pc |-> "scan", role |-> NoRole, new |-> NoOne]
  /\ now = 0
  /\ forked = NWorkers
  /\ role = [i \in Inst |-> IF i <= NWorkers THEN i ELSE NoRole]
  /\ born = [i \in Inst |-> Initially]
  /\ pc = [i \in Inst |-> IF i <= NWorkers THEN "boot" ELSE "unborn"]
  /\ ppid = [i \in Inst |-> "unread"]
  /\ backlog = [i \in Inst |-> FALSE] /\ wlock = NoOne
-----------------------------------------------------------------------------
(* RX thread.                                                              *)

(* Seeded fault: one attempt too many.                                      *)
RxOpenFails_offByOne ==
  /\ alive /\ rx = "connecting"
  /\ attempts' = attempts + 1
  /\ rx' = IF attempts' > OpenAttempts THEN "clear" ELSE "connecting"
  /\ UNCHANGED <<mainVars, running, snap, wdVars, now, procVars, pc, ppid, backlog, wlock>>

(* _connect: SDRFlowgraph() or start() raises; the last attempt gives up.   *)
RxOpenFails ==
  /\ alive /\ rx = "connecting"
  /\ attempts' = attempts + 1
  /\ rx' = IF attempts' >= OpenAttempts THEN "clear" ELSE "connecting"
  /\ UNCHANGED <<mainVars, running, snap, wdVars, now, procVars, pc, ppid, backlog, wlock>>

RxConnect ==
  /\ alive /\ rx = "connecting"
  /\ rx' = "streaming"
  /\ UNCHANGED <<mainVars, running, attempts, snap, wdVars, now, procVars, pc, ppid, backlog, wlock>>

(* rx_loop: no samples for _STALE_TIMEOUT_S; the flowgraph is torn down.     *)
RxStale ==
  /\ alive /\ rx = "streaming"
  /\ rx' = "clear"
  /\ UNCHANGED <<mainVars, running, attempts, snap, wdVars, now, procVars, pc, ppid, backlog, wlock>>

(* _exit_for_restart, statement by statement.                               *)
RxClear ==
  /\ alive /\ rx = "clear"
  /\ running' = FALSE /\ rx' = "list"
  /\ UNCHANGED <<mainVars, attempts, snap, wdVars, now, procVars, pc, ppid, backlog, wlock>>

RxList ==
  /\ alive /\ rx = "list"
  /\ snap' = {workers[r] : r \in Roles} /\ rx' = "join"
  /\ UNCHANGED <<mainVars, running, attempts, wdVars, now, procVars, pc, ppid, backlog, wlock>>

RxJoined ==
  /\ alive /\ rx = "join" /\ \A i \in snap : ~Live(i)
  /\ rx' = "terminate"
  /\ UNCHANGED <<mainVars, running, attempts, snap, wdVars, now, procVars, pc, ppid, backlog, wlock>>

(* Seeded fault: join() without a timeout.                                  *)
RxJoinDeadline_none == RxJoined

(* The deadline of the joins, 3 s in the code, at any moment here.          *)
RxJoinDeadline ==
  /\ alive /\ rx = "join"
  /\ rx' = "terminate"
  /\ UNCHANGED <<mainVars, running, attempts, snap, wdVars, now, procVars, pc, ppid, backlog, wlock>>

(* Seeded fault: the joined workers are not terminated.                     *)
RxTerminate_joinOnly ==
  /\ alive /\ rx = "terminate"
  /\ rx' = "exit"
  /\ UNCHANGED <<mainVars, running, attempts, snap, wdVars, now, procVars, pc, ppid, backlog, wlock>>

RxTerminate ==
  /\ alive /\ rx = "terminate"
  /\ Kill(snap)
  /\ rx' = "exit"
  /\ UNCHANGED <<mainVars, running, attempts, snap, wdVars, now, procVars, ppid, backlog, wlock>>

(* Seeded fault: an exit code the supervisor does not know.                 *)
RxOsExit_codeOne ==
  /\ alive /\ rx = "exit"
  /\ alive' = FALSE /\ exitcode' = "error"
  /\ UNCHANGED <<sup, running, rxVars, wdVars, now, procVars, pc, ppid, backlog, wlock>>

RxOsExit ==
  /\ alive /\ rx = "exit"
  /\ alive' = FALSE /\ exitcode' = "restart"
  /\ UNCHANGED <<sup, running, rxVars, wdVars, now, procVars, pc, ppid, backlog, wlock>>
-----------------------------------------------------------------------------
(* Watchdog thread.                                                        *)

(* Seeded fault: the comparison is inverted.                                *)
Recent_inverted(r) == {i \in restarts[r] : now - born[i] > Window}

Recent(r) == {i \in restarts[r] : now - born[i] < Window}

(* The next process to be forked, with its time stamp, counts for the role. *)
NoteRestart(r) ==
  /\ forked < MaxProcs
  /\ born' = [born EXCEPT ![forked + 1] = now]
  /\ restarts' = [restarts EXCEPT ![r] = Recent(r) \cup {forked + 1}]
  /\ wd' = [wd EXCEPT !.pc = "start", !.role = r]

(* Seeded fault: a role over its budget is skipped and not given up.         *)
WatchdogCheck_skips(r) ==
  /\ alive /\ wd.pc = "scan" /\ running
  /\ ~Live(workers[r]) /\ Cardinality(Recent(r)) < MaxRestarts
  /\ NoteRestart(r)
  /\ UNCHANGED <<mainVars, running, rxVars, workers, gave_up, now, forked, role, pc, ppid, backlog, wlock>>

(* Seeded fault: proc.is_alive() is not asked.                              *)
WatchdogCheck_anyWorker(r) ==
  /\ alive /\ wd.pc = "scan" /\ running /\ r \notin gave_up
  /\ Cardinality(Recent(r)) < MaxRestarts
  /\ NoteRestart(r)
  /\ UNCHANGED <<mainVars, running, rxVars, workers, gave_up, now, forked, role, pc, ppid, backlog, wlock>>

(* One worker of one poll: the checks, the restart budget, the time stamp.  *)
WatchdogCheck(r) ==
  /\ alive /\ wd.pc = "scan" /\ running
  /\ ~Live(workers[r]) /\ r \notin gave_up
  /\ IF Cardinality(Recent(r)) >= MaxRestarts
       THEN gave_up' = gave_up \cup {r} /\ UNCHANGED <<restarts, wd, born>>
       ELSE NoteRestart(r) /\ UNCHANGED gave_up
  /\ UNCHANGED <<mainVars, running, rxVars, workers, now, forked, role, pc, ppid, backlog, wlock>>

(* new_proc.start()                                                        *)
WatchdogStart ==
  /\ alive /\ wd.pc = "start"
  /\ forked' = forked + 1
  /\ role' = [role EXCEPT ![forked'] = wd.role]
  /\ pc' = [pc EXCEPT ![forked'] = "boot"]
  /\ wd' = [wd EXCEPT !.pc = "assign", !.new = forked']
  /\ UNCHANGED <<mainVars, running, rxVars, workers, restarts, gave_up, now, born, ppid, backlog, wlock>>

(* state.workers[name] = new_proc                                          *)
WatchdogAssign ==
  /\ alive /\ wd.pc = "assign"
  /\ workers' = [workers EXCEPT ![wd.role] = wd.new]
  /\ wd' = [wd EXCEPT !.pc = "scan", !.new = NoOne]
  /\ UNCHANGED <<mainVars, running, rxVars, restarts, gave_up, now, procVars, pc, ppid, backlog, wlock>>

Tick ==
  /\ alive /\ now < MaxTime
  /\ now' = now + 1
  /\ UNCHANGED <<mainVars, running, rxVars, wdVars, procVars, pc, ppid, backlog, wlock>>
-----------------------------------------------------------------------------
(* A worker process.                                                       *)

Goto(i, from, to) == pc[i] = from /\ pc' = [pc EXCEPT ![i] = to]

(* os.getppid() while the main process is there, and once it is gone.       *)
Getppid == IF alive THEN "main" ELSE "init"

ReadParent(i) ==
  /\ Goto(i, "boot", "loop")
  /\ ppid' = [ppid EXCEPT ![i] = Getppid]
  /\ UNCHANGED <<mainVars, running, rxVars, wdVars, now, procVars, backlog, wlock>>

(* Seeded fault: the loop watches running_event only.                       *)
LoopTest_runningOnly(i) ==
  /\ Goto(i, "loop", IF running THEN "body" ELSE "flush")
  /\ UNCHANGED <<mainVars, running, rxVars, wdVars, now, procVars, ppid, backlog, wlock>>

LoopTest(i) ==
  /\ Goto(i, "loop", IF running /\ Getppid = ppid[i] THEN "body" ELSE "flush")
  /\ UNCHANGED <<mainVars, running, rxVars, wdVars, now, procVars, ppid, backlog, wlock>>

(* One turn of the loop; it may put a result larger than the pipe.          *)
Body(i) ==
  /\ Goto(i, "body", "loop")
  /\ \E large \in BOOLEAN : backlog' = [backlog EXCEPT ![i] = @ \/ large]
  /\ UNCHANGED <<mainVars, running, rxVars, wdVars, now, procVars, ppid, wlock>>

(* Queue._feed in the worker: take the pipe's lock, write, release it.       *)
FeedLock(i) ==
  /\ Live(i) /\ backlog[i] /\ wlock = NoOne
  /\ wlock' = i
  /\ UNCHANGED <<mainVars, running, rxVars, wdVars, now, procVars, pc, ppid, backlog>>

(* The write ends once _drain_results, which stops with running, reads it.  *)
FeedWrite(i) ==
  /\ Live(i) /\ wlock = i /\ alive /\ running
  /\ wlock' = NoOne /\ backlog' = [backlog EXCEPT ![i] = FALSE]
  /\ UNCHANGED <<mainVars, running, rxVars, wdVars, now, procVars, pc, ppid>>

(* The exiting process joins its feeder thread.                            *)
ExitProcess(i) ==
  /\ ~backlog[i] /\ Goto(i, "flush", "dead")
  /\ UNCHANGED <<mainVars, running, rxVars, wdVars, now, procVars, ppid, backlog, wlock>>

(* A worker dies on its own: an exception, a segfault, the OOM killer.       *)
Faults == Cardinality({i \in Inst : pc[i] = "dead"})
WorkerFault(i) ==
  /\ Live(i) /\ pc[i] # "flush" /\ running /\ alive
  /\ Faults < MaxFaults
  /\ FaultInWrite \/ wlock # i
  /\ Kill({i})
  /\ UNCHANGED <<mainVars, running, rxVars, wdVars, now, procVars, ppid, backlog, wlock>>
-----------------------------------------------------------------------------
(* The main process ends otherwise, and what the supervisor does then.      *)

(* SIGKILL, SIGTERM, a segfault in the SDR driver: no Python code runs.      *)
MainKilled ==
  /\ MainDies /\ alive
  /\ alive' = FALSE /\ exitcode' = "stopped"
  /\ UNCHANGED <<sup, running, rxVars, wdVars, now, procVars, pc, ppid, backlog, wlock>>

(* Ctrl-C leaves app.run(); at exit multiprocessing terminates the children *)
(* it knows, while the daemon threads still run, and then the process ends. *)
Interrupt ==
  /\ alive /\ exitcode = "none"
  /\ exitcode' = "stopped"
  /\ Kill(Inst)
  /\ UNCHANGED <<alive, sup, running, rxVars, wdVars, now, procVars, ppid, backlog, wlock>>

InterruptExit ==
  /\ alive /\ exitcode = "stopped"
  /\ alive' = FALSE
  /\ UNCHANGED <<exitcode, sup, running, rxVars, wdVars, now, procVars, pc, ppid, backlog, wlock>>

(* run_stream.py: only _EXIT_CODE_CONNECTION_LOST starts a new process.      *)
Supervise ==
  /\ ~alive /\ sup = "watching"
  /\ sup' = IF exitcode = "restart" THEN "starts again" ELSE "ends"
  /\ UNCHANGED <<alive, exitcode, running, rxVars, wdVars, now, procVars, pc, ppid, backlog, wlock>>
-----------------------------------------------------------------------------
RxExitStep == RxClear \/ RxList \/ RxJoined \/ RxJoinDeadline \/ RxTerminate \/ RxOsExit
RxStep == RxOpenFails \/ RxConnect \/ RxStale \/ RxExitStep
WatchdogStep == (\E r \in Roles : WatchdogCheck(r)) \/ WatchdogStart \/ WatchdogAssign
LoopStep(i) == ReadParent(i) \/ LoopTest(i) \/ Body(i) \/ ExitProcess(i)
FeederStep(i) == FeedLock(i) \/ FeedWrite(i)

Next ==
  \/ RxStep \/ WatchdogStep \/ Tick
  \/ \E i \in Inst : LoopStep(i) \/ FeederStep(i) \/ WorkerFault(i)
  \/ MainKilled \/ Interrupt \/ InterruptExit \/ Supervise

Spec == Init /\ [][Next]_vars

(* Threads and processes that can run are scheduled.  Nothing is assumed of *)
(* the SDR, of the clock, of faults and of signals.                         *)
Fairness ==
  /\ WF_vars(RxExitStep) /\ WF_vars(WatchdogStep)
  /\ \A i \in Inst : WF_vars(LoopStep(i)) /\ WF_vars(FeederStep(i))
  /\ WF_vars(InterruptExit) /\ WF_vars(Supervise)

FairSpec == Spec /\ Fairness
-----------------------------------------------------------------------------
TypeOK ==
  /\ alive \in BOOLEAN /\ running \in BOOLEAN
  /\ exitcode \in {"none", "restart", "stopped"}
  /\ sup \in {"watching", "starts again", "ends"}
  /\ rx \in {"connecting", "streaming", "clear", "list", "join", "terminate", "exit"}
  /\ attempts \in 0..OpenAttempts /\ snap \subseteq Inst
  /\ workers \in [Roles -> Inst] /\ gave_up \subseteq Roles
  /\ restarts \in [Roles -> SUBSET Inst]
  /\ \A r \in Roles : /\ Cardinality(restarts[r]) <= MaxRestarts
                       /\ \A i \in restarts[r] : born[i] \in 0..now
  /\ wd \in [pc : {"scan", "start", "assign"}, role : Roles \cup {NoRole},
             new : Inst \cup {NoOne}]
  /\ now \in 0..MaxTime /\ forked \in Inst
  /\ role \in [Inst -> Roles \cup {NoRole}] /\ born \in [Inst -> Initially..MaxTime]
  /\ pc \in [Inst -> {"unborn", "boot", "loop", "body", "flush", "dead"}]
  /\ ppid \in [Inst -> {"unread", "main", "init"}]
  /\ backlog \in [Inst -> BOOLEAN] /\ wlock \in Inst \cup {NoOne}

(* Two live workers never have the same role: two processors would share    *)
(* the drop queue and report every packet twice (_worker_watchdog).         *)
OneWorkerPerRole ==
  \A i, j \in Inst : Live(i) /\ Live(j) /\ role[i] = role[j] => i = j

(* When _exit_for_restart has ended the main process, no worker is left      *)
(* except, at most, the one the watchdog was starting at that very time.    *)
OnlyReplacementSurvives ==
  exitcode = "restart" /\ ~alive =>
    \A i \in Inst : Live(i) => i = forked /\ forked > NWorkers /\ i \notin snap

(* A role is never restarted more than MaxRestarts times in any window, so a *)
(* persistent bug cannot become a respawn loop (_worker_watchdog).          *)
BudgetHolds ==
  \A r \in Roles, t \in 0..MaxTime :
    Cardinality({i \in Inst : role[i] = r /\ born[i] \in t..(t + Window - 1)}) <= MaxRestarts

(* While the application runs, a dead worker is replaced or given up on.     *)
DeadReplaced ==
  \A r \in Roles :
    ~Live(workers[r]) ~> (Live(workers[r]) \/ r \in gave_up \/ ~running \/ ~alive)

(* A worker that read its parent's pid while the parent lived leaves its loop *)
(* when the parent is gone, however the parent ended.                       *)
LoopEnds ==
  \A i \in Inst : (~alive /\ ppid[i] = "main") ~> pc[i] \in {"flush", "dead"}

(* Losing the SDR ends in a new process: the supervisor starts one, also    *)
(* with workers that are stuck.  Only a user or a system that ends the main  *)
(* process itself may stop it (_exit_for_restart, run_stream.py).           *)
RestartHappens == rx = "clear" ~> (sup = "starts again" \/ exitcode = "stopped")

(* src/README.md 731-733: "each worker also stops by itself if the main     *)
(* process is gone (for example after a crash)".  Violated with LifecycleLive's constants. *)
OrphanExits ==
  \A i \in Inst : (~alive /\ pc[i] = "flush") ~> pc[i] = "dead"

(* app.py 973-976: all workers are safe to respawn, losing only history that *)
(* "self-heals within seconds": the shared result queue keeps working.      *)
(* Violated with FaultInWrite.                                              *)
ResultQueueRecovers ==
  \A i \in Inst : wlock = i ~> (wlock # i \/ ~running \/ ~alive)
=============================================================================
