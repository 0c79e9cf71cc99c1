-------------------------- MODULE LifecycleProofs --------------------------
(***************************************************************************)
(* Proofs about the worker processes, for any number of roles, faults,     *)
(* restarts and every way the main process can end: two live workers never *)
(* have the same role, the exit for a restart leaves at most the worker    *)
(* that the watchdog was starting, and no role exceeds its restart budget. *)
(*                                                                         *)
(* All rest on LifeInv.  PlaceInv says where a live worker is listed: in  *)
(* state.workers, or in the watchdog's hands between its start and its     *)
(* store.  ListInv says what the list of _exit_for_restart can miss: only  *)
(* the last worker forked, and only if the watchdog is past its start, as  *)
(* it begins no restart once running is cleared.  BudgetInv says that what *)
(* the list of restarts has forgotten is older than the window.            *)
(***************************************************************************)
EXTENDS Lifecycle, FiniteSetTheorems, TLAPS

Stages == {"unborn", "boot", "loop", "body", "flush", "dead"}

LifeType ==
  /\ forked \in NWorkers..MaxProcs
  /\ workers \in [Roles -> 1..forked]
  /\ role \in [Inst -> Roles \cup {NoRole}]
  /\ pc \in [Inst -> Stages]
  /\ now \in Nat
  /\ wd \in [pc : {"scan", "start", "assign"}, role : Roles \cup {NoRole},
             new : Inst \cup {NoOne}]

PlaceInv ==
  /\ \A i \in Inst : pc[i] = "unborn" <=> i > forked
  /\ \A i \in Inst : i <= forked => role[i] \in Roles
  /\ \A r \in Roles : role[workers[r]] = r
  /\ \A i \in Inst : Live(i) => i = workers[role[i]] \/ (wd.pc = "assign" /\ i = wd.new)
  /\ wd.pc # "scan" => wd.role \in Roles /\ ~Live(workers[wd.role])
  /\ wd.pc = "start" => forked < MaxProcs
  /\ wd.pc = "assign" => wd.new = forked /\ forked > NWorkers /\ role[forked] = wd.role

ListInv ==
  /\ rx \in {"list", "join", "terminate", "exit"} => ~running
  /\ rx \in {"join", "terminate", "exit"} =>
       /\ snap \subseteq 1..forked
       /\ \A i \in Inst : Live(i) =>
            i \in snap \/ (i = forked /\ forked > NWorkers /\ wd.pc # "start")
  /\ rx = "exit" => \A i \in snap : ~Live(i)
  /\ exitcode = "restart" => rx = "exit" /\ ~alive

LifeInv == LifeType /\ PlaceInv /\ ListInv

(* The sets of numbers the module counts processes with.                   *)
LEMMA LifeNumbers ==
  /\ NWorkers \in Nat \ {0} /\ MaxProcs \in Nat /\ NWorkers <= MaxProcs
  /\ Roles = 1..NWorkers /\ Inst = 1..MaxProcs /\ Roles \subseteq Inst
  BY LifecycleAssumption DEF MaxProcs, Roles, Inst

(* main() lists the workers it starts.                                     *)
LEMMA LifeInitInv == Init => LifeInv
<1> SUFFICES ASSUME Init  PROVE LifeInv
  OBVIOUS
<1> USE LifeNumbers
<1>1. LifeType
  BY DEF Init, LifeType, Stages, NoRole, NoOne
<1>2. PlaceInv
  BY DEF Init, PlaceInv, Live, NoRole
<1>3. ListInv
  BY DEF Init, ListInv
<1> QED  BY <1>1, <1>2, <1>3 DEF LifeInv

(* A step that starts no worker, and lets some go on or die.               *)
Shrink ==
  /\ pc' \in [Inst -> Stages]
  /\ \A i \in Inst : (pc'[i] = "unborn" <=> pc[i] = "unborn") /\ (Live(i)' => Live(i))

(* Such a step keeps where workers are listed, if the lists stay.          *)
LEMMA ShrinkPlace ==
  ASSUME LifeType, PlaceInv, Shrink, UNCHANGED <<wdVars, procVars, now>>
  PROVE  LifeType' /\ PlaceInv'
<1> USE LifeNumbers
<1>1. UNCHANGED <<workers, wd, forked, role, now>>
  BY DEF wdVars, procVars
<1>2. LifeType'
  BY <1>1 DEF LifeType, Shrink
<1>3. \A r \in Roles : workers[r] \in Inst
  BY DEF LifeType
<1>4. PlaceInv'
  BY <1>1, <1>3 DEF PlaceInv, Shrink, Live
<1> QED  BY <1>2, <1>4

(* ... and what the exit for a restart can miss, if that goes on as well.   *)
LEMMA ShrinkInv ==
  ASSUME LifeInv, Shrink, UNCHANGED <<wdVars, procVars, now>>,
         UNCHANGED <<rx, snap, running>>, exitcode' = "restart" => rx = "exit" /\ ~alive'
  PROVE  LifeInv'
<1> USE LifeNumbers
<1>1. LifeType' /\ PlaceInv'
  BY ShrinkPlace DEF LifeInv
<1>2. UNCHANGED <<wd, forked>>
  BY DEF wdVars, procVars
<1>3. \A i \in Inst : Live(i)' => Live(i)
  BY DEF Shrink
<1>4. rx = "exit" => snap \subseteq Inst
  BY DEF LifeInv, ListInv, LifeType
<1>5. ListInv'
  BY <1>2, <1>3, <1>4 DEF LifeInv, ListInv
<1> QED  BY <1>1, <1>5 DEF LifeInv

(* What does not touch pc is such a step.                                  *)
LEMMA KeepShrinks == ASSUME LifeType, pc' = pc  PROVE Shrink
  BY DEF Shrink, Live, LifeType

(* Killing is such a step.                                                 *)
LEMMA KillShrinks == ASSUME LifeType, NEW S, Kill(S)  PROVE Shrink
  BY DEF Shrink, Live, Kill, LifeType, Stages

(* So is every step of a worker's life.                                    *)
LEMMA LoopShrinks == ASSUME LifeType, NEW i \in Inst, LoopStep(i)  PROVE Shrink
<1>1. PICK from \in Stages \ {"unborn", "dead"}, to \in Stages \ {"unborn"} : Goto(i, from, to)
  BY Zenon DEF LoopStep, ReadParent, LoopTest, Body, ExitProcess, Stages
<1>2. /\ pc \in [Inst -> Stages]
      /\ pc[i] = from /\ pc' = [pc EXCEPT ![i] = to]
      /\ from \notin {"unborn", "dead"} /\ to # "unborn"
  BY <1>1 DEF Goto, LifeType
<1> QED  BY <1>1, <1>2 DEF Shrink, Live

(* The workers, their feeders and their faults.                            *)
LEMMA WorkerInv ==
  ASSUME LifeInv, NEW i \in Inst, LoopStep(i) \/ FeederStep(i) \/ WorkerFault(i)
  PROVE  LifeInv'
<1>1. Shrink
  <2>1. CASE LoopStep(i)
    BY <2>1, LoopShrinks DEF LifeInv
  <2>2. CASE FeederStep(i)
    BY <2>2, KeepShrinks DEF LifeInv, FeederStep, FeedLock, FeedWrite
  <2>3. CASE WorkerFault(i)
    BY <2>3, KillShrinks DEF LifeInv, WorkerFault
  <2> QED  BY <2>1, <2>2, <2>3
<1>2. UNCHANGED <<mainVars, running, rxVars, wdVars, now, procVars>>
  BY Zenon DEF LoopStep, ReadParent, LoopTest, Body, ExitProcess, FeederStep, FeedLock,
               FeedWrite, WorkerFault
<1>3. exitcode' = "restart" => rx = "exit" /\ ~alive'
  BY <1>2 DEF LifeInv, ListInv, mainVars
<1> QED  BY <1>1, <1>2, <1>3, ShrinkInv DEF rxVars

(* The other ends of the main process, and the supervisor.                 *)
LEMMA MainInv ==
  ASSUME LifeInv, MainKilled \/ Interrupt \/ InterruptExit \/ Supervise \/ Tick
  PROVE  LifeInv'
<1>1. CASE MainKilled \/ InterruptExit \/ Supervise
  <2>1. Shrink
    BY <1>1, KeepShrinks DEF LifeInv, MainKilled, InterruptExit, Supervise
  <2>2. exitcode' = "restart" => rx = "exit" /\ ~alive'
    BY <1>1 DEF LifeInv, ListInv, MainKilled, InterruptExit, Supervise
  <2>3. UNCHANGED <<wdVars, procVars, now>> /\ UNCHANGED <<rx, snap, running>>
    BY <1>1 DEF MainKilled, InterruptExit, Supervise, rxVars
  <2> QED  BY <2>1, <2>2, <2>3, ShrinkInv
<1>2. CASE Interrupt
  <2>1. Shrink
    BY <1>2, KillShrinks DEF LifeInv, Interrupt
  <2>2. exitcode' # "restart"
    BY <1>2 DEF Interrupt
  <2>3. UNCHANGED <<wdVars, procVars, now>> /\ UNCHANGED <<rx, snap, running>>
    BY <1>2 DEF Interrupt, rxVars
  <2> QED  BY <2>1, <2>2, <2>3, ShrinkInv
<1>3. CASE Tick
  <2>1. /\ now' \in Nat
        /\ UNCHANGED <<workers, wd, forked, role, pc, rx, snap, running, exitcode, alive>>
    BY <1>3 DEF Tick, LifeInv, LifeType, wdVars, procVars, rxVars, mainVars
  <2> QED  BY <2>1 DEF LifeInv, LifeType, PlaceInv, ListInv, Live
<1> QED  BY <1>1, <1>2, <1>3

(* The RX thread: its list is complete but for a worker being started, and  *)
(* what is in the list is dead when the process exits.                     *)
LEMMA RxInv == ASSUME LifeInv, RxStep  PROVE LifeInv'
<1> USE LifeNumbers
<1>1. CASE RxOpenFails \/ RxConnect \/ RxStale \/ RxClear
  <2>1. /\ rx \notin {"join", "terminate", "exit"} /\ alive
        /\ rx' \in {"connecting", "streaming", "clear", "list"}
        /\ rx' = "list" => ~running'
        /\ UNCHANGED <<workers, wd, forked, role, pc, now, exitcode, alive>>
    BY <1>1 DEF RxOpenFails, RxConnect, RxStale, RxClear, wdVars, procVars, mainVars
  <2> QED  BY <2>1 DEF LifeInv, LifeType, PlaceInv, ListInv, Live
<1>2. CASE RxList
  <2>1. /\ alive /\ rx = "list" /\ rx' = "join" /\ snap' = {workers[r] : r \in Roles}
        /\ UNCHANGED <<workers, wd, forked, role, pc, now, exitcode, alive, running>>
    BY <1>2 DEF RxList, wdVars, procVars, mainVars
  <2>2. LifeType' /\ PlaceInv'
    BY <2>1 DEF LifeInv, LifeType, PlaceInv, Live
  <2>3. snap' \subseteq 1..forked
    BY <2>1 DEF LifeInv, LifeType
  <2>4. ASSUME NEW i \in Inst, Live(i)
        PROVE  i \in snap' \/ (i = forked /\ forked > NWorkers /\ wd.pc # "start")
    <3>1. i <= forked /\ role[i] \in Roles
      BY <2>4 DEF LifeInv, LifeType, PlaceInv, Live
    <3>2. CASE i = workers[role[i]]
      BY <2>1, <3>1, <3>2
    <3>3. CASE wd.pc = "assign" /\ i = wd.new
      BY <3>3 DEF LifeInv, PlaceInv
    <3> QED  BY <2>4, <3>2, <3>3 DEF LifeInv, PlaceInv
  <2>5. ListInv'
    BY <2>1, <2>3, <2>4 DEF LifeInv, ListInv, Live
  <2> QED  BY <2>2, <2>5 DEF LifeInv
<1>3. CASE RxJoined \/ RxJoinDeadline
  <2>1. /\ alive /\ rx = "join" /\ rx' = "terminate"
        /\ UNCHANGED <<workers, wd, forked, role, pc, now, exitcode, alive, running, snap>>
    BY <1>3 DEF RxJoined, RxJoinDeadline, wdVars, procVars, mainVars
  <2> QED  BY <2>1 DEF LifeInv, LifeType, PlaceInv, ListInv, Live
<1>4. CASE RxTerminate
  <2>1. /\ alive /\ rx = "terminate" /\ rx' = "exit"
        /\ UNCHANGED <<wdVars, procVars, now>>
        /\ UNCHANGED <<exitcode, alive, running, snap, wd, forked>>
    BY <1>4 DEF RxTerminate, mainVars, wdVars, procVars
  <2>2. Shrink
    BY <1>4, KillShrinks DEF LifeInv, RxTerminate
  <2>3. LifeType' /\ PlaceInv'
    BY <2>1, <2>2, ShrinkPlace DEF LifeInv
  <2>4. \A i \in snap : ~Live(i)'
    BY <1>4 DEF RxTerminate, Kill, Live, LifeInv, LifeType, ListInv
  <2>5. ListInv'
    BY <2>1, <2>2, <2>4 DEF LifeInv, ListInv, Shrink
  <2> QED  BY <2>3, <2>5 DEF LifeInv
<1>5. CASE RxOsExit
  <2>1. /\ rx = "exit" /\ rx' = rx /\ alive' = FALSE
        /\ UNCHANGED <<workers, wd, forked, role, pc, now, running, snap>>
    BY <1>5 DEF RxOsExit, wdVars, procVars, rxVars
  <2> QED  BY <2>1 DEF LifeInv, LifeType, PlaceInv, ListInv, Live
<1> QED  BY <1>1, <1>2, <1>3, <1>4, <1>5 DEF RxStep, RxExitStep

(* The watchdog's check: only while running is set, so before the list.     *)
LEMMA CheckInv ==
  ASSUME LifeInv, NEW r \in Roles, WatchdogCheck(r)
  PROVE  LifeInv'
<1> USE LifeNumbers
<1>1. /\ running /\ wd.pc = "scan" /\ ~Live(workers[r])
      /\ \/ wd' = wd
         \/ wd' = [wd EXCEPT !.pc = "start", !.role = r] /\ forked < MaxProcs
      /\ UNCHANGED <<workers, forked, role, pc, now, exitcode, alive, running, rx, snap>>
  BY DEF WatchdogCheck, NoteRestart, mainVars, rxVars
<1>2. wd \in [pc : {"scan", "start", "assign"}, role : Roles \cup {NoRole},
              new : Inst \cup {NoOne}] /\ now \in Nat
  BY DEF LifeInv, LifeType
<1>3. LifeType'
  BY <1>1, <1>2 DEF LifeInv, LifeType
<1>4. PlaceInv'
  <2>1. \A i \in Inst : Live(i) => i = workers[role[i]]
    BY <1>1 DEF LifeInv, PlaceInv
  <2>2. wd'.pc # "assign" /\ (wd'.pc # "scan" => wd'.role = r /\ forked < MaxProcs)
    BY <1>1, <1>2
  <2>3. /\ \A i \in Inst : pc'[i] = "unborn" <=> i > forked'
        /\ \A i \in Inst : i <= forked' => role'[i] \in Roles
        /\ \A q \in Roles : role'[workers'[q]] = q
    BY <1>1 DEF LifeInv, PlaceInv
  <2>4. \A i \in Inst : Live(i)' => i = workers'[role'[i]]
    BY <1>1, <2>1 DEF Live
  <2>5. ~Live(workers[r])'
    BY <1>1 DEF Live
  <2> QED  BY <1>1, <2>2, <2>3, <2>4, <2>5 DEF PlaceInv, Live
<1>5. ListInv'
  BY <1>1 DEF LifeInv, ListInv
<1> QED  BY <1>3, <1>4, <1>5 DEF LifeInv

(* The fork: its role has no live worker, and the list, if taken, is of     *)
(* older workers only.                                                     *)
LEMMA WatchdogStartInv == ASSUME LifeInv, WatchdogStart  PROVE LifeInv'
<1> USE LifeNumbers
<1> DEFINE new == forked + 1
<1>1. /\ wd.pc = "start" /\ forked' = new
      /\ role' = [role EXCEPT ![new] = wd.role] /\ pc' = [pc EXCEPT ![new] = "boot"]
      /\ wd' = [wd EXCEPT !.pc = "assign", !.new = new]
      /\ UNCHANGED <<workers, now, exitcode, alive, running, rx, snap>>
  BY DEF WatchdogStart, mainVars, rxVars
<1>2. /\ forked \in NWorkers..MaxProcs /\ workers \in [Roles -> 1..forked]
      /\ role \in [Inst -> Roles \cup {NoRole}] /\ pc \in [Inst -> Stages]
      /\ wd \in [pc : {"scan", "start", "assign"}, role : Roles \cup {NoRole},
                 new : Inst \cup {NoOne}]
      /\ wd.role \in Roles /\ ~Live(workers[wd.role]) /\ forked < MaxProcs
  BY <1>1 DEF LifeInv, LifeType, PlaceInv
<1>3. new \in Inst /\ new \in NWorkers..MaxProcs /\ new > NWorkers /\ new > forked
  BY <1>1, <1>2
<1>4. \A i \in Inst : i # new => pc'[i] = pc[i] /\ role'[i] = role[i]
  BY <1>1, <1>2
<1>5. pc'[new] = "boot" /\ role'[new] = wd.role
  BY <1>1, <1>2, <1>3
<1>6. \A r \in Roles : workers[r] \in 1..forked /\ workers[r] \in Inst /\ workers[r] # new
  BY <1>2, <1>3
<1>7. wd'.pc = "assign" /\ wd'.new = new /\ wd'.role = wd.role
  BY <1>1, <1>2
<1> HIDE DEF new
<1>8. LifeType'
  <2>1. workers' \in [Roles -> 1..forked']
    BY <1>1, <1>2, <1>3
  <2>2. role' \in [Inst -> Roles \cup {NoRole}] /\ pc' \in [Inst -> Stages]
    BY <1>1, <1>2 DEF Stages
  <2>3. wd' \in [pc : {"scan", "start", "assign"}, role : Roles \cup {NoRole},
                 new : Inst \cup {NoOne}]
    BY <1>1, <1>2, <1>3
  <2> QED  BY <1>1, <1>3, <2>1, <2>2, <2>3 DEF LifeInv, LifeType
<1>9. PlaceInv'
  <2>a. \A i \in Inst : i <= new <=> i <= forked \/ i = new
    BY <1>2, <1>3 DEF new
  <2>1. \A i \in Inst : pc'[i] = "unborn" <=> i > new
    <3> TAKE i \in Inst
    <3>1. CASE i = new
      BY <1>2, <1>3, <1>5, <3>1
    <3>2. CASE i # new
      <4>1. pc[i] = "unborn" <=> i > forked
        BY DEF LifeInv, PlaceInv
      <4>2. i > forked <=> i > new
        BY <1>2, <3>2 DEF new, Inst
      <4>3. pc'[i] = pc[i]
        BY <1>4, <3>2
      <4> QED  BY <4>1, <4>2, <4>3
    <3> QED  BY <3>1, <3>2
  <2>2. \A i \in Inst : i <= new => role'[i] \in Roles
    BY <1>2, <1>4, <1>5, <2>a DEF LifeInv, PlaceInv
  <2>3. \A r \in Roles : role'[workers[r]] = r
    BY <1>4, <1>6 DEF LifeInv, PlaceInv
  <2>4. \A i \in Inst : Live(i)' => i = workers[role'[i]] \/ i = new
    BY <1>1, <1>4 DEF LifeInv, PlaceInv, Live
  <2>5. ~Live(workers[wd.role])'
    BY <1>1, <1>2, <1>4, <1>6, <1>7 DEF Live
  <2> QED  BY <1>1, <1>2, <1>3, <1>5, <1>7, <2>1, <2>2, <2>3, <2>4, <2>5 DEF PlaceInv
<1>10. ListInv'
  <2>1. ASSUME rx \in {"join", "terminate", "exit"}, NEW i \in Inst, Live(i)'
        PROVE  i \in snap \/ i = new
    BY <1>1, <1>4, <2>1 DEF LifeInv, ListInv, Live
  <2>2. rx \in {"join", "terminate", "exit"} => snap \subseteq 1..new /\ new \notin snap
    BY <1>2, <1>3 DEF LifeInv, ListInv, new
  <2>3. rx = "exit" => \A i \in snap : ~Live(i)'
    <3> SUFFICES ASSUME rx = "exit", NEW i \in snap  PROVE ~Live(i)'
      OBVIOUS
    <3>1. i \in Inst /\ i # new /\ ~Live(i)
      BY <1>2, <1>3, <2>2 DEF LifeInv, ListInv
    <3> QED  BY <1>4, <3>1 DEF Live
  <2> QED  BY <1>1, <1>3, <1>7, <2>1, <2>2, <2>3 DEF LifeInv, ListInv
<1> QED  BY <1>8, <1>9, <1>10 DEF LifeInv

(* The store puts the new worker where the dead one was.                   *)
LEMMA AssignInv == ASSUME LifeInv, WatchdogAssign  PROVE LifeInv'
<1> USE LifeNumbers
<1>1. /\ wd.pc = "assign" /\ workers' = [workers EXCEPT ![wd.role] = wd.new]
      /\ wd' = [wd EXCEPT !.pc = "scan", !.new = NoOne]
      /\ UNCHANGED <<forked, role, pc, now, exitcode, alive, running, rx, snap>>
  BY DEF WatchdogAssign, mainVars, rxVars, procVars
<1>2. /\ wd.new = forked /\ wd.role \in Roles /\ role[forked] = wd.role
      /\ ~Live(workers[wd.role]) /\ workers \in [Roles -> 1..forked]
      /\ forked \in NWorkers..MaxProcs
      /\ wd \in [pc : {"scan", "start", "assign"}, role : Roles \cup {NoRole},
                 new : Inst \cup {NoOne}]
  BY <1>1 DEF LifeInv, LifeType, PlaceInv
<1>3. wd'.pc = "scan" /\ wd' \in [pc : {"scan", "start", "assign"},
        role : Roles \cup {NoRole}, new : Inst \cup {NoOne}]
  BY <1>1, <1>2
<1>4. workers' \in [Roles -> 1..forked] /\ workers'[wd.role] = forked
      /\ \A r \in Roles : r # wd.role => workers'[r] = workers[r]
  BY <1>1, <1>2
<1>5. LifeType'
  BY <1>1, <1>3, <1>4 DEF LifeInv, LifeType
<1>6. PlaceInv'
  <2>1. \A r \in Roles : role[workers'[r]] = r
    BY <1>2, <1>4 DEF LifeInv, PlaceInv
  <2>2. ASSUME NEW i \in Inst, Live(i)  PROVE i = workers'[role[i]]
    <3>1. role[i] \in Roles
      BY <2>2 DEF LifeInv, PlaceInv, LifeType, Live
    <3>2. CASE i = workers[role[i]]
      BY <1>2, <1>4, <2>2, <3>1, <3>2
    <3>3. CASE i = wd.new
      BY <1>2, <1>4, <3>3
    <3> QED  BY <2>2, <3>2, <3>3 DEF LifeInv, PlaceInv
  <2> QED  BY <1>1, <1>3, <2>1, <2>2 DEF LifeInv, PlaceInv, Live
<1>7. ListInv'
  BY <1>1, <1>3 DEF LifeInv, ListInv, Live
<1> QED  BY <1>5, <1>6, <1>7 DEF LifeInv

(* Every step keeps the invariant.                                         *)
LEMMA LifeNextInv == ASSUME LifeInv, [Next]_vars  PROVE LifeInv'
<1>1. CASE RxStep
  BY <1>1, RxInv
<1>2. CASE WatchdogStep
  BY <1>2, CheckInv, WatchdogStartInv, AssignInv DEF WatchdogStep
<1>3. CASE \E i \in Inst : LoopStep(i) \/ FeederStep(i) \/ WorkerFault(i)
  BY <1>3, WorkerInv
<1>4. CASE Tick \/ MainKilled \/ Interrupt \/ InterruptExit \/ Supervise
  BY <1>4, MainInv
<1>5. CASE UNCHANGED vars
  <2>1. UNCHANGED <<workers, wd, forked, role, pc, now, exitcode, alive, running, rx, snap>>
    BY <1>5 DEF vars, wdVars, procVars, mainVars, rxVars
  <2> QED  BY <2>1 DEF LifeInv, LifeType, PlaceInv, ListInv, Live
<1> QED  BY <1>1, <1>2, <1>3, <1>4, <1>5 DEF Next

(* However workers die and are replaced, and however the main process ends, *)
(* two live workers never have the same role.                              *)
THEOREM OneLivePerRole == Spec => []OneWorkerPerRole
<1>1. LifeInv => OneWorkerPerRole
  <2> SUFFICES ASSUME LifeInv, NEW i \in Inst, NEW j \in Inst, Live(i), Live(j),
                      role[i] = role[j]
               PROVE  i = j
    BY DEF OneWorkerPerRole
  <2>1. i = workers[role[i]] \/ (wd.pc = "assign" /\ i = wd.new)
    BY DEF LifeInv, PlaceInv
  <2>2. j = workers[role[i]] \/ (wd.pc = "assign" /\ j = wd.new)
    BY DEF LifeInv, PlaceInv
  <2>3. wd.pc = "assign" => role[wd.new] = wd.role /\ ~Live(workers[wd.role])
    BY DEF LifeInv, PlaceInv
  <2> QED  BY <2>1, <2>2, <2>3
<1>2. LifeInv /\ [Next]_vars => LifeInv'
  BY LifeNextInv
<1> QED  BY LifeInitInv, <1>1, <1>2, PTL DEF Spec

(* The exit for a restart leaves at most one worker, the replacement that   *)
(* the watchdog forked after the list was taken or had not stored yet.     *)
THEOREM ExitLeavesOneAtMost == Spec => []OnlyReplacementSurvives
<1>1. LifeInv => OnlyReplacementSurvives
  BY DEF LifeInv, ListInv, OnlyReplacementSurvives
<1>2. LifeInv /\ [Next]_vars => LifeInv'
  BY LifeNextInv
<1> QED  BY LifeInitInv, <1>1, <1>2, PTL DEF Spec
-----------------------------------------------------------------------------
(* Types, and the restart budget.                                          *)
MainType ==
  /\ alive \in BOOLEAN /\ running \in BOOLEAN
  /\ exitcode \in {"none", "restart", "stopped"}
  /\ sup \in {"watching", "starts again", "ends"}
  /\ rx \in {"connecting", "streaming", "clear", "list", "join", "terminate", "exit"}
  /\ attempts \in 0..OpenAttempts /\ (rx = "connecting" => attempts < OpenAttempts)
  /\ snap \subseteq Inst /\ gave_up \subseteq Roles
  /\ ppid \in [Inst -> {"unread", "main", "init"}]
  /\ backlog \in [Inst -> BOOLEAN] /\ wlock \in Inst \cup {NoOne}

(* The processes of a role that were started since main(), or are about to.*)
Started(r) ==
  {i \in Inst : /\ born[i] # Initially
                /\ IF i <= forked THEN role[i] = r
                   ELSE i = forked + 1 /\ wd.pc = "start" /\ wd.role = r}

InWindow(r, t) == {i \in Started(r) : born[i] \in t..(t + Window - 1)}

(* What the list of a role forgets is older than the window.               *)
BudgetInv ==
  /\ now \in 0..MaxTime
  /\ born \in [Inst -> Initially..MaxTime] /\ \A i \in Inst : born[i] <= now
  /\ restarts \in [Roles -> SUBSET Inst]
  /\ \A i \in Inst : i > forked => role[i] = NoRole
  /\ \A r \in Roles :
       /\ Cardinality(restarts[r]) <= MaxRestarts
       /\ \A i \in restarts[r] : born[i] # Initially
       /\ \A i \in Started(r) : now - born[i] < Window => i \in restarts[r]
       /\ \A t \in Nat : Cardinality(InWindow(r, t)) <= MaxRestarts

LEMMA LifeConstants ==
  /\ OpenAttempts \in Nat \ {0} /\ MaxRestarts \in Nat \ {0} /\ Window \in Nat \ {0}
  /\ MaxTime \in Nat /\ Initially = -1 /\ NoRole = 0 /\ NoOne = 0
  BY LifecycleAssumption DEF LifecycleAssumption, Initially, NoRole, NoOne

(* Sets of processes are finite, and smaller ones have no more members.    *)
LEMMA SmallerSets ==
  ASSUME NEW S \in SUBSET Inst, NEW T \in SUBSET S
  PROVE  Cardinality(T) \in Nat /\ Cardinality(T) <= Cardinality(S)
<1>1. IsFiniteSet(Inst)
  BY LifeNumbers, FS_Interval
<1>2. IsFiniteSet(S) /\ IsFiniteSet(T)
  BY <1>1, FS_Subset
<1> QED  BY <1>2, FS_Subset, FS_CardinalityType

LEMMA OneMore ==
  ASSUME NEW S \in SUBSET Inst, NEW i
  PROVE  Cardinality(S \cup {i}) <= Cardinality(S) + 1
<1>1. IsFiniteSet(Inst)
  BY LifeNumbers, FS_Interval
<1>2. IsFiniteSet(S)
  BY <1>1, FS_Subset
<1>3. Cardinality(S) \in Nat
  BY <1>2, FS_CardinalityType
<1>4. Cardinality(S \cup {i}) = IF i \in S THEN Cardinality(S) ELSE Cardinality(S) + 1
  BY <1>2, FS_AddElement
<1> QED  BY <1>3, <1>4

LEMMA NoMembers == Cardinality({}) = 0
  BY FS_EmptySet

(* The list keeps what is recent; one more is added only below the budget. *)
LEMMA NoteBudget ==
  ASSUME LifeInv, BudgetInv, NEW r \in Roles, wd.pc = "scan",
         Cardinality(Recent(r)) < MaxRestarts, NoteRestart(r),
         UNCHANGED <<forked, role, now>>
  PROVE  BudgetInv'
<1> USE LifeNumbers, LifeConstants
<1> DEFINE new == forked + 1
<1>1. /\ new \in Inst /\ new > forked /\ forked \in Nat /\ now \in 0..MaxTime
      /\ wd \in [pc : {"scan", "start", "assign"}, role : Roles \cup {NoRole},
                 new : Inst \cup {NoOne}]
  <2>1. forked \in NWorkers..MaxProcs /\ forked < MaxProcs
    BY DEF NoteRestart, LifeInv, LifeType
  <2> QED  BY <2>1 DEF LifeInv, LifeType, BudgetInv
<1>2. /\ born' = [born EXCEPT ![new] = now]
      /\ restarts' = [restarts EXCEPT ![r] = Recent(r) \cup {new}]
      /\ wd' = [wd EXCEPT !.pc = "start", !.role = r]
  BY DEF NoteRestart
<1>3. wd'.pc = "start" /\ wd'.role = r
  BY <1>1, <1>2
<1>4. born' \in [Inst -> Initially..MaxTime] /\ born'[new] = now
      /\ \A i \in Inst : i # new => born'[i] = born[i]
  <2>1. born \in [Inst -> Initially..MaxTime] /\ now \in Initially..MaxTime
    BY <1>1 DEF BudgetInv
  <2> HIDE DEF new
  <2> QED  BY <1>1, <1>2, <2>1
<1>5. Recent(r) \subseteq restarts[r] /\ restarts[r] \subseteq Inst
  BY DEF Recent, BudgetInv
<1>6. restarts' \in [Roles -> SUBSET Inst] /\ restarts'[r] = Recent(r) \cup {new}
      /\ \A q \in Roles : q # r => restarts'[q] = restarts[q]
  <2>1. restarts \in [Roles -> SUBSET Inst] /\ Recent(r) \cup {new} \in SUBSET Inst
    BY <1>1, <1>5 DEF BudgetInv
  <2> QED  BY <1>2, <2>1
<1> HIDE DEF new
<1>7. \A q \in Roles : Started(q)' = IF q = r THEN Started(r) \cup {new} ELSE Started(q)
  <2>1. ASSUME NEW q \in Roles, NEW i \in Inst, i # new
        PROVE  i \in Started(q)' <=> i \in Started(q)
    BY <1>1, <1>4, <2>1 DEF Started, new
  <2>2. \A q \in Roles : new \in Started(q)' <=> q = r
    BY <1>1, <1>3, <1>4 DEF Started, new
  <2>3. \A q \in Roles : new \notin Started(q)
    BY <1>1 DEF Started, new
  <2>4. \A q \in Roles : Started(q) \subseteq Inst /\ Started(q)' \subseteq Inst
    BY DEF Started
  <2> TAKE q \in Roles
  <2>5. CASE q = r
    <3>1. new \in Started(q)'
      BY <2>2, <2>5
    <3> QED  BY <1>1, <2>1, <2>4, <2>5, <3>1
  <2>6. CASE q # r
    <3>1. new \notin Started(q)' /\ new \notin Started(q)
      BY <2>2, <2>3, <2>6
    <3>2. \A i \in Inst : i \in Started(q)' <=> i \in Started(q)
      BY <2>1, <3>1
    <3>3. Started(q)' = Started(q)
      BY <2>4, <3>2
    <3> QED  BY <2>6, <3>3
  <2> QED  BY <2>5, <2>6
<1>8. ASSUME NEW q \in Roles, NEW i \in restarts'[q]  PROVE born'[i] # Initially
  <2>1. CASE i = new
    BY <1>1, <1>4, <2>1
  <2>2. CASE i # new
    <3>1. i \in restarts[q]
      <4>1. CASE q = r
        BY <1>5, <1>6, <1>8, <2>2, <4>1
      <4>2. CASE q # r
        BY <1>6, <1>8, <4>2
      <4> QED  BY <4>1, <4>2
    <3>2. restarts[q] \subseteq Inst /\ born[i] # Initially
      BY <3>1 DEF BudgetInv
    <3>3. i \in Inst
      BY <3>1, <3>2
    <3> QED  BY <1>4, <2>2, <3>2, <3>3
  <2> QED  BY <2>1, <2>2
<1>9. \A q \in Roles : Cardinality(restarts'[q]) <= MaxRestarts
  <2>1. Cardinality(Recent(r)) \in Nat
    BY <1>5, SmallerSets
  <2>2. Cardinality(Recent(r) \cup {new}) <= Cardinality(Recent(r)) + 1
    BY <1>5, OneMore
  <2>3. Cardinality(Recent(r) \cup {new}) \in Nat
    BY <1>1, <1>5, SmallerSets
  <2>4. Cardinality(restarts'[r]) <= MaxRestarts
    BY <1>6, <2>1, <2>2, <2>3
  <2> QED  BY <1>6, <2>4 DEF BudgetInv
<1>10. ASSUME NEW q \in Roles, NEW i \in Started(q)', now - born'[i] < Window
       PROVE  i \in restarts'[q]
  <2>1. CASE i = new
    <3>1. new \notin Started(q)
      BY <1>1 DEF Started, new
    <3> QED  BY <1>6, <1>7, <1>10, <2>1, <3>1
  <2>2. CASE i # new
    <3>1. i \in Started(q) /\ i \in Inst /\ born'[i] = born[i]
      BY <1>4, <1>7, <1>10, <2>2 DEF Started
    <3>2. i \in restarts[q]
      BY <1>10, <3>1 DEF BudgetInv
    <3> QED  BY <1>6, <1>10, <3>1, <3>2 DEF Recent
  <2> QED  BY <2>1, <2>2
<1>11. ASSUME NEW q \in Roles, NEW t \in Nat  PROVE Cardinality(InWindow(q, t)') <= MaxRestarts
  <2>1. Started(q) \subseteq Inst /\ new \notin Started(q)
    BY <1>1 DEF Started, new
  <2>2. \A i \in Started(q) : born'[i] = born[i]
    BY <1>4, <2>1
  <2>3. CASE q # r \/ now \notin t..(t + Window - 1)
    <3>1. InWindow(q, t)' = InWindow(q, t)
      BY <1>4, <1>7, <2>1, <2>2, <2>3 DEF InWindow
    <3> QED  BY <3>1 DEF BudgetInv
  <2>4. CASE q = r /\ now \in t..(t + Window - 1)
    <3>1. InWindow(q, t)' \subseteq Recent(r) \cup {new}
      <4> SUFFICES ASSUME NEW i \in InWindow(q, t)', i # new  PROVE i \in Recent(r)
        OBVIOUS
      <4>1. i \in Started(r) /\ born[i] \in t..(t + Window - 1) /\ i \in Inst
        BY <1>7, <2>1, <2>2, <2>4 DEF InWindow
      <4>2. now - born[i] < Window
        BY <1>1, <2>4, <4>1
      <4> QED  BY <4>1, <4>2 DEF Recent, BudgetInv
    <3>2. restarts'[r] \subseteq Inst /\ restarts'[r] = Recent(r) \cup {new}
      BY <1>6
    <3>3. Cardinality(InWindow(q, t)') <= Cardinality(restarts'[r])
          /\ Cardinality(InWindow(q, t)') \in Nat /\ Cardinality(restarts'[r]) \in Nat
      BY <3>1, <3>2, SmallerSets
    <3>4. Cardinality(restarts'[r]) <= MaxRestarts
      BY <1>9
    <3> QED  BY <3>3, <3>4
  <2> QED  BY <2>3, <2>4
<1>12. ASSUME NEW i \in Inst  PROVE born'[i] <= now
  <2>1. now <= now
    BY <1>1
  <2>2. born[i] <= now
    BY DEF BudgetInv
  <2> QED  BY <1>4, <2>1, <2>2
<1> QED  BY <1>1, <1>4, <1>6, <1>8, <1>9, <1>10, <1>11, <1>12 DEF BudgetInv

(* The fork of the process that was noted.                                 *)
LEMMA ForkBudget ==
  ASSUME LifeInv, BudgetInv, WatchdogStart
  PROVE  BudgetInv'
<1> USE LifeNumbers, LifeConstants
<1> DEFINE new == forked + 1
<1>1. /\ forked' = new /\ wd.pc = "start" /\ wd.role \in Roles
      /\ role' = [role EXCEPT ![new] = wd.role]
      /\ wd' = [wd EXCEPT !.pc = "assign", !.new = new]
      /\ UNCHANGED <<now, born, restarts>>
  BY DEF WatchdogStart, LifeInv, PlaceInv
<1>2. /\ forked \in Nat /\ new \in Inst /\ new > forked
      /\ role \in [Inst -> Roles \cup {NoRole}]
      /\ wd \in [pc : {"scan", "start", "assign"}, role : Roles \cup {NoRole},
                 new : Inst \cup {NoOne}]
  <2>1. forked \in NWorkers..MaxProcs /\ forked < MaxProcs
    BY <1>1 DEF LifeInv, LifeType, PlaceInv
  <2> QED  BY <2>1 DEF LifeInv, LifeType
<1>3. wd'.pc = "assign"
  BY <1>1, <1>2
<1>4. role'[new] = wd.role /\ \A i \in Inst : i # new => role'[i] = role[i]
  BY <1>1, <1>2
<1>5. \A i \in Inst : /\ i <= new <=> i <= forked \/ i = new
                      /\ i <= forked => i # new
  BY <1>2
<1>6. ASSUME NEW q \in Roles  PROVE Started(q)' = Started(q)
  <2>1. ASSUME NEW i \in Inst  PROVE i \in Started(q)' <=> i \in Started(q)
    <3>1. CASE i = new
      BY <1>1, <1>2, <1>3, <1>4, <1>5, <3>1 DEF Started
    <3>2. CASE i # new
      BY <1>1, <1>3, <1>4, <1>5, <3>2 DEF Started
    <3> QED  BY <3>1, <3>2
  <2>2. Started(q)' \subseteq Inst /\ Started(q) \subseteq Inst
    BY DEF Started
  <2> QED  BY <2>1, <2>2
<1>7. \A q \in Roles, t \in Nat : InWindow(q, t)' = InWindow(q, t)
  BY <1>1, <1>6 DEF InWindow
<1>8. \A i \in Inst : i > forked' => i > forked /\ i # new
  BY <1>1, <1>2
<1> QED  BY <1>1, <1>4, <1>6, <1>7, <1>8 DEF BudgetInv

(* Other steps: of the watchdog, the clock, and those that leave both.     *)
LEMMA SameStarted ==
  ASSUME BudgetInv, UNCHANGED <<born, restarts, forked, role>>,
         now' \in 0..MaxTime, now' >= now,
         wd' = wd \/ (wd.pc # "start" /\ wd'.pc # "start")
  PROVE  BudgetInv'
<1> USE LifeNumbers, LifeConstants
<1>1. \A q \in Roles : Started(q)' = Started(q)
  BY DEF Started
<1>2. \A q \in Roles, t \in Nat : InWindow(q, t)' = InWindow(q, t)
  BY <1>1 DEF InWindow
<1>3. \A i \in Inst : born[i] \in Int /\ born[i] <= now /\ born[i] <= now'
  BY DEF BudgetInv
<1>4. \A q \in Roles : \A i \in Started(q) : now' - born[i] < Window => now - born[i] < Window
  BY <1>3 DEF Started, BudgetInv
<1> QED  BY <1>1, <1>2, <1>3, <1>4 DEF BudgetInv

LEMMA BudgetNext ==
  ASSUME LifeInv, BudgetInv, [Next]_vars
  PROVE  BudgetInv'
<1> USE LifeNumbers, LifeConstants
<1>1. now \in 0..MaxTime
  BY DEF BudgetInv
<1>2. CASE \E r \in Roles : WatchdogCheck(r)
  <2>1. PICK r \in Roles : WatchdogCheck(r)
    BY <1>2
  <2>2. CASE Cardinality(Recent(r)) >= MaxRestarts
    BY <1>1, <2>1, <2>2, SameStarted DEF WatchdogCheck
  <2>3. CASE ~(Cardinality(Recent(r)) >= MaxRestarts)
    <3>1. Recent(r) \subseteq restarts[r] /\ restarts[r] \subseteq Inst
      BY DEF Recent, BudgetInv
    <3>2. Cardinality(Recent(r)) \in Nat
      BY <3>1, SmallerSets
    <3>3. Cardinality(Recent(r)) < MaxRestarts
      BY <2>3, <3>2
    <3> QED  BY <2>1, <2>3, <3>3, NoteBudget DEF WatchdogCheck
  <2> QED  BY <2>2, <2>3
<1>3. CASE WatchdogStart
  BY <1>3, ForkBudget
<1>4. CASE WatchdogAssign
  <2>1. /\ wd.pc = "assign" /\ wd'.pc = "scan"
        /\ UNCHANGED <<born, restarts, forked, role, now>>
    BY <1>4 DEF WatchdogAssign, procVars, LifeInv, LifeType
  <2> QED  BY <1>1, <2>1, SameStarted
<1>5. CASE Tick
  <2>1. /\ now' \in 0..MaxTime /\ now' >= now
        /\ UNCHANGED <<born, restarts, forked, role, wd>>
    BY <1>1, <1>5 DEF Tick, wdVars, procVars
  <2> QED  BY <2>1, SameStarted
<1>6. CASE ~(WatchdogStep \/ Tick)
  <2>1. UNCHANGED <<wdVars, procVars, now>>
    BY <1>6, Zenon DEF Next, RxStep, RxExitStep, RxOpenFails, RxConnect, RxStale, RxClear, RxList,
       RxJoined, RxJoinDeadline, RxTerminate, RxOsExit, LoopStep, ReadParent, LoopTest, Body,
       ExitProcess, FeederStep, FeedLock, FeedWrite, WorkerFault, MainKilled, Interrupt,
       InterruptExit, Supervise, vars
  <2>2. UNCHANGED <<born, restarts, forked, role, wd, now>>
    BY <2>1 DEF wdVars, procVars
  <2> QED  BY <1>1, <2>2, SameStarted
<1> QED  BY <1>2, <1>3, <1>4, <1>5, <1>6 DEF WatchdogStep

LEMMA BudgetInit == Init => BudgetInv
<1> SUFFICES ASSUME Init  PROVE BudgetInv
  OBVIOUS
<1> USE LifeNumbers, LifeConstants
<1>1. /\ now = 0 /\ restarts = [r \in Roles |-> {}] /\ born = [i \in Inst |-> Initially]
      /\ forked = NWorkers /\ role = [i \in Inst |-> IF i <= NWorkers THEN i ELSE NoRole]
  BY DEF Init
<1>2. \A r \in Roles : Started(r) = {}
  BY <1>1 DEF Started
<1>3. \A r \in Roles, t \in Nat : InWindow(r, t) = {}
  BY <1>2 DEF InWindow
<1>4. \A i \in Inst : i > forked => role[i] = NoRole
  BY <1>1
<1>5. \A r \in Roles : restarts[r] = {}
  BY <1>1
<1>6. /\ now \in 0..MaxTime /\ restarts \in [Roles -> SUBSET Inst]
      /\ born \in [Inst -> Initially..MaxTime] /\ \A i \in Inst : born[i] <= now
  BY <1>1
<1>7. Cardinality({}) <= MaxRestarts
  BY NoMembers
<1>8. \A r \in Roles : /\ Cardinality(restarts[r]) <= MaxRestarts
                       /\ \A t \in Nat : Cardinality(InWindow(r, t)) <= MaxRestarts
  BY <1>3, <1>5, <1>7
<1> QED  BY <1>2, <1>4, <1>5, <1>6, <1>8 DEF BudgetInv

(* Types of the main process, and of what a worker holds.                  *)
LEMMA MainTypeNext ==
  ASSUME LifeInv, MainType, [Next]_vars
  PROVE  MainType'
<1> USE LifeNumbers, LifeConstants
<1>1. CASE RxStep
  <2>1. UNCHANGED <<sup, gave_up, ppid, backlog, wlock>>
    BY <1>1 DEF RxStep, RxExitStep, RxOpenFails, RxConnect, RxStale, RxClear, RxList, RxJoined,
                RxJoinDeadline, RxTerminate, RxOsExit, mainVars, wdVars
  <2>2. CASE RxOpenFails
    <3>1. /\ rx = "connecting" /\ attempts' = attempts + 1
          /\ rx' = IF attempts' >= OpenAttempts THEN "clear" ELSE "connecting"
          /\ UNCHANGED <<alive, exitcode, running, snap>>
      BY <2>2 DEF RxOpenFails, mainVars
    <3>2. attempts' \in 0..OpenAttempts /\ (rx' = "connecting" => attempts' < OpenAttempts)
      <4>1. attempts \in 0..OpenAttempts /\ attempts < OpenAttempts
        BY <3>1 DEF MainType
      <4>2. attempts' \in 0..OpenAttempts
        BY <3>1, <4>1
      <4>3. ~(attempts' >= OpenAttempts) => attempts' < OpenAttempts
        BY <4>2
      <4> QED  BY <3>1, <4>2, <4>3
    <3>3. rx' \in {"connecting", "clear"}
      BY <3>1
    <3> QED  BY <2>1, <3>1, <3>2, <3>3 DEF MainType
  <2>3. CASE RxConnect \/ RxStale \/ RxJoined \/ RxJoinDeadline \/ RxTerminate
    BY <2>1, <2>3 DEF RxConnect, RxStale, RxJoined, RxJoinDeadline, RxTerminate, mainVars, MainType
  <2>4. CASE RxClear
    BY <2>1, <2>4 DEF RxClear, mainVars, MainType
  <2>5. CASE RxList
    <3>1. {workers[r] : r \in Roles} \subseteq Inst
      BY DEF LifeInv, LifeType
    <3> QED  BY <2>1, <2>5, <3>1 DEF RxList, mainVars, MainType
  <2>6. CASE RxOsExit
    BY <2>1, <2>6 DEF RxOsExit, rxVars, MainType
  <2> QED  BY <1>1, <2>2, <2>3, <2>4, <2>5, <2>6 DEF RxStep, RxExitStep
<1>2. CASE WatchdogStep \/ Tick
  <2>1. UNCHANGED <<alive, exitcode, sup, running, rx, attempts, snap, ppid, backlog, wlock>>
    BY <1>2 DEF WatchdogStep, WatchdogCheck, WatchdogStart, WatchdogAssign, Tick, mainVars, rxVars
  <2>2. gave_up' \subseteq Roles
    BY <1>2 DEF WatchdogStep, WatchdogCheck, WatchdogStart, WatchdogAssign, Tick, wdVars, MainType
  <2> QED  BY <2>1, <2>2 DEF MainType
<1>3. ASSUME NEW i \in Inst, LoopStep(i) \/ FeederStep(i) \/ WorkerFault(i)  PROVE MainType'
  <2>1. UNCHANGED <<alive, exitcode, sup, running, rx, attempts, snap, gave_up>>
    BY <1>3 DEF LoopStep, ReadParent, LoopTest, Body, ExitProcess, FeederStep, FeedLock,
                FeedWrite, WorkerFault, mainVars, rxVars, wdVars
  <2>2. /\ ppid' \in [Inst -> {"unread", "main", "init"}]
        /\ backlog' \in [Inst -> BOOLEAN] /\ wlock' \in Inst \cup {NoOne}
    <3>1. CASE ReadParent(i)
      BY <3>1 DEF ReadParent, Getppid, MainType
    <3>2. CASE LoopTest(i) \/ ExitProcess(i) \/ WorkerFault(i)
      BY <3>2 DEF LoopTest, ExitProcess, WorkerFault, MainType
    <3>3. CASE Body(i)
      <4>1. PICK large \in BOOLEAN : backlog' = [backlog EXCEPT ![i] = @ \/ large]
        BY <3>3 DEF Body
      <4>2. backlog' \in [Inst -> BOOLEAN]
        BY <4>1 DEF MainType
      <4> QED  BY <3>3, <4>2 DEF Body, MainType
    <3>4. CASE FeederStep(i)
      BY <3>4 DEF FeederStep, FeedLock, FeedWrite, MainType
    <3> QED  BY <1>3, <3>1, <3>2, <3>3, <3>4 DEF LoopStep
  <2> QED  BY <2>1, <2>2 DEF MainType
<1>4. CASE MainKilled \/ Interrupt \/ InterruptExit
  BY <1>4 DEF MainKilled, Interrupt, InterruptExit, rxVars, wdVars, MainType
<1>5. CASE Supervise
  BY <1>5 DEF Supervise, rxVars, wdVars, MainType
<1>6. CASE UNCHANGED vars
  BY <1>6 DEF vars, mainVars, rxVars, wdVars, MainType
<1> QED  BY <1>1, <1>2, <1>3, <1>4, <1>5, <1>6 DEF Next

LEMMA BudgetAlways == Spec => [](LifeInv /\ MainType /\ BudgetInv)
<1>1. Init => LifeInv /\ MainType /\ BudgetInv
  <2>1. Init => MainType
    BY LifeNumbers, LifeConstants DEF Init, MainType
  <2> QED  BY <2>1, LifeInitInv, BudgetInit
<1>2. LifeInv /\ MainType /\ BudgetInv /\ [Next]_vars => (LifeInv /\ MainType /\ BudgetInv)'
  BY LifeNextInv, MainTypeNext, BudgetNext
<1> QED  BY <1>1, <1>2, PTL DEF Spec

(* Types of the processes, the RX thread, the watchdog and the supervisor. *)
THEOREM LifecycleTypeOK == Spec => []TypeOK
<1> USE LifeNumbers, LifeConstants
<1>1. LifeInv /\ MainType /\ BudgetInv => TypeOK
  <2> SUFFICES ASSUME LifeInv, MainType, BudgetInv  PROVE TypeOK
    OBVIOUS
  <2>1. /\ forked \in Inst /\ workers \in [Roles -> Inst]
        /\ role \in [Inst -> Roles \cup {NoRole}] /\ pc \in [Inst -> Stages]
        /\ wd \in [pc : {"scan", "start", "assign"}, role : Roles \cup {NoRole},
                   new : Inst \cup {NoOne}]
    BY DEF LifeInv, LifeType
  <2>2. \A r \in Roles : \A i \in restarts[r] : born[i] \in 0..now
    <3> TAKE r \in Roles
    <3> TAKE i \in restarts[r]
    <3>1. i \in Inst /\ born[i] # Initially /\ born[i] <= now /\ born[i] \in Initially..MaxTime
      BY DEF BudgetInv
    <3> QED  BY <3>1 DEF BudgetInv
  <2> QED  BY <2>1, <2>2 DEF MainType, BudgetInv, TypeOK, Stages
<1> QED  BY <1>1, BudgetAlways, PTL

(* No role is restarted more than MaxRestarts times in any window, for any *)
(* window, budget and number of roles, however the clock runs between the  *)
(* checks and whatever the main process is doing (_worker_watchdog).       *)
THEOREM RestartBudget == Spec => []BudgetHolds
<1> USE LifeNumbers, LifeConstants
<1>1. LifeInv /\ BudgetInv => BudgetHolds
  <2> SUFFICES ASSUME LifeInv, BudgetInv, NEW r \in Roles, NEW t \in 0..MaxTime
               PROVE  Cardinality({i \in Inst : role[i] = r /\ born[i] \in t..(t + Window - 1)})
                        <= MaxRestarts
    BY DEF BudgetHolds
  <2> DEFINE S == {i \in Inst : role[i] = r /\ born[i] \in t..(t + Window - 1)}
  <2>1. S \subseteq InWindow(r, t)
    <3>1. forked \in Nat
      BY DEF LifeInv, LifeType
    <3>2. \A i \in Inst : i > forked => role[i] = NoRole
      BY DEF BudgetInv
    <3>3. \A i \in S : i \in Inst /\ role[i] = r /\ born[i] \in t..(t + Window - 1)
      OBVIOUS
    <3> HIDE DEF S
    <3> QED  BY <3>1, <3>2, <3>3 DEF InWindow, Started
  <2>2. InWindow(r, t) \subseteq Inst
    BY DEF InWindow, Started
  <2>3. Cardinality(S) <= Cardinality(InWindow(r, t)) /\ Cardinality(S) \in Nat
        /\ Cardinality(InWindow(r, t)) \in Nat
    BY <2>1, <2>2, SmallerSets
  <2>4. Cardinality(InWindow(r, t)) <= MaxRestarts
    BY DEF BudgetInv
  <2> QED  BY <2>3, <2>4
<1> QED  BY <1>1, BudgetAlways, PTL
=============================================================================
