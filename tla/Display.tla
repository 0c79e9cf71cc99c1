------------------------------- MODULE Display -------------------------------
(***************************************************************************)
(* From the control values to what is shown: the processor reads them in   *)
(* its cycle and draws the spectrogram itself or hands a job to the        *)
(* spectrum renderer, whose image takes the same place                     *)
(* (processor.py:57-86, 204-218, 286-289; spectrum_renderer.py;            *)
(* app.py:944-946).                                                        *)
(*                                                                         *)
(* The job queue is a multiprocessing.Queue of one place: a semaphore, a   *)
(* feeder thread that writes to a pipe, and a lock that a reader holds     *)
(* while it waits for the pipe.  get_nowait() finds it empty while the     *)
(* feeder has not written or the renderer has the lock; put_nowait() finds *)
(* it full until a reader has taken the job.                               *)
(***************************************************************************)
EXTENDS Controls

CONSTANTS
    MaxQueued,      \* bound: images a process has put and the drainer not taken
    MaxFaults       \* bound: renders that fail or kill the renderer

ASSUME DisplayAssumption == MaxQueued \in Nat \ {0} /\ MaxFaults \in Nat

VARIABLES
    pc,             \* where processor_main is in its cycle
    work,           \* what it has drawn, or the job it submits
    goal,           \* the target it has read
    slot, written,  \* spectrum_job_queue: the job in it; is it in the pipe?
    renderer,       \* spectrum_renderer_main: where it is, and the job it draws
    drawn, rendered,        \* images put by the processor and by the renderer
    latest_img,     \* what /spectrogram.jpg returns
    faults

procVars == <<pc, work, goal>>
rendererVars == <<renderer, rendered, faults>>
vars == <<ctlVars, procVars, slot, written, rendererVars, drawn, latest_img>>

(* An image, or the job to draw one: the view it is of, the frequency it   *)
(* is labelled with.                                                       *)
Image(view, lo) == [view |-> view, lo |-> lo]
NoImage == [view |-> "none", lo |-> Center]
RendererIdle == [pc |-> "idle", job |-> NoImage]
-----------------------------------------------------------------------------
Init ==
    /\ CtlInit
    /\ pc = "view" /\ work = NoImage /\ goal = NoTarget
    /\ slot = NoImage /\ written = FALSE
    /\ renderer = RendererIdle /\ rendered = <<>> /\ faults = 0
    /\ drawn = <<>> /\ latest_img = NoImage

Proc(from, to) ==
    /\ pc = from /\ pc' = to
    /\ UNCHANGED <<val, device, rx, apiVars, clean>>
    /\ UNCHANGED <<rendererVars, latest_img>>

(* Step 4 of the cycle.                                                    *)
DrawOrSubmit ==
    /\ Proc("view", IF val.view_mode = "spectrum" THEN "drop" ELSE "running")
    /\ work' = IF val.view_mode = "spectrum" THEN Image("spectrum", val.lo_freq_hz)
                                         ELSE Image("spectrogram", Center)
    /\ UNCHANGED <<goal, slot, written, drawn, recent>>

(* The spectrogram cannot be drawn: a result without an image.             *)
DrawFails ==
    /\ pc = "view" /\ val.view_mode = "spectrogram"
    /\ faults < MaxFaults /\ faults' = faults + 1
    /\ pc' = "running"
    /\ UNCHANGED <<ctlVars, work, goal, slot, written, renderer, rendered, drawn, latest_img>>

(* _submit_spectrum_render: get_nowait(), then put_nowait().               *)
DropStale ==
    /\ Proc("drop", "put")
    /\ IF written /\ renderer.pc # "get"
       THEN slot' = NoImage /\ written' = FALSE
       ELSE UNCHANGED <<slot, written>>     \* queue.Empty
    /\ UNCHANGED <<work, goal, drawn, recent>>

PutJob ==
    /\ Proc("put", "running")
    /\ slot' = IF slot = NoImage THEN work ELSE slot        \* queue.Full
    /\ work' = NoImage
    /\ UNCHANGED <<goal, written, drawn, recent>>

(* Step 5 reads the target, one value after the other.                     *)
ReadRunning ==
    /\ Proc("running", IF val.td_running THEN "chipset" ELSE "publish")
    /\ goal' = NoTarget
    /\ recent' = IF Active = {} THEN {wanted} ELSE recent
    /\ UNCHANGED <<work, slot, written, drawn>>

ReadChipset ==
    /\ Proc("chipset", IF val.td_chipset = NoTarget THEN "has" ELSE "publish")
    /\ goal' = val.td_chipset
    /\ UNCHANGED <<work, slot, written, drawn, recent>>

ReadHas ==
    /\ Proc("has", IF val.td_has_ntw THEN "id" ELSE "publish")
    /\ UNCHANGED <<work, goal, slot, written, drawn, recent>>

ReadId ==
    /\ Proc("id", "publish")
    /\ goal' = val.td_ntw_id
    /\ UNCHANGED <<work, slot, written, drawn, recent>>

(* The result with the image, or without one; then the cycle's sleep.      *)
Publish ==
    /\ work # NoImage => Len(drawn) < MaxQueued
    /\ Proc("publish", "view")
    /\ drawn' = IF work = NoImage THEN drawn ELSE Append(drawn, work)
    /\ work' = NoImage
    /\ UNCHANGED <<goal, slot, written, recent>>

Processor ==
    \/ DrawOrSubmit \/ DrawFails \/ DropStale \/ PutJob \/ ReadRunning
    \/ ReadChipset \/ ReadHas \/ ReadId \/ Publish
-----------------------------------------------------------------------------
(* The feeder thread of spectrum_job_queue.                                *)
FeedJob ==
    /\ slot # NoImage /\ ~written
    /\ written' = TRUE
    /\ UNCHANGED <<ctlVars, procVars, slot, rendererVars, drawn, latest_img>>

Rend == UNCHANGED <<ctlVars, procVars, drawn, latest_img>>

(* get(timeout=0.5) takes the lock; it ends with a job, or with Empty when *)
(* none came.  The 0.5 s are taken to be longer than the feeder needs to   *)
(* write a job and the processor from get_nowait() to put_nowait().        *)
StartGet ==
    /\ renderer.pc = "idle"
    /\ renderer' = [renderer EXCEPT !.pc = "get"]
    /\ UNCHANGED <<slot, written, rendered, faults>> /\ Rend

GetEmpty ==
    /\ renderer.pc = "get" /\ slot = NoImage /\ pc # "put"
    /\ renderer' = RendererIdle
    /\ UNCHANGED <<slot, written, rendered, faults>> /\ Rend

GetJob ==
    /\ renderer.pc = "get" /\ written
    /\ renderer' = [pc |-> "draw", job |-> slot]
    /\ slot' = NoImage /\ written' = FALSE
    /\ UNCHANGED <<rendered, faults>> /\ Rend

RenderJob ==
    /\ renderer.pc = "draw" /\ Len(rendered) < MaxQueued
    /\ rendered' = Append(rendered, renderer.job)
    /\ renderer' = RendererIdle
    /\ UNCHANGED <<slot, written, faults>> /\ Rend

(* Seeded fault: an error in drawing ends the loop.                        *)
RenderFails_uncaught ==
    /\ renderer.pc = "draw" /\ faults < MaxFaults
    /\ faults' = faults + 1
    /\ renderer' = [renderer EXCEPT !.pc = "ended"]
    /\ UNCHANGED <<slot, written, rendered>> /\ Rend

(* It raises, and a result without an image is put; or the process dies    *)
(* and the watchdog starts another one.                                    *)
RenderFails ==
    /\ renderer.pc = "draw" /\ faults < MaxFaults
    /\ faults' = faults + 1
    /\ renderer' = RendererIdle
    /\ UNCHANGED <<slot, written, rendered>> /\ Rend

Renderer == StartGet \/ GetEmpty \/ GetJob \/ RenderJob \/ RenderFails

(* The drainer stores every image that comes, in the order they come in.   *)
DrainDrawn ==
    /\ drawn # <<>>
    /\ latest_img' = Head(drawn) /\ drawn' = Tail(drawn)
    /\ UNCHANGED <<ctlVars, procVars, slot, written, rendererVars>>

DrainRendered ==
    /\ rendered # <<>>
    /\ latest_img' = Head(rendered) /\ rendered' = Tail(rendered)
    /\ UNCHANGED <<ctlVars, procVars, slot, written, renderer, faults, drawn>>

DisplayUnchanged ==
    UNCHANGED <<procVars, slot, written, rendererVars, drawn, latest_img>>

Api(c) == (Request(c) \/ Store(c)) /\ DisplayUnchanged
Radio == RxLoop /\ DisplayUnchanged

Next ==
    \/ \E c \in Clients : Api(c)
    \/ Radio \/ Processor \/ FeedJob \/ Renderer \/ DrainDrawn \/ DrainRendered

Spec == Init /\ [][Next]_vars

(* Every loop goes on and a request that was begun is finished; nobody has *)
(* to send one.                                                            *)
FairSpec ==
    /\ Spec
    /\ \A c \in Clients : WF_vars(Store(c) /\ DisplayUnchanged)
    /\ WF_vars(Radio) /\ WF_vars(Processor) /\ WF_vars(FeedJob)
    /\ WF_vars(Renderer) /\ WF_vars(DrainDrawn) /\ WF_vars(DrainRendered)
-----------------------------------------------------------------------------
TypeOK ==
    /\ CtlTypeOK
    /\ goal \in {NoTarget, Chipset} \cup Devices
    /\ slot = NoImage => ~written
    /\ renderer.pc = "draw" => renderer.job.view = "spectrum"
    /\ Len(drawn) <= MaxQueued /\ Len(rendered) <= MaxQueued

(* The capture target the processor works with is never put together of    *)
(* two requests that follow each other: it is one that was set since the   *)
(* processor began to read, or none (api_timedomain's order of stores      *)
(* against the order of reads in processor_main).                          *)
TargetIsWhole == (clean /\ pc = "publish") => goal \in recent \cup {NoTarget}

(* Once no more requests come, the values shown are those of the SDR: a    *)
(* frequency it refuses, a gain beyond its range or a failed call does not *)
(* leave the two apart (rx_loop).                                          *)
ControlsSettle ==
    <>[](val.rx_gain_dB = device.gain /\ val.lo_freq_hz = device.lo)

(* ... the image shown is of the view that was chosen last, and a spectrum *)
(* is labelled with the frequency set last, however late a job or an image *)
(* of the other view came (processor_main, the renderer, _drain_results);  *)
(* and the processor searches for the target that was set last.            *)
DisplaySettles ==
    <>[](/\ latest_img.view = val.view_mode
         /\ val.view_mode = "spectrum" => latest_img.lo = val.lo_freq_hz
         /\ (clean /\ pc = "view") =>
              goal = IF val.td_running THEN wanted ELSE NoTarget)

=============================================================================
