# Formal model of stream_web

TLA+ modules, TLC configurations and TLAPS proofs for the SDR streaming
application in `src/stream_web` (a receiver, a decoder and a web server around a
PlutoSDR or BladeRF).  Paths below are relative to `src/stream_web/` unless they
begin with `src/`.

## 1. Inventory

The application is one Python process with many threads, three worker processes
forked from it, and a supervisor that runs it again.

| Part | State it keeps | Operations | Talks to |
|---|---|---|---|
| RX sink, `gnuradio_rx.py:66-131` | ring `iq_buffer` of B = 2 s of samples, `buf_write_idx`, `rx_overflows` (shared memory), `drop_queue` | `work()` | processor and capture, through the ring; GNU Radio calls it |
| RX thread, `gnuradio_rx.py:194-309` | flowgraph, current gain and LO, `rx_connected` | `rx_loop`, `_connect`, `_exit_for_restart`, `_teardown` | `state.running`, workers, gain and LO values the API writes |
| Processor process, `processor.py` | spectrogram chunks, detection history, recent decodes, `TdCaptureState` | one loop: read index, drain drops, extract, decode, de-duplicate, annotate, select, publish | ring, drop queue, job queues, result queue |
| Renderers, `td_renderer.py`, `spectrum_renderer.py` | none | take the newest job, draw, put the image | job queues, result queue |
| Result drainer, `app.py:934-967` | feed, results, statistics, images under `state.lock` | one result at a time | result queue, HITL annotator |
| Watchdog, `app.py:970-1008` | time stamps of restarts, roles given up | check, restart | `state.workers` |
| HTTP routes, `app.py:299-780` | the shared values they set | status, reset, gain, LO, view, packets, target | `SharedState`, feed |
| IQ capture, `app.py:534-778` | `_capture_lock`, locals of `_capture_iq` | capture, record and analyse, FCC check | ring |
| Transmitter, `gnuradio_tx.py`, `app.py:785-873` | `_running`, `_mode`, source, lock, the singleton `tx_fg` | start, stop, mode switching, frequency, attenuation | GNU Radio |
| Time-domain capture, `td_capture.py` | backlog, pending truncated burst | `select_td_capture` | processor |
| HITL annotator, `hitl.py` | bounded queue, counters | `submit`, batch, post, retry | harvester over a socket |
| Render jobs, `processor.py:57-86`, `spectrum_renderer.py` | one-place job queues with a semaphore, a feeder thread and a reader lock | drop the stale job, put the new one, take it | processor, renderers |
| Analysis, `analysis.py`, `timing.py` | packets accepted so far, the end of the last symbol | windows over a recording, duplicates, symbol edges, report | `/api/record_analyze`; the decoder library |
| FCC check, `spectrogram.py:127-241` | none | average, notch, carrier, spurs, verdict | `/api/fcc_check`, the overlay of the spectrum image |
| Supervisor, `src/run_stream.py` | none | run again on exit code 3 | exit code of the main process |

What is hard in it, and what would be correct:

* **Lock-free ring.** One writer, two readers, no lock; the index may rest at B;
  a block can be split over the end; readers trust that they are fast enough.
  Correct: a reader gets consecutive samples of the right time, or notices.
* **Drop positions** travel in a queue of their own and are indices modulo B.
  Correct: a drop is shown at the place where samples are missing.
* **Capture** waits, copies and checks against a writer that does not wait for
  it, with a deadline and one lock for all clients.  Correct: exactly the samples
  after the request, or an error; the lock always comes back.
* **Process tree.** Worker deaths, respawns, main process deaths of several
  kinds, queues nobody reads any more.  Correct: one worker per role, no restart
  loop, nobody left behind, losing the SDR leads to a new process.
* **Transmitter.** Handlers in parallel, a lock that covers half of them.
  Correct: what is on the air can be stopped, and the status describes it.
* **Results.** Cycles, respawns, resets and caps between the decoder and the
  client.  Correct: each packet once, in order, nothing from before a reset.
* **Control values** written by requests and by `rx_loop`.  Correct: the last
  request wins and the value shown is the one applied.
* **Multi-cycle selection** of the burst to show.  Correct: no phantom burst, no
  burst mapped to samples of another lap, no hit forgotten while it waits.
* **Job slots.** A queue of one place emptied and refilled by one process and
  read by another.  Correct: the image shown in the end is of the newest state.
* **Analysis of a recording** in overlapping windows, and of symbols chained one to
  the next.  Correct: each packet once, at its place; edges that follow the packet.
* **Verdict.** Peaks are thinned out, filtered and compared in a fixed order.
  Correct: no spur over the limit in a spectrum that is passed.

`PROJECT.json` lists every hazard at its line, the ones that no property covers
with the reason.

## 2. Plan

| Order | Modules | Status |
|---|---|---|
| 1 | `IqRing`: ring and sink | checked and proved |
| 2 | `IqDecode` (extends `IqRing`): extraction and drop annotation | checked and proved |
| 3 | `IqCapture` (extends `IqRing`), abstract `Recorder` | checked; safety and refinement proved |
| 4 | `Lifecycle`: RX thread, watchdog, workers, supervisor | checked; safety proved, liveness checked |
| 5 | `TxControl` | checked and proved |
| 6 | `ResultFlow` (extends `Annotator`): decode cycle, de-duplication, queue, drainer, feed, reset; abstract `PacketFeed` | checked; safety and refinement proved |
| 7 | `Annotator`: bounded queue and the account of its counters | checked and proved |
| 8 | `TdCapture`: backlog, confirmation, phantom check, projection into later windows | checked and proved |
| 9 | `Controls`: requests that set values, `rx_loop` that follows them | checked and proved |
| 10 | `Display` (extends `Controls`): processor, job queue, spectrum renderer, image slot | checked; safety proved, liveness checked |
| 11 | `Edges`, `Analysis` (extends `Edges`), `Fcc`, `Recording` (extends both): the two routes that evaluate a recording | checked and proved |

The proofs are in modules of their own: `IqProofs` (ring, `IqDecode`, `IqCapture`),
`LifecycleProofs`, `TxControlProofs`, `ResultFlowProofs` (with `Annotator`),
`TdCaptureProofs`, `DisplayProofs` (with `Controls`), `AnalysisProofs` (with `Edges`)
and `RecordingProofs` (with `Fcc`).  Every safety property of a run that passes is
a theorem; what is left to TLC is liveness.

## 3. Modules

### IqRing

A sample is its number in the stream, so a torn or misplaced sample is a wrong
number.  `lap` is a ghost: the number of the sample at index 0, from which
`Received`, the number that `buf_write_idx` stands for, follows.  One `work()` is
`WorkBegin` (overflow detection, 96-109), a `WorkCopy` for each sample (119-129,
both slices) and `WorkPublish` (the assignment of the index): the readers can run
between any two of them.  `drop_queue` is two variables, because a put reaches
the pipe only when the queue's feeder thread has written it (`FeedDrop`).

### IqDecode

`processor_main` from the read of the index to the end of the copies: `ReadIdx`,
`DrainDrop`, `ConvertDrops`, `CopySpec` and `CopyDecode` sample by sample,
`EndCycle` for everything after.  The code has no clock in this path, it relies on
the RX being slower than the copies; the model says how much slower it has to be:
`ReadLag` bounds what the RX writes between the read of the index and the last copy,
`DropAge` what it writes before a drop is converted.

### IqCapture and Recorder

`_capture_iq` with `_capture_lock`: `StartCapture` / `RejectCapture` (409), `Poll`,
`PollTimeout` (504), `ChunkReady`, `CopySample`, `GuardOverrun` (500), `GuardPass`.
A chunk is half of the ring, as in the code.  `Lag` bounds what the RX writes
between two looks of the capture thread at the index, `MaxPolls` stands for the
deadline.  `AlignedStarts` says whether a capture may begin at index 0, B/2 or B,
the places from which the parked index is met.  `Recorder` is what a caller is
promised, without ring, chunks or polls; `IqCapture!R` is the refinement mapping: the
recording is the segment once all of it has passed the guard.

### Lifecycle

Main process, RX thread, watchdog, workers and supervisor.  The RX thread's
`_exit_for_restart` is six actions, one per statement (`RxClear`, `RxList`,
`RxJoined` or `RxJoinDeadline`, `RxTerminate`, `RxOsExit`); the watchdog is
`WatchdogCheck` (the tests, the budget, the time stamp), `WatchdogStart` (the
fork) and `WatchdogAssign` (the store), with nothing between them protected.
A worker is `ReadParent`, `LoopTest`, `Body`, `ExitProcess`, and its queue's feeder
thread `FeedLock`, `FeedWrite`.  The feeder is modelled because the process cannot
exit before it, and because it holds a lock shared by all workers while it writes a
result larger than the pipe.  The main process ends by `RxOsExit` (code 3), by
`MainKilled` (a signal or a crash) or by Ctrl-C (`Interrupt`, `InterruptExit`), where
multiprocessing terminates the children it knows while the threads still run.

Workers are numbered in the order of their forks.  The time stamps of `restarts` are
kept as the processes they were taken for, with `born` their value: two restarts
at one time stay two entries of the list.  `NoteRestart` appends one to those younger
than the window, `Recent`.  That `_teardown` returns is assumed.

### TxControl

Each request is a program counter with the locals of its handler.  Mode switching
holds the flowgraph's lock from `LockFlowgraph` to `Connect` or the second
`Started`; the start after it, and stop, hold nothing.  `on` and `sending` are
GNU Radio's: the block is started, and what it sends.  `FileEnds` is a file
without repeat that is over.  `overlaps` is a ghost: which kinds of requests were
served together so far.  `CreateFails` is a device that cannot
be opened.  The flowgraph may exist already at the start,
because the frequency and attenuation routes create it too.  Those two routes,
and the routes for files, are left out.

### PacketFeed, Annotator and ResultFlow

`ResultFlow` follows packets from the air to a reader.  A packet is its place in
`air`, so that two packets of the same content, and two decodes of one packet,
can be told apart; the code knows them only by content and estimated start.
`Cycle` is one turn of the processor's loop: any of the packets that lie in the
window are found, in any order, `Deduped`, the loop over them as a recursive function,
decides which are reported, and a result is put.
`late` is the age of the newest sample in the ring at the time stamp t0, which
varies with scheduling and moves the estimate of the start.  `FeedResult` is the
queue's feeder thread, `GetResult`, `SubmitEntry` and `StoreResult` are the drain
thread (submission to the annotator happens before the lock is taken),
`GetPackets` and `Reset` are requests.  `ProcessorDies` loses the locals and what the
feeder had not written, `ProcessorRestarts` is the watchdog's.

Statistics are counts that only grow; kept of them is whether they count
anything, and whether they count something from before a reset (`Statistics`).

`PacketFeed` is what a reader of `/api/packets` is promised: packets in decode
order, each handed out once, the oldest dropped beyond the cap, the newest lost with a
dying processor.  `ResultFlow!F` maps its `waiting` to everything between the
decoder and the reader.

`Annotator` is `hitl.py`: `submit()` for one entry, and the posting thread as
`Take`, `PostOk`, `PostFails`.  It has a specification of its own, `AnnSpec`;
`ResultFlow` uses its actions.

### TdCapture

One `Step` is one cycle: what `select_td_capture` is given is a record (`Cycle`), what
it keeps between cycles are `pending_hit`, `pending_confirm` and `target`.  The
decoder's report of a window is external: a burst that lies whole in it is reported
(`Certain`), one that its end cuts off may be, as decoded by no means and with a
truncation reason, and a burst may cause a second, failed detection inside it,
a phantom, in every window that holds the phantom's place, also when the start of the
burst has left the window (`Optional`).  `Annotate` is the caller's: a drop that arrived in this cycle changes the
reason.  The outcomes are the five disjuncts of `Step`: `Off`, `Confirmed` (the
failure held failed again for a reason of its own), `Retry` (a waiting hit is
projected into the new window), `Fresh` and `Wait`; the first four end in `Serve` where
a segment is cut out or the hit goes on waiting.  Positions and time share one unit;
`abs` is the index in the ring, as in the code, while `at`, `pos`, `phantom`, `lone`, `bad`
and `confirmed` of a hit are ghosts that say what the index stands for; `lone` is a
detection whose burst begins before the window.

### Controls and Display

`Controls` is the shared values: a request reads once and then makes its stores one
by one (`todo`), `rx_loop` compares, reads, applies and writes back, each of them a
step.  `asked`, `wanted`, `recent` and `clean` are ghosts: the sum of the LO requests,
the target set last, those set since the processor began to read, and whether no
requests overlapped and no frequency was refused.

`Display` adds the processor's cycle as far as it reads these values (view, then the
target one value after the other), the job queue as multiprocessing implements it
(`slot` is its semaphore, `written` says whether the feeder thread has written
the job, the renderer's `get` holds the reader lock), the renderer and the two queues of
images that reach the drainer.  `DrawFails` is a spectrogram that cannot be drawn,
`RenderFails` a render that raises, or a renderer that dies and is respawned.  Each
behaviour has the requests of one set of `Knobs`.

### Edges, Analysis, Fcc and Recording

`Edges` is `correct_symbol_edges`, an action per symbol, with the crossings of the
envelope given.  `Analysis` is `decode_packets`: `DecodeWindow` or `WindowFails` per
window, `DropDuplicate` or `AcceptPacket` per packet, `FindEdge` per symbol,
`KeepPacket`.  A packet in a recording has its place, a drift of its slots and
missing symbols; the decoder, external, finds those that lie whole in a window and places
each within `Jitter`.  `Mistakable` are two packets that one window may give one start,
`Confusable` those that the duplicate test may take for one another, a third packet's
start included; `Followable` says which drifts and missing symbols the search can follow.
`Fcc` is the spectrum's way to the verdict: the notch, the
carrier with skirt and guard, no signal or `Judge`; `scipy`'s `find_peaks` is external
and described by `Maxima`, `Spaced` and `Prominence`.  `Recording` is the two routes around
them, with the check of `seconds` and the failures of the capture.

## 4. Runs

| Run | Shows |
|---|---|
| `iq_decode` | with `ReadLag = B - D` and `DropAge = B`, more than two laps and two drops: the newest published samples are in the ring at every moment of `work()`, chunks are consecutive samples, drops are placed where they happened |
| `iq_capture` | `2*Lag <= Chunk`, two clients: contiguous captures, lock released, refinement of `Recorder` |
| `iq_capture_slow` | `Lag = Chunk`: what the guard still guarantees |
| `lifecycle` | two roles, one fault, the main process ending in every way: one worker per role, at most the current replacement survives |
| `lifecycle_live` | one role, two faults, a clock of three ticks with windows of two: dead workers replaced or given up, no window exceeds the budget, loops end, a lost SDR makes the supervisor start a new process, unless somebody else ended the main process |
| `tx_control` | every interleaving of two requests, double creation included: overlapping starts stay stoppable, the lock is always given back, requests one at a time leave a truthful status |
| `result_flow` | two equal packets, overlapping windows, slow cycles, a restart, resets and readers at any moment: each packet in view, none repeated by one processor or swallowed, the annotator's account, refinement of `PacketFeed` |
| `td_capture` | two bursts, good or bad, phantoms, missing samples, cycles of normal and of excessive length, every change of the target: the segment drawn holds its burst, a failure drawn is one but for three named cases, a waiting hit is drawn, a bad burst cut off by the window is confirmed |
| `display` | two requests of the kinds that meet: requests in turn add up, the target read is whole, and in the end values and image are those set last |
| `recording` | packets at every place among the windows, drifting, with the first, an inner or two symbols missing, near noise, in twos and threes that resemble each other, a failing window, 6,912 spectra: packets once and in place, edges that follow, verdicts without an overlooked spur, answers that are told from what was recorded |

Runs that end in a violation, each a disagreement between code and documentation
(`findings` in `PROJECT.json` quotes the lines):

| Run | What happens |
|---|---|
| `iq_capture_parked` | index at B and a chunk from 0: samples from before the request (`app.py:552`) |
| `tx_stop` | stop overlapping a start: on the air, `_running` false, no request ends it (`gnuradio_tx.py:130`) |

`tx_stop` needs two actors to interleave within a few milliseconds,
`iq_capture_parked` only a request at the wrong index.

### Limits found

The modules show more of what the code does not do.  Three are stated as properties
that are not part of a run, with the constants under which TLC refutes them beside the
definition:

* `Lifecycle`, `OrphanExits`: a worker that notices that its parent is gone waits on its
  way out for a queue nobody reads (`processor.py:343`), although `src/README.md:731-733`
  says that it stops by itself.  A result larger than the pipe is enough.
* `Lifecycle`, `ResultQueueRecovers`: a worker killed while its feeder writes leaves the
  result queue's lock taken for all, its replacement included; the docstring at
  `app.py:973-976` says that a restart loses only history.
* `ResultFlow`, `ChipsetsCleared`: the first result after a reset brings the old chipset
  counts back, since the decoder that counts is another process (`app.py:389`).

Of the receiver's side:

* `IqDecode` with `ReadLag` one larger than `B - D` violates `ChunksIntact`: a processor
  stopped for longer than its headroom decodes a mixture of two laps.
* `IqCapture` with `Lag` between half a chunk and a chunk violates `CaptureContiguous`:
  `work()` writes a block before it publishes the index, so the guard accepts a chunk
  whose first samples that block has replaced (`app.py:590`).
* `GuardLimitsDamage` is about captures of whole chunks.  With `Sizes = {7}`, a last
  chunk shorter than the others, the RX may be a whole lap ahead of that chunk when
  the guard looks, which then sees a small distance and passes it.  `seconds` is an
  integer and a chunk is a second (`app.py:564`, 611), so the routes never ask for one.
* With `Lag` of more than a buffer the guard of `IqCapture` may pass a chunk that was
  lapped: it compares positions modulo the buffer.
* `OnlyReplacementSurvives` names its exception: a replacement the watchdog forks
  after `_exit_for_restart` took its list (`gnuradio_rx.py:292`) is neither joined nor
  terminated.
* `LoopEnds` supposes that the worker read its parent's pid while the parent lived;
  one that reads it later (`processor.py:92`) compares with its adoptive parent and
  loops on.
* `ModeTruthful` excludes requests that overlapped: a start that finds
  `_running` still false replaces the source of a block that is on the air
  (`gnuradio_tx.py:125`).
* In `TxControl` all requests can wait for one that waits, with the lock held, for a
  block another request has started again (`gnuradio_tx.py:78`), until a stop comes.
* `ReportedOnce` claims nothing after a restart: a new processor has no
  `recent_decodes` and reports the packets of the overlap again (`processor.py:50`).
* `ReportedOnce` and `NothingSwallowed` suppose `Spacing` between packets of the same
  content and bounds on `Jitter` (the conditions `Apart` and `Recognisable`).  Of two equal packets closer than `Tol` one is
  swallowed; if they are farther apart and in view together twice, the entry of
  `recent_decodes` is that of the one and the other is reported again.

Of the time-domain capture:

* `FailureIsReal` names three ways in which an intact packet is drawn as a failure: a
  phantom that the end of the window cut off is confirmed without a look at the packet it
  lies in (`td_capture.py:186-198`); a phantom in a packet whose start has left the window
  is not suppressed, since the check knows only packets decoded in the same cycle
  (`td_capture.py:209-217`); and a cut-off burst with missing samples has the
  reason `pdu_incomplete+sample_drop` (`processor.py:172`), which is not one of
  `_TRUNCATION_REASONS`.
* A `pending_confirm` is dropped by age only after it was compared: following a cycle of
  more than a lap it may meet an attempt of another lap.  `pending_hit` is checked first.
* `MaxAge`, `Timeout + Jitter <= B`, is what `config.py:156-161` provides for; with a longer
  timeout `RendersOwnBurst` fails.

Of the controls and the display:

* A gain request between `rx_loop`'s call and its write-back is lost
  (`gnuradio_rx.py:223`), and one before the connection too (257).  LO requests are only
  lost when they overlap (`app.py:424`) or a frequency is refused.
* Two overlapping start requests may leave `td_running` with no target, or with that of
  either (`app.py:437-445`).
* A spectrum image rendered before a change of the view may replace the first
  spectrograms after it (`app.py:945`), until the next one comes.
* `put_nowait` finds the slot full when `get_nowait` could not have the reader lock, or the
  feeder had not written yet: then the fresh job is dropped and the stale one stays,
  the reverse of what `processor.py:62-64` says.  The next cycle submits another
  spectrum; the segment of a time-domain capture is submitted once and lost.
* `GetEmpty` assumes that the 0.5 s of the renderer's wait are longer than the feeder's
  write and the processor's step from get to put.  Without it the renderer could time out
  for ever just before each job, and `DisplaySettles` fails.
* A renderer killed inside `get` holds the reader lock for good, so that its replacement
  gets no job (`app.py:973-976` says otherwise).  The model's renderer dies only while it draws.

Of the evaluation of recordings:

* Two packets of one device with the same sequence number in one window share one start
  (`analysis.py:69`).  If their contents are equal one is dropped as a duplicate; if not,
  one is reported at the place of the other, where its edges are not found, and a third
  packet of its content that begins there is dropped (`Confusable`; `MCRecording` has the
  three).
* After a missing symbol the search begins behind its supposed end; if the slots are
  shorter than nominal it is too late for the next one, and if they are longer it misses
  the next one once the drift over the missing symbols is more than the search's margin
  (`Followable`).
* A symbol whose nominal end lies beyond the segment is skipped (`timing.py:56`), and at
  the end of the segment two symbols may share the last sample (`Apart`).
* A spur over the limit is dropped by `find_peaks` in favour of a higher peak within
  `SPUR_MIN_SEP_KHZ`; if that one is in the channel or not prominent neither is judged and
  the spectrum is passed (`Hidden`).  A tone inside the notch at DC is not seen at all.
* The centre frequency a report names is read after the capture (`app.py:674`, 724).

Smaller things that no property is about: a drop the queue delivers before the index
that covers it is discarded (`processor.py:101`); `fg.wait()` in `_teardown` may block on a
device that is gone (`gnuradio_rx.py:307`); `Process.start()` may raise and end the
watchdog (`app.py:1006`); a file sent without repeat ends and `_running` stays true
(`gnuradio_tx.py:164`); boxes in the spectrogram age by 0.5 s in cycles of 0.6 s, so a
detection in three windows gets a second box (`processor.py:179`).

Every property of a passing run has a mutant: a faulty variant of one
definition, written before it and marked "Seeded fault", under which the property
fails.

### Bounds, and why they are enough

* Ring: B = 8 with D = 6, S = 2, Chunk = 4 keeps the proportions of the code
  (decode window 3/4, chunk 1/2 of the buffer); the arithmetic has no other
  constant.  Blocks of 1 and 2 put the index at every residue, at B, and split
  over the end.  20 to 22 samples are more than
  two laps, and in a capture two full
  chunks and an overrun.  What the bounds could hide is covered by the proofs.
* Lifecycle: two roles are enough for a lock shared by two and a list with two
  entries; faults and clock are bounded by `MaxFaults` and `MaxTime`; process
  numbers cannot run out (one per role, per fault and per role again for Ctrl-C).
  `lifecycle_live` has one role because fairness conditions multiply.
* ResultFlow: a tick is 0.3 s, which makes the window 5, the interval 2, the tolerance 3
  (1.0 s; 4 would be 1.2 s) and the expiry 10 ticks; a packet takes less than
  0.6 s and is one tick long.  `Slowest` 3 is a cycle of 0.9 s, the longest for which
  every packet still lies in a window.  A device repeats its content after 10 to 20 s
  (`src/README.md:624`); `Spacing` 5 is far less, and is the window.  `MaxTime` 8 is four
  cycles and both packets; at 9 it holds too.  That these values, like those of
  `config.py`, meet the conditions of the theorems is an `ASSUME` of `MCResultFlow`.  `FeedMax` and `HistoryMax` 1 and two
  packets pass the caps, `MaxQueued` 2 lets results wait in both halves of the queue.
* TxControl: two requests at a time, any number of them one after the other; each race
  above needs no more.  `MaxFlowgraphs` 2 allows the double creation.

* TdCapture: a tick is 0.25 s: window 6 (1.5 s), ring 8 (2 s), segment 3 (0.75 s), age
  limit 7 (1.8 s rounded down).  Cycles of 2 and 3 ticks are regular, one of 8, a whole
  ring, is a processor that was stopped.  20 ticks are four to six cycles, more
  than a hit can wait.  Two bursts, one that the first window's end cuts off; phantoms lie
  a tick behind the packet's start, and windows that begin in between occur.  The phantom pad and the matching tolerance are below a
  tick, and so is the 0.05 s in which a drop is ascribed to a failed attempt.
  `MCTdCapture` assumes the conditions of the theorems, which TLC evaluates.
* Display: two requests, of the kinds that meet each other (`Knobs`); a gain of three
  steps, one frequency step, which the SDR takes once and refuses the second time (`LoAddsUp`
  has the longer sums); queues of one image and one failing
  render.  Every loop runs without bound.
* Recording: windows of 65 samples that step by 39 and a recording of three windows, so
  that a packet of 22 samples meets every place in a window; slots of 6 samples with
  symbols of 4, drift of a sample per slot, which leads further away from the nominal
  grid than the search reaches.  The proofs suppose of a recording (`RecordingsAssumption`)
  that its packets are not longer than the windows' overlap (0.53 in 0.6 s) and that slots
  are shorter than nominal by less than the gap, and of the times (`AnalysisAssumption`)
  that a gap is at most half a symbol (0.8 and 8 ms), the decoder's error less than the
  search's margin and twice the error less than `DEDUP_START_TOL_S`; TLC evaluates both.
  Spectra of 19 bins have the carrier in or out of
  the middle, valleys, peaks within and beyond the distance `SpurSep` and the guard.

### Fairness

* Capture: weak fairness of the capture thread only.  The RX may stop, the clients
  need not ask.
* Lifecycle: weak fairness of every thread and process that can take a step (the
  operating system schedules it), the exit path of the RX thread, and the
  supervisor; none for the SDR, the clock, faults, signals.  The code's
  unconditional `while` loops with bounded waits are what makes weak fairness
  enough.
* Display: weak fairness of `rx_loop`, the processor, the feeder thread, the renderer
  and the drainer, each an unconditional loop with bounded waits, and of the stores of a
  request once it has begun.  No request has to be sent, and none is fair.
* The other modules have safety properties only.

## 5. Proofs

For every value of the constants that satisfies the named assumptions:

| Theorem | Assumes | Argument |
|---|---|---|
| `ContentHolds`, `HoldsNewest`, `ProcessorSparesRing`, `CaptureSparesRing` | `RingAssumption` | `RingContent` gives each slot its sample as a function of index, lap and progress of the block; it is inductive because every step changes one slot or one of the three; the readers, however slow, change none |
| `DecodeTypes`, `DecodeChunksIntact` | `Headroom`: `ReadLag <= B - D` | `CycleInv` bounds the distance of the RX from the index read; with `RingContent` each index read still holds its sample (`ReadsOwnSample`) |
| `DecodeDropOffsets` | `Headroom`, `DrainedInLap`: `DropAge <= B` | a position younger than a lap is not ambiguous modulo B |
| `CaptureTypeOK`, `CaptureIsContiguous` | `FastHost`: `2*Lag <= Chunk`, `Unaligned` | `TrackInv` follows the distance between head and chunk, `SegmentInv` extends contiguity to what the guard has not seen |
| `CaptureImplementsRecorder` | the same | initial states map, each step maps to a step of `Recorder` or a stutter |
| `DamageIsLimited` | `SlowHost`: `2*Lag <= B`, `Unaligned`, `WholeChunks` | `SlowSegmentInv`: a sample of the chunk is right, or the RX has written past it (`Overtaken`), published or not.  One it has published past makes the distance larger than the guard allows, so what is wrong and passes lies in the block in progress.  Whole chunks keep that distance below a lap |
| `LifecycleTypeOK`, `OneLivePerRole`, `ExitLeavesOneAtMost` | `LifecycleAssumption` | `PlaceInv` says where a live worker is listed (in `workers`, or in the watchdog's hands between fork and store), `ListInv` what the list of `_exit_for_restart` can miss; the step relation needs both |
| `RestartBudget` | the same | `BudgetInv`: every restart of a role younger than the window is in its list, so that what `Recent` forgets can share no window with a restart to come; `MaxRestarts` bounds the list, and so each window.  The time stamp is taken before the fork, hence two cases: with the process about to be forked and without |
| `TxTypeOK`, `LockIsGivenBack` | `TxAssumption` | `LockInv`: lock and handler in mode switching name each other; it also keeps `start()`'s exception from leaving it taken |
| `OverlappingStartsStop` | the same | `StartInv`: a block that is on counts as running, or a handler is on its way to say so, or one in mode switching waits for it to end; needs `LockInv`, and that at most one handler stops |
| `StatusTellsMode` | the same | `AloneInv`: without overlap one handler is active, and what is on the air is what is connected |
| `DisplayTypeOK`, `LoAddsUp` | `ControlsAssumption`, `DisplayAssumption` | `LoInv`: as long as requests come in turn and none is refused, either the frequency is what they add up to and no request holds a store of it, or the one request on its way stores just that; `CtlInv` has the types it needs, and that `rx_loop` takes a frequency back only after a refusal |
| `TargetOfOneRequest` | the same | `TurnInv`: which stores of the one request on its way are still to come fixes which values are old and which new; `SeenInv`: each value the processor may find was set since it began to read |
| `TdTypeOK`, `DrawnFailureIsReal` | `TdAssumption` | `CauseInv`: one search at a time, for the target set now, and a hit waits or is drawn only with a reason that is real, or in one of the three named cases |
| `DrawsOwnBurst` | `MaxAge` | `PlaceInv`: a waiting hit carries the index modulo B of its place, and is young enough that the index means this lap; cycles may have any length |
| `WaitingHitIsKept` (action) | `HitsInReach` | the same with `Waits`: a hit that had no room lies so close to the head that the next regular cycle finds it in the window and young |
| `CutOffBadIsConfirmed` (action) | `CutsInReach` | `HeldInv`, `CutInv`: a bad burst that is held was cut off by the window's end, so the next window shows it whole and its report matches |
| `FlowTypeOK`, `AccountAddsUp` | `FlowAssumption`, `AnnotatorAssumption` | `FlowInv` has a part for each group of variables and a frame lemma for each part; in the account every step moves an entry from one term of the sum to another |
| `SeenWhole` | `InReach` | `ViewInv`: what ended before the last cycle has been in view, and cycles are at most `Slowest` apart |
| `DecodedIsReported` | `Apart` | `SwallowInv`: an entry of `recent_decodes` is explained by a packet of its content that was reported; by `Apart` it can only pass over that packet |
| `HandedOutOnce` | `Recognisable` | `MarkInv`: what was reported and may be found again is marked in `recent_decodes`; `OnceInv`: feed, queue and hand-outs have no repetition and hold only what was reported |
| `FeedRefined` | `FlowAssumption`, `AnnotatorAssumption` | initial states map; the mapped queue is a concatenation of feed, entry in hand, pipe and feeder thread, and each step appends to it, takes from an end or leaves it |
| `RecordingPacketsOnce` | `AnalysisAssumption`, `RecordingsAssumption` | `PacketsInv`: every report stands near its packet, or near one it was mistaken for (`Placed`); a packet that cannot be confused is among those found, in hand or accepted as soon as one window that holds it is done (`NoLoss`), and is never there twice (`NoTwins`).  At the end some window held it (`EveryPacketInAWindow`: windows overlap by more than a packet) |
| `RecordingEdgesFollow` | the same, `EdgesAssumption` | `SearchInv` with `Chain`: every symbol heard so far has its two crossings, and the place to search next is exactly as far from the last symbol heard as the nominal grid says, so that the next rise is within the margin and the nearest (`HeardStart`), and a missing symbol finds no crossing (`LostPlace`) |
| `RecordingVerdict` | `FccAssumption` | `FccInv`: a trace of numbers, the carrier a bin of it; a peak over the limit that was not kept has a higher neighbour that was, which is over the limit too and judged, or left out (`JudgeInv`).  `Min` and `Max` of levels exist by an induction over ranges of bins (`RangeExtremes`) |
| `RecordingTypes` | all of these, `SecondsAssumption` | `RouteInv`: a recording or a spectrum appears only after a request whose `seconds` was checked, and a failure only where there is neither; an analysis that is over and a verdict do not change any more, so that an answer goes on fitting them |

The assumptions of the ring's readers are conditions on the host and on the moment of
the request, not on the code, and each is needed: without `Unaligned` there is
`iq_capture_parked`, without `FastHost` the block in progress and without `Headroom`
the torn decode window described above.

The conditions of the packet path are what `config.py` and the devices provide.  With
a window of 1.5 s, a cycle of 0.6 s and packets of 0.53 s: `InReach` holds for cycles
up to about 0.97 s less the jitter of the scheduler; `Apart` and `Recognisable` for
a jitter below the 1.0 s of `DEDUP_START_TOL_S` and an expiry of 3 s, as a device repeats its
content after 10 to 20 s only.  `MaxAge` is 1.8 s and a jitter of 0.2 s in a ring of 2 s;
`HitsInReach` allows a next cycle up to 0.8 s later with a segment of 0.75 s and a
pre-roll of 0.075 s; `CutsInReach` needs cycles longer than a packet (0.6 to 0.53 s) and
the two together within the window.  Where a theorem is conditional, a state that
violates the property without the condition is described above.

The de-duplication loop (`Deduped`) and the concatenation of the results in the pipe
(`Joined`) are recursive functions.  The library's
induction theorems take an operator and cannot be used, so `ResultFlowProofs` proves
the two it needs for sets of numbers: one of induction (`NatSetInduction`) and one
about a function defined by recursion on a number (`Recursion`).  Associativity of `\o`, which
the refinement needs, is proved once for an opaque `Cat`.

Only model-checked: `LockReleased`, `DeadReplaced`, `LoopEnds`, `RestartHappens`,
`ControlsSettle` and `DisplaySettles`, which are liveness under fairness and out of the
prover's reach.

## 6. Not modelled

The signal processing (decoder library, spectrogram, envelope and its measurements,
plots: floating point without control of its own), the detection history (it only
draws boxes), the text of the report, the web page, configuration,
files for transmission, build and deployment files.  In what is modelled the following
is left out: log output, labels and timings that results carry, the mock injector, the
peak meter of the sink, `rx_connected`, what a worker computes, the second job queue (the
time-domain renderer's, the same code as the one modelled), automatic gain mode, in
which `rx_loop` ignores the gain.
