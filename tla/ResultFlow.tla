----------------------------- MODULE ResultFlow -----------------------------
(***************************************************************************)
(* From the air to the readers of the packet feed: the decode cycle of the  *)
(* processor with its de-duplication (processor.py), the result queue, the  *)
(* drain thread with the annotator (app.py _drain_results, hitl.py), the    *)
(* feed and the history with their caps, /api/packets and /api/reset, and   *)
(* the restart of the processor by the watchdog.                           *)
(*                                                                         *)
(* Time is counted in ticks.  A packet is known by its place in `air`, the  *)
(* history of transmissions; two packets of the same content are what the   *)
(* code must tell from two decodes of one packet, as the decode windows     *)
(* overlap.                                                                *)
(***************************************************************************)
EXTENDS Annotator, SequencesExt

CONSTANTS
  Contents,     \* values of (ntw_id, auth_tag, payload_val)
  Dur,          \* length of a packet
  Spacing,      \* environment: least time between packets of the same content
  Window,       \* DECODE_WINDOW_S
  Interval,     \* DECODE_INTERVAL_S
  Tol,          \* DEDUP_START_TOL_S
  Expiry,       \* how long recent_decodes keeps an entry (3 s)
  Slowest,      \* environment: longest time between two cycles
  Jitter,       \* environment: variation of the delay between air and t0
  FeedMax,      \* cap of packet_feed (1000)
  HistoryMax,   \* MAX_DECODE_HISTORY
  MaxTime,      \* bound: last tick
  MaxDeaths,    \* bound: restarts of the processor
  MaxQueued     \* bound: results on their way to the drain thread

ASSUME FlowAssumption ==
  /\ {Dur, Spacing, Window, Interval, Tol, Expiry, FeedMax, HistoryMax, MaxQueued} \subseteq Nat \ {0}
  /\ {Slowest, Jitter, MaxTime, MaxDeaths} \subseteq Nat
  /\ Entries \subseteq Nat \ {0}

(* config.py 131-137: the longest gap between cycles leaves each packet a    *)
(* window that holds it whole.                                             *)
InReach == Slowest + Dur + Jitter <= Window + 1

(* src/README.md 624: a device rests between packets for longer than         *)
(* DEDUP_START_TOL_S.                                                      *)
Apart == Tol + Jitter <= Spacing

(* ... and long enough that no two packets of one content are in view at a   *)
(* time, while an entry of recent_decodes outlives the view of its packet.   *)
Recognisable ==
  /\ Jitter < Tol /\ Window + Jitter < Expiry
  /\ Window < Spacing + Dur /\ Window + Jitter < Spacing + Dur + Interval

VARIABLES
  now, air,                       \* air: sequence of [content, start]
  up, t0, recent_decodes, chips,  \* processor; chips: the decoder's statistics
  unwritten, result_queue,        \* results in the feeder thread, in the pipe
  r, next_entry,                  \* drain thread: the result it has, the next entry
                                  \* to submit; 0: it waits for a result
  packet_feed, decode_results, chipset_stats,
  given,                          \* packets handed out by /api/packets
  deaths,
  viewed, decoded, reported       \* ghosts: packets that lay in a window, were
                                  \* decoded, were put in a result

airVars == <<now, air>>
procVars == <<up, t0, recent_decodes, chips, deaths, viewed, decoded, reported>>
pipeVars == <<unwritten, result_queue>>
drainVars == <<r, next_entry>>
feedVars == <<packet_feed, decode_results, chipset_stats, given>>
vars == <<airVars, procVars, pipeVars, drainVars, feedVars, annVars>>

Never == -1     \* no entry: no packet starts before 0

(* The statistics of the decoder are counts that only grow.  What is kept of *)
(* them is whether they count anything, and, as a ghost, whether a result    *)
(* made after a reset still counts what was decoded before it.               *)
Statistics == {"none", "fresh", "stale"}
NoResult == [decode_entries |-> <<>>, chipset_stats |-> "none"]

Init ==
  /\ now = 0 /\ air = <<>>
  /\ up = TRUE /\ t0 = 0 /\ recent_decodes = [k \in Contents |-> Never] /\ chips = "none"
  /\ unwritten = <<>> /\ result_queue = <<>>
  /\ next_entry = 0 /\ r = NoResult
  /\ packet_feed = <<>> /\ decode_results = <<>> /\ chipset_stats = "none"
  /\ given = <<>> /\ deaths = 0
  /\ viewed = {} /\ decoded = {} /\ reported = {}
  /\ AnnInit
-----------------------------------------------------------------------------
(* The environment.                                                        *)

Tick ==
  /\ now < MaxTime /\ (up => now < t0 + Slowest)
  /\ now' = now + 1
  /\ UNCHANGED <<air, procVars, pipeVars, drainVars, feedVars, annVars>>

Transmit(k) ==
  /\ Len(air) + 1 \in Entries
  /\ \A p \in 1..Len(air) : air[p].content = k => now >= air[p].start + Spacing
  /\ air' = Append(air, [content |-> k, start |-> now])
  /\ UNCHANGED <<now, procVars, pipeVars, drainVars, feedVars, annVars>>
-----------------------------------------------------------------------------
(* The processor.                                                          *)

(* Seeded fault: only what came in since the last cycle is decoded.          *)
InWindow_newOnly(late) ==
  {p \in 1..Len(air) : now - late - Interval <= air[p].start /\ air[p].start + Dur <= now - late}

(* The packets that lie in the decode window of a cycle whose newest sample  *)
(* is `late` ticks older than its t0.                                       *)
InWindow(late) ==
  {p \in 1..Len(air) : now - late - Window <= air[p].start /\ air[p].start + Dur <= now - late}

(* start_t of the code: too late by the age of the newest sample.            *)
StartEstimate(p, late) == air[p].start + late

(* Seeded fault: the same content is a repeat, whenever it was sent.         *)
Dedup_anyTime(acc, p, late) ==
  IF acc.recent[air[p].content] # Never THEN acc
  ELSE [recent |-> [acc.recent EXCEPT ![air[p].content] = StartEstimate(p, late)],
        deduped |-> Append(acc.deduped, p)]

(* One turn of the de-duplication loop.                                     *)
Dedup(acc, p, late) ==
  LET k == air[p].content
      start_t == StartEstimate(p, late)
      distance == start_t - acc.recent[k]
  IN  IF acc.recent[k] # Never /\ distance < Tol /\ -distance < Tol THEN acc
      ELSE [recent |-> [acc.recent EXCEPT ![k] = start_t],
            deduped |-> Append(acc.deduped, p)]

CycleDue == now >= t0 + Interval

(* Seeded fault: entries expire after a cycle.                              *)
Unexpired_early == [k \in Contents |->
  IF now - recent_decodes[k] < Interval THEN recent_decodes[k] ELSE Never]

Unexpired == [k \in Contents |->
  IF now - recent_decodes[k] < Expiry THEN recent_decodes[k] ELSE Never]

(* The loop over the packets in the order decode_signal returns them.        *)
Deduped(packets, late) ==
  LET turn[n \in 0..Len(packets)] ==
        IF n = 0 THEN [recent |-> Unexpired, deduped |-> <<>>]
                 ELSE Dedup(turn[n - 1], packets[n], late)
  IN  turn[Len(packets)]

(* One cycle: decode_signal finds some of the packets of the window, in some *)
(* order, the rest are reported and a result is put, with or without them.   *)
Cycle(late) ==
  /\ up /\ CycleDue /\ Len(unwritten) + Len(result_queue) < MaxQueued
  /\ \E found \in SUBSET InWindow(late) : \E packets \in SetToSeqs(found) :
       LET out == Deduped(packets, late)
       IN  /\ recent_decodes' = out.recent
           /\ chips' = IF packets # <<>> /\ chips = "none" THEN "fresh" ELSE chips
           /\ unwritten' = Append(unwritten,
                [decode_entries |-> out.deduped, chipset_stats |-> chips'])
           /\ decoded' = decoded \cup ToSet(packets)
           /\ reported' = reported \cup ToSet(out.deduped)
  /\ viewed' = viewed \cup InWindow(late)
  /\ t0' = now
  /\ UNCHANGED <<airVars, up, deaths, result_queue, drainVars, feedVars, annVars>>

(* The queue's feeder thread in the processor process.                      *)
FeedResult ==
  /\ up /\ unwritten # <<>>
  /\ result_queue' = Append(result_queue, Head(unwritten)) /\ unwritten' = Tail(unwritten)
  /\ UNCHANGED <<airVars, procVars, drainVars, feedVars, annVars>>

(* The process dies: its locals, its statistics and what its feeder thread   *)
(* had not written are lost.                                               *)
ProcessorDies ==
  /\ up /\ deaths < MaxDeaths
  /\ up' = FALSE /\ deaths' = deaths + 1
  /\ unwritten' = <<>> /\ chips' = "none" /\ t0' = 0
  /\ recent_decodes' = [k \in Contents |-> Never]
  /\ UNCHANGED <<airVars, viewed, decoded, reported, result_queue, drainVars,
                 feedVars, annVars>>

(* The watchdog starts another one; its first cycle is due at once.          *)
ProcessorRestarts ==
  /\ ~up
  /\ up' = TRUE /\ t0' = now - Interval
  /\ UNCHANGED <<airVars, recent_decodes, chips, deaths, viewed, decoded, reported,
                 pipeVars, drainVars, feedVars, annVars>>
-----------------------------------------------------------------------------
(* The drain thread.                                                       *)

GetResult ==
  /\ next_entry = 0 /\ result_queue # <<>>
  /\ r' = Head(result_queue) /\ result_queue' = Tail(result_queue) /\ next_entry' = 1
  /\ UNCHANGED <<airVars, procVars, unwritten, feedVars, annVars>>

(* annotator.submit(), entry by entry, before the lock is taken.             *)
SubmitEntry ==
  /\ next_entry \in DOMAIN r.decode_entries
  /\ Submit(r.decode_entries[next_entry])
  /\ next_entry' = next_entry + 1
  /\ UNCHANGED <<airVars, procVars, pipeVars, r, feedVars>>

(* Seeded fault: nothing is cut off.                                        *)
Newest_all(s, n) == s

Newest(s, n) == IF Len(s) <= n THEN s ELSE SubSeq(s, Len(s) - n + 1, Len(s))

(* Seeded fault: the feed keeps the oldest packets.                         *)
StoreResult_keepsOldest ==
  /\ next_entry = Len(r.decode_entries) + 1
  /\ packet_feed' = LET all == packet_feed \o r.decode_entries
                    IN  IF Len(all) <= FeedMax THEN all ELSE SubSeq(all, 1, FeedMax)
  /\ decode_results' = Newest(decode_results \o r.decode_entries, HistoryMax)
  /\ chipset_stats' = IF r.chipset_stats = "none" THEN chipset_stats
                                                     ELSE r.chipset_stats
  /\ r' = NoResult /\ next_entry' = 0
  /\ UNCHANGED <<airVars, procVars, pipeVars, given, annVars>>

(* with state.lock: feed and history are extended and cut, and statistics    *)
(* replaced unless the result has none.                                    *)
StoreResult ==
  /\ next_entry = Len(r.decode_entries) + 1
  /\ packet_feed' = Newest(packet_feed \o r.decode_entries, FeedMax)
  /\ decode_results' = Newest(decode_results \o r.decode_entries, HistoryMax)
  /\ chipset_stats' = IF r.chipset_stats = "none" THEN chipset_stats
                                                     ELSE r.chipset_stats
  /\ r' = NoResult /\ next_entry' = 0
  /\ UNCHANGED <<airVars, procVars, pipeVars, given, annVars>>
-----------------------------------------------------------------------------
(* Requests, each of them under state.lock.                                *)

(* GET /api/packets: everything there is, and then clear.                   *)
GetPackets ==
  /\ packet_feed # <<>>
  /\ given' = given \o packet_feed /\ packet_feed' = <<>>
  /\ UNCHANGED <<airVars, procVars, pipeVars, drainVars, decode_results, chipset_stats,
                 annVars>>

(* POST /api/reset: reset_chipset_stats() clears the statistics of the       *)
(* decoder in this process, which nothing uses, not the processor's.         *)
Reset ==
  /\ decode_results' = <<>> /\ chipset_stats' = "none"
  /\ chips' = IF chips = "none" THEN "none" ELSE "stale"
  /\ UNCHANGED <<airVars, up, t0, recent_decodes, deaths, viewed, decoded, reported,
                 pipeVars, drainVars, packet_feed, given, annVars>>
-----------------------------------------------------------------------------
Processor == FeedResult \/ ProcessorDies \/ ProcessorRestarts \/ \E late \in 0..Jitter : Cycle(late)
Drain == GetResult \/ SubmitEntry \/ StoreResult

Next ==
  \/ Tick \/ \E k \in Contents : Transmit(k)
  \/ Processor \/ Drain
  \/ GetPackets \/ Reset
  \/ Post /\ UNCHANGED <<airVars, procVars, pipeVars, drainVars, feedVars>>

Spec == Init /\ [][Next]_vars
-----------------------------------------------------------------------------
(* The packets of a sequence of results.                                    *)
Joined(results) ==
  LET upTo[n \in 0..Len(results)] ==
        IF n = 0 THEN <<>> ELSE upTo[n - 1] \o results[n].decode_entries
  IN  upTo[Len(results)]

(* Packets reported and not handed out, in the order they were reported.     *)
InPipeline ==
  packet_feed \o r.decode_entries \o Joined(result_queue) \o Joined(unwritten)

Results == [decode_entries : Seq(Entries), chipset_stats : Statistics]

TypeOK ==
  /\ now \in 0..MaxTime /\ air \in Seq([content : Contents, start : Nat])
  /\ 1..Len(air) \subseteq Entries /\ up \in BOOLEAN
  /\ t0 \in Int /\ {chips, chipset_stats} \subseteq Statistics /\ r \in Results
  /\ next_entry \in 0..Len(r.decode_entries) + 1
  /\ recent_decodes \in [Contents -> Int]
  /\ unwritten \in Seq(Results) /\ result_queue \in Seq(Results)
  /\ Len(packet_feed) <= FeedMax /\ Len(decode_results) <= HistoryMax
  /\ deaths \in 0..MaxDeaths /\ AnnTypeOK

(* A packet that was decoded in several cycles is handed out once, as long as *)
(* the processor that decoded it lives (the de-duplication loop of           *)
(* processor_main).  It rests on what Recognisable says.                     *)
ReportedOnce ==
  deaths = 0 => LET all == given \o InPipeline
                IN  \A i, j \in DOMAIN all : all[i] = all[j] => i = j

(* De-duplication never swallows a packet: whatever was decoded is reported, *)
(* also if a packet of the same content came Spacing earlier.               *)
NothingSwallowed == decoded \subseteq reported

(* "packets that overlap the decode interval boundary are still decoded"     *)
(* (config.py 131): a packet lies whole in a window before long, however    *)
(* cycles and packets fall, unless the processor was restarted meanwhile.    *)
EveryPacketInView ==
  deaths = 0 =>
    \A p \in 1..Len(air) : now > air[p].start + Dur + Jitter + Slowest => p \in viewed

F == INSTANCE PacketFeed WITH
       Cap <- FeedMax, Packets <- Entries, waiting <- InPipeline, given <- given

(* Feeder thread, pipe, drain thread, cap and clear-on-read are one queue,   *)
(* which loses packets only at its ends: _drain_results and api_packets.     *)
ImplementsFeed == F!Spec

(* src/src/stream_web/templates/index.html 338-344: after a reset the table  *)
(* of chipsets is "Cleared": no later result brings the old counts back.     *)
(* Violated by a packet and a reset.                                         *)
ChipsetsCleared == chipset_stats # "stale"
=============================================================================
