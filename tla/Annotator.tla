------------------------------ MODULE Annotator ------------------------------
(***************************************************************************)
(* HarvesterAnnotator (hitl.py): the drain thread submits the entries of a  *)
(* result, a thread of its own posts them one at a time.  The queue between *)
(* them is bounded and submit() never waits; what becomes of an entry is    *)
(* counted in one of four counters.                                        *)
(***************************************************************************)
EXTENDS Integers, Sequences

CONSTANTS
  Entries,      \* decode entries, one for each packet reported
  LegacyEntries, \* those of them whose phy_ver is not 1
  QueueMax      \* _QUEUE_MAX

ASSUME AnnotatorAssumption == QueueMax \in Nat \ {0} /\ LegacyEntries \subseteq Entries

VARIABLES
  aqueue,                         \* self._queue
  posting,                        \* the entry _run() has taken, in a sequence
  sent, failed, dropped, skipped, \* the counters
  _failing,
  submitted                       \* ghost: number of entries given to submit()

annVars == <<aqueue, posting, sent, failed, dropped, skipped, _failing, submitted>>

AnnInit ==
  /\ aqueue = <<>> /\ posting = <<>>
  /\ sent = 0 /\ failed = 0 /\ dropped = 0 /\ skipped = 0
  /\ _failing = FALSE
  /\ submitted = 0

(* Seeded fault: an entry that finds the queue full is not counted.          *)
Submit_uncounted(e) ==
  /\ IF e \in LegacyEntries
       THEN skipped' = skipped + 1 /\ UNCHANGED aqueue
       ELSE /\ aqueue' = IF Len(aqueue) < QueueMax THEN Append(aqueue, e) ELSE aqueue
            /\ UNCHANGED skipped
  /\ submitted' = submitted + 1
  /\ UNCHANGED <<posting, sent, failed, dropped, _failing>>

(* submit(), one entry: a legacy entry is skipped, another one is queued if  *)
(* there is room and dropped if there is none.                             *)
Submit(e) ==
  /\ \/ e \in LegacyEntries /\ skipped' = skipped + 1 /\ UNCHANGED <<aqueue, dropped>>
     \/ /\ e \notin LegacyEntries /\ Len(aqueue) < QueueMax
        /\ aqueue' = Append(aqueue, e) /\ UNCHANGED <<skipped, dropped>>
     \/ /\ e \notin LegacyEntries /\ Len(aqueue) >= QueueMax
        /\ dropped' = dropped + 1 /\ UNCHANGED <<aqueue, skipped>>
  /\ submitted' = submitted + 1
  /\ UNCHANGED <<posting, sent, failed, _failing>>

(* _run(): entry = self._queue.get()                                       *)
Take ==
  /\ posting = <<>> /\ aqueue # <<>>
  /\ posting' = <<Head(aqueue)>> /\ aqueue' = Tail(aqueue)
  /\ UNCHANGED <<sent, failed, dropped, skipped, _failing, submitted>>

PostOk ==
  /\ posting # <<>>
  /\ posting' = <<>> /\ sent' = sent + 1 /\ _failing' = FALSE
  /\ UNCHANGED <<aqueue, failed, dropped, skipped, submitted>>

(* Refused, timed out, no socket, a reply that does not parse: no retry.     *)
PostFails ==
  /\ posting # <<>>
  /\ posting' = <<>> /\ failed' = failed + 1 /\ _failing' = TRUE
  /\ UNCHANGED <<aqueue, sent, dropped, skipped, submitted>>

Post == Take \/ PostOk \/ PostFails

AnnNext == (\E e \in Entries : Submit(e)) \/ Post
AnnSpec == AnnInit /\ [][AnnNext]_annVars
-----------------------------------------------------------------------------
AnnTypeOK ==
  /\ aqueue \in Seq(Entries) /\ Len(aqueue) <= QueueMax
  /\ posting \in Seq(Entries) /\ Len(posting) <= 1
  /\ sent \in Nat /\ failed \in Nat /\ dropped \in Nat /\ skipped \in Nat
  /\ submitted \in Nat
  /\ _failing \in BOOLEAN

(* Every entry submitted is in exactly one place: sent, failed, dropped,     *)
(* skipped, queued or being posted.  src/README.md 650-655 offers these      *)
(* numbers for an account of the annotations (submit and _run).             *)
EntriesAccounted ==
  submitted = sent + failed + dropped + skipped + Len(aqueue) + Len(posting)
=============================================================================
