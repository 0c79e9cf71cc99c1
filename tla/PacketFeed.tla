----------------------------- MODULE PacketFeed -----------------------------
(***************************************************************************)
(* What the packet feed promises to those who read it (src/README.md       *)
(* 541-545): packets are handed out in the order they were decoded, each   *)
(* of them once, all that are there at a time.  It may lose packets in two *)
(* ways only: the oldest, when more than Cap are waiting, and the newest,  *)
(* when the processor dies before they have left it.                       *)
(*                                                                         *)
(* No queues, threads, cycles or locks: ResultFlow implements it.          *)
(***************************************************************************)
EXTENDS Naturals, Sequences

CONSTANTS Cap, Packets

VARIABLES
  waiting,  \* packets decoded and not handed out yet
  given     \* packets handed out

vars == <<waiting, given>>

Init == waiting = <<>> /\ given = <<>>

Decode ==
  /\ waiting' \in Seq(Packets) /\ Len(waiting') >= Len(waiting)
  /\ SubSeq(waiting', 1, Len(waiting)) = waiting
  /\ UNCHANGED given

(* A reader gets the packets that have arrived, a prefix of those waiting.   *)
HandOut ==
  \E n \in 0..Len(waiting) :
    /\ given' = given \o SubSeq(waiting, 1, n)
    /\ waiting' = SubSeq(waiting, n + 1, Len(waiting))

DropOldest ==
  /\ \E n \in 1..Len(waiting) - Cap : waiting' = SubSeq(waiting, n + 1, Len(waiting))
  /\ UNCHANGED given

LoseNewest ==
  /\ \E n \in 0..Len(waiting) : waiting' = SubSeq(waiting, 1, n)
  /\ UNCHANGED given

Next == Decode \/ HandOut \/ DropOldest \/ LoseNewest
Spec == Init /\ [][Next]_vars
=============================================================================
