------------------------------ MODULE Recorder ------------------------------
(***************************************************************************)
(* What an IQ capture promises its caller, with no ring, chunk or copy in  *)
(* it: one request at a time is answered with exactly the samples that     *)
(* come in after it, in order and without a gap, or it fails; a second     *)
(* request meanwhile is rejected.  IqCapture is shown to implement this.   *)
(***************************************************************************)
EXTENDS Naturals, Sequences

CONSTANTS Clients, NoClient, Sizes

VARIABLES
    received,   \* samples received so far
    holder,     \* the client whose capture is running
    outcome,    \* the response of each client's last request
    from,       \* first sample of the capture
    want,       \* its length
    recording   \* the samples delivered, empty until then

vars == <<received, holder, outcome, from, want, recording>>

Init ==
    /\ received = 0
    /\ holder = NoClient
    /\ outcome = [c \in Clients |-> "none"]
    /\ from = 0
    /\ want = 0
    /\ recording = <<>>

Receive ==
    /\ received' > received
    /\ UNCHANGED <<holder, outcome, from, want, recording>>

Start(c, n) ==
    /\ holder = NoClient
    /\ holder' = c
    /\ outcome' = [outcome EXCEPT ![c] = "none"]
    /\ from' = received
    /\ want' = n
    /\ recording' = <<>>
    /\ UNCHANGED received

Reject(c) ==
    /\ holder \notin {NoClient, c}
    /\ outcome' = [outcome EXCEPT ![c] = "busy"]
    /\ UNCHANGED <<received, holder, from, want, recording>>

Deliver ==
    /\ holder # NoClient
    /\ received >= from + want
    /\ recording' = [k \in 1..want |-> from + k - 1]
    /\ outcome' = [outcome EXCEPT ![holder] = "ok"]
    /\ holder' = NoClient
    /\ UNCHANGED <<received, from, want>>

Fail(why) ==
    /\ holder # NoClient
    /\ outcome' = [outcome EXCEPT ![holder] = why]
    /\ holder' = NoClient
    /\ UNCHANGED <<received, from, want, recording>>

Next ==
    \/ Receive
    \/ \E c \in Clients : (\E n \in Sizes : Start(c, n)) \/ Reject(c)
    \/ Deliver
    \/ \E why \in {"stalled", "overrun"} : Fail(why)

Spec == Init /\ [][Next]_vars
=============================================================================
