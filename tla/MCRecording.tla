----------------------------- MODULE MCRecording -----------------------------
(***************************************************************************)
(* Recording with windows of 65 samples that overlap by 26, packets of     *)
(* four symbols of 4 samples with gaps of 2; a spectrum of 19 bins with    *)
(* 1.25 dB to the unit.                                                    *)
(***************************************************************************)
EXTENDS Recording

MCDefault == [record_analyze |-> 10, fcc_check |-> 5]

MCRaw ==
    [kind : {"absent", "text"}, value : {0}] \cup [kind : {"number"}, value : {0, 1, 30, 31}]

MCPacket(places, drifts, fades, ids, seqs, contents) ==
    [at : places, drift : drifts, faded : fades, id : ids, seq : seqs, content : contents]
MCRecorded(ps, noise) == [n |-> 117, packets |-> ps, noise |-> noise]

(* One packet at any place, drifting, with symbols missing, near noise;    *)
(* two packets; three, of which the first two are taken for each other;    *)
(* and a faded packet at the end with noise in its gaps.                   *)
MCRecordings ==
    {MCRecorded({p}, noise) :
        p \in MCPacket(0..95, {-1, 0, 1}, {{}, {0}, {1}, {1, 2}}, {"a"}, {1}, {"x"}), noise \in {{}, 40..42}}
      \cup
    {MCRecorded({p, q}, {}) :
        p \in MCPacket({3, 25}, {0}, {{}}, {"a"}, {1}, {"x"}),
        q \in MCPacket({26, 44, 46, 48, 66, 70, 91}, {0}, {{}}, {"a", "b"}, {1, 2}, {"x", "y"})}
      \cup
    {MCRecorded({p, q, r}, {}) :
        p \in MCPacket({3}, {0}, {{}}, {"a"}, {1}, {"x"}),
        q \in MCPacket({41}, {0}, {{}}, {"a"}, {1}, {"y"}),
        r \in MCPacket({66, 70, 91}, {0}, {{}}, {"b"}, {1}, {"x", "y"})}
      \cup
    {MCRecorded({p}, 98..100 \cup 106..108 \cup 114..115) :
        p \in MCPacket({95}, {0}, {0..2}, {"a"}, {1}, {"x"})}

(* The carrier at bin 11 or elsewhere, valleys and peaks beside it.        *)
MCTraces ==
    {[b \in Bin |->
        CASE b = 1 -> t1 [] b = 3 -> t3 [] b = 11 -> t11 [] b = 12 -> t12 [] b = 13 -> t13
          [] b = 14 -> t14 [] b = 15 -> t15 [] b = 17 -> t17 [] OTHER -> 0] :
        t1 \in {0, 8, 20, 32}, t3 \in {0, 8, 20, 32}, t11 \in {0, 20, 32}, t12 \in {0, 16},
        t13 \in {0, 16, 20}, t14 \in {0, 16, 20}, t15 \in {0, 16, 20, 32}, t17 \in {0, 20}}
=============================================================================
