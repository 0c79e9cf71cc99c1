---------------------------- MODULE MCTdCapture ----------------------------
(***************************************************************************)
(* TdCapture with a tick of 0.25 s: window 6, ring 8, segment 3, age 7.    *)
(* Up to two bursts of two ticks are on the air.                           *)
(***************************************************************************)
EXTENDS TdCapture

MCBurst(places, sources) ==
    [at : places, of : sources, good : BOOLEAN, echo : BOOLEAN]

(* A good or bad burst of device "a", and another a while later.           *)
MCBursts ==
    {{x, y} : x \in MCBurst({4, 5}, {"a"}), y \in MCBurst({8, 10, 13}, {"a", "b"})}

(* The conditions that the theorems of TdCaptureProofs name.               *)
ASSUME MCConditions == MaxAge /\ HitsInReach /\ CutsInReach
=============================================================================
