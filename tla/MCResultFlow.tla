---------------------------- MODULE MCResultFlow ----------------------------
(***************************************************************************)
(* ResultFlow with the values of ResultFlow.cfg.  They meet the conditions  *)
(* that the theorems of ResultFlowProofs name, as those of config.py do.    *)
(***************************************************************************)
EXTENDS ResultFlow

ASSUME MCConditions == InReach /\ Apart /\ Recognisable
=============================================================================
