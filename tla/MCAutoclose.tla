---------------------------- MODULE MCAutoclose ----------------------------
(***************************************************************************)
(* Instances of Autoclose for TLC: two issues compete for a batch of one,  *)
(* one of them answered twice.                                             *)
(***************************************************************************)
EXTENDS Autoclose, TLC

CONSTANTS i1, i2

MCMaxAnswers == [i \in Issues |-> IF i = i1 THEN 2 ELSE 1]
=============================================================================
