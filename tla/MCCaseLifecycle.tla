-------------------------- MODULE MCCaseLifecycle --------------------------
(* Instances of CaseLifecycle for TLC. *)
EXTENDS CaseLifecycle, TLC

CONSTANTS olga, sam, ana

(* Nothing tells the accounts other than the creator apart. *)
Interchangeable == Permutations({sam, ana})
=============================================================================
