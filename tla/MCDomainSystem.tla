--------------------------- MODULE MCDomainSystem ---------------------------
(* Instances of DomainSystem for TLC. *)
EXTENDS DomainSystem, TLC

CONSTANTS olga, sam, ana

(* Nothing tells the users apart. *)
Interchangeable == Permutations({olga, sam, ana})
=============================================================================
