------------------------- MODULE MCAuthorityGrants -------------------------
(* Instances of AuthorityGrants for TLC. *)
EXTENDS AuthorityGrants, TLC

CONSTANT olga

(* olga controls every organization; the others begin outside.             *)
MCController == [o \in Orgs |-> olga]

Symmetry ==
  Permutations(GrantIds) \union Permutations(Products)
    \union Permutations(Users \ {olga})
=============================================================================
