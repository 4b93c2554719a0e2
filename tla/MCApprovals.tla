---------------------------- MODULE MCApprovals ----------------------------
(* Instance of Approvals for TLC. *)
EXTENDS Approvals, TLC

(* Accounts, and the ids of each kind of request, are interchangeable. *)
Symmetry ==
  Permutations(Users) \union Permutations(Orgs) \union Permutations(OrgRequestIds)
    \union Permutations(MembershipRequestIds) \union Permutations(RoleRequestIds)
=============================================================================
