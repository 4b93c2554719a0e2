------------------------- MODULE MCAccountSessions -------------------------
(* Instances of AccountSessions for TLC. *)
EXTENDS AccountSessions, TLC

CONSTANTS root, chief, ana, p1, p2, boss, plain

Admin(name, password, display) ==
  [name |-> name, password |-> password, display |-> display]

(* The administrator gets a new name, password or display name.            *)
Renamed == {Admin(root, p1, boss), Admin(chief, p1, boss),
            Admin(root, p2, boss), Admin(root, p1, plain)}

(* Nothing is ever reconfigured. *)
Fixed == {Admin(root, p1, boss)}

Symmetry == Permutations(Users) \union Permutations(Tokens)
=============================================================================
