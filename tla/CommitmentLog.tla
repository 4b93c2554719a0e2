---------------------------- MODULE CommitmentLog ----------------------------
(***************************************************************************)
(* What the contract promises to those who read its public state           *)
(* (contracts/information-flow.compact: "an immutable sequence position"   *)
(* for each action, and the latest commitment): a log that only grows, one *)
(* commitment at a time, and its last element.                             *)
(***************************************************************************)
EXTENDS Sequences

CONSTANTS
  Commitments,
  NoCommitment         \* the initial value of the latest commitment

VARIABLES log, latest

Init == log = <<>> /\ latest = NoCommitment

Register(commitment) ==
  /\ log' = Append(log, commitment)
  /\ latest' = commitment

Next == \E commitment \in Commitments : Register(commitment)

Spec == Init /\ [][Next]_<<log, latest>>
=============================================================================
