---------------------- MODULE InformationFlowAggregate ----------------------
(***************************************************************************)
(* The relationships that src/information-flow.ts demands of a private     *)
(* information flow before it commits to it.  Ids that the code keeps in   *)
(* lists without duplicates are sets here, and a claim is known by its     *)
(* issuer; digests, values and the serialization are left out.             *)
(***************************************************************************)

CONSTANT Public        \* the recipient of a public view

(* #makeFlow: every claim is visible in the flows the system makes. *)
MakeFlow(actors, sender, issuerOf, recipient) ==
  [actors |-> actors, sender |-> sender, issuerOf |-> issuerOf,
   recipient |-> recipient, visible |-> DOMAIN issuerOf]

(* canonicalInformationFlow does not throw. *)
ValidFlow(flow) ==
  /\ flow.sender \in flow.actors
  /\ \A claim \in DOMAIN flow.issuerOf : flow.issuerOf[claim] \in flow.actors
  /\ flow.recipient \in flow.actors \union {Public}
  /\ flow.visible \subseteq DOMAIN flow.issuerOf
=============================================================================
