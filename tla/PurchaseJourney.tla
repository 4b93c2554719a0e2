--------------------------- MODULE PurchaseJourney ---------------------------
(***************************************************************************)
(* What the platform promises about one purchase, whatever happens to the  *)
(* others: the buyer reviews it at most once, asks for a replacement at    *)
(* most once, has it decided by the seller at most once, and may have a    *)
(* rejection, and nothing else, looked at by one regulator.  All of it is  *)
(* forgotten when the server stops.                                        *)
(***************************************************************************)
CONSTANTS Users, Regulators, PurchaseIds, NoUser

VARIABLE journey       \* by purchase id

NotBought ==
  [buyer |-> NoUser, seller |-> NoUser, reviewed |-> FALSE,
   support |-> "none", regulator |-> NoUser, verified |-> FALSE]

Bought(b, s) == [NotBought EXCEPT !.buyer = b, !.seller = s]

Init == journey = [n \in PurchaseIds |-> NotBought]

(* How the journey of one purchase goes on, from "old" to "new". *)
Buy(old, new) ==
  /\ old = NotBought
  /\ \E b, s \in Users : b # s /\ new = Bought(b, s)

Review(old, new) ==
  /\ old # NotBought /\ ~old.reviewed
  /\ new = [old EXCEPT !.reviewed = TRUE]

AskForReplacement(old, new) ==
  /\ old # NotBought /\ old.support = "none"
  /\ new = [old EXCEPT !.support = "pending"]

Decide(old, new) ==
  /\ old.support = "pending"
  /\ \E outcome \in {"approved", "rejected"} :
       new = [old EXCEPT !.support = outcome]

Escalate(old, new) ==
  /\ old.support = "rejected" /\ old.regulator = NoUser
  /\ \E r \in Regulators \ {old.buyer} : new = [old EXCEPT !.regulator = r]

Verify(old, new) ==
  /\ old.regulator # NoUser /\ ~old.verified
  /\ new = [old EXCEPT !.verified = TRUE]

GoesOn(old, new) ==
  \/ Buy(old, new) \/ Review(old, new) \/ AskForReplacement(old, new)
  \/ Decide(old, new) \/ Escalate(old, new) \/ Verify(old, new)

Forget == journey' = [n \in PurchaseIds |-> NotBought]

Next ==
  \/ \E n \in PurchaseIds :
       /\ GoesOn(journey[n], journey'[n])
       /\ journey' = [journey EXCEPT ![n] = journey'[n]]
  \/ Forget

Spec == Init /\ [][Next]_journey
=============================================================================
