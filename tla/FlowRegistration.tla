--------------------------- MODULE FlowRegistration ---------------------------
(***************************************************************************)
(* The registration of private flows (src/register-information-flow.ts):   *)
(* a registration is prepared before the network is used, so that a call   *)
(* that failed, or whose answer was lost, can be repeated with the same    *)
(* commitment; and the public ledger of the contract                       *)
(* (contracts/information-flow.compact) behind the anchor.                 *)
(*                                                                         *)
(* The network takes a transaction or drops it, in any order, and answers  *)
(* or not; a call whose transaction was taken can still fail.  Calls and   *)
(* their answers may interleave with each other: registerInformationFlow   *)
(* awaits once and keeps no state.                                         *)
(***************************************************************************)
EXTENDS Naturals, FiniteSets, Sequences

CONSTANTS
  Flows,               \* the private flows that are committed to
  Nonces,              \* 32 random bytes each
  MaxPrepared,         \* bound: registrations prepared
  MaxCalls,            \* bound: calls of registerFlow
  NoFlow,
  NoCommitment

ASSUME MaxPreparedAssumption == MaxPrepared \in Nat
ASSUME MaxCallsAssumption == MaxCalls \in Nat
ASSUME NoFlowAssumption == NoFlow \notin Flows
ASSUME NoCommitmentAssumption == NoCommitment \notin Flows \X Nonces

VARIABLES
  nonceBytes,          \* the array that the caller passes as a nonce
  registration,        \* PreparedInformationFlowRegistration, with its flow
  call,                \* calls of registerFlow: what became of each
  flowCommitment,      \* ledger: the latest commitment
  flowCommitments,     \* ledger: Map<Uint<64>, commitment>
  flowCount            \* ledger: the number of entries

prepared == <<nonceBytes, registration>>
ledger == <<flowCommitment, flowCommitments, flowCount>>
registrationVars == <<prepared, call, ledger>>

Registrations == 1..MaxPrepared
Calls == 1..MaxCalls

(* commitInformationFlow: SHA-256 of the canonical flow and the nonce, here *)
(* the pair of both.  Nothing else has that commitment.                     *)
CommitInformationFlow(flow, nonce) == <<flow, nonce>>
Commitments == Flows \X Nonces

NoRegistration ==
  [flow |-> NoFlow, commitment |-> NoCommitment, nonce |-> NoFlow]

(* What became of a call: "sent", then "taken" by the network (its answer  *)
(* is under way), then "answered"; it "failed" if the network dropped it   *)
(* or if its answer was lost.                                              *)
NoCall == [commitment |-> NoCommitment, status |-> "none"]
Statuses == {"none", "sent", "taken", "answered", "failed"}

RegistrationInit ==
  /\ nonceBytes \in Nonces
  /\ registration = [i \in Registrations |-> NoRegistration]
  /\ call = [t \in Calls |-> NoCall]
  /\ flowCommitment = NoCommitment
  /\ flowCommitments = [p \in {} |-> NoCommitment]
  /\ flowCount = 0

(* Variant: registrations keep the caller's array and change with it. *)
FillSharedNonce(nonce) ==
  /\ nonceBytes' = nonce
  /\ registration' = [i \in Registrations |->
       IF registration[i] = NoRegistration THEN NoRegistration
       ELSE [registration[i] EXCEPT !.nonce = nonce]]
  /\ UNCHANGED <<call, ledger>>

(* The caller fills its array with other bytes. *)
FillNonce(nonce) ==
  /\ nonceBytes' = nonce
  /\ UNCHANGED <<registration, call, ledger>>

(* prepareInformationFlowRegistration: the nonce is copied. *)
Prepare(i, flow) ==
  /\ registration[i] = NoRegistration
  /\ registration' = [registration EXCEPT
       ![i] = [flow |-> flow,
               commitment |-> CommitInformationFlow(flow, nonceBytes),
               nonce |-> nonceBytes]]
  /\ UNCHANGED <<nonceBytes, call, ledger>>

(* registerInformationFlow, up to its await; a transaction is a call. *)
Send(t, commitment) ==
  /\ call[t] = NoCall
  /\ call' = [call EXCEPT ![t] = [commitment |-> commitment, status |-> "sent"]]
  /\ UNCHANGED <<prepared, ledger>>

Becomes(t, from, to) ==
  /\ call[t].status = from
  /\ call' = [call EXCEPT ![t].status = to]

(* Variant: the counter stays, so that the next entry replaces this one. *)
RegisterFlowUncounted(commitment) ==
  /\ flowCommitment' = commitment
  /\ flowCommitments' = [p \in DOMAIN flowCommitments \union {flowCount} |->
       IF p = flowCount THEN commitment ELSE flowCommitments[p]]
  /\ UNCHANGED flowCount

(* The circuit registerFlow: the latest value, an entry, the counter. *)
RegisterFlow(commitment) ==
  /\ flowCommitment' = commitment
  /\ flowCommitments' = [p \in DOMAIN flowCommitments \union {flowCount} |->
       IF p = flowCount THEN commitment ELSE flowCommitments[p]]
  /\ flowCount' = flowCount + 1

Take(t) ==
  /\ Becomes(t, "sent", "taken")
  /\ RegisterFlow(call[t].commitment)
  /\ UNCHANGED prepared

(* Variant: the receipt is made without waiting for the network. *)
AnswerEarly(t) ==
  /\ Becomes(t, "sent", "answered")
  /\ UNCHANGED <<prepared, ledger>>

(* The answer arrives: the receipt names the transaction. *)
Answer(t) ==
  /\ Becomes(t, "taken", "answered")
  /\ UNCHANGED <<prepared, ledger>>

(* The transaction is dropped, or it is taken and the answer is lost: the  *)
(* call throws in both cases, and the caller cannot tell which it was.     *)
Fail(t) ==
  /\ \/ Becomes(t, "sent", "failed")
     \/ Becomes(t, "taken", "failed")
  /\ UNCHANGED <<prepared, ledger>>

(* The caller of registerInformationFlow may repeat a call that failed, or *)
(* make it twice at once.                                                  *)
RegistrationNext ==
  \/ \E nonce \in Nonces : FillNonce(nonce)
  \/ \E i \in Registrations, flow \in Flows : Prepare(i, flow)
  \/ \E t \in Calls :
       \/ \E i \in Registrations :
            /\ registration[i] # NoRegistration
            /\ Send(t, registration[i].commitment)
       \/ Take(t)
       \/ Answer(t)
       \/ Fail(t)

RegistrationSpec == RegistrationInit /\ [][RegistrationNext]_registrationVars

-----------------------------------------------------------------------------
RegistrationTypeOK ==
  /\ nonceBytes \in Nonces
  /\ registration \in
       [Registrations -> [flow : Flows, commitment : Commitments, nonce : Nonces]
                         \union {NoRegistration}]
  /\ call \in [Calls -> [commitment : Commitments \union {NoCommitment},
                         status : Statuses]]
  /\ \A t \in Calls : call[t].status = "none" \/ call[t].commitment \in Commitments
  /\ flowCommitment \in Commitments \union {NoCommitment}
  /\ flowCount \in Nat
  /\ flowCommitments \in [0..(flowCount - 1) -> Commitments]

(* The ledger as a log. *)
Log == [p \in 1..flowCount |-> flowCommitments[p - 1]]
CL == INSTANCE CommitmentLog WITH log <- Log, latest <- flowCommitment

(* What anybody reads in the ledger is an append-only log and its last     *)
(* element (the promise of contracts/information-flow.compact), whatever   *)
(* calls were repeated, dropped or made at the same time.                  *)
ImplementsLog == CL!Spec

(* Each commitment in the ledger is that of a flow and a nonce that        *)
(* somebody still holds, and can therefore be opened to the one it is      *)
(* disclosed to: retries reuse a commitment and a nonce that was kept, and *)
(* not the array that the caller may have filled again                     *)
(* (prepareInformationFlowRegistration).                                   *)
AnchoredIsProvable ==
  \A p \in DOMAIN flowCommitments : \E i \in Registrations :
    /\ registration[i] # NoRegistration
    /\ flowCommitments[p] =
         CommitInformationFlow(registration[i].flow, registration[i].nonce)

CallsOf(commitment, statuses) ==
  {t \in Calls : call[t].commitment = commitment /\ call[t].status \in statuses}

PositionsOf(commitment) ==
  {p \in DOMAIN flowCommitments : flowCommitments[p] = commitment}

(* A receipt stands for an entry of its own: a commitment is in the ledger *)
(* at least as often as a caller was told so, and at most as often as it   *)
(* was sent and not known to be under way (registerInformationFlow returns *)
(* after the answer of the anchor only).  The other direction does not     *)
(* hold: a call that failed may have been taken, so that a repeated call   *)
(* can anchor one commitment twice.                                        *)
ReceiptsAreAnchored ==
  \A commitment \in Commitments :
    /\ Cardinality(CallsOf(commitment, {"taken", "answered"}))
         <= Cardinality(PositionsOf(commitment))
    /\ Cardinality(PositionsOf(commitment))
         <= Cardinality(CallsOf(commitment, {"taken", "answered", "failed"}))
=============================================================================
