----------------------- MODULE FlowRegistration_proofs -----------------------
(***************************************************************************)
(* The registration of flows, for any number of registrations and calls:   *)
(* every entry of the ledger can be opened by somebody, and what the       *)
(* public reads is an append-only log.                                     *)
(***************************************************************************)
EXTENDS FlowRegistration, FiniteSetTheorems, TLAPS

USE MaxPreparedAssumption, MaxCallsAssumption, NoFlowAssumption,
    NoCommitmentAssumption

(* Somebody holds the flow and the nonce of the commitment. *)
Retained(commitment) ==
  \E i \in Registrations :
    /\ registration[i] # NoRegistration
    /\ commitment =
         CommitInformationFlow(registration[i].flow, registration[i].nonce)

(* A prepared registration holds what its commitment is made of. *)
RegistrationsAgree ==
  \A i \in Registrations : registration[i] # NoRegistration =>
    registration[i].commitment =
      CommitInformationFlow(registration[i].flow, registration[i].nonce)

(* Only commitments of prepared registrations are under way. *)
CallsAreRetained ==
  \A t \in Calls : call[t].status # "none" => Retained(call[t].commitment)

IInv ==
  /\ RegistrationTypeOK
  /\ RegistrationsAgree
  /\ CallsAreRetained
  /\ AnchoredIsProvable

(* A step that keeps the registrations forgets no commitment. *)
LEMMA StaysRetained ==
  ASSUME UNCHANGED registration, NEW commitment, Retained(commitment)
  PROVE  Retained(commitment)'
  BY DEF Retained

LEMMA RegistrationInitial == RegistrationInit => IInv
  <1> SUFFICES ASSUME RegistrationInit PROVE IInv
    OBVIOUS
  <1>1. RegistrationTypeOK
    BY DEF RegistrationInit, RegistrationTypeOK, NoCall, Statuses
  <1>2. RegistrationsAgree /\ CallsAreRetained
    BY DEF RegistrationInit, RegistrationsAgree, CallsAreRetained, NoCall
  <1>3. AnchoredIsProvable
    BY DEF RegistrationInit, AnchoredIsProvable
  <1> QED BY <1>1, <1>2, <1>3 DEF IInv

LEMMA FillNonceKeeps ==
  ASSUME IInv, NEW nonce \in Nonces, FillNonce(nonce)
  PROVE  IInv'
  BY DEF IInv, FillNonce, ledger, RegistrationTypeOK, RegistrationsAgree,
         CallsAreRetained, Retained, AnchoredIsProvable

LEMMA PrepareKeeps ==
  ASSUME IInv, NEW i \in Registrations, NEW flow \in Flows, Prepare(i, flow)
  PROVE  IInv'
  <1> USE DEF IInv
  <1>0. /\ UNCHANGED <<nonceBytes, call, flowCommitment, flowCommitments, flowCount>>
        /\ registration[i] = NoRegistration
        /\ nonceBytes \in Nonces
        /\ registration \in
             [Registrations -> [flow : Flows, commitment : Commitments, nonce : Nonces]
                               \union {NoRegistration}]
    BY DEF Prepare, ledger, RegistrationTypeOK
  <1> DEFINE new == [flow |-> flow,
                     commitment |-> CommitInformationFlow(flow, nonceBytes),
                     nonce |-> nonceBytes]
  <1>1. registration' = [registration EXCEPT ![i] = new]
    BY DEF Prepare
  <1>2. CommitInformationFlow(flow, nonceBytes) \in Commitments
    BY <1>0 DEF CommitInformationFlow, Commitments
  <1>3. new \in [flow : Flows, commitment : Commitments, nonce : Nonces]
    BY <1>0, <1>2
  <1>4. registration' \in
          [Registrations -> [flow : Flows, commitment : Commitments, nonce : Nonces]
                            \union {NoRegistration}]
    BY <1>0, <1>1, <1>3
  <1>5. RegistrationTypeOK'
    BY <1>0, <1>4 DEF RegistrationTypeOK
  <1>6. RegistrationsAgree'
    <2> SUFFICES ASSUME NEW j \in Registrations, registration'[j] # NoRegistration
                 PROVE  registration'[j].commitment =
                          CommitInformationFlow(registration'[j].flow,
                                                registration'[j].nonce)
      BY DEF RegistrationsAgree
    <2>1. CASE j = i
      BY <2>1, <1>0, <1>1
    <2>2. CASE j # i
      BY <2>2, <1>0, <1>1 DEF RegistrationsAgree
    <2> QED BY <2>1, <2>2
  <1>7. ASSUME NEW commitment, Retained(commitment)
        PROVE  Retained(commitment)'
    <2>1. PICK j \in Registrations :
            /\ registration[j] # NoRegistration
            /\ commitment =
                 CommitInformationFlow(registration[j].flow, registration[j].nonce)
      BY <1>7 DEF Retained
    <2>2. registration'[j] = registration[j]
      BY <2>1, <1>0, <1>1
    <2> QED BY <2>1, <2>2 DEF Retained
  <1>8. CallsAreRetained'
    BY <1>0, <1>7 DEF CallsAreRetained
  <1>9. AnchoredIsProvable'
    BY <1>0, <1>7 DEF AnchoredIsProvable, Retained
  <1> QED BY <1>5, <1>6, <1>8, <1>9

LEMMA SendKeeps ==
  ASSUME IInv, NEW t \in Calls, NEW i \in Registrations,
         registration[i] # NoRegistration, Send(t, registration[i].commitment)
  PROVE  IInv'
  <1> USE DEF IInv
  <1> DEFINE commitment == registration[i].commitment
  <1>0. /\ UNCHANGED <<nonceBytes, registration, flowCommitment, flowCommitments,
                       flowCount>>
        /\ call' = [call EXCEPT
             ![t] = [commitment |-> commitment, status |-> "sent"]]
    BY DEF Send, prepared, ledger
  <1>1. commitment \in Commitments /\ Retained(commitment)
    BY DEF RegistrationTypeOK, RegistrationsAgree, Retained
  <1>2. RegistrationTypeOK'
    BY <1>0, <1>1 DEF RegistrationTypeOK, Statuses
  <1>3. CallsAreRetained'
    <2> SUFFICES ASSUME NEW s \in Calls, call'[s].status # "none"
                 PROVE  Retained(call[s].commitment)'
      BY DEF CallsAreRetained
    <2>1. Retained(call'[s].commitment)
      BY <1>0, <1>1 DEF CallsAreRetained, RegistrationTypeOK
    <2> QED BY <2>1, <1>0 DEF Retained
  <1>4. RegistrationsAgree' /\ AnchoredIsProvable'
    BY <1>0 DEF RegistrationsAgree, AnchoredIsProvable
  <1> QED BY <1>2, <1>3, <1>4

(* A call that goes on carries its commitment along. *)
LEMMA BecomesKeeps ==
  ASSUME IInv, NEW t \in Calls, NEW from \in Statuses \ {"none"},
         NEW to \in Statuses, Becomes(t, from, to), UNCHANGED prepared
  PROVE  /\ call[t].commitment \in Commitments
         /\ Retained(call[t].commitment)
         /\ call' \in [Calls -> [commitment : Commitments \union {NoCommitment},
                                 status : Statuses]]
         /\ \A s \in Calls :
              call'[s].status = "none" \/ call'[s].commitment \in Commitments
         /\ CallsAreRetained'
  <1> USE DEF IInv, Becomes
  <1>0. /\ call \in [Calls -> [commitment : Commitments \union {NoCommitment},
                               status : Statuses]]
        /\ call' = [call EXCEPT ![t].status = to]
        /\ call[t].status # "none"
    BY DEF RegistrationTypeOK
  <1>1. call[t].commitment \in Commitments /\ Retained(call[t].commitment)
    BY <1>0 DEF RegistrationTypeOK, CallsAreRetained
  <1>2. \A s \in Calls : call'[s].commitment = call[s].commitment
    BY <1>0
  <1>3. \A s \in Calls : s # t => call'[s] = call[s]
    BY <1>0
  <1>4. call' \in [Calls -> [commitment : Commitments \union {NoCommitment},
                             status : Statuses]]
    BY <1>0
  <1>5. \A s \in Calls :
          call'[s].status = "none" \/ call'[s].commitment \in Commitments
    BY <1>1, <1>2, <1>3 DEF RegistrationTypeOK
  <1>6. CallsAreRetained'
    <2> SUFFICES ASSUME NEW s \in Calls, call'[s].status # "none"
                 PROVE  Retained(call[s].commitment)'
      BY DEF CallsAreRetained
    <2>1. Retained(call[s].commitment)
      BY <1>1, <1>3 DEF CallsAreRetained
    <2> QED BY <2>1, <1>2 DEF Retained, prepared
  <1> QED BY <1>1, <1>4, <1>5, <1>6

(* A call settles and the ledger stays. *)
LEMMA SettleKeeps ==
  ASSUME IInv, NEW t \in Calls, Answer(t) \/ Fail(t)
  PROVE  IInv'
  <1> USE DEF IInv
  <1>1. PICK from \in {"sent", "taken"}, to \in {"answered", "failed"} :
          Becomes(t, from, to)
    BY DEF Answer, Fail
  <1>2. UNCHANGED prepared /\ UNCHANGED ledger
    BY DEF Answer, Fail
  <1>3. /\ call' \in [Calls -> [commitment : Commitments \union {NoCommitment},
                                status : Statuses]]
        /\ \A s \in Calls :
             call'[s].status = "none" \/ call'[s].commitment \in Commitments
        /\ CallsAreRetained'
    <2>1. from \in Statuses \ {"none"} /\ to \in Statuses
      BY DEF Statuses
    <2> QED BY <1>1, <1>2, <2>1, BecomesKeeps
  <1>4. RegistrationTypeOK'
    BY <1>2, <1>3 DEF RegistrationTypeOK, prepared, ledger
  <1>5. RegistrationsAgree' /\ AnchoredIsProvable'
    BY <1>2 DEF RegistrationsAgree, AnchoredIsProvable, prepared, ledger
  <1> QED BY <1>3, <1>4, <1>5

(* What the circuit makes of the entries. *)
LEMMA RegisterFlowAppends ==
  ASSUME RegistrationTypeOK, NEW commitment \in Commitments,
         RegisterFlow(commitment)
  PROVE  /\ flowCount' = flowCount + 1
         /\ flowCommitments' \in [0..(flowCount' - 1) -> Commitments]
         /\ flowCommitments'[flowCount] = commitment
         /\ \A p \in 0..(flowCount - 1) : flowCommitments'[p] = flowCommitments[p]
  <1>1. /\ flowCount \in Nat
        /\ flowCommitments \in [0..(flowCount - 1) -> Commitments]
    BY DEF RegistrationTypeOK
  <1>2. DOMAIN flowCommitments \union {flowCount} = 0..((flowCount + 1) - 1)
    BY <1>1
  <1>3. flowCommitments' = [p \in 0..((flowCount + 1) - 1) |->
          IF p = flowCount THEN commitment ELSE flowCommitments[p]]
    BY <1>2 DEF RegisterFlow
  <1>4. flowCount' = flowCount + 1
    BY DEF RegisterFlow
  <1>5. ASSUME NEW p \in 0..((flowCount + 1) - 1), p # flowCount
        PROVE  flowCommitments[p] \in Commitments
    <2>1. p \in 0..(flowCount - 1)
      BY <1>1, <1>5
    <2> QED BY <1>1, <2>1
  <1>6. flowCommitments' \in [0..(flowCount' - 1) -> Commitments]
    BY <1>3, <1>4, <1>5
  <1>7. flowCommitments'[flowCount] = commitment
    BY <1>1, <1>3
  <1>8. \A p \in 0..(flowCount - 1) : flowCommitments'[p] = flowCommitments[p]
    BY <1>1, <1>3
  <1> QED BY <1>4, <1>6, <1>7, <1>8

LEMMA TakeKeeps ==
  ASSUME IInv, NEW t \in Calls, Take(t)
  PROVE  IInv'
  <1> USE DEF IInv
  <1> DEFINE commitment == call[t].commitment
  <1>1. /\ commitment \in Commitments /\ Retained(commitment)
        /\ call' \in [Calls -> [commitment : Commitments \union {NoCommitment},
                                status : Statuses]]
        /\ \A s \in Calls :
             call'[s].status = "none" \/ call'[s].commitment \in Commitments
        /\ CallsAreRetained'
    <2>1. "sent" \in Statuses \ {"none"} /\ "taken" \in Statuses
      BY DEF Statuses
    <2> QED BY <2>1, BecomesKeeps DEF Take
  <1>2. UNCHANGED <<nonceBytes, registration>>
    BY DEF Take, prepared
  <1>3. /\ flowCount \in Nat /\ flowCount' = flowCount + 1
        /\ flowCommitments' \in [0..(flowCount' - 1) -> Commitments]
        /\ flowCommitments'[flowCount] = commitment
        /\ \A p \in 0..(flowCount - 1) : flowCommitments'[p] = flowCommitments[p]
    BY <1>1, RegisterFlowAppends DEF Take, RegistrationTypeOK
  <1>4. flowCommitment' = commitment
    BY DEF Take, RegisterFlow
  <1>5. RegistrationTypeOK'
    BY <1>1, <1>2, <1>3, <1>4 DEF RegistrationTypeOK
  <1>6. AnchoredIsProvable'
    <2> SUFFICES ASSUME NEW p \in 0..flowCount
                 PROVE  Retained(flowCommitments[p])'
      BY <1>3 DEF AnchoredIsProvable, Retained
    <2>1. Retained(flowCommitments'[p])
      <3>1. CASE p = flowCount
        BY <3>1, <1>1, <1>3
      <3>2. CASE p # flowCount
        <4>1. p \in 0..(flowCount - 1) /\ p \in DOMAIN flowCommitments
          BY <3>2, <1>3 DEF RegistrationTypeOK
        <4>2. flowCommitments'[p] = flowCommitments[p]
          BY <4>1, <1>3
        <4>3. Retained(flowCommitments[p])
          BY <4>1 DEF AnchoredIsProvable, Retained
        <4> QED BY <4>2, <4>3
      <3> QED BY <3>1, <3>2
    <2> QED BY <2>1, <1>2 DEF Retained
  <1>7. RegistrationsAgree'
    BY <1>2 DEF RegistrationsAgree
  <1> QED BY <1>1, <1>5, <1>6, <1>7

LEMMA RegistrationKeeps ==
  IInv /\ [RegistrationNext]_registrationVars => IInv'
  <1> SUFFICES ASSUME IInv, [RegistrationNext]_registrationVars PROVE IInv'
    OBVIOUS
  <1>1. CASE \E nonce \in Nonces : FillNonce(nonce)
    BY <1>1, FillNonceKeeps
  <1>2. CASE \E i \in Registrations, flow \in Flows : Prepare(i, flow)
    BY <1>2, PrepareKeeps
  <1>3. CASE \E t \in Calls, i \in Registrations :
               /\ registration[i] # NoRegistration
               /\ Send(t, registration[i].commitment)
    BY <1>3, SendKeeps
  <1>4. CASE \E t \in Calls : Take(t)
    BY <1>4, TakeKeeps
  <1>5. CASE \E t \in Calls : Answer(t) \/ Fail(t)
    BY <1>5, SettleKeeps
  <1>6. CASE UNCHANGED registrationVars
    BY <1>6 DEF registrationVars, prepared, ledger, IInv, RegistrationTypeOK,
                RegistrationsAgree, CallsAreRetained, Retained, AnchoredIsProvable
  <1> QED BY <1>1, <1>2, <1>3, <1>4, <1>5, <1>6 DEF RegistrationNext

(* Every commitment in the ledger can be opened: the flow and the nonce    *)
(* that it commits to are still held by somebody, however often calls were *)
(* repeated and the caller's array was filled again                        *)
(* (prepareInformationFlowRegistration, registerInformationFlow).          *)
THEOREM RegistrationsAreProvable ==
  RegistrationSpec => [](RegistrationTypeOK /\ AnchoredIsProvable)
  <1>1. IInv => RegistrationTypeOK /\ AnchoredIsProvable
    BY DEF IInv
  <1> QED BY RegistrationInitial, RegistrationKeeps, <1>1, PTL
          DEF RegistrationSpec

-----------------------------------------------------------------------------
LEMMA LogIsASequence ==
  ASSUME RegistrationTypeOK
  PROVE  Log \in Seq(Commitments) /\ Len(Log) = flowCount
  <1>1. /\ flowCount \in Nat
        /\ flowCommitments \in [0..(flowCount - 1) -> Commitments]
    BY DEF RegistrationTypeOK
  <1>2. ASSUME NEW p \in 1..flowCount PROVE flowCommitments[p - 1] \in Commitments
    BY <1>1
  <1> QED BY <1>1, <1>2 DEF Log

(* A step of the network appends one commitment to the log; no other step  *)
(* changes it.                                                             *)
LEMMA StepsAppend ==
  ASSUME IInv, [RegistrationNext]_registrationVars
  PROVE  [CL!Next]_<<Log, flowCommitment>>
  <1>0. RegistrationTypeOK
    BY DEF IInv
  <1>1. CASE \E t \in Calls : Take(t)
    <2>1. PICK t \in Calls : Take(t)
      BY <1>1
    <2> DEFINE commitment == call[t].commitment
    <2>2. commitment \in Commitments
      BY <2>1, <1>0 DEF Take, Becomes, RegistrationTypeOK
    <2>3. /\ flowCount' = flowCount + 1
          /\ flowCommitments'[flowCount] = commitment
          /\ \A p \in 0..(flowCount - 1) : flowCommitments'[p] = flowCommitments[p]
      BY <2>1, <2>2, <1>0, RegisterFlowAppends DEF Take
    <2>4. flowCount \in Nat
      BY <1>0 DEF RegistrationTypeOK
    <2>5. Log' = [p \in 1..(flowCount + 1) |-> flowCommitments'[p - 1]]
      BY <2>3 DEF Log
    <2>6. Log' = Append(Log, commitment)
      <3>1. Log \in Seq(Commitments) /\ Len(Log) = flowCount
        BY <1>0, LogIsASequence
      <3>2. Append(Log, commitment) =
              [p \in 1..(flowCount + 1) |->
                 IF p = flowCount + 1 THEN commitment ELSE Log[p]]
        BY <3>1, <2>2, <2>4
      <3>3. ASSUME NEW p \in 1..(flowCount + 1)
            PROVE  flowCommitments'[p - 1] =
                     IF p = flowCount + 1 THEN commitment ELSE Log[p]
        <4>1. CASE p = flowCount + 1
          BY <4>1, <2>3, <2>4
        <4>2. CASE p # flowCount + 1
          <5>1. p \in 1..flowCount /\ p - 1 \in 0..(flowCount - 1)
            BY <4>2, <2>4
          <5> QED BY <5>1, <4>2, <2>3 DEF Log
        <4> QED BY <4>1, <4>2
      <3> QED BY <2>5, <3>2, <3>3
    <2>7. flowCommitment' = commitment
      BY <2>1 DEF Take, RegisterFlow
    <2> QED BY <2>2, <2>6, <2>7 DEF CL!Next, CL!Register
  <1>2. CASE UNCHANGED ledger
    BY <1>2 DEF ledger, Log
  <1>3. CASE RegistrationNext /\ ~(\E t \in Calls : Take(t))
    <2>1. UNCHANGED ledger
      BY <1>3 DEF RegistrationNext, FillNonce, Prepare, Send, Answer, Fail
    <2> QED BY <2>1, <1>2
  <1> QED BY <1>1, <1>2, <1>3 DEF registrationVars

(* The ledger is the abstract log of CommitmentLog: whatever the callers   *)
(* and the network do, a reader sees a log to which commitments are only   *)
(* appended, each at the position after the last, and the latest one       *)
(* (contracts/information-flow.compact).                                   *)
THEOREM LedgerImplementsLog == RegistrationSpec => ImplementsLog
  <1>1. RegistrationInit => CL!Init
    BY DEF RegistrationInit, CL!Init, Log
  <1>2. IInv /\ [RegistrationNext]_registrationVars =>
          [CL!Next]_<<Log, flowCommitment>>
    BY StepsAppend
  <1> QED BY <1>1, <1>2, RegistrationInitial, RegistrationKeeps, PTL
          DEF RegistrationSpec, ImplementsLog, CL!Spec

-----------------------------------------------------------------------------
(* Counting calls and entries.  Both are intervals of numbers, so that     *)
(* every set of them is finite.                                            *)
LEMMA Countable ==
  ASSUME RegistrationTypeOK, NEW commitment, NEW statuses
  PROVE  /\ IsFiniteSet(CallsOf(commitment, statuses))
         /\ IsFiniteSet(PositionsOf(commitment))
         /\ Cardinality(CallsOf(commitment, statuses)) \in Nat
         /\ Cardinality(PositionsOf(commitment)) \in Nat
  <1>1. IsFiniteSet(Calls) /\ IsFiniteSet(DOMAIN flowCommitments)
    BY FS_Interval DEF RegistrationTypeOK, Calls
  <1>2. CallsOf(commitment, statuses) \in SUBSET Calls
    BY DEF CallsOf
  <1>3. PositionsOf(commitment) \in SUBSET DOMAIN flowCommitments
    BY DEF PositionsOf
  <1>4. IsFiniteSet(CallsOf(commitment, statuses))
    BY <1>1, <1>2, FS_Subset
  <1>5. IsFiniteSet(PositionsOf(commitment))
    BY <1>1, <1>3, FS_Subset
  <1> QED BY <1>4, <1>5, FS_CardinalityType

(* What ReceiptsAreAnchored says of one commitment, with names for the     *)
(* statuses of the calls that were taken, and that may have been.          *)
KnownTaken == {"taken", "answered"}
MaybeTaken == {"taken", "answered", "failed"}

Anchored(commitment) ==
  /\ Cardinality(CallsOf(commitment, KnownTaken))
       <= Cardinality(PositionsOf(commitment))
  /\ Cardinality(PositionsOf(commitment))
       <= Cardinality(CallsOf(commitment, MaybeTaken))

(* When a call is taken, it and an entry of the ledger are counted for its *)
(* commitment, and nothing for any other.                                  *)
LEMMA TakeCounts ==
  ASSUME IInv, NEW t \in Calls, Take(t), NEW commitment \in Commitments,
         Anchored(commitment)
  PROVE  Anchored(commitment)'
  <1>1. /\ call[t].status = "sent" /\ call[t].commitment \in Commitments
        /\ call' = [call EXCEPT ![t].status = "taken"]
        /\ call \in [Calls -> [commitment : Commitments \union {NoCommitment},
                               status : Statuses]]
    BY DEF Take, Becomes, IInv, RegistrationTypeOK
  <1>2. /\ flowCount \in Nat
        /\ flowCommitments \in [0..(flowCount - 1) -> Commitments]
        /\ flowCount' = flowCount + 1
        /\ flowCommitments' \in [0..((flowCount + 1) - 1) -> Commitments]
        /\ flowCommitments'[flowCount] = call[t].commitment
        /\ \A p \in 0..(flowCount - 1) : flowCommitments'[p] = flowCommitments[p]
    BY <1>1, RegisterFlowAppends DEF Take, IInv, RegistrationTypeOK
  <1>3. DOMAIN flowCommitments' = DOMAIN flowCommitments \union {flowCount}
        /\ flowCount \notin DOMAIN flowCommitments
    BY <1>2
  <1>4. CASE commitment = call[t].commitment
    <2>1. /\ CallsOf(commitment, KnownTaken)' = CallsOf(commitment, KnownTaken) \union {t}
          /\ CallsOf(commitment, MaybeTaken)' = CallsOf(commitment, MaybeTaken) \union {t}
          /\ t \notin CallsOf(commitment, KnownTaken)
          /\ t \notin CallsOf(commitment, MaybeTaken)
      BY <1>1, <1>4 DEF CallsOf, KnownTaken, MaybeTaken
    <2>2. /\ PositionsOf(commitment)' = PositionsOf(commitment) \union {flowCount}
          /\ flowCount \notin PositionsOf(commitment)
      BY <1>2, <1>3, <1>4 DEF PositionsOf
    <2>3. /\ Cardinality(CallsOf(commitment, KnownTaken)')
               = Cardinality(CallsOf(commitment, KnownTaken)) + 1
          /\ Cardinality(CallsOf(commitment, MaybeTaken)')
               = Cardinality(CallsOf(commitment, MaybeTaken)) + 1
          /\ Cardinality(PositionsOf(commitment)')
               = Cardinality(PositionsOf(commitment)) + 1
      BY <2>1, <2>2, Countable, FS_AddElement DEF IInv
    <2> QED BY <2>3, Countable DEF Anchored, IInv
  <1>5. CASE commitment # call[t].commitment
    <2>1. /\ CallsOf(commitment, KnownTaken)' = CallsOf(commitment, KnownTaken)
          /\ CallsOf(commitment, MaybeTaken)' = CallsOf(commitment, MaybeTaken)
      BY <1>1, <1>5 DEF CallsOf
    <2>2. PositionsOf(commitment)' = PositionsOf(commitment)
      BY <1>2, <1>3, <1>5 DEF PositionsOf
    <2> QED BY <2>1, <2>2 DEF Anchored
  <1> QED BY <1>4, <1>5

(* A call that settles, or fails, stays counted on the side of the calls   *)
(* that may have been taken, and is no receipt if it fails.                *)
LEMMA SettleCounts ==
  ASSUME IInv, NEW t \in Calls, Answer(t) \/ Fail(t),
         NEW commitment \in Commitments, Anchored(commitment)
  PROVE  Anchored(commitment)'
  <1>1. PICK from \in {"sent", "taken"}, to \in {"answered", "failed"} :
          Becomes(t, from, to) /\ (to = "answered" => from = "taken")
    BY DEF Answer, Fail
  <1>2. UNCHANGED flowCommitments
    BY DEF Answer, Fail, ledger
  <1>3. /\ call[t].status = from
        /\ call' = [call EXCEPT ![t].status = to]
        /\ call \in [Calls -> [commitment : Commitments \union {NoCommitment},
                               status : Statuses]]
    BY <1>1 DEF Becomes, IInv, RegistrationTypeOK
  <1>4. CallsOf(commitment, KnownTaken)' \in SUBSET CallsOf(commitment, KnownTaken)
    BY <1>1, <1>3 DEF CallsOf, KnownTaken
  <1>5. CallsOf(commitment, MaybeTaken) \in SUBSET CallsOf(commitment, MaybeTaken)'
    BY <1>1, <1>3 DEF CallsOf, MaybeTaken
  <1>6. /\ CallsOf(commitment, MaybeTaken)' \in SUBSET Calls
        /\ CallsOf(commitment, KnownTaken)' \in SUBSET Calls
    BY DEF CallsOf
  <1>7. PositionsOf(commitment)' = PositionsOf(commitment)
    BY <1>2 DEF PositionsOf
  <1>8. IsFiniteSet(CallsOf(commitment, MaybeTaken)')
        /\ Cardinality(CallsOf(commitment, MaybeTaken)') \in Nat
        /\ Cardinality(CallsOf(commitment, KnownTaken)') \in Nat
    <2>1. IsFiniteSet(Calls)
      BY FS_Interval DEF Calls
    <2>2. IsFiniteSet(CallsOf(commitment, MaybeTaken)')
          /\ IsFiniteSet(CallsOf(commitment, KnownTaken)')
      BY <1>6, <2>1, FS_Subset
    <2> QED BY <2>2, FS_CardinalityType
  <1>9. /\ Cardinality(CallsOf(commitment, KnownTaken)')
             <= Cardinality(CallsOf(commitment, KnownTaken))
        /\ Cardinality(CallsOf(commitment, MaybeTaken))
             <= Cardinality(CallsOf(commitment, MaybeTaken)')
    BY <1>4, <1>5, <1>8, Countable, FS_Subset DEF IInv
  <1> QED BY <1>7, <1>8, <1>9, Countable DEF Anchored, IInv

(* A call that is sent counts for nothing yet. *)
LEMMA SendCounts ==
  ASSUME IInv, NEW t \in Calls, NEW sent, Send(t, sent),
         NEW commitment \in Commitments, Anchored(commitment)
  PROVE  Anchored(commitment)'
  <1>1. /\ call[t].status = "none" /\ call'[t].status = "sent"
        /\ \A s \in Calls \ {t} : call'[s] = call[s]
        /\ UNCHANGED flowCommitments
    BY DEF Send, NoCall, ledger, IInv, RegistrationTypeOK
  <1>2. /\ CallsOf(commitment, KnownTaken)' = CallsOf(commitment, KnownTaken)
        /\ CallsOf(commitment, MaybeTaken)' = CallsOf(commitment, MaybeTaken)
        /\ PositionsOf(commitment)' = PositionsOf(commitment)
    BY <1>1 DEF CallsOf, PositionsOf, KnownTaken, MaybeTaken
  <1> QED BY <1>2 DEF Anchored

LEMMA ReceiptsInitial == RegistrationInit => ReceiptsAreAnchored
  <1> SUFFICES ASSUME RegistrationInit, NEW commitment \in Commitments
               PROVE  Anchored(commitment)
    BY DEF ReceiptsAreAnchored, Anchored, KnownTaken, MaybeTaken
  <1>1. /\ CallsOf(commitment, KnownTaken) = {} /\ CallsOf(commitment, MaybeTaken) = {}
        /\ PositionsOf(commitment) = {}
    BY DEF RegistrationInit, CallsOf, PositionsOf, NoCall, KnownTaken, MaybeTaken
  <1> QED BY <1>1, FS_EmptySet DEF Anchored

(* A step that leaves calls and ledger alone. *)
LEMMA ReceiptsKept ==
  ASSUME ReceiptsAreAnchored, UNCHANGED <<call, flowCommitments>>
  PROVE  ReceiptsAreAnchored'
  BY DEF ReceiptsAreAnchored, CallsOf, PositionsOf

LEMMA ReceiptsStep ==
  ASSUME IInv, ReceiptsAreAnchored, [RegistrationNext]_registrationVars
  PROVE  ReceiptsAreAnchored'
  <1>1. \A commitment \in Commitments : Anchored(commitment)
    BY DEF ReceiptsAreAnchored, Anchored, KnownTaken, MaybeTaken
  <1>2. ASSUME \A commitment \in Commitments : Anchored(commitment)'
        PROVE  ReceiptsAreAnchored'
    BY <1>2 DEF ReceiptsAreAnchored, Anchored, KnownTaken, MaybeTaken
  <1>3. CASE \E t \in Calls : Take(t)
    BY <1>1, <1>2, <1>3, TakeCounts
  <1>4. CASE \E t \in Calls : Answer(t) \/ Fail(t)
    BY <1>1, <1>2, <1>4, SettleCounts
  <1>5. CASE \E t \in Calls : \E i \in Registrations :
               Send(t, registration[i].commitment)
    BY <1>1, <1>2, <1>5, SendCounts
  <1>6. CASE UNCHANGED <<call, flowCommitments>>
    BY <1>6, ReceiptsKept
  <1> QED BY <1>3, <1>4, <1>5, <1>6
          DEF RegistrationNext, FillNonce, Prepare, registrationVars, ledger

(* Every receipt stands for an entry of its own in the ledger, and every   *)
(* entry for a call that was sent, for any number of calls, repeated, lost *)
(* or made at once (registerInformationFlow).                              *)
THEOREM ReceiptsStandForEntries == RegistrationSpec => []ReceiptsAreAnchored
  <1>1. IInv /\ ReceiptsAreAnchored /\ [RegistrationNext]_registrationVars =>
          (IInv /\ ReceiptsAreAnchored)'
    BY ReceiptsStep, RegistrationKeeps
  <1> QED BY <1>1, RegistrationInitial, ReceiptsInitial, PTL
          DEF RegistrationSpec
=============================================================================
