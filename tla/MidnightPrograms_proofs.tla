----------------------- MODULE MidnightPrograms_proofs -----------------------
(***************************************************************************)
(* The programs of the Midnight runtime: no wallet is left running, what   *)
(* they anchor can be opened, the ledger is a log, and the live test finds *)
(* the actions of the scenario in it, in their order.                      *)
(***************************************************************************)
EXTENDS MidnightPrograms, FlowRegistration_proofs

USE MaxNumberAssumption, Scenario, Bounds

Programs == {"live-test", "application"}

-----------------------------------------------------------------------------
(* The wallet.  A composition that is closing or closed has its flag set,  *)
(* so that nobody calls stop() again.                                      *)
BeforeStop == {"starting", "synchronizing", "ready", "open", "deploying",
               "connecting", "anchoring", "querying"}

WalletInv ==
  /\ program \in Programs
  /\ phase \in {"idle", "building"} => wallet = "none" /\ stopCalls = 0
  /\ phase \in BeforeStop => stopCalls = 0
  /\ phase \in {"cleaning", "stopping"} => stopCalls = 1
  /\ phase \in {"refused", "ended"} => stopCalls \in {0, 1}
  /\ phase \in {"refused", "ended"} /\ ~stopFailed => wallet \in {"none", "stopped"}
  /\ phase \in Phases
  /\ program = "application" /\ phase \in {"stopping", "ended"} => closed

LEMMA WalletInitial == Init => WalletInv
BY DEF Init, RuntimeInit, WalletInv, Programs, BeforeStop, Phases

LEMMA WalletStepsKeep ==
  ASSUME WalletInv, WalletSteps, UNCHANGED program
  PROVE  WalletInv'
<1> USE DEF WalletInv, BeforeStop, Phases, Goes, CallStop
<1>1. CASE Create
  BY <1>1 DEF Create
<1>2. CASE Refuse
  BY <1>2 DEF Refuse
<1>3. CASE Build
  BY <1>3 DEF Build
<1>4. CASE Start
  BY <1>4 DEF Start
<1>5. CASE Synchronize
  BY <1>5 DEF Synchronize
<1>6. CASE InitializationFails
  BY <1>6 DEF InitializationFails
<1>7. CASE CleanedUp
  BY <1>7 DEF CleanedUp
<1>8. CASE Stopped
  BY <1>8 DEF Stopped
<1> QED
  BY <1>1, <1>2, <1>3, <1>4, <1>5, <1>6, <1>7, <1>8 DEF WalletSteps

LEMMA WalletKept ==
  ASSUME WalletInv, UNCHANGED <<program, runtimeVars>>
  PROVE  WalletInv'
BY DEF WalletInv, runtimeVars

LEMMA WalletStep ==
  ASSUME WalletInv, [Next]_programVars
  PROVE  WalletInv'
<1>1. CASE AdvanceScenario /\ UNCHANGED program
  BY <1>1, WalletKept DEF AdvanceScenario
<1>2. CASE LiveTest /\ UNCHANGED program
  <2> USE DEF WalletInv, BeforeStop, Phases, Goes, CallStop
  <2>1. CASE (\E nonce \in Nonces : ReadCommitments(nonce)) \/ AnchorNext
    BY <1>2, <2>1, WalletKept DEF ReadCommitments, AnchorNext
  <2>2. CASE WalletSteps
    BY <1>2, <2>2, WalletStepsKeep
  <2>3. CASE \/ TestGoes("ready", "deploying")
             \/ TestGoes("deploying", "connecting")
             \/ TestGoes("connecting", "anchoring")
             \/ TestGoes("anchoring", "querying")
    BY <1>2, <2>3 DEF TestGoes, LiveTest
  <2>4. CASE \/ Finally({"ready", "deploying", "connecting", "querying"})
             \/ Finally({"anchoring"}) \/ Finally({"querying"})
    BY <1>2, <2>4 DEF Finally, LiveTest
  <2> QED
    BY <1>2, <2>1, <2>2, <2>3, <2>4 DEF LiveTest, QueryLedger, TestThrows
<1>3. CASE Application /\ UNCHANGED program
  <2> USE DEF WalletInv, BeforeStop, Phases, Goes, CallStop
  <2>1. CASE UNCHANGED runtimeVars
    BY <1>3, <2>1, WalletKept
  <2>2. CASE WalletSteps
    BY <1>3, <2>2, WalletStepsKeep
  <2>3. CASE Assemble
    BY <1>3, <2>3 DEF Assemble, Application
  <2>4. CASE Close
    BY <1>3, <2>4 DEF Close, Application
  <2> QED
    BY <1>3, <2>1, <2>2, <2>3, <2>4 DEF Application
<1>4. CASE (Network \/ Ended \/ UNCHANGED programVars) /\ UNCHANGED program
  BY <1>4, WalletKept DEF Network, Ended, programVars
<1> QED
  BY <1>1, <1>2, <1>3, <1>4 DEF Next, programVars

(* No wallet is left running by any way out of either program, unless the  *)
(* wallet itself failed to stop, and none is stopped twice                 *)
(* (createLocalMidnightWallet, createInformationFlowComposition, close,    *)
(* the finally block of the live test).                                    *)
THEOREM WalletsAreStopped == Spec => []NoWalletIsLeftRunning
<1>1. WalletInv => NoWalletIsLeftRunning
  BY DEF WalletInv, NoWalletIsLeftRunning, BeforeStop, Phases
<1>2. WalletInv /\ [Next]_programVars => WalletInv'
  BY WalletStep
<1> QED
  BY <1>1, <1>2, WalletInitial, PTL DEF Spec

-----------------------------------------------------------------------------
(* The scenario: what it has recorded by each stage. *)
Written == IF stage <= 3 THEN 0
           ELSE IF stage <= 5 THEN 1
           ELSE IF stage = 6 THEN 2
           ELSE IF stage = 7 THEN 3 ELSE 4

ScenarioInv ==
  /\ stage \in 0..9
  /\ recorded \in Seq(ActionIds) /\ Len(recorded) = Written

LEMMA ScenarioInitial == Init => ScenarioInv
BY DEF Init, ScenarioInit, ScenarioInv, Written

LEMMA FirstIds ==
  {ReviewId(1), CaseId(1), DecisionId(1), BridgeId(1)} \subseteq ActionIds
BY DEF ReviewId, CaseId, DecisionId, BridgeId, ActionIds, Numbers

LEMMA RecordedOne ==
  ASSUME recorded \in Seq(ActionIds), NEW id \in ActionIds, Recorded(id)
  PROVE  recorded' \in Seq(ActionIds) /\ Len(recorded') = Len(recorded) + 1
BY DEF Recorded

LEMMA ScenarioKept ==
  ASSUME ScenarioInv, UNCHANGED scenarioVars
  PROVE  ScenarioInv'
BY DEF ScenarioInv, scenarioVars, Written

LEMMA AdvanceKeeps ==
  ASSUME ScenarioInv, Advance
  PROVE  ScenarioInv' /\ ~ScenarioIsComplete
<1>1. CASE RegisterActors \/ RegisterAcmeAndH1 \/ IssuePurchase \/ ReadReview
           \/ VerifyRegulatoryEvidence
  BY <1>1 DEF ScenarioInv, Written, Step, RegisterActors, RegisterAcmeAndH1,
              IssuePurchase, ReadReview, VerifyRegulatoryEvidence,
              ScenarioIsComplete
<1>2. CASE PublishReview
  <2>1. recorded' \in Seq(ActionIds) /\ Len(recorded') = Len(recorded) + 1
    BY <1>2, FirstIds, RecordedOne DEF PublishReview, ScenarioInv
  <2> QED
    BY <1>2, <2>1 DEF PublishReview, Step, ScenarioInv, Written,
                      ScenarioIsComplete
<1>3. CASE RequestSupport
  <2>1. recorded' \in Seq(ActionIds) /\ Len(recorded') = Len(recorded) + 1
    BY <1>3, FirstIds, RecordedOne DEF RequestSupport, ScenarioInv
  <2> QED
    BY <1>3, <2>1 DEF RequestSupport, Step, ScenarioInv, Written,
                      ScenarioIsComplete
<1>4. CASE RecordDecision
  <2>1. recorded' \in Seq(ActionIds) /\ Len(recorded') = Len(recorded) + 1
    BY <1>4, FirstIds, RecordedOne DEF RecordDecision, ScenarioInv
  <2> QED
    BY <1>4, <2>1 DEF RecordDecision, Step, ScenarioInv, Written,
                      ScenarioIsComplete
<1>5. CASE AuthorizeRegulatoryBridge
  <2>1. recorded' \in Seq(ActionIds) /\ Len(recorded') = Len(recorded) + 1
    BY <1>5, FirstIds, RecordedOne DEF AuthorizeRegulatoryBridge, ScenarioInv
  <2> QED
    BY <1>5, <2>1 DEF AuthorizeRegulatoryBridge, Step, ScenarioInv, Written,
                      ScenarioIsComplete
<1> QED
  BY <1>1, <1>2, <1>3, <1>4, <1>5 DEF Advance

LEMMA ScenarioStep ==
  ASSUME ScenarioInv, [Next]_programVars
  PROVE  ScenarioInv'
<1>1. Advance \/ UNCHANGED scenarioVars
  BY DEF Next, AdvanceScenario, LiveTest, ReadCommitments, AnchorNext,
         Application, Network, Ended, programVars
<1> QED
  BY <1>1, AdvanceKeeps, ScenarioKept

-----------------------------------------------------------------------------
(* The registrations.  A step of a program is one of FlowRegistration, or  *)
(* leaves it alone, or makes all registrations of the scenario at once.    *)

Reading ==
  /\ program = "live-test"
  /\ \E nonce \in Nonces : ReadCommitments(nonce)

(* In the live test: the registrations are those of the scenario, in the   *)
(* order of its actions, once they are there; before that nothing else     *)
(* goes on.                                                                *)
ReadInv ==
  program = "live-test" =>
    /\ \A i \in TestRecords : registration[i].flow = recorded[i]
    /\ TestRecords # {} => ScenarioIsComplete /\ TestRecords = DOMAIN recorded
    /\ TestRecords = {} => phase = "idle"

(* Of a complete scenario there are four records, for each a registration  *)
(* and a call.                                                             *)
LEMMA FourRecords ==
  ASSUME ScenarioInv, ReadInv, program = "live-test", TestRecords # {}
  PROVE  /\ TestRecords = 1..4 /\ Len(recorded) = 4
         /\ TestRecords \subseteq Calls /\ TestRecords \subseteq Registrations
<1>1. Len(recorded) = 4 /\ DOMAIN recorded = 1..4
  BY DEF ScenarioInv, ReadInv, ScenarioIsComplete, Written
<1> QED
  BY <1>1, MaxCallsAssumption, MaxPreparedAssumption
     DEF ReadInv, TestRecords, Calls, Registrations

LEMMA StepsOfRegistration ==
  ASSUME ScenarioInv, ReadInv, [Next]_programVars
  PROVE  Reading \/ [RegistrationNext]_registrationVars
<1>1. CASE AdvanceScenario \/ Ended \/ UNCHANGED programVars
  BY <1>1 DEF AdvanceScenario, Ended, programVars
<1>2. CASE LiveTest
  <2>1. CASE AnchorNext
    <3>1. PICK t \in TestRecords : Send(t, registration[t].commitment)
      BY <2>1 DEF AnchorNext
    <3>2. t \in Calls /\ t \in Registrations /\ registration[t] # NoRegistration
      BY <1>2, FourRecords DEF LiveTest, TestRecords
    <3> QED
      BY <3>1, <3>2 DEF RegistrationNext
  <2> QED
    BY <1>2, <2>1 DEF LiveTest, Reading
<1>3. CASE Application
  <2>1. 1..MaxOfApplication \subseteq Registrations /\ 1..MaxCallsOfIt \subseteq Calls
    BY MaxCallsAssumption, MaxPreparedAssumption DEF Registrations, Calls
  <2>2. CASE UseAnchor
    BY <2>1, <2>2 DEF UseAnchor, RegistrationNext
  <2> QED
    BY <1>3, <2>2 DEF Application
<1>4. CASE Network
  BY <1>4 DEF Network, RegistrationNext
<1> QED
  BY <1>1, <1>2, <1>3, <1>4 DEF Next

(* What the live test reads from the scenario. *)
LEMMA ReadingMakes ==
  ASSUME IInv, ScenarioInv, ReadInv, NEW nonce \in Nonces,
         program = "live-test", ReadCommitments(nonce)
  PROVE  /\ TestRecords = {} /\ Len(recorded) = 4 /\ DOMAIN recorded = 1..4
         /\ \A i \in Registrations : registration'[i] # NoRegistration <=> i \in 1..4
         /\ \A i \in 1..4 :
              /\ registration'[i].flow = recorded[i]
              /\ registration'[i].nonce = nonce
              /\ registration'[i].commitment
                   = CommitInformationFlow(recorded[i], nonce)
         /\ registration' \in
              [Registrations -> [flow : Flows, commitment : Commitments,
                                 nonce : Nonces]
                                \union {NoRegistration}]
         /\ UNCHANGED <<nonceBytes, call, flowCommitment, flowCommitments,
                        flowCount, scenarioVars, runtimeVars>>
<1>1. Len(recorded) = 4 /\ DOMAIN recorded = 1..4
  BY DEF ScenarioInv, ReadCommitments, ScenarioIsComplete, Written
<1>2. \A i \in 1..4 : recorded[i] \in Flows
  BY <1>1 DEF ScenarioInv
<1>3. TestRecords = {}
  BY DEF ReadCommitments, TestRecords
<1>4. registration' = [i \in Registrations |->
        IF i \in 1..4
        THEN [flow |-> recorded[i],
              commitment |-> CommitInformationFlow(recorded[i], nonce),
              nonce |-> nonce]
        ELSE NoRegistration]
  BY <1>1 DEF ReadCommitments
<1>5. \A i \in 1..4 : CommitInformationFlow(recorded[i], nonce) \in Commitments
  BY <1>2 DEF CommitInformationFlow, Commitments
<1>6. registration' \in
        [Registrations -> [flow : Flows, commitment : Commitments,
                           nonce : Nonces]
                          \union {NoRegistration}]
  BY <1>2, <1>4, <1>5
<1>7. 1..4 \subseteq Registrations
  BY MaxPreparedAssumption DEF Registrations
<1>8. ASSUME NEW i \in 1..4
      PROVE  /\ registration'[i].flow = recorded[i]
             /\ registration'[i].nonce = nonce
             /\ registration'[i].commitment
                  = CommitInformationFlow(recorded[i], nonce)
             /\ registration'[i] # NoRegistration
  <2>1. registration'[i] =
          [flow |-> recorded[i],
           commitment |-> CommitInformationFlow(recorded[i], nonce),
           nonce |-> nonce]
    BY <1>4, <1>7
  <2>2. recorded[i] # NoFlow
    BY <1>2, NoFlowAssumption
  <2>3. NoRegistration.flow = NoFlow
    BY DEF NoRegistration
  <2> QED
    BY <2>1, <2>2, <2>3
<1>9. \A i \in Registrations : registration'[i] # NoRegistration <=> i \in 1..4
  BY <1>4, <1>8
<1> QED
  BY <1>1, <1>3, <1>6, <1>8, <1>9 DEF ReadCommitments, ledger

LEMMA ReadingKeeps ==
  ASSUME IInv, ScenarioInv, ReadInv, Reading
  PROVE  IInv'
<1>1. PICK nonce \in Nonces : ReadCommitments(nonce)
  BY DEF Reading
<1>2. RegistrationTypeOK'
  BY <1>1, ReadingMakes DEF Reading, IInv, RegistrationTypeOK
<1>3. RegistrationsAgree'
  BY <1>1, ReadingMakes DEF Reading, RegistrationsAgree
<1>4. \A i \in Registrations : registration[i] = NoRegistration
  BY <1>1 DEF ReadCommitments
<1>5. CallsAreRetained' /\ AnchoredIsProvable'
  BY <1>1, <1>4, ReadingMakes
     DEF Reading, IInv, CallsAreRetained, AnchoredIsProvable, Retained
<1> QED
  BY <1>2, <1>3, <1>5 DEF IInv

LEMMA RegistrationStep ==
  ASSUME IInv, ScenarioInv, ReadInv, [Next]_programVars
  PROVE  IInv'
BY StepsOfRegistration, ReadingKeeps, RegistrationKeeps

LEMMA ReadStep ==
  ASSUME IInv, ScenarioInv, ReadInv, [Next]_programVars
  PROVE  ReadInv'
<1> SUFFICES ASSUME program' = "live-test"
             PROVE  /\ \A i \in TestRecords' : registration'[i].flow = recorded'[i]
                    /\ TestRecords' # {} =>
                         ScenarioIsComplete' /\ TestRecords' = DOMAIN recorded'
                    /\ TestRecords' = {} => phase' = "idle"
  BY DEF ReadInv
<1>0. program = "live-test"
  BY DEF Next, programVars
<1>1. CASE Reading
  <2>1. PICK nonce \in Nonces : ReadCommitments(nonce)
    BY <1>1 DEF Reading
  <2>2. \A i \in Registrations : registration'[i] # NoRegistration <=> i \in 1..4
    BY <1>0, <2>1, ReadingMakes
  <2>3. TestRecords' = 1..4
    BY <2>2, MaxPreparedAssumption DEF TestRecords, Registrations
  <2>4. UNCHANGED <<recorded, stage>> /\ ScenarioIsComplete
    BY <1>0, <2>1 DEF ReadCommitments, scenarioVars
  <2>5. \A i \in TestRecords' : registration'[i].flow = recorded[i]
    BY <1>0, <2>1, <2>3, ReadingMakes
  <2> QED
    BY <1>0, <2>1, <2>3, <2>4, <2>5, ReadingMakes DEF ScenarioIsComplete
<1>2. CASE ~Reading
  <2>1. registration' = registration
    BY <1>0, <1>2 DEF Next, AdvanceScenario, LiveTest, Reading, AnchorNext, Send,
                 Application, Network, Take, Answer, Fail, Ended, prepared,
                 programVars, registrationVars
  <2>2. TestRecords' = TestRecords
    BY <2>1 DEF TestRecords
  <2>3. UNCHANGED scenarioVars \/ Advance
    BY DEF Next, AdvanceScenario, LiveTest, ReadCommitments, AnchorNext,
           Application, Network, Ended, programVars
  <2>4. TestRecords # {} => UNCHANGED scenarioVars
    BY <1>0, <2>3, AdvanceKeeps DEF ReadInv
  <2>5. TestRecords = {} => UNCHANGED phase
    BY <1>0, <1>2 DEF Next, AdvanceScenario, LiveTest, Reading, AnchorNext,
              Application, Network, Ended, programVars, runtimeVars
  <2> QED
    BY <1>0, <2>1, <2>2, <2>4, <2>5 DEF ReadInv, scenarioVars, ScenarioIsComplete,
              TestRecords
<1> QED
  BY <1>1, <1>2

ProgramInv == IInv /\ ScenarioInv /\ ReadInv

LEMMA ProgramInitial == Init => ProgramInv
<1> SUFFICES ASSUME Init PROVE ProgramInv
  OBVIOUS
<1>1. TestRecords = {} /\ phase = "idle"
  BY DEF Init, RegistrationInit, RuntimeInit, TestRecords
<1> QED
  BY <1>1, RegistrationInitial, ScenarioInitial DEF Init, ProgramInv, ReadInv

LEMMA ProgramInvariant == Spec => []ProgramInv
<1>1. ProgramInv /\ [Next]_programVars => ProgramInv'
  BY RegistrationStep, ScenarioStep, ReadStep DEF ProgramInv
<1> QED
  BY <1>1, ProgramInitial, PTL DEF Spec

(* Whatever the programs anchor can be opened by somebody who keeps the    *)
(* flow and the nonce: also the commitments that the live test takes from  *)
(* the domain system (commitmentRecords), which it did not prepare.        *)
THEOREM ProgramsAnchorProvably == Spec => []AnchoredIsProvable
<1>1. ProgramInv => AnchoredIsProvable
  BY DEF ProgramInv, IInv
<1> QED
  BY <1>1, ProgramInvariant, PTL

(* A receipt that a program was given stands for an entry of its own, and  *)
(* no entry is there that nobody has sent, also when the live test gives   *)
(* up in the middle or the application repeats a call.                     *)
THEOREM ProgramsKeepReceipts == Spec => []ReceiptsAreAnchored
<1>1. Init => ReceiptsAreAnchored
  BY ReceiptsInitial DEF Init
<1>2. ProgramInv /\ ReceiptsAreAnchored /\ [Next]_programVars
      => ReceiptsAreAnchored'
  <2> SUFFICES ASSUME ProgramInv, ReceiptsAreAnchored, [Next]_programVars
               PROVE  ReceiptsAreAnchored'
    OBVIOUS
  <2>1. CASE Reading
    BY <2>1, ReceiptsKept DEF Reading, ReadCommitments, ledger
  <2> QED
    BY <2>1, StepsOfRegistration, ReceiptsStep DEF ProgramInv
<1> QED
  BY <1>1, <1>2, ProgramInvariant, PTL DEF Spec

(* To the public the ledger is an append-only log and its last element,    *)
(* whichever program runs and however it ends.                             *)
THEOREM ProgramsImplementLog == Spec => ImplementsLog
<1>1. Init => CL!Init
  BY DEF Init, RegistrationInit, CL!Init, Log
<1>2. ProgramInv /\ [Next]_programVars => [CL!Next]_<<Log, flowCommitment>>
  <2> SUFFICES ASSUME ProgramInv, [Next]_programVars
               PROVE  [CL!Next]_<<Log, flowCommitment>>
    OBVIOUS
  <2>1. CASE Reading
    BY <2>1 DEF Reading, ReadCommitments, ledger, Log
  <2> QED
    BY <2>1, StepsOfRegistration, StepsAppend DEF ProgramInv
<1> QED
  BY <1>1, <1>2, ProgramInvariant, PTL DEF Spec, ImplementsLog, CL!Spec

-----------------------------------------------------------------------------
(* The loop of the live test.  A call is sent when all before it have been *)
(* answered, so that calls and entries have the same order.                *)
CallsInOrder ==
  \A t \in Calls : call[t].status # "none" =>
    /\ t \in TestRecords /\ call[t].commitment = registration[t].commitment
    /\ \A s \in 1..(t - 1) : call[s].status = "answered"

EntriesSoFar ==
  \A t \in Calls :
    /\ call[t].status = "none" => flowCount < t
    /\ call[t].status = "sent" => flowCount = t - 1
    /\ call[t].status \in {"taken", "answered"} => t <= flowCount

EntriesAreOfCalls ==
  /\ flowCount = 0 \/ flowCount \in TestRecords
  /\ \A p \in 1..flowCount : flowCommitments[p - 1] = registration[p].commitment
  /\ flowCount # 0 => flowCommitment = flowCommitments[flowCount - 1]

LoopInv ==
  program = "live-test" =>
    /\ CallsInOrder /\ EntriesSoFar /\ EntriesAreOfCalls
    /\ phase = "querying" => \A t \in TestRecords : call[t].status = "answered"

LEMMA LoopInitial == Init => LoopInv
BY DEF Init, RegistrationInit, RuntimeInit, LoopInv, CallsInOrder, EntriesSoFar,
       EntriesAreOfCalls, NoCall, Calls

(* The types that the loop needs. *)
LEMMA LoopTypes ==
  ASSUME ProgramInv
  PROVE  /\ flowCount \in Nat /\ Calls \subseteq Nat \ {0}
         /\ DOMAIN call = Calls
         /\ \A t \in Calls : \A s \in 1..(t - 1) : s \in Calls
         /\ \A t \in Calls : call[t] = [commitment |-> call[t].commitment,
                                        status |-> call[t].status]
         /\ \A t \in Calls : call[t].status \in Statuses
<1>1. /\ flowCount \in Nat
      /\ call \in [Calls -> [commitment : Commitments \union {NoCommitment},
                             status : Statuses]]
  BY DEF ProgramInv, IInv, RegistrationTypeOK
<1> QED
  BY <1>1, MaxCallsAssumption DEF Calls

(* What a step of one call does to the others. *)
LEMMA BecomesAt ==
  ASSUME ProgramInv, NEW t \in Calls, NEW from, NEW to, Becomes(t, from, to)
  PROVE  /\ call[t].status = from /\ call'[t].status = to
         /\ call'[t].commitment = call[t].commitment
         /\ \A s \in Calls \ {t} : call'[s] = call[s]
BY LoopTypes DEF Becomes

LEMMA LoopKept ==
  ASSUME LoopInv, UNCHANGED <<program, call, registration, ledger>>,
         phase' = "querying" => phase = "querying"
  PROVE  LoopInv'
BY DEF LoopInv, CallsInOrder, EntriesSoFar, EntriesAreOfCalls, TestRecords, ledger

LEMMA TakeInOrder ==
  ASSUME ProgramInv, LoopInv, program = "live-test", NEW t \in Calls, Take(t),
         UNCHANGED <<program, phase>>
  PROVE  LoopInv'
<1>1. /\ call[t].status = "sent" /\ call'[t].status = "taken"
      /\ call'[t].commitment = call[t].commitment
      /\ \A s \in Calls \ {t} : call'[s] = call[s]
  BY BecomesAt DEF Take
<1>2. registration' = registration /\ TestRecords' = TestRecords
  BY DEF Take, prepared, TestRecords
<1>3. /\ t \in TestRecords /\ call[t].commitment = registration[t].commitment
      /\ \A s \in 1..(t - 1) : call[s].status = "answered"
      /\ flowCount = t - 1
  BY <1>1 DEF LoopInv, CallsInOrder, EntriesSoFar
<1>4. /\ flowCount' = t
      /\ flowCommitments'[t - 1] = registration[t].commitment
      /\ \A p \in 0..(t - 2) : flowCommitments'[p] = flowCommitments[p]
      /\ flowCommitment' = registration[t].commitment
  <2>1. call[t].commitment \in Commitments
    BY <1>1 DEF ProgramInv, IInv, RegistrationTypeOK
  <2>2. /\ flowCount' = flowCount + 1
        /\ flowCommitments'[flowCount] = call[t].commitment
        /\ \A p \in 0..(flowCount - 1) : flowCommitments'[p] = flowCommitments[p]
    BY <2>1, RegisterFlowAppends DEF Take, ProgramInv, IInv
  <2>3. flowCommitment' = call[t].commitment
    BY DEF Take, RegisterFlow
  <2> QED
    BY <1>3, <2>2, <2>3, LoopTypes
<1>5. ASSUME NEW s \in Calls, s # t
      PROVE  /\ s < t => call[s].status = "answered"
             /\ t < s => call[s].status = "none"
  <2>1. s < t => s \in 1..(t - 1)
    BY LoopTypes
  <2>2. t < s => t \in 1..(s - 1)
    BY LoopTypes
  <2> QED
    BY <1>1, <1>3, <2>1, <2>2 DEF LoopInv, CallsInOrder
<1>6. CallsInOrder'
  <2> SUFFICES ASSUME NEW s \in Calls, call'[s].status # "none"
               PROVE  /\ s \in TestRecords
                      /\ call'[s].commitment = registration[s].commitment
                      /\ \A r \in 1..(s - 1) : call'[r].status = "answered"
    BY <1>2 DEF CallsInOrder
  <2>1. s <= t
    BY <1>1, <1>5, LoopTypes
  <2>2. \A r \in 1..(s - 1) : r \in Calls /\ r # t
    BY <2>1, LoopTypes
  <2>3. call[s].status # "none" /\ call'[s].commitment = call[s].commitment
    BY <1>1
  <2> QED
    BY <1>1, <2>2, <2>3 DEF LoopInv, CallsInOrder
<1>7. EntriesSoFar'
  <2> SUFFICES ASSUME NEW s \in Calls
               PROVE  /\ call'[s].status = "none" => t < s
                      /\ call'[s].status = "sent" => t = s - 1
                      /\ call'[s].status \in {"taken", "answered"} => s <= t
    BY <1>4 DEF EntriesSoFar
  <2>1. CASE s = t
    BY <1>1, <2>1, LoopTypes
  <2>2. CASE s < t
    BY <1>1, <1>5, <2>2, LoopTypes
  <2>3. CASE t < s
    BY <1>1, <1>5, <2>3, LoopTypes
  <2> QED
    BY <2>1, <2>2, <2>3, LoopTypes
<1>8. EntriesAreOfCalls'
  <2>1. ASSUME NEW p \in 1..t
        PROVE  flowCommitments'[p - 1] = registration[p].commitment
    <3>1. CASE p = t
      BY <1>4, <3>1
    <3>2. CASE p # t
      <4>1. p \in 1..flowCount /\ p - 1 \in 0..(t - 2)
        BY <1>3, <3>2, LoopTypes
      <4> QED
        BY <1>4, <4>1 DEF LoopInv, EntriesAreOfCalls
    <3> QED
      BY <3>1, <3>2
  <2> QED
    BY <1>2, <1>3, <1>4, <2>1 DEF EntriesAreOfCalls
<1>9. phase # "querying"
  BY <1>1, <1>3 DEF LoopInv
<1> QED
  BY <1>6, <1>7, <1>8, <1>9 DEF LoopInv

LEMMA SettleInOrder ==
  ASSUME ProgramInv, LoopInv, program = "live-test", NEW t \in Calls,
         Answer(t) \/ Fail(t), UNCHANGED <<program, phase>>
  PROVE  LoopInv'
<1>1. /\ call[t].status \in {"sent", "taken"}
      /\ call'[t].status \in {"answered", "failed"}
      /\ call'[t].status = "answered" => call[t].status = "taken"
      /\ call'[t].commitment = call[t].commitment
      /\ \A s \in Calls \ {t} : call'[s] = call[s]
  BY BecomesAt DEF Answer, Fail
<1>2. UNCHANGED <<registration, flowCommitment, flowCommitments, flowCount>>
      /\ TestRecords' = TestRecords
  BY DEF Answer, Fail, prepared, ledger, TestRecords
<1>3. CallsInOrder'
  <2> SUFFICES ASSUME NEW s \in Calls, call'[s].status # "none"
               PROVE  /\ s \in TestRecords
                      /\ call'[s].commitment = registration[s].commitment
                      /\ \A r \in 1..(s - 1) : call'[r].status = "answered"
    BY <1>2 DEF CallsInOrder
  <2>1. call[s].status # "none" /\ call'[s].commitment = call[s].commitment
    BY <1>1
  <2>2. \A r \in 1..(s - 1) : r \in Calls /\ call[r].status = "answered"
    BY <2>1, LoopTypes DEF LoopInv, CallsInOrder
  <2>3. \A r \in 1..(s - 1) : r # t
    BY <1>1, <2>2
  <2> QED
    BY <1>1, <2>1, <2>2, <2>3 DEF LoopInv, CallsInOrder
<1>4. EntriesSoFar'
  BY <1>1, <1>2 DEF LoopInv, EntriesSoFar
<1>5. EntriesAreOfCalls'
  BY <1>2 DEF LoopInv, EntriesAreOfCalls
<1>6. phase # "querying"
  BY <1>1 DEF LoopInv, CallsInOrder
<1> QED
  BY <1>3, <1>4, <1>5, <1>6 DEF LoopInv

LEMMA SendInOrder ==
  ASSUME ProgramInv, LoopInv, program = "live-test", AnchorNext,
         UNCHANGED program
  PROVE  LoopInv'
<1>1. PICK t \in TestRecords :
        /\ \A s \in 1..(t - 1) : call[s].status = "answered"
        /\ Send(t, registration[t].commitment)
  BY DEF AnchorNext
<1>2. t \in Calls
  BY <1>1, FourRecords DEF ProgramInv
<1>3. /\ call[t].status = "none" /\ call'[t].status = "sent"
      /\ call'[t].commitment = registration[t].commitment
      /\ \A s \in Calls \ {t} : call'[s] = call[s]
  BY <1>1, <1>2, LoopTypes DEF Send, NoCall
<1>4. UNCHANGED <<registration, flowCommitment, flowCommitments, flowCount>>
      /\ TestRecords' = TestRecords
  BY <1>1 DEF Send, prepared, ledger, TestRecords
<1>5. flowCount = t - 1
  <2>1. flowCount < t
    BY <1>2, <1>3 DEF LoopInv, EntriesSoFar
  <2>2. t = 1 \/ (t - 1 \in 1..(t - 1) /\ t - 1 \in Calls)
    BY <1>2, LoopTypes
  <2>3. t = 1 \/ t - 1 <= flowCount
    BY <1>1, <2>2 DEF LoopInv, EntriesSoFar
  <2> QED
    BY <1>2, <2>1, <2>3, LoopTypes
<1>6. CallsInOrder'
  <2> SUFFICES ASSUME NEW s \in Calls, call'[s].status # "none"
               PROVE  /\ s \in TestRecords
                      /\ call'[s].commitment = registration[s].commitment
                      /\ \A r \in 1..(s - 1) : call'[r].status = "answered"
    BY <1>4 DEF CallsInOrder
  <2>1. CASE s = t
    <3>1. \A r \in 1..(s - 1) : r \in Calls /\ r # t
      BY <2>1, LoopTypes
    <3> QED
      BY <1>1, <1>3, <2>1, <3>1
  <2>2. CASE s # t
    <3>1. call'[s] = call[s] /\ call[s].status # "none"
      BY <1>3, <2>2
    <3>2. \A r \in 1..(s - 1) : r \in Calls /\ call[r].status = "answered"
      BY <3>1, LoopTypes DEF LoopInv, CallsInOrder
    <3>3. \A r \in 1..(s - 1) : r # t
      BY <1>3, <3>2
    <3> QED
      BY <1>3, <3>1, <3>2, <3>3 DEF LoopInv, CallsInOrder
  <2> QED
    BY <2>1, <2>2
<1>7. EntriesSoFar'
  BY <1>2, <1>3, <1>4, <1>5 DEF LoopInv, EntriesSoFar
<1>8. EntriesAreOfCalls'
  BY <1>4 DEF LoopInv, EntriesAreOfCalls
<1>9. phase' # "querying"
  BY DEF AnchorNext, runtimeVars
<1> QED
  BY <1>6, <1>7, <1>8, <1>9 DEF LoopInv

(* Before the records are read, nothing has been sent or taken. *)
LEMMA ReadingBeforeLoop ==
  ASSUME ProgramInv, LoopInv, Reading, UNCHANGED program
  PROVE  LoopInv'
<1>1. PICK nonce \in Nonces : ReadCommitments(nonce)
  BY DEF Reading
<1>2. /\ TestRecords = {}
      /\ UNCHANGED <<call, flowCommitment, flowCommitments, flowCount, phase>>
  BY <1>1, ReadingMakes DEF Reading, ProgramInv, runtimeVars
<1>3. flowCount = 0 /\ phase = "idle"
  BY <1>2 DEF Reading, ProgramInv, ReadInv, LoopInv, EntriesAreOfCalls
<1>4. \A t \in Calls : call[t].status = "none"
  BY <1>2 DEF Reading, LoopInv, CallsInOrder
<1> QED
  BY <1>2, <1>3, <1>4 DEF Reading, LoopInv, CallsInOrder, EntriesSoFar,
                          EntriesAreOfCalls

LEMMA LoopStep ==
  ASSUME ProgramInv, LoopInv, [Next]_programVars
  PROVE  LoopInv'
<1> SUFFICES ASSUME program' = "live-test"
             PROVE  LoopInv'
  BY DEF LoopInv
<1>0. program = "live-test" /\ UNCHANGED program
  BY DEF Next, programVars
<1>1. CASE AdvanceScenario \/ Ended \/ UNCHANGED programVars
  BY <1>0, <1>1, LoopKept DEF AdvanceScenario, Ended, programVars,
                         registrationVars, runtimeVars, prepared
<1>2. CASE LiveTest
  <2>1. CASE \E nonce \in Nonces : ReadCommitments(nonce)
    BY <1>0, <2>1, ReadingBeforeLoop DEF Reading
  <2>2. CASE AnchorNext
    BY <1>0, <2>2, SendInOrder
  <2>3. CASE UNCHANGED registrationVars /\ (phase' = "querying" => QueryLedger)
    <3>1. CASE QueryLedger
      BY <1>0, <2>3, <3>1
         DEF QueryLedger, LoopInv, CallsInOrder, EntriesSoFar,
             EntriesAreOfCalls, TestRecords, registrationVars, prepared, ledger
    <3>2. CASE ~QueryLedger
      BY <1>0, <2>3, <3>2, LoopKept DEF registrationVars, prepared
    <3> QED
      BY <3>1, <3>2
  <2>4. ASSUME ~\E nonce \in Nonces : ReadCommitments(nonce), ~AnchorNext
        PROVE  UNCHANGED registrationVars /\ (phase' = "querying" => QueryLedger)
    BY <1>2, <2>4
       DEF LiveTest, WalletSteps, Create, Refuse, Build, Start, Synchronize,
           InitializationFails, CleanedUp, Stopped, Goes, TestGoes, Finally,
           TestThrows
  <2> QED
    BY <2>1, <2>2, <2>3, <2>4
<1>3. CASE Network
  <2>1. PICK t \in Calls : Take(t) \/ Answer(t) \/ Fail(t)
    BY <1>3 DEF Network
  <2>2. UNCHANGED phase
    BY <1>3 DEF Network, runtimeVars
  <2> QED
    BY <1>0, <2>1, <2>2, TakeInOrder, SettleInOrder
<1>4. ~Application
  BY <1>0 DEF Application
<1> QED
  BY <1>1, <1>2, <1>3, <1>4 DEF Next

LEMMA LedgerFound ==
  ASSUME ProgramInv, LoopInv
  PROVE  LedgerIsTheScenario
<1> SUFFICES ASSUME program = "live-test", phase = "querying"
             PROVE  /\ flowCount = Len(recorded)
                    /\ \A i \in DOMAIN recorded :
                         flowCommitments[i - 1] = registration[i].commitment
                           /\ registration[i].flow = recorded[i]
                    /\ flowCommitment = registration[Len(recorded)].commitment
  BY DEF LedgerIsTheScenario
<1>1. /\ TestRecords = 1..4 /\ Len(recorded) = 4
      /\ TestRecords \subseteq Calls /\ TestRecords = DOMAIN recorded
  BY FourRecords DEF ProgramInv, ReadInv
<1>2. 4 <= flowCount
  BY <1>1 DEF LoopInv, EntriesSoFar
<1>3. flowCount = 4
  BY <1>1, <1>2 DEF LoopInv, EntriesAreOfCalls
<1> QED
  BY <1>1, <1>3 DEF LoopInv, EntriesAreOfCalls, ProgramInv, ReadInv

(* When the live test looks at the ledger it finds one entry for each      *)
(* action of the scenario, each in the place of its action, whatever       *)
(* became of the calls before (main of test/live-four-actor-scenario.ts).  *)
THEOREM LiveTestFindsScenario == Spec => []LedgerIsTheScenario
<1>1. ProgramInv /\ LoopInv /\ [Next]_programVars => LoopInv'
  BY LoopStep
<1>2. ProgramInv /\ LoopInv => LedgerIsTheScenario
  BY LedgerFound
<1> QED
  BY <1>1, <1>2, LoopInitial, ProgramInvariant, PTL DEF Spec

-----------------------------------------------------------------------------
(* The scenario in full: what the domain system holds, and what was kept   *)
(* for display, at each stage.                                             *)

(* Row 1 of a table is there from a stage on, and no other row ever is.    *)
From(n, row, none) ==
  [m \in Numbers |-> IF m = 1 /\ stage >= n THEN row ELSE none]

Entries ==
  <<"actors-registered", "acme-h1-registered", "h1-purchase-issued",
    "h1-review-published", "h1-review-read", "case-992-opened",
    "case-992-decided", "reg-443-authorized", "reg-443-verified">>

EntryIds == {Entries[i] : i \in 1..9}

RecordsByStage ==
  /\ issuers = (IF stage >= 2 THEN {ActorB} ELSE {}) /\ late = {}
  /\ credential = From(3, [holder |-> ActorA, issuer |-> ActorB], NoCredential)
  /\ reviewOf = From(4, 1, 0)
  /\ domainCase = From(6, [claimant |-> ActorA, recipient |-> ActorB,
                           purchase |-> 1], NoDomainCase)
  /\ decision = From(7, [issuer |-> ActorB, case |-> 1, outcome |-> "rejected"],
                     NoDecision)
  /\ domainRegulatory = From(8, [claimant |-> ActorA, purchase |-> 1],
                             NoDomainRegulatory)
  /\ bridge = From(8, [authorizer |-> ActorA, recipient |-> ActorD, case |-> 1,
                       records |-> EvidenceRecords], NoBridge)

DisplayByStage ==
  /\ registered = (IF stage >= 1 THEN Users ELSE {})
  /\ registrant = (IF stage >= 2 THEN ActorB ELSE NoUser)
  /\ regulators = (IF stage >= 8 THEN {ActorD} ELSE {})
  /\ review = (IF stage >= 4 THEN 1 ELSE 0)
  /\ supportView = (IF stage >= 6 THEN 1 ELSE 0)
  /\ timeline \in Seq(EntryIds) /\ Len(timeline) = stage
  /\ \A i \in 1..stage : timeline[i] = Entries[i]

StageInv ==
  /\ ScenarioInv
  /\ RecordsByStage
  /\ DisplayByStage
  /\ actions = {recorded[i] : i \in DOMAIN recorded}

LEMMA StageInitial == Init => StageInv
<1> SUFFICES ASSUME Init PROVE StageInv
  OBVIOUS
<1>1. ScenarioInv
  BY ScenarioInitial
<1>2. RecordsByStage
  BY DEF Init, ScenarioInit, EmptyDomain, Nothing, RecordsByStage, From
<1>3. DisplayByStage /\ actions = {recorded[i] : i \in DOMAIN recorded}
  BY DEF Init, ScenarioInit, EmptyDomain, DisplayByStage
<1> QED
  BY <1>1, <1>2, <1>3 DEF StageInv

(* What every step does to the stage and the timeline. *)
LEMMA StepGoesOn ==
  ASSUME DisplayByStage, NEW n \in 0..8, NEW entry, Step(n, entry),
         entry = Entries[n + 1]
  PROVE  /\ stage = n /\ stage' = n + 1
         /\ timeline' \in Seq(EntryIds) /\ Len(timeline') = stage'
         /\ \A i \in 1..stage' : timeline'[i] = Entries[i]
<1>1. /\ stage = n /\ stage' = n + 1 /\ timeline' = Append(timeline, entry)
      /\ timeline \in Seq(EntryIds) /\ Len(timeline) = stage
  BY DEF Step, DisplayByStage
<1>2. ASSUME NEW i \in 1..stage' PROVE timeline'[i] = Entries[i]
  BY <1>1 DEF DisplayByStage
<1>3. entry \in EntryIds
  BY DEF EntryIds
<1> QED
  BY <1>1, <1>2, <1>3

(* What a step that records an action does to the actions. *)
LEMMA RecordedBoth ==
  ASSUME ScenarioInv, actions = {recorded[i] : i \in DOMAIN recorded},
         NEW id, RecordAction(id), Recorded(id)
  PROVE  actions' = {recorded'[i] : i \in DOMAIN recorded'}
<1>1. /\ recorded \in Seq(ActionIds) /\ recorded' = Append(recorded, id)
      /\ actions' = actions \union {id}
  BY DEF ScenarioInv, Recorded, RecordAction
<1>2. /\ DOMAIN recorded' = DOMAIN recorded \union {Len(recorded) + 1}
      /\ recorded'[Len(recorded) + 1] = id
      /\ \A i \in DOMAIN recorded : recorded'[i] = recorded[i]
  BY <1>1
<1> QED
  BY <1>1, <1>2

(* A row is written in the step that reaches its stage, and only there.    *)
LEMMA RowWritten ==
  ASSUME stage \in 0..8, stage' = stage + 1, NEW n \in 1..9, NEW row, NEW none
  PROVE  /\ n = stage + 1 =>
              From(n, row, none)' = [From(n, row, none) EXCEPT ![1] = row]
         /\ n # stage + 1 => From(n, row, none)' = From(n, row, none)
<1>1. CASE n = stage + 1
  <2>1. From(n, row, none) = [m \in Numbers |-> none]
    BY <1>1 DEF From
  <2>2. From(n, row, none)' = [m \in Numbers |-> IF m = 1 THEN row ELSE none]
    BY <1>1 DEF From
  <2> QED
    BY <1>1, <2>1, <2>2
<1>2. CASE n # stage + 1
  <2>1. stage' >= n <=> stage >= n
    BY <1>2
  <2> QED
    BY <1>2, <2>1 DEF From
<1> QED
  BY <1>1, <1>2

(* The steps that only register, read or verify. *)
LEMMA DirectoryStep ==
  ASSUME StageInv,
         RegisterActors \/ RegisterAcmeAndH1 \/ ReadReview
           \/ VerifyRegulatoryEvidence
  PROVE  StageInv'
<1>0. ScenarioInv' /\ stage \in 0..9
  BY AdvanceKeeps DEF Advance, StageInv, ScenarioInv
<1> USE DEF StageInv
<1>1. UNCHANGED <<credential, reviewOf, domainCase, decision, domainRegulatory,
                  bridge, actions, late, recorded, display>>
  BY DEF RegisterActors, RegisterAcmeAndH1, ReadReview, VerifyRegulatoryEvidence,
         domainVars, domain
<1>2. PICK n \in {0, 1, 4, 8} : Step(n, Entries[n + 1])
  <2>1. CASE RegisterActors
    BY <2>1 DEF RegisterActors, Entries
  <2>2. CASE RegisterAcmeAndH1
    BY <2>2 DEF RegisterAcmeAndH1, Entries
  <2>3. CASE ReadReview
    BY <2>3 DEF ReadReview, Entries
  <2>4. CASE VerifyRegulatoryEvidence
    BY <2>4 DEF VerifyRegulatoryEvidence, Entries
  <2> QED
    BY <2>1, <2>2, <2>3, <2>4
<1>3. /\ stage = n /\ stage' = n + 1
      /\ timeline' \in Seq(EntryIds) /\ Len(timeline') = stage'
      /\ \A i \in 1..stage' : timeline'[i] = Entries[i]
  BY <1>2, StepGoesOn
<1>4. issuers' = (IF stage' >= 2 THEN {ActorB} ELSE {})
  BY <1>3 DEF RegisterActors, RegisterAcmeAndH1, ReadReview,
              VerifyRegulatoryEvidence, Step, domainVars, RecordsByStage
<1>5. \A m \in {3, 4, 6, 7, 8} : m # stage + 1
  BY <1>3
<1>6. RecordsByStage'
  BY <1>1, <1>3, <1>4, <1>5, RowWritten DEF RecordsByStage
<1>7. /\ registered' = (IF stage' >= 1 THEN Users ELSE {})
      /\ registrant' = (IF stage' >= 2 THEN ActorB ELSE NoUser)
      /\ regulators' = (IF stage' >= 8 THEN {ActorD} ELSE {})
  BY <1>3, FourActors
     DEF RegisterActors, RegisterAcmeAndH1, ReadReview,
         VerifyRegulatoryEvidence, Step, directory, DisplayByStage
<1>8. DisplayByStage'
  BY <1>1, <1>3, <1>7 DEF DisplayByStage, display
<1> QED
  BY <1>0, <1>1, <1>6, <1>8

(* The first row of each table, once it is there. *)
LEMMA FirstRow ==
  ASSUME NEW n \in 1..9, NEW row, NEW none
  PROVE  From(n, row, none)[1] = IF stage >= n THEN row ELSE none
BY DEF From, Numbers

(* The steps that write one row. *)
LEMMA IssueStep ==
  ASSUME StageInv, IssuePurchase
  PROVE  StageInv'
<1> USE DEF StageInv
<1>0. ScenarioInv'
  BY AdvanceKeeps DEF Advance
<1>1. UNCHANGED <<issuers, late, reviewOf, domainCase, decision,
                  domainRegulatory, bridge, actions, directory, display, recorded>>
  BY DEF IssuePurchase
<1>2. /\ stage = 2 /\ stage' = 3
      /\ timeline' \in Seq(EntryIds) /\ Len(timeline') = stage'
      /\ \A i \in 1..stage' : timeline'[i] = Entries[i]
  <2>1. "h1-purchase-issued" = Entries[2 + 1]
    BY DEF Entries
  <2> QED
    BY <2>1, StepGoesOn DEF IssuePurchase
<1>3. credential' = [credential EXCEPT ![1] = [holder |-> ActorA, issuer |-> ActorB]]
  BY DEF IssuePurchase, IssueCredential
<1>4. RecordsByStage'
  BY <1>1, <1>2, <1>3, RowWritten DEF RecordsByStage
<1>5. DisplayByStage'
  BY <1>1, <1>2 DEF DisplayByStage, directory, display
<1> QED
  BY <1>0, <1>1, <1>4, <1>5

LEMMA ReviewStep ==
  ASSUME StageInv, PublishReview
  PROVE  StageInv'
<1> USE DEF StageInv
<1>0. ScenarioInv'
  BY AdvanceKeeps DEF Advance
<1>1. /\ UNCHANGED <<issuers, late, credential, domainCase, decision,
                     domainRegulatory, bridge, directory, supportView>>
      /\ review' = 1 /\ reviewOf' = [reviewOf EXCEPT ![1] = 1]
      /\ RecordAction(ReviewId(1)) /\ Recorded(ReviewId(1))
  BY DEF PublishReview, StoreReview
<1>2. /\ stage = 3 /\ stage' = 4
      /\ timeline' \in Seq(EntryIds) /\ Len(timeline') = stage'
      /\ \A i \in 1..stage' : timeline'[i] = Entries[i]
  <2>1. "h1-review-published" = Entries[3 + 1]
    BY DEF Entries
  <2> QED
    BY <2>1, StepGoesOn DEF PublishReview
<1>3. RecordsByStage'
  BY <1>1, <1>2, RowWritten DEF RecordsByStage
<1>4. DisplayByStage'
  BY <1>1, <1>2 DEF DisplayByStage, directory
<1> QED
  BY <1>0, <1>1, <1>3, <1>4, RecordedBoth

LEMMA SupportStep ==
  ASSUME StageInv, RequestSupport
  PROVE  StageInv'
<1> USE DEF StageInv
<1>0. ScenarioInv'
  BY AdvanceKeeps DEF Advance
<1>1. /\ UNCHANGED <<issuers, late, credential, reviewOf, decision,
                     domainRegulatory, bridge, directory, review>>
      /\ supportView' = 1
      /\ domainCase' = [domainCase EXCEPT
           ![1] = [claimant |-> credential[1].holder, recipient |-> registrant,
                   purchase |-> 1]]
      /\ RecordAction(CaseId(1)) /\ Recorded(CaseId(1))
  BY DEF RequestSupport, StoreSupportCase
<1>2. /\ stage = 5 /\ stage' = 6
      /\ timeline' \in Seq(EntryIds) /\ Len(timeline') = stage'
      /\ \A i \in 1..stage' : timeline'[i] = Entries[i]
  <2>1. "case-992-opened" = Entries[5 + 1]
    BY DEF Entries
  <2> QED
    BY <2>1, StepGoesOn DEF RequestSupport
<1>3. credential[1].holder = ActorA /\ registrant = ActorB
  BY <1>2, FirstRow DEF RecordsByStage, DisplayByStage
<1>4. RecordsByStage'
  BY <1>1, <1>2, <1>3, RowWritten DEF RecordsByStage
<1>5. DisplayByStage'
  BY <1>1, <1>2 DEF DisplayByStage, directory
<1> QED
  BY <1>0, <1>1, <1>4, <1>5, RecordedBoth

LEMMA DecisionStep ==
  ASSUME StageInv, RecordDecision
  PROVE  StageInv'
<1> USE DEF StageInv
<1>0. ScenarioInv'
  BY AdvanceKeeps DEF Advance
<1>1. /\ UNCHANGED <<issuers, late, credential, reviewOf, domainCase,
                     domainRegulatory, bridge, directory, display>>
      /\ decision' = [decision EXCEPT
           ![1] = [issuer |-> ActorB, case |-> 1, outcome |-> "rejected"]]
      /\ RecordAction(DecisionId(1)) /\ Recorded(DecisionId(1))
  BY DEF RecordDecision, StoreDecision
<1>2. /\ stage = 6 /\ stage' = 7
      /\ timeline' \in Seq(EntryIds) /\ Len(timeline') = stage'
      /\ \A i \in 1..stage' : timeline'[i] = Entries[i]
  <2>1. "case-992-decided" = Entries[6 + 1]
    BY DEF Entries
  <2> QED
    BY <2>1, StepGoesOn DEF RecordDecision
<1>3. RecordsByStage'
  BY <1>1, <1>2, RowWritten DEF RecordsByStage
<1>4. DisplayByStage'
  BY <1>1, <1>2 DEF DisplayByStage, directory, display
<1> QED
  BY <1>0, <1>1, <1>3, <1>4, RecordedBoth

LEMMA BridgeStep ==
  ASSUME StageInv, AuthorizeRegulatoryBridge
  PROVE  StageInv'
<1> USE DEF StageInv
<1>0. ScenarioInv'
  BY AdvanceKeeps DEF Advance
<1>1. /\ UNCHANGED <<issuers, late, credential, reviewOf, domainCase, decision,
                     registered, registrant, display>>
      /\ regulators' = regulators \union {ActorD}
      /\ domainRegulatory' = [domainRegulatory EXCEPT
           ![1] = [claimant |-> credential[1].holder, purchase |-> 1]]
      /\ bridge' = [bridge EXCEPT
           ![1] = [authorizer |-> ActorA, recipient |-> ActorD, case |-> 1,
                   records |-> EvidenceRecords]]
      /\ RecordAction(BridgeId(1)) /\ Recorded(BridgeId(1))
  BY DEF AuthorizeRegulatoryBridge, OpenRegulatoryCase, StoreBridge
<1>2. /\ stage = 7 /\ stage' = 8
      /\ timeline' \in Seq(EntryIds) /\ Len(timeline') = stage'
      /\ \A i \in 1..stage' : timeline'[i] = Entries[i]
  <2>1. "reg-443-authorized" = Entries[7 + 1]
    BY DEF Entries
  <2> QED
    BY <2>1, StepGoesOn DEF AuthorizeRegulatoryBridge
<1>3. credential[1].holder = ActorA
  BY <1>2, FirstRow DEF RecordsByStage
<1>4. RecordsByStage'
  <2> DEFINE opened == [claimant |-> ActorA, purchase |-> 1]
             shown == [authorizer |-> ActorA, recipient |-> ActorD, case |-> 1,
                       records |-> EvidenceRecords]
  <2> HIDE DEF shown
  <2>1. bridge = From(8, shown, NoBridge) /\ bridge' = [bridge EXCEPT ![1] = shown]
    BY <1>1 DEF RecordsByStage, shown
  <2>2. bridge' = From(8, shown, NoBridge)'
    BY <1>2, <2>1, RowWritten
  <2>3. domainRegulatory' = From(8, opened, NoDomainRegulatory)'
    BY <1>1, <1>2, <1>3, RowWritten DEF RecordsByStage
  <2>4. /\ credential' = From(3, [holder |-> ActorA, issuer |-> ActorB],
                              NoCredential)'
        /\ reviewOf' = From(4, 1, 0)'
        /\ domainCase' = From(6, [claimant |-> ActorA, recipient |-> ActorB,
                                 purchase |-> 1], NoDomainCase)'
        /\ decision' = From(7, [issuer |-> ActorB, case |-> 1,
                               outcome |-> "rejected"], NoDecision)'
    BY <1>1, <1>2, RowWritten DEF RecordsByStage
  <2>5. issuers' = (IF stage' >= 2 THEN {ActorB} ELSE {}) /\ late' = {}
    BY <1>1, <1>2 DEF RecordsByStage
  <2> QED
    BY <2>2, <2>3, <2>4, <2>5 DEF RecordsByStage, shown
<1>5. DisplayByStage'
  BY <1>1, <1>2 DEF DisplayByStage, display
<1> QED
  BY <1>0, <1>1, <1>4, <1>5, RecordedBoth

LEMMA StageStep ==
  ASSUME StageInv, [Next]_programVars
  PROVE  StageInv'
<1>1. Advance \/ UNCHANGED scenarioVars
  BY DEF Next, AdvanceScenario, LiveTest, ReadCommitments, AnchorNext,
         Application, Network, Ended, programVars
<1>2. CASE UNCHANGED scenarioVars
  BY <1>2, ScenarioKept
     DEF StageInv, RecordsByStage, DisplayByStage, From, scenarioVars, domainVars,
         domain, directory, display
<1> QED
  BY <1>1, <1>2, DirectoryStep, IssueStep, ReviewStep, SupportStep, DecisionStep,
     BridgeStep DEF Advance

LEMMA StageInvariant == Spec => []StageInv
<1>1. StageInv /\ [Next]_programVars => StageInv'
  BY StageStep
<1> QED
  BY <1>1, StageInitial, PTL DEF Spec

-----------------------------------------------------------------------------
(* The views.  What the domain system says of record 1 at each stage. *)
LEMMA RecordsOfStage ==
  ASSUME StageInv
  PROVE  /\ stage \in 0..9
         /\ credential[1] = (IF stage >= 3
              THEN [holder |-> ActorA, issuer |-> ActorB] ELSE NoCredential)
         /\ reviewOf[1] = (IF stage >= 4 THEN 1 ELSE 0)
         /\ domainCase[1] = (IF stage >= 6
              THEN [claimant |-> ActorA, recipient |-> ActorB, purchase |-> 1]
              ELSE NoDomainCase)
         /\ decision[1] = (IF stage >= 7
              THEN [issuer |-> ActorB, case |-> 1, outcome |-> "rejected"]
              ELSE NoDecision)
         /\ domainRegulatory[1] = (IF stage >= 8
              THEN [claimant |-> ActorA, purchase |-> 1] ELSE NoDomainRegulatory)
         /\ bridge[1] = (IF stage >= 8
              THEN [authorizer |-> ActorA, recipient |-> ActorD, case |-> 1,
                    records |-> EvidenceRecords]
              ELSE NoBridge)
BY FirstRow DEF StageInv, ScenarioInv, RecordsByStage

Contexts == {"purchase", "support", "regulatory"}

LEMMA PartiesByStage ==
  ASSUME StageInv
  PROVE  /\ Parties("purchase") \ {NoUser} =
              (IF stage >= 3 THEN {ActorA, ActorB} ELSE {})
         /\ Parties("support") \ {NoUser} =
              (IF stage >= 6 THEN {ActorA, ActorB} ELSE {})
         /\ Parties("regulatory") \ {NoUser} =
              (IF stage >= 8 THEN {ActorA, ActorD} ELSE {})
<1>1. NoUser \notin {ActorA, ActorB, ActorC, ActorD}
  BY FourActors, NoUserAssumption
<1>2. Parties("purchase") = {credential[1].holder, credential[1].issuer}
  BY DEF Parties
<1>3. Parties("support") = {domainCase[1].claimant, domainCase[1].recipient}
  BY DEF Parties
<1>4. Parties("regulatory") = {bridge[1].authorizer, bridge[1].recipient}
  BY DEF Parties
<1> QED
  BY <1>1, <1>2, <1>3, <1>4, RecordsOfStage
     DEF NoCredential, NoDomainCase, NoBridge

LEMMA PanelsAgree ==
  ASSUME StageInv, NEW viewer \in Viewers, NEW context \in Contexts
  PROVE  LET parties == Parties(context) \ {NoUser} IN
         Panel(context, viewer) =
           IF parties = {} THEN "empty"
           ELSE IF viewer \in parties \union {Operator} THEN "private"
           ELSE "denied"
<1>1. CASE context = "purchase"
  <2>1. Panel("purchase", viewer) = PurchasePanel(viewer)
    BY DEF Panel
  <2> QED
    BY <1>1, <2>1, PartiesByStage, RecordsOfStage DEF PurchasePanel
<1>2. CASE context = "support"
  <2>1. Panel("support", viewer) = SupportPanel(viewer)
    BY DEF Panel
  <2>2. supportView = 0 <=> stage < 6
    BY RecordsOfStage DEF StageInv, DisplayByStage
  <2> QED
    BY <1>2, <2>1, <2>2, PartiesByStage, RecordsOfStage DEF SupportPanel
<1>3. CASE context = "regulatory"
  <2>1. Panel("regulatory", viewer) = RegulatoryPanel(viewer)
    BY DEF Panel
  <2> QED
    BY <1>3, <2>1, PartiesByStage, RecordsOfStage DEF RegulatoryPanel
<1> QED
  BY <1>1, <1>2, <1>3 DEF Contexts

(* The entries of the timeline about a context come with its records. *)
LEMMA EntriesByStage ==
  ASSUME StageInv, NEW i \in DOMAIN timeline
  PROVE  /\ timeline[i] = "h1-purchase-issued" => stage >= 3
         /\ timeline[i] \in {"case-992-opened", "case-992-decided"} => stage >= 6
         /\ timeline[i] \in {"reg-443-authorized", "reg-443-verified"} => stage >= 8
<1>1. i \in 1..stage /\ timeline[i] = Entries[i] /\ stage \in 0..9
  BY DEF StageInv, DisplayByStage, ScenarioInv
<1>2. i \in {1, 2, 3, 4, 5, 6, 7, 8, 9}
  BY <1>1
<1> QED
  BY <1>1, <1>2 DEF Entries

LEMMA TimelinesAgree ==
  ASSUME StageInv, NEW viewer \in Viewers, NEW context \in Contexts,
         TimelineFor(viewer) \intersect EntriesAbout(context) # {}
  PROVE  viewer \in (Parties(context) \ {NoUser}) \union {Operator}
<1> DEFINE entries == {timeline[i] : i \in DOMAIN timeline}
<1>0. /\ EntriesAbout("purchase") = {"h1-purchase-issued"}
      /\ EntriesAbout("support") = {"case-992-opened", "case-992-decided"}
      /\ EntriesAbout("regulatory") = {"reg-443-authorized", "reg-443-verified"}
  BY DEF EntriesAbout
<1>1. PICK entry \in EntriesAbout(context) : entry \in TimelineFor(viewer)
  OBVIOUS
<1>2. /\ entry \in entries
      /\ viewer \notin {Operator, ActorA} => entry \in SelectedFor(viewer)
  BY <1>1 DEF TimelineFor
<1>3. /\ context = "purchase" => stage >= 3
      /\ context = "support" => stage >= 6
      /\ context = "regulatory" => stage >= 8
  BY <1>0, <1>1, <1>2, EntriesByStage
<1>4. CASE viewer \in {Operator, ActorA}
  BY <1>3, <1>4, PartiesByStage DEF Contexts
<1>5. CASE viewer = ActorB
  <2>1. entry \in {"actors-registered", "acme-h1-registered",
                   "h1-purchase-issued", "h1-review-published",
                   "case-992-opened", "case-992-decided"}
    BY <1>2, <1>5, FourActors DEF SelectedFor
  <2>2. context # "regulatory"
    BY <1>0, <1>1, <2>1
  <2> QED
    BY <1>3, <1>5, <2>2, PartiesByStage DEF Contexts
<1>6. CASE viewer = ActorD
  <2>1. entry \in {"h1-review-published", "reg-443-authorized",
                   "reg-443-verified"}
    BY <1>2, <1>6, FourActors DEF SelectedFor
  <2>2. context = "regulatory"
    BY <1>0, <1>1, <2>1 DEF Contexts
  <2> QED
    BY <1>3, <1>6, <2>2, PartiesByStage
<1>7. CASE viewer \in {ActorC, Public}
  <2>1. entry \in {"h1-review-published", "h1-review-read"}
    BY <1>2, <1>7, FourActors DEF SelectedFor
  <2> QED
    BY <1>0, <1>1, <2>1 DEF Contexts
<1> QED
  BY <1>4, <1>5, <1>6, <1>7, FourActors DEF Viewers

(* Whom the domain system would listen to, and what their card offers.     *)
LEMMA CardsOffer ==
  ASSUME StageInv, NEW actor \in Users
  PROVE  LET offered == AvailableActions(Operator, actor) IN
         /\ MayIssue(actor) => "issue" \in offered
         /\ actor = credential[1].holder =>
              /\ DomainAcceptsReview(1) => "review" \in offered
              /\ DomainAcceptsSupport(1, registrant) => "support" \in offered
              /\ domainRegulatory[1].claimant = actor => "bridge" \in offered
         /\ DomainAcceptsDecision(1, actor) => "decide" \in offered
         /\ MayVerifyBridge(1, actor, 1, EvidenceRecords) => "verify" \in offered
<1> DEFINE offered == AvailableActions(Operator, actor)
<1>0. stage \in 0..9 /\ 1 \in Numbers
  BY RecordsOfStage DEF Numbers
<1>1. ASSUME stage >= 1
      PROVE  offered = DeriveCapabilities(actor)
  <2>1. actor \in registered
    BY <1>1 DEF StageInv, DisplayByStage
  <2> QED
    BY <2>1 DEF AvailableActions
<1>2. /\ "issue" \in DeriveCapabilities(actor) <=> actor \in issuers
      /\ "verify" \in DeriveCapabilities(actor) <=> actor \in regulators
      /\ "decide" \in DeriveCapabilities(actor)
           <=> \E n \in Numbers : domainCase[n].recipient = actor
      /\ \A c \in {"review", "support", "bridge"} :
           c \in DeriveCapabilities(actor)
           <=> \E n \in Numbers : credential[n].holder = actor
  BY DEF DeriveCapabilities
<1>3. MayIssue(actor) => "issue" \in offered
  BY <1>0, <1>1, <1>2 DEF MayIssue, StageInv, RecordsByStage
<1>4. ASSUME actor = credential[1].holder
      PROVE  {"review", "support", "bridge"} \subseteq offered
  <2>1. stage >= 3
    BY <1>0, <1>4, RecordsOfStage, NoUserAssumption DEF NoCredential
  <2> QED
    BY <1>0, <1>1, <1>2, <1>4, <2>1
<1>5. DomainAcceptsDecision(1, actor) => "decide" \in offered
  <2> SUFFICES ASSUME domainCase[1].recipient = actor
               PROVE  "decide" \in offered
    BY DEF DomainAcceptsDecision
  <2>1. stage >= 6
    BY <1>0, RecordsOfStage, NoUserAssumption DEF NoDomainCase
  <2> QED
    BY <1>0, <1>1, <1>2, <2>1
<1>6. MayVerifyBridge(1, actor, 1, EvidenceRecords) => "verify" \in offered
  <2> SUFFICES ASSUME bridge[1].recipient = actor
               PROVE  "verify" \in offered
    BY DEF MayVerifyBridge
  <2>1. stage >= 8
    BY <1>0, RecordsOfStage, NoUserAssumption DEF NoBridge
  <2>2. actor = ActorD
    BY <2>1, RecordsOfStage
  <2>3. actor \in regulators
    BY <2>1, <2>2 DEF StageInv, DisplayByStage
  <2> QED
    BY <1>0, <1>1, <1>2, <2>1, <2>3
<1> QED
  BY <1>3, <1>4, <1>5, <1>6

(* The views, which go by the number of the stage and the names of the     *)
(* viewers, agree at every stage with the relationships that the domain    *)
(* system holds: who is shown a record is a party to it, and whom the      *)
(* domain system listens to is offered the action (snapshot of             *)
(* four-actor-scenario.ts).                                                *)
THEOREM ViewsAgree == Spec => []ViewsFollowRelationships
<1>1. ASSUME StageInv PROVE ViewsFollowRelationships
  <2>1. \A viewer \in Viewers, context \in {"purchase", "support", "regulatory"} :
          LET parties == Parties(context) \ {NoUser} IN
          /\ Panel(context, viewer) =
               IF parties = {} THEN "empty"
               ELSE IF viewer \in parties \union {Operator} THEN "private"
               ELSE "denied"
          /\ TimelineFor(viewer) \intersect EntriesAbout(context) # {} =>
               viewer \in parties \union {Operator}
    BY <1>1, PanelsAgree, TimelinesAgree DEF Contexts
  <2>2. (ReputationPanel = "visible") <=> (reviewOf[1] # 0)
    BY <1>1, RecordsOfStage DEF ReputationPanel, StageInv, DisplayByStage
  <2>3. SupportPanelSaysRejected <=> (decision[1].outcome = "rejected")
    <3>1. supportView # 0 <=> stage >= 6
      BY <1>1, RecordsOfStage DEF StageInv, DisplayByStage
    <3> QED
      BY <1>1, <3>1, RecordsOfStage DEF SupportPanelSaysRejected, NoDecision
  <2> QED
    BY <1>1, <2>1, <2>2, <2>3, CardsOffer DEF ViewsFollowRelationships
<1> QED
  BY <1>1, StageInvariant, PTL

-----------------------------------------------------------------------------
(* The types of everything, out of what is known of each part.             *)
LEMMA RowsTyped ==
  ASSUME NEW n, NEW S, NEW row \in S, NEW none \in S
  PROVE  From(n, row, none) \in [Numbers -> S]
BY DEF From

LEMMA DomainTyped ==
  ASSUME StageInv
  PROVE  DomainTypeOK
<1>1. /\ {ActorA, ActorB, ActorC, ActorD} = Users /\ {0, 1} \subseteq 0..MaxNumber
      /\ 1 \in Numbers
  BY FourActors, MaxNumberAssumption, Bounds DEF Numbers
<1>2. EvidenceRecords \in SUBSET RecordIds
  BY <1>1 DEF EvidenceRecords, RecordIds, PurchaseId, ReviewId, CaseId, DecisionId
<1>3. issuers \subseteq Users /\ late \subseteq Numbers
  BY <1>1 DEF StageInv, RecordsByStage
<1>4. credential \in [Numbers -> [holder : Users \union {NoUser},
                                  issuer : Users \union {NoUser}]]
  BY <1>1, RowsTyped DEF StageInv, RecordsByStage, NoCredential
<1>5. reviewOf \in [Numbers -> 0..MaxNumber]
  BY <1>1, RowsTyped DEF StageInv, RecordsByStage
<1>6. domainCase \in [Numbers -> [claimant : Users \union {NoUser},
                                  recipient : Users \union {NoUser},
                                  purchase : 0..MaxNumber]]
  BY <1>1, RowsTyped DEF StageInv, RecordsByStage, NoDomainCase
<1>7. decision \in [Numbers -> [issuer : Users \union {NoUser},
                                case : 0..MaxNumber,
                                outcome : Outcomes \union {"none"}]]
  BY <1>1, RowsTyped DEF StageInv, RecordsByStage, NoDecision, Outcomes
<1>8. domainRegulatory \in [Numbers -> [claimant : Users \union {NoUser},
                                        purchase : 0..MaxNumber]]
  BY <1>1, RowsTyped DEF StageInv, RecordsByStage, NoDomainRegulatory
<1>9. bridge \in [Numbers -> [authorizer : Users \union {NoUser},
                              recipient : Users \union {NoUser},
                              case : 0..MaxNumber,
                              records : SUBSET RecordIds]]
  BY <1>1, <1>2, RowsTyped DEF StageInv, RecordsByStage, NoBridge
<1>10. actions \subseteq ActionIds
  BY DEF StageInv, ScenarioInv
<1> QED
  BY <1>3, <1>4, <1>5, <1>6, <1>7, <1>8, <1>9, <1>10 DEF DomainTypeOK

(* The runtime by itself. *)
LEMMA FlagsOnlyRise ==
  ASSUME [Next]_programVars
  PROVE  /\ stopFailed' = TRUE \/ stopFailed' = stopFailed
         /\ closed' = TRUE \/ closed' = closed
<1>1. CASE UNCHANGED runtimeVars
  BY <1>1 DEF runtimeVars
<1>2. CASE WalletSteps
  BY <1>2 DEF WalletSteps, Create, Refuse, Build, Start, Synchronize,
              InitializationFails, CleanedUp, Stopped
<1>3. CASE Assemble \/ Close
  BY <1>3 DEF Assemble, Close
<1>4. CASE \E from, to : TestGoes(from, to)
  BY <1>4 DEF TestGoes
<1>5. CASE \E from : Finally(from)
  BY <1>5 DEF Finally
<1> QED
  BY <1>1, <1>2, <1>3, <1>4, <1>5
     DEF Next, AdvanceScenario, LiveTest, ReadCommitments, AnchorNext, QueryLedger,
         TestThrows, Application, Network, Ended, programVars

WalletTyped ==
  /\ phase \in Phases
  /\ wallet \in {"none", "built", "running", "stopped"}
  /\ stopCalls \in Nat

LEMMA WalletTypedStep ==
  ASSUME WalletTyped, [Next]_programVars
  PROVE  WalletTyped'
<1> USE DEF WalletTyped, Phases
<1>1. CASE UNCHANGED runtimeVars
  BY <1>1 DEF runtimeVars
<1>2. CASE WalletSteps
  BY <1>2 DEF WalletSteps, Create, Refuse, Build, Start, Synchronize,
              InitializationFails, CleanedUp, Stopped, Goes, CallStop
<1>3. CASE Assemble \/ Close
  BY <1>3 DEF Assemble, Close, Goes, CallStop
<1>4. CASE \/ TestGoes("ready", "deploying") \/ TestGoes("deploying", "connecting")
           \/ TestGoes("connecting", "anchoring")
           \/ TestGoes("anchoring", "querying")
  BY <1>4 DEF TestGoes, Goes
<1>5. CASE \E from : Finally(from)
  BY <1>5 DEF Finally, CallStop
<1> QED
  BY <1>1, <1>2, <1>3, <1>4, <1>5
     DEF Next, AdvanceScenario, LiveTest, ReadCommitments, AnchorNext, QueryLedger,
         TestThrows, Application, Network, Ended, programVars

LEMMA RuntimeStep ==
  ASSUME RuntimeTypeOK, [Next]_programVars
  PROVE  RuntimeTypeOK'
<1>1. WalletTyped'
  BY WalletTypedStep DEF RuntimeTypeOK, WalletTyped
<1>2. stopFailed' \in BOOLEAN
  BY FlagsOnlyRise, Zenon DEF RuntimeTypeOK
<1>3. closed' \in BOOLEAN
  BY FlagsOnlyRise, Zenon DEF RuntimeTypeOK
<1> QED
  BY <1>1, <1>2, <1>3 DEF RuntimeTypeOK, WalletTyped

(* Every variable of the two programs keeps its type, also what the        *)
(* network answers after a program has given up.                           *)
THEOREM ProgramsTypeCorrect == Spec => []TypeOK
<1>1. Init => RuntimeTypeOK /\ program \in Programs
  <2>1. Init => stopFailed \in BOOLEAN /\ closed \in BOOLEAN
    BY Zenon DEF Init, RuntimeInit
  <2>2. Init => WalletTyped /\ program \in Programs
    BY DEF Init, RuntimeInit, WalletTyped, Phases, Programs
  <2> QED
    BY <2>1, <2>2 DEF RuntimeTypeOK, WalletTyped
<1>2. RuntimeTypeOK /\ program \in Programs /\ [Next]_programVars
      => RuntimeTypeOK' /\ (program \in Programs)'
  BY RuntimeStep DEF Next, programVars
<1>3. StageInv /\ ProgramInv /\ RuntimeTypeOK /\ program \in Programs => TypeOK
  <2> SUFFICES ASSUME StageInv, ProgramInv, RuntimeTypeOK, program \in Programs
               PROVE  TypeOK
    OBVIOUS
  <2>1. Len(recorded) <= 4 /\ Len(timeline) = stage
    BY DEF StageInv, ScenarioInv, DisplayByStage, Written
  <2>2. /\ registered \subseteq Users /\ regulators \subseteq Users
        /\ registrant \in Users \union {NoUser}
        /\ {review, supportView} \subseteq {0, 1}
    BY FourActors DEF StageInv, DisplayByStage
  <2>3. ScenarioTypeOK
    BY <2>1, <2>2, DomainTyped DEF ScenarioTypeOK, StageInv, ScenarioInv
  <2> QED
    BY <2>3 DEF TypeOK, ProgramInv, IInv, Programs
<1> QED
  BY <1>1, <1>2, <1>3, StageInvariant, ProgramInvariant, PTL DEF Spec
=============================================================================
