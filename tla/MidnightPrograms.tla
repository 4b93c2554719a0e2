--------------------------- MODULE MidnightPrograms ---------------------------
(***************************************************************************)
(* The programs that use the Midnight runtime, one of them in a behaviour: *)
(*                                                                         *)
(*   the live test (test/live-four-actor-scenario.ts) completes the        *)
(*   scenario, builds a wallet, deploys a contract, connects to it,        *)
(*   anchors the commitment to each action in order, compares the public   *)
(*   ledger with the scenario and stops the wallet;                        *)
(*                                                                         *)
(*   an application uses a composition over a contract that is deployed:   *)
(*   it prepares registrations, calls the anchor, again if it wants to,    *)
(*   and closes.                                                           *)
(***************************************************************************)
EXTENDS FourActorScenario, FlowRegistration, MidnightRuntime

CONSTANTS
  FlowsOfApplication,  \* bound: the flows that the application commits to,
  MaxOfApplication,    \*        the registrations that it prepares,
  MaxCallsOfIt         \*        its calls of registerFlow

ASSUME Scenario == Flows = ActionIds /\ FlowsOfApplication \subseteq Flows

(* Room for the four actions of the scenario, and for the application.     *)
ASSUME Bounds ==
  /\ MaxNumber >= 1 /\ MaxPrepared >= 4 /\ MaxCalls >= 4
  /\ MaxOfApplication \in 0..MaxPrepared /\ MaxCallsOfIt \in 0..MaxCalls

VARIABLE program

programVars == <<program, scenarioVars, registrationVars, runtimeVars>>

Init ==
  /\ program \in {"live-test", "application"}
  /\ ScenarioInit
  /\ RegistrationInit
  /\ RuntimeInit

-----------------------------------------------------------------------------
(* The live test. *)

AdvanceScenario ==
  /\ program = "live-test"
  /\ Advance
  /\ UNCHANGED <<registrationVars, runtimeVars>>

(* scenario.commitmentRecords(): the domain system made the commitments    *)
(* and keeps the flows and their nonces (#recordAction).                   *)
ReadCommitments(nonce) ==
  /\ ScenarioIsComplete
  /\ registration = [i \in Registrations |-> NoRegistration]
  /\ registration' = [i \in Registrations |->
       IF i \in DOMAIN recorded
       THEN [flow |-> recorded[i],
             commitment |-> CommitInformationFlow(recorded[i], nonce),
             nonce |-> nonce]
       ELSE NoRegistration]
  /\ UNCHANGED <<nonceBytes, call, ledger, scenarioVars, runtimeVars>>

TestRecords == {i \in Registrations : registration[i] # NoRegistration}

(* The loop over the commitments: it awaits each call before the next. *)
AnchorNext ==
  /\ phase = "anchoring"
  /\ \E t \in TestRecords :
       /\ \A s \in 1..(t - 1) : call[s].status = "answered"
       /\ Send(t, registration[t].commitment)
  /\ UNCHANGED <<scenarioVars, runtimeVars>>

(* Variant: the deployment comes before the try block. *)
TestThrowsBeforeTry ==
  \/ TestGoes("ready", "ended") \/ TestGoes("deploying", "ended")
  \/ Finally({"connecting", "querying"})
  \/ (\E t \in Calls : call[t].status = "failed") /\ Finally({"anchoring"})

TestThrows ==
  \/ Finally({"ready", "deploying", "connecting", "querying"})
  \/ (\E t \in Calls : call[t].status = "failed") /\ Finally({"anchoring"})

(* Variant: the query does not wait for the last call. *)
QueryWhenSent ==
  /\ \A t \in TestRecords : call[t].status \in {"sent", "taken", "answered"}
  /\ TestGoes("anchoring", "querying")

QueryLedger ==
  /\ \A t \in TestRecords : call[t].status = "answered"
  /\ TestGoes("anchoring", "querying")

LiveTest ==
  /\ program = "live-test"
  /\ \/ \E nonce \in Nonces : ReadCommitments(nonce)
     \/ AnchorNext
     \/ /\ TestRecords # {}
        /\ \/ WalletSteps
           \/ TestGoes("ready", "deploying")
           \/ TestGoes("deploying", "connecting")
           \/ TestGoes("connecting", "anchoring")
           \/ QueryLedger
           \/ Finally({"querying"})
           \/ TestThrows
        /\ UNCHANGED <<scenarioVars, registrationVars>>

-----------------------------------------------------------------------------
(* The application. *)

UseAnchor ==
  /\ phase = "open"
  /\ \/ \E nonce \in Nonces : FillNonce(nonce)
     \/ \E i \in 1..MaxOfApplication, flow \in FlowsOfApplication :
          /\ \A j \in 1..(i - 1) : registration[j] # NoRegistration
          /\ Prepare(i, flow)
     \/ \E t \in 1..MaxCallsOfIt, i \in Registrations :
          /\ \A s \in 1..(t - 1) : call[s] # NoCall
          /\ registration[i] # NoRegistration
          /\ Send(t, registration[i].commitment)

Application ==
  /\ program = "application"
  /\ \/ UseAnchor /\ UNCHANGED runtimeVars
     \/ (WalletSteps \/ Assemble \/ Close) /\ UNCHANGED registrationVars
  /\ UNCHANGED scenarioVars

-----------------------------------------------------------------------------
(* The network takes a transaction even when the wallet that sent it has   *)
(* stopped, and answers to a program that may have given up.               *)
Network ==
  /\ \E t \in Calls : Take(t) \/ Answer(t) \/ Fail(t)
  /\ UNCHANGED <<scenarioVars, runtimeVars>>

(* The program has come to its end. *)
Ended ==
  /\ phase \in {"ended", "refused"}
  /\ UNCHANGED <<scenarioVars, registrationVars, runtimeVars>>

Next ==
  /\ AdvanceScenario \/ LiveTest \/ Application \/ Network \/ Ended
  /\ UNCHANGED program

(* The scenario and the test run without a pause (runToCompletion, main);  *)
(* a call of the SDK settles; nobody needs to close a composition.         *)
Fairness ==
  /\ WF_programVars(AdvanceScenario /\ UNCHANGED program)
  /\ WF_programVars(LiveTest /\ UNCHANGED program)
  /\ WF_programVars(Network /\ UNCHANGED program)
  /\ WF_programVars(Application /\ CleanedUp /\ UNCHANGED program)
  /\ WF_programVars(Application /\ Stopped /\ UNCHANGED program)

Spec == Init /\ [][Next]_programVars /\ Fairness

-----------------------------------------------------------------------------
TypeOK ==
  /\ program \in {"live-test", "application"}
  /\ ScenarioTypeOK /\ RegistrationTypeOK /\ RuntimeTypeOK

(* What the live test asserts of the ledger when it gets there: as many    *)
(* entries as actions, each in the place of its action, and the last one   *)
(* as the latest (test/live-four-actor-scenario.ts:136-153).  It rests on  *)
(* the loop that awaits one answer before it sends the next commitment.    *)
LedgerIsTheScenario ==
  program = "live-test" /\ phase = "querying" =>
    /\ flowCount = Len(recorded)
    /\ \A i \in DOMAIN recorded :
         flowCommitments[i - 1] = registration[i].commitment
           /\ registration[i].flow = recorded[i]
    /\ flowCommitment = registration[Len(recorded)].commitment

(* Both programs give their wallet back.  The live test comes to its end,  *)
(* through all nine steps of the scenario or with an error, and its wallet *)
(* has been told to stop by then: no step of the scenario is refused by    *)
(* the domain system, no answer is awaited that cannot come, and every     *)
(* error leads to the finally block.  A composition that is told to close  *)
(* ends with its wallet stopped, or with the error of the wallet.          *)
ProgramsGiveBack ==
  /\ (program = "live-test") ~>
       /\ ScenarioIsComplete /\ phase \in {"ended", "refused"}
       /\ wallet \in {"built", "running"} => stopCalls = 1
  /\ closed ~> wallet = "stopped" \/ stopFailed
=============================================================================
