--------------------------- MODULE MidnightRuntime ---------------------------
(***************************************************************************)
(* The life of the local Midnight wallet: how it is built, started and     *)
(* synchronized (src/midnight-wallet.ts), assembled with the providers     *)
(* into a composition and closed (src/midnight-composition.ts), or used    *)
(* by a test that stops it (test/live-four-actor-scenario.ts).             *)
(*                                                                         *)
(* Every call of the SDK settles, with a result or an error.  A wallet     *)
(* whose start failed may be running all the same.                         *)
(***************************************************************************)
EXTENDS Naturals

VARIABLES
  phase,               \* where the code that owns the wallet stands
  wallet,              \* the wallet itself
  stopCalls,           \* calls of wallet.stop()
  stopFailed,          \* one of them failed
  closed               \* the flag of close()

runtimeVars == <<phase, wallet, stopCalls, stopFailed, closed>>

Phases == {"idle", "building", "starting", "synchronizing", "cleaning",
           "refused", "ready", "open", "deploying", "connecting",
           "anchoring", "querying", "stopping", "ended"}

RuntimeInit ==
  /\ phase = "idle"
  /\ wallet = "none"
  /\ stopCalls = 0
  /\ stopFailed = FALSE
  /\ closed = FALSE

Goes(from, to) == phase = from /\ phase' = to

(* The call of wallet.stop(), up to its await. *)
CallStop == stopCalls' = stopCalls + 1

(* createLocalMidnightWallet is called; before it, a composition looks at  *)
(* its contract.                                                           *)
Create ==
  /\ Goes("idle", "building")
  /\ UNCHANGED <<wallet, stopCalls, stopFailed, closed>>

(* assertContract, assertLocalEnvironment, readSecret or the builder of    *)
(* the SDK throws: there is no wallet yet.                                 *)
Refuse ==
  /\ Goes("idle", "refused") \/ Goes("building", "refused")
  /\ UNCHANGED <<wallet, stopCalls, stopFailed, closed>>

Build ==
  /\ Goes("building", "starting")
  /\ wallet' = "built"
  /\ UNCHANGED <<stopCalls, stopFailed, closed>>

Start ==
  /\ Goes("starting", "synchronizing")
  /\ wallet' = "running"
  /\ UNCHANGED <<stopCalls, stopFailed, closed>>

Synchronize ==
  /\ Goes("synchronizing", "ready")
  /\ UNCHANGED <<wallet, stopCalls, stopFailed, closed>>

(* Variant: only a wallet that has been started is stopped. *)
InitializationFailsUncleaned ==
  \/ /\ Goes("starting", "refused")
     /\ wallet' \in {"built", "running"}
     /\ UNCHANGED <<stopCalls, stopFailed, closed>>
  \/ /\ Goes("synchronizing", "cleaning")
     /\ CallStop
     /\ UNCHANGED <<wallet, stopFailed, closed>>

(* start() or waitForSyncedState() throws: the wallet is stopped. *)
InitializationFails ==
  /\ \/ Goes("starting", "cleaning") /\ wallet' \in {"built", "running"}
     \/ Goes("synchronizing", "cleaning") /\ UNCHANGED wallet
  /\ CallStop
  /\ UNCHANGED <<stopFailed, closed>>

(* createInformationFlowComposition has its wallet: it makes the providers *)
(* and the anchor, and stops the wallet if it cannot.                      *)
Assemble ==
  \/ /\ Goes("ready", "open")
     /\ UNCHANGED <<wallet, stopCalls, stopFailed, closed>>
  \/ /\ Goes("ready", "cleaning")
     /\ CallStop
     /\ UNCHANGED <<wallet, stopFailed, closed>>

(* wallet.stop().catch(() => undefined): the first error is thrown again,  *)
(* whether the wallet has stopped or not.                                  *)
CleanedUp ==
  /\ Goes("cleaning", "refused")
  /\ \/ wallet' = "stopped" /\ UNCHANGED stopFailed
     \/ stopFailed' = TRUE /\ UNCHANGED wallet
  /\ UNCHANGED <<stopCalls, closed>>

(* Variant: close() sets the flag and leaves the wallet alone. *)
CloseWithoutStop ==
  /\ phase \in {"open", "stopping", "ended"}
  /\ ~closed
  /\ closed' = TRUE
  /\ UNCHANGED <<phase, wallet, stopCalls, stopFailed>>

(* close(): the flag is set before the wallet has stopped, and a later     *)
(* call returns at once.                                                   *)
Close ==
  /\ phase \in {"open", "stopping", "ended"}
  /\ ~closed
  /\ closed' = TRUE
  /\ phase' = "stopping"
  /\ CallStop
  /\ UNCHANGED <<wallet, stopFailed>>

(* The stop of close(), or of the test, settles; an error is thrown. *)
Stopped ==
  /\ Goes("stopping", "ended")
  /\ \/ wallet' = "stopped" /\ UNCHANGED stopFailed
     \/ stopFailed' = TRUE /\ UNCHANGED wallet
  /\ UNCHANGED <<stopCalls, closed>>

WalletSteps ==
  \/ Create \/ Refuse \/ Build \/ Start \/ Synchronize
  \/ InitializationFails \/ CleanedUp \/ Stopped

-----------------------------------------------------------------------------
(* The test stops its wallet in a finally block, however it got there. *)
Finally(from) ==
  /\ phase \in from
  /\ phase' = "stopping"
  /\ CallStop
  /\ UNCHANGED <<wallet, stopFailed, closed>>

(* One of its steps that do not change what is modelled here. *)
TestGoes(from, to) ==
  /\ Goes(from, to)
  /\ UNCHANGED <<wallet, stopCalls, stopFailed, closed>>

-----------------------------------------------------------------------------
RuntimeTypeOK ==
  /\ phase \in Phases
  /\ wallet \in {"none", "built", "running", "stopped"}
  /\ stopCalls \in Nat
  /\ stopFailed \in BOOLEAN /\ closed \in BOOLEAN

(* A wallet is never left running with nobody to stop it, on any way out   *)
(* of the code that made it ("Do not leave network subscriptions alive     *)
(* when initialization fails", "The caller owns the returned wallet"):     *)
(* unless the wallet itself failed to stop.  And it is stopped once,       *)
(* however often close() is called.                                        *)
NoWalletIsLeftRunning ==
  /\ phase \in {"refused", "ended"} /\ ~stopFailed =>
       wallet \in {"none", "stopped"}
  /\ stopCalls <= 1
=============================================================================
