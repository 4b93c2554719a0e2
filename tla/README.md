# A formal model of the information-flow platform

This directory is a TLA+ development of the application in this repository: a
web server on which organizations sell products, buyers review them and ask for
support, and regulators look at disputed cases, each seeing what was disclosed
to it and nothing else; and the programs that anchor commitments to what
happened on a public ledger. The modules are translated from `src/src/*.ts`,
`src/web/app.js`, `src/contracts/*.compact` and `src/migrations/*.sql`. TLC
checks their properties on small instances; TLAPS proves most of the safety
properties for every number of accounts, records, requests and calls.
`PROJECT.json` maps each definition to the lines it stands for, and lists the
runs, the hazards and the theorems.

Paths below are relative to the repository's `src/`, as in `PROJECT.json`:
`platform-demo.ts` is `src/src/platform-demo.ts`.

## 1. Inventory

| Part | State | Operations | Talks to |
|---|---|---|---|
| **Front end** `web/app.js` | the view, the last dashboard, a busy flag; the browser's cookie | one form, one request; fetch and render | HTTP server |
| **HTTP server** `demo-server.ts` | none | one route, one synchronous call of the platform; the session cookie | platform |
| **Platform** `platform-demo.ts` (`InformationFlowPlatform`) | maps of accounts by name, purchases, support and regulatory cases, number sequences; holders' secrets and keys | register, login; request and decide organizations, memberships, the regulator role; create products; grant and revoke authority; sell, review, request and decide support, escalate, verify; hydrate at start | policy, store, domain system |
| **Authorization policy** `authorization-policy.ts` | none | guards over rows of the store | store |
| **Store** `persistence.ts` and the schema | SQLite tables of accounts, sessions, requests, organizations, members, roles, products, grants, inbox, audit | one transaction per method | SQLite |
| **Domain system** `behavior-derived-system.ts` | maps of actors, grants, credentials, reviews, cases, decisions, bridges; a log of committed actions | each platform action once more, with signatures and proofs; every accepted action is committed to as an information flow | flow aggregate |
| **Flow aggregate** `information-flow.ts` | none (pure) | validate, canonicalise, hash | |
| **Four-actor scenario** `four-actor-scenario.ts` | a stage, a timeline, what was kept for display | nine steps; what each viewer is shown | domain system |
| **Registration** `register-information-flow.ts`, **Midnight anchor**, **contract** `information-flow.compact` | append-only commitments on a ledger | prepare, register (can be dropped, or taken with its answer lost), read | Midnight |
| **Midnight runtime** `midnight-*.ts` | wallet, providers, the joined contract; open or closed | build, start, synchronize, assemble, close | vendor SDKs |
| **Live test** `test/live-four-actor-scenario.ts` | none | scenario, wallet, deployment, one call per action, comparison, stop | scenario, runtime, contract |
| **Errors**, **start.sh** | none | an error class; start the server | |

How the parts meet:

* The server runs on Node's one thread and every platform method is synchronous
  from the request to the answer, so two requests never interleave inside a
  handler. This is what makes "one handler is one action" right, and why what
  can still go wrong there is of other kinds: a *sequence* of legal calls by
  several accounts, a *crash* between two transactions of one handler, *time*
  passing between a check and what it allows, and a *refusal half way* through
  a handler that has already changed something.
* State is in two places. The database keeps accounts, approvals, products and
  grants. The domain system, and everything about purchases and cases, is in
  memory; the constructor rebuilds the first part of it from the database
  (`#hydrateFoundation`) and the rest is lost.
* Both places decide: a sale is checked by the policy layer against the rows
  that are active *now*, and by the domain system against the grants it was
  ever told of. They have to agree.
* In the browser there is real concurrency: nothing is disabled while the page
  is busy, so that requests are under way together, reach the server in the
  order they like, and their answers come late, out of order or never.
* The network of the ledger is asynchronous as well: a transaction is taken or
  dropped, and a caller whose call failed cannot tell which.

### What makes each part correct

* **Approvals.** There is one administrator, and it has no stake in what it
  decides. Nobody decides about itself. Authority exists exactly where a request
  was approved, whatever crashes. A decision is final. No approval dies on a
  constraint of the schema that the request's checks should have foreseen.
* **Sessions.** The names and passwords that work are those of the database;
  a change of the administrator's login ends its sessions; registration never
  leads to administration; a session does not vanish for any other reason; the
  server can be started again.
* **Authority grants.** What is active in the database is known to the domain
  system, and what the dashboard shows as active is what counts, at the instant
  of expiry too; a sale rests on authority active at that instant; revoked or
  expired authority does not come back through a restart, a repair or a
  purchase; a product whose creation was cut short is completed.
* **Cases.** The platform's maps and the domain system's tell one story, also
  after a refusal. Nobody handles its own complaint. What is disclosed to a
  regulator belongs to one purchase of the buyer that authorized it. What the
  dashboard offers is accepted. Commitments are those of the records that
  exist. Results are final.
* **Domain system.** The same, without the platform's care: one review per
  credential, cases with the issuer, decisions by the recipient, bridges of one
  complete purchase, in whatever order anybody calls it, as long as new ids are
  written in their normal form. Whatever form they are written in, no record
  goes without a commitment, and decisions and bridges stay what they are.
* **Scenario.** The panels, which go by the stage and by names, agree with the
  relationships in the domain system.
* **Commitment registration.** A reply that is lost does not lose the
  commitment; a receipt names a commitment that is on the ledger; whatever is on
  the ledger can still be opened; the ledger only grows.
* **Midnight runtime.** Whatever was started is stopped, once, on every way out.
* **Front end and server.** What the page is told of a purchase happened. As
  long as requests do not overlap and no other tab logs in, it shows the account
  it acts for, until the browser drops the cookie. It is not busy for nothing.

`PROJECT.json` lists the hazards with the line where each one bites and the
properties that watch it.

## 2. Modules

| Module | Models | Kind |
|---|---|---|
| `Approvals` | requests and decisions, bootstrap of the administrator, crash and start | component |
| `AccountSessions` | registration, login, logout, expiry, rotation of the administrator's login at start | component |
| `AuthorityGrants` | products, grants, revocations, hydration and repair, sales | component |
| `InformationFlowAggregate` | which flows `canonicalInformationFlow` accepts | operators |
| `DomainRecords` | what each operation of the domain system accepts and stores; EXTENDS the aggregate | operators over its state |
| `DomainSystem` | the domain system used by anybody in any order, with ids in their normal form and in others; EXTENDS `DomainRecords` | component |
| `PurchaseJourney` | what is promised about one purchase | abstract specification |
| `CaseLifecycle` | purchases, reviews, support and regulatory cases of the platform over `DomainRecords`; implements the journey | component, composed |
| `FourActorScenario` | the nine steps of the acceptance scenario over `DomainRecords`, and what each viewer is shown | component, composed |
| `CommitmentLog` | what the public may expect of the ledger | abstract specification |
| `FlowRegistration` | preparation, calls, the network, the three fields of the contract; implements the log | component |
| `MidnightRuntime` | the life of the wallet and of a composition | component |
| `MidnightPrograms` | the live test and an application: EXTENDS scenario, registration and runtime | composition |
| `WebPage` | the page, the cookie, the server's routes, lost and late answers | component, composed |
| `Approvals_proofs`, `AuthorityGrants_proofs`, `AccountSessions_proofs`, `DomainSystem_proofs`, `CaseLifecycle_proofs`, `FlowRegistration_proofs`, `MidnightPrograms_proofs`, `WebPage_proofs` | theorems about the module of that name | proofs |
| `MC*` | instances for TLC: the controller of an organization, configurations, symmetry | model checking |

### Correspondence

**Approvals.** Each variable is a table (`createdBy`, `controllers`, `members`,
`regulators`, the three request tables, `accounts`, `admins`) or a piece of the
process (`phase`, `candidate`, `registrant` for the domain system's
organizations). An action is a handler together with the transaction it runs:
`RequestOrganization` is `requestOrganization` with
`createOrganizationRequest`, `DecideOrganizationRequest` is the handler, the
transaction (`CommitOrganizationDecision`) and the registration in the domain
system that follows. The primary keys and the partial unique indices of
`002_approval_workflows.sql` are modelled as what they do: an INSERT that meets
one throws and the transaction rolls back. `fault` records that this
happened to a call whose checks had passed. The places where a crash can leave
something are actions of their own: `DecideOrganizationThenCrash` (committed,
not registered) and the two-step bootstrap (`StartCreatesAccount`,
`AppointSystemAdministrator`, with `Crash` possible in between).

**AccountSessions.** `login` is the row of an account, `byName` the map that
logins are looked up in, `sessions` the session rows. The start follows
`#ensureBootstrapAdministrator`: the administrator of the configured name, or
the only administrator on record to be renamed, or a new account, or, when an
ordinary account has the name, an exception (no step). `openedWith` is not in
the code: it remembers the login at the time a session was opened, so that a
property can speak of it. Every look at a session deletes the expired ones,
and the model does it too.

**AuthorityGrants.** `grants` is the table, `Active` the WHERE clause of the two
queries, `Status` the dashboard's own computation, `known` what the domain
system was told. `CreateProduct` is three transactions, and
`CreateProductThenCrash` leaves after the first or the second. A start is
`Start` (load the active grants), `RepairCreatorGrant` as often as needed, and
`Serve`. `BuyFromSeller` and `BuyFromCreator` are the two ways a purchase from the
catalogue finds its issuer: the most recent active grant or, if nobody has any, a
new one for the creator. An expiration is a text: the model keeps the instant
it names and whether it has the ISO form, because `optionalFutureTimestamp`
compares text.

**DomainRecords and DomainSystem.** The maps of `BehaviorDerivedSystem`, and for
each operation a guard (`DomainAcceptsReview`, ...) and a write (`StoreReview`,
...). Whether a flow is accepted is the aggregate's `ValidFlow`, so that what the
code never states as a guard (the handler of a case must be the seller) is
found, not put in. `EarliestDecisions` and `ExpectedRecords` are the searches of
`#assertBridgeRecords`, which take the first match in the order of insertion.
The domain system never forgets a grant (`GrantAuthority` has no inverse), and
`#canReceiveRegulatoryEvidence` (`behavior-derived-system.ts:1486`) is not called
anywhere, so that a bridge goes to any registered actor. In `DomainSystem` the
operations are actions that anybody takes in any order. Most of them search their
map for a new id *as the caller wrote it* and store the record under what
`text()` makes of it (NFC, no blanks around it). The actions of `Careful` are
those with an id that is in this form already, as every id of the platform and
of the scenario is; the actions of `Careless` are those with another spelling,
which is not found and replaces what is stored: a grant, a credential, a review,
a support or a regulatory case. `BlankRefused` is a review or a case with a blank id: its
commitment is made before `text()` throws. Decisions and bridges reach
`#recordAction` under their normal form, which refuses the other spellings. `spent`
is the set of used nullifiers, which a replaced review leaves behind; `padded`
holds the cases whose `input.caseId` no decision can name; `careless` is history.
An id that a record shares with one of another kind leads to refusals only, and
is left out. The age of a purchase is the word of the caller of `requestSupport`;
the model takes it to be true, and no property depends on it.

**CaseLifecycle.** The platform's own maps, written by the same handlers as the
domain system's, in the order of the code. Numbers come from sequences; a number
drawn before the domain system refuses stays drawn (`PublishEmptyReview`,
`RequestSupportRefused`, the refusing branch of `Escalate`). `issuers` only
grows, as in the domain system; `handlers` are those whose grant to handle cases
is active, which comes and goes, and a decision needs it (`MayDecide`). Any member
can be granted it, one that never sold anything as well: such a handler gets no
case (first finding). Who sells or handles is a member and does not buy; a
former handler that never sold may buy in the model, though it is a member still,
so that the model allows a little more than the code.
`CanReview`, `CanEscalate`, `SupportInbox` and `AssignedCases` are the offers of
the dashboard.

**FourActorScenario.** `Step` is the guard and the increment of `advance()`; each
action is one of its nine cases with the calls of the domain system that it
makes. `PurchasePanel` and its like are `snapshot`, which decides by stage and
name; `DeriveCapabilities` is the domain system's derivation from events. A card
goes on offering a review after it was published: the property leaves that open.

**FlowRegistration.** A registration is prepared with a copy of the caller's
array; a call is `Send`, then the network's `Take`, then `Answer`, or `Fail` at
any time (dropped, or taken with the answer lost). `RegisterFlow` is the circuit.
Nothing stops a caller from sending one registration again: a lost answer and a
retry put one commitment at two positions, and the properties say what holds all
the same. The hash is injective.

**MidnightRuntime, MidnightPrograms.** `phase` is where the code that owns the
wallet stands, one value per `await`. Every SDK call settles, with a result or
an error; a wallet whose start failed may be running nonetheless. `Close` sets
its flag before it stops the wallet, as the code does: after a failed stop a
second `close()` does nothing, and a second caller returns before the wallet has
stopped. The live test and an application are two programs, one of them per
behaviour; the application uses the anchor in any way it wants.

**WebPage.** A request carries the cookie of the moment it was sent, and is
served in one go. `EndsAfterEffect` is the end that all handlers have in common:
`dashboard(token)` looks at the session once more, so that a purchase that was
made can be answered with 401; or an inbox row cannot be written, and it is
500. `Arrive` is the continuation of `perform`: render, toast, or a request of
its own (`GoesOn`). The administrator's form sends `/api/login` and then
`/api/logout` if the account is an ordinary one; `/api/administrator/login` is
not used by the page. Of the platform there are sessions, purchases and
replacement requests here, which is what the page can tell apart; the other
forms go through `perform` in the same way. The page is not alone. `Expire` ends
the row of a session on the server. The browser drops the cookie after its
`Max-Age` of an hour (`demo-server.ts:98`) and does not tell the page, which goes
on showing its dashboard: nothing sees it before the next request, so that it is a
choice of the request (`BrowserDropsCookie`). Both together are also a logout in another tab. `LoginInAnotherTab` puts
another session into the cookie that the tabs share; it is one of the requests
of the bound, and counts as an overlap, because the page goes on showing the
account of before. `BuyElsewhere` and `RequestElsewhere` are the same accounts in other
browsers. Behind the login forms no request depends on the cookie but that for
the dashboard after the first one, and so the cookie changes there only by
answers: the one to a login sets it anew. `overlapped` is history.

**Variants.** A comment "Variant:" marks an operator that stands for a plausible
bug in the definition below it. No specification uses them. Each property is
checked once more with one variant put in place of the real definition, and TLC
must then find it violated: this is how we know that the property depends on the
code.

## 3. Runs

| Run | Checks | Bounds | States | Result |
|---|---|---|---|---|
| `approvals` | types, administrators stand apart, no constraint fault, separation of duty, authority is approved, domain knows the organizations, decisions are final | 4 accounts, 2 organizations, 2 + 3 + 2 requests | 49 474 | holds |
| `account_sessions` | types, names match the database, administrator as configured, sessions follow credentials, sessions are kept | 3 accounts, 3 names, 2 passwords, 2 display names, 2 tokens, clock to 2 | 31 776 | holds |
| `authority_grants` | types, domain knows active grants, authority stays in its organization, shown authority counts, sales are authorized, authority comes from the controller | 3 accounts, 2 products, 4 grant ids, clock to 1 | 210 544 | holds |
| `grants_repair` | liveness: a product cut short is completed | 2 accounts, 1 product, 3 grant ids | 24 956 | holds |
| `case_lifecycle` | types and numbers, maps agree, handler is the seller, disclosure is of one own purchase, commitments match records, offers are accepted, implements `PurchaseJourney` | 3 accounts, 2 numbers of each sequence | 805 620 | holds |
| `midnight_programs` | views follow relationships, anchored is provable, receipts are anchored, the ledger is the scenario, no wallet is left running, implements `CommitmentLog`, programs give back (liveness) | the 4 actors, 1 number, 2 nonces, 4 registrations and calls; of the application 2 flows, 2 registrations, 3 calls | 162 326 | holds |
| `domain_system` | records agree for careful callers, records are committed, records stay | 3 users, 1 number of each kind | 556 604 | holds |
| `web_page` | types, answers are honest, a sequential page is current, busy means waiting | 2 accounts, 4 requests, 1 purchase at a time, 1 restart | 5 828 129 | holds |
| `case_support` | a request in time fails for want of a handler only | as `case_lifecycle` | | violated |
| `case_disclosure` | a regulator learns of a review only if the bridge discloses it | as `case_lifecycle` | | violated |
| `restartable` | a server that dies finitely often serves again | as `account_sessions`, one configuration | 22 899 | violated |
| `expiration` | a grant expires after it was issued | as `authority_grants` | | violated |

States are distinct states; with symmetry, representatives.

### Why the bounds are enough

* *approvals*: four accounts allow an administrator, a creator, a second member
  and one bootstrap that died; two requests for the same organization by different
  accounts, a rejection followed by a new request, and two memberships plus
  one repeated request all fit. The four kinds of ids are independent in the code:
  more of them repeat what these do.
* *account_sessions*: three names are enough for a rename to a free name and
  to one an ordinary account has; two tokens for sessions of two accounts or two
  sessions of one; a time to live of 1 and a clock to 2 for a session that
  expires and one opened afterwards. The four configurations of `Renamed`
  differ in name, in password and in display name only.
* *authority_grants*: a product takes two grants, so four ids leave two
  for a repair, a second seller or a re-creation; two products show that grants of
  one are no use for the other. Instants 0 and 1, and "never", contain before, at
  and after an expiry. One organization suffices, because a grant names its
  product, and a product its organization: a second one only renames.
* *case_lifecycle*: two numbers allow two purchases, two reviews and two cases
  that could be confused with each other, and a number lost to a refusal.
  Three accounts can each be seller, buyer and regulator in turn. The creator is
  distinguished and is never a regulator here; the other two are.
* *midnight_programs*: the scenario makes one record of each kind, so one number
  is all it can use, and the live test needs exactly four registrations and calls.
  An application with two registrations and three calls can send one twice, lose
  an answer and go on with the other; two nonces tell a kept copy from an array
  that was filled again.
* *domain_system*: with one number per kind every id is used again and again,
  which is what replaces records; the credential put in place of another is the
  second purchase. Three users can be buyer, seller and a stranger that is
  handler, recipient or new holder. Nothing tells users apart: all are symmetric.
  That records of different numbers are not mixed up is checked by
  `case_lifecycle` with two of each, and proved.
* *web_page*: four requests are the load of the page, a login and two that race,
  or a login of the administrator's form with its logout and one more, or a
  login in another tab in place of one of them. The administrator and one
  account give two accounts that take turns in one browser. One number suffices
  to mistake one purchase for another, because numbers start again with the
  server.
* Every bound is a constant that a guard names (`MaxTime`, `MaxNumber`, the sets
  of ids). `Crash` in the bootstrap is bounded by the ids left: the code draws a
  fresh UUID, the model has finitely many. Without that bound a model would be
  stuck where the code is not. Where a program comes to its end the model has a
  step that says so (`Ended`, `Done`).
* Deadlock is checked everywhere but in `restartable`, where the server
  really stays down: that is what the run shows.

### Fairness

Accounts do what they like, when they like: no fairness on any user's action.

* `ProductsAreRepaired` and `IsRestartable` assume only that the constructor is
  run again and goes on: weak fairness of `Restarting` (`Start`,
  `RepairCreatorGrant`, `Serve`) and of `Starting`. `start.sh` starts the server,
  the constructor is a synchronous loop without waiting, and nothing another
  action does can disable it for good except a crash; the properties say "if the
  process dies finitely often".
* `ProgramsGiveBack` assumes weak fairness of the scenario and of the live test,
  which run from beginning to end without waiting for anybody (`runToCompletion`,
  `main`); of the network, as a call of the SDK settles with a result or an
  error; and of the two places where a composition waits for its wallet to stop.
  Nobody has to use or close a composition.

Nothing bounds any delay. No fairness is assumed of the member that handles a
case: it may never decide, and if its grant ends it cannot
(`platform-demo.ts:1141`); the buyer then waits, for nothing in the code moves
the case on. No progress property is stated for cases for that reason.

### Findings

The four violated runs state what the repository says of itself.

1. **Support is refused though there is a handler** (`case_support`,
   `behavior-derived-system.ts:941`). The flow of a support request has the
   buyer and the *handler* as actors and the *issuer of the credential* as issuer
   of its claims; the aggregate refuses an issuer that is not an actor. Once a
   second member holds the most recent grant to handle cases, the buyers of
   everyone else cannot ask for a replacement: a TypeError, HTTP 500, instead of
   the one reason `platform-demo.ts:1098` gives. The good side of the
   same coin is `HandlerIsTheSeller`, which holds for no other reason.
2. **A disclosure is not bound to its records** (`case_disclosure`,
   `behavior-derived-system.ts:1301`). The verifier looks for a review of the
   purchase at the time of verification; one published after the escalation is
   reported to the regulator though the bridge does not contain it
   (`README.md:60-63` speaks of a record-bound bridge and an exact disclosure).
3. **The bootstrap is not restartable** (`restartable`, `platform-demo.ts:1671`).
   The administrator's account and its appointment are two transactions; a crash
   in between leaves an ordinary account with the configured name, and every
   later start throws (`platform-demo.ts:1617-1621`; `README.md:16` says
   "restartable"). An operator gets out by configuring another name, which
   is why the safety run has several configurations.
4. **An expiration may be past** (`expiration`, `platform-demo.ts:376`). The text
   is compared with the ISO text of now before it is converted; "Jan 1 2020" sorts
   after every ISO text. The grant is recorded, announced and never
   active (`platform-demo.ts:380` says it must be in the future).

Other things the models make visible:

* A reviewer is not always independent: of the reviewers only the buyer is
  excluded (`platform-demo.ts:1190`), and a member that is a regulator as well
  can be chosen for its own rejection.
* A "duplicate" id is not always refused (`Careless`). A credential is looked for
  under the id as it was written (`behavior-derived-system.ts:703`) and stored under
  the trimmed and normalized one (707, 728): the same id with a blank behind it
  replaces the stored credential. Reviews (807, 862), support cases (906, 966),
  regulatory cases (1124, 1130) and grants (641, 645) are alike. Nothing of the
  platform or of the scenario does this, as they write their ids in normal form.
* With requests that overlap, a late answer renders the dashboard of an earlier
  moment, or of the account that has just logged out (`web/app.js:862`).
  `SequentialPageIsCurrent` is about pages that wait; `busy` disables nothing.
* A button pressed twice buys twice, and so does a retry after a 401 or 500 that
  followed the purchase; a replacement is requested once in any case.
* A card from before a restart names whatever purchase has its number now; of
  another account's purchase nothing happens, of the same account's it does.
* A blank id of a review or a support case is refused, but leaves a commitment
  without a record (`behavior-derived-system.ts:860`, `:964`).
* After an hour the browser drops the cookie and the page goes on showing the
  dashboard; it offers a replacement that was requested in another browser until
  the next answer renders it anew.
* An expired session is told in a toast while the page goes on showing the
  dashboard; a session stays behind when the answer to a login, or the logout of
  the administrator's form, is lost.

## 4. Proofs

All theorems are of the form `Spec => []Inv`, `Spec => [][A]_vars` or
`Spec => Abstract!Spec`, for every value of the constants that satisfies the
named assumptions of the module: `NoUser` and its like are not members of the
sets they stand beside, bounds are natural numbers, controllers and creators are
accounts. `MidnightPrograms` needs room for the four actions of the scenario
(`Bounds`), and its four actors are four, none of them the operator or the
public (`FourActors`, the ids of `four-actor-scenario.ts:24-26` and `:139`).
`WebPage` needs room for two requests, those of the page when it is loaded with
a session (`BoundsAreNumbers`).

| Module | Theorems | Property |
|---|---|---|
| `Approvals_proofs` | `TypeCorrect`, `AdministratorApart`, `ConstraintsNeverBite`, `DutiesSeparated`, `DecisionsFinal`, `DomainAgrees`, `ApprovalConfers` | `TypeOK`, `AdministratorsStandApart`, `NoConstraintFault`, `SeparationOfDuty`, `DecisionsAreFinal`, `DomainKnowsOrganizations`, `AuthorityIsApproved` |
| `AccountSessions_proofs` | `SessionsTypeCorrect`, `NamesAgree`, `AdministratorConfigured`, `SessionsFollow`, `SessionsEndForAReason` | `TypeOK`, `NamesMatchDatabase`, `AdministratorAsConfigured`, `SessionsFollowCredentials`, `SessionsAreKept` |
| `AuthorityGrants_proofs` | `GrantsTypeCorrect`, `DomainKnows`, `AuthorityInside`, `ProductsGranted`, `ShownAuthority`, `SalesAuthorized`, `AuthorityFromController` | `TypeOK`, `DomainKnowsActiveGrants`, `AuthorityStaysInOrganization`, `ProductsAreGranted`, `ShownAuthorityCounts`, `SalesAreAuthorized`, `AuthorityComesFromController` |
| `DomainSystem_proofs` | `DomainRecordsAgree`, `DomainRecordsAreCommitted`, `DomainRecordsStay` | `CarefulRecordsAgree`, `RecordsAreCommitted`, `RecordsStay` |
| `CaseLifecycle_proofs` | `CasesTypeCorrect`, `PlatformAgreesWithDomain`, `SellerHandlesRequest`, `DisclosureIsOwn`, `CaseCommitmentsMatch`, `OffersHold`, `ResultsFinal`, `JourneyImplemented` | `TypeOK`, `MapsAgree`, `HandlerIsTheSeller`, `DisclosureIsOneOwnPurchase`, `CommitmentsMatchRecords`, `CaseOffersAreAccepted`, `ResultsAreFinal`, `ImplementsJourney` |
| `FlowRegistration_proofs` | `RegistrationsAreProvable`, `LedgerImplementsLog`, `ReceiptsStandForEntries` | `AnchoredIsProvable`, `ImplementsLog`, `ReceiptsAreAnchored` |
| `MidnightPrograms_proofs` | `WalletsAreStopped`, `ProgramsAnchorProvably`, `ProgramsImplementLog`, `LiveTestFindsScenario`, `ProgramsKeepReceipts`, `ViewsAgree`, `ProgramsTypeCorrect` | `NoWalletIsLeftRunning`, `AnchoredIsProvable`, `ImplementsLog`, `LedgerIsTheScenario`, `ReceiptsAreAnchored`, `ViewsFollowRelationships`, `TypeOK` |
| `WebPage_proofs` | `PageTypeCorrect`, `BusyOnlyWaiting`, `HonestAnswers`, `SequentialPage` | `TypeOK`, `BusyMeansWaiting`, `AnswersAreHonest`, `SequentialPageIsCurrent` |

The arguments:

**Approvals.** *TypeCorrect* is inductive by itself; the lemmas `PendingRow`,
`DecidedRow` and `InsertedRow` say what the three ways of writing a request table
preserve. *AdministratorApart* is not inductive: the account that the
constructor has created and not yet appointed is no administrator, so nothing
keeps it apart. `ApartInv` adds that a candidate is a recorded account that
nobody has involved in anything, that there is no administrator while one is
being appointed, and that only recorded accounts are involved.
*ConstraintsNeverBite* needs what the checks of the request methods have
established to hold still when the approval comes, perhaps much later:
`TablesInv`. *DutiesSeparated* takes `SeparationOfDuty` together with both: the
decider of an organization or a role is an administrator and the author of a
request is not; the decider of a membership created the organization and the
author did not. *DecisionsFinal* needs types only. *DomainAgrees* rests on
`RegistrationFollowsCommit`: the condition under which the transaction writes and
the one under which the handler registers are the same. *ApprovalConfers* needs
`TablesInv`: when an organization is approved it did not exist, so that no other
approval names it and the transaction does not roll back.

**AccountSessions.** `SessionsInv` adds to the properties `UniqueNames` (two
accounts never share a name), `NamesFollow` (the map is right from the moment the
constructor has built it, before anybody is appointed) and `Appointment` (while
somebody is being appointed it has the configured login and there is no
administrator, and nobody who registered is a candidate). *SessionsEndForAReason*
is an action property over this invariant.

**AuthorityGrants.** `GrantsInv` adds that controllers are members and that
nothing was issued later than now. The last is what makes a tick harmless: a
grant that is active after it was active before it. *ShownAuthority* relates the
dashboard's `<=` to the query's `>`. *SalesAuthorized* and
*AuthorityFromController* go through the handlers once more, with the lemmas on
what one inserted row changes.

**DomainSystem.** `RecordsAgree` is inductive over the steps of `Careful`, and
`careless` never becomes false again but with a restart, which forgets everything:
hence `CarefulRecordsAgree`. Each part has a lemma per action; `RecordsAreKept` says
that none of these steps but a restart changes a row, which carries the parts that
relate two maps over the steps of the others. What holds in spite of careless
callers needs next to nothing of that: `MapsOfNumbers` (the maps have numbers as
their domain, so that a written row is the one that was meant), and that every
action which stores a review, a case, a decision or a bridge goes through
`RecordAction`. A decision or a bridge is written where there was none, and a row
with a commitment keeps it, because the log of actions only grows.

**CaseLifecycle.** `CasesInv` is the largest invariant: types, `Agreement`
(sales, reviews, cases, rows and decisions in the two sets of maps are the same,
every sale is to somebody else, and every case is with the seller), `Escalations`
(a number of a regulatory case is either unused in all maps or used in all, for
a rejected case, with exactly its records) and the commitments. That the handler
is the seller comes out of `ValidFlow` alone. The heart is
`EscalationIsAccepted`: under the invariant the domain system takes every bridge
that the platform asks for, so that the refusing branch of `Escalate`, which
would leave a regulatory case half open, is never taken. For the refinement,
`JourneyIsSeen` shows that the journey of a purchase, which is defined by the
domain system's records with `CHOOSE`, is what the platform's row says;
each handler is then one step of the journey of one purchase (`OneGoesOn`), and a
crash is `Forget`.

**FlowRegistration.** `IInv`: registrations agree with what they commit to, and
every call under way carries the commitment of a registration that is kept. An
entry is appended at the count, so the function is a sequence (`LogIsASequence`)
and `Take` is the log's `Append`. *ReceiptsStandForEntries* counts: calls and
entries are intervals of numbers, so that all sets of them are finite, and
`TakeCounts` says that the step which takes a call adds one call and one entry to
its own commitment and none to another. With that the property is inductive.

**MidnightPrograms.** The wallet: `WalletInv` says for each phase what the wallet
can be and how often it was told to stop; in a composition that is closing the
flag is set, which is why `Close` cannot call `stop` again. The ledger: a step
of a program is a step of `FlowRegistration` or leaves it alone, or is the one
step in which the live test takes its registrations from the scenario
(`StepsOfRegistration`, `ReadingKeeps`), so the theorems about registrations
carry over. For *LiveTestFindsScenario*, `LoopInv` describes the loop that
awaits each answer before the next call: a call that has been sent follows
answered ones only, so entry `t - 1` can only be that of call `t`; together
with the count of actions by stage (`ScenarioInv`) the ledger holds exactly the
four when it is queried. *ViewsAgree* needs `StageInv`: at each of the nine stages
it says which records the domain system holds, between whom (`RecordsByStage`),
what the screens have been told (`DisplayByStage`) and which entries the timeline
has. Each step of the scenario is shown to lead from the records of its stage to
those of the next; that the domain system accepts the step is a part of that, and
so is that it cannot take another number than the first. The panels, the
timelines and the cards are then compared stage by stage (`PanelsAgree`,
`TimelinesAgree`, `CardsOffer`). `StageInv` gives the types of the
records, too.

**WebPage.** `IInv` says why requests cannot be confused although their answers
come in any order. Requests are sent one after the other (`OneByOne`), with room
for those that the handlers of their answers will make (`HasRoom`). A token is
named after the login that made it, and while that login is not served nobody
carries its token (`TokensAreOpened`): so a session that has ended stays ended,
which the promises about refusals and logouts rest on (`LogoutsEnd`). An answered
dashboard is that of the account of the request's token (`AnswersAreTheirs`), the
next number of a purchase is one that nobody has (`PurchasesInOrder`), and a
replacement that has been carried out in this life of the server is stored with
the purchase of its account (`EffectsAreStored`); rows of an earlier life have a
smaller epoch. `Steps` sums up the model in four kinds of steps: a new request of
the user, a request that is served (`Served`, what any of the six handlers may
do), an answer that arrives or is lost (`ArrivedRows`, `Follows`), and what goes
on without the page (`Elsewhere`). The three properties are then inductive with
a little help each. *HonestAnswers*: `Told` and `OnceEach`, where a second effect
would contradict `EffectsAreStored`. *BusyOnlyWaiting*: `BusyInv` names the
requests that count, any but the two that the page makes by itself, so that the
answer to one of these cannot leave the page waiting for nothing.
*SequentialPage*: `SequentialInv` describes the one request that may be under way,
which carries the cookie of the browser, and was sent from the view that is still
shown. What other browsers
do makes purchases that no answer shows yet and requests of which the page does
not know, so that the offers of the page are compared with its own requests
(`RequestedHere`).

Each invariant was checked by TLC on the instances of the runs before it was
proved.

**Only proved.** `ProductsAreGranted`, `ResultsAreFinal` and the types of
`MidnightPrograms` are in no run.

**Only model-checked.** Every invariant, action property and refinement that the
passing runs check is proved. Left to TLC, because the prover does not
reach them: liveness under fairness and anything with ENABLED
(`ProductsAreRepaired`, `ProgramsGiveBack`). Induction over data (what
canonicalisation computes for every input) is neither modelled nor proved. The
violated runs refute what they state, so there is nothing to prove about them.

## 5. Assumptions of the models

* The clock does not go back. (`Date.now` may; the hazard list says where.)
* One server process per database file.
* Random UUIDs, tokens and nonces do not repeat; nobody guesses a token;
  signatures are unforgeable and the platform holds the secrets of its
  accounts, so that the domain system's checks of them succeed. Different flows
  or nonces have different commitments.
* A SQLite transaction commits whole or not at all. A statement fails only on
  a constraint, except where `WebPage` lets the inbox rows fail.
* An answer of the server arrives whole or not at all. Each call of the Midnight
  SDK settles.
* Names, texts, hashes, notes, inbox and audit rows are left out: they are
  written in the same transactions and nothing that decides reads them.

## 6. Not modelled, and why

* Parsing of bodies, static files and rendering; the forms and routes beyond
  sessions, purchases and replacement requests, which go through the same
  `perform` and the same end of the handler and differ in the platform call only.
* The privacy checks of the scenario's snapshot, which compare texts, and the
  texts that it shows.
* The canonical text of a flow, Unicode normalization and the limits of size:
  pure functions without a state. The thirty days are kept as "over or not",
  without the arithmetic at their last instant.
* The tables that no code writes (`purchases`, `support_cases`,
  `commitment_submissions`, ...) and the migration runner: there is no behaviour
  to model yet.
* Encryption of stored keys, signatures and hashes: pure functions whose property
  would be cryptographic.
* The vendor's configuration of providers and the balancing of transactions,
  which are single calls of the SDK; the Lace connector and the deployment
  scripts.
* Error classes and shell plumbing: no state.

## 7. Plan

Done, in this order: `Approvals` with the first proofs; `AuthorityGrants`;
`CaseLifecycle` over the aggregate, refining `PurchaseJourney`;
`AccountSessions`; the domain system by itself, under the platform and under the
scenario; registration, ledger, runtime and the two programs over them; the page
and the server; the proofs of every safety property of the runs.

Left:

1. Canonicalisation as an operator, against a reference definition, over bounded
   flows; the arithmetic of the thirty days, with a clock that is set back.
2. A retry after the collision of two grants within one millisecond
   (`001_wave_2_foundation.sql:73`).
3. That the sales, cases and sessions of `CaseLifecycle`, `AuthorityGrants` and
   `AccountSessions` implement what `WebPage` says of the platform.

## 8. Running it

```
tlc -workers 2 -config MCApprovals.cfg MCApprovals.tla
tlapm Approvals_proofs.tla
```

Each `cfg` belongs to the MC module named in `PROJECT.json` "runs". The longest
run, `case_lifecycle`, takes a little under three minutes by itself, all the proofs
together a few minutes.
