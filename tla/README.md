# A verification project for ControlSpec

TLA+ modules, TLC configurations and TLAPS proofs for the Python reference
implementation of ControlSpec: a stateless evaluation core that decides whether
an agent's exact action may proceed, a reference service in front of it, and the
OpenShell demonstration, which turns one permissive decision into one ticket and
one ticket into at most one purchase, and the enterprise side, which selects
policy versions, maps its records to the core and defines the contracts of what
an enterprise files.

Paths below are relative to `src/backend/src/assurance/controlspec/` unless they
start with `src/`. `PROJECT.json` maps every definition that models code to its
lines, lists the runs, the hazards and the theorems.

## 1. The system

### 1.1 Components

| Component | State it keeps | Operations | Modelled by |
|---|---|---|---|
| Demo engine (`openshell_demo/engine.py`) | events in its ledger; per key the latest state | evaluate, pending, approve, authorize, reconcile | `DemoEngine` |
| Demo target (`openshell_demo/target.py`) | purchase events in a ledger of its own | commit, commit_unguarded | `SyntheticTarget` |
| Demo ledger (`openshell_demo/ledger.py`) | a SQLite table of hash-chained events, one write lock | transaction, append, latest, events, verify | `Ledger` |
| Synthetic policy (`openshell_demo/policy.py`) | none (a control set fixed at start) | build intent and facts, evaluate | `SyntheticPolicy`, `Evaluated` in `DemoEngine` |
| Supervisor middleware (`middleware.py`, `auth.py`) | an engine; otherwise none | EvaluateHttpRequest, Describe, ValidateConfig | `Forward`, `ThreadStep` in `OpenShellSystem` (calls, not wire format) |
| Operator CLI (`cli.py`) | none | approve: show, ask, approve | `Inspect`, `CallApprove`, `GiveUp` in `DemoEngine` |
| Evaluation core (`predicate.py`, `selection.py`, `requirements.py`, `composition.py`, `evaluator.py`) | none | evaluate | `ControlEvaluation` |
| Recheck and receipts (`recheck.py`, `receipt.py`) | none | recheck, assess_receipt | `ControlEvaluation` |
| Facts, contracts (`facts.py`, `contracts.py`) | none: validated values bound by digest | validators | `PortableContracts`, the records of `ControlEvaluation` |
| Reference service (`reference_service.py`) | a cache of fact providers | decide, recheck, assess_receipt, catalog reads | `ReferenceService`, `ScenarioProvider` |
| Reference catalog (`reference_catalog.py`) | an immutable release | resolve packs and controls | `Resolve`, `Resolves` in `ReferenceService` |
| Selection runtime (`src/backend/src/assurance/runtime/selection.py`) | none: a catalog of versions and their event chains is its input | select, select_complete | `PolicySelection` |
| Enterprise profile (`mapping.py`, `profiles/`) | none | map versions, intents, decisions, approvals and receipts; attest; provide facts | `SupplierProjection` |
| Enterprise contracts: advancement (`src/backend/src/assurance/contracts/objects.py`) | none: validated records | validators from restriction to review result | `AdvancementContracts`, `Advancement` |
| Enterprise contracts: actions, production, workflows (`objects.py`, `workflow.py` of the same directory) | none: validated records | validators from human decision to receipt events | `RecordContracts`, `WorkflowContracts`, `ActionRecords` |
| Enterprise contracts: policy items (`objects.py`) | none: validated records | items of a module, decisions about them, versions | `PolicyItems`, `ItemDecisions` |
| API models, HTTP API, client | none | serialisation, transport, response checks | not modelled |
| Enterprise contracts: shared types; canonicalisation, authoring, conformance, export, repository tools | none | encode, build files | not modelled |

### 1.2 How they interact

A request reaches the **middleware**, which derives a scope from the
authenticated sandbox and calls the **engine**. The engine runs every operation
in one **ledger** transaction: it reads the clock, waits for the ledger's write
lock, reads the latest state event of the key (scope, action id), evaluates the
action with the **evaluation core**, and appends events. `approve` is run by an
operator in another process on the same ledger file. A reservation is answered
with a signed ticket; the supervisor carries it in a header to the **target**,
which checks it and records the purchase in a second database. The receipt comes
back through whoever called, and `reconcile` compares it with the reservation.
The **reference service** uses the same core without any memory: the caller
brings back the decision it wants rechecked, and facts come from the packaged
scenarios.

On the **enterprise** side a catalog holds immutable policy versions and, for
each, a hash-linked chain of lifecycle events. The **selector** derives what is
in force at a trusted time. The **mapping** turns versions into controls and
intents and decisions into their portable forms; the **profile** attests a
portable decision only if it is the mapping of a decision that was retained, and
its fact providers feed that to the core. The **contracts** say when a single
enterprise record is well formed; the services that file records are not in the
repository.

### 1.3 What is hard

* Two threads, an operator and a restarted process share one ledger file; each
  samples the clock *before* it waits (up to 15 s) for the lock.
* The operator confirms what one transaction showed in another one.
* `approve` commits the approved state even when it then answers a denial.
* Reservation and purchase are in two databases no transaction spans; tickets
  and receipts are lost, late, repeated or presented beside another body.
* A process can die between a reservation and the return of its ticket, or
  between two appends of one transaction.
* A process restarted with other controls meets actions filed under the old ones.
* The core is pure, so what goes wrong goes wrong between calls: approvals that
  ran out, controls published or retired, decisions rechecked later.
* The stateless service must judge decisions that callers may have edited.
* A double-checked cache is filled by concurrent request threads.
* Lifecycle events take effect at times that differ from their order in the
  chain; a replay must select what was selected.
* A projection claims a status from the end of a chain, while the selector goes
  by time; decisions are mapped, edited, and mapped again.
* Each validator sees one record and the tables it is pinned to. What is wanted
  holds of the whole file: four hands, one permit for a review, nothing advanced
  from a frozen draft, one tenant.
* A decision about the items of a policy module keeps a copy of the module, which
  is edited and cited afterwards.

The complete list, with the line where each bites and the properties that would
notice, is under `hazards` in `PROJECT.json`.

## 2. The modules

```
PurchaseDomain ---- DemoEngine ------+
      |                              +--- OpenShellSystem --- MCOpenShellSystem (+ SyntheticPolicy)
      +------------ SyntheticTarget -+         |   |
      +------------ OneUseAuthority <-refines--+   +-- OpenShellSystem_proofs
Ledger --- Ledger_proofs
   +--refines--> AtomicLedger
PortableContracts --- ControlEvaluation --- EvaluationSession --- MCEvaluation
      |                       |        |            +--- EvaluationSession_proofs
      |                       |        +--- ReferenceService ---- MCReference
      |                       |                     +--- ReferenceService_proofs
      +--- PolicySelection ---+--- SupplierProjection --- EnterpriseSystem --- MCEnterprise
                                                               +--- EnterpriseSystem_proofs
ScenarioProvider --- ScenarioProvider_proofs
AdvancementContracts --- Advancement ----------------+
RecordContracts --- WorkflowContracts - ActionRecords+-- RecordStore --- MCRecords
PolicyItems ------- ItemDecisions -------------------+        +--- RecordStore_proofs
```

`ControlEvaluation_proofs` extends `ControlEvaluation` with lemmas about its operators;
the proofs about the session, the service and the enterprise extend it.

A definition whose comment begins with "Fault" is no part of a model. It is a
bug the code might have had, put in place of the definition that follows it to
see that the property aimed at it does notice.

### 2.1 The OpenShell demonstration

`PurchaseDomain` is the shared vocabulary: keys, requests, policies, tickets,
receipts and the clock. `Verdict(p, r)`, what control set `p` says of request `r`
with no facts, is a parameter, so what is proved holds for every control set;
`SyntheticPolicy` gives it the value of the shipped one.

`DemoEngine` has two steps per operation. `CallX` fixes the clock reading, `X` is the
whole transaction, with every append it makes. In between anything else may happen,
which is the wait for the lock; the wait is not bounded by 15 s here, which allows more
behaviours. One step per transaction is justified by `BEGIN IMMEDIATE`: readers and
writers alike hold the one write lock from the first statement to the commit. That
appends under this lock, with rollback, amount to one step is the refinement
`ImplementsAtomicLedger` of `Ledger`; that nothing a handler has read is out of date
when it writes is `ReadsStayCurrent`. The ledger is seen as the engine sees it, through
`Ledger.latest`: `ledger`, `denied` and `reconciled` are the latest state, denied and
reconciliation event of each key. `policy` is the control set each process was started
with, `call` what each worker is doing. `consent` is a history variable: it records
which request was on the operator's screen when an approve run ended in success.
`Restart` kills a process with all its calls, answers not yet returned included, and
starts it with any control set.

`Refusal` is the prefix of `_evaluate` that raises `DemoDenied`, in the code's
order; `Evaluated` the evaluation with the stored approval facts, in which an
approval by the actor itself blocks (`requirements.py`, independence);
`ReservationRefusal` and `ApprovalRefusal` are the early exits of `authorize` and
`approve`, in the code's order. `approve` takes its request from the ledger at
`Inspect` because that is what the CLI does; the other callers in the
repository are tests, the recorder and the runtime probe, which show nobody
anything.

`SyntheticTarget` does the same for the target: `Accept` is `commit` up to the
transaction (window and body are checked there, before the lock), `Commit` the
transaction, `Answer` and `LoseCall` what becomes of the answer. A receipt
reaches `receipts` only through `Answer`.

`OpenShellSystem` joins them. `wire` is the set of tickets that left the engine,
and any of them may be delivered any number of times beside any request. What is
presented to `reconcile` is nothing, a genuine receipt, or one made up from a
ticket without the target's key. `OneUseAuthority` is what the whole promises
without clocks, calls, processes or databases; `Authority == INSTANCE ... WITH`
is the refinement mapping.

`Ledger` opens the transaction up: connections, the lock, appends one at a time, commit,
rollback, death, busy timeout. `AtomicLedger` is what a handler relies on: a call asks
for a batch, and the batch joins the log whole at one instant or not at all; `Atomic ==
INSTANCE ... WITH` maps to it what readers of the rows find. A hash is the sequence of
the payloads it covers, so it is injective as SHA-256 is taken to be. SQLite's journal
is external to the repository and taken to undo a transaction cut short.

### 2.2 The evaluation core

`PortableContracts` is what the validators let through. The controls a run
enumerates are assumed well formed in this sense, an assumption TLC evaluates, so
every input is one the program can meet; a decision or a receipt that its own
contract refuses is an error of the call that makes it (`AcceptableDecision`,
`AcceptableReceipt`).

`ControlEvaluation` is the core as pure operators, one per function of the code:
`EvaluatePredicate`, `SelectControls`, `AssessRequirements`, `Compose`,
`Evaluate`, `Recheck`, `AssessReceipt`. Values are their own digests; `sealed`
says whether the digest that came with a value is its digest. `None` is a raised
`ValueError`. A predicate's document is a function on the paths that resolve. A
route is reduced to its kind, whether it demands a recheck, and `order`, its place
in the canonical order by which the code picks among several.

`EvaluationSession` is a host around it: it publishes and retires controls,
files approvals of decisions it holds and evidence of actions, lets time pass,
and between any two of these evaluates, rechecks or asks for a receipt. An
approval names the decision it answers and begins when it is given, as
`ApprovalFact` has it. `ReferenceService` is the stateless service: its requests
carry their own time, so it has no clock, and callers may `Edit` what they hold
and seal it again. `ScenarioProvider` is the one piece of mutable state the
service shares between threads.

Where the code is a chain of `if`s the model is one too: TLA+'s `CASE` does not
order its guards, and theirs overlap.

### 2.3 The enterprise side

`PolicySelection` is the selector: `StateAt` derives the state of a version at a trusted
time from its chain, `Walk` collects the closure of its dependencies, `Select` and
`SelectComplete` are the two entrances, each with its refusals in the code's order. A
version carries `sealed`, which says whether its hash is that of its content; the hash
of an event is the content it was made of (`ContentOf`), so it differs when the content
does. `SupplierProjection` is the mapping and the profile: `StatusProven`, `Attests`,
the two fact providers. `EnterpriseSystem` puts both to work: versions are released,
published and retired, at once or for later; an event may be lost in the store, or say
another state, instant or place in the chain, with the hash it had or with one of what it
says now; a host projects versions and intents, retains decisions, and evaluates with
`ControlEvaluation`. The store and the procedure that decides are external: they append
what the contracts accept.

The contracts are modelled in three groups. `AdvancementContracts` has one
predicate per record (`RestrictionOK`, ..., `ResultOK`), which is what its
validator and the pinned tables let through; in `Advancement` the records are
filed. `RecordContracts` and `WorkflowContracts` give for every other record kind
what it names, which of the names its validator compares with its own tenant, and
its rules on times, money, meters, leases and receipt kinds; `ActionRecords` files one
of each in an order in which each finds what it names. A kind lists every reference that
no validator compares, so that a chain may leave its tenant wherever the code lets it.
`PolicyItems` is the items of a policy module and when modules match a decision; in
`ItemDecisions` modules are edited and cited, decisions taken and versions filed, in any
order.

The filing service is not in the repository. All that is assumed of it is that a
filed record is well formed by its contract, that the records it names are filed,
and that no identifier is taken twice. What the properties say of the whole file
is therefore owed to the contracts alone, and a mutant of a contract breaks it.
`RecordStore` composes the three; at this level of detail none names a record of
another, so a history is about one of them (`subject`).

## 3. The runs

Times are in units of the shortest time to live (30 s for the demonstration).
Times to live keep the order and the proportions that create the interesting
cases (ticket shorter than or equal to decision and approval, action longest),
not the ratios 30:120:120:300. Deadlock is not checked in any run: every model
stops when its clock, its table or its number of calls reaches its bound, and
the real programs stop when nobody calls them.

| Run | Question | Bounds |
|---|---|---|
| `approval` | Can what is approved, shown or pinned be bypassed by an order of evaluations, approvals, restarts and clock readings? | 1 key, 2 bodies, 3 control sets (shipped, looser, unpublished), 1 middleware thread, 1 operator, 2 processes, clock 0..4 past every window |
| `race` | Do two middleware and two target threads produce two tickets, or two purchases? Can late, repeated or foreign tickets and receipts break the link between reservation and purchase? Refinement. | 1 key, 2 bodies, 2 nonces, guarded tickets beside the baseline, clock 0..1, past the end of a ticket and of the action |
| `two_scopes` | Same action id in two scopes, in one of which the operator is the acting agent: does an approval given in one, or by the actor, ever pay? | 2 keys, 2 nonces, clock 0..2 |
| `ledger` | Does the chain verify and is a transaction one step to everybody else, wherever processes die? Refinement. Is the lock given back and every transaction left? | 3 connections, 2 payloads, batches of up to 2, 4 events |
| `evaluation` | Does publishing a control ever loosen a verdict, and which published sets make `evaluate` raise? Is every permissive decision carried by enough independent, current approvals of this very action? When is a recheck valid, and what does a complete receipt prove? | four hosts: 5 controls of every verdict and 3 intents; 2 approvals required of 3 approvers and 2 decisions; 2 producers, 2 rechecks, 1 receipt; one certificate for two controls; clock 0..2 |
| `reference` | Can an edited decision, another selection or another time get confirmed? | 2 intents, 3 selections, 1 scenario, 4 instants, 2 decisions, 1 recheck, 1 receipt |
| `scenario_provider` | Do concurrent first requests load two providers, or keep the lock? | 3 threads, 2 scenarios, 4 requests |
| `enterprise` | Is the whole closure selected or nothing, whichever entrance is used, whatever was altered? Do later or altered events rewrite history? Does a projected decision permit only what was permitted? | three worlds: a corrected version, one that rests on it and a rival, in two environments, with events scheduled ahead; two of them and one event lost or altered in any way; projections of two, 2 intents, 2 decisions, 2 cases |
| `records` | What do the contracts of single records make true of the whole file? | 1 module with 2 streams and a window of 1 instant, 2 records of a kind; 48 records of 45 kinds with one slip; 1 or 2 modules, 2 decisions, 3 edits or citations, 1 version |

The runs that expect a violation (`lifecycle`, `stale_clock`, `late_duplicate`)
are in section 3.2.

Why the bounds are enough. A hazard of the demonstration needs at most two
competitors for one key, so `race` has two threads on either side and `approval`
an operator beside a thread. The clock passes the end of every window in
`approval`, one tick at a time, so each check is met just inside, just at and
past its window. In `race` interleaving matters most: the clock takes one step,
which ends a ticket and its action, so calls begun before it meet windows that
end before they finish. Each `max_` bound of a host or a world, and each `MaxX`
bound, counts values that are kept, not calls: a call that would exceed it is one
whose result is not looked at. The hosts of `evaluation` and the worlds of
`enterprise` are separate because their questions are: no control of one host
bears on the question of another. `Verifiers`, `MCScenarios` and the rest contain one
instance of each form the code distinguishes. In `records` two records of a kind
are what it takes to disagree, one slip reaches every reference of every kind, and
two decisions about one item need at most three edits between them.

The runs of `MCOpenShellSystem` have a `VIEW` that leaves out `denied`: it is
written and never read by an action, and no property mentions it except the type
invariant, of which `TypeCorrect` proves every part, this one included. `Race` and `TwoScopes` use
symmetry on threads, servers and nonces, which no definition tells apart; their
properties are all safety, and no run with a liveness property uses symmetry.

**Fairness.** `Ledger!Fairness` says that a body in a transaction makes progress
(it is straight-line code) and that a connection waiting for the lock gets it or
times out (SQLite's busy handler ends after 15 s). It says nothing of who wins
the lock or whether a transaction commits. `ScenarioProvider` assumes that a
thread inside a request is scheduled and that the loader, which reads packaged
files, returns or raises. The demonstration states no liveness at all: a ticket
may never be delivered and an operator may never answer.

### 3.1 What the runs show

All properties of the runs above hold.

* **Authority.** A key is reserved at most once and nothing releases it; a
  reservation of a purchase above the limit rests on an approve run that was
  answered with success, for the body that was on the screen, by somebody other
  than the actor; the two databases agree although nothing keeps them together;
  the whole implements `OneUseAuthority`.
* **Core.** A verdict is permissive exactly when some control speaks on the intent and
  every one that does permits it, told control by control; permission is consented to; a published control never loosens a verdict on which some control already
  applied, whatever facts are at hand, and where evaluating raised before leaves
  nothing less strict than a route; a complete receipt is earned; approvals stay in
  the scenario of the release they belong to.
* **Selection.** What is selected is the whole closure of the tenant's own versions,
  each authentic and in force, or nothing; both entrances agree; a retired version
  stays retired although events scheduled earlier take effect later; adding versions and
  events does not change what is selected for an instant that has passed, and damage to
  a chain puts nothing into force that was not, unless it takes the chain's last event.
* **Projection.** A portable decision that permits is the mapping of a retained
  one that does; of two retained decisions a refusal prevails; approvals and
  receipts are mapped for the decision they name only; a projection's status and
  the selector's agree once every scheduled event has taken effect.
* **Records.** Frozen drafts never advance, four principals of four
  domains stand behind a consumption, a review yields one permit for a stream, what a
  protected execution rests on (who decided, under which policies and manifest, what was
  permitted, in which deployment) is of its tenant at any distance, no two decisions
  both claim an item, and what a version of the third form cites was decided whole.
* **A recheck is an equality check.** `RecheckOnlyInTheInstant` shows what
  binding the snapshot's instant into the decision means: a recheck against a
  snapshot of any later instant never confirms, even if nothing has changed. The
  reference service therefore rechecks at the decision's own instant and compares
  the time of the request only with the window and the controls applied
  (`ValidMeansStanding`).
* **`evaluate` is total but for one shape.** A failure effect may name the routes
  continue, record_only and block with the verdict "route", which the Decision
  contract refuses: such a control makes `evaluate` raise on inputs that raise
  nothing of themselves (`InputFault`), and nothing else does
  (`RefusedOnlyForDefaultRoutes`).

### 3.2 Where documents and code disagree

Three runs expect a violation; each checks what the design document of the demonstration
(`src/changes/0011-openshell-complement/design.md`) says.

| Run | The design says | The code does |
|---|---|---|
| `lifecycle` | line 122: "Lifecycle: pending -> approved -> reserved -> committed" | a verified reconciliation appends an event and leaves the state reserved |
| `stale_clock` | line 126: "Reserve checks ... current time ... atomically" | the time was sampled before the wait for the lock; the reservation can be past its expiry when made. The target refuses the ticket, so nothing is bought by it |
| `late_duplicate` | line 133: "Duplicate same-body delivery at the target returns the prior result" | a duplicate after the ticket's window is refused before the prior result is looked up |

### 3.3 What the contracts leave open

Seen while modelling, stated by no document, and therefore no finding. The
model follows the code, so the properties of `records` hold with these gaps.

* The payload of an initial production receipt is not compared with the tenant of
  its receipt, and the sequence of a later one not with its predecessor's.
* A consumption is compared with the pinned tables and not with the permit it
  names; the review a permit names is not pinned; the window and the manifest of
  a gate are not compared with those of its artifact.
* The approvals, evidence, meters and origins in a control decision's semantic payload
  are not compared with its tenant, nor are the fact and the prior execution an intent
  names. `GroundedAtHome` therefore follows `Grounds`, the references to what an
  execution rests on, by way of decisions and intents and past these.
* The plain assurance receipt, the execution record and the events of evidence compare
  no tenant; chains through them are not `Protecting`.
* A permit's issuer is compared with the authority by the version of the principal only
  (`objects.py:2492`), so a permit may name any independence domain for its issuer.
  `FourHands` takes the domains from the assignments, which are pinned.
* The archive of a signed observation is tied to the identifier of the snapshot and not
  to the artifacts observed (`objects.py:1917`).
* The selector reads what events claim before it checks them
  (`src/backend/src/assurance/runtime/selection.py:287`): a damaged chain can make a
  version drop out of a selection without a refusal. A chain cut at its end is intact, so
  a version whose retirement was lost is in force again; and a last event that was
  rewritten and sealed again cannot be told from a genuine one.
* Separation of the approver and of producers trusts that a lineage says of itself
  that it is complete.

Further questions the code leaves open, without a property: evidence that serves two
requirements of a decision, and two missing requirements of one id, make the receipt raise
(`receipt.py:150`, `ListsTwice`); two first requests
for one key may file the action of the later clock reading
(`openshell_demo/engine.py:161`); an approval names a requirement by an id that can
be reused (`requirements.py:127`); `minimum_count` counts facts, so one approver may count
twice (`requirements.py:252`); `validity_seconds` of an approval requirement is carried and
never compared (`contracts.py:425`); controls that take effect between decision and
recheck are not looked at (`reference_service.py:533`); `NamespaceScopedFactProvider`
fills its cache without a lock (`reference_service.py:175`).

## 4. The proofs

| Module | Theorems |
|---|---|
| `OpenShellSystem_proofs` | `TypeCorrect`, `SafetyInvariant`, `PurchasesReserved`, `TicketsUnique`, `VerifiedPurchased`, `ReservationsWithinPolicy`, `ReservationsFinal`, `PurchasesFinal`, `ReservationsConsented`, `ShownStaysCurrent`, `Refinement` |
| `Ledger_proofs` | `ChainAlwaysVerifies`, `BodiesAreWhole`, `BodiesAreIsolated`, `LedgerIsAtomic` |
| `ScenarioProvider_proofs` | `TypeCorrect`, `OneProvider` |
| `ControlEvaluation_proofs` | lemmas about the operators of the core |
| `EvaluationSession_proofs` | `RecheckInTheInstant`, `CompletionEarned`, `UnknownBlocks`, `PermissionConsented`, `PermissionExact`, `PublicationNeverLoosens`, `RefusedOnlyForThose` |
| `ReferenceService_proofs` | `ValidStanding`, `IncompleteStanding`, `ApprovalsStay` |
| `EnterpriseSystem_proofs` | `SelectsAllOrNothing`, `EntrancesDoAgree`, `HistoryIsKept`, `RetiredForGood`, `ProjectionAgrees`, `PermitsPermitted`, `RefusalIsEnough`, `RecordsAnswer` |
| `RecordStore_proofs` | `AdvancementFrozen`, `AdvancementFourHands`, `AdvancementOnePermit`, `StoreFilesAdvancement`, `FrozenStaysFrozen`, `FourHandsAlways`, `OnePermitAlways`, `ItemsDecidedOnce`, `VersionsDecidedWhole`, `GroundsStayAtHome` |

With these every safety property that a passing run checks, invariant, action property
or refinement, is a theorem for all values of the constants. What the theorems rest on
are the named assumptions of the modules, which TLC evaluates in the runs: positive
times to live, sentinels that are not values, and inputs of the shape the validators
let through (the controls and profile facts of a host, the versions of a world, the
order of the fail-closed routes).

Those of the demonstration hold for any scopes, requests, control sets, processes,
threads, nonces and times to live, under the named assumptions of the modules:
distinct sentinels, requests that name an action id, verdicts among the three,
positive times to live. That the signatures cannot be forged is part of the model, not an
assumption of the proofs: only minted tickets and answered receipts exist signed.

**Demonstration.** None of the safety properties is inductive. `PurchaseWasReserved`
relates the two databases, and what makes a purchase true is a ticket somebody
held a while ago. The invariant has three layers, each inductive relative to the
ones before it:

1. `StoredInv`: an action is filed under its own key, has a reservation exactly
   when its status says so, for its own request and policy and inside its window,
   and no nonce is reserved for two keys;
2. `TicketInv`: every ticket on the wire, or in an answer about to return, *is*
   the reservation of its key;
3. `PurchaseInv`: every request the target has accepted, every guarded purchase,
   every receipt and every positive reconciliation was made with such a ticket.

`LedgerKept` is the fact the layers share: once filed, an action keeps its
request, policy and first instant, and once reserved, everything but its latest
decision. `Writes` characterises the writes that keep it, and there is one lemma
per operation that its writes are of that kind. The action properties follow from
`LedgerKept` and from the guard of `Commit`.

`ConsentInv` stands beside them. That an approval pays only where its run was
answered with success is true for two reasons the code nowhere states: a run
refused for lateness records a fact that begins when the action has ended, so it
covers no reservation, and one refused as the actor's own leaves an action that
never evaluates to allow. `FactsOK` says the first; it needs that an operator's
clock reading is not before the action was first seen, which is why the invariant
also dates the calls and carries `ShownIsCurrent`.

`Refinement` maps every step to one of `OneUseAuthority` or to none, with one lemma for
each of its actions. One thing had to be added to the invariants: `approve` asks
whether the *stored decision* wants an approval, the authority's `Consent` whether the
*filed policy* does, and `AskedIsNeeded` says that the first implies the second.

**Ledger.** The chain that is checked is the one each connection sees, the
committed rows and its own (`ChainInv`); the lock (`LockInv`) makes sure that nobody
else has rows, so what is committed is what was seen. `AppendsWholeBodies`, which is
about the rows with their hashes and which no run checks, needs no more than that a
failing body leaves nothing. `ReadsStayCurrent`, its counterpart for what is read, is
not checked by a run either: an open transaction is the holder of the lock, so a commit
while it is open is its own, and closes it. For `LedgerIsAtomic` a call wants what it
has appended and what it has still to append together: an append moves a payload from
one part to the other, which is no step of `AtomicLedger`, and at a commit nothing is
left of the second.

**Provider cache.** The second look suffices because the lock is held between it
and the load: `CacheInv` says that a loading thread's entry is still missing, and
`TypeOK` that the lock is held exactly from acquisition to release.

**Evaluation.** `SessionInv` says that every decision kept is what `Evaluate` makes of
its own intent, snapshot and facts, that those facts were filed, and that each
approval names a decision made before it. The work is in lemmas about the
operators: if the composition is permissive then no selected control ends in a
failure, so no control that applies is unknown, and every requirement of a
selected control was met, in particular by enough matching approvals. They hold for
any controls, predicates, facts, profiles and verifiers that are well formed in the
sense of `PortableContracts`, which `SessionAssumption` asks of the hosts.
`PermittedExactly` adds the converse, that nothing else withholds a permission: if
every control that speaks is `Cleared`, every outcome, condition and profile adds a
permissive value (`PermissiveEffects`, `AssessedMembers`) and permissive values compose
to one of them (`PermissiveValuesCompose`). `Cleared` looks at one control at a time
and knows neither outcomes nor reductions, so it is a reference for both.
`UnknownBlocks` is its consequence for decisions that are kept.
`PublishingNeverLoosens` is about two reductions at once: those under more controls
select more, so what failed fails still and the strictest value only rises
(`ComposedVerdict`). It says nothing of an intent to which no control applied, for
which the default route is the answer, and counts a raised error as strict as a route.
`RefusedOnlyForDefaultRoutes` goes through the cases of the composition: the routes it
makes up itself are never default ones, so only those of the controls can be.

**Reference service.** Callers may bring back anything, so `ServiceInv` says of what
they hold only that its times are times. What is valid is what the service
computes again: the proof follows the answer through `RecheckResponse` and shows that
the decision is bound to the intent, the selection and the instant it was asked
about, and that its controls are in force then and at the time of the request.
`ApprovalsStayInTheirScenario` follows because the decision is the service's own of the
facts of the one scenario that matches, or of none, and of none no approval is met.

**Enterprise.** `CatalogInv` is what the selector may rely on: in one world a number
names one version (`WorldInv`), no two events of a version claim the same place and none
says that a retirement came before it, whatever is done to them (`EventsInv`,
`DistinctInv`), and while nothing is damaged the states follow one another (`OrderInv`).
`HostInv` says what the host keeps: a control is a projection of one
rule, and a case, unless it was edited to allow, is the mapping of the decision it
keeps.

* *The walk.* `Walk` is a recursive function on a version and the set of versions
  being visited. `WalkVisits` shows that its equation has a solution, built step by
  step on the number of versions not yet being visited; `PathInduction` says that if
  what is wrong with a visit is always wrong with one below it too, nothing is wrong.
* *The closure.* `Reach` is told without the walk, by rounds. That it is closed needs
  that as many rounds as there are versions suffice (`ReachIsClosed`); that it is least
  is `ReachWithin`. `FoundIsReach` then has two halves: what a walk selects is closed,
  sound and within `Reach`, and a sound closure is selected from any of its versions
  (`TogetherSelected`).
* *History.* `Later(own, next, time)` relates a catalog to a later one as far as an
  instant in the past can tell: states at that instant are kept and new versions are not
  in force. Every step that is no damage leaves the catalog alone or makes a later one
  (`CatalogLater`), and in a later catalog a walk finds the same on every branch and
  hence as a whole. For damage, an event refers to the one before it by its content, and
  so the last commits to all of them: an intact chain that holds the last event of
  another intact chain holds that whole chain (`LastCommits`, by the last event it would
  not hold). So a version that is selected afterwards has the chain it had
  (`DamageElsewhere`) and was in force. It is assumed that versions and events are added
  with the time at which they are added: a store that dates an event back rewrites the
  past, and nothing in the selector notices.
* *The profile.* The requirement of a projected control is met only if a case attests
  it, and a case attests only if it is what the mapping makes of its own source, so it
  says what its enterprise decision said (`AttestedCase`).

**Advancement.** `AllWellFormed` says that every filed record satisfies its contract and
`NamesFiled` that what it names is filed, so a property of a chain is followed link
by link to the pinned tables: a permit's stream is one of the table, and no frozen
stream is in it; reviewer, issuer, gate recorder and artifact recorder are pinned to four
principals and to four domains, the issuer by the assignment the permit cites and not by
what it says of the domain. `OnePermitPerReview` is inductive only together with them.

**Items.** A decision keeps copies of the modules it was about, and a copy can cite
only what was decided before. `OrderInv` says this without time: of two decisions at
most one has a copy that cites the other. If both matched the live modules and
shared an item, each copy would have to have the other's citation.

**Actions.** `ActionsInv` says that a filed record vouches for what its contract
compares, and names of its own tenant only what was filed before it, under the kind it
names. So a chain of references goes down the file, following it ends
(`RestsOnSolves`), and the first record from which the tenant is left would have to leave
it by a ground of its own, which its contract compares; the references nobody compares
are none of the grounds.

**Composition.** `StoreFilesAdvancement` is a refinement: a history of `RecordStore` is
a history of `AdvSpec`, so the theorems of the part hold of the whole. For the items
their invariant is shown to be one of the store.

**Recursive functions.** The induction theorems of the library take an operator as a
parameter, which none of the provers can instantiate. Where an induction is needed it
is one over a least counterexample: a set of numbers has a least element
(`LeastNatural`, from the well-foundedness of < and `WFMin`), and `HandedOn`,
`FromZero` and `PathInduction` are drawn from it. Nor is it given that a recursive
function satisfies its equation: a solution is built step by step, and `CHOOSE` takes
one.

**Only model-checked.** Liveness, which is out of the prover's reach: `LockIsReleased` and
`CallsEnd` of the ledger and `RequestsEnd` of the provider cache. `MaxTime` and the
other bounds are constants of the modules, so the theorems cover every value of them.

## 5. What is not modelled

* **Bytes.** Canonical JSON, digests, HMAC, JWT and TLS: a value is its digest,
  a signature is who can make it. Parsing of purchase bodies and header limits in
  the middleware are outside; a request in the models is one that was accepted.
* **API models, HTTP API and client.** Serialisation and transport. The client
  sends one request, never retries and compares the response with it; no state is
  kept on either side.
* **Catalog loading**: reading and verifying packaged files once, at start.
  `Resolves` keeps what a request may meet: absent, disabled, other digest.
* **Shared types of the enterprise contracts**, formats of identifiers, content
  hashes beyond being what they are computed of, the expression language of
  workflow mappings, and the second form of item traces.
* **Services of the enterprise.** Nothing in the repository files records,
  appends lifecycle events or decides; these are nondeterministic and external.
* **smolagents tool, runtime bootstrap, generated protocol code, build scripts,
  examples**: clients, wiring and generated code.

## 6. Plan

1. Done: the demonstration, its ledger, the evaluation core, the reference service
   and the provider cache; selection, projection and profile; the contracts of
   advancement, actions, workflows and items and their composition. Two abstract
   specifications, `OneUseAuthority` and `AtomicLedger`, and every safety property of
   the passing runs proved.
2. The handlers of `DemoEngine` rest on `LedgerIsAtomic` and `BodiesAreIsolated` by the
   argument of section 2.1. A module that runs each handler as a body of `Ledger` and
   implements `DemoEngine` would make that argument a theorem too.
3. The core keeps no state, so what it promises a host is stated as invariants of
   `EvaluationSession` and not as a specification of its own.
4. The gaps of section 3.3 are where a change of the contracts would change the model:
   each would become a conjunct of a predicate of `AdvancementContracts` or
   `RecordContracts`, and a stronger property of `records`.

## 7. Running it

In this directory, with TLC and tlapm at hand:

    tlc -workers 2 -config Race.cfg MCOpenShellSystem
    tlapm OpenShellSystem_proofs.tla

The longest runs (`race`, `evaluation`, `enterprise`, `approval`, `records`) take from
one minute to a few minutes each; all others seconds.
