# RevPilot AI: formal models

TLA+ models of the stateful parts of RevPilot AI, the TLC runs that check them
on small instances, and TLAPS proofs of their main properties for every value
of their parameters. Paths are relative to the repository; `modules/` stands
for `src/packages/backend/src/revpilot/modules/`.

## The system

RevPilot AI is a Python modular monolith that runs one loop: detect a revenue
anomaly, investigate it, verify hypotheses, decide on an action, have a human
approve it, dispatch it to a provider, and measure the outcome. The FastAPI
application (`src/apps/api`) runs as two uvicorn worker processes
(`src/apps/api/Dockerfile:49`) over one PostgreSQL database; investigations are
Temporal workflows run by `src/apps/workflow-worker`.

| component | state it keeps | operations | hard behaviour |
|---|---|---|---|
| approval and dispatch API (`apps/api/routers/approvals.py`, `modules/approval/adapters`, `modules/action/adapters`, `modules/safety/adapters`) | per worker: approval records, action responses; shared: approval rows, intent rows, kill switches | create, approve, reject, dispatch, engage kill switch | handlers interleave at every await; two copies of every status; restarts lose one of them; a provider call cannot be undone |
| tool gateway (`modules/tool_gateway/action`) | none between calls | dispatch through seven gates | fails before, during or after the provider call |
| investigation workflow (`modules/investigation`) | status, pause and cancel flags, spend, manifest | eight activities, pause, resume, cancel | signals arrive at any point; the status is written by signal handlers, transitions and the exception handler |
| approval service (`modules/approval/service.py`) | stored approvals | create, grant, reject, revoke, amend, expire | callers keep copies of approvals; decisions on amended, expired and withdrawn requests |
| action ledger (`modules/action/ledger.py`) | intents, attempts | create intent, start and complete an attempt | stale copies, key reuse, overlapping attempts, late completions |
| saga and reconciliation (`modules/action/saga`) | completed steps, compensation records, inquiries | forward steps, compensation, inquiries | timeouts with unknown outcome, halted compensation, retries |
| kill switch service (`modules/safety/killswitch`) | per node a store and a cache; the bus's records | activate, deactivate, query | bus and stores out of reach one by one, nodes started late |
| quotas and budgets (`modules/finops/quota.py`, `modules/decision/adapters`) | counters of a policy, reservation tokens; the day's ledger row | reserve, finalise, release, set policy | policy changes under open reservations, late finalisation; transactions that find no row |
| audit log (`modules/finops/adapters`, `apps/api/middleware/audit.py`) | the hash chain of a tenant | append | overlapping appends, repeated identifiers, failing statements |
| connectors (`modules/connectors`) | connector status, cursor, quarantine records; inbox and canonical state | configure, validate, sync, fail, divert, reprocess, delete; receive | probes that answer late, refused transitions; redelivery and reordering |
| secrets (`modules/security/secrets`) | secret records, token cache, rotation sessions | register, issue, revoke, purge, rotate | everything that happens during the provider's canary call |
| tenancy (`modules/tenancy`) | tenant status, legal hold, deletions | provision, activate, suspend, hold, release, delete | a hold during a deletion; status and hold kept apart |
| release operations (`modules/operations`) | bundles, canary stage and traffic; readiness controls and manifests | register, promote, evaluate, abort; evaluate, seal, archive | any order of calls over several bundles; controls that change under a manifest |
| plan validation (`modules/agent/dag_validator.py`) | a plan under validation | validate | Kahn's sort with early refusal |
| anomalies (`modules/analytics`) | lifecycle state, value and freshness | transitions, reconciliation of a window | failing and raising queries in the middle of a window |
| event stream (`modules/investigation/event_broadcaster.py`, `apps/api/routers/investigations.py`) | subscribers' bounded queues | subscribe, publish, replay, send | full queues, keep-alive, replays on live topics |
| statistics, causal, uplift, retrieval, evidence, hypothesis, verifier, canonical data, identity, agents, compliance, observability, web | little or none between calls | computations, validation, presentation | not protocols |

How they interact: the workflow produces a manifest from which the decision
engine proposes actions; each proposal becomes an approval request; a signed
approval is dispatched through the gateway unless a kill switch is engaged, and
its intent is recorded in the ledger. Workers talk to each other only through
the database. The investigation API updates the investigation row and
broadcasts an event; it does not signal the workflow.

What makes each part correct, in short: no provider call without a signature,
decisions that stay decided, and a halt that halts (dispatch); signals that take
effect wherever they find the run, and no run left hanging (workflow);
compensation of exactly what was done (saga); what was reserved is committed or
released once (budgets); what is revoked stays revoked (secrets, approvals); what is
blocked stays blocked when a part fails (kill switches); a hold that outlives the
status it was written with (tenancy); a state that does not depend on the order of
delivery (inbox); a log whose gaps are explained (audit, event stream).

## Modules

| module | what it is |
|---|---|
| `ActionDispatch` | the approval and dispatch API, one action per handler segment between two awaits |
| `MCActionDispatch` | its instances for TLC |
| `ActionDispatchProofs` | proofs of all its properties |
| `InvestigationWorkflow` | one run of the investigation workflow with its signals |
| `MCInvestigationWorkflow` | its instance for TLC, with the amounts the code charges |
| `InvestigationWorkflowProofs` | proofs of its safety properties |
| `GovernedAction` | `ApprovalService` and `ActionLedgerService` over the repositories they share, one action per call |
| `MCGovernedAction` | its instances for TLC |
| `GovernedActionProofs` | proofs of all its properties |
| `SagaContract` | what one execution of a saga promises, independent of how it is run |
| `ActionSaga` | `execute_action_saga` with compensation, reconciliation and a caller's retry |
| `ActionSagaProofs` | proofs of its safety properties and that it implements `SagaContract` |
| `KillSwitchBus`, `SecretRotation`, `TenantLifecycle` | kill switches over nodes and bus; secrets, tokens and rotations; one tenant with holds and deletions |
| `CanaryRelease`, `ReadinessGate`, `PlanDag` | canary traffic and rollback; readiness manifests; the validation of a plan |
| `ConnectorLifecycle`, `EventInbox`, `AnomalyReconciliation` | one connector with its quarantine; the transactional inbox; anomalies and late events |
| `AuditChain`, `BudgetLedger`, `SpendQuota` | appends to the audit log; transactions over the day's budget; the quota manager |
| `EventStream` | the broadcaster and the live stream over it |
| `MCServices`, `MCEventStream` | the thirteen modules above side by side for TLC; the event stream alone |
| `SafetyProofs`, `IngestionProofs`, `LedgerProofs` | proofs about the first six; about connectors, inbox, anomalies and streams; about the three ledgers |
| `ServicesProofs` | the composition `MCServices` implements each of them |

### ActionDispatch

State. `row`, `intentRow` and `switches` are the tables `approval_requests`,
`action_intents` and `kill_switches`; `cache` and `intentCache` are the
dictionaries `_pending_approvals_cache` and `_action_intents_cache` of each
worker; `slot` holds the requests in flight, each with the place between two
awaits it has reached (`pc`), its worker, caller, approval, key, and the status
it has read from the row (`rec`, a private copy). `expired` are the approvals
whose 24 hours are over. `signed`, `cacheCalls` and `rowCalls` are history, read
by no guard; so is `halted` in a request.

Actions. A Python handler runs without interruption from one await to the next,
so a handler is a chain of actions: `GrantStart` (every check and the write to
the cached record), `GrantFetch` and `GrantDecide` (for a record that has to be
read from the row first), `GrantUpdate` (the guarded UPDATE, which compares the expiry
with the time before its await, as the code does); `RejectStart`,
`RejectUpdate`; `DispatchStart`, `ReadGlobalSwitch`, `ReadTenantSwitch`, `Admit`
(stored response, record, checks, gateway call), `DispatchFetch` and
`DispatchFromRow` (the same on a fetched record), `InsertIntent`, `Respond`.
`CreateApproval` is one action, because nobody knows the new identifier before
its row is inserted. The gateway does not suspend, so its call is part of the
segment that makes it; its outcomes are `absent` (it cannot be built: the status
stays DISPATCHING), `refused` (before the provider was called), `failed` and
`accepted`. As the application is wired, only ENVIRONMENT=test has a provider at
all; the model makes no use of that. `RequestFails` ends a request at any await,
before or after the statement took effect; `Restart` clears a worker's
dictionaries and requests; `Expire` lets time pass; `EngageKillSwitch` adds rows
that the API never removes.

Two differences between a cached and a fetched record matter, and both come from
the columns of the INSERT: a fetched record has no requester, so the check that
requester and approver differ is skipped, and what is written to it is lost when
the request ends.

### InvestigationWorkflow

The variables carry the names of the attributes of the class. Temporal runs the
workflow as one coroutine, so `pc` is the activity that is outstanding (or
`waiting` in a gate, or `ended`), and each action is the code from the end of one
activity to the next await: `ActivityCompletes` charges the spend, passes the
gate (`Gate`, which is `_check_pause_and_cancellation`) and enters the next
activity (`Enter`); `VerifierConfirms`, `VerifierNeedsMore` and `VerifierRefutes`
are the verifier's answers; `PackageCompletes` seals the manifest;
`ActivityFails` and the budget's hard stop reach the last exception handler
(`Crash`). `Wake` is the return of `wait_condition`. `PauseSignal`,
`ResumeSignal` and `CancelSignal` are the signal handlers, which write the status
themselves. A worker crash is not a step: the service replays the history to the
same state. Amounts are in cents.

### GovernedAction

The domain services behind a governed action. `approvals`, `intents` and
`attempts` are the repositories of one tenant, functions from the identifiers in
use to records with the fields the properties need; a payload stands for action,
targets, payload and cost, which the digest binds and from which
`_compute_required_tier` reads the tier (`RequiredTier`). The in-memory
repositories never suspend while they hold their lock, so a call of a service is
one action: `CreateRequest`, `GrantApproval`, `GrantTooLate` (the grant that is
refused but stores EXPIRED), `RejectRequest`, `RevokeApproval`, `AmendRequest`,
`ExpireStaleRequests`; `CreateIntent`, `RecordAttemptStart`,
`RecordAttemptCompletion`. What does cross calls are the records the callers keep.
`create_intent` is passed an approval, not its identifier, and `granted` is the
set of approvals of which somebody holds a copy that says APPROVED. Such a copy
differs from the stored record in its status only, because no call changes what
an approved request binds, so the set is enough. Calls that are refused without a
write are not actions.

`causation` is what `amend_request` writes. `create_request` stores the causation its
caller passes (service.py:47, :60), which nothing reads; the model stores nobody there,
and `AmendedRequestsAreOut` is about amendments only.

`create_request` stores no requester, so the check that requester and approver
differ (service.py:135) never applies to these records. The statuses EXECUTING
and COMPLETED of a request are stored by no call.

### ActionSaga and SagaContract

`ActionSaga` is one coroutine: forward steps (`StepCompletes`, `StepTimesOut`,
`StepFails`, `AllStepsSucceed`), the loop of `compensate_steps` from the last
completed step backwards (`StepCompensated`, `CompensationFails`,
`CompensationReturns`), and the inquiries of `reconcile_unknown` (`Confirmed`,
`NoRecord`, `Inconclusive`). `Retry` is the caller executing the saga again when
its record permits it. The code has no provider yet and takes the outcome of a
step from flags in its payload; in the model every outcome is possible.
`applied` counts how often each step is in effect at the provider, `before` is its
value when the execution began. An inquiry names the key of the intent, which all
steps share: `inquiry` says whether the provider's answer is about the step in
doubt, about any step of the intent, or whether the default query function is
used, which confirms everything. `ReportsAreTrue` states the RECONCILED report
for the first of these only, because it is not true for the other two.

`SagaContract` knows only which steps are in effect and in which direction the
saga goes: steps take effect one after the other, are undone from the last one
backwards or not at all, and nothing is undone after a doubt or a return.
`ActionSaga` maps `inEffect` to the steps this execution has put into effect and
`direction` to `pc`.

### The services

Thirteen smaller components, one module each. Every name begins with two letters of
its module (`Ks`, `Sr`, ...), so that `MCServices` and the proof modules can extend
several at once. They share no state in the code either: each is constructed over
its own store and none calls another of them, except that the canary controller
calls the release registry, quarantine and health call the connector's state
machine, and the deletion saga calls the tenancy service; those are in one module
with what they call. A synchronous method is one action; where a method hands control
away (a provider's canary, a connectivity probe, a database statement, the wait of a
stream), it is one action up to there and one after it, and everything may happen in
between.

- `KillSwitchBus`: `ksBus`, `ksStore` and `ksCache` hold the last record of every
  switch on the bus and on each node. `KsStart` is the constructor, which subscribes
  and seeds; `KsWrite` is what activate and deactivate share: store, cache, publish,
  and a push that reaches every running node (`KsPushed`). `KsBlocked` is
  `is_blocked`, which asks the bus, then the node's store, then locks.
- `SpendQuota`: the counters of one policy. `QtForgiven` and `QtOverrun` record what
  the code leaves unbalanced, so that `QtBooksBalance` can say that there is nothing
  else. `QtFinalizeLate` is the refused finalisation that releases.
- `SecretRotation`: a version of a secret is who made it. `SrValidate` ends at the
  call of `canary_validator`; `SrPromote` and `SrReject` are its answers, whatever has
  happened since. `SrPlain` are the references whose tokens `purge_cache` can find.
- `CanaryRelease`: registry, controller and coordinated rollback; the thirteen tiers
  and six steps of the rollback are the code's. An abort of a bundle that is not
  registered leaves a reason and no status, as in the code. `ReadinessGate`: the digest of a file
  is its content, a manifest carries the data that was hashed.
- `TenantLifecycle`: `TnAccepts` is which transitions the aggregate refuses; the
  hold's record is apart from the status, as in the service. The saga is split at its
  check, its tombstone and its end. `tnOvertook` marks a hold that came in between,
  `tnWrittenOff` a DELETED that a release wrote: `TnReleaseHold` restores any status,
  under any matter, as the service does. The repository is the one in memory; the one
  for PostgreSQL, and the administrator's route that writes the status through it
  (apps/api/routers/admin.py:88-99), refuse no status and are not modelled.
- `ConnectorLifecycle`: the whole transition table (`CnOnward`), and calls that change
  something before the transition that may be refused. `CnTransition` is the public
  `transition_state`, for every status. `cnStray` records the three ways in which a
  payload stays in quarantine of a connector that syncs: its diversion was refused, the
  connector failed with it, or somebody declared the connector ready to be reconciled.
- `EventInbox`: first deliveries; any further one is acknowledged and changes nothing.
  `AnomalyReconciliation`: a pass over a window computes some anomalies (`done`), one
  query may raise (`hit`), and the rest is not reached; the actor may be one whose
  transitions are refused, which the code does not notice. `anCarried` are anomalies
  that were computed as normal while RESOLVED or by such an actor, and left as they
  were. That a detected value is a breach is the detector's claim, which nothing checks.
- `EventStream`: a publication is one action, a stream is split at every await.
  `EsQuiet` is the keep-alive period, which cancels the subscription. A replay whose
  client leaves publishes its completion early.
- `AuditChain`: an append is split at its two statements. `acMet` records which appends
  were in flight together. `BudgetLedger`: `reserve_budget` is split at its
  statements; `blLock` and `blPending` are the locks PostgreSQL keeps on a row and on
  an uncommitted key. No code in `src/` calls it yet; the model is of its own text.
- `PlanDag`: Kahn's sort as the code runs it, with the set of prerequisites not yet
  visited for `in_degree` and a set for the queue, of which first-in-first-out is one
  order. `DgAcyclic` and `DgShallow` are the definitions it is compared with.

## Runs

| run | instance | question | result |
|---|---|---|---|
| `dispatch` | 2 workers, 2 requests in flight, 1 approval, 1 key, 2 tenants, 3 callers | `TypeOK`, `CallsAreSigned`, `CachedRecordCallsOnce`, `RowCallsAreDurable`, `HaltedRequestsStop`, `ReplaysAreOfExecutedActions`, `DecisionsAreFinal` | hold |
| `dispatch_once` | the same | `ExecutedAtMostOnce` (INV-ACT-002) | violated: the other worker calls the provider again |
| `dispatch_duties` | the same, the requester has the tier | `SeparationOfDuties` (TASK-AR-013) | violated: the other worker does not know the requester |
| `workflow` | budgets 0.50 and 2.00 USD, hard stop 5.00 | `TypeOK`, `SealedRunsAreUndisturbed`, `SignalsStopScheduling`, `FinalStatusStays`, `CancelEnds`, `RunEnds` | hold |
| `workflow_resume` | the same | `ResumedRunsContinue` (TEMPORAL-WORKFLOW-SPEC) | violated: a resumed run dies in its gate |
| `workflow_budget` | the same | `SpendWithinBudget` (INV-COST-001) | violated: 0.60 spent of 0.50 |
| `governed` | 2 requests, 2 intents, 2 attempts, 2 keys, a cheap and a dear payload, a manager and an agent | `TypeOK`, `IntentsAreSigned`, `AmendedRequestsAreOut`, `OneIntentPerKey`, `IntentFollowsAttempts`, `JournalIsNumbered`, `WithdrawnStaysWithdrawn` | hold |
| `governed_revoked` | 2 requests, 1 intent | `RevokedRejectsIntents` (TC-P06-005) | violated: the intent is created from a copy made before the revocation |
| `saga` | 3 steps, 3 inquiries, 2 executions | `TypeOK`, `ReportsAreTrue`, `ContractHonoured`, `IrreversibleStands`, `SagaEnds` | hold |
| `saga_retry` | 2 steps, 2 executions | `RetriesAreSafe` (APPROVAL-ACTION-LOOP-SPEC §4.1) | violated: a completed step is executed again |
| `services` | thirteen services, one explored at a time; see below | `ServicesTypeOK`, and one property of each service or two (listed there) | hold |
| `stream` | 2 live streams, 1 replay, 2 topics | `EsGoesOn` (docstring of `subscribe`) | violated: a quiet quarter of a minute ends the stream |

Bounds of `dispatch`. Two workers are what the Dockerfile starts, and the fewest
with which caches disagree. Two requests in flight give every race of two
handlers over one approval; more requests only follow one another. Requests on
different approvals meet in the intent row of a shared key only, which the
proofs cover. One caller has exactly the authority the approval needs, one lacks
it, one has more but belongs to another tenant. Provider calls are counted up to
two (`Tally`). The kill switches engaged are GLOBAL and the tenant's own. The
proofs lift all of these bounds.

The workflow has no bound but its own: at most two gathering rounds, and any
number of signals in any order. `CHECK_DEADLOCK FALSE` because a run ends.

Bounds of `governed`. Two requests are an original and its amendment, or two
independent ones; two intents compete for a key or share an approval; two
attempts overlap. The manager's tier suffices for the cheap payload and not for
the dear one, so an amendment that kept the tier of its original would be signed;
the agent has the tier and is not human. Identifiers and keys are symmetric.
`CHECK_DEADLOCK FALSE` because the identifiers run out.

Bounds of `saga`. Three steps are the fewest with a first, a middle and a last
one, so that a compensation can be halted before, at and after the middle;
`max_attempts` is 3 in the code; a second execution is the first retry, and later
ones are like it. `CHECK_DEADLOCK FALSE` because a saga ends.

Run `services` composes the thirteen modules without a shared step: `focus` is chosen
first and names the one that moves, so the reachable states are the sum of those of
each service, not the product, and every invariant is checked in all of them. That is
sound because no property relates two services and none shares a variable. It asks:

| property | what could go wrong | bounds |
|---|---|---|
| `KsFailoverKeepsBlocks` | losing the bus releases what was blocked | 2 nodes, 2 switches with overlapping scopes |
| `QtBooksBalance` | counters drift through late, repeated and forgotten reservations | 3 reservations of 1 or 2, limits 2 and 3, 2 policies |
| `SrCacheIsCurrent`, `SrCommittedStays` | a token outlives its version; a late answer undoes a commit | 2 sessions on one secret, 2 calls each, a secret with a colon in its name |
| `CrAbortedStayOut` | traffic returns to an aborted bundle that is registered | 3 bundles, so that the active one can be neither of two others |
| `RgManifestsStand` | a manifest changes after it was signed | 2 controls, 2 contents |
| `TnHoldOutlivesStatus` | a deletion begins under a hold, or ends under one it did not precede | 2 matters, 2 overlapping deletions |
| `CnActiveIsClean` | a reprocessing, a recovery or a late probe makes a connector sync past its quarantine | 3 payloads: reprocessed, held, diverted late |
| `IbOrderIsIrrelevant` | an old event takes the state back | 3 events of one entity with ordered, equal and open timestamps, 1 of none |
| `AnFreshIsCurrent` | FRESH on a value that is not | 2 anomalies, 2 breaches, 5 transitions |
| `EsOnlyFullQueuesLose` | a stream loses, repeats or reorders | queues of 1, 3 events of a topic |
| `AcForksNeedOverlap` | an append alone breaks the chain | 3 appends, 2 correlation ids, 2 seconds |
| `BlReservedFits` | two calls use the same headroom | 4 calls of 1, 2, 4 and 1 against 3 |
| `DgVerdictIsRight` | the wrong plan is accepted or refused | all 4096 plans of four tasks, ill-formed ones of two, depth 3, width 2 |

A queue of one is full as soon as a queue of 256 would be; the capacity is a
parameter. `AnMaxVersion`, `SrMaxRegistered`, `SrMaxCalls`, `QtMaxSettings`,
`EsMaxEvents` and `AcMaxSeconds` bound what the code does not; the proofs hold for
any value of them. `CHECK_DEADLOCK FALSE` because bounded services come to rest.

Fairness. The services have none: their calls are made by clients, and their one
progress claim, `EsGoesOn`, is a safety property. `ActionDispatch` has none: a client need not come back and a worker
may stop. `InvestigationWorkflow` assumes `WF_vars(Run)`: the service dispatches
a coroutine that can go on, and every activity has a `schedule_to_close_timeout`,
so an outstanding activity completes or fails. No fairness is assumed of signals:
`RunEnds` therefore excludes runs that somebody keeps pausing. `ActionSaga` assumes
`WF_vars(Run)`: the coroutine awaits nothing but activities and inquiries that
return. The retry is the caller's and has no fairness. `GovernedAction` has none:
nobody is obliged to call a service.

## Proofs

`ActionDispatchProofs` proves every property of run `dispatch`, from
`ConstantsAssumption` only (who is an operator, tenants, levels, costs).
The invariants are not inductive as they stand; the strengthenings are:

- `Signatures`: every copy of a record that says APPROVED, in a cache, in a row or
  in a request that has read it, is signed by somebody with authority, and a
  request on its way to an UPDATE was sent by such a caller. It gives
  `CallsAreSigned` and, with the guards of the UPDATEs, `RowCallsAreDurable`.
- `OneRecord`: at most one worker has ever held a record of an approval, and a
  record that is PENDING or APPROVED has not been dispatched. It gives
  `CachedRecordCallsOnce`: a restart can only lose the record, never renew it.
- `Halts`: the switch that was engaged when a request arrived is still engaged, and
  a request that is past the GLOBAL read was halted by its tenant's switch.
- `Dispatches`: what a dispatch request has established at each await (its tenant
  owns the approval, the provider was called, the intent row exists).

Two theorems say where the promises that runs `dispatch_once` and `dispatch_duties`
refute do hold. `CachedCallsByAnother`: whatever is executed from a cached record was
signed by somebody other than its requester (`FourEyes`: a requester signs fetched
records only, and with them the row). `OneCopySuffices`: one worker that is never
restarted executes an approval once and never lets its requester sign. `SteadySpec`
is the specification of such a worker, which keeps its dictionary and is asked for
approvals that exist; the second copy of a record, in another worker or after a
restart, is therefore what it takes to break them.

`InvestigationWorkflowProofs` proves `TypeOK`, `SealedRunsAreUndisturbed`,
`FinalStatusStays` and `SignalsStopScheduling`. The inductive invariant
`Inductive` says which statuses each place of the coroutine can be found in
(`OnCourse`, or the status a signal has put there while its flag is up), which
places precede the verifier's answer, and what `prior` can be. It is needed
because the verifier's second round and its report of a gap do not pass a gate:
that no activity is scheduled there while a signal is in force follows from the
transition table refusing a PAUSED or CANCELLED run.

Three more results follow from it. `RunsAreBounded`: every stretch of the coroutine
lowers `Rank`, which starts at 38 (two for each activity still to come, one for it and
one for its gate, and five activities for each round still possible) and which no
signal raises; `RunEnds` and `CancelEnds` add to it only that the coroutine is
scheduled. `SpendIsBounded`: `Accounts` says for each place of the coroutine what has
been charged, never more than two rounds of gathering nor than the hard stop, so
`AmpleBudgets`: INV-COST-001, which run `workflow_budget` refutes, is kept if every
budget covers two rounds or reaches the hard stop. `UndisturbedRunsArePermitted`:
a run that is neither paused nor cancelled dies of a forbidden transition in the gate
it was paused in and nowhere else, which locates what run `workflow_resume` shows.

`GovernedActionProofs` proves every property of run `governed` from
`DirectoryAssumption` (the types of `RequiredTier`, `Tier` and `Humans`). The
inductive invariant adds to the properties: a stored request asks for the tier of
its payload (`TiersAreCurrent`); a request of which somebody holds an approved copy
was signed, whatever has become of it (`GrantsAreSigned`); an intent carries what
its approval binds and, unless it is a dry run, its approval is one of those
(`IntentsAreBound`); an amendment names a stored request out of force
(`AmendmentsReplace`). Without the second, nothing would relate an intent that is
created after a revocation to a signature. `Evolution` proves once what all calls
of `ApprovalService` have in common. `Journal` is the strengthening for the
attempts, stated per intent; it needs the set of attempts to be finite, which is
part of the invariant, to count one more.

`ActionSagaProofs` proves `TypeOK`, `ReportsAreTrue`, `IrreversibleStands` and
`ContractHonoured` for sagas of every length, from `BoundsAssumption`. The inductive
invariant says that at each place of the coroutine exactly a prefix of the steps is
in effect (`Applied`), and which one: the completed steps going forward, those the
cursor has not passed going back, one more perhaps while a step is in doubt.
`EffectsHaveNoGaps` is proved of `SagaContract`, in a few lines, and holds of the saga
because it implements the contract. `RetriesAreLimited`: a step is in effect at most
once per execution, and at most once in all unless inquiries are about single steps,
which run `saga_retry` needs for its counterexample. `ExecutionsAreBounded` is the
measure behind `SagaEnds`.

The modules about the services prove every property of run `services`, each from the
assumptions that its module states about its constants. `ServicesApart` proves that the
composition implements each service, so `ServicesTyped` collects the type invariants,
which are parts of the inductive invariants. Where a document promises more than the
code keeps, a theorem says under which conditions it does.

- `SafetyProofs`. `KsFailoverSafe`: whatever is published reaches the store of every
  running node, so a store differs from the bus only by what the node itself did
  (`KsStoresFollow`). `SrCacheCurrent` is inductive with the types: every step that
  changes a record's version or revokes it purges the tokens the purge can find;
  `SrCommittedForGood` is the action property. `TnHoldLasts` is inductive with the
  types: a tenant becomes DELETED by a deletion that was past its check, which under a
  hold the hold overtook, or by a release. `CrAbortsLast`: an aborted bundle is in
  quarantine, and quarantine is refused traffic, or nobody registered it. `RgManifestsLast`: a control that holds has passed with what it
  names (`RgPassesAreKept`). `DgVerdictRight` is the correctness of the plan validation
  for plans of every size: among visited tasks one always has no visited prerequisite
  (`DgVisitedAcyclic`), depths grow along edges (`DgSorted`), and a depth is a lower
  bound of every possible layering (`DgDepthIsNeeded`); the first two make an
  acceptance right, the last an early refusal, and an empty queue leaves a set of
  tasks that keeps itself waiting. Its assumption is that plans are functions from
  finite sets of tasks, as a parsed request is.
  Conditions: `KsCalmOutagesChangeNothing` (outages during which nobody activates,
  deactivates or starts leave every answer as it was), `SrQuietRevocationsLast` (a
  revocation lasts once no rotation of the secret can still end).
- `IngestionProofs`. `CnActiveClean`: what is held is held in quarantine, in a deleted
  connector, or astray, and the table's ways out of QUARANTINED are few (`CnWaysOut`):
  whoever takes one with payloads held, by failing or by `transition_state`, has left
  them astray.
  `IbOrderFree`: an entity's state was written by a processed event about it.
  `AnFreshCurrent`: the same invariant for resolved anomalies, which may be reopened; a
  refused transition carries the anomaly over like a resolved one.
  `EsLosesOnlyToFullQueues`: the invariant is about positions of the log, not about
  sequences: each position since the subscription is sent, queued, or dropped by a
  full queue, and what is sent and queued rises.
- `LedgerProofs`. `AcForksOverlap`: appends that never met are ordered by their times
  (`AcMeetingsKept`), so the latest event an append finds is its predecessor, of which
  the log must always have one (`AcLogHasEnd`); `AcForksHaveWitness` says of every fork
  that one of its two events overlapped another append, from the assumption that no
  event hashes to the genesis hash. `BlReservedAlwaysFits` and
  `QtBooksAlwaysBalance` are about sums, which the models write as a fold over a set.
  That a fold is the recursive function one expects, and independent of the order of
  the members (`TotalAdds`, `TotalSame`), is proved without an induction theorem, from
  a smallest set for which the claim fails (`SmallestSet`). Conditions: `BlNoOverdraft`
  (no amount beyond the day's budget), `QtCalmBooksAreExact` (no policy set under an
  open reservation).

Only model-checked: the liveness properties `CancelEnds`, `RunEnds` and `SagaEnds`
(liveness under fairness is out of the prover's reach; the measures that decrease are
proved), and the documented promises the code does not keep, which have
counterexamples. Every invariant and action property of a passing run is a theorem.

## Where the code and the documents disagree

1. A signed approval can be executed more than once (`dispatch_once`).
2. The requester can approve on the other worker (`dispatch_duties`).
3. A run that is paused in a gate dies when it is resumed (`workflow_resume`).
4. An investigation's own budget is never enforced (`workflow_budget`).
5. A retry that is permitted after NO_RECORD repeats completed steps (`saga_retry`).
6. A revoked approval is good for an intent in the hands of whoever holds the
   record its grant returned (`governed_revoked`).
7. A live stream without events for 15 seconds ends (`stream`).

Without a run, because the order is plain in the model:

8. The intent row is written after the provider call, not before (`InsertIntent`).
9. A halted compensation is reported as COMPENSATED (`CompensationReturns`).
10. A step that timed out and is confirmed ends the saga as RECONCILED, although later
    steps were not executed; the default inquiry confirms every step (`Known`).
11. An intent whose attempt has been reconciled stays RECONCILING (`Propagated`).
12. An attempt may be started whatever the status of its intent (`Started`).
13. A replay ends everyone's live stream of its investigation (`EsReplayStep`).
14. Overlapping appends fork the audit chain; a repeated correlation id within a second
    loses an event (`AcRead`, `AcLose`).
15. The first reservation of a day is not compared with the budget, and a conflicting
    one reports success (`BlInsert`, `BlConflict`).
16. A switch activated while the bus is down is never published (`KsWrite`).
17. The end of a rotation makes a revoked secret ACTIVE (`SrPromote`, `SrAbort`).
18. Tokens of a reference with a colon are never purged (`SrPurge`).
19. A canary may skip stages, aborting one bundle stops another, and an aborted bundle
    that is not registered may be promoted again (`CrPromote`, `CrAbort`).
20. A failed evaluation leaves an earlier PASS in force (`RgEvaluate`).
21. A hold placed during a deletion does not stop it (`TnDeletionEnds`).
22. Releasing a hold makes a DEACTIVATED tenant live again; a second matter replaces
    the first; a release under another matter gives a held tenant any status, DELETED
    too (`TnReleaseHold`, `TnApplyHold`).
23. Credentials are replaced by a call that is refused (`CnConfigure`).
24. A new quota policy forgets what is reserved; late spend is recorded nowhere
    (`QtSetPolicy`, `QtFinalizeLate`).
25. `transition_state` makes a connector ACTIVE with payloads in quarantine
    (`CnTransition`).
26. A reconciliation whose actor may not supersede an anomaly marks it FRESH all the
    same (`AnReconcile`).

## Plan

Done: the dispatch API, the investigation workflow, approval service and ledger, the
saga, and the thirteen services above, with proofs of all safety properties that the
prover can express. What would come next:

1. The in-memory audit chain (`modules/finops/audit_chain.py`) and the outcome store with
   its outbox (`modules/action/outcome/service.py`), as abstract and detailed log.
2. An abstract specification of a governed action (signed, decided once, executed once)
   that both `ActionDispatch` under `SteadySpec` and `GovernedAction` implement.
3. A composition of `KillSwitchBus` with the dispatch of `ActionDispatch`, once the API
   asks the service instead of its table; today it does not.

## Not modelled

- Statistics (anomaly detection, localisation, causal and uplift estimates, fairness,
  benchmarks) and decision scoring compute over floating-point data, outside TLC's
  integers; what they answer is a choice where a model needs it.
- Retrieval, evidence, hypothesis, tickets and verifier are functions from documents to
  bundles and scores; their answers are choices in `InvestigationWorkflow`.
- Data models (`canonical/models.py`, `identity/domain/models.py`, metric definitions)
  declare fields; they have no operations that change state.
- Identity and authorisation are represented by their outcome (caller, roles, tenant).
- `modules/action/outcome/service.py` appends a record, an event and an audit line in one
  call with no `await` between them, and no decision reads them; the dry run, the
  blast-radius check, the onboarding check list and the recovery drills answer from
  their arguments.
- The front-end, reports, metrics and fixtures keep no state the properties need.

These make up most of the source, so the map covers a small part of its lines: the
part that keeps state over several calls.
