# Verification of the Fuse agent control plane

The control plane lets an organization give agents bounded authority to buy
inference: an operator publishes a policy, creates a mandate with a maximum,
assigns agents and delegates branches; an agent's request is admitted against
all of that, reserved, sent to a provider, and settled or put under review.
Around that core stand the tenants' own records, a paid HTTP interface, a remote
signer, and a protocol of pre-registered runs that measures what happens when
providers fail. The modules here model the parts that decide and account for
money and evidence, check them with TLC and prove their main properties with
TLAPS.

Paths below are relative to the repository: the program is under `src/src`.

## The system

| Component | State | Operations | Interacts with |
|---|---|---|---|
| Policy engine, `domain/policy.ts` | none | `evaluatePolicy` | called inside the admission transaction |
| Policy store, `persistence/policyStore.ts` | PostgreSQL tables: policy versions, mandates, assignments, branches, execution rows, holds, resolutions, shadow jobs | publish, create, assign, delegate, transition, admit, complete, hold, fail, resolve | row locks shared by every process |
| Controlled inference, `inference/inferenceExecution.ts` | the call's local variables | `execute`, `preview` | store, provider, reliability hooks |
| Shadow bookkeeping, `anomaly/siblingDivergence.ts` and the store | ordinals per cohort, jobs with claim token, lease, attempts | queue, claim, evaluate, finish | after completion; a script drains it |
| Policy administration, `policy/`, `product/policyPublishing.ts`, `product/mandateManagement.ts` | none | validation before the store | HTTP application |
| HTTP application, `http/` | none of its own | routes, payment guard, idempotency | all services |
| Mandate service, `core/`, `persistence/postgres.ts` | one serialized state row, receipts | pay, prepare, release, reclaim, trip | HTTP application |
| Remote signer, `signer/`, `circle/` | authorizations, cumulative ceiling | reserve, sign, complete, hold | payment guard |
| Identity, `identity/`, `persistence/identityStore.ts` | credentials, invites, sessions | issue, rotate, recover, consume, revoke | HTTP application |
| Providers, `providers/`, `persistence/providerConfigStore.ts` | versioned configuration, verification retries | configure, verify, retry | controlled inference |
| Onboarding, `product/customerOnboarding.ts`, `product/workspaceOnboardingStore.ts` | operations, reservations of capacity, redeemed invites, recovery codes | claim, provision, complete, take over, roll back, recover | identity, providers, policy store |
| Product read models, `product/` | payment evidence | projections | HTTP application |
| Reliability protocol, `reliability/`, `scripts/held-out-reliability-v4.ts` | protocol tables, write-once files | authorize, claim, dispatch, hold, look up, settle, finalize, publish | controlled inference |
| Evidence, `evidence/`, `scripts/generate-evidence-fixtures.ts`, `scripts/replay-evidence.ts` | run claim, manifest, reports | run, replay, reduce | reliability protocol, HTTP application |
| Runtime, operations, client package, other scripts | none | wiring and thin callers | |
| Contract, `contracts/FuseSpendMandate.sol` | spent, revoked | spend, revoke | payment |

What is hard in it:

* admissions of several processes race over one mandate's totals, and a retry
  races the call it repeats: the execution row is read without a lock;
* a process may die, a provider may answer late or never, a commit may succeed
  and its acknowledgement be lost; a lease may end under a worker that is alive;
* several outcomes of one mandate may be unknown at once, and operators act on
  the mandate while they are;
* authority is delegated, expires, is revoked and changes its policy while
  requests on it are under way;
* payment, admission, completion and evidence of a call are written by different
  stores, one after the other, and nothing undoes the first when the last fails;
* a database and write-once files are brought to agree by processes that overlap
  and stop between the two;
* every deadline of a reliability run can pass between any two of its steps, and
  its lanes wait for each other at a barrier.

What makes each component correct: the engine's decisions agree between modes
and no mode relaxes authority; the store never commits more than a mandate, a
branch or a class allows, keeps what was decided, and never forgets what may
have been billed; the inference path dispatches a request at most once and
returns; a mandate under review is out of use until its last case is resolved,
and then can be resolved; the signer never authorizes above its limit or twice
for a request; a workspace exists whole or not at all, and a claim, a recovery
or an invite has one winner; a secret is used only after its provider accepted
it; a call is answered only if it is accounted for; a run spends only on
complete authority, and its verdict is the one its evidence supports.

`PROJECT.json` lists every component with what is modelled, and under `hazards`
the places in the code where these things bite.

## The modules

| Module | Models |
|---|---|
| `Amounts` | bounded amounts, sums over rows |
| `PolicyEngine`, `PolicyDecisions` | `evaluatePolicy`: reasons, hard and soft denials, modes; the engine over sets of policies and inputs |
| `PolicyStore` | the tables and every transaction that changes a mandate or an execution |
| `ControlledInference` | calls of `execute`, the provider, operators, the clock; extends `PolicyStore` |
| `Delegation` | what delegated branches guarantee, over `ControlledInference` |
| `Progress` | fairness and liveness, with a history of the requests a call of which died |
| `ClosingIntent` | a history of the mandates an operator asked to close |
| `SpendLedger` | the abstract specification: entries authorised, settled, released, disputed, ruled on |
| `LedgerRefinement` | the refinement mapping from execution rows to entries |
| `ShadowQueue` | ordinals of a cohort, shadow jobs and the workers that claim them |
| `SiblingDivergence` | the arithmetic of one shadow evaluation over one window |
| `SignerAuthority` | the signing endpoint over its authorization ledger |
| `MandateService` | the public mandate: one row with the ledger, the circuits and the held completions |
| `PaidInference` | the paid endpoints: preview, payment, admission, completion, evidence, replay |
| `Onboarding` | the creation of a workspace, step by step, under a durable operation |
| `Recovery` | the recovery of a workspace's credential, and its replacement |
| `Identity` | service and agent credentials, invites, sessions and the requests they authenticate |
| `Providers` | the versioned secret of a provider, its verification and the retries of that |
| `RunAuthorization` | how a reliability run gets its authority: one operation, a decision, an outbox of receipts, deadlines |
| `SchedulerClaims` | the worker processes of one sealed call: claim row, manifest file, lock file |
| `ReliabilityRun` | the protocol tables, the handlers that dispatch sealed calls, the runner and its lanes, the reconciler |
| `ReconciliationLookups` | the lookups of one ambiguous call at fixed offsets, and the cutoff |
| `RunClosure` | the stages from the last call to the final commit; settlement, report intents, write-once files |
| `EvidenceReduction` | the verdict that is reduced from the tables of `ReliabilityRun` |
| `FixtureRun` | the paid evidence run with its ceiling, its manifest, and the replays of it |
| `*Proofs` | theorems; see below |
| `MC*` | instances for TLC |

`EvidenceReduction` extends `ReliabilityRun`: it is the second reading of the
same tables. The other modules of the protocol divide a run by what they ask of
it, as the code divides it by command: authority, the claim of one call, the
dispatch of all of them, the lookups of one, the end.

`MCTenancy`, `MCAuthority` and `MCDispatch` instantiate several modules that
share no state: the variable `part` is chosen in the initial state and says
which of them moves, so that each behaviour is a behaviour of one module, and a
run answers for all of them. Their constants share model values where that makes
a symmetry serve several parts.

Definitions whose comment begins with "Faulty" are not part of any
specification. Each is a plausible bug in the definition before it, and
`PROJECT.json` names under `mutants` the property that finds it.

### Correspondence

**`PolicyStore`, `ControlledInference`.** Each variable of `PolicyStore` is a
table: `published` is `policy_versions`, `mandate` is `control_mandates`,
`assigned` is `mandate_agent_assignments`, `branch` is `mandate_branches`,
`execution` is `inference_executions` together with the decision it was inserted
with, `hold` is `mandate_reconciliation_holds` and `resolution` is
`reconciliation_resolutions`. `rowLock` is the mandate row an open admission has
locked. `worker` is the local state of one call of `execute`; `dispatches`
counts, for the properties only, how often a request reached a provider.

A transaction is one action where it locks the mandate first and does not wait
again. Admission is two: `AdmitRead` takes the lock and reads the execution row,
and one of `Decide`, `Replay`, `ExpireLease`, `Collide` acts on what was read and
commits. In between other transactions may complete, fail or hold that row, as
in the code, where the read has no `FOR UPDATE`. The counters an admission reads
in further statements are read in the one action that uses them: all that can
change them under the mandate's lock is a completion or a failure, which only
lowers them. `SELECT ... FOR UPDATE` over the join of a mandate and its policy
locks both rows, so mandates that share a version share its lock (`PolicyFree`).

`decidedAt` is captured when the call arrives, before it waits for the row, so
the model decides by a clock that may be behind. The lease compares with
`createdAt`: an executing row's `updated_at` is never anything else.

`CompletionThrows` may happen to any answered call: it stands for a row that is
no longer executing, for a rolled back transaction (the victim of a deadlock, a
lock timeout, a lost connection, the mutation exclusion of the reliability
protocol). `CompletionUnacknowledged` is the commit that succeeded although the
caller sees an error. `Crash` stops a call anywhere; an open transaction rolls
back.

What is abstracted: request fingerprints are the fields they are computed from;
a provider's answer is its cost; `RejectAnswer` covers a wrong model and a
missing cost; branch ids are global in the model (per mandate in the code); one
organization. The replay of an identical resolution changes nothing and is a
stutter; `preview` is in `PaidInference`. Audit events are left out; the
reliability hooks are in `ReliabilityRun`, and the shadow bookkeeping of a
completion changes no table of `PolicyStore` (it runs in a savepoint, after the
row is written) and is `ShadowQueue`.

**`SignerAuthority`** is a handler of `POST /v1/sign` in six stages over the two
tables of the signer. `reserve` is one action per outcome: the transaction locks
the row of the organization's limit first, so reservations are serialized, and
`complete` and `holdForReview` are single updates of a row that is still
reserved. Two deployments may be configured with different ceilings: the first
to write the limit wins, and the other's requests throw. `ReserveUnacknowledged`
and `CompleteUnacknowledged` are commits whose acknowledgement is lost; after the
second the same handler asks for a review of what it stored. A hold that fails
is swallowed by the code, and leaves the reservation standing. The state has no
way back to the ceiling and no action that signs again: what an attempt left
behind is for a person to look at. `asked` counts, for the properties only, how
often the wallet was asked for a transfer.

**`ShadowQueue`.** A completion is a transaction of two steps, because its ordinal
exists before it commits: `TakeOrdinal` increments the counter of the cohort and
keeps its row locked, then `CommitOrdinal` commits execution and job together,
`AbortCompletion` rolls everything back, or `CompleteUnordered` rolls back to the
savepoint (or finds that bookkeeping does not apply) and commits without an
ordinal. The counter is written in place and undone, which nobody else can see
under its lock. A worker is a completing call with one job (`Serve`) or a run of
the script with its batch (`Scan`); it reads the batch without locks and each
job's claim is a transaction (`Refuse`, `Claim`), as are the evaluation and the
mark of a failure. Each may fail, or commit without the worker knowing
(`...Throws`, `...Unacknowledged`). A worker's name is its claim token. A lease
is five minutes on the clock of whoever looks and a worker has no deadline, so a
lease may be over at any time after it was taken (`Expire`). The database's clock
is taken to run forwards, and is read when an ordinal is taken. `evaluated`
counts attempts of the evaluator, for the properties only.

**`SiblingDivergence`** evaluates one window: `config`, `window` and `observed`
are the arguments of `evaluateSiblingDivergence`, in the grouping
`evaluateAndPersistShadow` gives them. Ratios are compared by cross
multiplication, as the code does with its integers, and a displayed ratio is cut
off at `MaxSafeInteger`.

**`MandateService`.** `service` is the one row of `fuse_service_state`: the root
account, an account and a circuit per child, a reservation per request id and the
held completions in their order. `receipts` is `fuse_receipts`. Each operation is
one transaction under the lock of that row, the provider's call included, as
`PostgresStateStore.mutate` has it. `caller` is a request between its
transactions; it may stop, or lose an answer, between any two.

**`PaidInference`.** A call is previewed, pays a gateway, is admitted or finds the
row of its key, and on the product endpoint records its payment before it is
answered. `execution`, `paid` and `paymentEvidence` are the three stores. The
preview is not read-only: a key whose lease is over is put under review by it, as
by a repetition.

**`Onboarding`.** `operation`, `reservation` and `redemption` are the tables of
the store, `rows` what the provisioning steps left in each workspace's tables.
Every step is a transaction of its own followed by a heartbeat. Staleness is an
action (`fifteen minutes pass`), possible at any time, because a process may
stall. A taken-over operation gets a new workspace id (`drawn` ids are never
drawn again), and the old worker goes on until it next looks.

**`Recovery`** is the life of one completed workspace afterwards: the recovery
columns of its operation, the credentials of its agent, and clients that look,
rotate and are answered in separate steps. The sealed answer is kept under the
client's idempotency key.

**`Identity`.** Credentials, invites and sessions are rows; `request` is an HTTP
request that authenticated and acts later, as the principal it was given. A
session names the service credential at the root of the chain it came from;
`rootOf` and `inviteOf` are histories the properties compare that with.

**`Providers`.** `config` is a version with its secret, `retry` the rows of
verification retries, `call` a configure or a retry between its transactions. The
clock is read with a call's first transaction, so a row's times may be old when
they are written.

**`RunAuthorization`.** `operation`, `decision`, `outbox` and `nonce` are rows of
the protocol's authorization tables, `receiptFiles` the write-once files,
`command` an invocation of the run command. Deadlines pass in an action of their
own. That a second command can never decide again rests on a detail: a repeated
decision is compared with the stored one, JSON text against what JSONB gives
back, and is never found the same (`SameVerdict`), so later commands are refused.

**`SchedulerClaims`.** `claim` is the row of a sealed call with owner, generation
and lease, `file` the manifest at its path, `writeLock` the lock file. A
publication that fails leaves the lock file behind and the path busy for good,
which the model keeps.

**`ReliabilityRun`.** `run` is the protocol tables of one run: control and lane
rows, attempts, tokens, the burst barrier, the held lanes and their backlog, and
the counters the gate reads. A dispatcher is an HTTP handler of a sealed call, in
the stages `inferenceExecution.ts` gives it around `execute`; the runner opens
blocks and drives the lanes; `looking` is a reconciliation of an ambiguous call.
Every operator on a record `r` is a part of a transaction that the store's private
methods share, and each action is one transaction.

**`ReconciliationLookups`.** `phase` and `evidence` are the rows of an offset,
`reconciler` a reconcile command with its place on the timeline. The clock is
even while the start window of an offset (or of the cutoff) is open and odd in
between, which is all that the code's deadlines distinguish. A reconcile command
that is started again marks the committed offsets it meets failed.

**`RunClosure`.** `control` is the run's row with its durable stage, `intents` the
committed report intents, `file` and `manifest` write-once files. A process runs
one command and may stop between a transaction and a file. `EvidenceReduction`
has no state: it reduces a snapshot to a verdict.

**`FixtureRun`.** `manifest` is the one file a runner replaces after every call,
through a temporary file and a rename, so that after an error either version may
stand; `calls` is what the service and the provider know of each planned call.
A replay reads one snapshot and writes one report, once.

In all of these, "the database fails" and "the acknowledgement is lost" are
actions of their own where the caller behaves differently afterwards, and hashes,
commitments, signatures and encrypted text are the values they are made from.

## Runs

| Run | Instance | Result |
|---|---|---|
| `inference_safety` | two calls, two requests, one mandate that fits one or both, enforcing or observing; retries, crashes, lost answers and commits, late clocks, operators | the safety properties hold, and every step is a step of `SpendLedger` |
| `delegation` | branches delegated, widened and outlived under two policies, with one request or two; two mandates from an empty database | budgets hold, decisions stay |
| `progress` | two callers of one request, fair | calls return, reservations end |
| `shadow` | two executions of a cohort complete while two workers process jobs | order, evidence and claims hold, jobs end |
| `tenancy` | `Onboarding`, `Recovery`, `Identity` or `Providers`, two racing clients each | a workspace is whole or bare, recovery and invites have one winner, nobody outlives the authority that let him in |
| `authority` | `PolicyDecisions`, `MandateService`, `PaidInference`, `RunAuthorization`, `SchedulerClaims`, `ReconciliationLookups`, `FixtureRun` or `SiblingDivergence` | what decides that money may be spent, and what accounts for it, holds |
| `dispatch` | `SignerAuthority`, `ReliabilityRun` with `EvidenceReduction`, or `RunClosure` | nothing is signed or dispatched twice, no limit is passed, no outcome or verdict is rewritten |
| `orphan_hold` | does a held mandate have a case? | no, see below |
| `case_resolvable` | can the last case be resolved? | no, see below |
| `closing_intent` | does a mandate asked to close stay out of use? | no, see below |
| `lost_receipt` | is the receipt of every released response stored? | no, see below |
| `failure_report` | can the failure of a run be reported? | no, see below |

### What the properties say

*Inference.* `AtMostOnceDispatch`: a request reaches the provider once, whatever
is retried or lost. `BudgetBound`: what a mandate has reserved and settled is
bounded by its maximum; only an operator's settlement takes a row above its
reservation. `OpenCaseBlocksMandate`: a mandate with an open case is out of use.
`NoSpendForgotten`: a request that reached the provider stays on the books until
an operator ruled on it. `RollingCeilings`: the hourly and per-minute ceilings
hold over every window, although callers decide by old clocks.
`ImplementsLedger`: every step is a step of the abstract ledger or leaves the
books alone. `CallsReturn` and `ReservationsEnd`: what eventually happens; the
second has two parts, the other way out being a retry after the lease.

*Delegation.* `DelegatedSpendBound`: authority only narrows, and the lifetime
budgets of branch and class bound what their requests reserve and cost, in every
mode and across changes of policy. `DecisionsImmutable`: a decision and what it
was about are never rewritten, also when an id arrives under two mandates.

*Shadow.* `CohortOrdered`: ordinals are the order of commits, without gaps, and
time agrees with it. `EvidenceCanonical`: evidence is what an evaluation at any
other time would find. `StaleWorkersChangeNothing`, `JobsEnd`: what claims and
leases are for. `SignalsAreRobust`: a branch that spends more keeps its signals, a
sibling that spends less clears none, one sibling among five cannot buy the
others out of theirs, and a shift of the whole cohort shows against the prior.

*Tenancy.* `WorkspacesWholeOrBare`: a completed workspace has everything its steps
create; a worker that lost its operation leaves nothing but the organization and
administrator it was just creating; a key is answered with one workspace.
`CapacityHolds` bounds what exists or is under way, but for the two ways the code
lets a key go on without a reservation that counts (a retry after a rollback, a
reservation that expired under its request). `RecoversOnce`: the rotation has to
revoke the credential the workspace was created with, so one recovery happens in
a workspace's life, whatever codes are drawn later. `SessionsHaveOneOrigin`,
`SessionsEndWithTheirRoot`: an invite opens one session, no session has more than
the role at the root of its chain, and revoking that credential ends it.
`VerifiedWasAccepted`, `RetriesSettleOnce`: a late verdict about a rotated secret
verifies nothing, and a retry that settled stays settled.

*Authority.* `DryRunForecastsEnforcement`: what dry run says would be denied is
what enforcement denies. `BooksBalance`, `TrippedSpendsNoMore`: the sums of the
public mandate agree at every level, receipts say what was settled, and a tripped
branch promises no more. `AnswersAreAccounted`: an admitted request was paid for
by the call that was admitted, a call is answered only with the answer to what it
asked, and on the product endpoint once its own payment is on record.
`AuthorityPrecedesDispatch`: behind a claimed block stand a valid pair, both
receipts in their files, and an operation that completed in time and did not fail
afterwards. `ManifestsBackClaims`: what a claim records was on disk before and
is of the claim's own past; a terminal claim records the file evidence will find.
`OneLookupDecides`: what was accepted about a call is about one provider request,
one offset decides, nothing is gathered later. `CapCoversBills`: the ceiling of an
evidence run holds for what the provider billed, with the call whose answer never
came. It does not count billed calls that came back as errors or went on hold: the
manifest has them at cost zero, and the property says so. `FilesAnswerForTheRun`:
the manifest forgets no call but the one being made, and a report stays true of
what stands beside it.

*Dispatch.* `SignedOnce`, `AuthorityBound`, `OutcomesFinal`: what the signer
promises of a wallet it cannot take anything back from. `GateAnswersForTheRun`: the
counters a run is steered by say what its calls became, whichever writer
classified them. `LanesKeepTheirOrder`: no burst call goes before its block is
complete, another lane is single-flight through holds and resumption, and a lane
is held exactly while a call holds it. `ExposureWithinCap`: calls of unknown cost
never reserve more than the cap. `NothingHangsAfterFailure`: after a failure only
the owner of a live token is left without an outcome.
`GateAgreesWithEvidence`: a run the gate lets through passes by the evidence,
which is other code over the same tables, unless a lookup failed on the way.
`VerdictStands`: a published failure is never followed by a pass, and a run is
complete exactly when its last word is a pass given to a replayed, settled run.

### Where the code does something else than its documentation

* `HeldMandateHasCase` (`orphan_hold`). A retry reads its row as executing and
  finds its lease over. Before it acts the original call completes. The update
  of the row then matches nothing, and the mandate is held all the same
  (`policyStore.ts:2456-2464`): it is in `reconciliation_hold` with a stored
  prior state and no case. Only `closing` leads out, so the mandate cannot be
  used again, although nothing about it is unknown.
* `CaseResolvable` (`case_resolvable`). `mandateTransitions` lets an operator
  move a mandate to `reconciliation_hold`, or from there to `closing` and
  `closed`. The resolution of the last case (`policyStore.ts:1528-1541`) expects
  other states and throws, and the transaction rolls back: the case stays open.
* `ClosingIsFinal` (`closing_intent`). The state to restore is inserted `ON
  CONFLICT DO NOTHING` (`policyStore.ts:2036`). A mandate held while active,
  moved to `closing`, and held again by a second late answer keeps `active` as
  the state to restore, and is resumable after its cases are resolved.
* `ReleasedReceiptsPersist` (`lost_receipt`). `mutate` inserts the last released
  receipt in the order of preparation (`postgres.ts:131`). When A is prepared
  before B and B is released first, releasing A inserts B's receipt again, which
  does nothing, and A's row is never written; `README.md:126` has released
  receipts survive. The books themselves are in the state row and stay right.
* `FailureCanBeReported` (`failure_report`). Hard finalization plans canceled
  manifests for all lane blocks at the write-once paths where the runner already
  published those of the blocks that ended (`protocolStore.ts:1605`), and they
  are published first. A run that ended one block conflicts with its own file
  and its failure is never published, which
  `docs/held-out-reliability-protocol-v4.md:316` sets a deadline for.

What else was met while modelling, and is in the models as it is:

* a key that claims a workspace after a rollback is not counted again
  (`unreserved` in `Onboarding`);
* the preview of a paid call gives up an execution whose lease is over;
* a billed call that ended in an error counts nothing towards the ceiling of an
  evidence run;
* a lookup of the ordinary ledger keeps the resolution an operator made before
  it, and rewrites the execution as the lookup found it. `PolicyStore` has the
  operator and `ReliabilityRun` the lookup; no module has both;
* a shadow job whose third claim is lost stays pending.

### Bounds

**Inference.** Two callers and two requests are the smallest number in which a
retry races a call, two admissions race over a budget, and two cases are open at
once; a third caller only adds a caller that waits. A maximum of 3 admits one
request of cost 2 and not a second; a maximum of 4 admits both, so that two cases
can be open (there the clock stands still: its leases and windows are those of
the tight mandate). The hourly ceiling of the enforcing policy (2) is below
either. A provider reports 1 (cheaper than reserved) or 3 (an overrun); an
operator settles at 4, above both. `Minute` is 0 and `Hour` 1, so that the rate
bites within one tick and the ceiling across two; `MaxTime` and `LastArrival` stop
the clock and new arrivals after the lease could run out. `OnePolicy` keeps the
mandate's policy in this run; policies change in `delegation`.

**Delegation.** The constraint `Explored` cuts the product of everything an
operator can do: one request with three branches, two requests with two branches,
or two mandates from an empty database with one id. It leaves out the end of the
lifecycle, and time passes only with one request and two branches. A request may
also be about a mandate that does not exist yet. `progress` has one request of two
callers, the race it is about.

**Shadow.** Two executions of one cohort, the smallest number in which one may
read the other, and two workers, so that one is stale when the other holds its
claim; batches of one, below the length of the queue; two attempts instead of
three (a third is a second retry); one tick and a window of 0, so that an earlier
execution may be in the window or outside it. A window of `SiblingDivergence` has
up to five siblings, where trimming begins, of spends around the prior and counts
around the minimum; every configuration of a small product is tried. The spends are
below, at and beyond one and a half times the prior, the threshold, and
`MaxSafeInteger` is small enough for the largest ratio to be cut off.

**Tenancy.** Two keys of which one may be active, so that capacity refuses; two
provisioning steps, the bootstrap and one after it, which is where a taken-over
worker can still write. Two recovery codes after the first, and enough credentials
for both to be tried. Two invites and two sessions, so that a chain is longer
than one, and two service credentials of different roles. Two secrets, two
retries, two calls. `Bounded` keeps what multiplies without interacting apart: a
second body is tried against a running operation only, agents are looked at apart
from people, and no invite is for a viewer.

**Authority.** Inputs at and beyond each limit, alone and together, under a
policy with a class and one without, in each mode. Three requests of two children
under a root that fits two of them and not three, one id asked for under both
children. Three workers of two owners and three generations: one takeover more
than a stale worker needs. Three commands: two valid pairs, so that one is late,
and half of one. Five calls under one key: two that race, one with another body,
one on the other endpoint, one replay. Two reconcilers, two offsets and the
cutoff. Two processes of an evidence run, three planned calls of which the last
must be denied, a cap the first two fit and none, two replays.

**Dispatch.** Three handlers, so that two of one deployment race with one of
another, ceilings 3 and 2, and transfers of 2, 1 and 2, of which the first and the
third do not fit together; ids are free. Three calls in three schedules: a block of
two on either lane with a block after it, and two lanes in one block; a cap of
two of them. Two processes and three report intents: a verdict, one that
supersedes it, and one that must not.

Amounts wrap at no width in the code (`NUMERIC(78, 0)`). `CHECK_DEADLOCK FALSE` is
set because clocks, arrivals, ids and attempts are bounded: a system that has
served everything stops. Symmetry is used in runs without liveness only.

### Fairness

Only `progress` and `shadow` assume any.

`Running`: each worker's step is strongly fair. The process runs and its timers
fire (the provider call has a timeout, so an answer or its loss follows), and a
PostgreSQL row lock has a queue: a waiter for a row that is locked and unlocked
again and again is enabled infinitely often and is served. Nothing is assumed of
operators, arrivals or crashes, so what `CallsReturn` promises is an answer, an
error or the death of the process. `Persistent`, the hypothesis of the second
part of `ReservationsEnd`, adds what the retry protocol asks of a client: it
repeats its request after the lease until the repetition does not die.

`Scheduled`, for the shadow: `docs/sibling-divergence-shadow-v1.md:195` has
deployments schedule the script, so a run that can start again and again starts
(strong, because the workers are busy in between); a worker's steps and leases
run on (weak); and a job that can be claimed again and again is claimed, which
the batch's order by `queued_at` gives to the oldest. Crashes, lost commits and
failures are not fair and may happen any number of times.

The reliability protocol has no liveness property: every wait of it ends in a
deadline that fails the run, and `NothingHangsAfterFailure` says, as an invariant,
what is left to wait for afterwards.

## Proofs

All theorems hold for every value of the constants that meets the named
assumptions: finitely many requests (`RequestsAssumption`, `ShadowAssumption`),
natural time constants and bounds (`TimeAssumption`, `ProvidersAssumption`,
`ClaimsAssumption`), payloads about a mandate with an amount for a cost
(`PayloadAssumption`) that name at most one branch and class (`ScopeAssumption`:
a request has one of each in its schema), finitely many branches
(`BranchesAssumption`: rows of a table), ceilings and budgets that are natural
numbers (`PolicyAssumption`: `validatePolicy` and the checks of the
`policy_versions` table refuse others), inputs within their types
(`BoundsAssumption`, `DecisionsAssumption`), a key for each call (`PaidAssumption`), a first code and credential (`RecoveryAssumption`),
finitely many onboarding keys and a positive limit (`OnboardingAssumption`: the runtime
refuses a lower one), ids drawn apart for each table and lives of invites and
sessions that are not zero (`IdentityAssumption`), finitely many children and request
ids with natural budgets, prices and costs (`MandateAssumption`: the demonstration mandate
is built from constants, and costs are token counts times prices), at
least one offset (`LookupsAssumption`), windows of finitely many branches with
natural counts and configurations within what `validateConfig` accepts
(`DivergenceAssumption`), a natural cap and schedules that list
their calls block by block with amounts for reservations (`PlansAssumption`: the
plan of `evidence/heldOutReliabilityV4.ts` is generated by block, lane and
ordinal), and the special values outside the sets they extend.

* `AmountsProofs`: sums over a finite set of rows are natural, monotone, and
  change by the row that changes or is left out.
* `ControlledInferenceProofs`: each transaction of the store keeps `StoreTypeOK`, and
  `TypeCorrect`, `Spec => []TypeOK`. `DispatchedOnce` and `SpendKept` from `DispatchInv`:
  a call that holds a reservation and has not reached the provider is alone with
  its request and its request was never dispatched. Neither property is
  inductive without it: nothing else rules out two callers with one reservation.
  `CaseBlocksMandate` and `NoneAdmittedUnderReview` from `ReviewInv`: a mandate
  with spend in flight is no draft, so a hold takes it out of use, and over an
  open case it is in one of four states; resolving one case gives it back only
  when no other is open. `WithinBudget` from `BudgetInv`: the cost of a settled
  row is an amount within its reservation unless an operator settled it; the
  total then grows only by an admission, which checked it. `FinalRows` and
  `DecisionsStay` hold of every step from the types.
* `SpendProofs`, on what the previous module proves:
  * `LedgerImplemented`, that `Spec => ImplementsLedger`: under the mapping of
    `LedgerRefinement` every transaction is one step of `SpendLedger` or a
    stutter. The mapping goes by a row's status and the ruling on it, so
    `LedgerInv` is needed: a row that was not admitted reserves nothing, and only a
    final row was ruled on. Each action of the path has a lemma that names the
    step of the ledger it is, or that it leaves every entry alone.
  * `CeilingsHold`, with the part of `BudgetInv` that says a settled row costs no more
    than it reserved; the argument is about windows. A step enlarges a window of
    row times by at most the one row a call decides, whose time is the time the
    call decides by. The call counts every row from an hour before that time
    on, later ones included, which covers the window, and compares the sum with
    the ceiling of the version the row is decided under. So the ceiling holds over
    every window, even when calls decide in another order than their clocks.
  * `DelegationHolds` from `DelegationInv`: a branch that delegates belongs to a
    mandate that exists, under a version whose classes include its own, and every
    row admitted on it is of that mandate. Then what a branch shares out is
    bounded by its budget when it is cut, and no more than that is spent on it or
    on one of its classes: `PoolKept` is the lemma that a pool of rows keeps to a
    limit when no row of it gets heavier and the one that joins was decided
    with the others counted.
* `DispatchProofs`: `SignerTypeCorrect`, `SignedOnceAlways`, `WithinAuthority` and
  `OutcomesStay`, from `SignerInv`: a handler that holds a reservation is alone
  with its row (`OwnershipInv`), two rows never share a nonce (`NoncesInv`), a
  transfer that was asked for has a row (`AskedInv`), and the rows add up to what
  the limit has reserved (`BooksInv`). That nothing is signed twice is not inductive
  without the first three: a reserved row alone does not say whether its handler
  has asked the wallet yet.
  * `VerdictAlwaysStands` from `ClosureInv`: once the run is terminal no call is open, the
    passed replays and the accepted snapshot are final (`StagesInv`); of the publication
    intents only the last can still be published, a published one is the last and had
    its receipt in time (`IntentsInv`); and a command that publishes does so for
    calls that are decided, and what the file says is of its intent from when it
    announced it (`CommandsInv`). Without the last part a slow publisher could record
    a receipt for a verdict that another has superseded.
* `ReliabilityProofs`: `GateAlwaysAnswers`, `LanesAlwaysKeepOrder`,
  `ExposureAlwaysWithinCap`, `NothingEverHangs` and `GateAlwaysAgrees`, all from one
  invariant, `RunInv`, that every transaction, handler, lookup and step of the runner
  keeps. None of the five is inductive, for reasons in different components:
  * that a call is usable exactly when the ledger completed it needs what the row of
    a call says by where its handler is (`CallsAgree`): a late completion could
    otherwise find a row a reconciler decided. The counters count because each of
    the writers classifies calls that were open (`Counted`).
  * that a lane is single-flight rests on the runner and not on the tables, which
    would admit any planned call: what the runner was given to do in a lane, and
    what it queued for later, did not start (`LaneWaits`); an active lane works only
    on what the runner gave it and queues while it is not free (`LaneHolds`); and what
    waits comes after what started, through holds, backlog and resumption
    (`LaneFlights`). When the run fails these are lost, as are the holds, and only
    `SingleFlight` itself remains, because nothing is admitted any more.
  * that a burst waits for its block is `BarriersHold`: a barrier names calls that
    were started, and it is released when each of them has a token.
  * the evidence agrees with the gate because in an active run all that is lost is
    its owner (`OneLost`), held calls are open (`LaneHolds`) and a queued call did not
    start (`LaneWaits`): at the end nothing is held and nothing is queued.
* `ShadowProofs`: `ShadowTypeCorrect`, `CohortsStayOrdered`, `EvidenceStaysCanonical`,
  `AttemptsBounded` and `StaleWorkersHarmless` from `ShadowInv`. An ordinal that was
  taken and not committed is the last of its cohort and its counter is locked
  (`LockInv`), which is why it can be given back without a gap and why whoever
  commits next is beyond every job that may be evaluated; no ordinal is later than
  the clock (`TimeInv`); only a job that can still be done is claimed (`ClaimInv`);
  the owner of a claim has an attempt it has not used (`AttemptsInv`).
  * `SignalsAlwaysRobust`, about one evaluation and not about a behaviour: the
    window, the configuration and the observation are any that the code accepts.
    `SignalsRead` reduces the signals to three comparisons, whose sides are natural
    and whose denominators are positive (`ReadTyped`), so no evaluation divides by
    zero. What is left is about the trimmed sum. The two left out are one that no
    sibling spent less than and one that none spent more than (`TrimmedEnds`, by
    the existence of a least and a greatest, `LeastOf` and `MostOf`). If a sibling
    spends less, another may be left out than before; the sum of what is kept
    does not grow (`SpendingLess`), and if one that outspends the others spends
    more, what is kept is the same sum of as many (`OutspendingTrimmed`). Products
    and quotients of unbounded numbers are compared by `ProductMonotone`,
    `ProductCancel` and `QuotientAtLeast`.
* `TenancyProofs`: `VerifiedAlwaysAccepted` and `RetriesStaySettled` from
  `ProvidersInv`: while the version a call holds is the one stored, so is its
  secret, and what it takes for accepted was accepted (`SecretInv`). Without that
  a verdict about the current version could be about another secret.
  `AlwaysRecoversOnce` from `RecoveryInv`: the sealed answer is of the credential
  its code recovered (`SealedInv`), so whoever is answered later is told the same.
  * `AlwaysWholeOrBare` from `OnboardingInv`: two operations, and two requests at
    work, never share a workspace (`OwnersInv`, `WorkInv`), and what a request that
    holds its operation believes to be written is written. A request that lost
    its operation may still write the bootstrap rows, its first step, and no more.
  * `AlwaysWithinCapacity` from `CapacityInv`: an operation that counts has a reservation,
    and those that count are at most the limit; the operations of `unreserved` keys are
    apart, as in the property. It needs `OnboardingInv`, which says
    whose an operation is.
  * `AlwaysOneOrigin` and `AlwaysEndWithTheirRoot` from `IdentityInv`: a principal
    speaks for the credential it came with or for the root of its session
    (`PrincipalsInv`); what an invite or a session names is that root, and only a
    credential with every capability has invites (`DescentInv`), so that a session is
    within its root's role however long the chain is; and an accepted invite has one
    request that may open its session, and after it one session (`OriginsInv`).
* `AuthorityProofs`, for the modules whose state machines `authority` runs:
  * `DryRunForecasts`, `AuthorityAlwaysHolds` and `ScopeAlwaysFailsClosed` for all
    policy versions and inputs of the declared shape.
  * `AnswersAlwaysAccounted` from `PlacesInv`: what a call knows by where it is.
    Without it a completion could be of a request with another body.
  * `AuthorityAlwaysPrecedes` from `CommandsInv` (the only command that may
    publish, complete or run is the one that decided, and while it publishes the
    operation is not completed), `DecisionInv`, `OperationInv` and `BlockInv`.
  * `ManifestsAlwaysBackClaims` from `WorkersInv`: a worker publishes for a
    generation that was acquired, and once its manifest is in the file the file
    only moves on, and never on from a terminal one. A stale worker is harmless
    because of this and not because it notices.
  * `OneLookupAlwaysDecides` from `WindowInv` and `DecidedInv`: the windows are
    apart, so that what is in time for one offset is before any later one, and a
    terminal row has decided the call.
  * `BooksAlwaysBalance` and `TrippedAlwaysSpendsNoMore` from `MandateInv`. A request
    is reserved and held in one transaction and reconciled and released in one, so
    its row and its completion never disagree (`CompletionsInv`); with that, one
    summand of one child changes in a step, and the sums of the ledger with it
    (`AccountsInv`, by the lemmas on `Total`). The second needs the first: what a
    release settles is at most what it had reserved, which the child still holds.
  * `CapAlwaysCoversBills` and `FilesAlwaysAnswer` from `FixtureInv`: while a run is
    under way its file is what its process knows (`ManifestInv`), the rows are of
    calls that the process and the file know or of the one after them (`RowsInv`),
    a completed attempt agrees with its row (`AttemptsInv`), and what was spent is
    within the ceiling together with the maximum of the call that is out
    (`CapInv`). Then the bills are summands of what was spent, or of the maximum
    of that one call. A report needs no more of the run than that: a
    complete file is not replaced, and decided rows do not change (`ReportsInv`).

Only model-checked: the liveness properties (the provers do not do liveness
under fairness). `FinalRows`, `NoneAdmittedUnderReview`, `AttemptsBounded` and the two properties of
policies beside `DryRunForecasts` are proved and in no run.

## Not modelled

* Policy administration and publishing, and the validation in HTTP handlers: they
  check requests in front of the store operations that `PolicyStore` models.
* The in-memory and file stores of the mandate service, and the event ledger of
  `domain/financialLedger.ts`: alternatives to the PostgreSQL store for tests and
  demonstrations.
* `domain/lifecycles.ts`: transition tables without a caller in the
  controlled path.
* Read-only listings, pages, product projections, onboarding status and audit
  appends: nothing depends on them. Sandbox runs have no transitions of their own.
* The clients of providers, of the signer and of Circle, hashing and encryption:
  I/O and data. They are the answers, losses and values of the models.
* Rate limits of onboarding, and agent credentials without recovery.
* The plan, beacon and seal of a reliability run: pure functions of published
  data. The earlier protocols, v2 and v3, are superseded by v4; of them only the
  barrier they share is mapped. The shadow job and the audit an ordinary
  settlement queues are left to `ShadowQueue`'s view of a completion.
* The statistics of evidence reports and the comparison of replications: batch
  arithmetic over files.
* Bootstrap, runtime wiring, environment validation, schema creation, the client
  package and the demonstration scripts: thin callers, no state.
* The on-chain spend mandate: a contract of 81 lines nobody in the service calls.

What would come next: theorems for the properties above; an
instance with an operator and a lookup that resolve one request; the order in
which transactions take the execution and mandate rows, as a module of its own
instead of a completion that may roll back.
