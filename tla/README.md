# Project Foundry: specifications and proofs

TLA+ models of Foundry's core, the Python package under `src/src/foundry`: what
happens to a ticket from the moment a webhook or a caller hands it over until its
pull request is merged or its run ends some other way. The models are checked with
TLC on small instances; the theorems are proved with TLAPS for every value of the
constants. Line numbers below are those of the sources at the modelled commit.

## The system

Foundry takes a ticket, analyses it, asks people to sign it off, launches a coding
agent for it, watches the agent's pull request and learns from the outcome.

| Component | State it keeps | Operations | What makes it correct |
|---|---|---|---|
| Orchestrator (`orchestrator.py`) | rows of runs, artifacts, agent jobs, policy decisions, outcomes | intake, approve, dispatch, record_pr with remediation, reject, stop, expire, fail | one active run per ticket; no agent without its sign-offs; terminal means terminal; a job is never lost; spend and retries are capped |
| Policy gate (`policy/engine.py`, `policy/foundry.rego`) | none | evaluate | default deny; a higher risk or fewer approvals never allow more; the two engines agree |
| Pull request guardrails (`orchestrator.py` 2094-2345) | none; reads the plan and the diff | the next status for a pull request event | forbidden paths block, sensitive diffs go to a human, nothing un-escalates without a clean diff |
| Inline driver (`drivers.py`) | none | runs the orchestrator's calls on the thread that made them | every completed sign-off is followed by a dispatch |
| Durable driver (`workflows/`) | Temporal workflow state: pending decision, pull request queue | signals, timers, activities with retries, compensation | a signal is never lost; a timeout ends only what it waited for |
| Webhook intake (`api/app.py`, `dedup.py`, `ratelimit.py`, `mapping.py`) | delivery ids, rate windows | verify, deduplicate, rate limit, correlate, hand over | a delivery takes effect once; it reaches the right tenant's run; a client gets its rate and no more |
| Audit trail (`db/base.py`, `audit/`, `compliance/evidence.py`) | a hash chain of events per run | append at flush, verify | sequence numbers are dense; tampering shows |
| Delivery memory (`memory/outcomes.py`, `priors.py`, `scorecards.py`) | an outcome row per run, a cache of priors for a whole process | derive, backfill, aggregate, route, recommend | a row that is there says what its run's trail says; recent rows count; success never demotes |
| Delivery metrics (`memory/metrics.py`) | none; reads the rows | queues, clocks, rates, trends | views agree with each other; a clock counts from when the wait began |
| Intake engines (`engines/`, `catalog/enrichment`) | none; read the ticket, the vocabulary, the catalogue, a model | analyse, route, classify, plan | a model only adds risk; stale rows decide nothing |
| Encryption at rest (`db/encryption.py`, `db/maintenance.py`) | keys of each process | encrypt, decrypt, re-wrap | a retired key is needed by nothing |
| Epics (`epics.py`, `engines/decomposition.py`) | parent and child runs | decompose, fan out, roll up | one level deep; children keep the parent's gates |
| Change freezes (`policy/freeze.py`) | configured windows | is the run frozen now? | wrap-around windows, time zones, first and last minute |
| SCIM directory (`api/scim.py`) | users, groups, memberships | provision, deactivate, who may approve | taking away narrows authority; a deactivated user signs nothing |
| Browser sessions and signing keys (`api/oidc_login.py`, `sessions.py`, `oidc.py`) | signed cookies, a cached key set | sign in, slide, sign out, verify | a session ends within its caps; a withdrawn key fades |
| Configuration and overlays (`config.py`, `policy/overlay.py`, `policy/library`) | effective policy | merge overlay onto base | an overlay only tightens |
| Catalog sync (`catalog/sync.py`) | catalog rows | reconcile a listing | a partial listing removes nothing; what changed is fetched, or due to be |
| Connectors (`connectors/`) | none | calls to trackers, GitHub and chat, with retries | no write is repeated; a list of files is whole |

The rest (dashboard pages, reports, command lines, the partial .NET port, prompts and
text heuristics, YAML parsing) is rendering or text processing and is not modelled;
`PROJECT.json` gives the reason per component, "Not modelled" below the boundary in each.

How they interact: the webhook layer and the approval API call a driver; the driver
calls orchestrator methods; the orchestrator calls the engines and the policy gate
inside a call, an agent provider *between* two of its transactions, and notifies
afterwards, best effort. All shared state is in the database. A transaction holds the
run's row `FOR UPDATE`, so two transactions on a run are serialised; what interleaves
is the code between them, and that is where the hard behaviours are:

* engines take seconds between the active-run pre-check of an intake and its insert;
* `approve` commits before `dispatch_agent` begins, and `dispatch_agent` commits the
  policy decision before it calls the provider and records the job after;
* `record_pr` commits the pull request's status and then re-enters the run to
  remediate it, with another provider call between two transactions;
* a human may stop or reject the run, or a timer end it, in any of these gaps;
* the provider may raise, a cancellation may fail, the process may die;
* webhooks are delivered more than once, by several processes at a time;
* trails, catalogue, directory and key material are written by several sessions or
  processes whose transactions overlap, and by jobs that may die half way;
* clocks decide a good deal: deduplication, rates, freezes, caches, sessions, metrics.

`PROJECT.json` lists each hazard at its line, with the properties that cover it.

## The modules

| Module | Models | Status |
|---|---|---|
| `RunStatus` | statuses and status families of `schemas/common.py` | complete |
| `PolicyGate` | `LocalPolicyEngine.evaluate` and `required_approvals` | complete |
| `RunLifecycle` | the orchestrator under the inline driver, with the durable driver's expiries and compensation | all operations; `intake_epic` is in `EpicFanOut` |
| `RunContract` | the lifecycle promised in the header of `orchestrator.py`: the abstract specification | complete |
| `PrStatus` | what an event with a verdict on its diff makes of a run's status | complete |
| `PrGuardrails` | `_next_status_for_pr` over file lists, with its helpers | complete, glob matching and text heuristics as sets of paths |
| `PolicyRego` | `policy/foundry.rego`, rule by rule | complete |
| `DurableWorkflow` | `workflows/`: the Temporal workflow, its activities and their retries, over the orchestrator of `RunLifecycle` | complete |
| `PolicyOverlay` | policy bundles: merge, comparison, load; and what settings make of a run | the policy knobs |
| `WebhookIntake` | verification, freshness, deduplication, tenants, correlation and each provider's handler | complete, payloads as records |
| `RateLimiter` | `RateLimiter.check` | complete |
| `AuditChain` | sequence and hash at flush, the unique index, `verify_integrity` | complete |
| `EpicFanOut` | decomposition, `intake_epic`, the epic queries and the roll-up | complete |
| `ChangeFreeze` | `active_freeze` over local clocks | complete, windows already parsed |
| `DeliveryMemory` | the audit events of a run, the outcome row derived from them, and the backfill | complete |
| `DeliveryMetrics`, `TrendPeriods` | the views of `memory/metrics.py`; the periods they share with scorecards | rounding and order left out |
| `HistoryRouting` | priors, scorecards, `recommend_provider` and its use | complete |
| `PriorsCache` | the cache of priors that the threads of all organisations share | complete, tables by what they were built from |
| `IntakeEngines` | analysis, routing, risk, plan and their gate | text as sets of words |
| `CatalogSync` | the sweep and the webhook's mark, beside pushes | facts as version numbers, in three parts that fail apart |
| `ArtifactKeys` | key rings, reads and writes, the re-wrapping pass | complete |
| `ScimDirectory` | the SCIM routes as read-then-commit requests; the authority they give | complete but for external ids |
| `SsoSession` | browser sign-in and the sliding session | complete, tokens as records |
| `JwksCache` | the cached signing keys | complete |
| `UpstreamCalls` | retries, status labels, file listings, notifications | GitHub's connectors; the others as single writes |
| `MCRunLifecycle`, `MCDurableWorkflow` | constants for TLC | |
| `MCDecisions` | a walk over the inputs of the gate, the guardrails and the bundles | |
| `MCServices` | the fifteen components around the lifecycle, one in focus at a time | |
| `RunLifecycleProofs` | type correctness, one active run per ticket | |
| `RunAuthorityProofs` | no launch without authority | |
| `DecisionProofs` | the engines agree, tightening only holds back, a policy bundle only tightens, and the walks of `MCDecisions` | |
| `RunRecordsProofs` | endings, escalations, decisions, job rows, retries and spend | |
| `RunContractProofs` | every step of the lifecycle is a step of `RunContract` | |
| `DurableProofs` | the same promises, and the workflow's own, under the durable driver | |
| `ServiceProofs` | twelve of the components of `MCServices`, and the clocks of `DeliveryMetrics` | |
| `EngineProofs` | `IntakeEngines`: a model only adds, more words only escalate; `HistoryRouting`: scorecards add up, merges are rewarded; `PriorsCache`: priors are current; `DeliveryMetrics`: the views add up and agree; the types of all fifteen components | |

### RunLifecycle

A worker is a thread serving one call. An action is one transaction, or one provider
call, of that thread:

| Code | Actions |
|---|---|
| `intake_and_plan` 376-609 | `IntakeStart` (pre-check), `IntakeInsert` (plan, insert, attach on conflict) |
| `approve` 815-911, `InlineDriver.submit_decision` | `Approve`, which leaves the thread about to dispatch |
| `dispatch_agent` 1411-1577 | `DispatchGate`, `DispatchToProvider`, `RecordDispatch` or `RecordDispatchFailure` |
| `record_pr` 1661-1757 | `RecordPr`, which leaves the thread about to remediate when the event asks for it |
| `_attempt_remediation` 1767-2007 | `Remediate` (freeze, gate, claim), `DispatchToProvider`, `RecordRemediation` or `RecordDispatchFailure` |
| `reject`, `stop`, `expire_*`, `fail_run`, `mark_agent_failed` 913-1087, 1631-1659 | one action each |
| process death | `Crash`; `Next` has it, `ServingNext` is everything else |

State: `status`, `approvers`, `jobs`, `outcome` are rows of the database, and `missed` is
what the log says of outcomes that could not be recorded; `ticket` is
what analysis, routing and risk made of the ticket, chosen from the set `Tickets` at the
insert; `launched` and `live` are the provider's side, which the code cannot see;
`decisions` counts the allowing rows of `foundry_policy_decisions` for a dispatch and
`lastDiff` is the verdict on the latest recorded file list: the traces in the audit
trail that two properties need. Rows of jobs hold an identity and a status.

Abstractions: a pull request event carries a verdict on its file list (`none`, `clean`,
`forbidden`, `escalates`) in the place of the list: `PrStatus` says what the verdict does,
`PrGuardrails` how it comes about from the list, and `VerdictsSuffice` that nothing is
lost. A change freeze is a Boolean input. A ticket has one repository and
one provider. When no provider reports usage, `_accumulated_cost` is the estimate per
job row, which is what is modelled. Money is in whole units. Calls that the code refuses
before it writes have no action: they change nothing.

Faults are a constant: `crash` (a thread dies between two of its steps), `provider`
(`create_job` raises), `cancel` (a provider's cancel raises), `memory` (recording an outcome
raises). A run can therefore ask what still holds with each of them. The last is the code's
own rule, that memory must never break the governance path (2009-2025, and
`tests/test_memory_outcomes.py:297-310`, where a run is COMPLETE and has no row): `SetStatus`
then ends the run, leaves its row as it was and adds the run to `missed`. Only the backfill
command makes up for it, which is `DeliveryMemory`'s part.

### DurableWorkflow

The durable driver is a second way to drive the same orchestrator, so the module extends
`RunLifecycle` and has a next-state relation of its own: threads are those of an activity
worker, and what they run are the same split calls. The workflow's state is where `run()`
is (`at`), its fields (`run`, `known`, `decision`, the counts of pull request signals
received and processed) and the current attempt of the activity it awaits (`task`).

| Code | Actions |
|---|---|
| activities (`activities.py`) | `StartIntake`, `StartApprove`, `StartDispatch`, ...: a thread picks the attempt up and takes its first transaction; `ThreadStep`: it goes on, with `Continue` of `RunLifecycle` |
| the same, of an attempt that was given up for lost before it began | `AttemptStalls`, then `BeginLate` or `LateCallDies` |
| `run`, `_handle_decision`, `_observe_pr`, `_expire`, `_compensate` | `IntakeAnswered`, `ApproveAnswered`, ...: what each answer leads to; `HandleDecision`, `HandlePr` |
| timers | `ApprovalWindowCloses`, `PrWindowCloses` |
| signals | `SubmitDecision`, `PrObserved` |
| retry policies (`activity_options.py`) | `AttemptTimesOut`, `AttemptRaised`, `AttemptRefused` |
| death of a worker | `ThreadDies` |

An activity is a blocking call in a thread pool. The server gives a timed-out attempt up
but nothing stops it, so an attempt may run beside its successor; a timeout also stands
for an answer that is lost after the work was committed. An attempt may even be given up
between its pick-up and its first transaction (`activities.py:82`, `orchestrator.py:1682`):
`AttemptStalls` leaves its call with the thread, in `held`, and `BeginLate` runs it later, on
the run as it has become, whether the workflow is at its next attempt, further on or closed.
Pick-up and first transaction are one action only where the attempt does not stall, when
nothing of the workflow can come between the two. A late intake inserts a run of its own if
none is active then, which no workflow looks after; it keeps to the contract like any other. The content of a pull request
event is chosen when the workflow gets to it, since nothing looks at it before. Activities
that commit once and return are one action. A deterministic error (`OrchestratorError`,
`ValidationError`) is the state `refused`; intake has no such errors, because it attaches
to the active run, and a refused dispatch is an answer.

### The decisions

The policy gate and the guardrails are pure functions, translated as operators on
records. `PolicyGate` follows the early returns of `LocalPolicyEngine.evaluate`;
`PolicyRego` follows the independent rules of the bundle and shares nothing with it but
the shape of a request and the tags that stand for reasons. In `PrGuardrails` a path is a
member of `Files`, and a glob list is the set of the paths it matches.

`PolicyOverlay` puts the operator's side to them. `Merge` is the table `_MERGE`, one
direction per knob; `AtLeastAsStrict` is `compare_policy_strictness`, in the parts the code
goes through; `Loads` is `apply_policy_bundle` and the validation after it. Neither is
compared with the other alone: `RequestOf` and `RulesFor` hand the settings to the gate and
the guardrails the way the orchestrator does, so the property is about what happens to a
run. `MCDecisions` gives them something to decide: its state is a request, a configured
pull request, and a deployment with its bundle; an action changes one field of one of
them. Comparing the decisions before and after a step compares neighbouring inputs,
which is what "only tightens" is about.

### The services

Each of these modules has its own variables, `Init...` and `Next...`, and shares nothing
with the others while it runs; `MCServices` checks them in one run.

* `RateLimiter`. `check` is two actions, `Admit` and `Refuse`, with the sweep of stale
  windows in both; time is in fractions of a second because the client is told whole ones.
* `WebhookIntake`. `AnyWebhook` takes a delivery through signature, tenant and
  freshness up to the insert of its id; `HandlerStep` is one transaction
  of the provider's handler after that; `Die` ends a process between two of them. A sender may
  repeat a delivery whenever it likes, to any process.
* `AuditChain`. A session loads the tip (`Load`), builds events and numbers them (`Flush`),
  inserts them one by one against the unique index (`Insert`) and commits or rolls back. The
  hash of a row is the list of everything it commits to. `RowLocks` says whether
  `FOR UPDATE` does anything; the run uses the database where it does not.
* `EpicFanOut`. A starter decomposes a ticket (`Begin`), then takes the parent and the
  children one transaction at a time: the pre-check (`Check`), the insert or the attachment
  to the run that won (`InsertRun`, `Attach`), or an error (`GiveUp`). Runs end meanwhile.
* `ChangeFreeze`. The operator adds and drops windows, minutes pass; a zone is the offset of
  its clock at each minute, one of them moves forward, one back.
* `DeliveryMemory`. The transactions of `RunLifecycle` seen by one thread, with what that
  module abstracts: the audit events each adds and their days, repositories, spend. The
  provider call stays a gap in which the run may end. `DeriveOutcome` is the derivation of
  `memory/outcomes.py`, made in the transaction that ends a run; `RecordOutcome` may fail and
  leave the row out, which `lost` remembers as the log does. `Backfill` is the command that
  makes up for it, for the runs without a row or for all ended ones, each of which it may fail
  to derive; it is one step, as it commits once.
* `DeliveryMetrics` defines the views as functions of those rows and events, so that the
  trail the code writes and the trail the code reads are checked against each other.
* `HistoryRouting`. Runs end (`FinishRun`), hours pass; routing and the choice of a provider
  are operators on the rows of one organisation. The two tables of the priors may have been
  read at different times: `CandidatesFor` takes both.
* `PriorsCache`. One cache for the process. Each thread reads the clock and checks it
  (`CheckPriors`), and if it is old queries (`QueryOutcomes`, or `QueryRaises`), writes the two
  tables and the time one after the other (`WriteByPair`, `WriteByPrefix`, `StampPriors`) and
  then reads the tables one after the other. Threads of two organisations do so at any pace,
  and `Invalidate` may come in between. A table is told by the organisation and the number of
  rows it was built from.
* `IntakeEngines`. The ticket is edited, the operator's vocabulary grows, the model answers
  anew or not at all, catalogue rows age and are synced; the engines are operators on that.
  Where the code's choice among equals depends on an order, the model has all of them.
* `CatalogSync`. One sweep: `ListPage`, `Upsert`, `Prune`, `Select`, `Fetch`, `Store`, with
  `Exhausted` and `Abandon` where the budget or the process ends; beside it pushes, archivings,
  removals and the webhook's mark (`Nudge`). A row holds three parts, each of a version or not
  at all: what is written in any case (README, directories, pull requests), the tree, and the
  files that the tree names. `Fetch` comes back with some of them. Without the tree it is
  degraded, and keeps `synced_at`; without a CODEOWNERS or manifest file it is not
  (`sync.py:341-381`), and what it did not get replaces what the row held. The calls of one
  fetch are one action: a push between two of them counts as one after them.
* `ArtifactKeys`. Servers start with the configured ring and keep it (`Restart`), write
  payloads under its primary, and the pass re-wraps row by row, may die and be run again.
* `ScimDirectory`. A request reads and checks in one action and commits, or is refused by a
  constraint, in another; two of them overlap. `Authority` is what the approval endpoint makes
  of configured roles, token groups and the directory.
* `SsoSession`. One browser with several tabs: requests carry the cookies of the moment,
  answers come back in any order.
* `JwksCache`. The provider rotates its keys; the cache refreshes by age, or for an unknown
  key no sooner than a floor.
* `UpstreamCalls`. Every request may be handled and answered, handled and not answered, not
  handled, or refused. `Succeeds`, `Repeats` and `Fails` are the retry loop of `github_transport`,
  of which the other transports have copies;
  `AfterReturn` and `AfterRaise` are what the connectors do next: the label sequence of
  `set_state`, the pages of `list_pr_files`, the surfaces of `MultiNotifier`.

## The runs

| Run | Instance | Asks | Shows |
|---|---|---|---|
| `RunLifecycleRace` | 2 threads, 2 runs of one ticket, 2 approvers, 3 kinds of ticket, all 8 events, outcomes that cannot be recorded | the safety properties under every interleaving; is every step one of `RunContract`'s | they hold (3,610,249 states); `RunContract` is implemented |
| `RunLifecycleLive` | 2 threads, 1 run, providers that raise or refuse to cancel, fair threads, a cap of 5 at 2 per dispatch | does an approved run move on; by how much can spend pass the cap | it does; by the dispatches of the other threads |
| `Durable` | one workflow, 2 threads, 3 kinds of ticket, 2 approvers, up to 2 pull request events, crashes, attempts that begin late, two attempts of each activity | what does a closed workflow leave behind; does this driver keep to `RunContract` | a settled run but for two named cases; it does |
| `DurableLive` | the same with raising providers and one event, fair server and workers | does every workflow close | it does |
| `DurableQuiet` | as `Durable` | "ends observation at that (delivered) state" | violated: fourth finding |
| `Decisions` | every request and diff reachable by edits over a few values per field, at and on both sides of each threshold; one changed knob of a deployment and up to two of a bundle, with 48 runs for both to decide about | do the two engines agree, does the verdict stand for the list, does tightening ever release, does a bundle ever loosen | they agree; it never does (70,000 states) |
| `Services` | each service in focus, with the constants below | the properties of the services | they hold (1,666,777 states) |
| `SharedPriors` | `PriorsCache` alone, two threads, two organisations | "can neither read nor write another org's rows" | violated: sixth finding |
| `RetryClock` | delivery memory alone | "a retry re-dispatch correctly resets the age" | violated: fifth finding |
| `RunRevived` | provider fault, human stop | "never re-enters an active state" | violated: first finding |
| `RetryCap` | duplicate failing check suites | the retry cap | violated: second finding |
| `StopLeavesJob` | 2 approvers required, 2 threads | a rejected run has no live agent | violated: third finding |

Bounds. Two threads and two runs are what each race needs: every hazard in the list is
between two transactions of two calls, or between a call and a single-transaction ending,
and endings need no thread. One ticket is the contended case; runs of different tickets
share nothing. The retry cap of 1 lets a run use its retry and be refused the next;
`MaxDecisions` stops a run from receiving further remediable events and is set above
the retry cap, so that the code's own cap is met first. Ticket kinds cover work that
needs no role, a special role, two people, work refused at intake, and work refused only
at dispatch. `ConfidenceThreshold` is the default 70. Threads and run ids are symmetric;
the runs with a liveness property use no symmetry. Deadlock is not checked: a run that
has ended, with every thread idle, is where the system may stop.

In the durable runs `MaxAttempts` is 2 where the code has 3 to 5: one retry and then
exhaustion are the two things an attempt count can lead to (a third thread gives 7.9 million
states and the same verdicts). `MaxDecisions` is out of reach there: events and attempts are bounded
already.

In `Services` the bounds are per component. Two actors wherever two can race: processes,
sessions, provisioners, starters, threads. Clocks run for at least two of the periods they
are compared with: a rate window of 3 ticks in 6, a deduplication TTL of 1 in 3, freezes
over a week of four-minute days and the first day after it (the days are short so that
each minute can be visited), a session cap of 3 seconds in half-second steps. Trails have
up to five events (a plan, a sign-off, a launch, a failure and its retry), or four audit
rows, with a legacy row among them or not. The catalogue has two pages' worth of decisions with a budget that
runs out in the middle, fetches that get everything, the tree alone or no tree (`Hauls`), and
two sweeps: one that is overtaken and one that sees the result; the proof has any number.
The priors' cache has two threads, two organisations and a TTL of one tick in three; a thread
takes at most `MaxStall`, one tick, from its check to its reads, which nothing in the code
bounds but a request's own time. Two keys and two payloads make a rotation with a row on either side
of it. The retry count of a transport is 1 where the code has 3: a retry that succeeds and
one that is the last. Deadlock is not checked: clocks and counts run out.

Failing cancellations are checked in `RunLifecycleLive`, and crashes under the durable driver
(`Durable`, `DurableLive`), whose `ThreadDies` is `Crash`. Added to `RunLifecycleRace` either takes
it past ten million states, so that its specification is `ServingSpec`, in which every process
lives. What the inline driver keeps to when one dies is not model-checked: there the theorems
stand in. They are about `Spec`, which has `Crash`, and hold for every set of faults but those they
name.

Fairness: weak fairness of each thread's `Continue`, the steps of a call that has started.
A Python thread that is inside a call runs it to its end as long as its process lives, and
nothing else is assumed: nobody is obliged to call, sign, push or merge. `FairSpec` is
about processes that live: after a crash the code has nothing that resumes an approved
run, and the property would fail for that reason alone. The durable run assumes that the
server delivers answers, fires timers and hands scheduled attempts to free threads
(`Progress`), that a dead attempt is timed out, and that a thread in a call goes on with
it; workers may die and answers get lost as often as the attempts allow.

## What the properties say

* `OneActiveRunPerIssue`: of the runs of a ticket at most one is active, though the
  pre-check and the insert are apart and a failed dispatch can revive a run.
* `LaunchAuthorised`: a run that has, or is cleared to get, an agent has its quorum of
  distinct approvers, each with every role required, and its work is of a kind the gate
  admits.
* `EveryLaunchWasDecided`, `LiveJobsAreRecorded`: no provider job without a prior
  committed decision, and no job that nothing knows of while nobody crashes.
* `RetryOvershootBounded`: raced remediations overshoot the cap by at most the number
  of threads; `RetryCapHolds`, the cap as documented, does not hold.
* `SpendOvershootBounded`: one thread never reaches the budget cap, and each other thread
  adds at most the dispatch it was allowed before it could see its rivals'.
* `EscalationHolds`: a diff that went to a human stays there until a clean diff.
* `OutcomeMatchesStatus`: a run has an outcome row exactly when it is finished and the log
  does not say that recording it failed, and the row has its status: a failing memory leaves
  gaps, never wrong rows, and no ending forgets to record itself.
* `TerminalIsFinal`: without provider failures finished runs stay as they are.
* `CompletedRunsAreSettled`: a completed workflow leaves a finished run or a delivered pull
  request, except while sign-offs of an N-of-M matrix are missing (the workflow is done
  after the first, so the others find nobody to tell) or a remediation went quiet (finding).
* `ResultMatchesRun`: what the workflow reports is what the run is, once every attempt has
  finished, those given up for lost and those that only then begin included; but for a
  compensation that failed as well, and a run with a pull request that an abandoned attempt to
  record an event moves among the statuses in which pull requests are observed. It never ends
  such a run, nor touches one that was reported finished.
* `DispatchKeepsOneJob`: overlapping attempts of a dispatch may launch two agents; only one
  stays on the books as running.
* `WorkflowCloses`: every wait has a timer and every activity a last attempt.
* `EnginesAgreeAlways`: the lock-step of the two policy engines, which the repository
  checks on a list of vectors.
* `GateTightensByStep`, `RulesEscalateByStep`, `MoreFilesEscalateByStep`: invariant #1 of the
  project as code comments quote it, tightening never releases.
* `VerdictSufficesAlways`: `RunLifecycle` may take a verdict where the code takes a list.
* `BundlesOnlyTighten`: a policy bundle, whatever it holds, leaves no run that the deployment
  alone would hold back; the check after the merge never refuses one; loading it twice
  changes nothing; and whatever the compliance check calls at least as strict is so.
* `LimiterHolds`: no interval of a window's length admits more than two windows' worth, and
  a refused client gets in when the seconds it was told are over.
* `IntakeHolds`: a delivery with an id is handled once per TTL, by whichever process, and
  touches only the runs of the tenant whose secret signed it.
* `AuditHolds`: the trail verifies after any interleaving, and a chained trail does not after
  an edit, a changed hash, a removal, a swap or a repetition of rows.
* `CatalogHolds`: a row that lags behind its repository is due for a fetch, unless a push
  overtook the fetch it was stored by; a sweep that ran to its end over a quiet organisation
  leaves a row for each of its repositories and no other, holding nothing but what they hold
  where it was not degraded, and all of it after a bootstrap whose calls succeeded; and other
  organisations' rows stay. What the code does let go wrong is named in it: the overtaken rows,
  and parts that are missing because their call failed.
* `KeyringHolds`: after a pass without failures nothing needs the retired key.
* `EpicsStayWhole`: one active run per issue, one level of children, a child per repository
  for a fan-out that returned, and a roll-up that its children's statuses justify.
* `FreezesHold`: a window freezes exactly the minutes its weekdays and local times name.
* `MemoryHolds`: a finished run's row is what its trail derives, now and in a backfill, and it
  is missing only if recording it failed; a run has the row of an ending that does not stand
  only where a refused dispatch wrote over it (first finding).
* `PriorsHold`: whatever the threads write over each other, a ticket is decided by every
  outcome, of the organisation whose rows are in the table, that is older than the TTL and the
  longest stall. That it is the ticket's own organisation is `PriorsStayHome`, which fails.
* `ViewsHold`: totals equal the sums of every cut; queues are disjoint and complete; outcome
  rows and ended runs report the same failures, those apart whose row was lost.
* `ClocksHold`: a waiting run is dated to the day it got where it waits.
* `HistoryHolds`: whenever the tables were read, history is never surer of a
  repository than the configured cap (89 by default, below the 90 of an explicit association;
  the settings allow any percentage), a merge demotes neither its agent nor its repository, and
  a scorecard's cuts by work type, repository and period add up.
* `EnginesHold`: a model's answer only adds reasons to refuse; what is offered for approval
  can be built; stale rows alone make no repository confident; more text or vocabulary only
  escalates.
* `AccessHolds`: names and memberships stay consistent, a PUT nobody overlapped is exact,
  taking away narrows authority, a deactivation is not undone by a request that had not seen
  it; sessions end within their caps; withdrawn keys fade and new ones are seen.
* `UpstreamHolds`: no write is handled twice within a call whatever answers get lost; an issue
  keeps a status label and people's own; a listing that returned has every file.
* `ImplementsContract`, `WorkflowImplementsContract`: under either driver the detailed
  steps refine the documented lifecycle; in the durable run workers die as well.

## What is proved

`RunLifecycleProofs` and `RunAuthorityProofs`, for any sets of runs, threads, approvers,
tickets and events that satisfy `LifecycleAssumption` and `ThresholdAssumption`, and for
any set of faults:

* `TypeCorrect`: `Spec => []TypeOK`. `TypeOK` is not inductive as it stands: a job row is
  updated in place at the last index, and the worker's run must be a run, not `NoRun`, when
  its counter is not idle. `TypeInv` adds that.
* `OneActive`: `Spec => []OneActiveRunPerIssue`. The property is inductive over `TypeInv`:
  the statuses that make a run active again are written in two places only, each guarded
  by the index; every other step keeps an active run active or ends it.
* `LaunchesAreAuthorised`: `Spec => []LaunchAuthorised`. It is not inductive: a thread
  that holds an allowing decision launches without looking again, so the authority of the
  run has to be carried by the thread. `AuthorityInv` says, of runs, that a launched or
  cleared run is authorised and that a run never inserted has no approvers; of threads,
  that one about to launch, record or remediate works on an authorised run; and that no
  two intakes hold one run id. Sign-offs are only added and tickets never change after
  the insert, so authority is kept (`AuthorisedKept`); the gate's decision gives the kind
  of work (`PlanLaunchable`); each action has a lemma.

`DecisionProofs`, for any set of files, any configuration and any request: `EnginesAgree`,
`GateTightens`, `VerdictsSuffice`, `RulesEscalate` and `MoreFilesEscalate`. Each compares the
sets of deny reasons, or the disjunction of the guardrails, on the two sides; the order of
the early returns matters once, in `SeverityOfDiff`: what a diff does depends only on
whether a forbidden path is touched and, if not, whether any later rule escalates. The
last two take what the classifier's model pass adds (`flagged`) and the judge's verdict
(`satisfied`) as given; the text that a model reads may change both. `EnginesAgree` and
`GateTightens` hold for a request about any action, one that neither engine knows included.

The walks of `MCDecisions` keep asking well-formed questions (`WalkInv`: requests, rules, facts,
settings and bundles of the kinds the schemas and loaders let through, which each edit keeps),
so `EnginesKeepAgreeing`, `VerdictsKeepSufficing`, `BundlesKeepTightening`,
`EditsTightenTheGate`, `EditsEscalate` and `PushesEscalate` follow, for any files,
repositories and globs among which there are the ones the walks name.

The same module, for any sets of repositories, globs and files, any settings, any bundle and
any runs: `StrictSettingsTighten` and `BundlesTighten`, which is `OverlayTightens`, what
`BundlesOnlyTighten` checks in every deployment of its run. A merge is compared with its base
knob by knob (`MergeIsAsStrict`); the comparison gives stricter rules, and `RulesEscalate` does
the rest for pull requests (`StrictSettingsEscalate`); for the gate, `GateUnfolded` lists what
it asks and `GateOfStrictTightens` goes through the list. Settings and bundles are assumed to
have knobs of the kinds the loader parses (`IsSettings`, `IsBundle`) and both settings the same
estimate per dispatch, which a bundle cannot set. Numbers may be out of range, as a bundle
is merged before it is validated; only a negative limit of files, which validation then refuses,
is left out.

`RunRecordsProofs`, over the same constants:

* `FinishedForGood`, `OutcomesMatch`: a finished run stays as it is, and a run has an outcome row,
  of its status, exactly if it is finished and its recording did not fail, *as long as no provider call raises* (`"provider" \notin Faults`). The
  assumption is the first finding: a dispatch that fails late revives a finished run. Under it
  `SettledInv` adds to `AuthorityInv` that no thread is about to record a failure.
  `EndingsAreRecorded` is what is left with any faults: a finished run whose recording did not
  fail has the row of the ending it has now.
* `EscalationsHold`: inductive with `AuthorityInv` once a run that is not there has no verdict.
* `LaunchesAreDecided`: counting. `DecidedInv` says that the launches of a run, and the threads
  that hold a decision for one, are together no more than its allowing decisions.
* `NoJobOffTheBooks`, `RetryOvershoot`, `SpendOvershoot`: *as long as nobody crashes*
  (`"crash" \notin Faults`), since a thread that dies between the launch and the row leaves a job
  without one, which no later count sees. `RetryInv` keeps rows and launches equal but for the
  threads in between (`CountsAgree`), and bounds the claims, the rows a retry has counted, by the
  cap and the threads; `SpendInv` does the same in money. The two lemmas they share count how
  the threads at a place change when one of them moves.

`RunContractProofs`: `LifecycleImplementsContract`, `Spec => Contract!Spec` under the refinement
mapping of `ImplementsContract`, again as long as no provider call raises. Initial states map
to initial states, and each action is a step of the contract or a stutter (`ContractSimulation`,
action by action), from `SettledInv`.

`DurableProofs`, for any numbers of attempts and signals:

* `DurableKeepsThePromises`: a step of the workflow is a step of its own variables with one of
  the orchestrator's actions, or with none, so the lemmas of the inline driver carry over;
  `WorkflowInv` gives them what an activity is called with.
* `DurableImplementsContract`: the same for the refinement, providers that answer assumed.
* `CompletedRunsSettle`, `ResultsMatch`: `PhaseFacts` has two parts. `StageFacts` says, for each
  place the workflow can be at, what its run and the threads of its attempts can be: a run
  whose dispatch is over is no longer approved, a closing workflow has read the status it
  reports, and what an abandoned attempt may still do is bounded by the place where it was
  abandoned. `HeldFacts` says it of calls that have yet to begin (`LateCallFits`): such a call is
  of the activity at hand or of one that was answered since, and then the answer tells why
  there is nothing left for it to do; the signature is there already, the run is over, or the
  event was one that leaves an observed run observed (`Harmless`). `LateEffect` draws from that
  what the first transaction of a late call can change.
* `OneJobPerDispatch`: needs a provider that answers and one that cancels (`"cancel" \notin
  Faults`): a superseded job that cannot be cancelled is left running, on the books. `OneJobInv`
  bounds the running rows by one, with the threads about to add one, through every phase.

`ServiceProofs` and `EngineProofs` take all fifteen components of `MCServices`. Each has a
specification of its own (`LimiterSpec`, ...), an inductive invariant and a theorem. A step of `ServicesSpec` is a step of
the component in focus and leaves the others alone, so `ServicesSpec` implies each of these
specifications (`LimiterAlone`, ...), which gives the property that the run checks.

| Theorems | Invariant and argument |
|---|---|
| `RetiredKeysCanGo`, `KeyringIsKept` | `KeysInv`: while the pass is on its way, and after it, every server writes under one of the primaries it has to leave alone, and a row it did not read was written under one of them |
| `DeliveriesAreHandledOnce`, `IntakeIsKept` | `IntakeInv`: an id that was handled within the TTL has a row no older than that, and a delivery has touched its own tenant's runs only |
| `EpicsComeWhole`, `EpicsAreKept` | `EpicInv`: a starter has its parent and a run for each repository before the next (`JobHolds`), no child has children (`Rooted`), and an issue one active run |
| `LimiterIsBounded`, `LimiterIsKept` | `LimiterInv`: the row of a client counts its admissions since its window began, and all but `RateLimit` of those before it are older than the window before (`Fills`); a client without a row has none in the current tick (`Over`); the last refusal was due |
| `AuditIsEvident`, `AuditIsKept` | `AuditInv` (`Tracked`): the trail is numbered and chained, a session's rows go on from the tip it read, and only one session has inserted some that go on from the trail. That a hash commits to everything before it makes any altered, dropped or moved row fail |
| `ConnectorsKeepTheirWord`, `UpstreamIsKept` | `UpstreamInv`: what a call has sent so far and what can have come of it, at each place in its sequence; pages are intervals of ranks, so a short page is the last one |
| `SweepsLeaveTheTruth`, `CatalogIsKept` | `CatalogInv`: a row synced since the last push tells what its repository holds, unless it was overtaken (`RowsInv`), whatever parts its fetch got; and for each place of a sweep, what a quiet organisation's rows are by then (`Undisturbed`) |
| `WindowsFreezeAsWritten`, `FreezesAreKept` | `FreezeInv`: the windows are well formed. Quotients and remainders are unique, so the day and minute the code compares are those of the week; counting on from its start a window meets its end first when its duration is over; the first active window exists because an order of numbers is well founded |
| `OutcomesTellTheTrail`, `MemoryIsKept`, `ClocksTellTheTruth`, `ClocksAreKept` | `MemoryInv`: each status has its marker among the run's events (`Marked`), a run without a job hears of no pull request and is not retried (`Launched`), and the row of an ended run is there unless it was lost, and the one its trail gives unless a job was recorded since; another row is one that a refused dispatch left behind (`RowTells`). What a transaction appends is the latest event of its types and leaves the latest of all others alone, so each action moves the clocks of the statuses it sets and no other |
| `EnginesAddRiskOnly`, `WordsEscalate`, `EnginesAreKept` | `EnginesInv`: ticket, vocabulary, answers and catalogue are what the loaders and schemas let through. The confidence in a repository is one of the signals that point at it, and a stale row's at most 65; the risk is the highest of floor, model and what follows from the areas of both, so a model only adds to it; a request that is tighter in every field keeps its reasons to be refused |
| `HistoryIsTold`, `MergesAreRewarded`, `HistoryIsKept` | `HistoryInv`: rows are dated no later than the clock. Half-to-even rounding is monotone, so one more merge out of one more run lowers no confidence; the ranking of agents is a strict order with one best, and a merge keeps the best best. A sum is the one function over the parts of a finite set that each element adds its share to (`SumsOf`), which exists because a least part without it cannot (`SumsExist`); a sum cut by label is the sum of the cells' (`CellsAddUp`), and the axis of periods holds every populated one |
| `PriorsKeepUp`, and in `HistoryIsKept` | `PriorsInv`: each table holds every outcome from before the time the cache bears less the longest stall, and a thread between two of its steps can count on the same of the tables it has written, since whoever wrote over them checked no more than a stall earlier (`RouterCounts`) |
| `ViewsAddUp`, `ViewsAreKept` | `MemoryInv` again: no row is dated before the first day or after today (`Legible`), so the axis of periods holds all of them, and the last event that ends a run with a failure is the marker of that failure (`Marked`), so its row, if it has one, and the run itself give one date. Tables by label and series by period are cuts of finite sets, which count what they cut (`CutRowsAddUp`, `CutRunsAddUp`); a nearest rank always has a value, and a higher rank no lower one (`RanksHaveValues`, `RanksAreOrdered`) |
| `KeysFollowTheProvider` | `JwksInv`: since a document was read, only keys that turned later changed sides |
| `SessionsEnd` | `SsoInv`: every cookie, also one still on its way, descends from a login of its person and is good no longer than its cap and its person's last visit allow |
| `ProvisioningKeepsItsWord` | `DirectoryInv`: a request that creates a row is alone with its id; an exact one cuts every membership its group has. A commit merges columns, so a column that the request did not change is as it was |
| `AccessIsKept` | the last three |

They assume of the constants what the modules' `ASSUME`s name: a placeholder is not one of the
values it stands out from, counts and periods are natural numbers, the listing of an
organisation has no repository twice and shares none with another's, the TTL of the signing keys
is no shorter than the floor between refreshes, the default org is a tenant, and the fields of a
freeze window are those the parser lets through: weekdays, times of a day, a zone that exists; the delivery memory needs
finitely many runs, one ticket and a clock with a first day; the engines need finitely many words and repositories, and
answers of a model that fit their schemas (`LlmRiskOutput` cannot block a ticket); history needs
agents that are listed once, rows with a job at least, as only dispatched runs are routed by, and
a cap that is a percentage. Planning the proof of `SweepsLeaveTheTruth`
showed that the history variable `overtaken` forgot a row too early, which a third sweep reaches
and two do not. The bookkeeping was put right; the run sweeps twice, the proof any number of
times. That of
`WordsEscalate` showed that "the routing stays the same" has to be said of both thresholds, the
gate's own and the one of `has_confident_repository`: the run could not tell, as both are 70 there.

`TypesAreKept` proves `ServicesTypeOK` for all fifteen at once. `FocusAssumption` says that there
is a component in focus and it is one of them; the invariants of the table give most of the types,
and each component adds what they leave open (`FreezeKeepsTypes`, ...): no more arrivals, logins
or windows than the bounds, rows dated no later than the clock, audit rows numbered no higher
than the ids given out (`AuditBoundByStep`), calls that retry no more than the transport allows
and ask for one page too many at most (`CallsWithin`), and that the requests the engines make of the gate are requests it knows
(`RequestsAreAsked`).

Out of reach of the prover: `ApprovedRunsMoveOn` and `WorkflowCloses` (liveness), and any theorem
of the library on induction over data. Two folds could be reasoned about without one, as there
is always a least counterexample among the parts of a finite set: the sums of the history and of
the views (`SumsExist`), and the operations of a group's PATCH (`DraftsExist`, `PatchesDraft`),
which cut and put memberships of the directory only, whatever their list. That a PATCH makes of
the members what its operations say, in their order, is the definition of `PatchGroup`; the
constraints and the commit, which decide what becomes of it, are proved about for any outcome.
Every safety invariant and action property of the passing runs is proved, and so are the refinements;
the faults that a theorem excludes are named with it above, and the runs of the findings show
what happens with them.

## Findings

1. `_record_dispatch_failure` (1604-1627) writes its failure status whatever the run has
   become: a retry whose provider call raises after a human stopped the run makes the
   run `review_required` again, with its outcome row still saying it ended
   (`RunRevived`, against `schemas/common.py:144-146`).
2. The claim of a remediation is undone by the duplicate it is meant to stop: a check
   suite event lists no files and takes `agent_running` back to `pr_open`, and its own
   remediation counts the same job rows (`RetryCap`, against `orchestrator.py:1929-1933`).
3. Phase 1 of a dispatch claims nothing, so two approvers' threads can both launch; the
   second job is recorded as cancelled and becomes the latest row, and rejecting the run
   then cancels nothing (`StopLeavesJob`, against `orchestrator.py:957`).
4. A pull request that goes quiet while its run is being remediated ends the durable
   workflow with the run `agent_running`: nothing expires it, and it stands in the way of a
   new run of its ticket (`DurableQuiet`, against `workflows/workflow.py:185-187`).
5. A retry leaves the in-flight clock of its run where the first dispatch set it, because only
   `dispatch_agent` adds the event the clock reads (`RetryClock`, against
   `memory/metrics.py:83-85`).
6. The cache of routing priors is one per process (`api/app.py:2876`) and keeps its tables
   without an organisation (`memory/priors.py:124-126`), though the query that fills them is
   filtered to one: until it expires, other organisations' tickets are routed by the first
   one's merges, and their own count for nothing (`SharedPriors`, against `db/tenant.py:13-14`).

## Observed, without a run

What the models show of the code that no document denies, or that is outside their bounds:

* Removing the last audit row, or the last few, leaves a shorter trail that verifies.
* A delivery id is committed before its event is handled: a crash in between loses the event,
  and so does a listing of files that raises. The deduplication TTL is required to be at least
  the maximal age, but the age is symmetric, so a delivery stamped in the future outlives its
  row.
* An expired approval is tagged `approval_window_expired`, which the outcome derivation does not
  know and counts as `unroutable`.
* Five or more of the operator's keywords for a repository give it 95 (`enrichment.py:290`), which
  outranks the 90 of an explicit association, although "explicit association always wins"
  (`enrichment.py:34-37` and 80, `README.md:148` of the repository). `KeywordSignal` has the 95; no
  property is about it, since what routing then decides still passes the gate.
* Two repositories whose names make one slug stop a fan-out at the second. A roll-up may say
  complete while the fan-out that should have added a child has failed.
* A base fetch that fails stores an empty catalogue row and marks it synced. `pushed_at` has a
  resolution of a second. A push that overtakes a fetch leaves the older facts under a newer
  `synced_at`, and the row silent until the next push or bootstrap, while the webhook's mark is
  there so that no repository is "confidently served from stale metadata" (`app.py:2221-2222`);
  `CatalogHolds` names these rows (`overtaken`).
* A CODEOWNERS or manifest file whose fetch fails is taken for one that does not exist: the
  facts without it replace better ones and `synced_at` moves on, so the next sweep does not try
  again, although the comment at `sync.py:280-282` wants it to "instead of trusting stale-empty
  facts as fresh". It covers the tree only; `CatalogHolds` lets such rows lack the part
  (`Never`) until the next push or bootstrap.
* Nothing retries an outcome that could not be recorded but `foundry-memory backfill`, which
  somebody has to run; until then metrics by outcome leave the run out.
* Jobs recorded after their run has ended (a superseded dispatch) are not in its outcome row; a
  backfill would find them. An escalation of a run already in review restarts its queue clock.
* Two PUTs of one group that overlap can leave the union of their members. Deleting a
  deactivated user makes the identity "not provisioned", which is not "deactivated".
* A read in flight during a logout may bring a renewed session cookie back after it. The floor
  between refreshes of signing keys does not apply when the fetch fails.
* Two threads that set the state of one GitHub issue at once can remove each other's label, so
  that none is left ("never momentarily missing", `github_issues.py:115`, holds for one thread);
  with any tracker the last to arrive wins, and the state may stay stale.
* A POST to a provider whose answer is lost raises: the run goes to `review_required` and the
  agent runs. A DELETE that is retried after it was handled is refused, and `set_state` stops.
* The comparison of settings leaves out `estimated_cost_per_dispatch` and the custom risk
  categories. Extra keywords anticipate areas, so a stricter vocabulary spares a diff the
  review of unexpected areas once the area's role has signed.
* `Settings.load` reads `env or os.environ`: presets loaded with an empty environment still see
  the process's.

## Plan

The modules exist in this order: the lifecycle (`RunStatus`, `PolicyGate`, `RunLifecycle`,
`RunContract`) with its first theorems; the decisions (`PolicyRego`, `PrStatus`, `PrGuardrails`,
later `PolicyOverlay`); the durable driver; the services around them.

Left to prove: nothing the runs check but the two liveness properties.

Left to model: liveness of the services under the fairness of their workers; a composition of
`WebhookIntake` with `RunLifecycle` in the place of its summary of the orchestrator.

## Not modelled

* Rendering: the pages of `api/dashboard.py`, evidence packs as PDF and markdown, the command
  lines of `memory/`, `compliance/` and `policy/`, comments and chat messages. They read what
  the modelled components keep and keep nothing.
* Parsing: YAML and environment settings and most of their validation, SCIM filters and error
  bodies, dates, globs, the facts read out of source files. Their results are inputs here.
* Text: keyword lists, prompts and answers of language models are sets and records.
* Cryptography: signatures match or not, ciphertext is the key it is under.
* The read-only routes of `api/app.py`, the .NET port and the migrations.
