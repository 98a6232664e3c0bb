# A TLA+ model of the content orchestrator

The repository is a multi-tenant service that drives content through a
workflow: an API (`src/apps/api`, FastAPI over PostgreSQL) with background loops
in the same process, workers that pull work over HTTP (`src/apps/worker`), and a
web console (`src/apps/web`). This directory holds TLA+ modules translated from
that code, TLC configurations that check them on small instances, and theorems
about them that TLAPS proves for every value of the constants. `PROJECT.json`
maps each definition to the lines it models; paths below are relative to
`src/apps/api/app` unless they start with `src/`.

## 1. Inventory

| Component | Code | State | Operations |
|---|---|---|---|
| Assignments, leases, recovery | `orchestration/dispatcher.py`, `claiming.py`, `recovery.py`, `api/routes/workers.py`, `services/workers.py`, maintenance loop of `main.py` | `stage_assignments`, `worker_registry`, `provider_effect_keys` | dispatch, register, heartbeat, claim, ack, renew, submit, deregister, drain, revoke, reap |
| Reference worker | `src/apps/worker/worker/client.py`, `main.py` | one process: current row, load, claim token | boot, claim with retries, ack, renew, execute, submit, heartbeat task, drain |
| Worker credentials, quick actions | `core/worker_auth.py`, `api/routes/workers.py`, `services/operations_mission.py` | `worker_credentials`, the worker's row | provision, authenticate, rotate, revoke, drain, pause, resume, emergency stop |
| Run control | `orchestration/controller.py`, `retry.py`, `services/operations_mission.py` | `pipeline_runs`, `review_gates`, `dead_letter_jobs` | start, advance, retry, fail, pause, resume, escalate, retry failed jobs |
| Scheduler and back-pressure | `orchestration/scheduler.py`, `backpressure.py`, `priority.py` | `job_schedule`, `workspace_backpressure_state` | lease due jobs, dispatch, retire, postpone, park, give up |
| Spend control | `orchestration/controller.py` (spend), `services/spend.py` | `spend_caps`, `spend_reservations`, `spend_logs` | reserve, commit, release, change the cap |
| Outbox and relay | `orchestration/outbox.py`, `relay.py`, `consumers.py` | `outbox_events`, consumer checkpoints | emit, poll, dispatch, retry, dead-letter |
| Review desk, publication policy | `services/content_desk.py`, `services/publication_policy.py`, `orchestration/controller.py` (gates), `api/routes/review_gates.py` | `pipeline_runs`, `review_gates`, `content_items`, `content_versions`, `review_decisions`, `publication_eligibility` | create, view, edit, decide, time out, attest, publish check |
| Data governance | `services/data_governance.py` | `deleted_at` of items, `job_schedule` | deletion request, export |
| Research, strategy, their auditors | `services/research.py`, `services/strategy.py` | opportunities, evidence, briefs, audits, counters of runs | request, record, audit, admit, brief, hand over |
| Content department | `services/content_department.py` | packages, audits, invalidations, claims, counters | write, revise, audit, gate |
| Production, compliance, Chief Auditor | `services/production.py`, `services/compliance.py`, migrations 0048 and 0049 | jobs, artifacts, QA, audits, invalidations, eligibility | request, QA, audit, invalidate, determine, upgrade, downgrade |
| Billing | `services/billing.py`, `api/routes/webhooks.py` | `workspace_billing`, `billing_webhook_events` | checkout, webhook |
| Accounts, memberships | `services/local_auth.py`, `api/routes/memberships.py`, `workspaces.py`, row-level security of migrations | `profiles`, logins, `workspace_memberships` | sign up, log in, create, invite, change role, remove |
| Provider budgets, rate limits, dashboards, drafts, web, schema | see section 16 | | |

How they interact: the scheduler turns a due `job_schedule` row into an
assignment (`dispatch_stage`), which first asks spend control for a reservation.
A worker claims the assignment; its submit commits or releases the reservation
and tells run control, which advances the run, enqueues the next job or opens a
review gate. A decision on the gate is an outbox event whose consumer resumes
the run in the same transaction. The maintenance loop recovers assignments whose
lease or worker is lost, and reports those without an attempt left to run
control. Beside this engine is a chain of departments that hand rows to each other:
research finds opportunities, strategy builds briefs on them, the content department
writes packages from briefs, production renders packages, compliance and the Chief
Auditor judge what was rendered; each hand-over is guarded by audits. All of it is
transactions on shared rows at READ COMMITTED: the hard behaviours come from
which rows a transaction locks, in which order, and what it reads without one.

What is hard to test in this code, and so what the properties are about:

* several transactions at once: two replicas of a background loop, a handler that
  commits between a loop's read and its write, sums read statement by statement,
  two audits of one row of which neither sees the other;
* workers that crash, restart, retry a request that was served, or send one that
  arrives when its row has moved on or its credential is revoked;
* transactions that fail after some of their work, or that the database aborts to
  break a deadlock;
* stale copies: a person acts on what was loaded some time ago, and an ORM session
  writes what differs from the copy it loaded;
* events delivered twice, late, out of order, or with the same time stamp;
* limits: attempts, tenure of a lease, concurrency, caps; and things that must
  happen in the end although nobody acts.

`PROJECT.json` lists each hazard at its line with the properties that cover it.

## 2. Modules

| Module | What it is | Theorems in |
|---|---|---|
| `StageTask` | abstract: one holder at a time, every run of a task uses up a try | |
| `AssignmentLease` | the lease server in detail; implements `StageTask` | `LeaseProofs` |
| `WorkerProtocol` | extends `AssignmentLease` with worker processes and a network | `LeaseProofs` |
| `WorkerAccess` | credentials of a worker, with row locks and deadlocks | `AccessProofs` |
| `RunControl` | runs, jobs, retries, dead letters, back-pressure, spend hold, the retry button | `RunControlProofs` |
| `SpendControl` | the budget, statement by statement | `MoneyProofs` |
| `OutboxRelay` | the events of one aggregate: sequence, relay ticks, checkpoints, poison events | `OutboxRelayProofs` |
| `ReviewDesk` | the human review gate, its timeouts, the publication policy, data deletion | `DeskProofs` |
| `AuditChain` | research and strategy with their auditors | `AuditChainProofs` |
| `PackageDesk` | packages, their auditors and revisions, and production requests | `DeskProofs` |
| `ArtifactDesk` | what becomes of a rendered artifact; a migration up and down | `ArtifactProofs` |
| `Billing` | Stripe's events and the entitlement | `MoneyProofs` |
| `Team` | accounts, memberships, the last admin | `AccessProofs` |

`MC*` modules hold what TLC needs of an instance: symmetry sets and constant
values that a configuration file cannot write. Every other parameter is given in
the `.cfg` file. A proof module extends the module or the two modules it is about, which
is why the names of `ReviewDesk`, `Billing` and `Team` that another module has too begin
with `Review`, `Billing` and `Team` (`BillingSpec`). An operator marked
"Mutant" is a plausible mistake in the operator or action that follows it: put in its place,
TLC finds a property violated.

Worth doing next: the composition of `RunControl` with `AssignmentLease`.

## 3. The lease server: `AssignmentLease`

State: `row[a]` is the assignment row `a` (status, owner, attempt number, lease),
`reg[w]` the registry row of worker `w`, `effects` the rows with a provider
effect key, `locked` the rows a maintenance tick has locked. `starts` and
`reports` are history variables.

* A handler of `workers.py` locks the worker's row and then the assignment's and
  commits once, so it is one action: `Register`, `Heartbeat`, `Claim`, `Ack`,
  `Renew`, `Submit`, `Deregister`, `SetDrain`, `Revoke` (also what an emergency stop
  does to each worker's rows). `Enqueue` and `Dispatch` are `dispatch_stage` without and
  with a worker. Credentials are `WorkerAccess`'s matter.
* The maintenance tick (`reap_expired_leases`, then `mark_stale_workers_offline`)
  locks expired rows first and workers after. Handlers commit in between, so it is
  `TickSelect`, then `TickCommit` or `TickAbort`. Rows locked by one tick are
  skipped by the other (`SKIP LOCKED`). Two replicas may run a tick each.
* The reap of a worker's rows (`Reap`: at its restart, its deregistration, a kill switch
  and the sweep) skips what anybody has locked. Besides the ticks that is a late request
  of another worker: `_load_owned_assignment` locks the row it names before ownership is
  checked. So any of the rows the reap would take may be left (`Disputable`), while
  there is another worker that may still call; `passed` marks those that were left
  with a live lease.
* Recovery gives a row the idempotency key of its next attempt, which is unique. The retry
  button can put a row with that key beside it. `Sibling` is that row: it comes, and
  moves on when it is recovered itself; `barred` says that the key is taken, and every
  transaction that would recover the row then raises (`Recover`). `Obstructed` is the state
  in which that happens to the maintenance tick, which recovers all that is due in one
  transaction.
* Time is kept as differences: `left` of a lease, `tenure` since it began, `age` of
  a heartbeat; `Tick` advances all of them. Each saturates where the code no
  longer tells values apart.
* An attempt number of a new row may be anything up to `MaxNumber`: the scheduler
  counts a postponed dispatch as an attempt.

`StageTask` promises that a task is offered, runs under one worker at a time, and
comes back as the next try or ends. `ImplementsStageTask` is that promise under
the mapping `TaskOf`.

## 4. Workers: `WorkerProtocol`

Extends the server with the processes that call it. `client[w]` is the HTTP loop of
`src/apps/worker/worker/main.py`: what it waits for, the row it works on, its load.
A request whose caller has given up, crashed or lost the response is in `stray`
and may still be served at any time, or never; that covers loss, delay, reordering
and (together with the retry of a claim) duplication. `token` is the claim token.
`executed` and `answer` are history: how often a row was executed, and which
attempt sent the result that was accepted. The heartbeat is a second task and
interleaves with every call.

## 5. The review gate and the deletion request: `ReviewDesk`

`desk[j]` is a content job: its run, its gate and the version the gate is pinned to,
the item's current version and whether it is withdrawn, and whether a timeout job is
due. `seen[p][j]` is what a person has on the screen: any later action uses it, however
old it is. Requests of people are single transactions under the gate's row lock.
`handle_review_timeout` reads the gate without a lock: `TimeoutRead`, then
`TimeoutWrite`, or `TimeoutAbort` when another job of the same scheduler transaction
raises. A job that names no stage, which `RetryButton` can leave, is due at each tick and
raises each time (`stageless`), until a deletion request erases it. Content versions are numbered in the order they are written.

`delete_workspace_content` tombstones the items and erases the jobs of the workspace in
several statements of one transaction, each of which sees what is committed when it
starts: `WithdrawItems`, then `EraseJobs`, with anything in between (`deletion` is the
request under way). A reviewer no longer sees what is withdrawn; editors and admins do.

`Publishable` is `assert_publishable` for a row people may have attested and the fingerprints
that are taken on its platform; `PublishedAsReviewed` quantifies over all of them.

## 6. The budget: `SpendControl`

`open` is the set of tasks (a run and a stage) with an open reservation, `spent[w]` the
sum of `spend_logs` in the current day and month, `cap` the workspace's cap row.
`check[t]` is a `reserve_spend` in progress: it locks the cap, then executes four
sums (logs of the day, reservations, logs of the month, reservations) which under
READ COMMITTED see different states, then grants or holds. Commits and releases
take no lock on the cap and interleave with the sums. A scheduler transaction that
reserves for several jobs is modelled as one check per job; others can then come
between them, which the code excludes, so the model has more behaviours.

## 7. One run: `RunControl`

`run` is the row of `pipeline_runs`: its status, its current stage and why it is
paused (`hold`). `jobs`, `rows` and `letters` are what it has in `job_schedule`,
`stage_assignments` and `dead_letter_jobs`, each oldest first: the code deletes
none of them, so each is a sequence and a step writes entries or adds one. `gate`
is the stage of the gate that awaits a decision. The workflow is a line of stages
1 to `Final`, some of them gates.

* The controller: `Succeed` and `Fail` are `submit_result` from the run's side,
  with the whole of `handle_stage_success` and `handle_stage_failure`; `Decide` and
  `Escalate` move a gate. `Advance` is `_advance_or_finish`.
* A job that is due takes one of the branches of `process_leased_job`:
  `Backpressure` (looked at first, as in the code), `Skip`, `AlreadyDispatched`,
  `Assign` to a worker or to nobody, `HoldJob`. Whether the workspace is full or out
  of budget depends on other runs, so it may be so at any time.
* `Claim`, `HoldClaim` and `Recover` are what the lease server does to the run. Their
  interleaving inside is `AssignmentLease`'s matter.
* `RetryFailedJobs` is the admin's button: a job for each letter and for each failed
  assignment, whatever stage the run is at. `clicks` counts its uses; the
  properties that a use can break are promised of runs it was not used on
  (`Untouched`), and `SuccessMeansWork`, which is proved and needs no run, of all.

One attempt number is counted up by failures, recoveries and postponed dispatches:
`AttemptsAreBounded` says that they do not get in each other's way. The mistakes a
retry can make are why `OneThreadOfControl` looks at every pair of a job, an
assignment and a gate.

Assumptions: no two gates in a row (`RunAssumption`), because the second would be
taken for the first in the same session. Not modelled, for nothing outside the
tests calls or schedules it: `cancel_run`, stage timeouts, compensation. The job
that `ReviewDesk` creates is a run that starts at its gate.

## 8. The event relay: `OutboxRelay`

`events` is the outbox of one aggregate; the place of an event is its sequence number.
`mark[c]` is the checkpoint of a consumer, `letters` what was dead-lettered, and
`applied[c]`, a history variable, the events whose handling was committed, in order.
`tx[p]` is the transaction of a relay or of the review desk, with the session's own
copies of the events and the checkpoints: `SELECT` does not refresh what a session has.

* `Emit` takes a number under the aggregate's advisory lock and commits. `Decide` is the
  desk, which emits, keeps the lock, and dispatches its event itself.
* `Poll` locks a batch of pending events, oldest first, without those another relay
  has locked. `queue` is what is left of the batch; its least event is delivered
  next. `Deliver` asks the next consumer about the first event of the batch
  (one turn of the loop of `dispatch_one`) and sets the event's status after the last.
* `Commit` writes the copies over whatever is there by then; `Abort` undoes all. A
  failed delivery of the desk may end either way: its handler can fail before or
  after it has decided the gate.

With one consumer, which is what the code registers, no event is handled twice,
although two relays read the same checkpoint, and may set it back. An event may well
not be handled at all: when its delivery failed and a later event of the aggregate
is handled first, the checkpoint has passed it, and it is dispatched as if it had
been. `NothingForgotten` allows that and nothing else. Time stamps order the events
of an aggregate as its numbers do, as long as the emitters' clocks agree.

## 9. Who may act as a worker: `WorkerAccess`

One worker: `creds[c]` are its credentials in the order they are issued, `worker` its
registry row, `call[s]` the request that session `s` serves, `rowLock` and `credLock` who
holds the locks of the rows. `killed` is history: a kill switch was thrown and no
credential issued since.

* A request of the worker is authenticated (`Authenticate`) in a session of its own. A
  request about work then locks the credential and looks at it again
  (`RecheckCredential`), locks the worker's row (`LockForWork`) and commits (`DoWork`).
  `Register`, `Heartbeat` and `Deregister` lock the row and do not look again.
* `Rotate` and `Revoke` lock the row when they find the worker (`LockAndFind`) and
  write credentials when they commit; `EmergencyStop` lists workers first
  (`BeginAdmin`) and locks after (`LockForStop`), so it writes over a copy (`Written`).
  Pause, resume and drain are there too. An admin may be demoted while a request of his is
  under way. `Forbidden` is its end where the ORM has the worker's row to write and row-level
  security hides it. The emergency stop checks neither the row it locks nor the number of
  credentials it updates (`StopUnlocked`, `RevokeInVain`, `StopInVain`), so where the
  worker's row needs no change it commits without having revoked anything. `killed` is
  set by a stop whose caller is an admin when it locks and when it revokes.
* `jammed` is the state in which recovering what is due meets a taken key (`Obstructed` of
  section 3): `Raises` is then the end of a request that recovers, and no sweep commits.
* Abstracted: a worker whose heartbeat is recent is up, and the expiry of a revoked
  credential is forgotten; nothing that is checked or decided tells these apart.
* Two requests that wait for each other's lock are a deadlock, of which `DeadlockVictim`
  ends one, either.
* `Expire`, `Age` and `Sweep` are the clock and the liveness sweep of the maintenance
  loop.

## 10. Research and strategy: `AuditChain`

`opportunities`, `evidence` and `research_audits` are kept by the set of sources that
makes the dedupe key, `strategy_briefs` and `strategy_audits` by the set of opportunities
that makes the fingerprint. A request is a `Begin...` step, which stands for its reads,
and an `End...` step, which writes the attributes that differ from what it read
(`Update`); it may also fail (`RollBack`). `saw` and `nth` of an audit are history: how
many audits were there when it began, and its place in the order of commits; by them a
property knows which audits overlapped. `BeginRecord`/`EndRecord` are a run that finds
one opportunity or finds it again, `EndAudit` the Research Auditor, `EndAdmit` the
Strategist's gate, `EndBrief` and `EndAuditBrief` a brief and its auditor,
`EndHandOver` the Writer's gate. That gate reads the brief and its latest audit in two
statements, so it is three steps: `LoadBrief`, `BeginHandOver`, `EndHandOver`; `overtaken` is
history, the briefs handed over with one audit between those reads and another since. What a request has read and holds until it writes is a
`ResearchRequest` or a `StrategyRequest`.

## 11. Packages: `PackageDesk`

Packages are numbered in the order they are written, with the package each revises
(`prior`). An audit has three steps: `BeginAudit` loads the package and takes its time,
`Judge` inserts the audit and recalculates the gate from what is committed then and its own, `EndAudit`
commits. A package or a revision is `BeginWrite` and `EndWrite`; a revision supersedes
its prior and invalidates the audits it sees. `RequestProduction` makes the job.
`raced` is history: the packages written by a request that had not seen the last write.

Packages and audits are recorded by helpers that raise unless `ENVIRONMENT` is `test`
(`content_department.py:302`, `555`), and so are finds (`research.py:331`) and briefs
(`strategy.py:289`). Races among those writers can occur in a test environment only; in a
deployment section 10's audits and gates, runs of every department and production
requests are what overlaps.

## 12. Artifacts: `ArtifactDesk`

From `CreateArtifact` and `CreateMediaQa` on: compliance audits, the Chief Auditor
(`BeginChief`, `JudgeChief`, `EndChief`: it reads the QA, then an audit, then inserts),
invalidations of artifacts and of audits, and the determination of eligibility
(`BeginEligibility`, `EndEligibility`). `Upgrade` and `Downgrade` are migration 0049, which
permits reruns of an audit, and its inverse, which repoints references to the first
audit and deletes the others; `folded` is history, what it has deleted. Artifacts, QA results,
passing audits, the Chief Auditor and invalidations are helpers that no route reaches
(`compliance.py:3`, `production.py:340`); what a deployment serves is compliance runs, which
come out blocked, and the determination of eligibility.

## 13. Billing: `Billing`

What Stripe has to say about a workspace is three events, chosen at the start with any
dates, kinds and statuses. `Begin(s, e)` is a delivery up to its claim of the event's id,
`End(s)` the rest: it locks the row, compares the event with the receipts and
commits. A delivery that fails leaves nothing and comes again, which is no step. `Update` is the ORM's: only
attributes that differ from the loaded copy are written.

## 14. People: `Team`

`roles` is `workspace_memberships`. A request on memberships reads, without a lock, who
the caller is and how many admins there are (`Invite`, `UpdateRole`, `Remove`); its
statement is checked again by row-level security (`Send`); then it commits (`Commit`,
after another that held the row, if need be). `memberships_insert` also lets the creator of
the workspace make himself an admin where he sees no membership (`Reclaims`): his invitation
of himself must have passed the guard while he was still an admin. Sign-up, log-in with its lockout
(`LogIn`, `WindowEnds`), and the creation of the workspace with its spend cap are single
transactions.

## 15. What is checked and proved

### Runs

| Run | Instance | What it shows |
|---|---|---|
| `lease_life` | 1 row, 2 workers, 2 attempts, lease 1, tenure 2, fair ticks | attempts and single report under all interleavings; no live lease at an offline worker but on a row its reap found locked; refinement of `StageTask`; every hold of a row ends, unless the next attempt's key is taken |
| `protocol_effects` | 1 row, 2 workers, 3 tokens, 1 stray request | an executor runs at most once per row; success is never made up |
| `worker_access` | 3 credentials, 2 requests at a time | no work under a revoked credential; a kill switch leaves none, whatever it overlaps, if its caller still is an admin; one lasting credential; a worker cut off goes dark, unless no sweep commits |
| `run_pipeline` | stages 1, 2, gate 3, end 4; 2 attempts, 3 dispatches, 1 click | one thing at a time moves a run, in order, within its attempts; it does not stall, and a failure leaves a letter |
| `spend_caps` | 3 tasks, caps 2 and 3 (also 0), estimate 1 | reservations stay within the caps; overshoot is bounded; no refusal with room left |
| `relay_delivery` | 3 events of one aggregate, 1 consumer, 2 deliveries, 2 relays and the desk | no event is handled twice, none is dropped unhandled unless it was overtaken or dead-lettered; checkpoints are earned; every event settles |
| `review_safety` | 2 jobs, 3 versions, an admin and a reviewer, deletions, fair scheduler | what succeeds or is publishable is what was reviewed; one decision; no lost edit; a gate is noticed, unless a deletion took its timeout or a job without a stage stops the scheduler |
| `audit_chain` | 2 pages, 2 texts, 2 requests at a time, 2 runs and 2 audits of each kind | eligibility is earned at every gate; gates follow audits that do not overlap, but for a hand-over that was overtaken; a block on repeated evidence is final; counts never overstate |
| `package_gate` | 3 packages, 2 auditors, 2 scripts, 2 requests at a time, 5 in all | nothing is ready that an auditor never passed; rows follow their audits but for races; audits are superseded once |
| `artifact_desk` | 1 artifact, 1 platform, 2 requests at a time, 6 in all, migrations | no pass without what it rests on; a withdrawal stands; a downgrade folds reruns without a dangling reference |
| `billing_events` | 3 events with any dates of 2, 2 deliveries at a time | the newest events win; nothing unpaid is granted; every event is acknowledged |
| `last_admin` | 2 people, 2 requests at a time | expected to fail: two admins who demote each other at once leave the workspace without one, which `docs/milestone-2-identity-and-access.md` says is never reachable |

The finding behind `last_admin` is in `PROJECT.json`, with the lines of the code and the
quotation.

### Where the code does less than its documents say

While translating, more of such places came up. They are in the behaviours of the
models, and what still holds in spite of them is what the properties say:

* A late submit is accepted when the same worker holds the row again under a new attempt,
  as nothing tells the attempts apart (`dispatcher.py:404`; `docs/M4_WS3_DESIGN.md:345`).
* A second gate timeout takes "escalated" for decided and returns, so an escalated gate never
  ends its run (`controller.py:629`).
* A commit between the sum of the logs and the sum of the reservations is seen by neither, so
  that a reservation can exceed the cap (`controller.py:719`, docstring at 756).
  `BoundedOvershoot` says by how much.
* Back-pressure is looked at before a spend hold, so a held run's job uses up attempts
  (`dispatcher.py:195`, against the comment at `scheduler.py:143`). Only workspaces with
  pending assignments are evaluated, so pressure is never cleared at depth 0
  (`backpressure.py:144`).
* The retry button enqueues the retry of a failed run under the letter's job type, which is
  no stage: each tick of the scheduler fails on it, and with it every job that is due, the
  timeouts of review gates included (`operations_mission.py:886`, `main.py:96`).
* The retry button's row of attempt n can run beside a row of attempt n + 1 of the same run and
  stage. When the former is recovered its next key is taken (`recovery.py:256`), and the whole
  maintenance tick, with the sweep and everything else that has expired, raises; the
  comment at `main.py:160` expects transient errors only.
* `reap_worker_assignments` promises to leave no dispatched row behind (`recovery.py:336`), but
  skips a row that a late request of another worker has locked; a worker that is offline
  keeps it until its lease expires.
* The emergency stop of an admin who is demoted after its guard answers `ok` with every
  credential still active (`operations_mission.py:829`).
* `writer_gate` reads a brief and then its latest audit (`strategy.py:521`, `524`). An audit
  between the two, and one that blocks before the commit, leave the brief handed over though
  its latest audit blocks it, and no two audits overlapped.
* A creator whose invitation of himself has passed its guard can be removed and come back as
  an admin, even of a workspace that has none left (migration 0023, line 60).
* A retried claim takes a second row once the first is acknowledged; a heartbeat
  overwrites the load the server counted with an older one (`WorkerProtocol`).
* A failed event is overtaken by the next of its aggregate (`OutboxRelay`), and an
  escalation may overwrite a decision that commits between its read and its write
  (`ReviewDesk`).
* A deletion request erases the timeout jobs of waiting gates, even of a job created after
  the items were tombstoned, and the stage jobs of running runs; such a gate waits for
  ever. A withdrawn item can still be edited and approved by editors and admins, and
  `assert_publishable` does not look at `deleted_at`.
* A heartbeat or registration that was authenticated before a kill switch brings the
  worker up again after it, until the sweep (`workers.py:839`). A kill switch and a request
  about work take their locks in opposite order, and the kill switch can be the victim. The
  emergency stop passes over workers that have deregistered, whose credentials stay active
  (`operations_mission.py:764`).
* Two audits of one package that overlap can leave its gate at odds with its audits for good
  (`content_department.py:266`).
* The Chief Auditor looks at no invalidation, of the artifact or of an audit
  (`compliance.py:342`). A downgrade of migration 0049 fails if a rerun has an
  invalidation, whose rows are immutable, and otherwise may point an eligibility row at an
  earlier audit that blocks.
* A subscription status that the column does not take is acknowledged to Stripe as a
  duplicate and lost (`billing.py:526`).

### Why the bounds are enough

Rows, workers, jobs and tasks interact only pairwise through a lock, a slot or a
sum, so two (three where two must be hidden from a third) show every interaction;
requests that are a read and a write show each of their races with two at a time. A
lease of one tick and a tenure of two reach each comparison on both sides. Two attempts
are a first and a last one, and a number more shows what follows the last. Whether a worker
drains matters to what it is handed alone, so one that does and one that never does
suffice (`Drainable`). One stray
request suffices to be late for every state of its row; a second would be late for the
same states. In `run_pipeline` two stages are a first and a next, three dispatches let a
job be postponed once and twice, and one click is enough to bring a stage back beside a
run that moves. Three events let one be overtaken while a relay holds another; two
deliveries are a first and a last. A cap of twice the estimate can be full, half full and
empty; 0 is an admin's stop. In `review_safety` two jobs let one be created while a
deletion has found the other, and let an attestation name the other's gate; three versions are a
first, an edit, and an edit that a second screen has missed. Two pages give an
opportunity of one source, one of two, and a brief on both; of two audits the second
sees what the first has left, overlaps it, or comes between a gate's read and its commit. Three packages are a first and two revisions of
it, or a duplicate. Six requests about an artifact reach eligibility after a QA, an audit,
a rerun and a release. Three credentials are one in its grace period, one that
lasts, and one that is issued while the others are revoked.

Bounds of the models themselves are `MaxNumber`, `MaxStray`, `MaxLoad`, `MaxVersion`,
`MaxDispatch`, `MaxClicks`, `MaxEvents`, `MaxRuns`, `MaxAudits`, `MaxPackages`, `MaxRequests`,
`MaxCreated` and `MaxCredentials`; each is a guard marked in its module. Symmetry is used
in the runs that check invariants and action properties only.

Deadlock is checked in `lease_life`, `protocol_effects`, `review_safety`, `spend_caps` and
`worker_access`: there the clock, a scheduler, a screen or a request can always move. The
deadlocks of the database are states of `WorkerAccess`, and that they are resolved is a
step. A run of `RunControl` ends, and nothing follows; that it does not stop before is
`NothingStalls`. The relay and Stripe stop when all events are settled, which is
`EventsSettle` and `Converges`. The departments' models stop at their bounds, and a
workspace when everybody has left.

### Fairness

* `AssignmentLease`: time passes (weak fairness of `Tick`), an expired row is selected
  again and again (weak), and a tick that has locked a row commits in the end
  (strong): the loop survives every exception, and is a deadlock victim only
  while a handler of the same worker runs at that moment. The last is assumed only of
  behaviours that are not `Obstructed` again and again: a tick that meets a taken key
  raises, and nothing in the code makes it succeed. `EveryHoldEnds` therefore
  says that a hold ends or recovery is obstructed.
* `WorkerAccess`: a request that waits for a lock gets it (strong: locks are queues in the
  database), deadlocks are found and time passes (weak), and the sweep, which skips a
  locked row, meets it unlocked in the end (strong), unless it is `jammed` again and again.
* `ReviewDesk`: the scheduler polls for ever and its transactions do not all fail, unless a
  job without a stage is due again and again (`stageless`).
* `OutboxRelay`: the relays poll for ever (weak), what they do is committed in
  the end (strong), and a step that waits for a row another transaction has inserted is
  taken when that has ended (strong: the wait is a queue in the database, and the desk may
  insert the row and give up again and again).
* `Billing`: the row is made, a delivery ends, and Stripe repeats what is not acknowledged
  (weak).

Nothing is assumed of workers or people. `RunControl` states no liveness: a spend hold may
last for ever, and a run that waits for a worker or a person may wait for ever.

### Theorems

Every safety invariant that a passing run checks is a theorem, for every value of the
constants that the named assumptions allow. They say of what type the bounds are and that a
mark of absence (`Nobody`, `NoToken`) is no member of the set it is beside; that assignments,
tasks, pages, texts and auditors are finitely many; that caps do not exceed the schema's
ceiling (`SpendAssumption`); and that no two gates follow each other (`RunAssumption`). The
action property `OpenWithinCap` and the refinement of `StageTask` are theorems too. Two of the
relay's are stated for the one consumer that the code registers, and five of `RunControl`'s
of runs the retry button was not used on, as the run's properties are. Each proof has an
inductive invariant, a lemma for each action or group of actions that can disturb it, and
a last step of temporal logic.

* `AssignmentLease` (`LeaseProofs`): the safety properties of `lease_life` and four that no run repeats
  (the owner of a row, an idle worker after its deregistration, the tenure, the locks of
  a tick). Two of them allow for what a reap passed over: a live row at a worker that is offline is
  marked so, and stays so until its lease has expired or it is recovered. The inductive invariant `IInv` adds to them what each needs of the row: that it has
  been started fewer times than it has attempts while it waits, and at most once
  under a number beyond the last; that it is reported when it has ended and not
  before; that it has an owner while it is in flight or completed and none while it
  waits; and that its tenure and what is left of its lease fit into the maximum
  together. What a tick has locked stays expired, since that is why its commit
  does not recover a row somebody has revived. There is one lemma for each
  action; rows that a transaction recovers together are handled by one lemma
  about a single recovered row. `Refinement` is that the server implements the abstract task,
  `Spec => ImplementsStageTask`, with one lemma for each group of actions, each showing
  that every row makes a `Move` or stutters.
* `WorkerProtocol` (`LeaseProofs`): `ProtocolIsLease` shows that workers and strays drive the
  server only in ways its own specification allows, so its theorems carry over.
  `ExecutedOnce` follows from an invariant about reservations: a row is in `effects`
  before anybody may execute it, and only one client holds that right.
  `CompletionIsEarned` follows a reported success back through wherever it is, the
  worker, a request under way, the row: it was executed, whoever reports it.
* `WorkerAccess` (`AccessProofs`): the three safety properties of `worker_access`. The invariant says
  who holds which lock at which point of a request, and that what a request has found
  under the row's lock is still what is active: only the holder of that lock issues or
  revokes. A kill switch that found all and revokes all therefore leaves none, and a
  rotation finds every credential it must put into its grace period. `KilledForGood` is not
  said of an emergency stop whose caller has been demoted by the time it locks.
* `ReviewDesk` (`DeskProofs`): type correctness and the three safety properties of `review_safety`,
  and `Armed`, that a waiting gate keeps its timeout unless a deletion took it; from an
  invariant that ties each screen to the version it shows: what was loaded with the pinned
  version is the text of that version.
* `SpendControl` (`MoneyProofs`): type correctness and the three properties of `spend_caps`. The
  invariant follows the one check that may be in progress and bounds, after each sum, how
  far what it saw can be from the truth: reservations by at most what has been released
  since, usage by at most the cap. Cardinality facts come from the library.
* `RunControl` (`RunControlProofs`): `TypeCorrect` and `SuccessIsWork`. The tables are sequences, and
  a few lemmas say once what writing, adding, mapping and concatenating entries
  does; then one lemma for each action says what it does to entries. `Carried` is the
  invariant: every job, assignment and gate is at a stage all stages before which
  were completed, and what is completed stays so. It holds whatever the retry
  button brings back, as it brings back only stages that assignments were at. `OneAtATime`,
  `NeverStalls`, `OnceAndInOrder`, `AttemptsBounded` and `FailureHasAReason` are the other
  properties of `run_pipeline`, each of runs the button was not used on. They rest
  on `Thread`, until its first use: `Phase`, that a pending job, an open
  assignment or a waiting gate has the run, and has it alone, or that it has ended; and
  `Past`, that each stage left behind was completed by one assignment and that
  attempts of a stage are distinct, only the last of them as high as the maximum.
* `OutboxRelay` (`OutboxRelayProofs`): the three safety properties of `relay_delivery`.
  `CheckpointsAreEarned` holds for any number of consumers: what a session has read of a
  checkpoint, or set it to, was handled in a committed transaction or in its own. The other
  two are stated for one consumer (`Registry = 1`; with more they are false: an event that one
  consumer keeps pending comes up again for another whose checkpoint may have gone back,
  and a consumer that failed on it leaves no letter when another makes it poison). There the invariant `Locking` says that two relays never hold the
  same event, that what one holds is still pending, and that whatever was handled is
  dispatched.
* `Team` (`AccessProofs`): what is true beside the finding. `EmptiedByRaceAlone`: the last admin is lost
  only to a request that another has overtaken between its count and its commit (the
  invariant says that a request nobody overtook has counted what there is). `NoWayBack`: a
  workspace without admins stays so, once no request is left from before that makes one: a
  statement already checked, or an invitation of the creator for himself. `GuessesBounded`: parallel guesses at a password do
  not exceed the limit.
* `AuditChain` (`AuditChainProofs`): types and the four properties of `audit_chain`. The
  invariant `ChainInv` says what a request may still rely on when it writes. Links, audits and
  rows only grow; a block, and an eligibility, once written stay; and a copy of a row
  differs in its gate from the row only if an audit was committed since
  (`Copied`); the copy of a hand-over goes with the audit it reads after it, or is behind
  that audit, and a brief committed on it is then `overtaken` if yet another audit came. `Moves` is what any step may do to rows and audits; that what requests rely on
  survives `Moves` is proved once (`RequestStays`) and then serves every action. An audit's
  place in the order by `checked_at` is that of its insertion (`InsertedPlaced`). The links of
  an opportunity are added up over texts by a fold: `TotalIsWeight` identifies the sum with
  the number of links, and from then on cardinalities are compared.
* `PackageDesk` (`DeskProofs`): types and the three properties of `package_gate`. `AuditOrder`:
  audits are distinct, and one whose request nobody overtook is the newest of its kind.
  `PassesKept`: a gate at `pass`, or a production job, has audits of all auditors that
  passed, and so has a request about to say so. `Tallies`: the counters of a run are
  witnessed by different audits. `CopiesCurrent`: what a request holds that nobody overtook
  is what is there; so a package that was not `raced` has the gate of its audits
  (`RowsFollow`). `Revisions`: of two revisions of one package in progress, one has found
  all the audits the other has, and audits a revision was written over are invalidated for all who
  found some of them; so a second revision over audits is refused.
* `ArtifactDesk` (`ArtifactProofs`): types and the three properties of `artifact_desk`. `Refs`:
  an eligibility row, or a request for one, names an audit of the Chief Auditor that is
  there, before and after both migrations. `Standing`: readiness and QA result go
  together, and what a request has read of a withdrawal is still so. `Earned`: every
  audit, row and request rests on passes that are there or were there until a downgrade.
  `Tables`: audits of an artifact differ in date, and each that a downgrade has deleted is outlived
  by an earlier one of its artifact.
* `Billing` (`MoneyProofs`): types, `NewestWins` and `EntitlementIsPaid`. The row says what the
  newest attributed events say (`NewestSpeak`), unless two deliveries raced; a row is active
  only by an event of an active subscription (`ActiveIsPaid`). `Settled` is all that the end of
  a delivery can do to the row, whatever attributes its UPDATE leaves out.

Only model-checked: liveness (`EveryHoldEnds`, `GateIsNoticed`, `EventsSettle`, `Converges`,
`EventuallyDark`), which rests on fairness and ENABLED and is out of the prover's reach; and the
counterexample of `last_admin`. The prover cannot instantiate a principle of induction either.
Where a proof needs one, about the least element of a finite set (`Extremes` in
`DeskProofs`) or the value of a fold (`FoldExists` and `FoldCounts` in `AuditChainProofs`), it
takes a smallest counterexample among finite sets, which strict inclusion orders
well-foundedly.

## 16. What is not modelled

`AssignmentLease` takes what the scheduler asks of it as possible at any time and hands
outcomes over by counting them (`reports`); `RunControl` takes claims, results and lost
leases as possible at any time; `PackageDesk` begins with an approved brief and
`ArtifactDesk` with a rendered artifact. None assumes of another what the other does not
promise, but their compositions are not modules.

Left out of components that are modelled in part: `cancel_run`, stage timeouts,
compensation and conditional transitions, which no code outside the tests calls or
schedules; worker logs; priorities and fairness between workspaces; the export of data,
which only reads; clearing dead letters, which changes the letters alone; rights evidence
as data; tables of production that nothing writes.

Left out altogether: provider budgets and rate limits (counters in time windows, each
changed by one statement or under its row's lock; a refusal is the stage that does not
start, which `RunControl` and `AssignmentLease` have), dashboards and metrics (read only;
the summaries that the departments' dashboards count are operators of their modules),
draft generation (pure text), the web console, and the schema with its row-level security,
of which the constraints and policies a model relies on are named where they are used.
Payloads, texts, prices and names are abstracted to what the properties tell apart.
