# HONOR, specified

TLA+ models of the parts of HONOR whose correctness depends on order, concurrency
and failure, with the TLC configurations that check them and the TLAPS proofs of
what matters most. Paths are relative to the repository; module names are files
of this directory.

## 1. The system

HONOR (checkpoint C01) is a foundation: an API, a worker, a reconciler, a BFF in
front, and a PostgreSQL database that is the only durable truth.

| Component | State it keeps | Operations | Talks to |
|---|---|---|---|
| API job store `services/api/honor_api/jobs.py`, `dispatcher.py` | rows of `jobs`, `events` | enqueue, replay, enqueue_and_dispatch, dispatchable | PostgreSQL, then Redis/Celery |
| Worker `services/worker/honor_worker/durable_jobs.py`, `tasks.py`, `celery_app.py` | the claimed attempt, an advisory lock of its main session, two asyncio tasks and a second session for the lease | claim, heartbeat, succeed, fail, release | PostgreSQL, broker |
| Reconciler `services/worker/honor_worker/reconciler.py`, `dispatcher.py` | leader lock, candidates of a pass | recover expired leases, requeue due retries, redispatch old queued rows | PostgreSQL, broker |
| Database guards `infrastructure/migrations/*.sql` | the tables | lifecycle triggers, immutability, rights, rules, earnings | every writer |
| Cost governor and ledger `services/api/honor_api/costs.py` | `cost_ledger`, `provider_usage` | admit, reserve, fund, reconcile, record usage | PostgreSQL |
| API idempotency `services/api/honor_api/idempotency.py` | `api_idempotency_records` | find, record | PostgreSQL |
| Owner transactions and auth `db.py`, `auth.py` | connection pool, JWKS cache | owner_transaction, require_owner | PostgreSQL, Supabase |
| Polli gateway `polli.py` | registry, handlers, `polli_*` tables | call, start_session, record_tool_call | PostgreSQL |
| API shell `app.py`, `errors.py`, `storage.py`, `outbound.py`, `redis_client.py`, `logging.py`, `config.py` | settings | routing, envelopes, probes | R2, Redis |
| Migrations `scripts/migrate.py`, `provision_runtime_role.py` | `schema_migrations`, migration lock | apply, verify checksum | PostgreSQL |
| Web BFF `apps/web` | session cookies | proxy, CSRF check, login, logout | API, Supabase |
| Media, intelligence | none yet | bounded subprocess; empty | external tools |
| Deployment, backup, contracts tooling | files | shell and build scripts | |

Hard behaviours, by component, and what correctness means there:

* **Jobs.** The same message may be in two workers' hands; a worker dies, or only
  loses a session, between any two transactions; the broker loses or repeats
  messages; the reconciler dies in the middle of a pass; clocks differ. Correct
  means: one attempt at a time moves the row, no attempt beyond `max_attempts`,
  every closed attempt is logged once, and every recorded job is settled.
* **Inside an attempt.** Work and lease renewal end in any order, and each may
  raise while the other is awaited. Correct means: no task is left behind, a
  success had its lease, a retry has a cause.
* **Enqueue.** Requests with one key race; answers of commits are lost. Correct
  means: one job and one event, no caller is answered with another's job, nothing
  is published that is not committed.
* **Costs.** Amounts are rounded one by one before they are added and compared;
  calls on one key race, are repeated after a lost answer, possibly after the row
  was reconciled. Correct means: no sequence of admissions reaches the cap, none
  adds to a month that has, paid work is admitted only where exact arithmetic admits it, a row is reconciled and
  audited once, history stands.
* **A mutation's way.** The BFF gives up after 15 seconds while the API goes on; the
  owner repeats the request, and the repetition overtakes the first; another tab
  changes the cookies; the pool has few connections; two executions of one key
  race between `find`, the effect and `record`. Correct means: no effect without
  its record and none by a request that began after it, a success is the record, a firm error is final, everybody is answered.
* **Migrations.** Runners of several releases start at once and die anywhere; a
  file was edited after it was applied. Correct means: each file once, in order,
  on its own past, and the lock is given back.
* **Clips.** Rights change while clips are created, rendered, accepted and posted in
  concurrent transactions, each of which sees only what was committed. Correct
  means: one accepted clip per restricted scope and signature, reservations and posts that
  agree with the clip's state, rights without gaps.

## 2. Modules

| Module | Models |
|---|---|
| `JobLifecycle` | abstract: what a job promises, its graph and the history of its outcomes |
| `DurableJobs` | the engine: API commit and publish, broker, workers, reconcilers, sessions, clocks, faults |
| `DurableJobsRefinement` | the refinement mapping from `DurableJobs` to `JobLifecycle` |
| `JobHeartbeat` | one attempt inside a worker: the asyncio tasks of `run_with_job_heartbeat` and the except clauses of `execute_durable_job` |
| `JobEnqueue` | concurrent enqueues, statement by statement |
| `CostGovernor` | pure: `quantize`, `state`, `admit`, `unfunded_reservation`, and the approved reference of the C00 validation script |
| `CostAdmission` | sequences of admissions, on top of `CostGovernor` |
| `CostLedger` | `CostLedgerRepository` and the reconciliation trigger, statement by statement |
| `ApiIdempotency` | a handler around `IdempotencyRepository.find` and `record` |
| `RequestPath` | a mutation from `honorFetch` through `proxy.ts`, the BFF and `require_owner` to that handler and back; EXTENDS `ApiIdempotency` |
| `Migrations` | runners of `scripts/migrate.py` |
| `ClipAcceptance` | the guards of rights, clips, reservations and posts, as concurrent transactions meet them |
| `MCDurableJobs`, `MCJobEnqueue`, `MCCostAdmission`, `MCCostLedger`, `MCRequestPath`, `MCMigrations`, `MCClipAcceptance` | instances for TLC |
| `DurableJobsProofs`, `JobHeartbeatProofs`, `JobEnqueueProofs`, `CostAdmissionProofs`, `CostLedgerProofs`, `RequestPathProofs`, `MigrationsProofs`, `ClipAcceptanceProofs` | theorems |

Operators whose comment begins with "Mutant of" are plausible bugs of the definition they
stand before; no specification uses them. `PROJECT.json` says which property
each of them breaks.

### DurableJobs

One database transaction is one action. `state`, `attempt`, `due`, `lease`, `aged`
are the columns `state`, `attempt`, `available_at`, `lease_expires_at` and
`updated_at`; `events` is the events table restricted to job events (job, name,
attempt). `lock` and `leader` are the two kinds of advisory lock. `session[w]`
says whether the worker's main session lives: when it is lost PostgreSQL frees the
lock, and the worker learns of it at its next statement on it (`SessionLossFound`),
while its work and its renewal, on a session of their own, go on. `rsession[r]` says the same of a reconciler: when its session is lost,
the leader lock and the row locks are free and another instance may lead, while the
deposed one goes on publishing, which needs no SQL, until its next statement finds the
loss (`LeaderLossFound`; `reconciler.py:118-120`, `135-146`). So two reconcilers may
publish at once, but only the one with the leader lock writes.

| Code | Actions |
|---|---|
| `enqueue_and_dispatch` | `Enqueue`, `EnqueueAgain`, `ApiPublish`, `ApiPublishFails` |
| broker (external) | `Receive`, `BrokerFlush`, `BrokerRedeliver` |
| `try_execution_lock` | `TryLock`, `LockRefused` |
| `claim_job_on_connection` | `Claim`, `ClaimRefused`, `ClaimUnheard` |
| `heartbeat_on_connection`, `_heartbeat_loop` | `Heartbeat`, `HeartbeatRejected`, `HeartbeatBreaks` |
| work | `WorkReturns`, `WorkRaises` |
| `succeed_on_connection` | `Succeed`, `SucceedTimesOut` |
| `fail_on_connection` | `Fail`, `FailRefused` |
| `finally`, process death | `Release`, `SessionLost`, `SessionLossFound`, `WorkerCrash` |
| `_recover_expired` | `FindCandidates`, `LockCandidate`, `SkipCandidate`, `Recover` |
| `reconcile_once` | `Lead`, `RequeueDue`, `PublishDue`, `FindOldQueued`, `Redispatch`, `Touch`, `Finish`, `ReconcilerFails`, `LeaderSessionLost`, `LeaderLossFound` |

Abstractions, each of which allows at least what the code does:

* Time is a set of facts that become true: `due[j]` holds the clocks (the
  database's, the worker's) that have passed `available_at`; a lease is live or
  expired; `updated_at` is old or not. Retry delays and jitter only say when.
* The requeue passes over any row that a claim may be reading (`Contended`), since
  `SKIP LOCKED` does while the claim's transaction is open.
* The transaction of a recovery and the unlock after it are one action: between
  them only the reconciler could see the difference, and it does nothing.
* How an attempt's errors come about is `JobHeartbeat`'s subject; here the kind of
  failure is chosen freely.
* `cancelled` and the way out of `blocked-owner-action` are edges of the graph
  without code that takes them, so they have no actions.

### JobHeartbeat

What lies between two awaits is one action. `main`, `work`, `hb` are the positions
of the three tasks; `result` is what `run_with_job_heartbeat` is about to return
or raise; `row` is what the except clauses of `execute_durable_job` then write. The
transaction of a success may itself raise, time out or find the fence gone
(`SucceedFails`); `except Exception` catches that as well, and then tries a retry for
work that has returned (`Fail`), or raises too (`Abandon`). The
renewal is refused only after the fence is lost; `FencedByLock` of `DurableJobs`
is the reason.

### JobEnqueue

One SQL statement is one action, at READ COMMITTED. `newJob[c]`, `newEvent[c]` are
the uncommitted rows of a call. Two unique indexes matter: `ON CONFLICT` names the
one on `idempotency_key`; the primary key, a hash of `type:key`, conflicts as an
error. A racing duplicate may therefore wait and do nothing, or wait at the primary
key (`Park`) and fail. Names are sequences of segments, so that two different
pairs of type and key can spell one id. A request spells its UUIDs as PostgreSQL
does or otherwise (`canonical`): `validate` accepts any spelling, the row has none, and
the comparison of a repetition (`Matches`, `jobs.py:174-186`) is one of texts.

### CostGovernor and CostAdmission

An amount is a natural number of tenths of a micro-dollar (`Unit` = 10), fine
enough to lie on, below and above every tie of `ROUND_HALF_EVEN`. `D` is `quantize`;
thresholds are constants, even in micro-dollars as the ones of the code are. `Admit`
and `State` translate the code, `ApprovedAdmit` and `ApprovedState` the functions of
`HONOR_C00_VALIDATION.py`, which compare exact amounts. `Decide` asks `Admit` and
books an admitted cost at once. The month starts with any exposure (`start`), at or above
the cap too, since `reserve` and `record_unpaid_commitment` ask no admission. The
repository has no code that joins `admit` and
`reserve`, so there is no order of the two to check.

### CostLedger

One SQL statement is one action. The three bookings share a unique index, usage has
its own. What a replay is compared on is `Compared`: all that a booking was given, but
of a usage the service and the job only (`costs.py:334-341`), so that a report with other units is
answered with the first row. An insertion waits for an uncommitted row of its key (`Insert`) or finds a
committed one (`InsertFindsKey`, then `Lookup` compares), an update waits for an
uncommitted update (`Reconcile`). A reconciliation writes its
audit record in the same transaction. `Break` ends a call anywhere and rolls it back,
`CommitUnheard` loses the answer of a commit, `Repeat` comes again.

### ApiIdempotency and RequestPath

`ApiIdempotency` is a transaction of a handler: look for the record, have the
effect, `record` (a second look, then the insertion into the unique index), commit.
No handler of the repository uses the repository class yet; `record` takes the response, so
the effect comes before it. The handler answers with what `record` returns, an own
record or another's: nothing tells them apart, so two equal requests that are in the
handler together can each commit an effect, with one record for both (section 4).
`effects` are the calls whose effect is committed; `late`, a history variable that no guard
reads, those that began when their key was on record. `RequestPath` puts it behind what the source
does have: `honorFetch` reads the CSRF token and sends it with the cookies,
`proxy.ts` and `guardBffRequest` check them, `proxyToApi` reads body and session and
waits for the API 15 seconds (`web[c]`), `require_owner` verifies the token and
looks up the profile on a pool connection (`api[c]`), and the error handlers decide
what each exception is answered. `carried[c]` is the header and the cookies that
left the browser. What makes a token valid is cryptography, and is chosen freely.

### Migrations

One runner is one process, started again and again (`Start`): it locks, with a time
limit, and for each of its files looks at the ledger, then skips, stops, or executes and records. A file is its version and checksum; script and ledger row
are one transaction. `schema` is the history of executed files, which the database itself
does not keep. The frozen C00 file has a body that PostgreSQL does not validate, and
only that one is executed without validation.

### ClipAcceptance

A transaction is one statement: `Send` (the triggers look at what is committed,
unless the row is locked, then it waits and `Check` runs them), `Enter` (each key into
its unique index, waiting for an uncommitted writer), `Commit` or `Rollback`. `at` is
`statement_timestamp()`, which the code writes to `committed_at` and `created_at`.
One source and one set of rules; a version of the rights allows every use until it
ends, or none. The render start's look for reused edits is `Reused`; the acceptance
enters `SignatureKey`s, one for each sealed code in the order of the rules.

## 3. Runs

| Run | Instance | Shows |
|---|---|---|
| `jobs_safety` | 1 job, 2 workers, 2 reconcilers, 2 attempts, 1 message copy, 3 faults | the fence, leases, events; only the holder closes and only the leader writes; the engine implements `JobLifecycle` |
| `jobs_liveness` | 1 job, 2 workers, 1 reconciler, 1 copy, 2 faults, fairness | every recorded job is settled |
| `jobs_stale_heartbeat` | the same, without fairness | finding 1 |
| `heartbeat` | 3 attempts, fairness | all interleavings of the two tasks of an attempt |
| `heartbeat_owner_action` | 3 attempts | finding 2 |
| `enqueue` | 2 calls, 2 types, 2 keys, 2 meanings, 2 spellings, 2 events, 2 faults, fairness | answers, rows, events and messages agree; nobody waits for ever |
| `admission` | every tenth of a micro-dollar up to two above a cap of 8 | rounding never adds up to a wrong admission |
| `ledger` | 3 calls of any kind on one key, 3 meanings, two of them of one service and job, 1 fault, fairness | replays are recognised, one reconciliation, history stands, every call ends |
| `migrations` | releases old, new, edited, broken; 2 deaths | once, in order, on their own past; the lock is given back |
| `request_path` | a request, its repetition, another with its key; 2 connections, 2 faults, 2 tokens, fairness | no effect without its record or after it, truthful answers, every call answered, every execution ends |
| `clips` | 2 clips of one edit with opposite orders of the codes, 2 sessions, 2 versions | one accepted, reservations, posts, versions; what changes the past of the rights |
| `clips_late_rights` | the same | finding 3 |

Why the bounds are enough to be interesting. The fence is about one row: two
workers and a reconciler are every pair that can meet on it, and the proofs cover
more. Two attempts reach the first, a middle and the last comparison with
`max_attempts`. Three faults allow a lost session, a lost message and a death in one
behaviour; each counted action is one that nobody owes. The copy of a message that waits in the
broker and those in the workers' hands are duplicates of each other; more
would merge with it. What several rows in one action add (requeue, flush)
is left to the proofs, which have any number of jobs.
Two enqueues are a writer and one that waits for it, each of which may be repeated
(`Repeat`) after an error. Three ledger calls on one key are a writer, one that
waits, and one that comes when the first has rolled back. The cost
scale has the three thresholds of the code in their order, and costs up to one and
a half micro-dollars, on both sides of two ties. Four
runners of different releases meet in every order; a runner is started again after it
ended, so a fifth adds nothing. Three calls on the request path with two connections
leave one without. Two clips of one edit are every pair that a key can join; two
versions are one and its successor, a clock of two moments is before and after.

Symmetry: workers and reconcilers in `jobs_safety`, sessions in the two clip runs, where
nothing tells one from another; neither run has a liveness property.

`CHECK_DEADLOCK FALSE` is set where the modelled actors may all be finished: a settled
attempt, ended calls, runners that have ended.

### Fairness

* `DurableJobs`: clocks pass; a worker that has a message goes on (the process
  either runs or dies, and death is an action); a free worker eventually receives a
  message that is there again and again (strong fairness: Celery hands out the
  queue in order); the reconciler's loop is `while True` and catches every exception.
  Work is assumed to end: nothing in the code bounds it (see the hazards), so
  without this assumption a job may run for ever. Faults and requests owe nothing and
  are bounded, so the liveness result reads "once the faults stop".
* `JobHeartbeat`: the event loop runs every task that can run, and work that is
  cancelled stops. The work itself owes nothing.
* `JobEnqueue`, `CostLedger`, `Migrations`: a call or a runner that can take its next
  statement takes it; PostgreSQL wakes those that wait for a lock or a key. None owes
  a new call, a fault or a restart.
* `RequestPath`: each call goes on, in the web server (the timer of
  the fetch included) or in the API, whichever can. Nobody must send a request, and nothing must fail. The pool serves
  waiting calls in turn.
* `CostAdmission`, `ClipAcceptance`: safety only.

## 4. Findings

1. **A stale heartbeat is accepted** (`durable_jobs.py:166`, run
   `jobs_stale_heartbeat`). The renewal's WHERE clause has the id, the dispatch token
   and `state='running'`; the token is the same for all attempts of a job. A
   worker that lost its main session keeps renewing the lease of the attempt that
   its successor runs, and when the successor dies the lease does not expire while the
   first worker's work lasts. The contract (`packages/contracts/events/HONOR_EVENT_AND_JOB_CONTRACTS.md:126`)
   asks versioned transitions to reject stale updates.
2. **An owner action can turn into a timed retry** (`durable_jobs.py:242`, run
   `heartbeat_owner_action`). If the work raises `OwnerActionRequired` while a renewal
   is under way and that renewal breaks, `await heartbeat_task` in the finally block
   raises its own exception in place of the first one, and the job is scheduled for
   a retry; the contract (same file, line 104) says "no timed retry". The same holds
   for `NonRetryableJobError`.

3. **A version of the rights can be late** (`0001_c00_database_contract.sql:1597`, run
   `clips_late_rights`). `committed_at` is `statement_timestamp()`, before the
   commit. A clip whose guard runs between the stamp and the commit is created under
   the version before, although by its own timestamp the new one is in force then; the
   comment at line 1596 calls the latest committed version as of T
   authoritative. `honor_clip_cross_record_guard` asks again with the
   clip's `created_at` at every later move and refuses them all, `EJECTED` included.
   `PastChangesByLateCommitsOnly`, proved, says that this is the only way the past changes.

Divergences that were met and need no run, since a statement or two show them:

* Two equal requests with one key can both have their effect: `record` returns the row
  of the first to the second, as it would return an own one (`idempotency.py:40-48`), and
  a handler that answers with it commits. `EffectsFollowTheRecord` says what holds nevertheless.
* A repetition of an enqueue whose UUIDs are not spelled as PostgreSQL spells them is
  refused as a reuse (`jobs.py:186`), although `validate` accepted the request and the first
  call succeeded.
* A usage report that comes again with other units is answered with the id of the first
  row (`costs.py:339`).
* `idempotency.record` passes a dict for a jsonb parameter and an int to
  `$9||' seconds'`; without a codec asyncpg takes text for both. The model lets the
  insertion succeed.
* A cost of less than half a micro-dollar, or none, is admitted at any exposure
  (`costs.py:61`); the approved vectors refuse it at the cap
  (`HONOR_C00_VALIDATION.py:89`). `PaidWorkIsApproved` leaves such work out.
* An outage of the session provider that `getClaims` reports as an error, and does
  not raise, is answered `AUTH_REQUIRED`, as if nobody were signed in; the reuse of an idempotency key is a
  `ValueError`, which the API answers as `INTERNAL_ERROR` with status 500.
* `_same_uuid` of `costs.py` (line 148) compares identifiers as they are spelled; a replay with
  another spelling of the same UUID is refused.
* `expires_at` of an idempotency record (`idempotency.py:22`) is never read.
* A migration whose number lies below an applied one is executed when it turns up
  (`migrate.py:76`).
* Two first calls of `pool()` (`db.py:15`) can create two pools; one is lost.
* The manifest's guard reads the clip's output without a lock
  (`0001_c00_database_contract.sql:1404`).

## 5. Proofs

`DurableJobsProofs`, for any finite or infinite sets of jobs, workers and reconcilers
and any bounds that satisfy the four assumptions of `DurableJobs` (`MaxAttempts` and
`MaxMessages` positive, `MaxFaults` a natural number, process names distinct):

| Theorem | States |
|---|---|
| `TypeCorrect` | `Spec => []TypeOK` |
| `FenceCorrect` | `Spec => []FencedByLock` |
| `HolderCorrect` | `Spec => OnlyTheHolderCloses` |
| `StoryCorrect` | `Spec => []EventsReplayTheRow` |
| `AttemptsCorrect` | `Spec => []AttemptsBounded` (TLC sees it through the refinement) |
| `LeaseCorrect` | `Spec => []LeaseIffRunning` |
| `LeaderCorrect` | `Spec => OnlyTheLeaderWrites` |
| `LifecycleImplemented` | `Spec => ImplementsLifecycle`, the refinement of `JobLifecycle` |

The argument. `TypeStep` and `FenceStep` go through all forty-two actions.
`FencedByLock` is not inductive: nothing in it forbids a reconciler to be at the
point of recovery without the lock, and from such a state it closes the row of a
live worker. `FenceInv` adds that a recovering reconciler whose session lives holds the lock of its row.
For the rest `TableSteps` shows that a step enqueues, claims or closes one row, requeues
some or keeps all, each with the guard that it needs: a close has a `Closer`, and goes
to `retrying` only below `max_attempts`. Attempts, leases and events
are then inductive over the five cases; `StoryInv` adds that a row outside the queue
has been claimed. `OnlyTheHolderCloses` follows from `Closer` and the fence.
`OnlyTheLeaderWrites` speaks of steps. Its invariant is `LeaderHasItsSession`, that a
reconciler with a living session holds the leader lock: nobody but a reconciler touches that
lock (`LeaderLeftAlone`), and each of its steps takes or drops lock and session together. The
recovery, the requeue and the touch are statements on that session (`WritersAreInSession`).
That a reconciler in the middle of a pass holds the lock is no invariant: a deposed one does not.

The refinement. `HistoryOf` counts a job's outcome events and chooses the outcome of
each attempt. `HistoryIsKnown` turns that, by a bijection, into an expression of
the row alone: of the attempts that are over, all but the last were retried, and the state
names the last. It follows from `StoryInv` and so holds in every state. Then
`HistoryKept` and `HistoryGrows` say what the five things do to the history,
`AdmittedMoves` that the frozen graph has those edges, and `LifecycleStep` matches every
step with `Create`, `Open`, `Close`, `RequeueMany` or a stutter. `AttemptsBounded` is
needed where an attempt opens: the claim does not ask.

`JobHeartbeatProofs`, for any number of attempts: `NothingLeftBehind`
(`NoTaskLeftBehind`), `SuccessIsLeased` (`SuccessHasItsLease`), `RetryIsCaused`
(`RetryHasACause`). The invariant says what the waiting coroutine knows at each place
(`Places`), that the renewal ends without an exception only when it is told to stop, which
only the `finally` block does (`Renewal`), and that what is raised is the work's
own ending, the renewal's failure, or that a success of work that returned could not
be recorded (`Outcome`). Without `Renewal` a
coroutine that wakes for a finished renewal could find no exception to raise.

`JobEnqueueProofs`, for any calls, keys, ids and payloads: `OwnJob`
(`AnsweredByItsOwnJob`), `RefusalIsDeserved` (`RefusedOnlyForADifference`),
`EventsMatchJobs` (`OneEventPerJob`), `PublishedAfterCommit` (`PublishedIsCommitted`),
and `JobsAreUnique`, which they rest on. The properties are inductive only with what
the unique indexes guarantee of rows in flight: an open insertion shares neither key
nor id with a committed row or with another open one (`Reserved`), a transaction holds
what its own call asked for (`Transactions`), and a call that looks a row up has seen its
key taken (`Seen`). The refusal is deserved by a request in canonical spelling; of
another the theorem says only that its key is taken.

`CostLedgerProofs`, for any calls, keys and meanings, with `PendingAssumption` (a cost is
not NULL): `OwnRow` (`AnsweredByItsOwnRow`), `RefusalIsDeserved`
(`RefusedOnlyForADifference`), `AuditIsExact` (`OneAuditRecordEach`), `ImmutableHistory`
(`HistoryIsImmutable`) and `KeysAreUnique`. `Safe` is inductive alone: as above, and a row
that an open reconciliation holds is recorded, pending and nobody else's (`Held`).
From `Safe`, each step adds one row, reconciles one with its audit record, or leaves
both tables (`Inserts`, `Reconciles`). The answers need a second induction
(`Answers`), since they are about rows that may change after they were given. `Subject` is any function
from meanings: nothing is assumed of what a usage report leaves out of the comparison.

`MigrationsProofs`, for any runners, releases and bounds that satisfy
`RepositoryAssumption` (a release is what `discover_migrations` returns: not empty, versions
ascending):

| Theorem | States |
|---|---|
| `RunnersExclude` | two runners are never both between lock and unlock |
| `SuccessIsCurrent` | `Spec => []SuccessMeansCurrent` |
| `OnItsOwnPast` | `Spec => AppliedOnItsOwnPast` |
| `EachExecutedOnce` | `Spec => []ExecutedOnce`: schema and ledger agree, no version is executed twice |
| `InOrder` | `AppendOnly` implies `Spec => []ExecutedOnceInOrder` |

`Progress` says how far a runner at work has come, which only the lock makes
inductive: nobody else writes the ledger meanwhile. The order needs more than the code
gives: a release that numbers a new file below an applied one has it executed last (see
section 4). `AppendOnly` is the rule of `HONOR_FROZEN_REPO_LAYOUT.txt:70`; the instance
that TLC checks satisfies it too. Everything else is proved without it.

`CostAdmissionProofs`, for any thresholds that are even in micro-dollars and any
amounts and exposures, those at and above the cap included: `CapTheorem` (`CapHolds`), `ApprovedTheorem` (`PaidWorkIsApproved`) and
`StateTheorem` (`StateNeverLags`). `Nearest` bounds `D` by the exact amount from
both sides; `TieIsEven` says that a tie that is rounded down has an even result. Two
amounts may both be rounded down, but only from ties, and then their sum is even
and lies below an even threshold with room for both halves: `RoundedSumIsBelow`. With
thresholds that are odd in micro-dollars the theorem is false.

`RequestPathProofs`, for any calls, keys, contents, pool and bounds:

| Theorem | States |
|---|---|
| `PathTypeTheorem` | types, `PlacesAgree` (nobody is in the handler who was not admitted), `ConnectionsAreBounded` |
| `EffectTheorem` | `EffectsFollowTheRecord` |
| `SuccessTheorem` | `SuccessIsTheRecord` |
| `RefusalTheorem` | `RefusedOnlyForADifference` |
| `FirmTheorem` | `FirmErrorsAreFinal` |

`HandlerInv` is inductive for the handler alone: an open transaction holds a record only
between insertion and commit (`Transactions`), one at most has inserted a key, and
nobody has committed one before it (`OneWriterPerKey`, the unique index), who is done, or was
given another's record, finds it committed (`DoneIsRecorded`), only calls that have ended are
on record or have effects (`CommittedHasEnded`), and who began late finds the record
and so never comes to its effect (`LateFindsTheRecord`). `PathInv` adds where a
call may be in web server and API together, and what an answer says about it
(`AnswersTell`): after a firm error the execution is absent or refused, and those
places have no way into the handler.

`ClipAcceptanceProofs`, for any clips, sessions, rules and bounds: `TypeCorrect`,
`ReservationsCorrect`, `AcceptanceCorrect`, `PostsCorrect`, `VersionsCorrect` and
`PastCorrect`, for the properties of run `clips`. The rules are assumed
to name no code twice, which the seal guarantees. `OpenInv` is about
open transactions: one that waits has entered nothing (`WaitingIsFresh`), one that
writes still meets its guard on what the row lock protects (`Prepared`), no two write one
clip (`ClipsApart`), no key is held twice (`KeysApart`), none is committed already
(`KeysAreNew`). It makes the three story invariants inductive: a commit turns the
keys its transaction holds into committed ones. `AcceptanceCorrect` then needs no
induction: a common key would be reserved by both clips.

Only model-checked: liveness and everything under fairness (`EveryJobSettles`,
`LostLeaseEndsTheAttempt`, `EveryCallEnds`, `LockIsGivenBack`, `EveryCallIsAnswered`,
`EveryExecutionEnds`), which this prover does not reach. Every other property of
a passing run is proved.

Each inductive invariant was checked by TLC on a small instance of its component
before it was proved.

## 6. Not modelled, and what could follow

* *The rest of the database guards*: outputs, QC and manifests, campaign rule sets
  (seal, activate, consume), generation runs, submissions, check-ins, earnings, owner actions,
  experiments. Most are checks of one row by one statement; those that
  several transactions share multiply the states of `ClipAcceptance` beyond TLC's reach and
  need modules of their own.
* *Polli gateway*: registry, rate limit, audit and handler follow each other inside
  one call and share no state but append-only audit rows.
* *API shell, object storage, settings, logging, health keys*: input and output without state
  that outlives a call; the error handlers are in `RequestPath`.
* *Rights*: `evidence_captured_at` (`0001_c00_database_contract.sql:1602`); every version's evidence
  is taken to be captured by the time it is asked about.
* *Web*: the origin check (`ORIGIN_FORBIDDEN`, `csrf.ts:43-45`), which a page of the application
  always passes; reads (the same way without the guard), the first visit without a CSRF token,
  page redirects. *Authentication*: signatures and the key cache. *Pool*: its creation.
* *provision_runtime_role.py*: one password, two flags.
* *Media and intelligence*: no state yet. *Deployment, backup, generators, acceptance
  scripts*: shell and build tools.
