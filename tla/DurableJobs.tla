----------------------------- MODULE DurableJobs -----------------------------
(***************************************************************************)
(* The durable-job engine: the API that records a job and publishes its    *)
(* identity, the broker that carries it, the Celery workers that claim,    *)
(* run and settle it (durable_jobs.py), and the reconciler that recovers   *)
(* expired leases, requeues due retries and republishes old queued work    *)
(* (reconciler.py).                                                        *)
(*                                                                         *)
(* PostgreSQL is the only durable truth.  One database transaction is one  *)
(* action.  What lies between two transactions of a process is a place     *)
(* where the others may move, where the process may die, and where its     *)
(* session may be lost, which frees the session's advisory locks while the *)
(* process goes on.                                                        *)
(*                                                                         *)
(* Time is abstract.  `due' says by which clock available_at has passed:   *)
(* the claim compares it with the worker's clock, everything else with the *)
(* database's.  A lease is live or expired; updated_at is old or not.      *)
(***************************************************************************)
EXTENDS Naturals

CONSTANTS Jobs, Workers, Reconcilers,
          None,          \* no job, no holder
          MaxAttempts,   \* jobs.max_attempts
          MaxMessages,   \* bound: copies of one job's message in the broker
          MaxFaults      \* bound: faults in one behaviour

ASSUME MaxAttemptsAssumption == MaxAttempts \in Nat \ {0}
ASSUME MaxMessagesAssumption == MaxMessages \in Nat \ {0}
ASSUME MaxFaultsAssumption == MaxFaults \in Nat
ASSUME NamesAssumption == /\ Workers \cap Reconcilers = {}
                          /\ None \notin Jobs \cup Workers \cup Reconcilers

VARIABLES
  \* the jobs table, one function per column, and the events table
  state, attempt, due, lease, aged, events,
  \* the advisory locks: execution lock of a job, leader lock
  lock, leader,
  \* the API's calls between commit and publish, and the broker
  publishing, broker,
  \* a worker: where it is, the job of its message, the attempt it claimed,
  \* how its work failed, and whether its main session lives
  wpc, wjob, claimed, failure, session,
  \* a reconciler: where it is, the job it is at, the rows still to visit, and
  \* whether its session lives
  rpc, rjob, todo, rsession,
  \* the number of faults so far
  faults

tableVars == <<state, attempt, due, lease, aged, events>>
lockVars == <<lock, leader>>
brokerVars == <<publishing, broker>>
workerVars == <<wpc, wjob, claimed, failure, session>>
reconcilerVars == <<rpc, rjob, todo, rsession>>
vars == <<tableVars, lockVars, brokerVars, workerVars, reconcilerVars, faults>>

JobStates == {"absent", "queued", "running", "retrying",
              "blocked-owner-action", "failed-terminal", "succeeded"}
Settled == {"succeeded", "failed-terminal", "blocked-owner-action"}
Outcomes == {"JOB_SUCCEEDED", "JOB_RETRY_SCHEDULED", "JOB_FAILED_TERMINAL",
             "OWNER_ACTION_REQUIRED"}
Failures == {"retryable", "nonretryable", "owner-action"}
WorkerPlaces == {"idle", "lock", "claim", "work", "succeed", "fail", "release"}
ReconcilerPlaces == {"idle", "candidates", "recover", "recovering", "publish",
                     "redispatch", "touch"}

Init ==
  /\ state = [j \in Jobs |-> "absent"]
  /\ attempt = [j \in Jobs |-> 0]
  /\ due = [j \in Jobs |-> {}]
  /\ lease = [j \in Jobs |-> "none"]
  /\ aged = [j \in Jobs |-> FALSE]
  /\ events = {}
  /\ lock = [j \in Jobs |-> None]
  /\ leader = None
  /\ publishing = {}
  /\ broker = [j \in Jobs |-> 0]
  /\ wpc = [w \in Workers |-> "idle"]
  /\ wjob = [w \in Workers |-> None]
  /\ claimed = [w \in Workers |-> 0]
  /\ failure = [w \in Workers |-> "none"]
  /\ session = [w \in Workers |-> FALSE]
  /\ rpc = [r \in Reconcilers |-> "idle"]
  /\ rjob = [r \in Reconcilers |-> None]
  /\ todo = [r \in Reconcilers |-> {}]
  /\ rsession = [r \in Reconcilers |-> FALSE]
  /\ faults = 0

-----------------------------------------------------------------------------
(* Faults, and the broker.                                                 *)

Fault == faults < MaxFaults /\ faults' = faults + 1

\* Copies beyond the bound are merged with those already there.
Publish(j) ==
  broker' = [broker EXCEPT ![j] = IF @ < MaxMessages THEN @ + 1 ELSE @]

\* Redis loses what it holds.
BrokerFlush ==
  /\ Fault
  /\ \E j \in Jobs : broker[j] > 0
  /\ broker' = [j \in Jobs |-> 0]
  /\ UNCHANGED <<tableVars, lockVars, publishing, workerVars, reconcilerVars>>

\* The visibility timeout of an unacknowledged message passes.
BrokerRedeliver(w) ==
  /\ Fault
  /\ wpc[w] # "idle"
  /\ Publish(wjob[w])
  /\ UNCHANGED <<tableVars, lockVars, publishing, workerVars, reconcilerVars>>

-----------------------------------------------------------------------------
(* Time.                                                                   *)

ClockPasses(j, clock) ==
  /\ state[j] \in {"queued", "retrying"}
  /\ clock \notin due[j]
  /\ due' = [due EXCEPT ![j] = @ \cup {clock}]
  /\ UNCHANGED <<state, attempt, lease, aged, events, lockVars, brokerVars,
                 workerVars, reconcilerVars, faults>>

LeaseExpires(j) ==
  /\ lease[j] = "live"
  /\ lease' = [lease EXCEPT ![j] = "expired"]
  /\ UNCHANGED <<state, attempt, due, aged, events, lockVars, brokerVars,
                 workerVars, reconcilerVars, faults>>

\* updated_at becomes older than the redispatch age; only queued rows are asked.
RowAges(j) ==
  /\ state[j] = "queued"
  /\ ~aged[j]
  /\ aged' = [aged EXCEPT ![j] = TRUE]
  /\ UNCHANGED <<state, attempt, due, lease, events, lockVars, brokerVars,
                 workerVars, reconcilerVars, faults>>

-----------------------------------------------------------------------------
(* The API: enqueue_and_dispatch commits the row, then publishes.          *)

Enqueue(j) ==
  /\ state[j] = "absent"
  /\ state' = [state EXCEPT ![j] = "queued"]
  /\ \E ahead \in SUBSET {"worker"} : due' = [due EXCEPT ![j] = {"db"} \cup ahead]
  /\ events' = events \cup {<<j, "ENQUEUED", 0>>}
  /\ publishing' = publishing \cup {j}
  /\ UNCHANGED <<attempt, lease, aged, lockVars, broker, workerVars,
                 reconcilerVars, faults>>

\* The same request again finds the row, and publishes if it reads "queued".
\* Each repetition counts against the fault bound.
EnqueueAgain(j) ==
  /\ Fault
  /\ state[j] = "queued"
  /\ publishing' = publishing \cup {j}
  /\ UNCHANGED <<tableVars, lockVars, broker, workerVars, reconcilerVars>>

ApiPublish(j) ==
  /\ j \in publishing
  /\ publishing' = publishing \ {j}
  /\ Publish(j)
  /\ UNCHANGED <<tableVars, lockVars, workerVars, reconcilerVars, faults>>

\* The API dies, or Redis refuses, between commit and publish.
ApiPublishFails(j) ==
  /\ Fault
  /\ j \in publishing
  /\ publishing' = publishing \ {j}
  /\ UNCHANGED <<tableVars, lockVars, broker, workerVars, reconcilerVars>>

-----------------------------------------------------------------------------
(* A worker: execute_durable_job.                                          *)

\* Every update of a job row writes updated_at.
Touched(j) == aged' = [aged EXCEPT ![j] = FALSE]

GrantLease(j) == lease' = [lease EXCEPT ![j] = "live"]

\* Mutant of Close: lease_expires_at is not cleared.
CloseKeepingLease(j, newState, outcome) ==
  /\ state' = [state EXCEPT ![j] = newState]
  /\ events' = events \cup {<<j, outcome, attempt[j]>>}
  /\ Touched(j)
  /\ UNCHANGED <<attempt, lease>>

\* The last transaction of an attempt: the row moves, the lease ends, and the
\* event is inserted, ON CONFLICT DO NOTHING.
Close(j, newState, outcome) ==
  /\ state' = [state EXCEPT ![j] = newState]
  /\ lease' = [lease EXCEPT ![j] = "none"]
  /\ events' = events \cup {<<j, outcome, attempt[j]>>}
  /\ Touched(j)
  /\ UNCHANGED attempt

\* available_at moves to now + retry_delay.
CloseForRetry(j) ==
  /\ Close(j, "retrying", "JOB_RETRY_SCHEDULED")
  /\ due' = [due EXCEPT ![j] = {}]

\* Mutant of CloseTerminal: a state that the enum does not have.
CloseTerminalMisspelt(j) ==
  /\ Close(j, "failed", "JOB_FAILED_TERMINAL")
  /\ UNCHANGED due

CloseTerminal(j) ==
  /\ Close(j, "failed-terminal", "JOB_FAILED_TERMINAL")
  /\ UNCHANGED due

\* The session ends, by close or by loss: its advisory locks are freed.
FreeLocksOf(p) ==
  lock' = [j \in Jobs |-> IF lock[j] = p THEN None ELSE lock[j]]

WorkerGoesTo(w, place) == wpc' = [wpc EXCEPT ![w] = place]

\* The task ends and its message is acknowledged.
Leave(w) ==
  /\ WorkerGoesTo(w, "idle")
  /\ wjob' = [wjob EXCEPT ![w] = None]
  /\ claimed' = [claimed EXCEPT ![w] = 0]
  /\ failure' = [failure EXCEPT ![w] = "none"]
  /\ session' = [session EXCEPT ![w] = FALSE]
  /\ FreeLocksOf(w)
  /\ UNCHANGED leader

\* The broker hands a message to a free worker, which opens its main session.
Receive(w, j) ==
  /\ wpc[w] = "idle"
  /\ broker[j] > 0
  /\ broker' = [broker EXCEPT ![j] = @ - 1]
  /\ WorkerGoesTo(w, "lock")
  /\ wjob' = [wjob EXCEPT ![w] = j]
  /\ session' = [session EXCEPT ![w] = TRUE]
  /\ UNCHANGED <<tableVars, lockVars, publishing, claimed, failure,
                 reconcilerVars, faults>>

TryLock(w) ==
  /\ wpc[w] = "lock"
  /\ session[w]
  /\ lock[wjob[w]] = None
  /\ lock' = [lock EXCEPT ![wjob[w]] = w]
  /\ WorkerGoesTo(w, "claim")
  /\ UNCHANGED <<tableVars, leader, brokerVars, wjob, claimed, failure,
                 session, reconcilerVars, faults>>

\* Someone else holds the job's lock: a duplicate.
LockRefused(w) ==
  /\ wpc[w] = "lock"
  /\ session[w]
  /\ lock[wjob[w]] # None
  /\ Leave(w)
  /\ UNCHANGED <<tableVars, brokerVars, reconcilerVars, faults>>

Claimable(j) == state[j] = "queued" /\ "worker" \in due[j]

ClaimRow(j) ==
  /\ state' = [state EXCEPT ![j] = "running"]
  /\ attempt' = [attempt EXCEPT ![j] = @ + 1]
  /\ GrantLease(j)
  /\ Touched(j)
  /\ UNCHANGED <<due, events>>

Claim(w) ==
  LET j == wjob[w] IN
  /\ wpc[w] = "claim"
  /\ session[w]
  /\ Claimable(j)
  /\ ClaimRow(j)
  /\ claimed' = [claimed EXCEPT ![w] = attempt[j] + 1]
  /\ WorkerGoesTo(w, "work")
  /\ UNCHANGED <<lockVars, brokerVars, wjob, failure, session, reconcilerVars,
                 faults>>

\* The claim commits, but the worker hears only that its session is lost.
ClaimUnheard(w) ==
  LET j == wjob[w] IN
  /\ Fault
  /\ wpc[w] = "claim"
  /\ session[w]
  /\ Claimable(j)
  /\ ClaimRow(j)
  /\ Leave(w)
  /\ UNCHANGED <<brokerVars, reconcilerVars>>

ClaimRefused(w) ==
  /\ wpc[w] = "claim"
  /\ session[w]
  /\ ~Claimable(wjob[w])
  /\ WorkerGoesTo(w, "release")
  /\ UNCHANGED <<tableVars, lockVars, brokerVars, wjob, claimed, failure,
                 session, reconcilerVars, faults>>

FailWith(w, kind) ==
  /\ WorkerGoesTo(w, "fail")
  /\ failure' = [failure EXCEPT ![w] = kind]

\* The heartbeat's own session: it asks for the job's constant token and
\* for state "running", not for the attempt that this worker claimed.
Heartbeat(w) ==
  /\ wpc[w] = "work"
  /\ state[wjob[w]] = "running"
  /\ GrantLease(wjob[w])
  /\ Touched(wjob[w])
  /\ UNCHANGED <<state, attempt, due, events, lockVars, brokerVars, workerVars,
                 reconcilerVars, faults>>

\* The renewal matches no row: the work is cancelled.
HeartbeatRejected(w) ==
  /\ wpc[w] = "work"
  /\ state[wjob[w]] # "running"
  /\ FailWith(w, "retryable")
  /\ UNCHANGED <<tableVars, lockVars, brokerVars, wjob, claimed, session,
                 reconcilerVars, faults>>

\* The heartbeat's session fails: the work is cancelled.
HeartbeatBreaks(w) ==
  /\ Fault
  /\ wpc[w] = "work"
  /\ FailWith(w, "retryable")
  /\ UNCHANGED <<tableVars, lockVars, brokerVars, wjob, claimed, session,
                 reconcilerVars>>

WorkReturns(w) ==
  /\ wpc[w] = "work"
  /\ WorkerGoesTo(w, "succeed")
  /\ UNCHANGED <<tableVars, lockVars, brokerVars, wjob, claimed, failure,
                 session, reconcilerVars, faults>>

WorkRaises(w, kind) ==
  /\ wpc[w] = "work"
  /\ FailWith(w, kind)
  /\ UNCHANGED <<tableVars, lockVars, brokerVars, wjob, claimed, session,
                 reconcilerVars, faults>>

CloseSucceeded(j) ==
  /\ Close(j, "succeeded", "JOB_SUCCEEDED")
  /\ UNCHANGED due

\* A row that is not running raises "job became ineligible before success
\* transition", which the handler of unexpected exceptions catches.
Succeed(w) ==
  /\ wpc[w] = "succeed"
  /\ session[w]
  /\ IF state[wjob[w]] = "running"
     THEN /\ CloseSucceeded(wjob[w])
          /\ WorkerGoesTo(w, "release")
          /\ UNCHANGED failure
     ELSE /\ FailWith(w, "retryable")
          /\ UNCHANGED tableVars
  /\ UNCHANGED <<lockVars, brokerVars, wjob, claimed, session, reconcilerVars,
                 faults>>

\* The transaction outlasts command_timeout: the row is closed or it is not, the
\* worker believes that it is not, and runs the same handler.
SucceedTimesOut(w) ==
  /\ Fault
  /\ wpc[w] = "succeed"
  /\ session[w]
  /\ state[wjob[w]] = "running"
  /\ CloseSucceeded(wjob[w]) \/ UNCHANGED tableVars
  /\ FailWith(w, "retryable")
  /\ UNCHANGED <<lockVars, brokerVars, wjob, claimed, session, reconcilerVars>>

\* Mutant of CloseFailed: the last attempt is retried once more.
CloseFailedOffByOne(j, kind) ==
  \/ /\ kind = "owner-action"
     /\ Close(j, "blocked-owner-action", "OWNER_ACTION_REQUIRED")
     /\ UNCHANGED due
  \/ /\ kind = "retryable"
     /\ attempt[j] <= MaxAttempts
     /\ CloseForRetry(j)
  \/ /\ kind = "nonretryable" \/ (kind = "retryable" /\ attempt[j] > MaxAttempts)
     /\ CloseTerminal(j)

\* fail_on_connection on a running row.
CloseFailed(j, kind) ==
  \/ /\ kind = "owner-action"
     /\ Close(j, "blocked-owner-action", "OWNER_ACTION_REQUIRED")
     /\ UNCHANGED due
  \/ /\ kind = "retryable"
     /\ attempt[j] < MaxAttempts
     /\ CloseForRetry(j)
  \/ /\ kind = "nonretryable" \/ (kind = "retryable" /\ attempt[j] >= MaxAttempts)
     /\ CloseTerminal(j)

\* Mutant of Fail: the row is not asked whether it is still running.
FailUnchecked(w) ==
  /\ wpc[w] = "fail"
  /\ session[w]
  /\ CloseFailed(wjob[w], failure[w])
  /\ WorkerGoesTo(w, "release")
  /\ failure' = [failure EXCEPT ![w] = "none"]
  /\ UNCHANGED <<lockVars, brokerVars, wjob, claimed, session, reconcilerVars,
                 faults>>

Fail(w) ==
  /\ wpc[w] = "fail"
  /\ session[w]
  /\ state[wjob[w]] = "running"
  /\ CloseFailed(wjob[w], failure[w])
  /\ WorkerGoesTo(w, "release")
  /\ failure' = [failure EXCEPT ![w] = "none"]
  /\ UNCHANGED <<lockVars, brokerVars, wjob, claimed, session, reconcilerVars,
                 faults>>

\* "ineligible"
FailRefused(w) ==
  /\ wpc[w] = "fail"
  /\ session[w]
  /\ state[wjob[w]] # "running"
  /\ WorkerGoesTo(w, "release")
  /\ failure' = [failure EXCEPT ![w] = "none"]
  /\ UNCHANGED <<tableVars, lockVars, brokerVars, wjob, claimed, session,
                 reconcilerVars, faults>>

\* The finally block unlocks, closes the session, and the message is acknowledged.
Release(w) ==
  /\ wpc[w] = "release"
  /\ session[w]
  /\ Leave(w)
  /\ UNCHANGED <<tableVars, brokerVars, reconcilerVars, faults>>

\* The main session is lost; the worker does not know yet.
SessionLost(w) ==
  /\ Fault
  /\ wpc[w] # "idle"
  /\ session[w]
  /\ session' = [session EXCEPT ![w] = FALSE]
  /\ FreeLocksOf(w)
  /\ UNCHANGED <<tableVars, leader, brokerVars, wpc, wjob, claimed, failure,
                 reconcilerVars>>

\* The next statement on a lost session raises, in the handlers too; the task
\* ends with an exception, which Celery acknowledges.
SessionLossFound(w) ==
  /\ wpc[w] \in {"lock", "claim", "succeed", "fail", "release"}
  /\ ~session[w]
  /\ Leave(w)
  /\ UNCHANGED <<tableVars, brokerVars, reconcilerVars, faults>>

\* The process dies: its message is requeued (task_reject_on_worker_lost) or
\* is lost with the node.
WorkerCrash(w) ==
  /\ Fault
  /\ wpc[w] # "idle"
  /\ Leave(w)
  /\ Publish(wjob[w]) \/ UNCHANGED broker
  /\ UNCHANGED <<tableVars, publishing, reconcilerVars>>

-----------------------------------------------------------------------------
(* The reconciler: reconcile_once.                                         *)

ReconcilerGoesTo(r, place) == rpc' = [rpc EXCEPT ![r] = place]

Visited(r, j) == todo' = [todo EXCEPT ![r] = @ \ {j}]

\* Mutant of Lead: the answer of pg_try_advisory_lock is ignored.
LeadUnchecked(r) ==
  /\ rpc[r] = "idle"
  /\ leader' = r
  /\ rsession' = [rsession EXCEPT ![r] = TRUE]
  /\ ReconcilerGoesTo(r, "candidates")
  /\ UNCHANGED <<tableVars, lock, brokerVars, workerVars, rjob, todo, faults>>

Lead(r) ==
  /\ rpc[r] = "idle"
  /\ leader = None
  /\ leader' = r
  /\ rsession' = [rsession EXCEPT ![r] = TRUE]
  /\ ReconcilerGoesTo(r, "candidates")
  /\ UNCHANGED <<tableVars, lock, brokerVars, workerVars, rjob, todo, faults>>

FindCandidates(r) ==
  /\ rpc[r] = "candidates"
  /\ rsession[r]
  /\ todo' = [todo EXCEPT ![r] = {j \in Jobs : state[j] = "running"
                                               /\ lease[j] = "expired"}]
  /\ ReconcilerGoesTo(r, "recover")
  /\ UNCHANGED <<tableVars, lockVars, brokerVars, workerVars, rjob, rsession,
                 faults>>

\* Mutant of LockCandidate: the expired lease alone is trusted.
LockCandidateUnchecked(r, j) ==
  /\ rpc[r] = "recover"
  /\ rsession[r]
  /\ j \in todo[r]
  /\ lock' = [lock EXCEPT ![j] = r]
  /\ rjob' = [rjob EXCEPT ![r] = j]
  /\ ReconcilerGoesTo(r, "recovering")
  /\ UNCHANGED <<tableVars, leader, brokerVars, workerVars, todo, rsession,
                 faults>>

LockCandidate(r, j) ==
  /\ rpc[r] = "recover"
  /\ rsession[r]
  /\ j \in todo[r]
  /\ lock[j] = None
  /\ lock' = [lock EXCEPT ![j] = r]
  /\ rjob' = [rjob EXCEPT ![r] = j]
  /\ ReconcilerGoesTo(r, "recovering")
  /\ UNCHANGED <<tableVars, leader, brokerVars, workerVars, todo, rsession,
                 faults>>

\* The worker's session lives: the lease is left alone.
SkipCandidate(r, j) ==
  /\ rpc[r] = "recover"
  /\ rsession[r]
  /\ j \in todo[r]
  /\ lock[j] # None
  /\ Visited(r, j)
  /\ UNCHANGED <<tableVars, lockVars, brokerVars, workerVars, rpc, rjob,
                 rsession, faults>>

\* Mutant of CloseExpired: the lease is not read again under the lock.
CloseExpiredUnchecked(j) ==
  IF state[j] = "running"
  THEN IF attempt[j] >= MaxAttempts THEN CloseTerminal(j) ELSE CloseForRetry(j)
  ELSE UNCHANGED tableVars

\* The row as read again under the lock; then the finally block unlocks.
CloseExpired(j) ==
  IF state[j] = "running" /\ lease[j] = "expired"
  THEN IF attempt[j] >= MaxAttempts THEN CloseTerminal(j) ELSE CloseForRetry(j)
  ELSE UNCHANGED tableVars

Recover(r) ==
  /\ rpc[r] = "recovering"
  /\ rsession[r]
  /\ CloseExpired(rjob[r])
  /\ lock' = [lock EXCEPT ![rjob[r]] = None]
  /\ Visited(r, rjob[r])
  /\ rjob' = [rjob EXCEPT ![r] = None]
  /\ ReconcilerGoesTo(r, "recover")
  /\ UNCHANGED <<leader, brokerVars, workerVars, rsession, faults>>

\* A row is locked while a claim reads it; SKIP LOCKED passes it by.
Contended(j) == \E w \in Workers : wpc[w] = "claim" /\ wjob[w] = j /\ session[w]

DueRetries == {j \in Jobs : state[j] = "retrying" /\ "db" \in due[j]}

RequeueDue(r) ==
  /\ rpc[r] = "recover"
  /\ rsession[r]
  /\ todo[r] = {}
  /\ \E skipped \in SUBSET {j \in DueRetries : Contended(j)} :
       LET ready == DueRetries \ skipped IN
       /\ state' = [j \in Jobs |-> IF j \in ready THEN "queued" ELSE state[j]]
       /\ lease' = [j \in Jobs |-> IF j \in ready THEN "none" ELSE lease[j]]
       /\ aged' = [j \in Jobs |-> IF j \in ready THEN FALSE ELSE aged[j]]
       /\ todo' = [todo EXCEPT ![r] = ready]
  /\ ReconcilerGoesTo(r, "publish")
  /\ UNCHANGED <<attempt, due, events, lockVars, brokerVars, workerVars, rjob,
                 rsession, faults>>

\* Publishing needs Redis only: it goes on after the session is lost.
PublishDue(r, j) ==
  /\ rpc[r] = "publish"
  /\ j \in todo[r]
  /\ Publish(j)
  /\ Visited(r, j)
  /\ UNCHANGED <<tableVars, lockVars, publishing, workerVars, rpc, rjob,
                 rsession, faults>>

\* Mutant of FindOldQueued: the rows asked for are the retrying ones.
FindOldRetrying(r) ==
  /\ rpc[r] = "publish"
  /\ rsession[r]
  /\ todo[r] = {}
  /\ todo' = [todo EXCEPT ![r] = {j \in Jobs : state[j] = "retrying"
                                               /\ "db" \in due[j] /\ aged[j]}]
  /\ ReconcilerGoesTo(r, "redispatch")
  /\ UNCHANGED <<tableVars, lockVars, brokerVars, workerVars, rjob, rsession,
                 faults>>

FindOldQueued(r) ==
  /\ rpc[r] = "publish"
  /\ rsession[r]
  /\ todo[r] = {}
  /\ todo' = [todo EXCEPT ![r] = {j \in Jobs : state[j] = "queued"
                                               /\ "db" \in due[j] /\ aged[j]}]
  /\ ReconcilerGoesTo(r, "redispatch")
  /\ UNCHANGED <<tableVars, lockVars, brokerVars, workerVars, rjob, rsession,
                 faults>>

Redispatch(r, j) ==
  /\ rpc[r] = "redispatch"
  /\ j \in todo[r]
  /\ Publish(j)
  /\ rjob' = [rjob EXCEPT ![r] = j]
  /\ ReconcilerGoesTo(r, "touch")
  /\ UNCHANGED <<tableVars, lockVars, publishing, workerVars, todo, rsession,
                 faults>>

\* The throttle: updated_at is written if the row is still queued.
Touch(r) ==
  /\ rpc[r] = "touch"
  /\ rsession[r]
  /\ IF state[rjob[r]] = "queued" THEN Touched(rjob[r]) ELSE UNCHANGED aged
  /\ Visited(r, rjob[r])
  /\ rjob' = [rjob EXCEPT ![r] = None]
  /\ ReconcilerGoesTo(r, "redispatch")
  /\ UNCHANGED <<state, attempt, due, lease, events, lockVars, brokerVars,
                 workerVars, rsession, faults>>

\* The pass ends: the finally block unlocks and closes the session.
Retire(r) ==
  /\ ReconcilerGoesTo(r, "idle")
  /\ rjob' = [rjob EXCEPT ![r] = None]
  /\ todo' = [todo EXCEPT ![r] = {}]
  /\ rsession' = [rsession EXCEPT ![r] = FALSE]
  /\ FreeLocksOf(r)
  /\ leader' = IF leader = r THEN None ELSE leader

Finish(r) ==
  /\ rpc[r] = "redispatch"
  /\ rsession[r]
  /\ todo[r] = {}
  /\ Retire(r)
  /\ UNCHANGED <<tableVars, brokerVars, workerVars, faults>>

\* The database drops the session, and with it the leader lock and the lock of a
\* row; the reconciler stays where it is, while another may lead.
LeaderSessionLost(r) ==
  /\ Fault
  /\ rsession[r]
  /\ rsession' = [rsession EXCEPT ![r] = FALSE]
  /\ FreeLocksOf(r)
  /\ leader' = IF leader = r THEN None ELSE leader
  /\ UNCHANGED <<tableVars, brokerVars, workerVars, rpc, rjob, todo>>

\* What a reconciler does next is a publication, not a statement.
Publishes(r) == rpc[r] \in {"publish", "redispatch"} /\ todo[r] # {}

\* The next statement on a lost session raises, in the finally block too.
LeaderLossFound(r) ==
  /\ rpc[r] # "idle"
  /\ ~rsession[r]
  /\ ~Publishes(r)
  /\ Retire(r)
  /\ UNCHANGED <<tableVars, brokerVars, workerVars, faults>>

\* Redis refuses a publication, a statement fails or the process dies.
ReconcilerFails(r) ==
  /\ Fault
  /\ rpc[r] # "idle"
  /\ Retire(r)
  /\ UNCHANGED <<tableVars, brokerVars, workerVars>>

-----------------------------------------------------------------------------

Time == \E j \in Jobs : \/ ClockPasses(j, "db")
                        \/ ClockPasses(j, "worker")
                        \/ LeaseExpires(j)
                        \/ RowAges(j)

Api == \E j \in Jobs : \/ Enqueue(j)
                       \/ EnqueueAgain(j)
                       \/ ApiPublish(j)
                       \/ ApiPublishFails(j)

\* What ends a worker's work.
WorkEnds(w) == WorkReturns(w) \/ \E kind \in Failures : WorkRaises(w, kind)

\* A worker's own next step outside its work.
WorkerStep(w) ==
  \/ TryLock(w) \/ LockRefused(w)
  \/ Claim(w) \/ ClaimRefused(w)
  \/ Succeed(w)
  \/ Fail(w) \/ FailRefused(w)
  \/ Release(w) \/ SessionLossFound(w)

WorkerFault(w) ==
  \/ ClaimUnheard(w) \/ HeartbeatBreaks(w) \/ SucceedTimesOut(w)
  \/ SessionLost(w) \/ WorkerCrash(w) \/ BrokerRedeliver(w)

Worker(w) ==
  \/ \E j \in Jobs : Receive(w, j)
  \/ Heartbeat(w) \/ HeartbeatRejected(w)
  \/ WorkEnds(w) \/ WorkerStep(w) \/ WorkerFault(w)

ReconcilerStep(r) ==
  \/ Lead(r) \/ FindCandidates(r) \/ Recover(r) \/ RequeueDue(r)
  \/ FindOldQueued(r) \/ Touch(r) \/ Finish(r) \/ LeaderLossFound(r)
  \/ \E j \in Jobs : \/ LockCandidate(r, j) \/ SkipCandidate(r, j)
                     \/ PublishDue(r, j) \/ Redispatch(r, j)

ReconcilerFault(r) == ReconcilerFails(r) \/ LeaderSessionLost(r)

Next ==
  \/ Time \/ Api \/ BrokerFlush
  \/ \E w \in Workers : Worker(w)
  \/ \E r \in Reconcilers : ReconcilerStep(r) \/ ReconcilerFault(r)

Spec == Init /\ [][Next]_vars

\* Time passes; a worker goes on with its message and its work ends; a free
\* worker takes the oldest message; the reconciler's loop never stops.  Faults
\* and requests owe nothing.
Fairness ==
  /\ \A j \in Jobs :
       /\ WF_vars(ClockPasses(j, "db")) /\ WF_vars(ClockPasses(j, "worker"))
       /\ WF_vars(LeaseExpires(j)) /\ WF_vars(RowAges(j))
       /\ SF_vars(\E w \in Workers : Receive(w, j))
  /\ \A w \in Workers : WF_vars(WorkerStep(w)) /\ WF_vars(WorkEnds(w))
  /\ \A r \in Reconcilers : WF_vars(ReconcilerStep(r))

FairSpec == Spec /\ Fairness

-----------------------------------------------------------------------------
(* Properties.                                                             *)

\* Every variable has its type: the columns of the jobs and events tables
\* (durable_jobs.py), the lock holders, the broker, workers and reconcilers.
TypeOK ==
  /\ state \in [Jobs -> JobStates]
  /\ attempt \in [Jobs -> Nat]
  /\ due \in [Jobs -> SUBSET {"db", "worker"}]
  /\ lease \in [Jobs -> {"none", "live", "expired"}]
  /\ aged \in [Jobs -> BOOLEAN]
  /\ events \subseteq Jobs \X (Outcomes \cup {"ENQUEUED"}) \X Nat
  /\ lock \in [Jobs -> Workers \cup Reconcilers \cup {None}]
  /\ leader \in Reconcilers \cup {None}
  /\ publishing \subseteq Jobs
  /\ broker \in [Jobs -> 0 .. MaxMessages]
  /\ wpc \in [Workers -> WorkerPlaces]
  /\ wjob \in [Workers -> Jobs \cup {None}]
  /\ \A w \in Workers : wpc[w] # "idle" => wjob[w] \in Jobs
  /\ claimed \in [Workers -> Nat]
  /\ failure \in [Workers -> Failures \cup {"none"}]
  /\ session \in [Workers -> BOOLEAN]
  /\ rpc \in [Reconcilers -> ReconcilerPlaces]
  /\ rjob \in [Reconcilers -> Jobs \cup {None}]
  /\ \A r \in Reconcilers : rpc[r] \in {"recovering", "touch"} => rjob[r] \in Jobs
  /\ todo \in [Reconcilers -> SUBSET Jobs]
  /\ rsession \in [Reconcilers -> BOOLEAN]
  /\ faults \in 0 .. MaxFaults

\* While a worker's main session lives, the execution lock that it took before
\* its claim keeps everyone else off the row (execute_durable_job, _recover_expired):
\* the attempt it runs is the row's attempt and the row is still running,
\* or, if its own success commit timed out, succeeded by itself.
FencedByLock ==
  \A w \in Workers : session[w] =>
    LET j == wjob[w] IN
    /\ wpc[w] \in {"claim", "work", "succeed", "fail", "release"} => lock[j] = w
    /\ wpc[w] \in {"work", "succeed"} =>
         state[j] = "running" /\ attempt[j] = claimed[w]
    /\ wpc[w] = "fail" =>
         state[j] \in {"running", "succeeded"} /\ attempt[j] = claimed[w]

\* The claim never compares attempt with max_attempts (durable_jobs.py:141), so
\* nothing but the closers may keep it in bounds: a row that can still be
\* claimed has an attempt left.
AttemptsBounded ==
  \A j \in Jobs :
    /\ attempt[j] <= MaxAttempts
    /\ state[j] \in {"absent", "queued", "retrying"} => attempt[j] < MaxAttempts

\* The recovery query finds running rows by their lease: a running row always
\* has one, and no other row keeps one (the seven UPDATEs of jobs).
LeaseIffRunning ==
  \A j \in Jobs : state[j] = "running" <=> lease[j] # "none"

\* The outcome that closed the last attempt of a row in state s.
LastOutcome(s) ==
  CASE s \in {"queued", "retrying"}  -> "JOB_RETRY_SCHEDULED"
    [] s = "succeeded"               -> "JOB_SUCCEEDED"
    [] s = "failed-terminal"         -> "JOB_FAILED_TERMINAL"
    [] OTHER                         -> "OWNER_ACTION_REQUIRED"

StoryOf(j) ==
  IF state[j] = "absent" THEN {}
  ELSE {<<j, "ENQUEUED", 0>>}
       \cup {<<j, "JOB_RETRY_SCHEDULED", n>> : n \in 1 .. (attempt[j] - 1)}
       \cup (IF state[j] # "running" /\ attempt[j] > 0
             THEN {<<j, LastOutcome(state[j]), attempt[j]>>} ELSE {})

EventsOf(j) == {e \in events : e[1] = j}

\* The events table tells exactly the row's story (_insert_job_event): one outcome
\* for every closed attempt, all but the last a retry, the last the one that the
\* state names; no attempt is closed twice, unlogged, or logged unclosed.
EventsReplayTheRow == \A j \in Jobs : EventsOf(j) = StoryOf(j)

ClosedByItsHolder ==
  \A j \in Jobs :
    state[j] = "running" /\ state'[j] # "running" =>
      \/ \E w \in Workers : /\ lock[j] = w /\ session[w] /\ wjob[w] = j
                            /\ claimed[w] = attempt[j]
      \/ lock[j] \in Reconcilers /\ lease[j] = "expired"

\* A running row is closed by the worker that claimed this very attempt and
\* whose session still holds the lock, or, after the lease expired, by the
\* reconciler under the same lock: never by a worker of an earlier attempt
\* (succeed_on_connection, fail_on_connection, _recover_expired).
OnlyTheHolderCloses == [][ClosedByItsHolder]_vars

LeaderWrites ==
  \A r \in Reconcilers :
    /\ <<rpc[r], rjob[r], todo[r]>> # <<rpc[r], rjob[r], todo[r]>>'
    /\ tableVars # tableVars'
    => leader = r

\* A reconciler that lost its session, and with it the leader lock, stays inside
\* reconcile_once and goes on publishing while another leads; but every step of
\* a pass that writes the jobs or the events (_recover_expired, the requeue, the
\* touch) is a step of the one that holds the leader lock.
OnlyTheLeaderWrites == [][LeaderWrites]_vars

\* Whatever messages are lost, whoever dies: a recorded job is eventually
\* settled, once the faults stop.
EveryJobSettles ==
  \A j \in Jobs : state[j] = "queued" ~> state[j] \in Settled

\* "A single entity's versioned state transition must reject stale updates": a
\* heartbeat renews only the attempt that its worker claimed.
StaleHeartbeatRejected ==
  [][\A w \in Workers :
       Heartbeat(w) => claimed[w] = attempt[wjob[w]]]_<<lease, aged>>
=============================================================================
