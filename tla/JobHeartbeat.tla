---------------------------- MODULE JobHeartbeat ----------------------------
(***************************************************************************)
(* Inside one worker: the two asyncio tasks of run_with_job_heartbeat, the *)
(* work and the lease renewal, the coroutine that waits for the first of   *)
(* them and reconciles their endings, and what execute_durable_job does    *)
(* with the result.  The event loop switches tasks only at an await, so    *)
(* what lies between two awaits is one action.                             *)
(***************************************************************************)
EXTENDS Naturals

CONSTANT MaxAttempts

ASSUME MaxAttemptsAssumption == MaxAttempts \in Nat \ {0}

VARIABLES main,     \* where run_with_job_heartbeat is
          work,     \* the work task: going on, told to stop, or how it ended
          hb,       \* where the heartbeat task is
          hbExc,    \* the exception it carries
          stop,     \* the stop event
          result,   \* what run_with_job_heartbeat, or the success transaction
                    \* after it, returns or raises
          attempt,  \* the attempt that runs
          row,      \* what the job row says when the attempt is settled
          fenced    \* the main session still holds the job's lock

vars == <<main, work, hb, hbExc, stop, result, attempt, row, fenced>>

WorkErrors == {"retryable", "nonretryable", "owner-action"}
WorkEndings == {"returned", "cancelled"} \cup WorkErrors

WorkDone == work \in WorkEndings
HbDone == hb = "ended"

Init ==
  /\ main = "waiting"
  /\ work = "going"
  /\ hb = "connecting"
  /\ hbExc = "none"
  /\ stop = FALSE
  /\ result = "none"
  /\ attempt = 1
  /\ row = "running"
  /\ fenced = TRUE

-----------------------------------------------------------------------------
(* The heartbeat task: _heartbeat_loop.                                    *)

HbGoesTo(place, exc) == hb' = place /\ hbExc' = exc

HbUnchanged == UNCHANGED <<main, work, stop, result, attempt, row, fenced>>

HbConnect ==
  /\ hb = "connecting"
  /\ HbGoesTo("sleeping", "none") \/ HbGoesTo("ended", "broken")
  /\ HbUnchanged

\* The interval passes, or the stop event ends the loop.
HbWake ==
  /\ hb = "sleeping"
  /\ \/ stop /\ HbGoesTo("closing", "none")
     \/ ~stop /\ HbGoesTo("renewing", "none")
  /\ HbUnchanged

\* Under the fence the row is this attempt's and running, so the renewal is
\* accepted (DurableJobs, FencedByLock); without it the row is anybody's.
HbRenew ==
  /\ hb = "renewing"
  /\ \/ HbGoesTo("sleeping", "none")
     \/ ~fenced /\ HbGoesTo("closing", "rejected")
     \/ HbGoesTo("closing", "broken")
  /\ HbUnchanged

\* The finally block closes the session; close itself may raise.
HbClose ==
  /\ hb = "closing"
  /\ HbGoesTo("ended", hbExc) \/ HbGoesTo("ended", "broken")
  /\ HbUnchanged

-----------------------------------------------------------------------------
(* The work task.                                                          *)

WorkEndsWith(ending) ==
  /\ work' = ending
  /\ UNCHANGED <<main, hb, hbExc, stop, result, attempt, row, fenced>>

WorkEnds == work = "going" /\ \E e \in WorkEndings \ {"cancelled"} : WorkEndsWith(e)

\* Work that is told to stop usually stops, but its cleanup may still return
\* or raise something of its own.
WorkStops == work = "cancelling" /\ \E e \in WorkEndings : WorkEndsWith(e)

-----------------------------------------------------------------------------
(* run_with_job_heartbeat.                                                 *)

\* Mutant of EnterFinally: the heartbeat task is told to stop and forgotten.
EnterFinallyNoJoin(pending) ==
  /\ stop' = TRUE
  /\ main' = "ended"
  /\ result' = IF hbExc # "none" /\ work = "returned" THEN "heartbeat" ELSE pending

\* The finally block, entered with `pending` as the result so far: set stop; a
\* heartbeat that has not ended is awaited, one that has ended with an
\* exception spoils a success.
EnterFinally(pending) ==
  /\ stop' = TRUE
  /\ IF ~HbDone
     THEN main' = "joining" /\ result' = pending
     ELSE /\ main' = "ended"
          /\ result' = IF hbExc # "none" /\ work = "returned"
                       THEN "heartbeat" ELSE pending

MainUnchanged == UNCHANGED <<hb, hbExc, attempt, row, fenced>>

\* The first task to end is the heartbeat: the work is cancelled and awaited.
\* Mutant of WakeForHeartbeat: the work is awaited, but not cancelled.
WakeForHeartbeatNoCancel ==
  /\ main = "waiting"
  /\ HbDone /\ ~WorkDone
  /\ main' = "cancelling"
  /\ UNCHANGED <<work, stop, result>>
  /\ MainUnchanged

WakeForHeartbeat ==
  /\ main = "waiting"
  /\ HbDone /\ ~WorkDone
  /\ main' = "cancelling"
  /\ work' = "cancelling"
  /\ UNCHANGED <<stop, result>>
  /\ MainUnchanged

WakeForWork ==
  /\ main = "waiting"
  /\ WorkDone
  /\ EnterFinally(work)
  /\ UNCHANGED work
  /\ MainUnchanged

\* An error of the cancelled work propagates; otherwise JobHeartbeatError.
CancelledWorkJoined ==
  /\ main = "cancelling"
  /\ WorkDone
  /\ EnterFinally(IF work \in WorkErrors THEN work ELSE "heartbeat")
  /\ UNCHANGED work
  /\ MainUnchanged

\* Mutant of HeartbeatJoined: an exception of the heartbeat is swallowed.
HeartbeatJoinedQuietly ==
  /\ main = "joining"
  /\ HbDone
  /\ main' = "ended"
  /\ UNCHANGED <<work, stop, result>>
  /\ MainUnchanged

\* `await heartbeat_task` in the finally block: its exception replaces the
\* exception or the result that was on its way.
HeartbeatJoined ==
  /\ main = "joining"
  /\ HbDone
  /\ main' = "ended"
  /\ result' = IF hbExc # "none" THEN "heartbeat" ELSE result
  /\ UNCHANGED <<work, stop>>
  /\ MainUnchanged

-----------------------------------------------------------------------------
(* execute_durable_job.                                                    *)

\* Mutant of RowFor: `except Exception` comes before NonRetryableJobError.
RowForRetryFirst(r) ==
  CASE r = "owner-action" -> "blocked-owner-action"
    [] OTHER -> IF attempt < MaxAttempts THEN "retrying" ELSE "failed-terminal"

\* The except clauses: everything that is neither an owner action nor
\* non-retryable is retried while an attempt is left.
RowFor(r) ==
  CASE r = "owner-action" -> "blocked-owner-action"
    [] r = "nonretryable" -> "failed-terminal"
    [] OTHER -> IF attempt < MaxAttempts THEN "retrying" ELSE "failed-terminal"

\* The attempt is over and nothing is written of it yet, on a session that lives.
Settling == main = "ended" /\ row = "running" /\ fenced

\* Under the fence the row is running, so the transition does not return false.
Succeed ==
  /\ Settling
  /\ result = "returned"
  /\ row' = "succeeded"
  /\ UNCHANGED <<main, work, hb, hbExc, stop, result, attempt, fenced>>

\* The success transaction raises or outlasts its time limit, committed or not,
\* and `except Exception` takes what was raised for a failure of the work.
SucceedFails ==
  /\ Settling
  /\ result = "returned"
  /\ result' = "unrecorded"
  /\ row' \in {"running", "succeeded"}
  /\ UNCHANGED <<main, work, hb, hbExc, stop, attempt, fenced>>

\* A row that has succeeded after all is "ineligible", and left as it is.
Fail ==
  /\ Settling
  /\ result # "returned"
  /\ row' = RowFor(result)
  /\ UNCHANGED <<main, work, hb, hbExc, stop, result, attempt, fenced>>

\* On a lost session nothing can be written, and nobody catches what the
\* failure transaction raises: the row is left to the reconciler.
Abandon ==
  /\ main = "ended"
  /\ row = "running"
  /\ ~fenced \/ result # "returned"
  /\ row' = "abandoned"
  /\ UNCHANGED <<main, work, hb, hbExc, stop, result, attempt, fenced>>

\* The delay passes and a worker claims the job again: two new tasks.
NextAttempt ==
  /\ row = "retrying"
  /\ attempt' = attempt + 1
  /\ main' = "waiting"
  /\ work' = "going"
  /\ HbGoesTo("connecting", "none")
  /\ stop' = FALSE
  /\ result' = "none"
  /\ row' = "running"
  /\ fenced' = TRUE

\* The main session is lost, and with it the job's lock.
FenceLost ==
  /\ row = "running"
  /\ fenced
  /\ fenced' = FALSE
  /\ UNCHANGED <<main, work, hb, hbExc, stop, result, attempt, row>>

HbStep == HbConnect \/ HbWake \/ HbRenew \/ HbClose
MainStep == WakeForHeartbeat \/ WakeForWork \/ CancelledWorkJoined \/ HeartbeatJoined

Settle == Succeed \/ SucceedFails \/ Fail \/ Abandon

Next == \/ HbStep \/ MainStep \/ Settle
        \/ WorkEnds \/ WorkStops
        \/ NextAttempt \/ FenceLost

Spec == Init /\ [][Next]_vars

\* The event loop runs every task that can run, and cancelled work stops; the
\* work itself may take for ever.
FairSpec == /\ Spec
            /\ WF_vars(HbStep) /\ WF_vars(MainStep) /\ WF_vars(WorkStops)

-----------------------------------------------------------------------------
(* Properties.                                                             *)

\* run_with_job_heartbeat leaves no task behind: when it returns or raises, the
\* work has ended and so has the renewal, with its session closed.
NoTaskLeftBehind == main = "ended" => HbDone /\ WorkDone

\* A job is recorded as succeeded only if its work returned and no renewal was
\* rejected or broken while it ran, however the two endings interleave.
SuccessHasItsLease == row = "succeeded" => work = "returned" /\ hbExc = "none"

\* A timed retry has a cause that a retry can cure: the work said so, the
\* renewal failed, or the work returned and its success could not be recorded;
\* and a job fails for good before its last attempt only if the work said that it
\* is hopeless (the except clauses of execute_durable_job, over every ending of
\* run_with_job_heartbeat).
RetryHasACause ==
  /\ row = "retrying" =>
       \/ work = "retryable" \/ hbExc # "none"
       \/ work = "returned" /\ result = "unrecorded"
  /\ row = "failed-terminal" /\ attempt < MaxAttempts => work = "nonretryable"

\* When the renewal fails, the attempt ends, even if the work would go on.
LostLeaseEndsTheAttempt == hbExc # "none" ~> main = "ended"

\* "Rights/rule unknown: no timed retry; blocked-owner-action": work that asked
\* for the owner's action is not retried on a timer.
OwnerActionNeverRetried == row = "retrying" => work # "owner-action"
=============================================================================
