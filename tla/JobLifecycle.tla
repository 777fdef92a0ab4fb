---------------------------- MODULE JobLifecycle ----------------------------
(***************************************************************************)
(* What a durable job promises, whoever runs it: the graph that the        *)
(* database guard honor_lifecycle_guard and the API's ALLOWED table admit, *)
(* restricted to the moves that the services make, together with the      *)
(* history of outcomes that the events table keeps.  An attempt is opened  *)
(* once and is closed by one outcome; the history grows by that outcome,   *)
(* at its end, and a finished job never moves again.                       *)
(***************************************************************************)
EXTENDS Naturals, Sequences

CONSTANTS Jobs, MaxAttempts

VARIABLES state,    \* state[j]: the job's generic state
          history   \* history[j]: the outcome of each closed attempt, in order

lifecycleVars == <<state, history>>

JobStates == {"absent", "queued", "running", "retrying",
              "blocked-owner-action", "failed-terminal", "succeeded", "cancelled"}

\* The edges of ALLOWED; a row is created "queued".
Allowed ==
  [s \in JobStates |->
     CASE s = "absent"   -> {"queued"}
       [] s = "queued"   -> {"running", "cancelled"}
       [] s = "running"  -> {"succeeded", "retrying", "blocked-owner-action",
                             "failed-terminal", "cancelled"}
       [] s = "retrying" -> {"queued", "failed-terminal", "cancelled"}
       [] s = "blocked-owner-action" -> {"queued", "cancelled"}
       [] OTHER -> {}]

Outcomes == {"JOB_SUCCEEDED", "JOB_RETRY_SCHEDULED", "JOB_FAILED_TERMINAL",
             "OWNER_ACTION_REQUIRED"}

\* The state that an outcome leaves the job in.
StateAfter(outcome) ==
  CASE outcome = "JOB_SUCCEEDED"         -> "succeeded"
    [] outcome = "JOB_RETRY_SCHEDULED"   -> "retrying"
    [] outcome = "JOB_FAILED_TERMINAL"   -> "failed-terminal"
    [] outcome = "OWNER_ACTION_REQUIRED" -> "blocked-owner-action"

\* assert_job_transition
Admitted(old, new) == new \in Allowed[old]

MoveTo(j, s) ==
  /\ Admitted(state[j], s)
  /\ state' = [state EXCEPT ![j] = s]

LInit ==
  /\ state = [j \in Jobs |-> "absent"]
  /\ history = [j \in Jobs |-> <<>>]

Create(j) ==
  /\ state[j] = "absent"
  /\ MoveTo(j, "queued")
  /\ UNCHANGED history

\* An attempt is opened only while one is left.
Open(j) ==
  /\ state[j] = "queued"
  /\ Len(history[j]) < MaxAttempts
  /\ MoveTo(j, "running")
  /\ UNCHANGED history

\* The open attempt is closed by one outcome; the last one is never retried.
Close(j, outcome) ==
  /\ state[j] = "running"
  /\ outcome = "JOB_RETRY_SCHEDULED" => Len(history[j]) + 1 < MaxAttempts
  /\ MoveTo(j, StateAfter(outcome))
  /\ history' = [history EXCEPT ![j] = Append(@, outcome)]

\* One transaction of the reconciler may requeue several jobs.
RequeueMany ==
  \E S \in SUBSET {j \in Jobs : state[j] = "retrying"} :
    /\ state' = [j \in Jobs |-> IF j \in S THEN "queued" ELSE state[j]]
    /\ UNCHANGED history

LNext ==
  \/ \E j \in Jobs : Create(j) \/ Open(j) \/ \E o \in Outcomes : Close(j, o)
  \/ RequeueMany

LSpec == LInit /\ [][LNext]_lifecycleVars
=============================================================================
