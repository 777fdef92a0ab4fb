------------------------- MODULE JobHeartbeatProofs -------------------------
(***************************************************************************)
(* Theorems of JobHeartbeat, for any number of attempts.  The invariant    *)
(* says what each place of the waiting coroutine knows of the two tasks:   *)
(* in particular that a renewal ends by itself only with an exception      *)
(* (Renewal), and that a result is the work's own or the renewal's         *)
(* failure, never the bare cancellation (Outcome).                         *)
(***************************************************************************)
EXTENDS JobHeartbeat, TLAPS

WorkPlaces == {"going", "cancelling"} \cup WorkEndings

\* Every variable has its type.
TypeOK ==
  /\ main \in {"waiting", "cancelling", "joining", "ended"}
  /\ work \in WorkPlaces
  /\ hb \in {"connecting", "sleeping", "renewing", "closing", "ended"}
  /\ hbExc \in {"none", "broken", "rejected"}
  /\ stop \in BOOLEAN
  /\ result \in {"none", "heartbeat", "unrecorded"} \cup WorkEndings
  /\ attempt \in 1 .. MaxAttempts
  /\ row \in {"running", "succeeded", "retrying", "blocked-owner-action",
              "failed-terminal", "abandoned"}
  /\ fenced \in BOOLEAN

\* The renewal carries an exception only when it ends, and ends without one only
\* when it is told to; it is told so in the finally block and nowhere else.
Renewal ==
  /\ hb \in {"connecting", "sleeping", "renewing"} => hbExc = "none"
  /\ hb \in {"closing", "ended"} /\ hbExc = "none" => stop
  /\ stop => main \in {"joining", "ended"}

\* What each place of run_with_job_heartbeat knows of the work and of the renewal.
Places ==
  /\ main = "waiting" => work \in {"going"} \cup (WorkEndings \ {"cancelled"})
  /\ main = "cancelling" => HbDone /\ work # "going"
  /\ main = "joining" => WorkDone
  /\ main = "ended" => WorkDone /\ HbDone

\* What it is going to return or raise.
Outcome ==
  /\ main = "joining" => result = work /\ work # "cancelled"
  /\ main = "ended" =>
       \/ result = "heartbeat" /\ hbExc # "none"
       \/ result = work /\ work # "cancelled" /\ (work = "returned" => hbExc = "none")
       \/ result = "unrecorded" /\ work = "returned" /\ hbExc = "none"

\* What execute_durable_job writes of it.
Settled ==
  /\ row # "running" => main = "ended"
  /\ row = "succeeded" => result \in {"returned", "unrecorded"}
  /\ row \notin {"running", "abandoned", "succeeded"} =>
       result # "returned" /\ row = RowFor(result)

Inv == TypeOK /\ Renewal /\ Places /\ Outcome /\ Settled

-----------------------------------------------------------------------------

\* Which results lead to which row.
LEMMA RowForCases ==
  ASSUME NEW r
  PROVE  /\ RowFor(r) \in {"blocked-owner-action", "retrying", "failed-terminal"}
         /\ RowFor(r) = "retrying" =>
              r \notin {"owner-action", "nonretryable"} /\ attempt < MaxAttempts
         /\ RowFor(r) = "failed-terminal" =>
              r = "nonretryable" \/ ~(attempt < MaxAttempts)
<1>1. CASE r = "owner-action"
  BY <1>1 DEF RowFor
<1>2. CASE r = "nonretryable"
  BY <1>2 DEF RowFor
<1>3. CASE r \notin {"owner-action", "nonretryable"}
  <2>1. RowFor(r) = IF attempt < MaxAttempts THEN "retrying" ELSE "failed-terminal"
    BY <1>3 DEF RowFor
  <2> QED BY <1>3, <2>1
<1> QED BY <1>1, <1>2, <1>3

\* It holds when an attempt begins.
LEMMA InitInv == Init => Inv
<1> SUFFICES ASSUME Init PROVE Inv
  OBVIOUS
<1>1. TypeOK
  <2>1. attempt \in 1 .. MaxAttempts
    BY MaxAttemptsAssumption DEF Init
  <2>2. stop \in BOOLEAN /\ fenced \in BOOLEAN
    BY DEF Init
  <2>3. /\ main \in {"waiting", "cancelling", "joining", "ended"}
        /\ work \in WorkPlaces
        /\ hb \in {"connecting", "sleeping", "renewing", "closing", "ended"}
        /\ hbExc \in {"none", "broken", "rejected"}
        /\ result \in {"none", "heartbeat", "unrecorded"} \cup WorkEndings
        /\ row \in {"running", "succeeded", "retrying", "blocked-owner-action",
                    "failed-terminal", "abandoned"}
    BY DEF Init, WorkPlaces
  <2> QED BY <2>1, <2>2, <2>3 DEF TypeOK
<1>2. Renewal /\ Places /\ Outcome /\ Settled
  BY DEF Init, Renewal, Places, Outcome, Settled
<1> QED BY <1>1, <1>2 DEF Inv

WorkStep == WorkEnds \/ WorkStops
JobStep == Settle \/ NextAttempt \/ FenceLost

\* The renewal moves.
LEMMA HbStepInv == ASSUME Inv, HbStep PROVE Inv'
<1> USE DEF WorkEndings, WorkErrors, WorkPlaces, WorkDone, HbDone
<1>1. CASE HbConnect
  <2>1. TypeOK'
    BY <1>1 DEF HbConnect, HbGoesTo, HbUnchanged, Inv, TypeOK, Renewal, Places,
       Settled
  <2>2. Renewal' /\ Places'
    BY <1>1 DEF HbConnect, HbGoesTo, HbUnchanged, Inv, TypeOK, Renewal, Places,
       Settled
  <2>3. Outcome'
    BY <1>1 DEF HbConnect, HbGoesTo, HbUnchanged, Inv, TypeOK, Renewal, Places,
       Outcome, Settled
  <2>4. Settled'
    BY <1>1 DEF HbConnect, HbGoesTo, HbUnchanged, Inv, TypeOK, Places, Settled,
       RowFor
  <2> QED BY <2>1, <2>2, <2>3, <2>4 DEF Inv
<1>2. CASE HbWake
  <2>1. TypeOK'
    BY <1>2 DEF HbWake, HbGoesTo, HbUnchanged, Inv, TypeOK, Renewal, Places,
       Settled
  <2>2. Renewal' /\ Places'
    BY <1>2 DEF HbWake, HbGoesTo, HbUnchanged, Inv, TypeOK, Renewal, Places,
       Settled
  <2>3. Outcome'
    BY <1>2 DEF HbWake, HbGoesTo, HbUnchanged, Inv, TypeOK, Renewal, Places,
       Outcome, Settled
  <2>4. Settled'
    BY <1>2 DEF HbWake, HbGoesTo, HbUnchanged, Inv, TypeOK, Places, Settled,
       RowFor
  <2> QED BY <2>1, <2>2, <2>3, <2>4 DEF Inv
<1>3. CASE HbRenew
  <2>1. TypeOK'
    BY <1>3 DEF HbRenew, HbGoesTo, HbUnchanged, Inv, TypeOK, Renewal, Places,
       Settled
  <2>2. Renewal' /\ Places'
    BY <1>3 DEF HbRenew, HbGoesTo, HbUnchanged, Inv, TypeOK, Renewal, Places,
       Settled
  <2>3. Outcome'
    BY <1>3 DEF HbRenew, HbGoesTo, HbUnchanged, Inv, TypeOK, Renewal, Places,
       Outcome, Settled
  <2>4. Settled'
    BY <1>3 DEF HbRenew, HbGoesTo, HbUnchanged, Inv, TypeOK, Places, Settled,
       RowFor
  <2> QED BY <2>1, <2>2, <2>3, <2>4 DEF Inv
<1>4. CASE HbClose
  <2>1. TypeOK'
    BY <1>4 DEF HbClose, HbGoesTo, HbUnchanged, Inv, TypeOK, Renewal, Places,
       Settled
  <2>2. Renewal' /\ Places'
    BY <1>4 DEF HbClose, HbGoesTo, HbUnchanged, Inv, TypeOK, Renewal, Places,
       Settled
  <2>3. Outcome'
    BY <1>4 DEF HbClose, HbGoesTo, HbUnchanged, Inv, TypeOK, Renewal, Places,
       Outcome, Settled
  <2>4. Settled'
    BY <1>4 DEF HbClose, HbGoesTo, HbUnchanged, Inv, TypeOK, Places, Settled,
       RowFor
  <2> QED BY <2>1, <2>2, <2>3, <2>4 DEF Inv
<1> QED BY <1>1, <1>2, <1>3, <1>4 DEF HbStep

\* The coroutine that waits for the first task to end, and then for the other.
LEMMA MainStepInv == ASSUME Inv, MainStep PROVE Inv'
<1> USE DEF WorkEndings, WorkErrors, WorkPlaces, WorkDone, HbDone
<1>1. CASE WakeForHeartbeat
  <2>1. TypeOK'
    BY <1>1 DEF WakeForHeartbeat, EnterFinally, MainUnchanged, Inv, TypeOK,
       Renewal, Places, Settled
  <2>2. Renewal' /\ Places'
    BY <1>1 DEF WakeForHeartbeat, EnterFinally, MainUnchanged, Inv, TypeOK,
       Renewal, Places, Settled
  <2>3. Outcome'
    BY <1>1 DEF WakeForHeartbeat, EnterFinally, MainUnchanged, Inv, TypeOK,
       Renewal, Places, Outcome, Settled
  <2>4. Settled'
    BY <1>1 DEF WakeForHeartbeat, EnterFinally, MainUnchanged, Inv, TypeOK,
       Places, Settled, RowFor
  <2> QED BY <2>1, <2>2, <2>3, <2>4 DEF Inv
<1>2. CASE WakeForWork
  <2>1. TypeOK'
    BY <1>2 DEF WakeForWork, EnterFinally, MainUnchanged, Inv, TypeOK, Renewal,
       Places, Settled
  <2>2. Renewal' /\ Places'
    BY <1>2 DEF WakeForWork, EnterFinally, MainUnchanged, Inv, TypeOK, Renewal,
       Places, Settled
  <2>3. Outcome'
    BY <1>2 DEF WakeForWork, EnterFinally, MainUnchanged, Inv, TypeOK, Renewal,
       Places, Outcome, Settled
  <2>4. Settled'
    BY <1>2 DEF WakeForWork, EnterFinally, MainUnchanged, Inv, TypeOK, Places,
       Settled, RowFor
  <2> QED BY <2>1, <2>2, <2>3, <2>4 DEF Inv
<1>3. CASE CancelledWorkJoined
  <2>1. TypeOK'
    BY <1>3 DEF CancelledWorkJoined, EnterFinally, MainUnchanged, Inv, TypeOK,
       Renewal, Places, Settled
  <2>2. Renewal' /\ Places'
    BY <1>3 DEF CancelledWorkJoined, EnterFinally, MainUnchanged, Inv, TypeOK,
       Renewal, Places, Settled
  <2>3. Outcome'
    BY <1>3 DEF CancelledWorkJoined, EnterFinally, MainUnchanged, Inv, TypeOK,
       Renewal, Places, Outcome, Settled
  <2>4. Settled'
    BY <1>3 DEF CancelledWorkJoined, EnterFinally, MainUnchanged, Inv, TypeOK,
       Places, Settled, RowFor
  <2> QED BY <2>1, <2>2, <2>3, <2>4 DEF Inv
<1>4. CASE HeartbeatJoined
  <2>1. TypeOK'
    BY <1>4 DEF HeartbeatJoined, EnterFinally, MainUnchanged, Inv, TypeOK,
       Renewal, Places, Settled
  <2>2. Renewal' /\ Places'
    BY <1>4 DEF HeartbeatJoined, EnterFinally, MainUnchanged, Inv, TypeOK,
       Renewal, Places, Settled
  <2>3. Outcome'
    BY <1>4 DEF HeartbeatJoined, EnterFinally, MainUnchanged, Inv, TypeOK,
       Renewal, Places, Outcome, Settled
  <2>4. Settled'
    BY <1>4 DEF HeartbeatJoined, EnterFinally, MainUnchanged, Inv, TypeOK,
       Places, Settled, RowFor
  <2> QED BY <2>1, <2>2, <2>3, <2>4 DEF Inv
<1> QED BY <1>1, <1>2, <1>3, <1>4 DEF MainStep

\* The work ends, by itself or because it is told to stop.
LEMMA WorkStepInv == ASSUME Inv, WorkStep PROVE Inv'
<1> USE DEF WorkEndings, WorkErrors, WorkPlaces, WorkDone, HbDone
<1>1. CASE WorkEnds
  <2>1. TypeOK'
    BY <1>1 DEF WorkEnds, WorkEndsWith, Inv, TypeOK, Renewal, Places, Settled
  <2>2. Renewal' /\ Places'
    BY <1>1 DEF WorkEnds, WorkEndsWith, Inv, TypeOK, Renewal, Places, Settled
  <2>3. Outcome'
    BY <1>1 DEF WorkEnds, WorkEndsWith, Inv, TypeOK, Renewal, Places, Outcome,
       Settled
  <2>4. Settled'
    BY <1>1 DEF WorkEnds, WorkEndsWith, Inv, TypeOK, Places, Settled, RowFor
  <2> QED BY <2>1, <2>2, <2>3, <2>4 DEF Inv
<1>2. CASE WorkStops
  <2>1. TypeOK'
    BY <1>2 DEF WorkStops, WorkEndsWith, Inv, TypeOK, Renewal, Places, Settled
  <2>2. Renewal' /\ Places'
    BY <1>2 DEF WorkStops, WorkEndsWith, Inv, TypeOK, Renewal, Places, Settled
  <2>3. Outcome'
    BY <1>2 DEF WorkStops, WorkEndsWith, Inv, TypeOK, Renewal, Places, Outcome,
       Settled
  <2>4. Settled'
    BY <1>2 DEF WorkStops, WorkEndsWith, Inv, TypeOK, Places, Settled, RowFor
  <2> QED BY <2>1, <2>2, <2>3, <2>4 DEF Inv
<1> QED BY <1>1, <1>2 DEF WorkStep

\* The attempt is settled, the next one begins, or the fence is lost.
LEMMA JobStepInv == ASSUME Inv, JobStep PROVE Inv'
<1> USE DEF WorkEndings, WorkErrors, WorkPlaces, WorkDone, HbDone
<1>1. CASE Settle
  <2>1. /\ main = "ended" /\ row = "running"
        /\ UNCHANGED <<main, work, hb, hbExc, stop, attempt, fenced>>
    BY <1>1 DEF Settle, Succeed, SucceedFails, Fail, Abandon, Settling
  <2>2. \/ /\ result = "returned" /\ result' = result /\ row' = "succeeded"
        \/ /\ result = "returned" /\ result' = "unrecorded"
           /\ row' \in {"running", "succeeded"}
        \/ /\ result # "returned" /\ result' = result /\ row' = RowFor(result)
        \/ /\ result' = result /\ row' = "abandoned"
    BY <1>1 DEF Settle, Succeed, SucceedFails, Fail, Abandon, Settling
  <2>3. /\ result' \in {"none", "heartbeat", "unrecorded"} \cup WorkEndings
        /\ row' \in {"running", "succeeded", "retrying", "blocked-owner-action",
                      "failed-terminal", "abandoned"}
    BY <2>2, RowForCases DEF Inv, TypeOK
  <2>4. TypeOK'
    <3>1. stop' \in BOOLEAN /\ fenced' \in BOOLEAN
      BY <2>1 DEF Inv, TypeOK
    <3> QED BY <2>1, <2>3, <3>1 DEF Inv, TypeOK
  <2>5. Renewal' /\ Places'
    BY <2>1 DEF Inv, Renewal, Places
  <2>6. Outcome'
    BY <2>1, <2>2 DEF Inv, Outcome
  <2>7. Settled'
    <3>1. RowFor(result)' = RowFor(result')
      BY <2>1 DEF RowFor
    <3> QED BY <2>1, <2>2, <3>1, RowForCases DEF Settled
  <2> QED BY <2>4, <2>5, <2>6, <2>7 DEF Inv
<1>2. CASE NextAttempt
  <2>1. /\ main' = "waiting" /\ work' = "going" /\ hb' = "connecting" /\ hbExc' = "none"
        /\ result' = "none" /\ row' = "running" /\ attempt' = attempt + 1
        /\ stop' = FALSE /\ fenced' = TRUE
    BY <1>2 DEF NextAttempt, HbGoesTo
  <2>2. attempt + 1 \in 1 .. MaxAttempts
    <3>1. attempt < MaxAttempts
      BY <1>2, RowForCases DEF NextAttempt, Inv, Settled
    <3> QED BY <3>1, MaxAttemptsAssumption DEF Inv, TypeOK
  <2>3. TypeOK'
    <3>1. stop' \in BOOLEAN /\ fenced' \in BOOLEAN
      BY <2>1
    <3> QED BY <2>1, <2>2, <3>1 DEF TypeOK
  <2>4. Renewal' /\ Places'
    BY <2>1 DEF Renewal, Places
  <2>5. Outcome' /\ Settled'
    BY <2>1 DEF Outcome, Settled
  <2> QED BY <2>3, <2>4, <2>5 DEF Inv
<1>3. CASE FenceLost
  <2>1. /\ UNCHANGED <<main, work, hb, hbExc, stop, result, attempt, row>>
        /\ fenced' \in BOOLEAN
    BY <1>3 DEF FenceLost
  <2>2. TypeOK'
    BY <2>1 DEF Inv, TypeOK
  <2>3. Renewal' /\ Places' /\ Outcome'
    BY <2>1 DEF Inv, Renewal, Places, Outcome
  <2>4. Settled'
    BY <2>1 DEF Inv, Settled, RowFor
  <2> QED BY <2>2, <2>3, <2>4 DEF Inv
<1> QED BY <1>1, <1>2, <1>3 DEF JobStep

\* Inv is inductive.
LEMMA NextInv == Inv /\ [Next]_vars => Inv'
<1>1. CASE UNCHANGED vars
  BY <1>1 DEF vars, Inv, TypeOK, Renewal, Places, Outcome, Settled, WorkDone,
     HbDone, RowFor
<1>2. Next => HbStep \/ MainStep \/ WorkStep \/ JobStep
  BY DEF Next, WorkStep, JobStep
<1> QED BY <1>1, <1>2, HbStepInv, MainStepInv, WorkStepInv, JobStepInv

\* What the waiting coroutine knows of its two tasks is true, in every state.
THEOREM Invariance == Spec => []Inv
  BY InitInv, NextInv, PTL DEF Spec

-----------------------------------------------------------------------------
(* Theorems.                                                               *)

\* run_with_job_heartbeat leaves no task behind, whichever of the two ended first
\* and however.
THEOREM NothingLeftBehind == Spec => []NoTaskLeftBehind
<1>1. Inv => NoTaskLeftBehind
  BY DEF Inv, Places, NoTaskLeftBehind
<1> QED BY <1>1, Invariance, PTL

\* A job is recorded as succeeded only if its work returned under an unbroken lease.
THEOREM SuccessIsLeased == Spec => []SuccessHasItsLease
<1>1. Inv => SuccessHasItsLease
  <2> SUFFICES ASSUME Inv, row = "succeeded" PROVE work = "returned" /\ hbExc = "none"
    BY DEF SuccessHasItsLease
  <2>1. result \in {"returned", "unrecorded"} /\ main = "ended" /\ work # "unrecorded"
    BY DEF Inv, Settled, Places, WorkDone, WorkEndings, WorkErrors
  <2> QED BY <2>1 DEF Inv, Outcome
<1> QED BY <1>1, Invariance, PTL

\* A timed retry, and a failure for good before the last attempt, have the cause that
\* the except clauses of execute_durable_job are meant for; work that returned is
\* retried only because its success could not be recorded, work that was
\* cancelled only because the renewal failed.
THEOREM RetryIsCaused == Spec => []RetryHasACause
<1>1. Inv => RetryHasACause
  <2> SUFFICES ASSUME Inv PROVE RetryHasACause
    OBVIOUS
  <2>1. CASE row = "retrying"
    <3>1. /\ result \notin {"returned", "owner-action", "nonretryable"}
          /\ main = "ended" /\ work \in WorkEndings
      BY <2>1, RowForCases DEF Inv, Settled, Places, WorkDone
    <3>2. CASE result = "heartbeat" /\ hbExc # "none"
      BY <2>1, <3>2 DEF RetryHasACause
    <3>3. CASE result = work /\ work # "cancelled"
      BY <2>1, <3>1, <3>3 DEF WorkEndings, WorkErrors, RetryHasACause
    <3>4. CASE result = "unrecorded" /\ work = "returned"
      BY <2>1, <3>4 DEF RetryHasACause
    <3> QED BY <3>1, <3>2, <3>3, <3>4 DEF Inv, Outcome
  <2>2. CASE row = "failed-terminal" /\ attempt < MaxAttempts
    <3>1. result = "nonretryable" /\ main = "ended"
      BY <2>2, RowForCases DEF Inv, Settled, TypeOK
    <3> QED BY <2>2, <3>1 DEF Inv, Outcome, RetryHasACause
  <2> QED BY <2>1, <2>2 DEF RetryHasACause
<1> QED BY <1>1, Invariance, PTL
=============================================================================
