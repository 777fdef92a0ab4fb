-------------------------- MODULE DurableJobsProofs --------------------------
(***************************************************************************)
(* Proofs about DurableJobs, for any sets of jobs, workers and             *)
(* reconcilers and any values of the bounds.                               *)
(*                                                                         *)
(* TypeStep and FenceStep go through Next action by action.  All that the  *)
(* other invariants need to know of a step is in TableSteps: whatever      *)
(* happens, each row is kept, enqueued, claimed, closed or requeued, and   *)
(* only requeueing moves several; the inductive steps on attempts, leases  *)
(* and events, and the refinement of JobLifecycle, are about these five    *)
(* cases only.                                                             *)
(***************************************************************************)
EXTENDS DurableJobsRefinement, FiniteSetTheorems, SequenceTheorems, TLAPS

\* The transaction that ends an attempt writes columns and events of their types.
LEMMA CloseTyped ==
  ASSUME TypeOK, NEW j \in Jobs, NEW newState \in JobStates,
         NEW outcome \in Outcomes, Close(j, newState, outcome)
  PROVE  /\ state' \in [Jobs -> JobStates]
         /\ attempt' \in [Jobs -> Nat]
         /\ lease' \in [Jobs -> {"none", "live", "expired"}]
         /\ aged' \in [Jobs -> BOOLEAN]
         /\ events' \subseteq Jobs \X (Outcomes \cup {"ENQUEUED"}) \X Nat
<1>1. <<j, outcome, attempt[j]>> \in Jobs \X (Outcomes \cup {"ENQUEUED"}) \X Nat
  BY DEF TypeOK
<1>2. QED
  BY <1>1 DEF Close, Touched, TypeOK

\* The requeue transaction moves some of the retrying rows, whichever rows
\* SKIP LOCKED passes by, and remembers them for the publish that follows.
LEMMA RequeuedRows ==
  ASSUME NEW r \in Reconcilers, RequeueDue(r)
  PROVE  \E ready \in SUBSET {j \in Jobs : state[j] = "retrying"} :
           /\ state' = [j \in Jobs |-> IF j \in ready THEN "queued" ELSE state[j]]
           /\ lease' = [j \in Jobs |-> IF j \in ready THEN "none" ELSE lease[j]]
           /\ aged' = [j \in Jobs |-> IF j \in ready THEN FALSE ELSE aged[j]]
           /\ todo' = [todo EXCEPT ![r] = ready]
<1>1. PICK skipped \in SUBSET {j \in DueRetries : Contended(j)} :
        LET ready == DueRetries \ skipped IN
           /\ state' = [j \in Jobs |-> IF j \in ready THEN "queued" ELSE state[j]]
           /\ lease' = [j \in Jobs |-> IF j \in ready THEN "none" ELSE lease[j]]
           /\ aged' = [j \in Jobs |-> IF j \in ready THEN FALSE ELSE aged[j]]
           /\ todo' = [todo EXCEPT ![r] = ready]
  BY DEF RequeueDue
<1>2. DueRetries \ skipped \in SUBSET {j \in Jobs : state[j] = "retrying"}
  BY DEF DueRetries
<1>3. QED
  BY <1>1, <1>2

\* Types are inductive: one step for each action.
LEMMA TypeStep == TypeOK /\ [Next]_vars => TypeOK'
<1> SUFFICES ASSUME TypeOK, [Next]_vars PROVE TypeOK'
  OBVIOUS
<1> USE MaxMessagesAssumption, MaxFaultsAssumption
<1> USE DEF JobStates, Outcomes, Failures, WorkerPlaces, ReconcilerPlaces
<1>1. ASSUME NEW j \in Jobs, NEW clock \in {"db", "worker"}, ClockPasses(j, clock)
      PROVE  TypeOK'
  BY <1>1 DEF ClockPasses, TypeOK, tableVars, lockVars, brokerVars,
         workerVars, reconcilerVars
<1>2. ASSUME NEW j \in Jobs, LeaseExpires(j)
      PROVE  TypeOK'
  BY <1>2 DEF LeaseExpires, TypeOK, tableVars, lockVars, brokerVars,
         workerVars, reconcilerVars
<1>3. ASSUME NEW j \in Jobs, RowAges(j)
      PROVE  TypeOK'
  BY <1>3 DEF RowAges, TypeOK, tableVars, lockVars, brokerVars, workerVars,
         reconcilerVars
<1>4. ASSUME NEW j \in Jobs, Enqueue(j)
      PROVE  TypeOK'
  BY <1>4 DEF Enqueue, TypeOK, tableVars, lockVars, brokerVars, workerVars,
         reconcilerVars
<1>5. ASSUME NEW j \in Jobs, EnqueueAgain(j)
      PROVE  TypeOK'
  BY <1>5 DEF EnqueueAgain, Fault, TypeOK, tableVars, lockVars, brokerVars,
         workerVars, reconcilerVars
<1>6. ASSUME NEW j \in Jobs, ApiPublish(j)
      PROVE  TypeOK'
  BY <1>6 DEF ApiPublish, Publish, TypeOK, tableVars, lockVars, brokerVars,
         workerVars, reconcilerVars
<1>7. ASSUME NEW j \in Jobs, ApiPublishFails(j)
      PROVE  TypeOK'
  BY <1>7 DEF ApiPublishFails, Fault, TypeOK, tableVars, lockVars, brokerVars,
         workerVars, reconcilerVars
<1>8. ASSUME BrokerFlush
      PROVE  TypeOK'
  BY <1>8 DEF BrokerFlush, Fault, TypeOK, tableVars, lockVars, brokerVars,
         workerVars, reconcilerVars
<1>9. ASSUME NEW w \in Workers, BrokerRedeliver(w)
      PROVE  TypeOK'
  BY <1>9 DEF BrokerRedeliver, Fault, Publish, TypeOK, tableVars, lockVars,
         brokerVars, workerVars, reconcilerVars
<1>10. ASSUME NEW w \in Workers, NEW j \in Jobs, Receive(w, j)
      PROVE  TypeOK'
  BY <1>10 DEF Receive, WorkerGoesTo, TypeOK, tableVars, lockVars, brokerVars,
         workerVars, reconcilerVars
<1>11. ASSUME NEW w \in Workers, TryLock(w)
      PROVE  TypeOK'
  BY <1>11 DEF TryLock, WorkerGoesTo, TypeOK, tableVars, lockVars, brokerVars,
         workerVars, reconcilerVars
<1>12. ASSUME NEW w \in Workers, LockRefused(w)
      PROVE  TypeOK'
  BY <1>12 DEF LockRefused, Leave, WorkerGoesTo, FreeLocksOf, TypeOK,
         tableVars, lockVars, brokerVars, workerVars, reconcilerVars
<1>13. ASSUME NEW w \in Workers, Claim(w)
      PROVE  TypeOK'
  BY <1>13 DEF Claim, Claimable, ClaimRow, GrantLease, Touched, WorkerGoesTo,
         TypeOK, tableVars, lockVars, brokerVars, workerVars, reconcilerVars
<1>14. ASSUME NEW w \in Workers, ClaimUnheard(w)
      PROVE  TypeOK'
  BY <1>14 DEF ClaimUnheard, Fault, Claimable, ClaimRow, GrantLease, Touched,
         Leave, WorkerGoesTo, FreeLocksOf, TypeOK, tableVars, lockVars,
         brokerVars, workerVars, reconcilerVars
<1>15. ASSUME NEW w \in Workers, ClaimRefused(w)
      PROVE  TypeOK'
  BY <1>15 DEF ClaimRefused, WorkerGoesTo, TypeOK, tableVars, lockVars,
         brokerVars, workerVars, reconcilerVars
<1>16. ASSUME NEW w \in Workers, Heartbeat(w)
      PROVE  TypeOK'
  BY <1>16 DEF Heartbeat, GrantLease, Touched, TypeOK, tableVars, lockVars,
         brokerVars, workerVars, reconcilerVars
<1>17. ASSUME NEW w \in Workers, HeartbeatRejected(w)
      PROVE  TypeOK'
  BY <1>17 DEF HeartbeatRejected, FailWith, WorkerGoesTo, TypeOK, tableVars,
         lockVars, brokerVars, workerVars, reconcilerVars
<1>18. ASSUME NEW w \in Workers, HeartbeatBreaks(w)
      PROVE  TypeOK'
  BY <1>18 DEF HeartbeatBreaks, Fault, FailWith, WorkerGoesTo, TypeOK,
         tableVars, lockVars, brokerVars, workerVars, reconcilerVars
<1>19. ASSUME NEW w \in Workers, WorkReturns(w)
      PROVE  TypeOK'
  BY <1>19 DEF WorkReturns, WorkerGoesTo, TypeOK, tableVars, lockVars,
         brokerVars, workerVars, reconcilerVars
<1>20. ASSUME NEW w \in Workers, NEW kind \in Failures, WorkRaises(w, kind)
      PROVE  TypeOK'
  BY <1>20 DEF WorkRaises, FailWith, WorkerGoesTo, TypeOK, tableVars,
         lockVars, brokerVars, workerVars, reconcilerVars
<1>21. ASSUME NEW w \in Workers, Succeed(w)
      PROVE  TypeOK'
  <2>1. CASE state[wjob[w]] = "running"
    BY <1>21, <2>1, CloseTyped
    DEF Succeed, CloseSucceeded, WorkerGoesTo, TypeOK, lockVars, brokerVars,
        reconcilerVars
  <2>2. CASE state[wjob[w]] # "running"
    BY <1>21, <2>2
    DEF Succeed, FailWith, WorkerGoesTo, TypeOK, tableVars, lockVars, brokerVars,
        reconcilerVars
  <2>3. QED
    BY <2>1, <2>2
<1>22. ASSUME NEW w \in Workers, SucceedTimesOut(w)
      PROVE  TypeOK'
  <2>1. faults' \in 0 .. MaxFaults
    BY <1>22 DEF SucceedTimesOut, Fault, TypeOK
  <2>2. CASE CloseSucceeded(wjob[w])
    BY <1>22, <2>1, <2>2, CloseTyped
    DEF SucceedTimesOut, CloseSucceeded, FailWith, WorkerGoesTo, TypeOK, lockVars,
        brokerVars, reconcilerVars
  <2>3. CASE UNCHANGED tableVars
    BY <1>22, <2>1, <2>3
    DEF SucceedTimesOut, FailWith, WorkerGoesTo, TypeOK, tableVars, lockVars,
        brokerVars, reconcilerVars
  <2>4. QED
    BY <1>22, <2>2, <2>3 DEF SucceedTimesOut
<1>23. ASSUME NEW w \in Workers, Fail(w)
      PROVE  TypeOK'
  <2>1. PICK newState \in JobStates, outcome \in Outcomes :
          Close(wjob[w], newState, outcome)
    BY <1>23 DEF Fail, CloseFailed, CloseForRetry, CloseTerminal
  <2>2. due' \in [Jobs -> SUBSET {"db", "worker"}]
    BY <1>23 DEF Fail, CloseFailed, CloseForRetry, CloseTerminal, TypeOK
  <2>3. wjob[w] \in Jobs
    BY <1>23 DEF Fail, TypeOK
  <2>4. /\ wpc' \in [Workers -> WorkerPlaces]
        /\ failure' \in [Workers -> Failures \cup {"none"}]
        /\ \A v \in Workers : wpc'[v] # "idle" => wjob[v] \in Jobs
    BY <1>23, <2>3 DEF Fail, WorkerGoesTo, TypeOK
  <2>5. UNCHANGED <<lock, leader, publishing, broker, wjob, claimed, session,
                    rpc, rjob, todo, rsession, faults>>
    BY <1>23 DEF Fail, lockVars, brokerVars, reconcilerVars
  <2>6. QED
    BY <2>1, <2>2, <2>3, <2>4, <2>5, CloseTyped DEF TypeOK
<1>24. ASSUME NEW w \in Workers, FailRefused(w)
      PROVE  TypeOK'
  BY <1>24 DEF FailRefused, WorkerGoesTo, TypeOK, tableVars, lockVars,
         brokerVars, workerVars, reconcilerVars
<1>25. ASSUME NEW w \in Workers, Release(w)
      PROVE  TypeOK'
  BY <1>25 DEF Release, Leave, WorkerGoesTo, FreeLocksOf, TypeOK, tableVars,
         lockVars, brokerVars, workerVars, reconcilerVars
<1>26. ASSUME NEW w \in Workers, SessionLost(w)
      PROVE  TypeOK'
  BY <1>26 DEF SessionLost, Fault, FreeLocksOf, TypeOK, tableVars, lockVars,
         brokerVars, workerVars, reconcilerVars
<1>27. ASSUME NEW w \in Workers, SessionLossFound(w)
      PROVE  TypeOK'
  BY <1>27 DEF SessionLossFound, Leave, WorkerGoesTo, FreeLocksOf, TypeOK,
         tableVars, lockVars, brokerVars, workerVars, reconcilerVars
<1>28. ASSUME NEW w \in Workers, WorkerCrash(w)
      PROVE  TypeOK'
  <2>1. broker' \in [Jobs -> 0 .. MaxMessages]
    BY <1>28 DEF WorkerCrash, Publish, TypeOK
  <2>2. faults' \in 0 .. MaxFaults
    BY <1>28 DEF WorkerCrash, Fault, TypeOK
  <2>3. QED
    BY <1>28, <2>1, <2>2
    DEF WorkerCrash, Leave, WorkerGoesTo, FreeLocksOf, TypeOK, tableVars, lockVars,
        workerVars, reconcilerVars
<1>29. ASSUME NEW r \in Reconcilers, Lead(r)
      PROVE  TypeOK'
  BY <1>29 DEF Lead, ReconcilerGoesTo, TypeOK, tableVars, lockVars,
         brokerVars, workerVars, reconcilerVars
<1>30. ASSUME NEW r \in Reconcilers, FindCandidates(r)
      PROVE  TypeOK'
  BY <1>30 DEF FindCandidates, ReconcilerGoesTo, TypeOK, tableVars, lockVars,
         brokerVars, workerVars, reconcilerVars
<1>31. ASSUME NEW r \in Reconcilers, NEW j \in Jobs, LockCandidate(r, j)
      PROVE  TypeOK'
  BY <1>31 DEF LockCandidate, ReconcilerGoesTo, TypeOK, tableVars, lockVars,
         brokerVars, workerVars, reconcilerVars
<1>32. ASSUME NEW r \in Reconcilers, NEW j \in Jobs, SkipCandidate(r, j)
      PROVE  TypeOK'
  BY <1>32 DEF SkipCandidate, Visited, TypeOK, tableVars, lockVars,
         brokerVars, workerVars, reconcilerVars
<1>33. ASSUME NEW r \in Reconcilers, Recover(r)
      PROVE  TypeOK'
  BY <1>33, CloseTyped, SMTT(30) DEF Recover, CloseExpired, CloseForRetry,
         CloseTerminal, Visited, ReconcilerGoesTo, TypeOK, tableVars,
         lockVars, brokerVars, workerVars, reconcilerVars
<1>34. ASSUME NEW r \in Reconcilers, RequeueDue(r)
      PROVE  TypeOK'
  <2>1. PICK ready \in SUBSET Jobs :
          /\ state' = [j \in Jobs |-> IF j \in ready THEN "queued" ELSE state[j]]
          /\ lease' = [j \in Jobs |-> IF j \in ready THEN "none" ELSE lease[j]]
          /\ aged' = [j \in Jobs |-> IF j \in ready THEN FALSE ELSE aged[j]]
          /\ todo' = [todo EXCEPT ![r] = ready]
    BY <1>34, RequeuedRows
  <2>2. /\ state' \in [Jobs -> JobStates]
        /\ lease' \in [Jobs -> {"none", "live", "expired"}]
        /\ aged' \in [Jobs -> BOOLEAN]
        /\ todo' \in [Reconcilers -> SUBSET Jobs]
    BY <2>1 DEF TypeOK
  <2>3. QED
    BY <1>34, <2>2, ZenonT(60) DEF RequeueDue, ReconcilerGoesTo, TypeOK,
       lockVars,
                       brokerVars, workerVars
<1>35. ASSUME NEW r \in Reconcilers, NEW j \in Jobs, PublishDue(r, j)
      PROVE  TypeOK'
  BY <1>35 DEF PublishDue, Publish, Visited, TypeOK, tableVars, lockVars,
         brokerVars, workerVars, reconcilerVars
<1>36. ASSUME NEW r \in Reconcilers, FindOldQueued(r)
      PROVE  TypeOK'
  BY <1>36 DEF FindOldQueued, ReconcilerGoesTo, TypeOK, tableVars, lockVars,
         brokerVars, workerVars, reconcilerVars
<1>37. ASSUME NEW r \in Reconcilers, NEW j \in Jobs, Redispatch(r, j)
      PROVE  TypeOK'
  BY <1>37 DEF Redispatch, Publish, ReconcilerGoesTo, TypeOK, tableVars,
         lockVars, brokerVars, workerVars, reconcilerVars
<1>38. ASSUME NEW r \in Reconcilers, Touch(r)
      PROVE  TypeOK'
  <2>1. aged' \in [Jobs -> BOOLEAN]
    <3>1. aged \in [Jobs -> BOOLEAN]
      BY DEF TypeOK
    <3>2. aged' = [aged EXCEPT ![rjob[r]] = FALSE] \/ aged' = aged
      BY <1>38 DEF Touch, Touched
    <3>3. QED
      BY <3>1, <3>2
  <2>2. /\ rpc' \in [Reconcilers -> ReconcilerPlaces]
        /\ rjob' \in [Reconcilers -> Jobs \cup {None}]
        /\ todo' \in [Reconcilers -> SUBSET Jobs]
    BY <1>38 DEF Touch, Visited, ReconcilerGoesTo, TypeOK
  <2>3. \A q \in Reconcilers : rpc'[q] \in {"recovering", "touch"} => rjob'[q] \in Jobs
    BY <1>38 DEF Touch, ReconcilerGoesTo, TypeOK
  <2>4. UNCHANGED <<state, attempt, due, lease, events, lock, leader, publishing,
                    broker, wpc, wjob, claimed, failure, session, rsession, faults>>
    BY <1>38 DEF Touch, lockVars, brokerVars, workerVars
  <2>5. QED
    BY <2>1, <2>2, <2>3, <2>4, ZenonT(60) DEF TypeOK
<1>39. ASSUME NEW r \in Reconcilers, Finish(r)
      PROVE  TypeOK'
  BY <1>39 DEF Finish, Retire, ReconcilerGoesTo, FreeLocksOf, TypeOK,
         tableVars, lockVars, brokerVars, workerVars, reconcilerVars
<1>40. ASSUME NEW r \in Reconcilers, ReconcilerFails(r)
      PROVE  TypeOK'
  BY <1>40 DEF ReconcilerFails, Fault, Retire, ReconcilerGoesTo, FreeLocksOf,
         TypeOK, tableVars, lockVars, brokerVars, workerVars, reconcilerVars
<1>41. ASSUME NEW r \in Reconcilers, LeaderSessionLost(r)
      PROVE  TypeOK'
  BY <1>41 DEF LeaderSessionLost, Fault, FreeLocksOf, TypeOK, tableVars,
         lockVars, brokerVars, workerVars, reconcilerVars
<1>42. ASSUME NEW r \in Reconcilers, LeaderLossFound(r)
      PROVE  TypeOK'
  BY <1>42 DEF LeaderLossFound, Retire, ReconcilerGoesTo, FreeLocksOf,
         TypeOK, tableVars, lockVars, brokerVars, workerVars, reconcilerVars
<1>43. CASE UNCHANGED vars
  BY <1>43 DEF vars, tableVars, lockVars, brokerVars, workerVars,
         reconcilerVars, TypeOK
<1> HIDE DEF JobStates, Outcomes, Failures, WorkerPlaces, ReconcilerPlaces
<1>44. QED
  BY <1>1, <1>2, <1>3, <1>4, <1>5, <1>6, <1>7, <1>8, <1>9, <1>10, <1>11,
         <1>12, <1>13, <1>14, <1>15, <1>16, <1>17, <1>18, <1>19, <1>20, <1>21,
         <1>22, <1>23, <1>24, <1>25, <1>26, <1>27, <1>28, <1>29, <1>30, <1>31,
         <1>32, <1>33, <1>34, <1>35, <1>36, <1>37, <1>38, <1>39, <1>40, <1>41,
         <1>42, <1>43
         DEF Next, Time, Api, Worker, WorkEnds, WorkerStep, WorkerFault,
         ReconcilerStep, ReconcilerFault, Failures

-----------------------------------------------------------------------------
(* What a step may do to a row.                                            *)

\* The actions that write the jobs or the events table.
TableWriter ==
  \/ \E j \in Jobs : \/ \E clock \in {"db", "worker"} : ClockPasses(j, clock)
                     \/ LeaseExpires(j) \/ RowAges(j) \/ Enqueue(j)
  \/ \E w \in Workers : \/ Claim(w) \/ ClaimUnheard(w) \/ Heartbeat(w)
                        \/ Succeed(w) \/ SucceedTimesOut(w) \/ Fail(w)
  \/ \E r \in Reconcilers : Recover(r) \/ RequeueDue(r) \/ Touch(r)

RowKept(j) ==
  /\ state'[j] = state[j] /\ attempt'[j] = attempt[j]
  /\ \/ lease'[j] = "none" <=> lease[j] = "none"
     \/ state[j] = "running" /\ lease'[j] = "live"
  /\ EventsOf(j)' = EventsOf(j)

RowEnqueued(j) ==
  /\ state[j] = "absent" /\ state'[j] = "queued"
  /\ attempt'[j] = attempt[j] /\ lease'[j] = lease[j]
  /\ EventsOf(j)' = EventsOf(j) \cup {<<j, "ENQUEUED", 0>>}

RowClaimed(j) ==
  /\ state[j] = "queued" /\ state'[j] = "running"
  /\ attempt'[j] = attempt[j] + 1 /\ lease'[j] = "live"
  /\ EventsOf(j)' = EventsOf(j)

Closer(j) ==
  \/ \E w \in Workers : wpc[w] \in {"succeed", "fail"} /\ session[w] /\ wjob[w] = j
  \/ \E r \in Reconcilers : rpc[r] = "recovering" /\ rsession[r] /\ rjob[r] = j
                             /\ lease[j] = "expired"

RowClosed(j) ==
  /\ state[j] = "running"
  /\ state'[j] \in {"succeeded", "retrying", "failed-terminal", "blocked-owner-action"}
  /\ state'[j] = "retrying" => attempt[j] < MaxAttempts
  /\ attempt'[j] = attempt[j] /\ lease'[j] = "none"
  /\ EventsOf(j)' = EventsOf(j) \cup {<<j, LastOutcome(state'[j]), attempt[j]>>}
  /\ Closer(j)

RowRequeued(j) ==
  /\ state[j] = "retrying" /\ state'[j] = "queued"
  /\ attempt'[j] = attempt[j] /\ lease'[j] = "none"
  /\ EventsOf(j)' = EventsOf(j)

RowStep(j) == \/ RowKept(j) \/ RowEnqueued(j) \/ RowClaimed(j)
              \/ RowClosed(j) \/ RowRequeued(j)

\* Only requeueing moves several rows at once.
TableStep ==
  \/ \A j \in Jobs : RowKept(j) \/ RowRequeued(j)
  \/ \E i \in Jobs : /\ RowEnqueued(i) \/ RowClaimed(i) \/ RowClosed(i)
                     /\ \A j \in Jobs \ {i} : RowKept(j)

\* No other action writes the tables.
LEMMA OnlyWritersWrite == [Next]_vars => UNCHANGED tableVars \/ TableWriter
<1> SUFFICES ASSUME Next, ~TableWriter PROVE UNCHANGED tableVars
  BY DEF vars
<1>1. CASE Time
  BY <1>1 DEF Time, TableWriter
<1>2. CASE Api
  BY <1>2 DEF Api, TableWriter, EnqueueAgain, ApiPublish, ApiPublishFails
<1>3. CASE BrokerFlush
  BY <1>3 DEF BrokerFlush
<1>4. ASSUME NEW w \in Workers, Worker(w)
      PROVE  UNCHANGED tableVars
  <2>1. CASE WorkEnds(w)
    BY <2>1 DEF WorkEnds, WorkReturns, WorkRaises
  <2>2. CASE WorkerStep(w)
    BY <2>2 DEF WorkerStep, TableWriter, TryLock, LockRefused, ClaimRefused,
                FailRefused, Release, SessionLossFound
  <2>3. CASE WorkerFault(w)
    BY <2>3 DEF WorkerFault, TableWriter, HeartbeatBreaks, SessionLost,
                WorkerCrash, BrokerRedeliver
  <2>4. CASE \/ \E j \in Jobs : Receive(w, j)
             \/ Heartbeat(w) \/ HeartbeatRejected(w)
    BY <2>4 DEF Receive, HeartbeatRejected, TableWriter
  <2>5. QED
    BY <1>4, <2>1, <2>2, <2>3, <2>4 DEF Worker
<1>5. ASSUME NEW r \in Reconcilers, ReconcilerStep(r) \/ ReconcilerFault(r)
      PROVE  UNCHANGED tableVars
  BY <1>5 DEF ReconcilerStep, TableWriter, Lead, FindCandidates, FindOldQueued,
              Finish, LockCandidate, SkipCandidate, PublishDue, Redispatch,
              ReconcilerFault, ReconcilerFails, LeaderSessionLost, LeaderLossFound
<1>6. QED
  BY <1>1, <1>2, <1>3, <1>4, <1>5 DEF Next

\* Close moves the one row it is called for, and every other row is kept.
LEMMA ClosedRow ==
  ASSUME TypeOK, NEW i \in Jobs, state[i] = "running", Closer(i),
         NEW newState \in {"succeeded", "retrying", "failed-terminal",
                           "blocked-owner-action"},
         newState = "retrying" => attempt[i] < MaxAttempts,
         Close(i, newState, LastOutcome(newState))
  PROVE  TableStep
<1>1. TypeOK /\ newState \in JobStates
  BY DEF JobStates
<1>2. RowClosed(i)
  BY <1>1 DEF RowClosed, Close, TypeOK, EventsOf
<1>3. ASSUME NEW j \in Jobs, j # i PROVE RowKept(j)
  BY <1>3, <1>1 DEF RowKept, Close, TypeOK, EventsOf
<1>4. QED
  BY <1>2, <1>3 DEF TableStep

\* Every step enqueues, claims or closes one row, or requeues some, or keeps all.
LEMMA TableSteps ==
  ASSUME TypeOK, [Next]_vars
  PROVE  TableStep
<1> USE DEF TableStep
<1>1. CASE UNCHANGED tableVars
  BY <1>1 DEF tableVars, RowKept, EventsOf
<1>2. ASSUME NEW i \in Jobs,
             \/ \E clock \in {"db", "worker"} : ClockPasses(i, clock)
             \/ LeaseExpires(i) \/ RowAges(i)
      PROVE  TableStep
  BY <1>2 DEF ClockPasses, LeaseExpires, RowAges, RowKept, EventsOf, TypeOK
<1>3. ASSUME NEW i \in Jobs, Enqueue(i)
      PROVE  TableStep
  <2>1. RowEnqueued(i)
    BY <1>3 DEF Enqueue, RowEnqueued, EventsOf, TypeOK
  <2>2. \A j \in Jobs \ {i} : RowKept(j)
    BY <1>3 DEF Enqueue, RowKept, EventsOf, TypeOK
  <2>3. QED
    BY <2>1, <2>2
<1>4. ASSUME NEW w \in Workers, Claim(w) \/ ClaimUnheard(w)
      PROVE  TableStep
  <2>1. PICK i \in Jobs : Claimable(i) /\ ClaimRow(i)
    BY <1>4 DEF Claim, ClaimUnheard, TypeOK
  <2>2. RowClaimed(i)
    BY <2>1 DEF Claimable, ClaimRow, GrantLease, RowClaimed, EventsOf, TypeOK
  <2>3. \A j \in Jobs \ {i} : RowKept(j)
    BY <2>1 DEF ClaimRow, GrantLease, RowKept, EventsOf, TypeOK
  <2>4. QED
    BY <2>2, <2>3
<1>5. ASSUME NEW w \in Workers, Heartbeat(w)
      PROVE  TableStep
  BY <1>5 DEF Heartbeat, GrantLease, RowKept, EventsOf, TypeOK
<1>6. ASSUME NEW w \in Workers, Succeed(w) \/ SucceedTimesOut(w)
      PROVE  TableStep
  <2>1. CASE CloseSucceeded(wjob[w]) /\ state[wjob[w]] = "running"
    <3>1. Closer(wjob[w]) /\ wjob[w] \in Jobs
      BY <1>6 DEF Succeed, SucceedTimesOut, Closer, TypeOK
    <3>2. Close(wjob[w], "succeeded", LastOutcome("succeeded"))
      BY <2>1 DEF CloseSucceeded, LastOutcome
    <3>3. QED
      BY <2>1, <3>1, <3>2, ClosedRow
  <2>2. QED
    BY <1>1, <1>6, <2>1 DEF Succeed, SucceedTimesOut
<1>7. ASSUME NEW w \in Workers, Fail(w)
      PROVE  TableStep
  <2>1. Closer(wjob[w]) /\ wjob[w] \in Jobs /\ state[wjob[w]] = "running"
    BY <1>7 DEF Fail, Closer, TypeOK
  <2>2. PICK s \in {"retrying", "failed-terminal", "blocked-owner-action"} :
          /\ s = "retrying" => attempt[wjob[w]] < MaxAttempts
          /\ Close(wjob[w], s, LastOutcome(s))
    BY <1>7 DEF Fail, CloseFailed, CloseForRetry, CloseTerminal, LastOutcome
  <2>3. QED
    BY <2>1, <2>2, ClosedRow
<1>8. ASSUME NEW r \in Reconcilers, Recover(r)
      PROVE  TableStep
  <2>1. CASE state[rjob[r]] = "running" /\ lease[rjob[r]] = "expired"
    <3>1. Closer(rjob[r]) /\ rjob[r] \in Jobs
      BY <1>8, <2>1 DEF Recover, Closer, TypeOK
    <3>2. PICK s \in {"retrying", "failed-terminal"} :
            /\ s = "retrying" => attempt[rjob[r]] < MaxAttempts
            /\ Close(rjob[r], s, LastOutcome(s))
      BY <1>8, <2>1, <3>1, MaxAttemptsAssumption
      DEF Recover, CloseExpired, CloseForRetry, CloseTerminal, LastOutcome, TypeOK
    <3>3. QED
      BY <2>1, <3>1, <3>2, ClosedRow
  <2>2. QED
    BY <1>1, <1>8, <2>1 DEF Recover, CloseExpired
<1>9. ASSUME NEW r \in Reconcilers, RequeueDue(r)
      PROVE  TableStep
  <2>1. PICK ready \in SUBSET {j \in Jobs : state[j] = "retrying"} :
          /\ state' = [j \in Jobs |-> IF j \in ready THEN "queued" ELSE state[j]]
          /\ lease' = [j \in Jobs |-> IF j \in ready THEN "none" ELSE lease[j]]
    BY <1>9, RequeuedRows
  <2>2. UNCHANGED <<attempt, events>>
    BY <1>9 DEF RequeueDue
  <2>3. QED
    BY <2>1, <2>2 DEF RowKept, RowRequeued, EventsOf
<1>10. ASSUME NEW r \in Reconcilers, Touch(r)
       PROVE  TableStep
  BY <1>10 DEF Touch, RowKept, EventsOf
<1> HIDE DEF TableStep
<1>11. QED
  BY <1>1, <1>2, <1>3, <1>4, <1>5, <1>6, <1>7, <1>8, <1>9, <1>10,
     OnlyWritersWrite DEF TableWriter

\* Seen from one row: it is kept, enqueued, claimed, closed or requeued.
LEMMA RowSteps ==
  ASSUME TypeOK, [Next]_vars
  PROVE  \A j \in Jobs : RowStep(j)
BY TableSteps DEF TableStep, RowStep

-----------------------------------------------------------------------------
(* The theorems.                                                           *)

\* Every reachable state is typed, whatever the sets and the bounds.
THEOREM TypeCorrect == Spec => []TypeOK
<1>1. Init => TypeOK
  BY MaxFaultsAssumption, MaxMessagesAssumption
  DEF Init, TypeOK, JobStates, WorkerPlaces, ReconcilerPlaces
<1>2. QED
  BY <1>1, TypeStep, PTL DEF Spec

\* A running row has a lease and no other row has one.
THEOREM LeaseCorrect == Spec => []LeaseIffRunning
<1>1. Init => LeaseIffRunning
  BY ZenonT(60) DEF Init, LeaseIffRunning
<1>2. TypeOK /\ LeaseIffRunning /\ [Next]_vars => LeaseIffRunning'
  BY RowSteps DEF LeaseIffRunning, RowStep, RowKept, RowEnqueued, RowClaimed,
                  RowClosed, RowRequeued
<1>3. QED
  BY <1>1, <1>2, TypeCorrect, PTL DEF Spec

\* No row is ever claimed beyond max_attempts.
THEOREM AttemptsCorrect == Spec => []AttemptsBounded
<1>1. Init => AttemptsBounded
  <2>1. ASSUME Init, NEW j \in Jobs PROVE attempt[j] = 0
    BY <2>1 DEF Init
  <2>2. 0 < MaxAttempts /\ 0 <= MaxAttempts
    BY MaxAttemptsAssumption
  <2>3. QED
    BY <2>1, <2>2 DEF AttemptsBounded
<1>2. TypeOK /\ AttemptsBounded /\ [Next]_vars => AttemptsBounded'
  <2> SUFFICES ASSUME TypeOK, AttemptsBounded, [Next]_vars, NEW j \in Jobs
               PROVE  /\ attempt'[j] <= MaxAttempts
                      /\ state'[j] \in {"absent", "queued", "retrying"} =>
                           attempt'[j] < MaxAttempts
    BY DEF AttemptsBounded
  <2>1. RowStep(j)
    BY RowSteps
  <2>2. attempt[j] \in Nat /\ MaxAttempts \in Nat
    BY MaxAttemptsAssumption DEF TypeOK
  <2>3. QED
    BY <2>1, <2>2 DEF AttemptsBounded, RowStep, RowKept, RowEnqueued,
       RowClaimed,
                      RowClosed, RowRequeued
<1>3. QED
  BY <1>1, <1>2, TypeCorrect, PTL DEF Spec

-----------------------------------------------------------------------------

\* While a reconciler whose session lives recovers a row it holds the row's lock.
RecoveringHoldsLock ==
  \A r \in Reconcilers : rpc[r] = "recovering" /\ rsession[r] => lock[rjob[r]] = r

FenceInv == FencedByLock /\ RecoveringHoldsLock

\* The lock that a worker or a reconciler holds keeps the others off its row.
\* FencedByLock alone is not inductive: a reconciler that recovers a row must be
\* known to hold that row's lock, or it could close the row of a live worker.
LEMMA FenceStep == TypeOK /\ TypeOK' /\ FenceInv /\ [Next]_vars => FenceInv'
<1> SUFFICES ASSUME TypeOK, FenceInv, [Next]_vars PROVE FenceInv'
  OBVIOUS
<1> USE NamesAssumption
<1>1. ASSUME NEW j \in Jobs, NEW clock \in {"db", "worker"}, ClockPasses(j, clock)
      PROVE  FenceInv'
  BY <1>1 DEF ClockPasses, FenceInv, FencedByLock, RecoveringHoldsLock,
         TypeOK, tableVars, lockVars, brokerVars, workerVars, reconcilerVars
<1>2. ASSUME NEW j \in Jobs, LeaseExpires(j)
      PROVE  FenceInv'
  BY <1>2 DEF LeaseExpires, FenceInv, FencedByLock, RecoveringHoldsLock,
         TypeOK, tableVars, lockVars, brokerVars, workerVars, reconcilerVars
<1>3. ASSUME NEW j \in Jobs, RowAges(j)
      PROVE  FenceInv'
  BY <1>3 DEF RowAges, FenceInv, FencedByLock, RecoveringHoldsLock, TypeOK,
         tableVars, lockVars, brokerVars, workerVars, reconcilerVars
<1>4. ASSUME NEW j \in Jobs, Enqueue(j)
      PROVE  FenceInv'
  BY <1>4 DEF Enqueue, FenceInv, FencedByLock, RecoveringHoldsLock, TypeOK,
         tableVars, lockVars, brokerVars, workerVars, reconcilerVars
<1>5. ASSUME NEW j \in Jobs, EnqueueAgain(j)
      PROVE  FenceInv'
  BY <1>5 DEF EnqueueAgain, Fault, FenceInv, FencedByLock,
         RecoveringHoldsLock, TypeOK, tableVars, lockVars, brokerVars,
         workerVars, reconcilerVars
<1>6. ASSUME NEW j \in Jobs, ApiPublish(j)
      PROVE  FenceInv'
  BY <1>6 DEF ApiPublish, Publish, FenceInv, FencedByLock,
         RecoveringHoldsLock, TypeOK, tableVars, lockVars, brokerVars,
         workerVars, reconcilerVars
<1>7. ASSUME NEW j \in Jobs, ApiPublishFails(j)
      PROVE  FenceInv'
  BY <1>7 DEF ApiPublishFails, Fault, FenceInv, FencedByLock,
         RecoveringHoldsLock, TypeOK, tableVars, lockVars, brokerVars,
         workerVars, reconcilerVars
<1>8. ASSUME BrokerFlush
      PROVE  FenceInv'
  BY <1>8 DEF BrokerFlush, Fault, FenceInv, FencedByLock, RecoveringHoldsLock,
         TypeOK, tableVars, lockVars, brokerVars, workerVars, reconcilerVars
<1>9. ASSUME NEW w \in Workers, BrokerRedeliver(w)
      PROVE  FenceInv'
  BY <1>9 DEF BrokerRedeliver, Fault, Publish, FenceInv, FencedByLock,
         RecoveringHoldsLock, TypeOK, tableVars, lockVars, brokerVars,
         workerVars, reconcilerVars
<1>10. ASSUME NEW w \in Workers, NEW j \in Jobs, Receive(w, j)
      PROVE  FenceInv'
  BY <1>10 DEF Receive, WorkerGoesTo, FenceInv, FencedByLock,
         RecoveringHoldsLock, TypeOK, tableVars, lockVars, brokerVars,
         workerVars, reconcilerVars
<1>11. ASSUME NEW w \in Workers, TryLock(w)
      PROVE  FenceInv'
  BY <1>11 DEF TryLock, WorkerGoesTo, FenceInv, FencedByLock,
         RecoveringHoldsLock, TypeOK, tableVars, lockVars, brokerVars,
         workerVars, reconcilerVars
<1>12. ASSUME NEW w \in Workers, LockRefused(w)
      PROVE  FenceInv'
  BY <1>12 DEF LockRefused, Leave, WorkerGoesTo, FreeLocksOf, FenceInv,
         FencedByLock, RecoveringHoldsLock, TypeOK, tableVars, lockVars,
         brokerVars, workerVars, reconcilerVars
<1>13. ASSUME NEW w \in Workers, Claim(w)
      PROVE  FenceInv'
  BY <1>13 DEF Claim, Claimable, ClaimRow, GrantLease, Touched, WorkerGoesTo,
         FenceInv, FencedByLock, RecoveringHoldsLock, TypeOK, tableVars,
         lockVars, brokerVars, workerVars, reconcilerVars
<1>14. ASSUME NEW w \in Workers, ClaimUnheard(w)
      PROVE  FenceInv'
  BY <1>14 DEF ClaimUnheard, Fault, Claimable, ClaimRow, GrantLease, Touched,
         Leave, WorkerGoesTo, FreeLocksOf, FenceInv, FencedByLock,
         RecoveringHoldsLock, TypeOK, tableVars, lockVars, brokerVars,
         workerVars, reconcilerVars
<1>15. ASSUME NEW w \in Workers, ClaimRefused(w)
      PROVE  FenceInv'
  BY <1>15 DEF ClaimRefused, WorkerGoesTo, FenceInv, FencedByLock,
         RecoveringHoldsLock, TypeOK, tableVars, lockVars, brokerVars,
         workerVars, reconcilerVars
<1>16. ASSUME NEW w \in Workers, Heartbeat(w)
      PROVE  FenceInv'
  BY <1>16 DEF Heartbeat, GrantLease, Touched, FenceInv, FencedByLock,
         RecoveringHoldsLock, TypeOK, tableVars, lockVars, brokerVars,
         workerVars, reconcilerVars
<1>17. ASSUME NEW w \in Workers, HeartbeatRejected(w)
      PROVE  FenceInv'
  BY <1>17 DEF HeartbeatRejected, FailWith, WorkerGoesTo, FenceInv,
         FencedByLock, RecoveringHoldsLock, TypeOK, tableVars, lockVars,
         brokerVars, workerVars, reconcilerVars
<1>18. ASSUME NEW w \in Workers, HeartbeatBreaks(w)
      PROVE  FenceInv'
  BY <1>18 DEF HeartbeatBreaks, Fault, FailWith, WorkerGoesTo, FenceInv,
         FencedByLock, RecoveringHoldsLock, TypeOK, tableVars, lockVars,
         brokerVars, workerVars, reconcilerVars
<1>19. ASSUME NEW w \in Workers, WorkReturns(w)
      PROVE  FenceInv'
  BY <1>19 DEF WorkReturns, WorkerGoesTo, FenceInv, FencedByLock,
         RecoveringHoldsLock, TypeOK, tableVars, lockVars, brokerVars,
         workerVars, reconcilerVars
<1>20. ASSUME NEW w \in Workers, NEW kind \in Failures, WorkRaises(w, kind)
      PROVE  FenceInv'
  BY <1>20 DEF WorkRaises, FailWith, WorkerGoesTo, FenceInv, FencedByLock,
         RecoveringHoldsLock, TypeOK, tableVars, lockVars, brokerVars,
         workerVars, reconcilerVars
<1>21. ASSUME NEW w \in Workers, Succeed(w)
      PROVE  FenceInv'
  BY <1>21 DEF Succeed, CloseSucceeded, Close, Touched, FailWith,
         WorkerGoesTo, FenceInv, FencedByLock, RecoveringHoldsLock, TypeOK,
         tableVars, lockVars, brokerVars, workerVars, reconcilerVars
<1>22. ASSUME NEW w \in Workers, SucceedTimesOut(w)
      PROVE  FenceInv'
  BY <1>22 DEF SucceedTimesOut, Fault, CloseSucceeded, Close, Touched,
         FailWith, WorkerGoesTo, FenceInv, FencedByLock, RecoveringHoldsLock,
         TypeOK, tableVars, lockVars, brokerVars, workerVars, reconcilerVars
<1>23. ASSUME NEW w \in Workers, Fail(w)
      PROVE  FenceInv'
  BY <1>23 DEF Fail, CloseFailed, CloseForRetry, CloseTerminal, Close,
         Touched, WorkerGoesTo, FenceInv, FencedByLock, RecoveringHoldsLock,
         TypeOK, tableVars, lockVars, brokerVars, workerVars, reconcilerVars
<1>24. ASSUME NEW w \in Workers, FailRefused(w)
      PROVE  FenceInv'
  BY <1>24 DEF FailRefused, WorkerGoesTo, FenceInv, FencedByLock,
         RecoveringHoldsLock, TypeOK, tableVars, lockVars, brokerVars,
         workerVars, reconcilerVars
<1>25. ASSUME NEW w \in Workers, Release(w)
      PROVE  FenceInv'
  BY <1>25 DEF Release, Leave, WorkerGoesTo, FreeLocksOf, FenceInv,
         FencedByLock, RecoveringHoldsLock, TypeOK, tableVars, lockVars,
         brokerVars, workerVars, reconcilerVars
<1>26. ASSUME NEW w \in Workers, SessionLost(w)
      PROVE  FenceInv'
  BY <1>26 DEF SessionLost, Fault, FreeLocksOf, FenceInv, FencedByLock,
         RecoveringHoldsLock, TypeOK, tableVars, lockVars, brokerVars,
         workerVars, reconcilerVars
<1>27. ASSUME NEW w \in Workers, SessionLossFound(w)
      PROVE  FenceInv'
  BY <1>27 DEF SessionLossFound, Leave, WorkerGoesTo, FreeLocksOf, FenceInv,
         FencedByLock, RecoveringHoldsLock, TypeOK, tableVars, lockVars,
         brokerVars, workerVars, reconcilerVars
<1>28. ASSUME NEW w \in Workers, WorkerCrash(w)
      PROVE  FenceInv'
  BY <1>28 DEF WorkerCrash, Fault, Leave, WorkerGoesTo, FreeLocksOf, Publish,
         FenceInv, FencedByLock, RecoveringHoldsLock, TypeOK, tableVars,
         lockVars, brokerVars, workerVars, reconcilerVars
<1>29. ASSUME NEW r \in Reconcilers, Lead(r)
      PROVE  FenceInv'
  BY <1>29 DEF Lead, ReconcilerGoesTo, FenceInv, FencedByLock,
         RecoveringHoldsLock, TypeOK, tableVars, lockVars, brokerVars,
         workerVars, reconcilerVars
<1>30. ASSUME NEW r \in Reconcilers, FindCandidates(r)
      PROVE  FenceInv'
  BY <1>30 DEF FindCandidates, ReconcilerGoesTo, FenceInv, FencedByLock,
         RecoveringHoldsLock, TypeOK, tableVars, lockVars, brokerVars,
         workerVars, reconcilerVars
<1>31. ASSUME NEW r \in Reconcilers, NEW j \in Jobs, LockCandidate(r, j)
      PROVE  FenceInv'
  BY <1>31 DEF LockCandidate, ReconcilerGoesTo, FenceInv, FencedByLock,
         RecoveringHoldsLock, TypeOK, tableVars, lockVars, brokerVars,
         workerVars, reconcilerVars
<1>32. ASSUME NEW r \in Reconcilers, NEW j \in Jobs, SkipCandidate(r, j)
      PROVE  FenceInv'
  BY <1>32 DEF SkipCandidate, Visited, FenceInv, FencedByLock,
         RecoveringHoldsLock, TypeOK, tableVars, lockVars, brokerVars,
         workerVars, reconcilerVars
<1>33. ASSUME NEW r \in Reconcilers, Recover(r)
      PROVE  FenceInv'
  BY <1>33 DEF Recover, CloseExpired, CloseForRetry, CloseTerminal, Close,
         Touched, Visited, ReconcilerGoesTo, FenceInv, FencedByLock,
         RecoveringHoldsLock, TypeOK, tableVars, lockVars, brokerVars,
         workerVars, reconcilerVars
<1>34. ASSUME NEW r \in Reconcilers, RequeueDue(r)
      PROVE  FenceInv'
  BY <1>34 DEF RequeueDue, DueRetries, ReconcilerGoesTo, FenceInv,
         FencedByLock, RecoveringHoldsLock, TypeOK, tableVars, lockVars,
         brokerVars, workerVars, reconcilerVars
<1>35. ASSUME NEW r \in Reconcilers, NEW j \in Jobs, PublishDue(r, j)
      PROVE  FenceInv'
  BY <1>35 DEF PublishDue, Publish, Visited, FenceInv, FencedByLock,
         RecoveringHoldsLock, TypeOK, tableVars, lockVars, brokerVars,
         workerVars, reconcilerVars
<1>36. ASSUME NEW r \in Reconcilers, FindOldQueued(r)
      PROVE  FenceInv'
  BY <1>36 DEF FindOldQueued, ReconcilerGoesTo, FenceInv, FencedByLock,
         RecoveringHoldsLock, TypeOK, tableVars, lockVars, brokerVars,
         workerVars, reconcilerVars
<1>37. ASSUME NEW r \in Reconcilers, NEW j \in Jobs, Redispatch(r, j)
      PROVE  FenceInv'
  BY <1>37 DEF Redispatch, Publish, ReconcilerGoesTo, FenceInv, FencedByLock,
         RecoveringHoldsLock, TypeOK, tableVars, lockVars, brokerVars,
         workerVars, reconcilerVars
<1>38. ASSUME NEW r \in Reconcilers, Touch(r)
      PROVE  FenceInv'
  BY <1>38 DEF Touch, Touched, Visited, ReconcilerGoesTo, FenceInv,
         FencedByLock, RecoveringHoldsLock, TypeOK, tableVars, lockVars,
         brokerVars, workerVars, reconcilerVars
<1>39. ASSUME NEW r \in Reconcilers, Finish(r)
      PROVE  FenceInv'
  BY <1>39 DEF Finish, Retire, ReconcilerGoesTo, FreeLocksOf, FenceInv,
         FencedByLock, RecoveringHoldsLock, TypeOK, tableVars, lockVars,
         brokerVars, workerVars, reconcilerVars
<1>40. ASSUME NEW r \in Reconcilers, ReconcilerFails(r)
      PROVE  FenceInv'
  BY <1>40 DEF ReconcilerFails, Fault, Retire, ReconcilerGoesTo, FreeLocksOf,
         FenceInv, FencedByLock, RecoveringHoldsLock, TypeOK, tableVars,
         lockVars, brokerVars, workerVars, reconcilerVars
<1>41. ASSUME NEW r \in Reconcilers, LeaderSessionLost(r)
      PROVE  FenceInv'
  BY <1>41 DEF LeaderSessionLost, Fault, FreeLocksOf, FenceInv, FencedByLock,
         RecoveringHoldsLock, TypeOK, tableVars, lockVars, brokerVars,
         workerVars, reconcilerVars
<1>42. ASSUME NEW r \in Reconcilers, LeaderLossFound(r)
      PROVE  FenceInv'
  BY <1>42 DEF LeaderLossFound, Retire, ReconcilerGoesTo, FreeLocksOf,
         FenceInv, FencedByLock, RecoveringHoldsLock, TypeOK, tableVars,
         lockVars, brokerVars, workerVars, reconcilerVars
<1>43. CASE UNCHANGED vars
  BY <1>43 DEF vars, tableVars, lockVars, brokerVars, workerVars,
         reconcilerVars, FenceInv, FencedByLock, RecoveringHoldsLock, TypeOK
<1>44. QED
  BY <1>1, <1>2, <1>3, <1>4, <1>5, <1>6, <1>7, <1>8, <1>9, <1>10, <1>11,
         <1>12, <1>13, <1>14, <1>15, <1>16, <1>17, <1>18, <1>19, <1>20, <1>21,
         <1>22, <1>23, <1>24, <1>25, <1>26, <1>27, <1>28, <1>29, <1>30, <1>31,
         <1>32, <1>33, <1>34, <1>35, <1>36, <1>37, <1>38, <1>39, <1>40, <1>41,
         <1>42, <1>43
         DEF Next, Time, Api, Worker, WorkEnds, WorkerStep, WorkerFault,
         ReconcilerStep, ReconcilerFault

\* The execution lock fences a live worker's attempt from everyone else.
THEOREM FenceCorrect == Spec => []FencedByLock
<1>1. Init => FenceInv
  BY DEF Init, FenceInv, FencedByLock, RecoveringHoldsLock
<1>2. FenceInv => FencedByLock
  BY DEF FenceInv
<1>3. QED
  BY <1>1, <1>2, FenceStep, TypeCorrect, PTL DEF Spec

\* Only the holder of the attempt, or recovery of an expired lease under the
\* lock, ever closes a running row.
THEOREM HolderCorrect == Spec => OnlyTheHolderCloses
<1>1. TypeOK /\ FenceInv /\ [Next]_vars => [ClosedByItsHolder]_vars
  <2> DEFINE Held(j) ==
        \/ \E w \in Workers : /\ lock[j] = w /\ session[w] /\ wjob[w] = j
                              /\ claimed[w] = attempt[j]
        \/ lock[j] \in Reconcilers /\ lease[j] = "expired"
  <2> SUFFICES ASSUME TypeOK, FenceInv, [Next]_vars, NEW j \in Jobs,
                      state[j] = "running", state'[j] # "running"
               PROVE  Held(j)
    BY DEF ClosedByItsHolder
  <2>1. Closer(j)
    BY RowSteps DEF RowStep, RowKept, RowEnqueued, RowClaimed, RowClosed,
                    RowRequeued
  <2>2. ASSUME NEW w \in Workers, wpc[w] \in {"succeed", "fail"}, session[w],
               wjob[w] = j
        PROVE  Held(j)
    BY <2>2 DEF FenceInv, FencedByLock
  <2>3. ASSUME NEW r \in Reconcilers, rpc[r] = "recovering", rsession[r],
               rjob[r] = j, lease[j] = "expired"
        PROVE  Held(j)
    BY <2>3 DEF FenceInv, RecoveringHoldsLock
  <2>4. QED
    BY <2>1, <2>2, <2>3 DEF Closer
<1>2. Init => FenceInv
  BY DEF Init, FenceInv, FencedByLock, RecoveringHoldsLock
<1>3. QED
  BY <1>1, <1>2, FenceStep, TypeCorrect, PTL DEF Spec, OnlyTheHolderCloses

\* A row that has left the queue has been claimed at least once.
AttemptsStarted ==
  \A j \in Jobs :
    /\ state[j] = "absent" => attempt[j] = 0
    /\ state[j] \notin {"absent", "queued"} => attempt[j] > 0

StoryInv == EventsReplayTheRow /\ AttemptsStarted

\* Each of the five moves of a row adds to its events what it adds to its story.
\* AttemptsStarted is needed where a row is closed: attempt 0 has no outcome.
LEMMA StoryStep == TypeOK /\ StoryInv /\ [Next]_vars => StoryInv'
<1> SUFFICES ASSUME TypeOK, StoryInv, [Next]_vars, NEW j \in Jobs
             PROVE  /\ EventsOf(j)' = StoryOf(j)'
                    /\ state'[j] = "absent" => attempt'[j] = 0
                    /\ state'[j] \notin {"absent", "queued"} => attempt'[j] > 0
  BY DEF StoryInv, EventsReplayTheRow, AttemptsStarted
<1>1. /\ EventsOf(j) = StoryOf(j)
      /\ state[j] = "absent" => attempt[j] = 0
      /\ state[j] \notin {"absent", "queued"} => attempt[j] > 0
      /\ attempt[j] \in Nat
  <2>1. EventsOf(j) = StoryOf(j)
    BY DEF StoryInv, EventsReplayTheRow
  <2>2. /\ state[j] = "absent" => attempt[j] = 0
        /\ state[j] \notin {"absent", "queued"} => attempt[j] > 0
    BY DEF StoryInv, AttemptsStarted
  <2>3. attempt[j] \in Nat
    BY DEF TypeOK
  <2>4. QED
    BY <2>1, <2>2, <2>3
<1>2. CASE RowKept(j)
  BY <1>1, <1>2 DEF RowKept, StoryOf
<1>3. CASE RowEnqueued(j)
  BY <1>1, <1>3 DEF RowEnqueued, StoryOf
<1>4. CASE RowClaimed(j)
  BY <1>1, <1>4 DEF RowClaimed, StoryOf, LastOutcome
<1>5. CASE RowClosed(j)
  BY <1>1, <1>5 DEF RowClosed, StoryOf
<1>6. CASE RowRequeued(j)
  BY <1>1, <1>6 DEF RowRequeued, StoryOf, LastOutcome
<1>7. QED
  BY <1>2, <1>3, <1>4, <1>5, <1>6, RowSteps DEF RowStep

\* No row moves without its event and no event is recorded without its move.
THEOREM StoryCorrect == Spec => []EventsReplayTheRow
<1>1. Init => StoryInv
  BY DEF Init, StoryInv, EventsReplayTheRow, AttemptsStarted, EventsOf, StoryOf
<1>2. StoryInv => EventsReplayTheRow
  BY DEF StoryInv
<1>3. QED
  BY <1>1, <1>2, StoryStep, TypeCorrect, PTL DEF Spec
-----------------------------------------------------------------------------

\* The leader lock lives as long as its holder's session.
LeaderHasItsSession == \A r \in Reconcilers : rsession[r] => leader = r

\* The writers among the steps of a reconciler run on its session.
LEMMA WritersAreInSession ==
  ASSUME NEW r \in Reconcilers, Recover(r) \/ RequeueDue(r) \/ Touch(r)
  PROVE  rsession[r]
BY DEF Recover, RequeueDue, Touch

\* Of the writers of the tables, only a reconciler moves a reconciler, and only itself.
LEMMA WriterMovesItself ==
  ASSUME TypeOK, NEW r \in Reconcilers, TableWriter,
         <<rpc[r], rjob[r], todo[r]>> # <<rpc[r], rjob[r], todo[r]>>'
  PROVE  Recover(r) \/ RequeueDue(r) \/ Touch(r)
<1> USE DEF reconcilerVars
<1>1. ASSUME NEW j \in Jobs,
             \/ \E clock \in {"db", "worker"} : ClockPasses(j, clock)
             \/ LeaseExpires(j) \/ RowAges(j) \/ Enqueue(j)
      PROVE  FALSE
  BY <1>1 DEF ClockPasses, LeaseExpires, RowAges, Enqueue
<1>2. ASSUME NEW w \in Workers,
             \/ Claim(w) \/ ClaimUnheard(w) \/ Heartbeat(w)
             \/ Succeed(w) \/ SucceedTimesOut(w) \/ Fail(w)
      PROVE  FALSE
  BY <1>2 DEF Claim, ClaimUnheard, Heartbeat, Succeed, SucceedTimesOut, Fail
<1>3. ASSUME NEW q \in Reconcilers, Recover(q) \/ RequeueDue(q) \/ Touch(q)
      PROVE  q = r
  <2>1. \A p \in Reconcilers \ {q} :
          rpc'[p] = rpc[p] /\ rjob'[p] = rjob[p] /\ todo'[p] = todo[p]
    <3>1. CASE Recover(q)
      BY <3>1 DEF Recover, ReconcilerGoesTo, Visited, TypeOK
    <3>2. CASE RequeueDue(q)
      BY <3>2, RequeuedRows DEF RequeueDue, ReconcilerGoesTo, TypeOK
    <3>3. CASE Touch(q)
      BY <3>3 DEF Touch, ReconcilerGoesTo, Visited, TypeOK
    <3> QED BY <1>3, <3>1, <3>2, <3>3
  <2> QED BY <2>1
<1> QED BY <1>1, <1>2, <1>3 DEF TableWriter

\* Nobody but a reconciler moves the leader lock or a reconciler's session.
LEMMA LeaderLeftAlone ==
  ASSUME Time \/ Api \/ BrokerFlush \/ \E w \in Workers : Worker(w)
  PROVE  UNCHANGED <<leader, rsession>>
<1> USE DEF lockVars, reconcilerVars
<1>1. CASE Time \/ Api \/ BrokerFlush
  BY <1>1 DEF Time, ClockPasses, LeaseExpires, RowAges, Api, Enqueue,
              EnqueueAgain, ApiPublish, ApiPublishFails, BrokerFlush
<1>2. ASSUME NEW w \in Workers, Worker(w)
      PROVE  UNCHANGED <<leader, rsession>>
  <2>1. CASE \/ \E j \in Jobs : Receive(w, j)
             \/ Heartbeat(w) \/ HeartbeatRejected(w) \/ WorkEnds(w)
    BY <2>1 DEF Receive, Heartbeat, HeartbeatRejected, WorkEnds, WorkReturns,
                WorkRaises
  <2>2. CASE WorkerStep(w)
    BY <2>2 DEF WorkerStep, TryLock, LockRefused, Claim, ClaimRefused, Succeed,
                Fail, FailRefused, Release, SessionLossFound, Leave
  <2>3. CASE WorkerFault(w)
    BY <2>3 DEF WorkerFault, ClaimUnheard, HeartbeatBreaks, SucceedTimesOut,
                SessionLost, WorkerCrash, BrokerRedeliver, Leave
  <2> QED BY <1>2, <2>1, <2>2, <2>3 DEF Worker
<1> QED BY <1>1, <1>2

\* One case for each way that a reconciler takes or drops lock and session.
LEMMA LeaderStep ==
  TypeOK /\ LeaderHasItsSession /\ [Next]_vars => LeaderHasItsSession'
<1> SUFFICES ASSUME TypeOK, LeaderHasItsSession, [Next]_vars
             PROVE  LeaderHasItsSession'
  OBVIOUS
<1> USE NamesAssumption DEF lockVars
<1>1. CASE UNCHANGED <<leader, rsession>>
  BY <1>1 DEF LeaderHasItsSession
<1>2. ASSUME NEW r \in Reconcilers, Lead(r) PROVE LeaderHasItsSession'
  BY <1>2 DEF Lead, LeaderHasItsSession, TypeOK
<1>3. ASSUME NEW r \in Reconcilers, rsession' = [rsession EXCEPT ![r] = FALSE],
             leader' = IF leader = r THEN None ELSE leader
      PROVE  LeaderHasItsSession'
  BY <1>3 DEF LeaderHasItsSession, TypeOK
<1>4. ASSUME NEW r \in Reconcilers, ReconcilerStep(r) \/ ReconcilerFault(r)
      PROVE  LeaderHasItsSession'
  <2>1. CASE Finish(r) \/ LeaderLossFound(r) \/ ReconcilerFault(r)
    BY <1>3, <2>1 DEF Finish, LeaderLossFound, ReconcilerFault, ReconcilerFails,
                      LeaderSessionLost, Retire
  <2> QED BY <1>1, <1>2, <1>4, <2>1
          DEF ReconcilerStep, FindCandidates, LockCandidate, SkipCandidate, Recover,
              RequeueDue, PublishDue, FindOldQueued, Redispatch, Touch
<1>5. CASE UNCHANGED vars
  BY <1>1, <1>5 DEF vars, reconcilerVars
<1> QED BY <1>1, <1>4, <1>5, LeaderLeftAlone DEF Next

\* Whatever a deposed reconciler still does, only the holder of the leader lock
\* writes the tables in a pass.
THEOREM LeaderCorrect == Spec => OnlyTheLeaderWrites
<1>1. Init => LeaderHasItsSession
  BY DEF Init, LeaderHasItsSession
<1>2. TypeOK /\ LeaderHasItsSession /\ [Next]_vars => [LeaderWrites]_vars
  BY OnlyWritersWrite, WriterMovesItself, WritersAreInSession
     DEF LeaderHasItsSession, LeaderWrites
<1> QED BY <1>1, <1>2, LeaderStep, TypeCorrect, PTL DEF Spec, OnlyTheLeaderWrites

-----------------------------------------------------------------------------
(* The refinement of JobLifecycle.  The history that HistoryOf reads from  *)
(* the events table is first expressed by the row alone (HistoryKnown),    *)
(* from EventsReplayTheRow; each of the five moves of a row is then a move *)
(* of the lifecycle, or none.                                              *)

\* The number of attempts that are over, and the outcome of the n-th of them.
AttemptsOver(j) == IF state[j] = "running" THEN attempt[j] - 1 ELSE attempt[j]
OutcomeOf(j, n) == IF n < attempt[j] THEN "JOB_RETRY_SCHEDULED" ELSE LastOutcome(state[j])

\* What HistoryOf reads from the events table is what the row says.
HistoryKnown ==
  \A j \in Jobs :
    /\ AttemptsOver(j) \in Nat
    /\ HistoryOf(j) = [n \in 1 .. AttemptsOver(j) |-> OutcomeOf(j, n)]

\* OutcomeOf names one of the four outcomes.
LEMMA OutcomeIsOne == ASSUME NEW j \in Jobs, NEW n PROVE OutcomeOf(j, n) \in Outcomes
  BY DEF OutcomeOf, LastOutcome, Outcomes

\* The outcomes among the events of a job are one for each attempt that is over.
LEMMA OutcomesForm ==
  ASSUME TypeOK, StoryInv, NEW j \in Jobs
  PROVE  OutcomesOf(j) = {<<j, OutcomeOf(j, n), n>> : n \in 1 .. AttemptsOver(j)}
<1>1. OutcomesOf(j) = {e \in StoryOf(j) : e[2] \in Outcomes}
  BY DEF StoryInv, EventsReplayTheRow, EventsOf, OutcomesOf
<1>2. /\ attempt[j] \in Nat
      /\ state[j] = "absent" => attempt[j] = 0
      /\ state[j] = "running" => attempt[j] > 0
  BY DEF TypeOK, StoryInv, AttemptsStarted
<1>3. <<j, "ENQUEUED", 0>>[2] \notin Outcomes
  BY DEF Outcomes
<1>4. CASE state[j] = "absent"
  BY <1>1, <1>2, <1>4 DEF StoryOf, AttemptsOver
<1>5. CASE state[j] = "running"
  <2>1. StoryOf(j) = {<<j, "ENQUEUED", 0>>}
                     \cup {<<j, "JOB_RETRY_SCHEDULED", n>> : n \in 1 .. (attempt[j] - 1)}
    BY <1>5 DEF StoryOf
  <2>2. OutcomesOf(j) = {<<j, "JOB_RETRY_SCHEDULED", n>> : n \in 1 .. (attempt[j] - 1)}
    BY <1>1, <1>3, <2>1 DEF Outcomes
  <2>3. \A n \in 1 .. (attempt[j] - 1) : OutcomeOf(j, n) = "JOB_RETRY_SCHEDULED"
    BY <1>2 DEF OutcomeOf
  <2> QED BY <1>5, <2>2, <2>3 DEF AttemptsOver
<1>6. CASE state[j] \notin {"absent", "running"} /\ attempt[j] > 0
  <2>1. StoryOf(j) = {<<j, "ENQUEUED", 0>>}
                     \cup {<<j, "JOB_RETRY_SCHEDULED", n>> : n \in 1 .. (attempt[j] - 1)}
                     \cup {<<j, LastOutcome(state[j]), attempt[j]>>}
    BY <1>6 DEF StoryOf
  <2>2. OutcomesOf(j) = {<<j, "JOB_RETRY_SCHEDULED", n>> : n \in 1 .. (attempt[j] - 1)}
                        \cup {<<j, LastOutcome(state[j]), attempt[j]>>}
    <3>1. LastOutcome(state[j]) \in Outcomes
      BY DEF LastOutcome, Outcomes
    <3> QED BY <1>1, <1>3, <2>1, <3>1 DEF Outcomes
  <2>3. /\ \A n \in 1 .. (attempt[j] - 1) : OutcomeOf(j, n) = "JOB_RETRY_SCHEDULED"
        /\ OutcomeOf(j, attempt[j]) = LastOutcome(state[j])
    BY <1>2 DEF OutcomeOf
  <2>4. 1 .. attempt[j] = 1 .. (attempt[j] - 1) \cup {attempt[j]}
    BY <1>2, <1>6
  <2> QED BY <1>6, <2>2, <2>3, <2>4 DEF AttemptsOver
<1>7. CASE state[j] \notin {"absent", "running"} /\ attempt[j] = 0
  <2>1. StoryOf(j) = {<<j, "ENQUEUED", 0>>}
                     \cup {<<j, "JOB_RETRY_SCHEDULED", n>> : n \in 1 .. (attempt[j] - 1)}
    BY <1>7 DEF StoryOf
  <2> QED BY <1>1, <1>3, <1>7, <2>1 DEF AttemptsOver
<1> QED BY <1>2, <1>4, <1>5, <1>6, <1>7

\* Counting the outcomes of a job and choosing each of them gives its history.
LEMMA HistoryIsKnown == TypeOK /\ StoryInv => HistoryKnown
<1> SUFFICES ASSUME TypeOK, StoryInv, NEW j \in Jobs
             PROVE  /\ AttemptsOver(j) \in Nat
                    /\ HistoryOf(j) = [n \in 1 .. AttemptsOver(j) |-> OutcomeOf(j, n)]
  BY DEF HistoryKnown
<1> DEFINE over == 1 .. AttemptsOver(j)
           event == [n \in over |-> <<j, OutcomeOf(j, n), n>>]
<1>1. AttemptsOver(j) \in Nat
  <2>1. attempt[j] \in Nat /\ (state[j] = "running" => attempt[j] > 0)
    BY DEF TypeOK, StoryInv, AttemptsStarted
  <2> QED BY <2>1 DEF AttemptsOver
<1>2. OutcomesOf(j) = {<<j, OutcomeOf(j, n), n>> : n \in over}
  BY OutcomesForm
<1>3. Cardinality(OutcomesOf(j)) = AttemptsOver(j)
  <2>1. event \in Bijection(over, OutcomesOf(j))
    <3>1. event \in [over -> OutcomesOf(j)]
      BY <1>2
    <3>2. \A m, n \in over : event[m] = event[n] => m = n
      OBVIOUS
    <3>3. \A e \in OutcomesOf(j) : \E n \in over : event[n] = e
      BY <1>2
    <3> QED BY <3>1, <3>2, <3>3 DEF Bijection, Injection, Surjection, IsInjective
  <2>2. ExistsBijection(over, OutcomesOf(j))
    BY <2>1 DEF ExistsBijection
  <2>3. IsFiniteSet(over) /\ Cardinality(over) = AttemptsOver(j)
    BY <1>1, FS_Interval
  <2> QED BY <2>2, <2>3, FS_Bijection
<1>4. ASSUME NEW n \in over
      PROVE  (CHOOSE o \in Outcomes : <<j, o, n>> \in events) = OutcomeOf(j, n)
  <2>1. \A o \in Outcomes : <<j, o, n>> \in events <=> o = OutcomeOf(j, n)
    <3>1. \A o \in Outcomes : <<j, o, n>> \in events <=> <<j, o, n>> \in OutcomesOf(j)
      BY DEF OutcomesOf
    <3> QED BY <1>2, <3>1, OutcomeIsOne
  <2> QED BY <2>1, OutcomeIsOne
<1> QED BY <1>1, <1>3, <1>4 DEF HistoryOf

\* A step that closes no attempt of a job leaves its history as it is.
LEMMA HistoryKept ==
  ASSUME TypeOK, StoryInv, HistoryKnown, HistoryKnown', NEW j \in Jobs,
         RowKept(j) \/ RowEnqueued(j) \/ RowClaimed(j) \/ RowRequeued(j)
  PROVE  HistoryOf(j)' = HistoryOf(j)
<1>1. /\ attempt[j] \in Nat
      /\ state[j] = "absent" => attempt[j] = 0
      /\ state[j] \notin {"absent", "queued"} => attempt[j] > 0
  BY DEF TypeOK, StoryInv, AttemptsStarted
<1>2. AttemptsOver(j)' = AttemptsOver(j)
  BY <1>1 DEF AttemptsOver, RowKept, RowEnqueued, RowClaimed, RowRequeued
<1>3. ASSUME NEW n \in 1 .. AttemptsOver(j)
      PROVE  OutcomeOf(j, n)' = OutcomeOf(j, n)
  <2>1. CASE RowKept(j)
    BY <2>1 DEF RowKept, OutcomeOf
  <2>2. CASE RowEnqueued(j)
    BY <1>1, <1>3, <2>2 DEF RowEnqueued, AttemptsOver
  <2>3. CASE RowClaimed(j)
    BY <1>1, <1>3, <2>3 DEF RowClaimed, AttemptsOver, OutcomeOf, LastOutcome
  <2>4. CASE RowRequeued(j)
    BY <2>4 DEF RowRequeued, OutcomeOf, LastOutcome
  <2> QED BY <2>1, <2>2, <2>3, <2>4
<1> QED BY <1>2, <1>3 DEF HistoryKnown

\* A step that closes an attempt adds its outcome at the end.
LEMMA HistoryGrows ==
  ASSUME TypeOK, StoryInv, HistoryKnown, HistoryKnown', NEW j \in Jobs, RowClosed(j)
  PROVE  /\ Len(HistoryOf(j)) = attempt[j] - 1
         /\ HistoryOf(j)' = Append(HistoryOf(j), LastOutcome(state'[j]))
<1>1. attempt[j] \in Nat /\ attempt[j] > 0
  BY DEF TypeOK, StoryInv, AttemptsStarted, RowClosed
<1>2. /\ AttemptsOver(j) = attempt[j] - 1
      /\ AttemptsOver(j)' = attempt[j]
  BY <1>1 DEF AttemptsOver, RowClosed
<1>3. HistoryOf(j) \in Seq(Outcomes) /\ Len(HistoryOf(j)) = attempt[j] - 1
  BY <1>1, <1>2, OutcomeIsOne DEF HistoryKnown
<1>4. HistoryOf(j)' = [n \in 1 .. attempt[j] |-> OutcomeOf(j, n)']
  BY <1>2 DEF HistoryKnown
<1>5. ASSUME NEW n \in 1 .. attempt[j]
      PROVE  OutcomeOf(j, n)' = IF n < attempt[j] THEN HistoryOf(j)[n] ELSE LastOutcome(state'[j])
  <2>1. CASE n < attempt[j]
    BY <1>1, <1>2, <2>1 DEF HistoryKnown, OutcomeOf, RowClosed
  <2>2. CASE ~(n < attempt[j])
    BY <2>2 DEF OutcomeOf, LastOutcome, RowClosed
  <2> QED BY <2>1, <2>2
<1> QED BY <1>1, <1>3, <1>4, <1>5

\* The moves that the frozen graph admits, as far as the services make them.
LEMMA AdmittedMoves ==
  /\ Lifecycle!Admitted("absent", "queued")
  /\ Lifecycle!Admitted("queued", "running")
  /\ \A s \in {"succeeded", "retrying", "failed-terminal", "blocked-owner-action"} :
       /\ Lifecycle!Admitted("running", s)
       /\ Lifecycle!StateAfter(LastOutcome(s)) = s
       /\ LastOutcome(s) \in Lifecycle!Outcomes
       /\ LastOutcome(s) = "JOB_RETRY_SCHEDULED" => s = "retrying"
<1>1. Lifecycle!Admitted("absent", "queued") /\ Lifecycle!Admitted("queued", "running")
  BY DEF Lifecycle!Admitted, Lifecycle!Allowed, Lifecycle!JobStates
<1>2. Lifecycle!Allowed["running"] = {"succeeded", "retrying", "blocked-owner-action",
                                      "failed-terminal", "cancelled"}
  BY DEF Lifecycle!Allowed, Lifecycle!JobStates
<1>3. ASSUME NEW s \in {"succeeded", "retrying", "failed-terminal", "blocked-owner-action"}
      PROVE  /\ Lifecycle!Admitted("running", s)
             /\ Lifecycle!StateAfter(LastOutcome(s)) = s
             /\ LastOutcome(s) \in Lifecycle!Outcomes
             /\ LastOutcome(s) = "JOB_RETRY_SCHEDULED" => s = "retrying"
  BY <1>2 DEF Lifecycle!Admitted, Lifecycle!StateAfter, Lifecycle!Outcomes,
     LastOutcome
<1> QED BY <1>1, <1>3

\* Every step of the engine is a step of the lifecycle or leaves it as it is.
LEMMA LifecycleStep ==
  TypeOK /\ TypeOK' /\ StoryInv /\ AttemptsBounded /\ HistoryKnown /\ HistoryKnown'
    /\ [Next]_vars => [Lifecycle!LNext]_(Lifecycle!lifecycleVars)
<1> SUFFICES ASSUME TypeOK, TypeOK', StoryInv, AttemptsBounded,
                    HistoryKnown, HistoryKnown', [Next]_vars
             PROVE  [Lifecycle!LNext]_(Lifecycle!lifecycleVars)
  OBVIOUS
<1> DEFINE history == [j \in Jobs |-> HistoryOf(j)]
<1>1. state \in [Jobs -> JobStates] /\ state' \in [Jobs -> JobStates]
  BY DEF TypeOK
<1>2. CASE \A j \in Jobs : RowKept(j) \/ RowRequeued(j)
  <2> DEFINE S == {j \in Jobs : RowRequeued(j)}
  <2>1. UNCHANGED history
    BY <1>2, HistoryKept
  <2>2. S \in SUBSET {j \in Jobs : state[j] = "retrying"}
    BY DEF RowRequeued
  <2>3. state' = [j \in Jobs |-> IF j \in S THEN "queued" ELSE state[j]]
    BY <1>1, <1>2 DEF RowKept, RowRequeued
  <2>4. Lifecycle!RequeueMany
    BY <2>1, <2>2, <2>3 DEF Lifecycle!RequeueMany
  <2> QED BY <2>4 DEF Lifecycle!LNext
<1>3. ASSUME NEW i \in Jobs, RowEnqueued(i) \/ RowClaimed(i) \/ RowClosed(i),
             \A j \in Jobs \ {i} : RowKept(j)
      PROVE  Lifecycle!LNext
  <2>1. state' = [state EXCEPT ![i] = state'[i]]
    BY <1>1, <1>3 DEF RowKept
  <2>2. \A j \in Jobs \ {i} : HistoryOf(j)' = HistoryOf(j)
    BY <1>3, HistoryKept
  <2>3. CASE RowEnqueued(i)
    <3>1. UNCHANGED history
      BY <2>2, <2>3, HistoryKept
    <3>2. Lifecycle!Create(i)
      BY <2>1, <2>3, <3>1, AdmittedMoves DEF RowEnqueued, Lifecycle!Create,
         Lifecycle!MoveTo
    <3> QED BY <3>2 DEF Lifecycle!LNext
  <2>4. CASE RowClaimed(i)
    <3>1. UNCHANGED history
      BY <2>2, <2>4, HistoryKept
    <3>2. Len(history[i]) < MaxAttempts
      <4>1. /\ attempt[i] \in Nat
            /\ attempt[i] < MaxAttempts
            /\ AttemptsOver(i) = attempt[i]
        BY <2>4 DEF RowClaimed, TypeOK, AttemptsBounded, AttemptsOver
      <4>2. Len(HistoryOf(i)) = attempt[i]
        BY <4>1, OutcomeIsOne DEF HistoryKnown
      <4> QED BY <4>1, <4>2
    <3>3. Lifecycle!Open(i)
      BY <2>1, <2>4, <3>1, <3>2, AdmittedMoves DEF RowClaimed, Lifecycle!Open,
         Lifecycle!MoveTo
    <3> QED BY <3>3 DEF Lifecycle!LNext
  <2>5. CASE RowClosed(i)
    <3> DEFINE o == LastOutcome(state'[i])
    <3>1. /\ state[i] = "running"
          /\ state'[i] \in {"succeeded", "retrying", "failed-terminal", "blocked-owner-action"}
          /\ state'[i] = "retrying" => attempt[i] < MaxAttempts
          /\ attempt[i] \in Nat
      BY <2>5 DEF RowClosed, TypeOK
    <3>2. /\ Lifecycle!Admitted("running", state'[i])
          /\ Lifecycle!StateAfter(o) = state'[i]
          /\ o \in Lifecycle!Outcomes
          /\ o = "JOB_RETRY_SCHEDULED" => state'[i] = "retrying"
      BY <3>1, AdmittedMoves
    <3>3. /\ Len(history[i]) = attempt[i] - 1
          /\ HistoryOf(i)' = Append(history[i], o)
      BY <2>5, HistoryGrows
    <3>4. history' = [history EXCEPT ![i] = Append(@, o)]
      BY <2>2, <3>3
    <3>5. o = "JOB_RETRY_SCHEDULED" => Len(history[i]) + 1 < MaxAttempts
      BY <3>1, <3>2, <3>3
    <3>6. Lifecycle!Close(i, o)
      BY <2>1, <3>1, <3>2, <3>4, <3>5 DEF Lifecycle!Close, Lifecycle!MoveTo
    <3> QED BY <3>2, <3>6 DEF Lifecycle!LNext
  <2> QED BY <1>3, <2>3, <2>4, <2>5
<1> QED BY <1>2, <1>3, TableSteps DEF TableStep

\* The durable-job engine implements the lifecycle that the frozen graph promises.
THEOREM LifecycleImplemented == Spec => ImplementsLifecycle
<1>1. Init => Lifecycle!LInit
  <2> SUFFICES ASSUME Init PROVE Lifecycle!LInit
    OBVIOUS
  <2>1. \A j \in Jobs : OutcomesOf(j) = {}
    BY DEF Init, OutcomesOf
  <2>2. ASSUME NEW j \in Jobs PROVE HistoryOf(j) = <<>>
    <3>1. Cardinality(OutcomesOf(j)) = 0
      BY <2>1, FS_EmptySet
    <3>2. HistoryOf(j) \in Seq(Outcomes) /\ Len(HistoryOf(j)) = 0
      BY <3>1 DEF HistoryOf
    <3> QED BY <3>2, EmptySeq
  <2>3. [j \in Jobs |-> HistoryOf(j)] = [j \in Jobs |-> <<>>]
    BY <2>2
  <2>4. state = [j \in Jobs |-> "absent"]
    BY DEF Init
  <2> QED BY <2>3, <2>4 DEF Lifecycle!LInit
<1>2. Init => StoryInv
  BY DEF Init, StoryInv, EventsReplayTheRow, AttemptsStarted, EventsOf, StoryOf
<1>3. Spec => []StoryInv
  BY <1>2, StoryStep, TypeCorrect, PTL DEF Spec
<1>4. Spec => []HistoryKnown
  BY <1>3, HistoryIsKnown, TypeCorrect, PTL
<1> QED BY <1>1, <1>3, <1>4, LifecycleStep, TypeCorrect, AttemptsCorrect, PTL
        DEF Spec, ImplementsLifecycle, Lifecycle!LSpec
=============================================================================
