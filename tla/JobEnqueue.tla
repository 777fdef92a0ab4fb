----------------------------- MODULE JobEnqueue -----------------------------
(***************************************************************************)
(* How a job comes to be recorded once: DurableJobStore.enqueue and        *)
(* enqueue_and_dispatch, called concurrently, repeated after failures, and *)
(* with keys that several callers use.                                     *)
(*                                                                         *)
(* One statement is one action, at READ COMMITTED: a statement sees what   *)
(* has been committed when it starts, and waits for an uncommitted row     *)
(* that it conflicts with.  ON CONFLICT names the unique index on          *)
(* idempotency_key alone.  A conflict in that index means "do nothing"; a  *)
(* conflict in the primary key, which is checked first when the row goes   *)
(* in, is an error, even if the two rows agree on the key as well.         *)
(*                                                                         *)
(* Names are sequences of segments, the pieces between their colons.  A    *)
(* request writes its UUIDs as PostgreSQL does (canonical) or in another   *)
(* spelling, in capitals say, which validate accepts as well; a row has no *)
(* spelling, and what is read of it is canonical.                          *)
(***************************************************************************)
EXTENDS Naturals, Sequences

CONSTANTS Calls,       \* concurrent calls of enqueue_and_dispatch
          Types, Keys, \* job types and idempotency keys: sequences of segments
          Meanings,    \* the other fields that a replay is compared on
          EventNames,
          MaxFaults    \* bound: faults in one behaviour

ASSUME MaxFaultsAssumption == MaxFaults \in Nat

VARIABLES jobs, events,  \* what is committed: rows, and <<key, event name>>
          newJob,        \* newJob[c], newEvent[c]: what the open transaction of
          newEvent,      \*   c has inserted, a set of at most one element
          advanced,      \* ids of the rows that have left the queue
          broker,        \* ids that have been published
          pc, asked,     \* where a call is, and what it asks for
          faults

tables == <<jobs, events>>
pending == <<newJob, newEvent>>
vars == <<tables, pending, advanced, broker, pc, asked, faults>>

Specs == [type : Types, key : Keys, meaning : Meanings, event : EventNames,
          canonical : BOOLEAN]

\* deterministic_job_id: uuid5 of "type:key"; uuid5 itself does not collide.
IdOf(s) == s.type \o s.key

\* What the request is as a row, ::uuid taken of what it spells.
RowOf(s) == [id |-> IdOf(s), key |-> s.key, type |-> s.type, meaning |-> s.meaning]

Ended == {"done", "refused", "clashed", "broken"}

Init ==
  /\ jobs = {}
  /\ events = {}
  /\ newJob = [c \in Calls |-> {}]
  /\ newEvent = [c \in Calls |-> {}]
  /\ advanced = {}
  /\ broker = {}
  /\ pc = [c \in Calls |-> "idle"]
  /\ asked \in [Calls -> Specs]
  /\ faults = 0

-----------------------------------------------------------------------------

Fault == faults < MaxFaults /\ faults' = faults + 1

GoesTo(c, place) == pc' = [pc EXCEPT ![c] = place]

\* The rows that the other open transactions have inserted.
InFlight(c) == UNION {newJob[d] : d \in Calls \ {c}}

SameKey(c, rows) == \E r \in rows : r.key = asked[c].key
SameId(c, rows) == \E r \in rows : r.id = IdOf(asked[c])

Begin(c) ==
  /\ pc[c] = "idle"
  /\ GoesTo(c, "insert")
  /\ UNCHANGED <<tables, pending, advanced, broker, asked, faults>>

\* The row goes in: nothing committed or in flight has its key or its id.
Insert(c) ==
  /\ pc[c] = "insert"
  /\ ~SameKey(c, jobs \cup InFlight(c))
  /\ ~SameId(c, jobs \cup InFlight(c))
  /\ newJob' = [newJob EXCEPT ![c] = {RowOf(asked[c])}]
  /\ GoesTo(c, "event")
  /\ UNCHANGED <<tables, newEvent, advanced, broker, asked, faults>>

\* The key is taken: ON CONFLICT DO NOTHING returns no row.
InsertFindsKey(c) ==
  /\ pc[c] = "insert"
  /\ SameKey(c, jobs)
  /\ GoesTo(c, "lookup")
  /\ UNCHANGED <<tables, pending, advanced, broker, asked, faults>>

\* The key is free but the id is taken: a violation of the primary key.
InsertFindsId(c) ==
  /\ pc[c] = "insert"
  /\ ~SameKey(c, jobs \cup InFlight(c))
  /\ SameId(c, jobs)
  /\ GoesTo(c, "clashed")
  /\ UNCHANGED <<tables, pending, advanced, broker, asked, faults>>

\* A row in flight is already in the primary key and not yet in the index on
\* idempotency_key, or not under this key: the insertion waits at the primary key.
Park(c) ==
  /\ pc[c] = "insert"
  /\ ~SameKey(c, jobs)
  /\ SameId(c, InFlight(c))
  /\ GoesTo(c, "parked")
  /\ UNCHANGED <<tables, pending, advanced, broker, asked, faults>>

\* The other transaction has ended: by commit, an error; by rollback, go on.
Unpark(c) ==
  /\ pc[c] = "parked"
  /\ ~SameId(c, InFlight(c))
  /\ GoesTo(c, IF SameId(c, jobs) THEN "clashed" ELSE "insert")
  /\ UNCHANGED <<tables, pending, advanced, broker, asked, faults>>

\* What a call does next with a row that it has read or written.
Dispatch(c) == GoesTo(c, IF IdOf(asked[c]) \in advanced THEN "done" ELSE "publish")

\* The row says, as text, what the request says: a request in another spelling
\* matches no row, not even its own.
Matches(c) == RowOf(asked[c]) \in jobs /\ asked[c].canonical

\* Mutant of Lookup: only the id is compared, not what the job means.
LookupById(c) ==
  /\ pc[c] = "lookup"
  /\ IF \E r \in jobs : r.key = asked[c].key /\ r.id = IdOf(asked[c])
     THEN Dispatch(c)
     ELSE GoesTo(c, "refused")
  /\ UNCHANGED <<tables, pending, advanced, broker, asked, faults>>

\* Mutant of Lookup: the event of the request is compared as well.
LookupWithEvent(c) ==
  /\ pc[c] = "lookup"
  /\ IF Matches(c) /\ <<asked[c].key, asked[c].event>> \in events
     THEN Dispatch(c)
     ELSE GoesTo(c, "refused")
  /\ UNCHANGED <<tables, pending, advanced, broker, asked, faults>>

\* Mutant of Lookup: the replay records its event too.
LookupAndRecord(c) ==
  /\ pc[c] = "lookup"
  /\ IF Matches(c) THEN GoesTo(c, "event") ELSE GoesTo(c, "refused")
  /\ UNCHANGED <<tables, pending, advanced, broker, asked, faults>>

\* The row under the key is compared with the request, field by field; the
\* event is not one of the fields, and a replay records none.
Lookup(c) ==
  /\ pc[c] = "lookup"
  /\ IF Matches(c) THEN Dispatch(c) ELSE GoesTo(c, "refused")
  /\ UNCHANGED <<tables, pending, advanced, broker, asked, faults>>

\* Mutant of InsertEvent: the job is published before the commit.
InsertEventAndPublish(c) ==
  /\ pc[c] = "event"
  /\ newEvent' = [newEvent EXCEPT ![c] = {<<asked[c].key, asked[c].event>>} \ events]
  /\ broker' = broker \cup {IdOf(asked[c])}
  /\ GoesTo(c, "commit")
  /\ UNCHANGED <<tables, newJob, advanced, asked, faults>>

InsertEvent(c) ==
  /\ pc[c] = "event"
  /\ newEvent' = [newEvent EXCEPT ![c] = {<<asked[c].key, asked[c].event>>} \ events]
  /\ GoesTo(c, "commit")
  /\ UNCHANGED <<tables, newJob, advanced, broker, asked, faults>>

CloseTransaction(c) ==
  /\ newJob' = [newJob EXCEPT ![c] = {}]
  /\ newEvent' = [newEvent EXCEPT ![c] = {}]

CommitTables(c) ==
  /\ jobs' = jobs \cup newJob[c]
  /\ events' = events \cup newEvent[c]
  /\ CloseTransaction(c)

Commit(c) ==
  /\ pc[c] = "commit"
  /\ CommitTables(c)
  /\ GoesTo(c, "publish")
  /\ UNCHANGED <<advanced, broker, asked, faults>>

\* The commit takes effect but its answer is lost.
CommitUnheard(c) ==
  /\ Fault
  /\ pc[c] = "commit"
  /\ CommitTables(c)
  /\ GoesTo(c, "broken")
  /\ UNCHANGED <<advanced, broker, asked>>

Publish(c) ==
  /\ pc[c] = "publish"
  /\ broker' = broker \cup {IdOf(asked[c])}
  /\ GoesTo(c, "done")
  /\ UNCHANGED <<tables, pending, advanced, asked, faults>>

\* Mutant of Break: the transaction is left open.
BreakInTransaction(c) ==
  /\ Fault
  /\ pc[c] \notin {"idle"} \cup Ended
  /\ GoesTo(c, "broken")
  /\ UNCHANGED <<tables, pending, advanced, broker, asked>>

\* The database, the broker or the API itself fails, or the call is cancelled; what
\* is open is rolled back, by owner_transaction or when the session ends.
Break(c) ==
  /\ Fault
  /\ pc[c] \notin {"idle"} \cup Ended
  /\ CloseTransaction(c)
  /\ GoesTo(c, "broken")
  /\ UNCHANGED <<tables, advanced, broker, asked>>

\* The caller repeats a request that ended with an error.
Repeat(c) ==
  /\ pc[c] \in {"broken", "clashed"}
  /\ GoesTo(c, "insert")
  /\ UNCHANGED <<tables, pending, advanced, broker, asked, faults>>

\* A worker claims a recorded job (DurableJobs).
Advance ==
  /\ \E r \in jobs : r.id \notin advanced /\ advanced' = advanced \cup {r.id}
  /\ UNCHANGED <<tables, pending, broker, pc, asked, faults>>

CallStep(c) ==
  \/ Insert(c) \/ InsertFindsKey(c) \/ InsertFindsId(c) \/ Park(c) \/ Unpark(c)
  \/ Lookup(c) \/ InsertEvent(c) \/ Commit(c) \/ Publish(c)

Next ==
  \/ \E c \in Calls : \/ Begin(c) \/ CallStep(c) \/ Repeat(c)
                      \/ CommitUnheard(c) \/ Break(c)
  \/ Advance

Spec == Init /\ [][Next]_vars

\* A call that can go on goes on; nobody is obliged to call, repeat or fail.
FairSpec == Spec /\ \A c \in Calls : WF_vars(CallStep(c))

-----------------------------------------------------------------------------
(* Properties.                                                             *)

\* A call is told of a job only if that very job is recorded: never of a job
\* that another call rolled back, or that means something else under its key.
AnsweredByItsOwnJob ==
  \A c \in Calls : pc[c] \in {"publish", "done"} => RowOf(asked[c]) \in jobs

\* "idempotency key reused with different job semantics" is said of a request in
\* canonical spelling only where a different job is recorded under the key: when
\* it is repeated, whatever race its first copy went through and whatever event
\* it names, it is not refused.  In another spelling it is, although the first
\* copy may have been accepted and recorded; but only where the key is taken.
RefusedOnlyForADifference ==
  \A c \in Calls : pc[c] = "refused" =>
    \E r \in jobs :
      /\ r.key = asked[c].key
      /\ asked[c].canonical => r # RowOf(asked[c])

\* The row and its event are recorded together: each job has one event, and no
\* event stands without its job, whatever is repeated or rolled back.
OneEventPerJob ==
  /\ \A e \in events : \E r \in jobs : r.key = e[1]
  /\ \A r \in jobs : \E e \in events :
       e[1] = r.key /\ \A f \in events : f[1] = r.key => f = e

\* "Commit durable truth first": nothing is published that a rollback could
\* still take back.
PublishedIsCommitted == broker \subseteq {r.id : r \in jobs}

\* No two calls wait for each other, and none waits for a transaction that
\* nobody ends.
EveryCallEnds == \A c \in Calls : pc[c] = "insert" ~> pc[c] \in Ended
=============================================================================
