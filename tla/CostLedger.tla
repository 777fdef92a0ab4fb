---------------------------- MODULE CostLedger ----------------------------
(***************************************************************************)
(* The cost ledger under concurrent, repeated and broken calls of          *)
(* CostLedgerRepository: reserve, record_unpaid_commitment,                *)
(* record_prepaid_funding, record_provider_usage and reconcile, each in an *)
(* owner transaction of its own.                                           *)
(*                                                                         *)
(* One statement is one action, at READ COMMITTED: an insertion waits for  *)
(* an uncommitted row of its key, an update for an uncommitted update of   *)
(* its row, and then looks again.  Bookings share the unique index on      *)
(* idempotency_key; usage has one of its own on (provider, request_id),    *)
(* and is recorded here with the request id that makes a retry             *)
(* recognisable; a retry is compared on service and job only (Compared).   *)
(* Identifiers are passed in their canonical spelling.                     *)
(***************************************************************************)
EXTENDS Naturals, FiniteSets

CONSTANTS Calls,      \* concurrent calls
          Keys,       \* idempotency keys and request ids
          Meanings,   \* amounts, and the other fields of a request
          Subject,    \* Subject[m]: of these, what a usage is about: service and job
          MaxFaults   \* bound: faults in one behaviour

ASSUME FaultsAssumption == MaxFaults \in Nat

VARIABLES rows,       \* committed rows of cost_ledger and provider_usage
          audit,      \* audit[k]: committed audit records of reconciliations of k
          newRow,     \* newRow[c]: what the open transaction of c has inserted
          newActual,  \* newActual[c]: what it has reconciled, at most one <<key, actual>>
          pc, asked,  \* where a call is, and what it asks for
          faults

tables == <<rows, audit>>
open == <<newRow, newActual>>
vars == <<tables, open, pc, asked, faults>>

Bookings == {"reserve", "commit", "fund"}
Operations == Bookings \cup {"usage", "reconcile"}
Requests == [op : Operations, key : Keys, meaning : Meanings]

Pending == "pending"      \* actual_cost_usd and reconciled_at are NULL

ASSUME PendingAssumption == Pending \notin Meanings

\* Funding is cash: it comes in with its actual amount.
RowOf(q) == [op |-> q.op, key |-> q.key, meaning |-> q.meaning,
             actual |-> IF q.op = "fund" THEN q.meaning ELSE Pending]

Ended == {"done", "refused", "broken"}

Init ==
  /\ rows = {}
  /\ audit = [k \in Keys |-> 0]
  /\ newRow = [c \in Calls |-> {}]
  /\ newActual = [c \in Calls |-> {}]
  /\ pc = [c \in Calls |-> "idle"]
  /\ asked \in [Calls -> Requests]
  /\ faults = 0

-----------------------------------------------------------------------------

GoesTo(c, place) == pc' = [pc EXCEPT ![c] = place]

Fault == faults < MaxFaults /\ faults' = faults + 1

SameIndex(op1, op2) == (op1 \in Bookings) = (op2 \in Bookings)

\* The rows among some that take the place of the row that c wants to insert.
Taken(c, some) ==
  {r \in some : SameIndex(r.op, asked[c].op) /\ r.key = asked[c].key}

InFlight(c) == UNION {newRow[d] : d \in Calls \ {c}}

Begin(c) ==
  /\ pc[c] = "idle"
  /\ GoesTo(c, "write")
  /\ UNCHANGED <<tables, open, asked, faults>>

\* INSERT ... ON CONFLICT DO NOTHING RETURNING: the row goes in,
Insert(c) ==
  /\ pc[c] = "write"
  /\ asked[c].op # "reconcile"
  /\ Taken(c, rows \cup InFlight(c)) = {}
  /\ newRow' = [newRow EXCEPT ![c] = {RowOf(asked[c])}]
  /\ GoesTo(c, "commit")
  /\ UNCHANGED <<tables, newActual, asked, faults>>

\* or its key is taken and nothing is returned.
InsertFindsKey(c) ==
  /\ pc[c] = "write"
  /\ asked[c].op # "reconcile"
  /\ Taken(c, rows) # {}
  /\ GoesTo(c, "lookup")
  /\ UNCHANGED <<tables, open, asked, faults>>

\* What a replay is compared on: all that a booking is given, but of a usage the
\* service and the job only; its units, its model and its report may differ.
Compared(q) == IF q.op = "usage" THEN Subject[q.meaning] ELSE q.meaning

\* Mutant of SameRequest: the actual cost of the row is compared for every booking.
SameWithActual(r, q) ==
  /\ <<r.op, Compared(r)>> = <<q.op, Compared(q)>>
  /\ r.actual = RowOf(q).actual

\* Mutant of SameRequest: the key is enough.
SameKey(r, q) == SameIndex(r.op, q.op) /\ r.key = q.key

\* _verify_replay, or the comparison of record_provider_usage; whether the row has
\* been reconciled matters for funding only, where it always has been.
SameRequest(r, q) ==
  /\ <<r.op, Compared(r)>> = <<q.op, Compared(q)>>
  /\ q.op = "fund" => r.actual = q.meaning

\* _load_existing, or the select on provider_usage, and the comparison.
Lookup(c) ==
  /\ pc[c] = "lookup"
  /\ GoesTo(c, IF \A r \in Taken(c, rows) : SameRequest(r, asked[c])
               THEN "done" ELSE "refused")
  /\ UNCHANGED <<tables, open, asked, faults>>

Booked(c) == {r \in rows : r.op \in Bookings /\ r.key = asked[c].key}
Locked(c) == \E d \in Calls \ {c} : \E n \in newActual[d] : n[1] = asked[c].key

\* Mutant of Reconcile: neither the statement nor the trigger asks for NULLs.
ReconcileAgain(c) ==
  /\ pc[c] = "write"
  /\ asked[c].op = "reconcile"
  /\ ~Locked(c)
  /\ Booked(c) # {}
  /\ newActual' = [newActual EXCEPT ![c] = {<<asked[c].key, asked[c].meaning>>}]
  /\ GoesTo(c, "commit")
  /\ UNCHANGED <<tables, newRow, asked, faults>>

\* Mutant of Reconcile: two updates of a row do not wait for each other.
ReconcileUnlocked(c) ==
  /\ pc[c] = "write"
  /\ asked[c].op = "reconcile"
  /\ \E r \in Booked(c) : r.actual = Pending
  /\ newActual' = [newActual EXCEPT ![c] = {<<asked[c].key, asked[c].meaning>>}]
  /\ GoesTo(c, "commit")
  /\ UNCHANGED <<tables, newRow, asked, faults>>

\* The update finds the row unreconciled; the trigger checks the same once more
\* and adds the audit record to the transaction.
Reconcile(c) ==
  /\ pc[c] = "write"
  /\ asked[c].op = "reconcile"
  /\ ~Locked(c)
  /\ \E r \in Booked(c) : r.actual = Pending
  /\ newActual' = [newActual EXCEPT ![c] = {<<asked[c].key, asked[c].meaning>>}]
  /\ GoesTo(c, "commit")
  /\ UNCHANGED <<tables, newRow, asked, faults>>

\* "absent or already reconciled"
ReconcileFindsNone(c) ==
  /\ pc[c] = "write"
  /\ asked[c].op = "reconcile"
  /\ ~Locked(c)
  /\ \A r \in Booked(c) : r.actual # Pending
  /\ GoesTo(c, "refused")
  /\ UNCHANGED <<tables, open, asked, faults>>

CloseTransaction(c) ==
  /\ newRow' = [newRow EXCEPT ![c] = {}]
  /\ newActual' = [newActual EXCEPT ![c] = {}]

\* Row by row, what the update of c makes of the table.
Updated(c, r) ==
  IF r.op \in Bookings /\ \E n \in newActual[c] : n[1] = r.key
  THEN [r EXCEPT !.actual = (CHOOSE n \in newActual[c] : TRUE)[2]]
  ELSE r

CommitTables(c) ==
  /\ rows' = {Updated(c, r) : r \in rows} \cup newRow[c]
  /\ audit' = [k \in Keys |-> audit[k] + Cardinality({n \in newActual[c] : n[1] = k})]
  /\ CloseTransaction(c)

Commit(c) ==
  /\ pc[c] = "commit"
  /\ CommitTables(c)
  /\ GoesTo(c, "done")
  /\ UNCHANGED <<asked, faults>>

\* The commit takes effect but its answer is lost.
CommitUnheard(c) ==
  /\ Fault
  /\ pc[c] = "commit"
  /\ CommitTables(c)
  /\ GoesTo(c, "broken")
  /\ UNCHANGED asked

\* Mutant of Break: the transaction is left open.
BreakInTransaction(c) ==
  /\ Fault
  /\ pc[c] \in {"write", "lookup", "commit"}
  /\ GoesTo(c, "broken")
  /\ UNCHANGED <<tables, open, asked>>

\* The call fails or is cancelled; what it had open is rolled back.
Break(c) ==
  /\ Fault
  /\ pc[c] \in {"write", "lookup", "commit"}
  /\ CloseTransaction(c)
  /\ GoesTo(c, "broken")
  /\ UNCHANGED <<tables, asked>>

\* The caller repeats a call that ended with an error.
Repeat(c) ==
  /\ pc[c] = "broken"
  /\ GoesTo(c, "write")
  /\ UNCHANGED <<tables, open, asked, faults>>

CallStep(c) ==
  \/ Insert(c) \/ InsertFindsKey(c) \/ Lookup(c)
  \/ Reconcile(c) \/ ReconcileFindsNone(c)
  \/ Commit(c)

Next ==
  \E c \in Calls : Begin(c) \/ CallStep(c) \/ CommitUnheard(c) \/ Break(c) \/ Repeat(c)

Spec == Init /\ [][Next]_vars

\* A call that can go on goes on; nobody is obliged to call, repeat or fail.
FairSpec == Spec /\ \A c \in Calls : WF_vars(CallStep(c))

-----------------------------------------------------------------------------
(* Properties.                                                             *)

\* Who is told that something is booked finds it so with every field of the own
\* request, after a reconciliation with the own actual cost, whoever else called
\* meanwhile and whatever was rolled back.  Who is told that a usage is recorded
\* finds one of that service and job under the request id: of two reports with
\* different units the first one stands, and both are told that it is recorded.
AnsweredByItsOwnRow ==
  \A c \in Calls : pc[c] = "done" =>
    \E r \in rows :
      /\ r.key = asked[c].key
      /\ CASE asked[c].op = "reconcile" ->
                r.op \in Bookings /\ r.actual = asked[c].meaning
           [] asked[c].op = "usage" ->
                r.op = "usage" /\ Subject[r.meaning] = Subject[asked[c].meaning]
           [] asked[c].op \in Bookings ->
                r.op = asked[c].op /\ r.meaning = asked[c].meaning

\* "reused with different immutable semantics" is said only where a row with
\* other fields stands under the key, of usage one of another service or job: a
\* repetition is recognised even if the row has been reconciled since.
RefusedOnlyForADifference ==
  \A c \in Calls : pc[c] = "refused" /\ asked[c].op # "reconcile" =>
    \E r \in Taken(c, rows) :
      <<r.op, Compared(r)>> # <<asked[c].op, Compared(asked[c])>>

\* Each reconciliation leaves exactly one audit record, and only a reconciliation
\* does, also when the answer is lost and the call repeated.
OneAuditRecordEach ==
  \A k \in Keys :
    audit[k] = Cardinality({r \in rows : /\ r.key = k
                                         /\ r.op \in {"reserve", "commit"}
                                         /\ r.actual # Pending})

\* The ledger is a history: no row goes, and a row changes once at most, from
\* unreconciled to reconciled.
HistoryIsImmutable ==
  [][\A r \in rows : \/ r \in rows'
                     \/ /\ r.actual = Pending
                        /\ \E m \in Meanings : [r EXCEPT !.actual = m] \in rows']_vars

\* No call waits for ever for the row of another one.
EveryCallEnds == \A c \in Calls : pc[c] = "write" ~> pc[c] \in Ended
=============================================================================
