-------------------------- MODULE CostLedgerProofs --------------------------
(***************************************************************************)
(* Theorems of CostLedger, for any number of calls, keys and faults.  The  *)
(* two unique indexes (OneRowPerKey, Reserved) and the lock of an updated  *)
(* row (Held) make a commit one of two things, a new row or the only       *)
(* reconciliation of a row (CommitEffect); the rest follows from that.     *)
(***************************************************************************)
EXTENDS CostLedger, FiniteSetTheorems, TLAPS

Rows == [op : Bookings \cup {"usage"}, key : Keys, meaning : Meanings,
         actual : Meanings \cup {Pending}]

Places == {"idle", "write", "lookup", "commit"} \cup Ended

\* Every variable has its type.
TypeOK ==
  /\ rows \subseteq Rows
  /\ audit \in [Keys -> Nat]
  /\ newRow \in [Calls -> SUBSET Rows]
  /\ newActual \in [Calls -> SUBSET (Keys \X Meanings)]
  /\ pc \in [Calls -> Places]
  /\ asked \in [Calls -> Requests]

Inserting(c) == pc[c] = "commit" /\ asked[c].op # "reconcile"
Reconciling(c) == pc[c] = "commit" /\ asked[c].op = "reconcile"

\* A transaction holds what its call asked for, and holds it only until it ends.
Transactions ==
  \A c \in Calls :
    /\ newRow[c] = IF Inserting(c) THEN {RowOf(asked[c])} ELSE {}
    /\ newActual[c] = IF Reconciling(c) THEN {<<asked[c].key, asked[c].meaning>>} ELSE {}

\* The unique indexes over the committed rows.
OneRowPerKey ==
  \A r, s \in rows : SameIndex(r.op, s.op) /\ r.key = s.key => r = s

\* The unique indexes over the rows of open transactions.
Reserved ==
  \A c \in Calls : Inserting(c) =>
    /\ Taken(c, rows) = {}
    /\ \A d \in Calls \ {c} : Inserting(d) =>
         ~(SameIndex(asked[c].op, asked[d].op) /\ asked[c].key = asked[d].key)

\* A row that is being reconciled is there, is pending, and is nobody else's.
Held ==
  \A c \in Calls : Reconciling(c) =>
    /\ \E r \in Booked(c) : r.actual = Pending
    /\ \A d \in Calls \ {c} : Reconciling(d) => asked[c].key # asked[d].key

\* Funding comes in with its actual amount; usage has none.
Actuals ==
  \A r \in rows : /\ r.op = "fund" => r.actual = r.meaning
                  /\ r.op = "usage" => r.actual = Pending

\* A call that looks a row up has seen that its key is taken.
Seen ==
  \A c \in Calls : pc[c] = "lookup" => asked[c].op # "reconcile" /\ Taken(c, rows) # {}

Safe == TypeOK /\ Transactions /\ OneRowPerKey /\ Reserved /\ Held /\ Actuals /\ Seen

-----------------------------------------------------------------------------
(* Lemmas: what a commit does.                                             *)

LEMMA RequestType ==
  ASSUME TypeOK, NEW c \in Calls
  PROVE  /\ asked[c] \in Requests
         /\ asked[c].op \in Operations
         /\ asked[c].key \in Keys
         /\ asked[c].meaning \in Meanings
         /\ asked[c].op # "reconcile" => RowOf(asked[c]) \in Rows
         /\ RowOf(asked[c]).op = asked[c].op
         /\ RowOf(asked[c]).key = asked[c].key
         /\ RowOf(asked[c]).meaning = asked[c].meaning
<1>1. asked[c] \in Requests
  BY DEF TypeOK
<1> QED BY <1>1 DEF Requests, Operations, RowOf, Rows

\* The row that a booking finds under its key, reconciled at a cost.
Reconciled(r, m) == [r EXCEPT !.actual = m]

\* What reconcile changes of a row, and what it leaves.
LEMMA ReconciledFields ==
  ASSUME NEW r \in Rows, NEW m \in Meanings
  PROVE  /\ Reconciled(r, m) \in Rows
         /\ Reconciled(r, m).op = r.op
         /\ Reconciled(r, m).key = r.key
         /\ Reconciled(r, m).meaning = r.meaning
         /\ Reconciled(r, m).actual = m
  BY DEF Rows, Reconciled

\* The commit of an insertion adds its row, of a key that was free,
Inserts(c) ==
  /\ asked[c].op # "reconcile"
  /\ Taken(c, rows) = {}
  /\ rows' = rows \cup {RowOf(asked[c])}
  /\ audit' = audit

\* and that of a reconciliation changes one pending row and adds one audit record.
Reconciles(c, r) ==
  /\ asked[c].op = "reconcile"
  /\ r.op \in {"reserve", "commit"} /\ r.key = asked[c].key /\ r.actual = Pending
  /\ \A s \in rows : s.op \in Bookings /\ s.key = r.key => s = r
  /\ rows' = (rows \ {r}) \cup {Reconciled(r, asked[c].meaning)}
  /\ audit' = [audit EXCEPT ![r.key] = @ + 1]

\* The commit of an insert adds its row, and nothing else.
LEMMA InsertionCommits ==
  ASSUME Safe, NEW c \in Calls, Inserting(c), CommitTables(c)
  PROVE  Inserts(c)
<1>1. newRow[c] = {RowOf(asked[c])} /\ newActual[c] = {}
  BY DEF Safe, Transactions, Inserting, Reconciling
<1>2. \A r \in rows : Updated(c, r) = r
  BY <1>1 DEF Updated
<1>3. rows' = rows \cup {RowOf(asked[c])}
  BY <1>1, <1>2 DEF CommitTables
<1>4. \A k \in Keys : Cardinality({n \in newActual[c] : n[1] = k}) = 0
  BY <1>1, FS_EmptySet
<1>5. audit' = audit
  <2>1. audit' = [k \in Keys |-> audit[k] + Cardinality({n \in newActual[c] : n[1] = k})]
    BY DEF CommitTables
  <2>2. audit \in [Keys -> Nat]
    BY DEF Safe, TypeOK
  <2>3. \A k \in Keys : audit[k] + Cardinality({n \in newActual[c] : n[1] = k}) = audit[k]
    BY <1>4, <2>2
  <2> QED BY <2>1, <2>2, <2>3
<1> QED BY <1>3, <1>5 DEF Inserts, Safe, Reserved, Inserting

\* The commit of a reconciliation replaces its row and adds its audit record.
LEMMA ReconciliationCommits ==
  ASSUME Safe, NEW c \in Calls, Reconciling(c), CommitTables(c)
  PROVE  \E r \in rows : Reconciles(c, r)
<1> DEFINE k == asked[c].key
           m == asked[c].meaning
<1>1. newRow[c] = {} /\ newActual[c] = {<<k, m>>}
  BY DEF Safe, Transactions, Inserting, Reconciling
<1>2. PICK r \in rows : r.op \in Bookings /\ r.key = k /\ r.actual = Pending
  BY DEF Safe, Held, Booked
<1>3. k \in Keys /\ m \in Meanings
  BY RequestType DEF Safe
<1>4. r.op \in {"reserve", "commit"}
  <2>1. r \in Rows
    BY DEF Safe, TypeOK
  <2> QED BY <1>2, <2>1, PendingAssumption DEF Safe, Actuals, Bookings, Rows
<1>5. \A s \in rows : s.op \in Bookings /\ s.key = k => s = r
  BY <1>2 DEF Safe, OneRowPerKey, SameIndex
<1>6. /\ \A s \in rows : s # r => Updated(c, s) = s
      /\ Updated(c, r) = Reconciled(r, m)
  <2>1. (CHOOSE n \in newActual[c] : TRUE)[2] = m
    <3>1. \E n : n \in newActual[c] /\ TRUE
      BY <1>1
    <3>2. (CHOOSE n : n \in newActual[c] /\ TRUE) \in newActual[c]
      BY <3>1, Zenon
    <3>3. (CHOOSE n \in newActual[c] : TRUE) \in newActual[c]
      BY <3>2, Zenon
    <3> QED BY <1>1, <3>3
  <2>2. \A s \in rows : (\E n \in newActual[c] : n[1] = s.key) <=> s.key = k
    BY <1>1
  <2>3. \A s \in rows : s # r => Updated(c, s) = s
    BY <1>5, <2>2 DEF Updated
  <2>4. Updated(c, r) = [r EXCEPT !.actual = (CHOOSE n \in newActual[c] : TRUE)[2]]
    BY <1>2, <2>2 DEF Updated
  <2> QED BY <2>1, <2>3, <2>4 DEF Reconciled
<1>7. rows' = (rows \ {r}) \cup {Reconciled(r, m)}
  BY <1>1, <1>6 DEF CommitTables
<1>8. audit' = [audit EXCEPT ![k] = @ + 1]
  <2>1. audit' = [l \in Keys |-> audit[l] + Cardinality({n \in newActual[c] : n[1] = l})]
    BY DEF CommitTables
  <2>2. audit \in [Keys -> Nat]
    BY DEF Safe, TypeOK
  <2>3. {n \in newActual[c] : n[1] = k} = {<<k, m>>}
    BY <1>1
  <2>4. \A l \in Keys : l # k => {n \in newActual[c] : n[1] = l} = {}
    BY <1>1
  <2>5. Cardinality({n \in newActual[c] : n[1] = k}) = 1
    BY <2>3, FS_Singleton
  <2>6. \A l \in Keys : l # k => Cardinality({n \in newActual[c] : n[1] = l}) = 0
    BY <2>4, FS_EmptySet
  <2>7. \A l \in Keys : audit'[l] = IF l = k THEN audit[k] + 1 ELSE audit[l]
    BY <2>1, <2>2, <2>5, <2>6
  <2> QED BY <1>3, <2>1, <2>2, <2>7
<1> QED BY <1>2, <1>4, <1>5, <1>7, <1>8, Reconciling(c) DEF Reconciles, Reconciling

-----------------------------------------------------------------------------
(* The invariant.                                                          *)

LEMMA InitSafe == Init => Safe
<1> SUFFICES ASSUME Init PROVE Safe
  OBVIOUS
<1>1. asked \in [Calls -> Requests]
  BY DEF Init
<1>2. TypeOK
  BY <1>1 DEF Init, TypeOK, Places
<1>3. Transactions /\ Reserved /\ Held /\ Seen
  BY DEF Init, Transactions, Reserved, Held, Seen, Inserting, Reconciling
<1>4. OneRowPerKey /\ Actuals
  BY DEF Init, OneRowPerKey, Actuals
<1> QED BY <1>2, <1>3, <1>4 DEF Safe

\* The steps that change no table and open no transaction.
Waits(c) ==
  \/ Begin(c) \/ InsertFindsKey(c) \/ Lookup(c) \/ ReconcileFindsNone(c)
  \/ Break(c) \/ Repeat(c)

Commits(c) == Commit(c) \/ CommitUnheard(c)

\* The steps as the lemmas below take them.
LEMMA NextSplit ==
  ASSUME Next
  PROVE  \E c \in Calls : Waits(c) \/ Insert(c) \/ Reconcile(c) \/ Commits(c)
  BY DEF Next, CallStep, Waits, Commits

\* Steps that write nothing keep what the open transactions know.
LEMMA WaitsSafe ==
  ASSUME Safe, NEW c \in Calls, Waits(c)
  PROVE  Safe'
<1> USE DEF GoesTo
<1>1. /\ rows' = rows /\ audit' = audit /\ asked' = asked
      /\ pc[c] # "commit" => newRow' = newRow /\ newActual' = newActual
      /\ \A d \in Calls \ {c} : pc'[d] = pc[d] /\ newRow'[d] = newRow[d]
                                /\ newActual'[d] = newActual[d]
      /\ pc'[c] # "commit"
      /\ pc' \in [Calls -> Places]
  BY DEF Waits, Begin, InsertFindsKey, Lookup, ReconcileFindsNone, Break,
     Repeat, Safe,
         TypeOK, tables, open, Places, Ended, CloseTransaction, Transactions, Inserting, Reconciling
<1>2. \A d \in Calls : newRow'[d] = IF Inserting(d)' THEN {RowOf(asked[d])} ELSE {}
  <2>1. newRow'[c] = {}
    BY <1>1 DEF Waits, Begin, InsertFindsKey, Lookup, ReconcileFindsNone,
       Break, Repeat,
                CloseTransaction, Safe, Transactions, TypeOK, Inserting
  <2> QED BY <1>1, <2>1 DEF Safe, Transactions, Inserting
<1>3. \A d \in Calls : newActual'[d] =
        IF Reconciling(d)' THEN {<<asked[d].key, asked[d].meaning>>} ELSE {}
  <2>1. newActual'[c] = {}
    BY <1>1 DEF Waits, Begin, InsertFindsKey, Lookup, ReconcileFindsNone,
       Break, Repeat,
                CloseTransaction, Safe, Transactions, TypeOK, Reconciling
  <2> QED BY <1>1, <2>1 DEF Safe, Transactions, Reconciling
<1>4. TypeOK'
  <2>1. newRow' \in [Calls -> SUBSET Rows] /\ newActual' \in [Calls -> SUBSET (Keys \X Meanings)]
    BY DEF Waits, Begin, InsertFindsKey, Lookup, ReconcileFindsNone, Break,
       Repeat,
           CloseTransaction, Safe, TypeOK, open
  <2> QED BY <1>1, <2>1 DEF Safe, TypeOK
<1>5. Transactions' /\ OneRowPerKey' /\ Actuals'
  BY <1>1, <1>2, <1>3 DEF Transactions, Safe, OneRowPerKey, Actuals
<1>6. Reserved' /\ Held'
  BY <1>1 DEF Safe, Reserved, Held, Inserting, Reconciling, Taken, Booked
<1>7. Seen'
  BY <1>1 DEF Waits, Begin, InsertFindsKey, Lookup, ReconcileFindsNone, Break,
     Repeat,
              Safe, TypeOK, Seen, Taken
<1> QED BY <1>4, <1>5, <1>6, <1>7 DEF Safe

\* An insert reserves its key, which it found free in the tables and in flight.
LEMMA InsertSafe ==
  ASSUME Safe, NEW c \in Calls, Insert(c)
  PROVE  Safe'
<1>1. /\ rows' = rows /\ audit' = audit /\ asked' = asked /\ newActual' = newActual
      /\ asked[c].op # "reconcile" /\ pc[c] = "write"
      /\ newRow' = [newRow EXCEPT ![c] = {RowOf(asked[c])}]
      /\ pc' = [pc EXCEPT ![c] = "commit"]
  BY DEF Insert, GoesTo, tables
<1>2. RowOf(asked[c]) \in Rows
  BY <1>1, RequestType DEF Safe
<1>3. /\ pc'[c] = "commit" /\ newRow'[c] = {RowOf(asked[c])}
      /\ \A d \in Calls \ {c} : pc'[d] = pc[d] /\ newRow'[d] = newRow[d]
  BY <1>1 DEF Safe, TypeOK
<1>4. TypeOK'
  BY <1>1, <1>2 DEF Safe, TypeOK, Places
<1>5. Transactions'
  <2>1. Inserting(c)' /\ ~Reconciling(c)' /\ ~Reconciling(c)
    BY <1>1, <1>3 DEF Inserting, Reconciling
  <2>2. \A d \in Calls \ {c} : /\ Inserting(d)' <=> Inserting(d)
                               /\ Reconciling(d)' <=> Reconciling(d)
    BY <1>1, <1>3 DEF Inserting, Reconciling
  <2>3. \A d \in Calls : newRow'[d] = IF Inserting(d)' THEN {RowOf(asked[d])} ELSE {}
    BY <1>3, <2>1, <2>2 DEF Safe, Transactions
  <2>4. \A d \in Calls : newActual'[d] =
          IF Reconciling(d)' THEN {<<asked[d].key, asked[d].meaning>>} ELSE {}
    BY <1>1, <2>1, <2>2 DEF Safe, Transactions
  <2> QED BY <1>1, <2>3, <2>4 DEF Transactions
<1>6. OneRowPerKey' /\ Actuals'
  BY <1>1 DEF Safe, OneRowPerKey, Actuals
<1>7. Reserved'
  <2>1. Taken(c, rows) = {} /\ Taken(c, InFlight(c)) = {}
    BY DEF Insert, Taken
  <2>2. \A d \in Calls \ {c} : Inserting(d) =>
          ~(SameIndex(asked[c].op, asked[d].op) /\ asked[c].key = asked[d].key)
    <3>1. SUFFICES ASSUME NEW d \in Calls \ {c}, Inserting(d)
                   PROVE  ~(SameIndex(asked[c].op, asked[d].op) /\ asked[c].key = asked[d].key)
      OBVIOUS
    <3>2. newRow[d] = {RowOf(asked[d])}
      BY <3>1 DEF Safe, Transactions
    <3>3. RowOf(asked[d]) \in InFlight(c)
      BY <3>2 DEF InFlight
    <3>4. RowOf(asked[d]).op = asked[d].op /\ RowOf(asked[d]).key = asked[d].key
      BY DEF RowOf
    <3> QED BY <2>1, <3>3, <3>4 DEF Taken, SameIndex
  <2> QED BY <1>1, <1>3, <2>1, <2>2 DEF Safe, Reserved, Inserting, Taken, SameIndex
<1>8. Held' /\ Seen'
  BY <1>1, <1>3 DEF Safe, Held, Seen, Reconciling, Booked, Taken
<1> QED BY <1>4, <1>5, <1>6, <1>7, <1>8 DEF Safe

\* A reconciliation locks the pending row that it updates.
LEMMA ReconcileSafe ==
  ASSUME Safe, NEW c \in Calls, Reconcile(c)
  PROVE  Safe'
<1>1. /\ rows' = rows /\ audit' = audit /\ asked' = asked /\ newRow' = newRow
      /\ asked[c].op = "reconcile" /\ pc[c] = "write"
      /\ newActual' = [newActual EXCEPT ![c] = {<<asked[c].key, asked[c].meaning>>}]
      /\ pc' = [pc EXCEPT ![c] = "commit"]
  BY DEF Reconcile, GoesTo, tables
<1>2. asked[c].key \in Keys /\ asked[c].meaning \in Meanings
  BY RequestType DEF Safe
<1>3. /\ pc'[c] = "commit"
      /\ newActual'[c] = {<<asked[c].key, asked[c].meaning>>}
      /\ \A d \in Calls \ {c} : pc'[d] = pc[d] /\ newActual'[d] = newActual[d]
  BY <1>1 DEF Safe, TypeOK
<1>4. TypeOK'
  BY <1>1, <1>2 DEF Safe, TypeOK, Places
<1>5. Transactions'
  <2>1. Reconciling(c)' /\ ~Inserting(c)' /\ ~Inserting(c)
    BY <1>1, <1>3 DEF Inserting, Reconciling
  <2>2. \A d \in Calls \ {c} : /\ Inserting(d)' <=> Inserting(d)
                               /\ Reconciling(d)' <=> Reconciling(d)
    BY <1>1, <1>3 DEF Inserting, Reconciling
  <2>3. \A d \in Calls : newRow'[d] = IF Inserting(d)' THEN {RowOf(asked[d])} ELSE {}
    BY <1>1, <2>1, <2>2 DEF Safe, Transactions
  <2>4. \A d \in Calls : newActual'[d] =
          IF Reconciling(d)' THEN {<<asked[d].key, asked[d].meaning>>} ELSE {}
    BY <1>3, <2>1, <2>2 DEF Safe, Transactions
  <2> QED BY <1>1, <2>3, <2>4 DEF Transactions
<1>6. OneRowPerKey' /\ Actuals'
  BY <1>1 DEF Safe, OneRowPerKey, Actuals
<1>7. Held'
  <2>1. \A d \in Calls \ {c} : Reconciling(d) => asked[c].key # asked[d].key
    <3>1. SUFFICES ASSUME NEW d \in Calls \ {c}, Reconciling(d)
                   PROVE  asked[c].key # asked[d].key
      OBVIOUS
    <3>2. newActual[d] = {<<asked[d].key, asked[d].meaning>>}
      BY <3>1 DEF Safe, Transactions
    <3>3. ~Locked(c)
      BY DEF Reconcile
    <3>4. PICK n \in newActual[d] : n[1] = asked[d].key
      BY <3>2
    <3> QED BY <3>3, <3>4 DEF Locked
  <2>2. \E r \in Booked(c) : r.actual = Pending
    BY DEF Reconcile
  <2> QED BY <1>1, <1>3, <2>1, <2>2 DEF Safe, Held, Reconciling, Booked
<1>8. Reserved' /\ Seen'
  BY <1>1, <1>3 DEF Safe, Reserved, Seen, Inserting, Taken
<1> QED BY <1>4, <1>5, <1>6, <1>7, <1>8 DEF Safe

\* The commit of an insertion.
LEMMA InsertionSafe ==
  ASSUME Safe, NEW c \in Calls, Inserting(c), Inserts(c), asked' = asked,
         newRow' = [newRow EXCEPT ![c] = {}], newActual' = [newActual EXCEPT ![c] = {}],
         pc' \in [Calls -> Places], pc'[c] \in {"done", "broken"},
         \A d \in Calls \ {c} : pc'[d] = pc[d]
  PROVE  Safe'
<1>1. PICK R : R = RowOf(asked[c])
  OBVIOUS
<1>2. /\ R \in Rows /\ R.op = asked[c].op /\ R.key = asked[c].key
      /\ rows' = rows \cup {R} /\ audit' = audit
      /\ R.op = "fund" => R.actual = R.meaning
      /\ R.op = "usage" => R.actual = Pending
  <2>1. R \in Rows /\ R.op = asked[c].op /\ R.key = asked[c].key /\ R.meaning = asked[c].meaning
    BY <1>1, RequestType DEF Inserts, Safe
  <2>2. R.actual = IF asked[c].op = "fund" THEN asked[c].meaning ELSE Pending
    BY <1>1 DEF RowOf
  <2> QED BY <1>1, <2>1, <2>2 DEF Inserts
<1>3. TypeOK'
  BY <1>2 DEF Safe, TypeOK
<1>4. Transactions'
  BY DEF Safe, TypeOK, Transactions, Inserting, Reconciling
<1>5. \A s \in rows : SameIndex(s.op, R.op) => s.key # R.key
  BY <1>2 DEF Inserts, Taken
<1>6. OneRowPerKey' /\ Actuals'
  BY <1>2, <1>5 DEF Safe, OneRowPerKey, Actuals, SameIndex
<1>7. Reserved'
  <2>1. \A d \in Calls \ {c} : Inserting(d) =>
          ~(SameIndex(R.op, asked[d].op) /\ R.key = asked[d].key)
    BY <1>2 DEF Safe, Reserved
  <2>2. \A d \in Calls \ {c} : Inserting(d) => Taken(d, rows') = {}
    BY <1>2, <2>1 DEF Safe, Reserved, Taken
  <2>3. \A d \in Calls : Inserting(d)' <=> d # c /\ Inserting(d)
    BY DEF Inserting
  <2> QED BY <2>2, <2>3 DEF Safe, Reserved, Taken
<1>8. Held'
  <2>1. \A d \in Calls : Reconciling(d)' <=> d # c /\ Reconciling(d)
    BY DEF Reconciling
  <2>2. \A d \in Calls : Booked(d) \subseteq Booked(d)'
    BY <1>2 DEF Booked
  <2> QED BY <2>1, <2>2 DEF Safe, Held
<1>9. Seen'
  <2>1. \A d \in Calls : Taken(d, rows) \subseteq Taken(d, rows')
    BY <1>2 DEF Taken
  <2> QED BY <2>1 DEF Safe, Seen, Taken
<1> QED BY <1>3, <1>4, <1>6, <1>7, <1>8, <1>9 DEF Safe

\* The commit of a reconciliation.
LEMMA ReconciliationSafe ==
  ASSUME Safe, NEW c \in Calls, Reconciling(c), NEW r \in rows, Reconciles(c, r),
         asked' = asked,
         newRow' = [newRow EXCEPT ![c] = {}], newActual' = [newActual EXCEPT ![c] = {}],
         pc' \in [Calls -> Places], pc'[c] \in {"done", "broken"},
         \A d \in Calls \ {c} : pc'[d] = pc[d]
  PROVE  Safe'
<1>1. PICK t : t = Reconciled(r, asked[c].meaning)
  OBVIOUS
<1>2. /\ t \in Rows /\ t.op = r.op /\ t.key = r.key
      /\ rows' = (rows \ {r}) \cup {t}
      /\ r.op \in {"reserve", "commit"} /\ r.key = asked[c].key /\ r.key \in Keys
  <2>1. r \in Rows /\ asked[c].meaning \in Meanings /\ asked[c].key \in Keys
    BY RequestType DEF Safe, TypeOK
  <2> QED BY <1>1, <2>1, ReconciledFields DEF Reconciles
<1>3. TypeOK'
  <2>1. audit' \in [Keys -> Nat]
    BY <1>2 DEF Reconciles, Safe, TypeOK
  <2> QED BY <1>2, <2>1 DEF Safe, TypeOK
<1>4. Transactions'
  BY DEF Safe, TypeOK, Transactions, Inserting, Reconciling
<1>5. OneRowPerKey'
  <2>1. \A s \in rows \ {r} : ~(SameIndex(s.op, t.op) /\ s.key = t.key)
    BY <1>2 DEF Safe, OneRowPerKey
  <2>2. SUFFICES ASSUME NEW s1 \in rows', NEW s2 \in rows',
                        SameIndex(s1.op, s2.op), s1.key = s2.key
                 PROVE  s1 = s2
    BY DEF OneRowPerKey
  <2>3. SameIndex(s2.op, s1.op)
    BY <2>2 DEF SameIndex
  <2> QED BY <1>2, <2>1, <2>2, <2>3 DEF Safe, OneRowPerKey
<1>6. Actuals'
  BY <1>2 DEF Safe, Actuals
<1>7. \A d \in Calls : Taken(d, rows') = {} <=> Taken(d, rows) = {}
  BY <1>2 DEF Taken
<1>8. Reserved' /\ Seen'
  <2>1. \A d \in Calls : Inserting(d)' => d # c /\ Inserting(d)
    BY DEF Inserting
  <2> QED BY <1>7, <2>1 DEF Safe, Reserved, Seen, Taken
<1>9. Held'
  <2>1. \A d \in Calls : Reconciling(d)' <=> d # c /\ Reconciling(d)
    BY DEF Reconciling
  <2>2. \A d \in Calls \ {c} : Reconciling(d) => asked[d].key # r.key
    BY <1>2 DEF Safe, Held
  <2>3. \A d \in Calls : asked[d].key # r.key => Booked(d) \subseteq Booked(d)'
    BY <1>2 DEF Booked
  <2> QED BY <2>1, <2>2, <2>3 DEF Safe, Held
<1> QED BY <1>3, <1>4, <1>5, <1>6, <1>8, <1>9 DEF Safe

\* A commit leaves the others' transactions what they know of their rows.
LEMMA CommitsSafe ==
  ASSUME Safe, NEW c \in Calls, Commits(c)
  PROVE  Safe'
<1>1. /\ pc[c] = "commit" /\ CommitTables(c) /\ asked' = asked
      /\ pc' \in [Calls -> Places] /\ pc'[c] \in {"done", "broken"}
      /\ \A d \in Calls \ {c} : pc'[d] = pc[d]
  BY DEF Commits, Commit, CommitUnheard, GoesTo, Safe, TypeOK, Places, Ended
<1>2. newRow' = [newRow EXCEPT ![c] = {}] /\ newActual' = [newActual EXCEPT ![c] = {}]
  BY <1>1 DEF CommitTables, CloseTransaction
<1>3. CASE Inserting(c)
  BY <1>1, <1>2, <1>3, InsertionCommits, InsertionSafe
<1>4. CASE Reconciling(c)
  BY <1>1, <1>2, <1>4, ReconciliationCommits, ReconciliationSafe
<1> QED BY <1>1, <1>3, <1>4 DEF Inserting, Reconciling

\* Safe is inductive.
LEMMA NextSafe == Safe /\ [Next]_vars => Safe'
<1> SUFFICES ASSUME Safe, [Next]_vars PROVE Safe'
  OBVIOUS
<1>1. CASE Next
  BY <1>1, NextSplit, WaitsSafe, InsertSafe, ReconcileSafe, CommitsSafe
<1>2. CASE UNCHANGED vars
  BY <1>2 DEF vars, tables, open, Safe, TypeOK, Transactions, OneRowPerKey,
     Reserved,
              Held, Actuals, Seen, Inserting, Reconciling, Taken, Booked
<1> QED BY <1>1, <1>2

\* What open transactions hold and have read is true of the ledger, in every state.
THEOREM LedgerSafe == Spec => []Safe
  BY InitSafe, NextSafe, PTL DEF Spec

-----------------------------------------------------------------------------
(* What follows: the history, the audit records and the answers.           *)

Kept ==
  \A r \in rows : \/ r \in rows'
                  \/ /\ r.actual = Pending
                     /\ \E m \in Meanings : Reconciled(r, m) \in rows'

\* Whatever a step does to the tables is an insertion or a reconciliation.
LEMMA StepEffect ==
  ASSUME Safe, [Next]_vars
  PROVE  \/ UNCHANGED <<rows, audit>>
         \/ \E c \in Calls : Commits(c) /\ Inserting(c) /\ Inserts(c)
         \/ \E c \in Calls : Commits(c) /\ Reconciling(c) /\ \E r \in rows : Reconciles(c, r)
<1>1. CASE UNCHANGED vars
  BY <1>1 DEF vars, tables
<1>2. ASSUME NEW c \in Calls, Waits(c) \/ Insert(c) \/ Reconcile(c)
      PROVE  UNCHANGED <<rows, audit>>
  BY <1>2 DEF Waits, Begin, InsertFindsKey, Lookup, ReconcileFindsNone, Break,
     Repeat,
              Insert, Reconcile, tables
<1>3. ASSUME NEW c \in Calls, Commits(c)
      PROVE  \/ Inserting(c) /\ Inserts(c)
             \/ Reconciling(c) /\ \E r \in rows : Reconciles(c, r)
  <2>1. pc[c] = "commit" /\ CommitTables(c)
    BY <1>3 DEF Commits, Commit, CommitUnheard
  <2> QED BY <2>1, InsertionCommits, ReconciliationCommits DEF Inserting, Reconciling
<1>4. CASE Next
  BY <1>2, <1>3, <1>4, NextSplit
<1> QED BY <1>1, <1>4

\* A step keeps every row, but that one may be reconciled.
LEMMA StepKeeps ==
  ASSUME Safe, [Next]_vars
  PROVE  Kept
<1>1. CASE UNCHANGED <<rows, audit>>
  BY <1>1 DEF Kept
<1>2. CASE \E c \in Calls : Inserts(c)
  BY <1>2 DEF Kept, Inserts
<1>3. ASSUME NEW c \in Calls, NEW r \in rows, Reconciles(c, r)
      PROVE  Kept
  <2>1. asked[c].meaning \in Meanings
    BY RequestType DEF Safe
  <2> QED BY <1>3, <2>1 DEF Kept, Reconciles
<1> QED BY <1>1, <1>2, <1>3, StepEffect

\* No row of the ledger goes, and a row changes once at most, from unreconciled to
\* reconciled (honor_cost_reconciliation_guard, CostLedgerRepository.reconcile).
THEOREM ImmutableHistory == Spec => HistoryIsImmutable
<1> DEFINE A == \A r \in rows :
                  \/ r \in rows'
                  \/ /\ r.actual = Pending
                     /\ \E m \in Meanings : [r EXCEPT !.actual = m] \in rows'
<1>1. Safe /\ [Next]_vars => [A]_vars
  <2>1. Kept => A
    BY DEF Kept, Reconciled
  <2> HIDE DEF A
  <2> QED BY <2>1, StepKeeps
<1> QED BY <1>1, LedgerSafe, PTL DEF Spec, HistoryIsImmutable

\* The rows that an audit record stands for.
Audited(k) ==
  {r \in rows : r.key = k /\ r.op \in {"reserve", "commit"} /\ r.actual # Pending}

\* A step adds an audit record exactly where it reconciles a row.
LEMMA NextAudit ==
  ASSUME Safe, OneAuditRecordEach, [Next]_vars
  PROVE  OneAuditRecordEach'
<1>1. \A k \in Keys : audit[k] = Cardinality(Audited(k))
  BY DEF OneAuditRecordEach, Audited
<1>2. SUFFICES \A k \in Keys : audit'[k] = Cardinality(Audited(k)')
  BY DEF OneAuditRecordEach, Audited
<1>3. CASE UNCHANGED <<rows, audit>>
  <2>1. \A k \in Keys : Audited(k)' = Audited(k)
    BY <1>3 DEF Audited
  <2> QED BY <1>1, <1>3, <2>1
<1>4. ASSUME NEW c \in Calls, Inserts(c)
      PROVE  \A k \in Keys : audit'[k] = Cardinality(Audited(k)')
  <2>1. RowOf(asked[c]).op \in {"reserve", "commit"} => RowOf(asked[c]).actual = Pending
    BY DEF RowOf
  <2>2. \A k \in Keys : Audited(k)' = Audited(k)
    BY <1>4, <2>1 DEF Audited, Inserts
  <2> QED BY <1>1, <1>4, <2>2 DEF Inserts
<1>5. ASSUME NEW c \in Calls, NEW r \in rows, Reconciles(c, r), NEW k \in Keys
      PROVE  audit'[k] = Cardinality(Audited(k)')
  <2>1. PICK t : t = Reconciled(r, asked[c].meaning)
    OBVIOUS
  <2>2. /\ t.op = r.op /\ t.key = r.key /\ t.actual # Pending
        /\ r.key \in Keys
    <3>1. r \in Rows /\ asked[c].meaning \in Meanings /\ r.key \in Keys
      BY RequestType DEF Safe, TypeOK, Rows
    <3> QED BY <2>1, <3>1, ReconciledFields, PendingAssumption
  <2>3. /\ rows' = (rows \ {r}) \cup {t}
        /\ r.op \in {"reserve", "commit"} /\ r.actual = Pending
        /\ \A s \in rows : s.op \in Bookings /\ s.key = r.key => s = r
        /\ audit' = [audit EXCEPT ![r.key] = @ + 1]
    BY <1>5, <2>1 DEF Reconciles
  <2>4. CASE k = r.key
    <3>1. Audited(k) = {}
      BY <2>3, <2>4 DEF Audited, Bookings
    <3>2. Audited(k)' = {t}
      BY <2>2, <2>3, <2>4 DEF Audited, Bookings
    <3>3. audit[k] = 0
      BY <1>1, <3>1, FS_EmptySet
    <3>4. audit'[k] = 1
      BY <2>2, <2>3, <2>4, <3>3 DEF Safe, TypeOK
    <3> QED BY <3>2, <3>4, FS_Singleton
  <2>5. CASE k # r.key
    <3>1. Audited(k)' = Audited(k)
      BY <2>2, <2>3, <2>5 DEF Audited
    <3>2. audit'[k] = audit[k]
      BY <2>2, <2>3, <2>5 DEF Safe, TypeOK
    <3> QED BY <1>1, <3>1, <3>2
  <2> QED BY <2>4, <2>5
<1> QED BY <1>3, <1>4, <1>5, StepEffect

\* Each reconciliation leaves exactly one audit record, and nothing else leaves one.
THEOREM AuditIsExact == Spec => []OneAuditRecordEach
<1>1. Init => OneAuditRecordEach
  <2>1. SUFFICES ASSUME Init, NEW k \in Keys PROVE audit[k] = Cardinality(Audited(k))
    BY DEF OneAuditRecordEach, Audited
  <2>2. audit[k] = 0 /\ Audited(k) = {}
    BY <2>1 DEF Init, Audited
  <2> QED BY <2>2, FS_EmptySet
<1>2. Safe /\ OneAuditRecordEach /\ [Next]_vars => OneAuditRecordEach'
  BY NextAudit
<1> QED BY <1>1, <1>2, LedgerSafe, PTL DEF Spec

\* The comparison of a replay says what it means to say: it recognises the row of
\* the very request, reconciled or not (_verify_replay), or of the same service and
\* job (record_provider_usage).
LEMMA Recognised ==
  ASSUME Safe, NEW c \in Calls, asked[c].op # "reconcile", NEW r \in Taken(c, rows)
  PROVE  SameRequest(r, asked[c])
           <=> <<r.op, Compared(r)>> = <<asked[c].op, Compared(asked[c])>>
<1>1. r \in rows /\ (r.op = "fund" => r.actual = r.meaning)
  BY DEF Taken, Safe, Actuals
<1>2. asked[c].op = "fund" /\ r.op = "fund" /\ Compared(r) = Compared(asked[c])
        => r.meaning = asked[c].meaning
  BY DEF Compared
<1> QED BY <1>1, <1>2 DEF SameRequest

\* What a call was told stays true.
Answered(c) ==
  \E r \in rows :
    /\ r.key = asked[c].key
    /\ CASE asked[c].op = "reconcile" ->
              r.op \in Bookings /\ r.actual = asked[c].meaning
         [] asked[c].op = "usage" ->
              r.op = "usage" /\ Subject[r.meaning] = Subject[asked[c].meaning]
         [] asked[c].op \in Bookings ->
              r.op = asked[c].op /\ r.meaning = asked[c].meaning

Refuted(c) ==
  \E r \in Taken(c, rows) : <<r.op, Compared(r)>> # <<asked[c].op, Compared(asked[c])>>

\* What a step leaves of a row.
LEMMA Remains ==
  ASSUME Safe, Kept, NEW r \in rows
  PROVE  \E t \in rows' : /\ t.op = r.op /\ t.key = r.key /\ t.meaning = r.meaning
                          /\ r.actual # Pending => t.actual = r.actual
<1>1. CASE r \in rows'
  BY <1>1
<1>2. ASSUME NEW m \in Meanings, r.actual = Pending, Reconciled(r, m) \in rows'
      PROVE  \E t \in rows' : /\ t.op = r.op /\ t.key = r.key /\ t.meaning = r.meaning
                              /\ r.actual # Pending => t.actual = r.actual
  BY <1>2, ReconciledFields DEF Safe, TypeOK
<1> QED BY <1>1, <1>2 DEF Kept

\* What a call has been told stays true of a ledger that only grows and reconciles.
LEMMA AnswersRemain ==
  ASSUME Safe, Kept, asked' = asked, NEW c \in Calls
  PROVE  /\ Answered(c) => Answered(c)'
         /\ Refuted(c) => Refuted(c)'
<1>1. asked[c].meaning # Pending
  BY RequestType, PendingAssumption DEF Safe
<1>2. ASSUME Answered(c) PROVE Answered(c)'
  <2>1. PICK r \in rows :
          /\ r.key = asked[c].key
          /\ CASE asked[c].op = "reconcile" ->
                    r.op \in Bookings /\ r.actual = asked[c].meaning
               [] asked[c].op = "usage" ->
                    r.op = "usage" /\ Subject[r.meaning] = Subject[asked[c].meaning]
               [] asked[c].op \in Bookings ->
                    r.op = asked[c].op /\ r.meaning = asked[c].meaning
    BY <1>2 DEF Answered
  <2>2. PICK t \in rows' : /\ t.op = r.op /\ t.key = r.key /\ t.meaning = r.meaning
                           /\ r.actual # Pending => t.actual = r.actual
    BY Remains
  <2>3. asked[c].op \in {"reconcile", "usage"} \cup Bookings
    BY RequestType DEF Safe, Operations
  <2>4. CASE asked[c].op = "reconcile"
    BY <1>1, <2>1, <2>2, <2>4 DEF Answered
  <2>5. CASE asked[c].op = "usage"
    BY <2>1, <2>2, <2>5 DEF Answered, Bookings
  <2>6. CASE asked[c].op \in Bookings
    BY <2>1, <2>2, <2>6 DEF Answered, Bookings
  <2> QED BY <2>3, <2>4, <2>5, <2>6
<1>3. ASSUME Refuted(c) PROVE Refuted(c)'
  <2>1. PICK r \in rows : /\ SameIndex(r.op, asked[c].op) /\ r.key = asked[c].key
                          /\ <<r.op, Compared(r)>> # <<asked[c].op, Compared(asked[c])>>
    BY <1>3 DEF Refuted, Taken
  <2>2. PICK t \in rows' : t.op = r.op /\ t.key = r.key /\ t.meaning = r.meaning
    BY Remains
  <2>3. Compared(t) = Compared(r)
    BY <2>2 DEF Compared
  <2> QED BY <2>1, <2>2, <2>3 DEF Refuted, Taken
<1> QED BY <1>2, <1>3

Answers ==
  /\ \A c \in Calls : pc[c] = "done" => Answered(c)
  /\ \A c \in Calls : pc[c] = "refused" /\ asked[c].op # "reconcile" => Refuted(c)

\* The steps that answer a call: the look-up, the commit, and the update that finds
\* nothing, whose refusal says only that the row is absent or reconciled.
LEMMA LookupAnswers ==
  ASSUME Safe, NEW c \in Calls, Lookup(c)
  PROVE  /\ pc'[c] = "done" => Answered(c)
         /\ pc'[c] = "refused" => Refuted(c)
<1>1. /\ asked[c].op # "reconcile" /\ Taken(c, rows) # {}
      /\ pc'[c] = IF \A r \in Taken(c, rows) : SameRequest(r, asked[c])
                  THEN "done" ELSE "refused"
  BY DEF Lookup, GoesTo, Safe, TypeOK, Seen
<1>2. CASE \A r \in Taken(c, rows) : SameRequest(r, asked[c])
  <2>1. PICK r \in Taken(c, rows) :
               <<r.op, Compared(r)>> = <<asked[c].op, Compared(asked[c])>>
    BY <1>1, <1>2, Recognised
  <2>2. /\ r \in rows /\ r.key = asked[c].key /\ r.op = asked[c].op
        /\ IF asked[c].op = "usage" THEN Subject[r.meaning] = Subject[asked[c].meaning]
           ELSE r.meaning = asked[c].meaning
    BY <2>1 DEF Taken, Compared
  <2>3. asked[c].op = "usage" \/ asked[c].op \in Bookings
    BY <1>1, RequestType DEF Safe, Operations
  <2> QED BY <1>2, <1>1, <2>2, <2>3 DEF Answered, Bookings
<1>3. CASE \E r \in Taken(c, rows) : ~SameRequest(r, asked[c])
  <2>1. PICK r \in Taken(c, rows) :
               <<r.op, Compared(r)>> # <<asked[c].op, Compared(asked[c])>>
    BY <1>1, <1>3, Recognised
  <2> QED BY <1>1, <1>3, <2>1 DEF Refuted
<1> QED BY <1>2, <1>3

\* A commit makes true what it tells.
LEMMA CommitAnswers ==
  ASSUME Safe, NEW c \in Calls, Commits(c)
  PROVE  Answered(c)'
<1>1. pc[c] = "commit" /\ CommitTables(c) /\ asked' = asked
  BY DEF Commits, Commit, CommitUnheard
<1>2. CASE Inserting(c)
  <2>1. RowOf(asked[c]) \in rows' /\ asked[c].op # "reconcile"
    BY <1>1, <1>2, InsertionCommits DEF Inserts
  <2>2. asked[c].op = "usage" \/ asked[c].op \in Bookings
    BY <2>1, RequestType DEF Safe, Operations
  <2>3. /\ RowOf(asked[c]).op = asked[c].op
        /\ RowOf(asked[c]).key = asked[c].key
        /\ RowOf(asked[c]).meaning = asked[c].meaning
    BY RequestType DEF Safe
  <2> QED BY <1>1, <2>1, <2>2, <2>3 DEF Answered, Bookings
<1>3. CASE Reconciling(c)
  <2>1. PICK r \in rows : Reconciles(c, r)
    BY <1>1, <1>3, ReconciliationCommits
  <2>2. r \in Rows /\ asked[c].meaning \in Meanings
    BY RequestType DEF Safe, TypeOK
  <2>3. PICK t : t = Reconciled(r, asked[c].meaning)
    OBVIOUS
  <2>4. t.op = r.op /\ t.key = r.key /\ t.actual = asked[c].meaning
    BY <2>2, <2>3, ReconciledFields
  <2> QED BY <1>1, <2>1, <2>3, <2>4 DEF Answered, Reconciles, Bookings
<1> QED BY <1>1, <1>2, <1>3 DEF Inserting, Reconciling

\* Answers is inductive with Safe.
LEMMA NextAnswers ==
  ASSUME Safe, Answers, [Next]_vars
  PROVE  Answers'
<1>1. Kept /\ asked' = asked
  <2>1. Next => asked' = asked
    BY DEF Next, Begin, CallStep, Insert, InsertFindsKey, Lookup, Reconcile,
           ReconcileFindsNone, Commit, CommitUnheard, Break, Repeat
  <2> QED BY <2>1, StepKeeps DEF vars
<1>2. CASE UNCHANGED pc
  BY <1>1, <1>2, AnswersRemain DEF Answers
<1>3. ASSUME NEW c \in Calls,
             Waits(c) \/ Insert(c) \/ Reconcile(c) \/ Commits(c)
      PROVE  Answers'
  <2>1. \A d \in Calls \ {c} : pc'[d] = pc[d]
    BY <1>3 DEF Waits, Begin, InsertFindsKey, Lookup, ReconcileFindsNone,
       Break, Repeat,
                Insert, Reconcile, Commits, Commit, CommitUnheard, GoesTo, Safe, TypeOK
  <2>2. /\ pc'[c] = "done" => Answered(c)'
        /\ pc'[c] = "refused" /\ asked[c].op # "reconcile" => Refuted(c)'
    <3>1. CASE Lookup(c)
      BY <1>1, <3>1, LookupAnswers, AnswersRemain
    <3>2. CASE Commits(c)
      <4>1. pc'[c] # "refused"
        BY <3>2 DEF Commits, Commit, CommitUnheard, GoesTo, Safe, TypeOK
      <4> QED BY <3>2, <4>1, CommitAnswers
    <3>3. CASE ReconcileFindsNone(c)
      BY <3>3 DEF ReconcileFindsNone, GoesTo, Safe, TypeOK
    <3>4. CASE ~Lookup(c) /\ ~Commits(c) /\ ~ReconcileFindsNone(c)
      <4>1. pc'[c] \notin {"done", "refused"}
        BY <1>3, <3>4 DEF Waits, Begin, InsertFindsKey, Break, Repeat, Insert,
           Reconcile,
                          GoesTo, Safe, TypeOK
      <4> QED BY <4>1
    <3> QED BY <3>1, <3>2, <3>3, <3>4
  <2> QED BY <1>1, <2>1, <2>2, AnswersRemain DEF Answers
<1>4. CASE Next
  BY <1>3, <1>4, NextSplit
<1> QED BY <1>2, <1>4 DEF vars

\* Every answer is true, ever after.
LEMMA AnswersHold == Spec => []Answers
<1>1. Init => Answers
  BY DEF Init, Answers
<1>2. Safe /\ Answers /\ [Next]_vars => Answers'
  BY NextAnswers
<1> QED BY <1>1, <1>2, LedgerSafe, PTL DEF Spec

\* Who is told that something is booked, recorded or reconciled finds it so, ever
\* after, with the fields of the own request.
THEOREM OwnRow == Spec => []AnsweredByItsOwnRow
<1>1. Answers => AnsweredByItsOwnRow
  BY DEF Answers, Answered, AnsweredByItsOwnRow
<1> QED BY <1>1, AnswersHold, PTL

\* A key is "reused with different immutable semantics" only where a different row
\* stands under it, however often it is repeated and reconciled.
THEOREM RefusalIsDeserved == Spec => []RefusedOnlyForADifference
<1>1. Answers => RefusedOnlyForADifference
  BY DEF Answers, Refuted, RefusedOnlyForADifference
<1> QED BY <1>1, AnswersHold, PTL

\* The two unique indexes do what the calls rely on: one row per key.
THEOREM KeysAreUnique == Spec => []OneRowPerKey
  BY LedgerSafe, PTL DEF Safe
=============================================================================
