-------------------------- MODULE JobEnqueueProofs --------------------------
(***************************************************************************)
(* Theorems of JobEnqueue, for any number of calls and faults and whatever *)
(* names types and keys have: the ids may clash as they like.              *)
(***************************************************************************)
EXTENDS JobEnqueue, TLAPS

Rows == {RowOf(s) : s \in Specs}

Places == {"idle", "insert", "parked", "event", "commit", "lookup", "publish"} \cup Ended

\* Every variable has its type.
TypeOK ==
  /\ newJob \in [Calls -> SUBSET Rows]
  /\ newEvent \in [Calls -> SUBSET (Keys \X EventNames)]
  /\ pc \in [Calls -> Places]
  /\ asked \in [Calls -> Specs]

\* The calls that have inserted a row and not committed it.
Open(c) == pc[c] \in {"event", "commit"}

EventOf(s) == <<s.key, s.event>>

\* A transaction holds the row and the event of its own request, and holds them
\* only until it ends.
Transactions ==
  \A c \in Calls :
    /\ newJob[c] = IF Open(c) THEN {RowOf(asked[c])} ELSE {}
    /\ newEvent[c] = IF pc[c] = "commit" THEN {EventOf(asked[c])} ELSE {}

\* The unique indexes over the committed rows,
OneJobPerKey == \A r, s \in jobs : r.key = s.key \/ r.id = s.id => r = s

\* and over the rows in flight.
Reserved ==
  \A c \in Calls : Open(c) =>
    /\ ~SameKey(c, jobs) /\ ~SameId(c, jobs)
    /\ \A d \in Calls \ {c} : Open(d) =>
         asked[d].key # asked[c].key /\ IdOf(asked[d]) # IdOf(asked[c])

\* A call that looks a row up has seen that its key is taken.
Seen == \A c \in Calls : pc[c] = "lookup" => SameKey(c, jobs)

Inv ==
  /\ TypeOK
  /\ Transactions
  /\ OneJobPerKey
  /\ Reserved
  /\ Seen
  /\ AnsweredByItsOwnJob
  /\ RefusedOnlyForADifference
  /\ OneEventPerJob
  /\ PublishedIsCommitted

-----------------------------------------------------------------------------

\* The row of a call has the fields of its specification.
LEMMA RowFields ==
  ASSUME NEW s
  PROVE  /\ RowOf(s).id = IdOf(s) /\ RowOf(s).key = s.key
         /\ EventOf(s)[1] = s.key
  BY DEF RowOf, EventOf

\* It holds of the empty tables.
LEMMA InitInv == Init => Inv
<1> SUFFICES ASSUME Init PROVE Inv
  OBVIOUS
<1>1. asked \in [Calls -> Specs]
  BY DEF Init
<1>2. TypeOK
  BY <1>1 DEF Init, TypeOK, Places
<1>3. Transactions /\ Reserved /\ Seen
  BY DEF Init, Transactions, Reserved, Seen, Open
<1>4. AnsweredByItsOwnJob /\ RefusedOnlyForADifference
  BY DEF Init, AnsweredByItsOwnJob, RefusedOnlyForADifference
<1>5. OneJobPerKey /\ OneEventPerJob /\ PublishedIsCommitted
  BY DEF Init, OneJobPerKey, OneEventPerJob, PublishedIsCommitted
<1> QED BY <1>2, <1>3, <1>4, <1>5 DEF Inv

\* The steps of a call that open no transaction and commit nothing.
Moves(c) ==
  \/ Begin(c) \/ InsertFindsKey(c) \/ InsertFindsId(c) \/ Park(c) \/ Unpark(c)
  \/ Lookup(c) \/ Publish(c) \/ Break(c) \/ Repeat(c)

Commits(c) == Commit(c) \/ CommitUnheard(c)

\* Inserts and commits apart from the steps that only move a call.
LEMMA NextSplit ==
  ASSUME Next
  PROVE  \/ \E c \in Calls : Moves(c) \/ Insert(c) \/ InsertEvent(c) \/ Commits(c)
         \/ Advance
  BY DEF Next, CallStep, Moves, Commits

\* Steps that only move a call.
LEMMA MovesInv ==
  ASSUME Inv, NEW c \in Calls, Moves(c)
  PROVE  Inv'
<1> USE DEF GoesTo
<1>1. /\ jobs' = jobs /\ events' = events /\ asked' = asked
      /\ pc' \in [Calls -> Places] /\ ~Open(c)'
      /\ newJob' = [newJob EXCEPT ![c] = {}] /\ newEvent' = [newEvent EXCEPT ![c] = {}]
      /\ \A d \in Calls \ {c} : pc'[d] = pc[d]
  <2>1. ~Open(c) => /\ newJob = [newJob EXCEPT ![c] = {}]
                    /\ newEvent = [newEvent EXCEPT ![c] = {}]
    BY DEF Inv, Transactions, TypeOK, Open
  <2>2. CASE Break(c)
    BY <2>2 DEF Break, CloseTransaction, tables, Inv, TypeOK, Places, Ended,
       Open
  <2>3. CASE ~Break(c)
    <3>1. /\ ~Open(c) /\ UNCHANGED <<jobs, events, newJob, newEvent, asked>>
          /\ ~Open(c)' /\ pc' \in [Calls -> Places]
          /\ \A d \in Calls \ {c} : pc'[d] = pc[d]
      BY <2>3 DEF Moves, Begin, InsertFindsKey, InsertFindsId, Park, Unpark,
         Lookup,
                  Publish, Repeat, Dispatch, tables, pending, Inv, TypeOK, Places, Ended, Open
    <3> QED BY <2>1, <3>1
  <2> QED BY <2>2, <2>3
<1>2. TypeOK'
  BY <1>1 DEF Inv, TypeOK
<1>3. \A d \in Calls \ {c} : /\ newJob'[d] = newJob[d] /\ newEvent'[d] = newEvent[d]
                             /\ Open(d)' <=> Open(d)
  BY <1>1 DEF Open, Inv, TypeOK
<1>4. Transactions'
  <2>1. newJob'[c] = {} /\ newEvent'[c] = {} /\ pc'[c] # "commit"
    BY <1>1 DEF Open, Inv, TypeOK
  <2> QED BY <1>1, <1>3, <2>1 DEF Inv, Transactions
<1>5. OneJobPerKey' /\ Reserved' /\ OneEventPerJob'
  BY <1>1, <1>3 DEF Inv, OneJobPerKey, Reserved, OneEventPerJob, SameKey,
     SameId
<1>6. Seen'
  <2>1. pc'[c] = "lookup" => SameKey(c, jobs)
    BY DEF Moves, Begin, InsertFindsKey, InsertFindsId, Park, Unpark, Lookup,
           Publish, Break, Repeat, Dispatch, Inv, TypeOK, Seen, Ended
  <2> QED BY <1>1, <2>1 DEF Inv, Seen, SameKey
<1>7. AnsweredByItsOwnJob'
  <2>1. pc'[c] \in {"publish", "done"} => RowOf(asked[c]) \in jobs
    BY DEF Moves, Begin, InsertFindsKey, InsertFindsId, Park, Unpark, Lookup,
           Publish, Break, Repeat, Dispatch, Matches, Inv, TypeOK, AnsweredByItsOwnJob
  <2> QED BY <1>1, <2>1 DEF Inv, AnsweredByItsOwnJob
<1>8. RefusedOnlyForADifference'
  <2>1. pc'[c] = "refused" =>
          \E r \in jobs : r.key = asked[c].key /\ (asked[c].canonical => r # RowOf(asked[c]))
    <3>1. SUFFICES ASSUME pc'[c] = "refused"
                   PROVE  SameKey(c, jobs) /\ (asked[c].canonical => RowOf(asked[c]) \notin jobs)
      BY DEF SameKey
    <3> QED BY <3>1 DEF Moves, Begin, InsertFindsKey, InsertFindsId, Park, Unpark, Lookup,
                        Publish, Break, Repeat, Dispatch, Matches, Inv, TypeOK, Seen
  <2> QED BY <1>1, <2>1 DEF Inv, RefusedOnlyForADifference
<1>9. PublishedIsCommitted'
  <2>1. CASE Publish(c)
    <3>1. RowOf(asked[c]) \in jobs
      BY <2>1 DEF Publish, Inv, AnsweredByItsOwnJob
    <3> QED BY <1>1, <2>1, <3>1, RowFields DEF Publish, Inv, PublishedIsCommitted
  <2>2. CASE ~Publish(c)
    <3>1. broker' = broker
      BY <2>2 DEF Moves, Begin, InsertFindsKey, InsertFindsId, Park, Unpark,
         Lookup,
                  Break, Repeat
    <3> QED BY <1>1, <3>1 DEF Inv, PublishedIsCommitted
  <2> QED BY <2>1, <2>2
<1> QED BY <1>2, <1>4, <1>5, <1>6, <1>7, <1>8, <1>9 DEF Inv

\* An insert finds its keys free, or its transaction ends.
LEMMA InsertInv ==
  ASSUME Inv, NEW c \in Calls, Insert(c)
  PROVE  Inv'
<1>1. /\ jobs' = jobs /\ events' = events /\ asked' = asked /\ newEvent' = newEvent
      /\ broker' = broker /\ pc[c] = "insert"
      /\ newJob' = [newJob EXCEPT ![c] = {RowOf(asked[c])}]
      /\ pc' = [pc EXCEPT ![c] = "event"]
      /\ ~SameKey(c, jobs \cup InFlight(c)) /\ ~SameId(c, jobs \cup InFlight(c))
  BY DEF Insert, GoesTo, tables
<1>2. /\ pc'[c] = "event" /\ newJob'[c] = {RowOf(asked[c])}
      /\ \A d \in Calls \ {c} : pc'[d] = pc[d] /\ newJob'[d] = newJob[d]
      /\ ~Open(c) /\ Open(c)'
      /\ \A d \in Calls \ {c} : Open(d)' <=> Open(d)
  BY <1>1 DEF Inv, TypeOK, Open
<1>3. TypeOK'
  BY <1>1 DEF Inv, TypeOK, Places, Rows
<1>4. Transactions'
  <2>1. \A d \in Calls : newJob'[d] = IF Open(d)' THEN {RowOf(asked[d])} ELSE {}
    BY <1>2 DEF Inv, Transactions
  <2>2. \A d \in Calls : newEvent[d] = IF pc'[d] = "commit" THEN {EventOf(asked[d])} ELSE {}
    BY <1>1, <1>2 DEF Inv, Transactions
  <2> QED BY <1>1, <2>1, <2>2 DEF Transactions
<1>5. Reserved'
  <2>1. ~SameKey(c, jobs) /\ ~SameId(c, jobs)
    BY <1>1 DEF SameKey, SameId
  <2>2. ASSUME NEW d \in Calls \ {c}, Open(d)
        PROVE  asked[d].key # asked[c].key /\ IdOf(asked[d]) # IdOf(asked[c])
    <3>1. RowOf(asked[d]) \in InFlight(c)
      BY <2>2 DEF InFlight, Inv, Transactions
    <3> QED BY <1>1, <3>1, RowFields DEF SameKey, SameId
  <2> QED BY <1>1, <1>2, <2>1, <2>2 DEF Inv, Reserved, SameKey, SameId
<1>6. OneJobPerKey' /\ OneEventPerJob' /\ PublishedIsCommitted'
  BY <1>1 DEF Inv, OneJobPerKey, OneEventPerJob, PublishedIsCommitted
<1>7. Seen' /\ AnsweredByItsOwnJob' /\ RefusedOnlyForADifference'
  BY <1>1, <1>2 DEF Inv, Seen, AnsweredByItsOwnJob, RefusedOnlyForADifference,
     SameKey
<1> QED BY <1>3, <1>4, <1>5, <1>6, <1>7 DEF Inv

\* An event is inserted only after its row; its key has no event yet.
LEMMA InsertEventInv ==
  ASSUME Inv, NEW c \in Calls, InsertEvent(c)
  PROVE  Inv'
<1>1. EventOf(asked[c]) \notin events
  <2>1. Open(c) /\ ~SameKey(c, jobs)
    BY DEF InsertEvent, Open, Inv, Reserved
  <2> QED BY <2>1, RowFields DEF Inv, OneEventPerJob, SameKey
<1>2. /\ jobs' = jobs /\ events' = events /\ asked' = asked /\ newJob' = newJob
      /\ broker' = broker /\ pc[c] = "event"
      /\ newEvent' = [newEvent EXCEPT ![c] = {EventOf(asked[c])}]
      /\ pc' = [pc EXCEPT ![c] = "commit"]
  BY <1>1 DEF InsertEvent, GoesTo, tables, EventOf
<1>3. /\ pc'[c] = "commit" /\ newEvent'[c] = {EventOf(asked[c])}
      /\ \A d \in Calls \ {c} : pc'[d] = pc[d] /\ newEvent'[d] = newEvent[d]
      /\ \A d \in Calls : Open(d)' <=> Open(d)
  BY <1>2 DEF Inv, TypeOK, Open
<1>4. TypeOK'
  <2>1. EventOf(asked[c]) \in Keys \X EventNames
    BY DEF Inv, TypeOK, Specs, EventOf
  <2> QED BY <1>2, <2>1 DEF Inv, TypeOK, Places
<1>5. Transactions'
  BY <1>2, <1>3 DEF Inv, Transactions
<1>6. Reserved' /\ OneJobPerKey' /\ OneEventPerJob' /\ PublishedIsCommitted'
  BY <1>2, <1>3 DEF Inv, Reserved, OneJobPerKey, OneEventPerJob,
     PublishedIsCommitted,
                    SameKey, SameId
<1>7. Seen' /\ AnsweredByItsOwnJob' /\ RefusedOnlyForADifference'
  BY <1>2, <1>3 DEF Inv, Seen, AnsweredByItsOwnJob, RefusedOnlyForADifference,
     SameKey
<1> QED BY <1>4, <1>5, <1>6, <1>7 DEF Inv

\* A commit adds the row and the event of one request, of a key that had neither.
LEMMA CommitsInv ==
  ASSUME Inv, NEW c \in Calls, Commits(c)
  PROVE  Inv'
<1>1. PICK R, E : R = RowOf(asked[c]) /\ E = EventOf(asked[c])
  OBVIOUS
<1>2. /\ pc[c] = "commit" /\ asked' = asked /\ broker' = broker
      /\ CommitTables(c)
      /\ pc' \in [Calls -> Places] /\ pc'[c] \in {"publish", "broken"}
      /\ \A d \in Calls \ {c} : pc'[d] = pc[d]
  BY DEF Commits, Commit, CommitUnheard, GoesTo, Inv, TypeOK, Places, Ended
<1>3. /\ jobs' = jobs \cup {R} /\ events' = events \cup {E}
      /\ newJob' = [newJob EXCEPT ![c] = {}] /\ newEvent' = [newEvent EXCEPT ![c] = {}]
  BY <1>1, <1>2 DEF CommitTables, CloseTransaction, Inv, Transactions, Open
<1>4. /\ R.key = asked[c].key /\ R.id = IdOf(asked[c]) /\ E[1] = R.key
      /\ \A r \in jobs : r.key # R.key /\ r.id # R.id
  <2>1. Open(c)
    BY <1>2 DEF Open
  <2> QED BY <1>1, <2>1, RowFields DEF Inv, Reserved, SameKey, SameId
<1>5. /\ \A d \in Calls : Open(d)' <=> d # c /\ Open(d)
      /\ newJob'[c] = {} /\ newEvent'[c] = {}
      /\ \A d \in Calls \ {c} : newJob'[d] = newJob[d] /\ newEvent'[d] = newEvent[d]
  BY <1>2, <1>3 DEF Open, Inv, TypeOK
<1>6. TypeOK'
  BY <1>2, <1>3 DEF Inv, TypeOK
<1>7. Transactions'
  BY <1>2, <1>5 DEF Inv, Transactions
<1>8. OneJobPerKey'
  BY <1>3, <1>4 DEF Inv, OneJobPerKey
<1>9. Reserved'
  <2>1. \A d \in Calls \ {c} : Open(d) => asked[d].key # R.key /\ IdOf(asked[d]) # R.id
    <3>1. Open(c)
      BY <1>2 DEF Open
    <3> QED BY <1>4, <3>1 DEF Inv, Reserved
  <2> QED BY <1>2, <1>3, <1>5, <2>1 DEF Inv, Reserved, SameKey, SameId
<1>10. OneEventPerJob'
  <2>1. \A e \in events : e[1] # R.key
    BY <1>4 DEF Inv, OneEventPerJob
  <2>2. \A e \in events' : \E r \in jobs' : r.key = e[1]
    BY <1>3, <1>4 DEF Inv, OneEventPerJob
  <2>3. ASSUME NEW r \in jobs
        PROVE  \E e \in events' : e[1] = r.key /\ \A f \in events' : f[1] = r.key => f = e
    <3>1. PICK e \in events : e[1] = r.key /\ \A f \in events : f[1] = r.key => f = e
      BY DEF Inv, OneEventPerJob
    <3> QED BY <1>3, <1>4, <3>1
  <2>4. /\ E \in events' /\ E[1] = R.key
        /\ \A f \in events' : f[1] = R.key => f = E
    BY <1>3, <1>4, <2>1
  <2> QED BY <1>3, <2>2, <2>3, <2>4 DEF OneEventPerJob
<1>11. Seen' /\ PublishedIsCommitted'
  BY <1>2, <1>3 DEF Inv, Seen, PublishedIsCommitted, SameKey
<1>12. AnsweredByItsOwnJob' /\ RefusedOnlyForADifference'
  BY <1>1, <1>2, <1>3 DEF Inv, AnsweredByItsOwnJob, RefusedOnlyForADifference
<1> QED BY <1>6, <1>7, <1>8, <1>9, <1>10, <1>11, <1>12 DEF Inv

\* Inv is inductive.
LEMMA NextInv == Inv /\ [Next]_vars => Inv'
<1> SUFFICES ASSUME Inv, [Next]_vars PROVE Inv'
  OBVIOUS
<1>1. CASE \E c \in Calls : Moves(c) \/ Insert(c) \/ InsertEvent(c) \/ Commits(c)
  BY <1>1, MovesInv, InsertInv, InsertEventInv, CommitsInv
<1>2. CASE UNCHANGED <<jobs, events, newJob, newEvent, broker, pc, asked>>
  BY <1>2 DEF Inv, TypeOK, Transactions, OneJobPerKey, Reserved, Seen,
     AnsweredByItsOwnJob,
              RefusedOnlyForADifference, OneEventPerJob, PublishedIsCommitted,
              Open, SameKey, SameId
<1>3. Advance \/ UNCHANGED vars => UNCHANGED <<jobs, events, newJob, newEvent, broker, pc, asked>>
  BY DEF Advance, vars, tables, pending
<1> QED BY <1>1, <1>2, <1>3, NextSplit

\* What each call knows of its own row and of its key is true, in every state.
THEOREM Invariance == Spec => []Inv
  BY InitInv, NextInv, PTL DEF Spec

-----------------------------------------------------------------------------
(* Theorems.                                                               *)

\* A call is told of a job only if that very job is recorded, ever after.
THEOREM OwnJob == Spec => []AnsweredByItsOwnJob
  BY Invariance, PTL DEF Inv

\* A key is "reused with different job semantics", of a request in canonical
\* spelling, only where a different job is recorded under it, whatever race the
\* first copy of the request went through; in another spelling, only where the key
\* is taken.
THEOREM RefusalIsDeserved == Spec => []RefusedOnlyForADifference
  BY Invariance, PTL DEF Inv

\* Row and event are recorded together, and only once, however often a request is
\* repeated, raced, broken or committed without an answer (enqueue).
THEOREM EventsMatchJobs == Spec => []OneEventPerJob
  BY Invariance, PTL DEF Inv

\* Nothing is published that a rollback could still take back (enqueue_and_dispatch).
THEOREM PublishedAfterCommit == Spec => []PublishedIsCommitted
  BY Invariance, PTL DEF Inv

\* Two recorded jobs differ in their keys and in their ids, although two requests
\* that differ in their keys may well name one id.
THEOREM JobsAreUnique == Spec => []OneJobPerKey
  BY Invariance, PTL DEF Inv
=============================================================================
