-------------------------- MODULE RequestPathProofs --------------------------
(***************************************************************************)
(* Theorems of RequestPath, for any calls, requests, connections and       *)
(* bounds.  The handler is proved first, by itself: HandlerInv is          *)
(* inductive for ApiIdempotency.  Every step of the path is a step of the  *)
(* handler or leaves it alone, so HandlerInv holds on the path too, and    *)
(* what is left are the answers.                                           *)
(***************************************************************************)
EXTENDS RequestPath, FiniteSetTheorems, TLAPS

-----------------------------------------------------------------------------
(* The handler.                                                            *)

\* The record of the request with what record has returned to its handler.
RecordOf(c) == [key |-> asked[c].key, content |-> asked[c].content, response |-> told[c]]

\* The calls that are about to commit a record of their own.
Writes(c) == pc[c] = "commit" /\ told[c] = c

\* What the transaction of a call holds at each of its places.
TransactionOf(c) ==
  /\ newRecord[c] = IF Writes(c) THEN {RecordOf(c)} ELSE {}
  /\ c \in acted => pc[c] \in {"record", "insert", "commit"}

Transactions == \A c \in Calls : TransactionOf(c)

\* Of the requests with one key one at most is about to commit a record, and nobody
\* has committed one before it.  This is what the unique index and its wait are for.
OneWriterPerKey ==
  \A c \in Calls : Writes(c) =>
    /\ Found(c) = {}
    /\ \A d \in Calls : Writes(d) /\ asked[d].key = asked[c].key => d = c

\* Who is done was told the recorded response to the own request, and who was given
\* the record of another call has seen it committed.
DoneIsRecorded ==
  \A c \in Calls :
    pc[c] = "done" \/ (pc[c] = "commit" /\ told[c] # c) => RecordOf(c) \in records

\* Only a call that has ended is on record or has had an effect.
CommittedHasEnded ==
  /\ \A r \in records : r.response \in Calls /\ pc[r.response] \in {"done", "broken"}
  /\ \A c \in effects : pc[c] \in {"done", "broken"}

\* Who has come late finds the record, and so does not come to its effect.
LateFindsTheRecord ==
  \A c \in late : Found(c) # {} /\ c \notin acted /\ pc[c] \notin {"idle", "act"}

HandlerInv ==
  /\ TypeOK
  /\ Transactions
  /\ OneWriterPerKey
  /\ EffectsFollowTheRecord
  /\ DoneIsRecorded
  /\ RefusedOnlyForADifference
  /\ CommittedHasEnded
  /\ LateFindsTheRecord

\* Before the first call nothing is recorded, and nothing has had an effect.
LEMMA HandlerInit == Init => HandlerInv
BY FaultsAssumption
   DEF Init, HandlerInv, TypeOK, Places, Transactions, TransactionOf, Writes,
       OneWriterPerKey, EffectsFollowTheRecord, DoneIsRecorded,
       RefusedOnlyForADifference, CommittedHasEnded, LateFindsTheRecord

\* A step that writes no table and leads to a place before the commit, or ends the
\* transaction with an error: the parts of the invariant that are about the tables
\* and about what was told remain.
LEMMA TablesRemain ==
  ASSUME HandlerInv, NEW c \in Calls, NEW place \in Places \ {"idle", "commit", "done"},
         UNCHANGED <<records, effects, told>>, GoesTo(c, place),
         pc[c] \notin Ended,
         late' = late \/ (late' = late \cup {c} /\ pc[c] = "idle"),
         place = "refused" => \E r \in Found(c) : r.content # asked[c].content
  PROVE  /\ OneWriterPerKey'
         /\ EffectsFollowTheRecord'
         /\ DoneIsRecorded'
         /\ RefusedOnlyForADifference'
         /\ CommittedHasEnded'
<1>1. pc' = [pc EXCEPT ![c] = place] /\ pc \in [Calls -> Places]
  BY DEF GoesTo, HandlerInv, TypeOK
<1>2. OneWriterPerKey'
  BY <1>1 DEF HandlerInv, OneWriterPerKey, Writes, Found
<1>3. EffectsFollowTheRecord'
  <2> SUFFICES ASSUME NEW d \in effects
               PROVE  /\ \E r \in Found(d) : r.content = asked[d].content
                      /\ d \notin late'
    BY DEF EffectsFollowTheRecord, Found
  <2>1. pc[d] \in {"done", "broken"} /\ d \notin late
    BY DEF HandlerInv, CommittedHasEnded, EffectsFollowTheRecord
  <2> QED BY <2>1 DEF HandlerInv, EffectsFollowTheRecord
<1>4. DoneIsRecorded'
  BY <1>1 DEF HandlerInv, DoneIsRecorded, RecordOf
<1>5. RefusedOnlyForADifference'
  BY <1>1 DEF HandlerInv, RefusedOnlyForADifference, Found
<1>6. CommittedHasEnded'
  BY <1>1 DEF HandlerInv, CommittedHasEnded, Ended
<1> QED BY <1>2, <1>3, <1>4, <1>5, <1>6

\* A step inside the transaction, which goes on.
LEMMA GoesOn ==
  ASSUME HandlerInv, NEW c \in Calls,
         Begin(c) \/ Find(c) \/ Act(c) \/ RecordFindsNone(c)
  PROVE  HandlerInv'
<1>1. PICK place \in {"find", "act", "record", "insert"} : GoesTo(c, place)
  BY DEF Begin, Find, Act, RecordFindsNone
<1>2. /\ UNCHANGED <<records, effects, newRecord, told, faults>>
      /\ pc[c] \in {"idle", "find", "act", "record"}
      /\ pc' = [pc EXCEPT ![c] = place]
      /\ late' = late \/ (late' = late \cup {c} /\ pc[c] = "idle")
  BY <1>1 DEF Begin, Find, Act, RecordFindsNone, GoesTo
<1>3. TypeOK'
  BY <1>2 DEF Begin, Find, Act, RecordFindsNone, HandlerInv, TypeOK, Places, Ended
<1>4. Transactions'
  <2> SUFFICES ASSUME NEW d \in Calls PROVE TransactionOf(d)'
    BY DEF Transactions
  <2>1. TransactionOf(d) /\ pc \in [Calls -> Places]
    BY DEF HandlerInv, Transactions, TypeOK
  <2>2. CASE d # c
    BY <1>2, <2>1, <2>2
       DEF Begin, Find, Act, RecordFindsNone, TransactionOf, Writes, RecordOf
  <2>3. CASE d = c
    BY <1>2, <2>1, <2>3
       DEF Begin, Find, Act, RecordFindsNone, GoesTo, TransactionOf, Writes
  <2> QED BY <2>2, <2>3
<1>5. LateFindsTheRecord'
  <2> SUFFICES ASSUME NEW d \in late'
               PROVE  /\ Found(d) # {}
                      /\ d \notin acted'
                      /\ pc'[d] \notin {"idle", "act"}
    BY <1>2 DEF LateFindsTheRecord, Found
  <2>1. pc \in [Calls -> Places] /\ late \subseteq Calls /\ TransactionOf(c)
    BY DEF HandlerInv, TypeOK, Transactions
  <2>2. CASE d # c
    BY <1>2, <2>1, <2>2
       DEF Begin, Find, Act, RecordFindsNone, HandlerInv, LateFindsTheRecord
  <2>3. CASE d = c /\ Begin(c)
    BY <1>2, <2>1, <2>3
       DEF Begin, GoesTo, TransactionOf, HandlerInv, LateFindsTheRecord
  <2>4. CASE d = c /\ ~Begin(c)
    <3>1. late' = late
      BY <2>4 DEF Find, Act, RecordFindsNone
    <3> QED BY <1>2, <2>1, <2>4, <3>1
            DEF Find, Act, RecordFindsNone, GoesTo, HandlerInv, LateFindsTheRecord
  <2> QED BY <2>2, <2>3, <2>4
<1>6. place \in Places \ {"idle", "commit", "done", "refused"}
  BY DEF Places
<1> QED
  BY <1>1, <1>2, <1>3, <1>4, <1>5, <1>6, TablesRemain DEF HandlerInv, Ended

\* A call is dropped wherever it is, if only before it begins.
Drops(c) ==
  /\ Fault
  /\ pc[c] \notin Ended
  /\ CloseTransaction(c)
  /\ GoesTo(c, "broken")
  /\ UNCHANGED <<records, effects, late, told>>

\* A step that ends the transaction without a commit, or drops the call.
LEMMA RollsBack ==
  ASSUME HandlerInv, NEW c \in Calls,
         RecordRefuses(c) \/ InsertClashes(c) \/ Drops(c)
  PROVE  HandlerInv'
<1>1. PICK place \in Ended \ {"done"} : GoesTo(c, place)
  BY DEF RecordRefuses, InsertClashes, Drops, Ended
<1>2. /\ UNCHANGED <<records, effects, late, told>>
      /\ CloseTransaction(c)
      /\ pc[c] \notin Ended
      /\ pc' = [pc EXCEPT ![c] = place]
  BY <1>1 DEF RecordRefuses, InsertClashes, Drops, GoesTo, Ended
<1>3. place = "refused" => \E r \in Found(c) : r.content # asked[c].content
  <2>1. pc'[c] = place
    BY <1>2 DEF HandlerInv, TypeOK
  <2> QED BY <2>1 DEF RecordRefuses, InsertClashes, Drops, GoesTo, HandlerInv, TypeOK
<1>4. faults' \in 0 .. MaxFaults
  BY FaultsAssumption
     DEF RecordRefuses, InsertClashes, Drops, Fault, HandlerInv, TypeOK
<1>5. TypeOK'
  BY <1>2, <1>4 DEF CloseTransaction, HandlerInv, TypeOK, Places
<1>6. Transactions'
  <2> SUFFICES ASSUME NEW d \in Calls PROVE TransactionOf(d)'
    BY DEF Transactions
  <2>1. /\ TransactionOf(d)
        /\ pc \in [Calls -> Places]
        /\ newRecord \in [Calls -> SUBSET Records]
    BY DEF HandlerInv, Transactions, TypeOK
  <2> QED
    BY <1>2, <2>1 DEF CloseTransaction, TransactionOf, Writes, RecordOf, Ended
<1>7. LateFindsTheRecord'
  BY <1>2 DEF CloseTransaction, HandlerInv, TypeOK, LateFindsTheRecord, Found, Ended
<1>8. place \in Places \ {"idle", "commit", "done"}
  BY DEF Places, Ended
<1> QED
  BY <1>1, <1>2, <1>3, <1>5, <1>6, <1>7, <1>8, TablesRemain DEF HandlerInv

\* A step that leads to the commit and writes no table: the tables still bear out
\* what has been told, refused and begun.
LEMMA BeforeTheCommit ==
  ASSUME HandlerInv, NEW c \in Calls, NEW call \in Calls,
         UNCHANGED <<records, effects, acted, late, faults>>,
         told' = [told EXCEPT ![c] = call],
         pc' = [pc EXCEPT ![c] = "commit"], pc[c] \in {"record", "insert"},
         call # c => RecordOf(c)' \in records
  PROVE  /\ DoneIsRecorded'
         /\ RefusedOnlyForADifference'
         /\ CommittedHasEnded'
         /\ LateFindsTheRecord'
         /\ EffectsFollowTheRecord'
<1>1. pc \in [Calls -> Places] /\ told \in [Calls -> Calls \cup {NoAnswer}]
  BY DEF HandlerInv, TypeOK
<1>2. DoneIsRecorded'
  BY <1>1 DEF HandlerInv, DoneIsRecorded, RecordOf
<1>3. RefusedOnlyForADifference'
  BY <1>1 DEF HandlerInv, RefusedOnlyForADifference
<1>4. CommittedHasEnded'
  BY <1>1 DEF HandlerInv, CommittedHasEnded
<1>5. LateFindsTheRecord' /\ EffectsFollowTheRecord'
  BY <1>1 DEF HandlerInv, TypeOK, LateFindsTheRecord, EffectsFollowTheRecord, Found
<1> QED BY <1>2, <1>3, <1>4, <1>5

\* record returns the record of an equal request: it is the record of a call that
\* has ended, and so not the caller's own.
LEMMA RecordIsGiven ==
  ASSUME HandlerInv, NEW c \in Calls, RecordAnswers(c)
  PROVE  HandlerInv'
<1>1. PICK r \in Found(c) :
         r.content = asked[c].content /\ told' = [told EXCEPT ![c] = r.response]
  BY DEF RecordAnswers
<1>2. /\ UNCHANGED <<records, effects, newRecord, acted, late, faults>>
      /\ pc[c] = "record" /\ pc' = [pc EXCEPT ![c] = "commit"]
  BY DEF RecordAnswers, GoesTo
<1>3. /\ pc \in [Calls -> Places]
      /\ told \in [Calls -> Calls \cup {NoAnswer}]
      /\ records \subseteq Records
  BY DEF HandlerInv, TypeOK
<1>4. /\ r \in records /\ r.response \in Calls /\ r.response # c
      /\ r = [key |-> asked[c].key, content |-> asked[c].content,
              response |-> r.response]
  BY <1>1, <1>2, <1>3 DEF Found, Records, HandlerInv, CommittedHasEnded
<1>5. told'[c] = r.response /\ \A d \in Calls : d # c => told'[d] = told[d]
  BY <1>1, <1>3
<1>6. RecordOf(c)' \in records
  BY <1>4, <1>5 DEF RecordOf
<1>7. TypeOK'
  BY <1>1, <1>2, <1>4 DEF HandlerInv, TypeOK, Places
<1>8. \A d \in Calls : Writes(d)' <=> Writes(d)
  BY <1>2, <1>3, <1>4, <1>5 DEF Writes
<1>9. Transactions'
  <2> SUFFICES ASSUME NEW d \in Calls PROVE TransactionOf(d)'
    BY DEF Transactions
  <2>1. TransactionOf(d)
    BY DEF HandlerInv, Transactions
  <2>2. Writes(d) => d # c
    BY <1>2 DEF Writes
  <2> QED BY <1>2, <1>3, <1>5, <1>8, <2>1, <2>2 DEF TransactionOf, RecordOf
<1>10. OneWriterPerKey'
  BY <1>2, <1>8 DEF HandlerInv, OneWriterPerKey, Found
<1> QED BY <1>1, <1>2, <1>4, <1>6, <1>7, <1>9, <1>10, BeforeTheCommit DEF HandlerInv

\* The insertion: nobody else with the key is about to commit a record.
LEMMA Inserts ==
  ASSUME HandlerInv, NEW c \in Calls, Insert(c)
  PROVE  HandlerInv'
<1> DEFINE R == [key |-> asked[c].key, content |-> asked[c].content, response |-> c]
<1>1. /\ UNCHANGED <<records, effects, acted, late, faults>>
      /\ newRecord' = [newRecord EXCEPT ![c] = {R}]
      /\ told' = [told EXCEPT ![c] = c]
      /\ pc' = [pc EXCEPT ![c] = "commit"]
      /\ pc[c] = "insert" /\ Found(c) = {}
  BY DEF Insert, GoesTo
<1>2. /\ R \in Records
      /\ pc \in [Calls -> Places]
      /\ told \in [Calls -> Calls \cup {NoAnswer}]
      /\ newRecord \in [Calls -> SUBSET Records]
  BY RequestAssumption DEF Records, Requests, HandlerInv, TypeOK
<1>3. TypeOK'
  BY <1>1, <1>2 DEF HandlerInv, TypeOK, Places
<1>4. /\ Writes(c)' /\ ~Writes(c) /\ RecordOf(c)' = R
      /\ \A d \in Calls : d # c => (Writes(d)' <=> Writes(d)) /\ told'[d] = told[d]
  BY <1>1, <1>2 DEF Writes, RecordOf
<1>5. Transactions'
  <2> SUFFICES ASSUME NEW d \in Calls PROVE TransactionOf(d)'
    BY DEF Transactions
  <2>1. TransactionOf(d)
    BY DEF HandlerInv, Transactions
  <2>2. CASE d = c
    BY <1>1, <1>2, <1>4, <2>1, <2>2 DEF TransactionOf
  <2>3. CASE d # c
    <3>1. newRecord'[d] = newRecord[d] /\ pc'[d] = pc[d]
      BY <1>1, <1>2, <2>3
    <3> QED BY <1>1, <1>4, <2>1, <2>3, <3>1 DEF TransactionOf, RecordOf
  <2> QED BY <2>2, <2>3
<1>6. ASSUME NEW d \in Calls, Writes(d)
      PROVE  asked[d].key # asked[c].key
  <2>1. newRecord[d] = {RecordOf(d)} /\ d # c
    BY <1>4, <1>6 DEF HandlerInv, Transactions, TransactionOf
  <2>2. RecordOf(d) \in InFlight(c)
    BY <2>1 DEF InFlight
  <2> QED BY <2>2 DEF Insert, RecordOf
<1>7. OneWriterPerKey'
  BY <1>1, <1>4, <1>6 DEF HandlerInv, OneWriterPerKey, Found
<1> QED BY <1>1, <1>3, <1>5, <1>7, BeforeTheCommit DEF HandlerInv

\* The commit of a call that was given a record, or of the first one with its key.
LEMMA Commits ==
  ASSUME HandlerInv, NEW c \in Calls, Commit(c) \/ CommitUnheard(c)
  PROVE  HandlerInv'
<1>1. /\ records' = records \cup newRecord[c]
      /\ newRecord[c] = IF Writes(c) THEN {RecordOf(c)} ELSE {}
      /\ effects' = effects \cup (acted \cap {c})
      /\ newRecord' = [newRecord EXCEPT ![c] = {}]
      /\ acted' = acted \ {c}
      /\ pc[c] = "commit" /\ late' = late /\ told' = told
  BY DEF Commit, CommitUnheard, CommitTables, CloseTransaction,
         HandlerInv, Transactions, TransactionOf
<1>2. /\ pc \in [Calls -> Places]
      /\ newRecord \in [Calls -> SUBSET Records]
      /\ effects \subseteq Calls /\ late \subseteq Calls
      /\ told \in [Calls -> Calls \cup {NoAnswer}]
      /\ records \subseteq Records
  BY DEF HandlerInv, TypeOK
<1>3. PICK place \in {"done", "broken"} : pc' = [pc EXCEPT ![c] = place]
  BY DEF Commit, CommitUnheard, GoesTo
<1>4. RecordOf(c) \in records' /\ records \subseteq records'
  BY <1>1 DEF HandlerInv, DoneIsRecorded, Writes
<1>5. TypeOK'
  <2>1. faults' \in 0 .. MaxFaults
    BY FaultsAssumption DEF Commit, CommitUnheard, Fault, HandlerInv, TypeOK
  <2> QED BY <1>1, <1>2, <1>3, <2>1 DEF HandlerInv, TypeOK, Places, Ended
<1>6. ~Writes(c)' /\ \A d \in Calls : d # c => (Writes(d)' <=> Writes(d))
  BY <1>1, <1>2, <1>3 DEF Writes
<1>7. Transactions'
  <2> SUFFICES ASSUME NEW d \in Calls PROVE TransactionOf(d)'
    BY DEF Transactions
  <2>1. TransactionOf(d)
    BY DEF HandlerInv, Transactions
  <2>2. CASE d = c
    BY <1>1, <1>2, <1>6, <2>2 DEF TransactionOf
  <2>3. CASE d # c
    <3>1. newRecord'[d] = newRecord[d] /\ pc'[d] = pc[d]
      BY <1>1, <1>2, <1>3, <2>3
    <3> QED BY <1>1, <1>6, <2>1, <2>3, <3>1 DEF TransactionOf, RecordOf
  <2> QED BY <2>2, <2>3
<1>8. OneWriterPerKey'
  <2> SUFFICES ASSUME NEW d \in Calls, Writes(d)'
               PROVE  /\ Found(d)' = {}
                      /\ \A e \in Calls :
                           Writes(e)' /\ asked[e].key = asked[d].key => e = d
    BY DEF OneWriterPerKey
  <2>1. Writes(d) /\ d # c
    BY <1>6
  <2>2. Found(d) = {} /\ \A e \in Calls : Writes(e) /\ asked[e].key = asked[d].key => e = d
    BY <2>1 DEF HandlerInv, OneWriterPerKey
  <2>3. \A r \in newRecord[c] : r.key # asked[d].key
    BY <1>1, <2>1, <2>2 DEF RecordOf
  <2>4. Found(d)' = {}
    BY <1>1, <2>2, <2>3 DEF Found
  <2> QED BY <1>6, <2>2, <2>4
<1>9. EffectsFollowTheRecord'
  <2> SUFFICES ASSUME NEW d \in effects'
               PROVE  /\ \E r \in records' :
                           r.key = asked[d].key /\ r.content = asked[d].content
                      /\ d \notin late
    BY <1>1 DEF EffectsFollowTheRecord, Found
  <2>1. CASE d \in effects
    BY <1>4, <2>1 DEF HandlerInv, EffectsFollowTheRecord, Found
  <2>2. CASE d = c /\ c \in acted
    BY <1>4, <2>2 DEF RecordOf, HandlerInv, LateFindsTheRecord
  <2> QED BY <1>1, <2>1, <2>2
<1>10. DoneIsRecorded' /\ RefusedOnlyForADifference'
  <2>1. \A d \in Calls : RecordOf(d)' = RecordOf(d)
    BY <1>1 DEF RecordOf
  <2>2. DoneIsRecorded'
    BY <1>1, <1>2, <1>3, <1>4, <2>1 DEF HandlerInv, DoneIsRecorded
  <2>3. RefusedOnlyForADifference'
    BY <1>2, <1>3, <1>4 DEF HandlerInv, RefusedOnlyForADifference
  <2> QED BY <2>2, <2>3
<1>11. CommittedHasEnded'
  <2>1. ASSUME NEW r \in records'
        PROVE  r.response \in Calls /\ pc'[r.response] \in {"done", "broken"}
    <3>1. CASE r \in records
      BY <1>2, <1>3, <3>1 DEF HandlerInv, CommittedHasEnded
    <3>2. CASE Writes(c) /\ r = RecordOf(c)
      BY <1>2, <1>3, <3>2 DEF Writes, RecordOf
    <3> QED BY <1>1, <3>1, <3>2
  <2>2. \A d \in effects' : pc'[d] \in {"done", "broken"}
    BY <1>1, <1>2, <1>3 DEF HandlerInv, CommittedHasEnded
  <2> QED BY <2>1, <2>2 DEF CommittedHasEnded
<1>12. LateFindsTheRecord'
  BY <1>1, <1>2, <1>3, <1>4 DEF HandlerInv, LateFindsTheRecord, Found
<1> QED BY <1>5, <1>7, <1>8, <1>9, <1>10, <1>11, <1>12 DEF HandlerInv

\* Every step of the handler preserves its invariant.
LEMMA HandlerStep ==
  ASSUME HandlerInv, [Next]_vars
  PROVE  HandlerInv'
<1>1. CASE Next
  <2>1. PICK c \in Calls : Begin(c) \/ CallStep(c) \/ CommitUnheard(c) \/ Break(c)
    BY <1>1 DEF Next
  <2>2. Break(c) => Drops(c)
    BY DEF Break, Drops
  <2> QED
    BY <2>1, <2>2, GoesOn, RollsBack, RecordIsGiven, Inserts, Commits DEF CallStep
<1>2. CASE UNCHANGED vars
  BY <1>2 DEF vars, HandlerInv, TypeOK, Transactions, TransactionOf, Writes, RecordOf,
              OneWriterPerKey, EffectsFollowTheRecord, DoneIsRecorded,
              RefusedOnlyForADifference, CommittedHasEnded, LateFindsTheRecord, Found
<1> QED BY <1>1, <1>2

\* Of the handler alone, entered by anybody at any time, the invariant holds.
THEOREM HandlerCorrect == Spec => []HandlerInv
BY HandlerInit, HandlerStep, PTL DEF Spec

-----------------------------------------------------------------------------
(* The path.                                                               *)

\* A call that the path moves inside the handler, from one place to another.
Inside(c) ==
  /\ pc[c] \notin {"idle"} \cup Ended
  /\ \E place \in Places \ {"idle"} : pc' = [pc EXCEPT ![c] = place]
  /\ UNCHANGED pathVars

\* The steps of the handler after its first move the call inside the handler.
LEMMA HandlerMoves ==
  ASSUME NEW c \in Calls, Handle(c) \/ HandlerFails(c)
  PROVE  Inside(c)
BY DEF Handle, HandlerFails, CallStep, Find, Act, RecordFindsNone, RecordRefuses,
       RecordAnswers, Insert, InsertClashes, Commit, CommitUnheard, Break, GoesTo,
       Inside, Ended, Places

\* A step of the path is a step of the handler, drops a call, or leaves the handler
\* alone but for the number of faults.
LEMMA HandlerOnThePath ==
  ASSUME HandlerInv, [PathNext]_allVars
  PROVE  HandlerInv'
<1>1. CASE [Next]_vars
  BY <1>1, HandlerStep
<1>2. CASE Fault /\ UNCHANGED handlerVars
  BY <1>2, FaultsAssumption
     DEF Fault, handlerVars, HandlerInv, TypeOK, Transactions, TransactionOf, Writes,
         RecordOf, OneWriterPerKey, EffectsFollowTheRecord, DoneIsRecorded,
         RefusedOnlyForADifference, CommittedHasEnded, LateFindsTheRecord, Found
<1>3. ASSUME NEW c \in Calls, ExecutionLost(c)
      PROVE  HandlerInv'
  <2>1. Drops(c)
    BY <1>3 DEF ExecutionLost, Drops
  <2> QED BY <2>1, RollsBack
<1>4. CASE OtherTab \/ UNCHANGED allVars
  BY <1>1, <1>4 DEF OtherTab, SignIn, SetPassword, SignOut, SignInAsAnother, allVars
<1>5. ASSUME NEW c \in Calls,
             ReadToken(c) \/ Send(c) \/ WebStep(c) \/ ApiStep(c) \/ HandlerFails(c)
      PROVE  HandlerInv'
  <2>1. CASE Enter(c) \/ Handle(c) \/ HandlerFails(c)
    BY <1>1, <2>1 DEF Enter, Handle, HandlerFails, Next
  <2>2. CASE ReadToken(c) \/ Send(c) \/ WebStep(c)
    BY <1>1, <2>2
       DEF ReadToken, Send, WebStep, ProxyPasses, ProxyRefuses, GuardPasses,
           GuardRefuses, TooLarge, Forward, Answer, FetchFails
  <2>3. CASE TokenAccepted(c) \/ AskProfile(c) \/ ProfileActive(c)
    BY <1>1, <2>3 DEF TokenAccepted, AskProfile, ProfileActive
  <2> QED BY <1>5, <2>1, <2>2, <2>3 DEF ApiStep
<1>6. ASSUME NEW c \in Calls,
             ProxyOutage(c) \/ SessionGone(c) \/ TokenRefused(c) \/ ProfileRefused(c)
      PROVE  HandlerInv'
  BY <1>2, <1>6 DEF ProxyOutage, SessionGone, TokenRefused, ProfileRefused
<1> QED
  BY <1>3, <1>4, <1>5, <1>6 DEF PathNext, PathFault

\* The handler is only entered by calls that were admitted, the API by calls that
\* were forwarded; an answer is the end of the way back.
PlacesAgree ==
  \A c \in Calls :
    /\ pc[c] # "idle" => api[c] \in {"admitted", "lost"}
    /\ api[c] # "absent" => web[c] \in {"waiting", "answered"}
    /\ answer[c] # NoAnswer <=> web[c] = "answered"

\* What the browser was answered says where the execution is, but for the two errors
\* that leave it open.
AnswersTell ==
  \A c \in Calls :
    /\ answer[c] = "success" => pc[c] = "done"
    /\ answer[c] \notin {NoAnswer, "success", "PROVIDER_UNAVAILABLE", "INTERNAL_ERROR"} =>
         api[c] \in {"absent"} \cup Refusals

PathTypes ==
  /\ csrf \in Tokens /\ session \in Sessions
  /\ carried \in [Calls -> Carried]
  /\ web \in [Calls -> WebPlaces]
  /\ api \in [Calls -> ApiPlaces \cup Refusals]
  /\ answer \in [Calls -> Answers \cup {NoAnswer}]

ConnectionsAreBounded == IsFiniteSet(Connected) /\ Cardinality(Connected) <= PoolSize

PathInv ==
  /\ HandlerInv
  /\ PathTypes
  /\ PlacesAgree
  /\ AnswersTell
  /\ ConnectionsAreBounded

USE DEF NoAnswer, WebPlaces, ApiPlaces, Refusals, Answers

\* There is a first token, and a next one as long as the bound is not reached.
LEMMA TokensFollow ==
  /\ 1 \in Tokens
  /\ \A n \in Tokens : n < MaxTokens => n + 1 \in Tokens
BY PoolAssumption DEF Tokens

\* Nothing has been sent, and the browser holds its first token.
LEMMA PathStart == PathInit => PathInv
<1> SUFFICES ASSUME PathInit PROVE PathInv
  OBVIOUS
<1>1. HandlerInv
  BY HandlerInit DEF PathInit
<1>2. PathTypes
  BY TokensFollow DEF PathInit, PathTypes, Sessions, Carried, Nothing
<1>3. PlacesAgree /\ AnswersTell
  BY DEF PathInit, Init, PlacesAgree, AnswersTell
<1>4. Connected = {}
  BY DEF PathInit, Init, Connected
<1>5. ConnectionsAreBounded
  BY <1>4, FS_EmptySet, PoolAssumption DEF ConnectionsAreBounded
<1> QED BY <1>1, <1>2, <1>3, <1>5 DEF PathInv

\* Every step of the path keeps the types of its variables.
LEMMA TypesRemain ==
  ASSUME PathInv, [PathNext]_allVars
  PROVE  PathTypes'
<1> USE DEF PathTypes
<1>1. /\ csrf \in Tokens /\ session \in Sessions
      /\ carried \in [Calls -> Carried]
      /\ web \in [Calls -> WebPlaces]
      /\ api \in [Calls -> ApiPlaces \cup Refusals]
      /\ answer \in [Calls -> Answers \cup {NoAnswer}]
  BY DEF PathInv
<1>2. Nothing \in Carried
  BY TokensFollow DEF Nothing, Carried, Sessions
<1>3. CASE OtherTab
  BY <1>1, <1>3, TokensFollow
     DEF OtherTab, SignIn, SetPassword, SignOut, SignInAsAnother, Rotate, Sessions
<1>4. ASSUME NEW c \in Calls, ReadToken(c)
      PROVE  PathTypes'
  <2>1. [header |-> csrf, token |-> carried[c].token, session |-> carried[c].session]
          \in Carried
    BY <1>1 DEF Carried
  <2> QED BY <1>1, <1>4, <2>1 DEF ReadToken, browser
<1>5. ASSUME NEW c \in Calls, Send(c)
      PROVE  PathTypes'
  <2>1. [header |-> carried[c].header, token |-> csrf, session |-> session] \in Carried
    BY <1>1 DEF Carried
  <2> QED BY <1>1, <1>5, <2>1 DEF Send, browser
<1>6. ASSUME NEW c \in Calls, NEW a \in Answers, AnsweredWith(c, a),
             UNCHANGED <<browser, api>>
      PROVE  PathTypes'
  BY <1>1, <1>2, <1>6 DEF AnsweredWith, browser
<1>7. ASSUME NEW c \in Calls, WebStep(c)
      PROVE  PathTypes'
  <2>1. CASE Answer(c)
    BY <1>6, <2>1 DEF Answer, ApiAnswer
  <2>2. CASE ProxyRefuses(c) \/ GuardRefuses(c) \/ TooLarge(c) \/ FetchFails(c)
    BY <1>6, <2>2 DEF ProxyRefuses, GuardRefuses, TooLarge, FetchFails
  <2>3. CASE ProxyPasses(c) \/ GuardPasses(c)
    BY <1>1, <2>3 DEF ProxyPasses, GuardPasses, Proceeds, browser
  <2>4. CASE Forward(c)
    BY <1>1, <1>2, <2>4 DEF Forward, browser
  <2> QED BY <1>7, <2>1, <2>2, <2>3, <2>4 DEF WebStep
<1>8. ASSUME NEW c \in Calls, ApiStep(c)
      PROVE  PathTypes'
  BY <1>1, <1>8 DEF ApiStep, TokenAccepted, AskProfile, ProfileActive, Enter, Handle,
                    pathVars, browser
<1>9. ASSUME NEW c \in Calls, PathFault(c)
      PROVE  PathTypes'
  <2>1. CASE ProxyOutage(c) \/ SessionGone(c)
    BY <1>6, <2>1 DEF ProxyOutage, SessionGone
  <2>2. CASE TokenRefused(c) \/ ProfileRefused(c)
    BY <1>1, <2>2, ZenonT(60) DEF TokenRefused, ProfileRefused, browser
  <2>3. CASE HandlerFails(c) \/ ExecutionLost(c)
    BY <1>1, <2>3 DEF HandlerFails, ExecutionLost, pathVars, browser
  <2> QED BY <1>9, <2>1, <2>2, <2>3 DEF PathFault
<1>10. CASE UNCHANGED allVars
  BY <1>1, <1>10 DEF allVars, pathVars
<1> QED BY <1>3, <1>4, <1>5, <1>7, <1>8, <1>9, <1>10 DEF PathNext

\* What a step does to the places of the calls: nothing; or it moves one call in the
\* web server, in the gates of the API, or in the handler.
WebMoves(c) ==
  /\ UNCHANGED <<pc, api>>
  /\ web[c] \notin {"waiting", "answered"}
  /\ \/ \E place \in WebPlaces \ {"waiting", "answered"} :
          web' = [web EXCEPT ![c] = place] /\ UNCHANGED answer
     \/ \E a \in Answers \ {"success"} :
          /\ web' = [web EXCEPT ![c] = "answered"]
          /\ answer' = [answer EXCEPT ![c] = a]

Forwarded(c) ==
  /\ UNCHANGED <<pc, answer>>
  /\ web[c] \notin {"waiting", "answered"}
  /\ web' = [web EXCEPT ![c] = "waiting"]
  /\ api' = [api EXCEPT ![c] = "arriving"]

IsAnswered(c) ==
  /\ UNCHANGED <<pc, api>>
  /\ web[c] = "waiting"
  /\ web' = [web EXCEPT ![c] = "answered"]
  /\ \E a \in Answers :
       /\ answer' = [answer EXCEPT ![c] = a]
       /\ a = "success" => pc[c] = "done"
       /\ a \notin {"success", "PROVIDER_UNAVAILABLE", "INTERNAL_ERROR"} =>
            api[c] \in Refusals

GateMoves(c) ==
  /\ UNCHANGED <<pc, web, answer>>
  /\ api[c] \in {"arriving", "authorizing", "checking"}
  /\ \E place \in (ApiPlaces \cup Refusals) \ {"absent"} :
       /\ api' = [api EXCEPT ![c] = place]
       /\ place = "checking" => ConnectionFree

Enters(c) ==
  /\ UNCHANGED pathVars
  /\ api[c] = "admitted" /\ pc[c] = "idle" /\ ConnectionFree
  /\ pc' = [pc EXCEPT ![c] = "find"]

IsLost(c) ==
  /\ UNCHANGED <<web, answer>>
  /\ api[c] \notin {"absent", "lost"} \cup Refusals
  /\ pc[c] \notin Ended
  /\ api' = [api EXCEPT ![c] = "lost"]
  /\ pc' = [pc EXCEPT ![c] = "broken"]

Moves(c) ==
  \/ WebMoves(c) \/ Forwarded(c) \/ IsAnswered(c)
  \/ GateMoves(c) \/ Enters(c) \/ Inside(c) \/ IsLost(c)

\* Every step of the path moves one call at most.
LEMMA StepMoves ==
  ASSUME PathInv, [PathNext]_allVars
  PROVE  UNCHANGED <<pc, api, web, answer>> \/ \E c \in Calls : Moves(c)
<1>1. CASE OtherTab \/ UNCHANGED allVars
  BY <1>1 DEF OtherTab, SignIn, SetPassword, SignOut, SignInAsAnother, allVars, vars,
              pathVars
<1>2. ASSUME NEW c \in Calls, ReadToken(c) \/ Send(c)
      PROVE  Moves(c)
  BY <1>2 DEF ReadToken, Send, vars, Moves, WebMoves
<1>3. ASSUME NEW c \in Calls, WebStep(c)
      PROVE  Moves(c)
  <2>1. CASE Answer(c)
    <3>1. /\ ApiAnswer(c) \in Answers
          /\ ApiAnswer(c) = "success" => pc[c] = "done"
          /\ ApiAnswer(c) \notin {"success", "INTERNAL_ERROR"} => api[c] \in Refusals
      BY <2>1 DEF Answer, ApiAnswer
    <3> QED BY <2>1, <3>1 DEF Answer, AnsweredWith, vars, Moves, IsAnswered
  <2>2. CASE FetchFails(c)
    BY <2>2 DEF FetchFails, AnsweredWith, vars, Moves, IsAnswered
  <2>3. CASE ProxyRefuses(c) \/ GuardRefuses(c) \/ TooLarge(c)
    BY <2>3 DEF ProxyRefuses, GuardRefuses, TooLarge, AnsweredWith, vars, Moves, WebMoves
  <2>4. CASE ProxyPasses(c) \/ GuardPasses(c)
    BY <2>4 DEF ProxyPasses, GuardPasses, Proceeds, vars, Moves, WebMoves
  <2>5. CASE Forward(c)
    BY <2>5 DEF Forward, vars, Moves, Forwarded
  <2> QED BY <1>3, <2>1, <2>2, <2>3, <2>4, <2>5 DEF WebStep
<1>4. ASSUME NEW c \in Calls, ApiStep(c)
      PROVE  Moves(c)
  <2>1. CASE TokenAccepted(c) \/ AskProfile(c) \/ ProfileActive(c)
    BY <2>1 DEF TokenAccepted, AskProfile, ProfileActive, vars, Moves, GateMoves
  <2>2. CASE Enter(c)
    BY <2>2 DEF Enter, Begin, GoesTo, Moves, Enters
  <2>3. CASE Handle(c)
    BY <2>3, HandlerMoves DEF Moves
  <2> QED BY <1>4, <2>1, <2>2, <2>3 DEF ApiStep
<1>5. ASSUME NEW c \in Calls, PathFault(c)
      PROVE  Moves(c)
  <2>1. CASE ProxyOutage(c) \/ SessionGone(c)
    BY <2>1 DEF ProxyOutage, SessionGone, AnsweredWith, handlerVars, Moves, WebMoves
  <2>2. CASE TokenRefused(c) \/ ProfileRefused(c)
    BY <2>2 DEF TokenRefused, ProfileRefused, handlerVars, Moves, GateMoves
  <2>3. CASE HandlerFails(c)
    BY <2>3, HandlerMoves DEF Moves
  <2>4. CASE ExecutionLost(c)
    BY <2>4 DEF ExecutionLost, GoesTo, Moves, IsLost
  <2> QED BY <1>5, <2>1, <2>2, <2>3, <2>4 DEF PathFault
<1> QED BY <1>1, <1>2, <1>3, <1>4, <1>5 DEF PathNext

\* No move disturbs the places, nor what the answers tell of them.
LEMMA PlacesRemain ==
  ASSUME PathInv, NEW c \in Calls, Moves(c)
  PROVE  PlacesAgree' /\ AnswersTell'
<1>1. /\ PlacesAgree /\ AnswersTell
      /\ web \in [Calls -> WebPlaces]
      /\ api \in [Calls -> ApiPlaces \cup Refusals]
      /\ answer \in [Calls -> Answers \cup {NoAnswer}]
      /\ pc \in [Calls -> Places]
  BY DEF PathInv, PathTypes, HandlerInv, TypeOK
<1> USE DEF PlacesAgree, AnswersTell
<1>2. CASE WebMoves(c)
  <2>1. api[c] = "absent" /\ pc[c] = "idle"
    BY <1>1, <1>2 DEF WebMoves
  <2>2. UNCHANGED <<pc, api>> /\ web[c] \notin {"waiting", "answered"}
    BY <1>2 DEF WebMoves
  <2>3. ASSUME NEW place \in WebPlaces \ {"waiting", "answered"},
               web' = [web EXCEPT ![c] = place], UNCHANGED answer
        PROVE  PlacesAgree' /\ AnswersTell'
    BY <1>1, <2>1, <2>2, <2>3
  <2>4. ASSUME NEW a \in Answers \ {"success"},
               web' = [web EXCEPT ![c] = "answered"],
               answer' = [answer EXCEPT ![c] = a]
        PROVE  PlacesAgree' /\ AnswersTell'
    BY <1>1, <2>1, <2>2, <2>4
  <2> QED BY <1>2, <2>3, <2>4 DEF WebMoves
<1>3. CASE Forwarded(c)
  BY <1>1, <1>3 DEF Forwarded
<1>4. CASE IsAnswered(c)
  <2>1. /\ UNCHANGED <<pc, api>>
        /\ web[c] = "waiting" /\ web' = [web EXCEPT ![c] = "answered"]
    BY <1>4 DEF IsAnswered
  <2>2. PICK a \in Answers :
          /\ answer' = [answer EXCEPT ![c] = a]
          /\ a = "success" => pc[c] = "done"
          /\ a \notin {"success", "PROVIDER_UNAVAILABLE", "INTERNAL_ERROR"} =>
               api[c] \in Refusals
    BY <1>4 DEF IsAnswered
  <2>3. a # NoAnswer
    BY <2>2
  <2>4. ASSUME NEW d \in Calls, d # c
        PROVE  web'[d] = web[d] /\ answer'[d] = answer[d]
    BY <1>1, <2>1, <2>2, <2>4
  <2>5. web'[c] = "answered" /\ answer'[c] = a
    BY <1>1, <2>1, <2>2
  <2>6. PlacesAgree'
    BY <1>1, <2>1, <2>3, <2>4, <2>5, ZenonT(60)
  <2>7. AnswersTell'
    BY <1>1, <2>1, <2>2, <2>4, <2>5
  <2> QED BY <2>6, <2>7
<1>5. CASE GateMoves(c)
  BY <1>1, <1>5, ZenonT(60) DEF GateMoves
<1>6. CASE Enters(c)
  BY <1>1, <1>6 DEF Enters, pathVars
<1>7. CASE Inside(c)
  BY <1>1, <1>7, ZenonT(60) DEF Inside, pathVars, Places, Ended
<1>8. CASE IsLost(c)
  BY <1>1, <1>8 DEF IsLost, Ended
<1> QED BY <1>2, <1>3, <1>4, <1>5, <1>6, <1>7, <1>8 DEF Moves

\* A move takes one connection, and only a free one, or none.
LEMMA ConnectionsRemain ==
  ASSUME PathInv, NEW c \in Calls, Moves(c)
  PROVE  ConnectionsAreBounded'
<1>1. /\ IsFiniteSet(Connected) /\ Cardinality(Connected) <= PoolSize
      /\ api \in [Calls -> ApiPlaces \cup Refusals]
      /\ pc \in [Calls -> Places]
  BY DEF PathInv, ConnectionsAreBounded, PathTypes, HandlerInv, TypeOK
<1>2. Connected' \subseteq Connected \/ (ConnectionFree /\ Connected' \subseteq Connected \cup {c})
  <2>1. CASE WebMoves(c) \/ Forwarded(c) \/ IsAnswered(c)
    BY <1>1, <2>1 DEF WebMoves, Forwarded, IsAnswered, Connected
  <2>2. CASE GateMoves(c)
    BY <1>1, <2>2 DEF GateMoves, Connected
  <2>3. CASE Enters(c)
    BY <1>1, <2>3 DEF Enters, pathVars, Connected
  <2>4. CASE Inside(c) \/ IsLost(c)
    BY <1>1, <2>4 DEF Inside, IsLost, pathVars, Connected, Ended
  <2> QED BY <2>1, <2>2, <2>3, <2>4 DEF Moves
<1>3. CASE Connected' \subseteq Connected
  <2>1. IsFiniteSet(Connected') /\ Cardinality(Connected') <= Cardinality(Connected)
    BY <1>1, <1>3, FS_Subset
  <2>2. Cardinality(Connected') \in Nat /\ Cardinality(Connected) \in Nat
    BY <1>1, <2>1, FS_CardinalityType
  <2> QED BY <1>1, <2>1, <2>2, PoolAssumption DEF ConnectionsAreBounded
<1>4. CASE ConnectionFree /\ Connected' \subseteq Connected \cup {c}
  <2> DEFINE more == Connected \cup {c}
  <2>1. IsFiniteSet(more) /\ Cardinality(more) <= Cardinality(Connected) + 1
    <3>1. /\ IsFiniteSet(more)
          /\ Cardinality(more) =
               IF c \in Connected THEN Cardinality(Connected) ELSE Cardinality(Connected) + 1
      BY <1>1, FS_AddElement
    <3>2. Cardinality(Connected) \in Nat
      BY <1>1, FS_CardinalityType
    <3> QED BY <3>1, <3>2
  <2>2. IsFiniteSet(Connected') /\ Cardinality(Connected') <= Cardinality(more)
    BY <1>4, <2>1, FS_Subset
  <2>3. /\ Cardinality(Connected') \in Nat /\ Cardinality(Connected) \in Nat
        /\ Cardinality(more) \in Nat
    BY <1>1, <2>1, <2>2, FS_CardinalityType
  <2>4. Cardinality(Connected) < PoolSize
    BY <1>4 DEF ConnectionFree
  <2> QED BY <2>1, <2>2, <2>3, <2>4, PoolAssumption DEF ConnectionsAreBounded
<1> QED BY <1>2, <1>3, <1>4

\* Every step of the path preserves its invariant.
LEMMA PathStep ==
  ASSUME PathInv, [PathNext]_allVars
  PROVE  PathInv'
<1>1. HandlerInv'
  BY HandlerOnThePath DEF PathInv
<1>2. PathTypes'
  BY TypesRemain
<1>3. CASE UNCHANGED <<pc, api, web, answer>>
  <2>1. PlacesAgree' /\ AnswersTell'
    BY <1>3 DEF PathInv, PlacesAgree, AnswersTell
  <2>2. Connected' = Connected
    BY <1>3 DEF Connected
  <2>3. ConnectionsAreBounded'
    BY <2>2 DEF PathInv, ConnectionsAreBounded
  <2> QED BY <1>1, <1>2, <2>1, <2>3 DEF PathInv
<1>4. ASSUME NEW c \in Calls, Moves(c)
      PROVE  PathInv'
  BY <1>1, <1>2, <1>4, PlacesRemain, ConnectionsRemain DEF PathInv
<1> QED BY <1>3, <1>4, StepMoves

\* Along every behaviour of the path its invariant holds.
THEOREM PathCorrect == PathSpec => []PathInv
BY PathStart, PathStep, PTL DEF PathSpec

\* Whatever the calls and their interleaving, every variable of the path has its
\* type, nobody is in the handler who was not admitted, and the pool of the API
\* never has more connections in use than it may have.
THEOREM PathTypeTheorem == PathSpec => []PathTypeOK
<1>1. PathInv => PathTypeOK
  BY DEF PathInv, HandlerInv, PathTypes, PlacesAgree, ConnectionsAreBounded, PathTypeOK
<1> QED BY <1>1, PathCorrect, PTL

\* However many requests carry one key, race, break off and are repeated: whoever has
\* an effect has the key and the content on record, and nobody has one who began when
\* the key was on record already.
THEOREM EffectTheorem == PathSpec => []EffectsFollowTheRecord
<1>1. PathInv => EffectsFollowTheRecord
  BY DEF PathInv, HandlerInv
<1> QED BY <1>1, PathCorrect, PTL

\* A success that reaches the browser carries the recorded response to its request.
THEOREM SuccessTheorem == PathSpec => []SuccessIsTheRecord
<1>1. PathInv => SuccessIsTheRecord
  BY DEF PathInv, HandlerInv, AnswersTell, DoneIsRecorded, RecordOf, SuccessIsTheRecord
<1> QED BY <1>1, PathCorrect, PTL

\* The key of a request that is refused as reused belongs to a different request.
THEOREM RefusalTheorem == PathSpec => []RefusedOnlyForADifference
<1>1. PathInv => RefusedOnlyForADifference
  BY DEF PathInv, HandlerInv
<1> QED BY <1>1, PathCorrect, PTL

\* After an error of the proxy, of the guards or of require_owner the request has no
\* effect and never will: its execution stands at a place it cannot leave.
THEOREM FirmTheorem == PathSpec => []FirmErrorsAreFinal
<1>1. PathInv => FirmErrorsAreFinal
  <2> SUFFICES ASSUME PathInv, NEW c \in Calls, c \in effects,
                      answer[c] \notin {NoAnswer, "success", "PROVIDER_UNAVAILABLE",
                                        "INTERNAL_ERROR"}
               PROVE  FALSE
    BY DEF FirmErrorsAreFinal
  <2>1. pc[c] # "idle"
    BY DEF PathInv, HandlerInv, CommittedHasEnded
  <2>2. api[c] \in {"admitted", "lost"}
    BY <2>1 DEF PathInv, PlacesAgree
  <2>3. api[c] \in {"absent"} \cup Refusals
    BY DEF PathInv, AnswersTell
  <2> QED BY <2>2, <2>3
<1> QED BY <1>1, PathCorrect, PTL
=============================================================================
