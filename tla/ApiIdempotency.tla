--------------------------- MODULE ApiIdempotency ---------------------------
(***************************************************************************)
(* Idempotency records of the API: IdempotencyRepository.find and record,  *)
(* used by a handler inside one owner transaction.  The repository has no  *)
(* such handler yet, but record takes the response, so any handler has to  *)
(* have its effect before it records: it looks for a record, has its       *)
(* effect if there is none, records, and commits effect and record         *)
(* together.                                                               *)
(*                                                                         *)
(* record looks for the key once more and then inserts.  Another request   *)
(* can commit before the second look, which then returns its record        *)
(* without a word, or between the second look and the insertion, which     *)
(* then violates the unique index.  In the first case nothing tells the    *)
(* handler that the record is not its own: it answers with what record     *)
(* returns, and commits an effect for which there was one already.         *)
(***************************************************************************)
EXTENDS Naturals, FiniteSets

CONSTANTS Calls,      \* requests, each of them executed once; a repetition is another
          Keys,       \* idempotency keys of the owner
          Contents,   \* method, path and body hash of a request
          asked,      \* asked[c]: the request of call c, its key and its content
          MaxFaults   \* bound: faults in one behaviour

VARIABLES records,    \* committed records
          effects,    \* calls whose effect is committed
          newRecord,  \* newRecord[c]: what the open transaction of c has inserted
          acted,      \* calls whose open transaction has had its effect
          late,       \* history: calls that began with their key on record
          told,       \* told[c]: the response that record has returned to c
          pc,
          faults

vars == <<records, effects, newRecord, acted, late, told, pc, faults>>

NoAnswer == "no answer"
Requests == [key : Keys, content : Contents]

ASSUME RequestAssumption == asked \in [Calls -> Requests]
ASSUME FaultsAssumption == MaxFaults \in Nat

\* The response of a request carries the name of the call that had the effect.
Records == [key : Keys, content : Contents, response : Calls]

Ended == {"done", "refused", "clashed", "broken"}
Places == {"idle", "find", "act", "record", "insert", "commit"} \cup Ended

Init ==
  /\ records = {}
  /\ effects = {}
  /\ newRecord = [c \in Calls |-> {}]
  /\ acted = {}
  /\ late = {}
  /\ told = [c \in Calls |-> NoAnswer]
  /\ pc = [c \in Calls |-> "idle"]
  /\ faults = 0

-----------------------------------------------------------------------------

GoesTo(c, place) == pc' = [pc EXCEPT ![c] = place]

Fault == faults < MaxFaults /\ faults' = faults + 1

Found(c) == {r \in records : r.key = asked[c].key}
InFlight(c) == UNION {newRecord[d] : d \in Calls \ {c}}

Begin(c) ==
  /\ pc[c] = "idle"
  /\ GoesTo(c, "find")
  /\ late' = IF Found(c) = {} THEN late ELSE late \cup {c}
  /\ UNCHANGED <<records, effects, newRecord, acted, told, faults>>

\* Mutant of Find: the handler leaves it to record to look for the key.
FindNothing(c) ==
  /\ pc[c] = "find"
  /\ GoesTo(c, "act")
  /\ UNCHANGED <<records, effects, newRecord, acted, late, told, faults>>

\* The handler looks for a record; with one it has no effect of its own.
Find(c) ==
  /\ pc[c] = "find"
  /\ GoesTo(c, IF Found(c) = {} THEN "act" ELSE "record")
  /\ UNCHANGED <<records, effects, newRecord, acted, late, told, faults>>

Act(c) ==
  /\ pc[c] = "act"
  /\ acted' = acted \cup {c}
  /\ GoesTo(c, "record")
  /\ UNCHANGED <<records, effects, newRecord, late, told, faults>>

CloseTransaction(c) ==
  /\ newRecord' = [newRecord EXCEPT ![c] = {}]
  /\ acted' = acted \ {c}

\* record finds nothing and goes on to insert,
RecordFindsNone(c) ==
  /\ pc[c] = "record"
  /\ Found(c) = {}
  /\ GoesTo(c, "insert")
  /\ UNCHANGED <<records, effects, newRecord, acted, late, told, faults>>

\* Mutant of RecordRefuses: the response of the second attempt is compared too.
RecordRefusesOthers(c) ==
  /\ pc[c] = "record"
  /\ \E r \in Found(c) : r.content # asked[c].content \/ r.response # c
  /\ CloseTransaction(c)
  /\ GoesTo(c, "refused")
  /\ UNCHANGED <<records, effects, late, told, faults>>

\* or it finds the record of another request: "IDEMPOTENCY_KEY_REUSED",
RecordRefuses(c) ==
  /\ pc[c] = "record"
  /\ \E r \in Found(c) : r.content # asked[c].content
  /\ CloseTransaction(c)
  /\ GoesTo(c, "refused")
  /\ UNCHANGED <<records, effects, late, told, faults>>

\* Mutant of RecordAnswers: the content is not compared.
RecordAnswersAnyone(c) ==
  /\ pc[c] = "record"
  /\ \E r \in Found(c) : told' = [told EXCEPT ![c] = r.response]
  /\ GoesTo(c, "commit")
  /\ UNCHANGED <<records, effects, newRecord, acted, late, faults>>

\* or that of an equal request, and returns it as it returns an own one.
RecordAnswers(c) ==
  /\ pc[c] = "record"
  /\ \E r \in Found(c) :
       r.content = asked[c].content /\ told' = [told EXCEPT ![c] = r.response]
  /\ GoesTo(c, "commit")
  /\ UNCHANGED <<records, effects, newRecord, acted, late, faults>>

\* The insertion waits for a record in flight.
Insert(c) ==
  /\ pc[c] = "insert"
  /\ Found(c) = {}
  /\ ~\E r \in InFlight(c) : r.key = asked[c].key
  /\ newRecord' = [newRecord EXCEPT ![c] =
       {[key |-> asked[c].key, content |-> asked[c].content, response |-> c]}]
  /\ told' = [told EXCEPT ![c] = c]
  /\ GoesTo(c, "commit")
  /\ UNCHANGED <<records, effects, acted, late, faults>>

\* UNIQUE(owner_user_id, idempotency_key) is violated: an error, and a rollback.
InsertClashes(c) ==
  /\ pc[c] = "insert"
  /\ Found(c) # {}
  /\ CloseTransaction(c)
  /\ GoesTo(c, "clashed")
  /\ UNCHANGED <<records, effects, late, told, faults>>

CommitTables(c) ==
  /\ records' = records \cup newRecord[c]
  /\ effects' = effects \cup (acted \cap {c})
  /\ CloseTransaction(c)

Commit(c) ==
  /\ pc[c] = "commit"
  /\ CommitTables(c)
  /\ GoesTo(c, "done")
  /\ UNCHANGED <<late, told, faults>>

\* The commit takes effect but its answer is lost.
CommitUnheard(c) ==
  /\ Fault
  /\ pc[c] = "commit"
  /\ CommitTables(c)
  /\ GoesTo(c, "broken")
  /\ UNCHANGED <<late, told>>

\* Mutant of Break: the transaction is left open.
BreakInTransaction(c) ==
  /\ Fault
  /\ pc[c] \notin {"idle"} \cup Ended
  /\ GoesTo(c, "broken")
  /\ UNCHANGED <<records, effects, newRecord, acted, late, told>>

\* The request fails or is cancelled; what it had open is rolled back.
Break(c) ==
  /\ Fault
  /\ pc[c] \notin {"idle"} \cup Ended
  /\ CloseTransaction(c)
  /\ GoesTo(c, "broken")
  /\ UNCHANGED <<records, effects, late, told>>

CallStep(c) ==
  \/ Find(c) \/ Act(c)
  \/ RecordFindsNone(c) \/ RecordRefuses(c) \/ RecordAnswers(c)
  \/ Insert(c) \/ InsertClashes(c) \/ Commit(c)

Next ==
  \E c \in Calls : Begin(c) \/ CallStep(c) \/ CommitUnheard(c) \/ Break(c)

Spec == Init /\ [][Next]_vars

-----------------------------------------------------------------------------
(* Properties.                                                             *)

\* Every variable has its type; a record in flight is the caller's own.
TypeOK ==
  /\ records \subseteq Records
  /\ effects \subseteq Calls
  /\ newRecord \in [Calls -> SUBSET Records]
  /\ \A c \in Calls : newRecord[c] # {} => pc[c] = "commit"
  /\ acted \subseteq Calls /\ late \subseteq Calls
  /\ told \in [Calls -> Calls \cup {NoAnswer}]
  /\ pc \in [Calls -> Places]
  /\ faults \in 0 .. MaxFaults

\* What a key promises of effects.  Whoever has one has the key and the content
\* that are on record: a call that loses a race against another request is rolled
\* back.  And who began with the key on record has none, so that a repetition of
\* what was committed, heard of or not, changes nothing.  Only equal requests that
\* are in the handler together can have an effect each: see RecordAnswers.
EffectsFollowTheRecord ==
  \A c \in effects :
    /\ \E r \in Found(c) : r.content = asked[c].content
    /\ c \notin late

\* IDEMPOTENCY_KEY_REUSED is said only where another request holds the key; the
\* race of two equal requests never ends in it.
RefusedOnlyForADifference ==
  \A c \in Calls : pc[c] = "refused" =>
    \E r \in records : r.key = asked[c].key /\ r.content # asked[c].content
=============================================================================
