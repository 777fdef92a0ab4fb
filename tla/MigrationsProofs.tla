-------------------------- MODULE MigrationsProofs --------------------------
(***************************************************************************)
(* Theorems of Migrations, for any number of runners and releases and any  *)
(* number of faults.  The lock makes the runners work one at a time        *)
(* (OneAtATime), so what a runner has seen on record stays true until it   *)
(* acts on it (Progress); what is on record therefore grows by whole pasts *)
(* of releases (WholePasts), and never by a version that is there.         *)
(***************************************************************************)
EXTENDS Migrations, TLAPS

Places == {"idle", "lock", "unlock", "fail", "done", "failed"} \cup Working

\* Every variable has its type.
TypeOK ==
  /\ ledger \subseteq Files
  /\ schema \in Seq(Files)
  /\ lock \in Runners \cup {None}
  /\ pc \in [Runners -> Places]
  /\ next \in [Runners -> Nat \ {0}]

\* A runner that looks at the ledger, changes it or has yet to unlock holds the lock.
OneAtATime ==
  \A r \in Runners : pc[r] \in {"unlock", "fail"} \cup Working => lock = r

\* The first n - 1 files of a release are on record.
PastOnRecord(r, n) ==
  \A m \in DOMAIN Repository[r] : m < n => Repository[r][m] \in ledger

\* How far a runner has come.
Progress ==
  \A r \in Runners :
    /\ pc[r] = "lock" => next[r] = 1
    /\ pc[r] \in Working => PastOnRecord(r, next[r])
    /\ pc[r] \in {"execute", "record"} =>
         /\ next[r] \in DOMAIN Repository[r]
         /\ OnRecord(r) = {}
    /\ pc[r] \in {"unlock", "done"} =>
         \A m \in DOMAIN Repository[r] : Repository[r][m] \in ledger

\* Each file on record has, with it, the past of a release that it belongs to.
WholePasts ==
  \A f \in ledger : \E q \in Runners : \E n \in DOMAIN Repository[q] :
    f = Repository[q][n] /\ PastOnRecord(q, n)

\* Script and record are one transaction, and no version is executed twice.
ExecutedOnce ==
  /\ ToSet(schema) = ledger
  /\ \A m, n \in 1 .. Len(schema) : m # n => schema[m].version # schema[n].version

Inv == TypeOK /\ OneAtATime /\ Progress /\ WholePasts /\ ExecutedOnce

-----------------------------------------------------------------------------
(* Lemmas.                                                                 *)

\* A release is a sequence of files.
LEMMA ReleaseType ==
  ASSUME NEW r \in Runners
  PROVE  /\ Len(Repository[r]) \in Nat
         /\ DOMAIN Repository[r] = 1 .. Len(Repository[r])
         /\ \A n \in DOMAIN Repository[r] : Repository[r][n] \in Files
         /\ \A n \in DOMAIN Repository[r] : Repository[r][n].version \in Nat
<1>1. Repository[r] \in Seq(Files)
  BY RepositoryAssumption
<1>2. \A n \in DOMAIN Repository[r] : Repository[r][n] \in Files
  BY <1>1
<1>3. \A f \in Files : f.version \in Nat
  BY DEF Files
<1> QED BY <1>1, <1>2, <1>3

\* What is appended comes last and is added to the elements.
LEMMA Appended ==
  ASSUME NEW S, NEW s \in Seq(S), NEW e \in S
  PROVE  /\ Append(s, e) \in Seq(S)
         /\ Len(Append(s, e)) = Len(s) + 1
         /\ Append(s, e)[Len(s) + 1] = e
         /\ \A i \in 1 .. Len(s) : Append(s, e)[i] = s[i]
         /\ ToSet(Append(s, e)) = ToSet(s) \cup {e}
<1>1. /\ Append(s, e) \in Seq(S)
      /\ Len(Append(s, e)) = Len(s) + 1
      /\ Append(s, e)[Len(s) + 1] = e
      /\ \A i \in 1 .. Len(s) : Append(s, e)[i] = s[i]
  OBVIOUS
<1>2. DOMAIN Append(s, e) = 1 .. Len(s) + 1 /\ DOMAIN s = 1 .. Len(s) /\ Len(s) \in Nat
  OBVIOUS
<1>3. 1 .. Len(s) + 1 = (1 .. Len(s)) \cup {Len(s) + 1}
  BY <1>2
<1> QED BY <1>1, <1>2, <1>3 DEF ToSet

\* The elements of a sequence are at its positions.
LEMMA Elements ==
  ASSUME NEW S, NEW s \in Seq(S)
  PROVE  /\ Len(s) \in Nat
         /\ \A i \in 1 .. Len(s) : s[i] \in S /\ s[i] \in ToSet(s)
         /\ \A e \in ToSet(s) : \E i \in 1 .. Len(s) : s[i] = e
  BY DEF ToSet

\* It holds of the empty database.
LEMMA InitInv == Init => Inv
<1> SUFFICES ASSUME Init PROVE Inv
  OBVIOUS
<1> USE DEF Init
<1>1. TypeOK
  BY DEF TypeOK, Places
<1>2. OneAtATime /\ Progress /\ WholePasts
  BY DEF OneAtATime, Progress, WholePasts, Working
<1>3. ExecutedOnce
  BY DEF ExecutedOnce, ToSet
<1> QED BY <1>1, <1>2, <1>3 DEF Inv

\* A commit adds a file of a version that is not on record, with its whole past.
LEMMA CommitKeepsTables ==
  ASSUME Inv, NEW r \in Runners, pc[r] = "record", CommitTables(r)
  PROVE  /\ ledger' \subseteq Files
         /\ schema' \in Seq(Files)
         /\ WholePasts'
         /\ ExecutedOnce'
         /\ ledger \subseteq ledger'
         /\ File(r) \in ledger'
<1> DEFINE f == File(r)
<1>1. /\ next[r] \in DOMAIN Repository[r]
      /\ OnRecord(r) = {}
      /\ PastOnRecord(r, next[r])
      /\ f = Repository[r][next[r]]
  BY DEF Inv, Progress, File, Working
<1>2. f \in Files
  BY <1>1, ReleaseType
<1>3. /\ ledger' = ledger \cup {f} /\ ledger \subseteq Files
      /\ schema' = Append(schema, f) /\ schema \in Seq(Files)
  BY DEF CommitTables, Inv, TypeOK
<1> HIDE DEF f
<1>4. /\ schema' \in Seq(Files)
      /\ Len(schema') = Len(schema) + 1
      /\ schema'[Len(schema) + 1] = f
      /\ \A i \in 1 .. Len(schema) : schema'[i] = schema[i]
      /\ ToSet(schema') = ToSet(schema) \cup {f}
  BY <1>2, <1>3, Appended
<1>5. WholePasts'
  <2>1. SUFFICES ASSUME NEW g \in ledger'
                 PROVE  \E q \in Runners : \E n \in DOMAIN Repository[q] :
                          g = Repository[q][n] /\ PastOnRecord(q, n)'
    BY DEF WholePasts
  <2>2. CASE g \in ledger
    <3>1. PICK q \in Runners : \E n \in DOMAIN Repository[q] :
            g = Repository[q][n] /\ PastOnRecord(q, n)
      BY <2>2 DEF Inv, WholePasts
    <3> QED BY <1>3, <3>1 DEF PastOnRecord
  <2>3. CASE g = f
    BY <1>1, <1>3, <2>3 DEF PastOnRecord
  <2> QED BY <1>3, <2>2, <2>3
<1>6. ExecutedOnce'
  <2>1. \A i \in 1 .. Len(schema) : schema[i].version # f.version
    <3>1. ToSet(schema) = ledger
      BY DEF Inv, ExecutedOnce
    <3>2. \A g \in ledger : g.version # f.version
      BY <1>1 DEF OnRecord, f
    <3> QED BY <1>3, <3>1, <3>2, Elements
  <2>2. ToSet(schema') = ledger'
    BY <1>3, <1>4 DEF Inv, ExecutedOnce
  <2>3. \A m, n \in 1 .. Len(schema') :
          m # n => schema'[m].version # schema'[n].version
    <3>1. \A m, n \in 1 .. Len(schema) : m # n => schema[m].version # schema[n].version
      BY DEF Inv, ExecutedOnce
    <3>2. Len(schema) \in Nat
      BY <1>3, Elements
    <3>3. \A m \in 1 .. Len(schema') : m \in 1 .. Len(schema) \/ m = Len(schema) + 1
      BY <1>4, <3>2
    <3> QED BY <1>4, <2>1, <3>1, <3>3
  <2> QED BY <2>2, <2>3 DEF ExecutedOnce
<1> QED BY <1>2, <1>3, <1>4, <1>5, <1>6 DEF f

\* A step of a runner that leaves the tables alone keeps the invariant if it keeps
\* the runner's own part of it.
LEMMA TablesStay ==
  ASSUME Inv, UNCHANGED <<ledger, schema>>,
         (TypeOK /\ OneAtATime /\ Progress)'
  PROVE  Inv'
<1>1. WholePasts'
  BY DEF Inv, WholePasts, PastOnRecord
<1>2. ExecutedOnce'
  BY DEF Inv, ExecutedOnce
<1> QED BY <1>1, <1>2 DEF Inv, TypeOK, OneAtATime, Progress

\* A step of a runner that commits nothing.
Moves(r) ==
  \/ Start(r) \/ Lock(r) \/ LockTimesOut(r) \/ Skip(r) \/ ChecksumChanged(r)
  \/ Begin(r) \/ Execute(r) \/ ExecuteFails(r) \/ StatementTimesOut(r)
  \/ Finish(r) \/ Unlock(r) \/ Die(r)

\* Such a step keeps the invariant: it leaves the tables alone, and only the runner
\* that has the lock gives it back.
LEMMA MoveKeepsInv ==
  ASSUME Inv, NEW r \in Runners, Moves(r)
  PROVE  Inv'
<1> USE DEF GoesTo, Working
<1>1. /\ TypeOK /\ OneAtATime /\ Progress
      /\ None \notin Runners
  BY RepositoryAssumption DEF Inv
<1>2. /\ Len(Repository[r]) \in Nat
      /\ DOMAIN Repository[r] = 1 .. Len(Repository[r])
  BY ReleaseType
<1>3. CASE Start(r)
  <2>1. TypeOK'
    BY <1>1, <1>3 DEF TypeOK, Start, Places
  <2>2. OneAtATime'
    BY <1>1, <1>3 DEF TypeOK, OneAtATime, Start
  <2>3. Progress'
    BY <1>1, <1>2, <1>3 DEF TypeOK, Progress, Start, PastOnRecord, OnRecord,
       File
  <2> QED BY <2>1, <2>2, <2>3, <1>3, TablesStay DEF Start
<1>4. CASE Lock(r)
  <2>1. TypeOK'
    BY <1>1, <1>4 DEF TypeOK, Lock, Places
  <2>2. OneAtATime'
    BY <1>1, <1>4 DEF TypeOK, OneAtATime, Lock
  <2>3. Progress'
    BY <1>1, <1>2, <1>4 DEF TypeOK, Progress, Lock, PastOnRecord, OnRecord,
       File
  <2> QED BY <2>1, <2>2, <2>3, <1>4, TablesStay DEF Lock
<1>5. CASE LockTimesOut(r)
  <2>1. TypeOK'
    BY <1>1, <1>5 DEF TypeOK, LockTimesOut, Places
  <2>2. OneAtATime'
    BY <1>1, <1>5 DEF TypeOK, OneAtATime, LockTimesOut
  <2>3. Progress'
    BY <1>1, <1>2, <1>5 DEF TypeOK, Progress, LockTimesOut, PastOnRecord,
       OnRecord, File
  <2> QED BY <2>1, <2>2, <2>3, <1>5, TablesStay DEF LockTimesOut
<1>6. CASE Skip(r)
  <2>1. TypeOK'
    BY <1>1, <1>6 DEF TypeOK, Skip, Places
  <2>2. OneAtATime'
    BY <1>1, <1>6 DEF TypeOK, OneAtATime, Skip
  <2>3. Progress'
    BY <1>1, <1>2, <1>6 DEF TypeOK, Progress, Skip, PastOnRecord, OnRecord,
       File
  <2> QED BY <2>1, <2>2, <2>3, <1>6, TablesStay DEF Skip
<1>7. CASE ChecksumChanged(r)
  <2>1. TypeOK'
    BY <1>1, <1>7 DEF TypeOK, ChecksumChanged, Places
  <2>2. OneAtATime'
    BY <1>1, <1>7 DEF TypeOK, OneAtATime, ChecksumChanged
  <2>3. Progress'
    BY <1>1, <1>2, <1>7 DEF TypeOK, Progress, ChecksumChanged, PastOnRecord,
       OnRecord, File
  <2> QED BY <2>1, <2>2, <2>3, <1>7, TablesStay DEF ChecksumChanged
<1>8. CASE Begin(r)
  <2>1. TypeOK'
    BY <1>1, <1>8 DEF TypeOK, Begin, Places
  <2>2. OneAtATime'
    BY <1>1, <1>8 DEF TypeOK, OneAtATime, Begin
  <2>3. Progress'
    BY <1>1, <1>2, <1>8 DEF TypeOK, Progress, Begin, PastOnRecord, OnRecord,
       File
  <2> QED BY <2>1, <2>2, <2>3, <1>8, TablesStay DEF Begin
<1>9. CASE Execute(r)
  <2>1. TypeOK'
    BY <1>1, <1>9 DEF TypeOK, Execute, Places
  <2>2. OneAtATime'
    BY <1>1, <1>9 DEF TypeOK, OneAtATime, Execute
  <2>3. Progress'
    BY <1>1, <1>2, <1>9 DEF TypeOK, Progress, Execute, PastOnRecord, OnRecord,
       File
  <2> QED BY <2>1, <2>2, <2>3, <1>9, TablesStay DEF Execute
<1>10. CASE ExecuteFails(r)
  <2>1. TypeOK'
    BY <1>1, <1>10 DEF TypeOK, ExecuteFails, Places
  <2>2. OneAtATime'
    BY <1>1, <1>10 DEF TypeOK, OneAtATime, ExecuteFails
  <2>3. Progress'
    BY <1>1, <1>2, <1>10 DEF TypeOK, Progress, ExecuteFails, PastOnRecord,
       OnRecord, File
  <2> QED BY <2>1, <2>2, <2>3, <1>10, TablesStay DEF ExecuteFails
<1>11. CASE StatementTimesOut(r)
  <2>1. TypeOK'
    BY <1>1, <1>11 DEF TypeOK, StatementTimesOut, Places
  <2>2. OneAtATime'
    BY <1>1, <1>11 DEF TypeOK, OneAtATime, StatementTimesOut
  <2>3. Progress'
    BY <1>1, <1>2, <1>11 DEF TypeOK, Progress, StatementTimesOut, PastOnRecord,
       OnRecord, File
  <2> QED BY <2>1, <2>2, <2>3, <1>11, TablesStay DEF StatementTimesOut
<1>12. CASE Finish(r)
  <2>1. TypeOK'
    BY <1>1, <1>12 DEF TypeOK, Finish, Places
  <2>2. OneAtATime'
    BY <1>1, <1>12 DEF TypeOK, OneAtATime, Finish
  <2>3. Progress'
    BY <1>1, <1>2, <1>12 DEF TypeOK, Progress, Finish, PastOnRecord, OnRecord,
       File
  <2> QED BY <2>1, <2>2, <2>3, <1>12, TablesStay DEF Finish
<1>13. CASE Unlock(r)
  <2>1. TypeOK'
    BY <1>1, <1>13 DEF TypeOK, Unlock, Places
  <2>2. OneAtATime'
    BY <1>1, <1>13 DEF TypeOK, OneAtATime, Unlock
  <2>3. Progress'
    BY <1>1, <1>2, <1>13 DEF TypeOK, Progress, Unlock, PastOnRecord, OnRecord,
       File
  <2> QED BY <2>1, <2>2, <2>3, <1>13, TablesStay DEF Unlock
<1>14. CASE Die(r)
  <2>1. TypeOK'
    BY <1>1, <1>14 DEF TypeOK, Die, Places, SessionEnds
  <2>2. OneAtATime'
    BY <1>1, <1>14 DEF TypeOK, OneAtATime, Die, SessionEnds
  <2>3. Progress'
    BY <1>1, <1>2, <1>14 DEF TypeOK, Progress, Die, PastOnRecord, OnRecord,
       File, SessionEnds
  <2> QED BY <2>1, <2>2, <2>3, <1>14, TablesStay DEF Die, SessionEnds
<1> QED BY <1>3, <1>4, <1>5, <1>6, <1>7, <1>8, <1>9, <1>10, <1>11, <1>12, <1>13, <1>14 DEF Moves

\* A commit keeps the invariant: the runner alone was at a file, and nobody else's
\* place depends on what was not on record.
LEMMA CommitKeepsInv ==
  ASSUME Inv, NEW r \in Runners, Record(r) \/ DieAfterCommit(r)
  PROVE  Inv'
<1> USE DEF GoesTo, Working, SessionEnds
<1>1. /\ TypeOK /\ OneAtATime /\ Progress
      /\ None \notin Runners
      /\ pc[r] = "record" /\ CommitTables(r)
  BY RepositoryAssumption DEF Inv, Record, DieAfterCommit
<1>2. /\ ledger' \subseteq Files
      /\ schema' \in Seq(Files)
      /\ WholePasts'
      /\ ExecutedOnce'
      /\ ledger \subseteq ledger'
      /\ File(r) \in ledger'
  BY <1>1, CommitKeepsTables
<1>3. \A q \in Runners \ {r} : pc[q] \notin {"execute", "record"}
  BY <1>1 DEF OneAtATime
<1>4. TypeOK' /\ OneAtATime'
  <2>1. CASE Record(r)
    BY <1>1, <1>2, <2>1 DEF TypeOK, OneAtATime, Record, Places
  <2>2. CASE DieAfterCommit(r)
    BY <1>1, <1>2, <2>2 DEF TypeOK, OneAtATime, DieAfterCommit, Places
  <2> QED BY <2>1, <2>2
<1>5. Progress'
  <2>1. CASE Record(r)
    <3>1. PastOnRecord(r, next[r])
      BY <1>1 DEF Progress
    <3>2. /\ next' = [next EXCEPT ![r] = next[r] + 1]
          /\ pc' = [pc EXCEPT ![r] = "look"]
          /\ next[r] \in Nat
      BY <1>1, <2>1 DEF Record, TypeOK
    <3>3. ASSUME NEW m \in DOMAIN Repository[r], m < next[r] + 1
          PROVE  Repository[r][m] \in ledger'
      <4>1. m \in Nat /\ (m < next[r] \/ m = next[r])
        BY <3>2, <3>3, ReleaseType
      <4>2. CASE m < next[r]
        BY <1>2, <3>1, <4>2 DEF PastOnRecord
      <4>3. CASE m = next[r]
        BY <1>2, <4>3 DEF File
      <4> QED BY <4>1, <4>2, <4>3
    <3>4. ASSUME NEW q \in Runners, q # r
          PROVE  /\ next'[q] = next[q] /\ pc'[q] = pc[q]
                 /\ PastOnRecord(q, next[q]) => PastOnRecord(q, next[q])'
      BY <1>1, <1>2, <3>2, <3>4 DEF TypeOK, PastOnRecord
    <3> QED BY <1>1, <1>2, <1>3, <3>2, <3>3, <3>4 DEF TypeOK, Progress, PastOnRecord
  <2>2. CASE DieAfterCommit(r)
    BY <1>1, <1>2, <1>3, <2>2 DEF TypeOK, Progress, DieAfterCommit,
       PastOnRecord
  <2> QED BY <2>1, <2>2
<1> QED BY <1>2, <1>4, <1>5 DEF Inv

\* The steps as NextInv takes them.
LEMMA NextSplit ==
  ASSUME Next
  PROVE  \E r \in Runners : Moves(r) \/ Record(r) \/ DieAfterCommit(r)
  BY DEF Next, RunnerStep, Moves

\* Inv is inductive.
LEMMA NextInv == Inv /\ [Next]_vars => Inv'
<1> SUFFICES ASSUME Inv, [Next]_vars PROVE Inv'
  OBVIOUS
<1>1. CASE Next
  BY <1>1, NextSplit, MoveKeepsInv, CommitKeepsInv
<1>2. CASE UNCHANGED vars
  BY <1>2 DEF vars, Inv, TypeOK, OneAtATime, Progress, WholePasts,
     ExecutedOnce,
              PastOnRecord, OnRecord, File
<1> QED BY <1>1, <1>2

\* Who works holds the lock, and the database is what the ledger says, in every state.
THEOREM Invariance == Spec => []Inv
  BY InitInv, NextInv, PTL DEF Spec

-----------------------------------------------------------------------------
(* Theorems.                                                               *)

\* Whatever dies or times out, two runners never look at the ledger, execute files
\* or wait to unlock at the same time (pg_advisory_lock in apply_migrations).
THEOREM RunnersExclude ==
  Spec => [](\A q, r \in Runners :
               /\ pc[q] \in {"unlock", "fail"} \cup Working
               /\ pc[r] \in {"unlock", "fail"} \cup Working
               => q = r)
<1>1. Inv => \A q, r \in Runners :
               /\ pc[q] \in {"unlock", "fail"} \cup Working
               /\ pc[r] \in {"unlock", "fail"} \cup Working
               => q = r
  BY DEF Inv, OneAtATime
<1> QED BY <1>1, Invariance, PTL

\* A runner that reports success leaves a database that its release knows.
THEOREM SuccessIsCurrent == Spec => []SuccessMeansCurrent
<1>1. Inv => SuccessMeansCurrent
  <2> SUFFICES ASSUME Inv, NEW r \in Runners, pc[r] = "done",
                      NEW f \in ToSet(Repository[r])
               PROVE  f \in ledger /\ f \in ToSet(schema)
    BY DEF SuccessMeansCurrent
  <2>1. PICK m \in DOMAIN Repository[r] : f = Repository[r][m]
    BY DEF ToSet
  <2>2. f \in ledger
    BY <2>1 DEF Inv, Progress
  <2> QED BY <2>2 DEF Inv, ExecutedOnce
<1> QED BY <1>1, Invariance, PTL

\* A file is executed only on top of the files that precede it in its own release.
THEOREM OnItsOwnPast == Spec => AppliedOnItsOwnPast
<1> DEFINE Past ==
      \A f \in ledger' \ ledger :
        \E r \in Runners : \E n \in 1 .. Len(Repository[r]) :
          /\ Repository[r][n] = f
          /\ \A m \in 1 .. n - 1 : Repository[r][m] \in ledger
<1>1. Inv /\ [Next]_vars => [Past]_vars
  <2> SUFFICES ASSUME Inv, Next, NEW f \in ledger' \ ledger
               PROVE  \E r \in Runners : \E n \in 1 .. Len(Repository[r]) :
                        /\ Repository[r][n] = f
                        /\ \A m \in 1 .. n - 1 : Repository[r][m] \in ledger
    BY DEF vars
  <2>1. PICK r \in Runners : Moves(r) \/ Record(r) \/ DieAfterCommit(r)
    BY NextSplit
  <2>2. ~Moves(r)
    BY DEF Moves, Start, Lock, LockTimesOut, Skip, ChecksumChanged, Begin,
       Execute,
           ExecuteFails, StatementTimesOut, Finish, Unlock, Die
  <2>3. pc[r] = "record" /\ CommitTables(r)
    BY <2>1, <2>2 DEF Record, DieAfterCommit
  <2>4. /\ f = Repository[r][next[r]]
        /\ next[r] \in DOMAIN Repository[r]
        /\ PastOnRecord(r, next[r])
    BY <2>3 DEF CommitTables, File, Inv, Progress, Working
  <2>5. next[r] \in 1 .. Len(Repository[r]) /\ Len(Repository[r]) \in Nat
    BY <2>4, ReleaseType
  <2>6. \A m \in 1 .. next[r] - 1 : Repository[r][m] \in ledger
    BY <2>4, <2>5, ReleaseType DEF PastOnRecord
  <2> QED BY <2>4, <2>5, <2>6
<1> QED BY <1>1, Invariance, PTL DEF Spec, AppliedOnItsOwnPast

\* What ExecutedOnceInOrder adds to ExecutedOnce.
Ordered == \A m, n \in 1 .. Len(schema) : m < n => schema[m].version < schema[n].version

\* Between releases that only append files: a file that is about to be recorded comes
\* after everything on record.  A file of a higher version would have brought along,
\* with its own past, one of this very version.
LEMMA RecordIsLast ==
  ASSUME AppendOnly, Inv, NEW r \in Runners, pc[r] = "record", NEW g \in ledger
  PROVE  g.version < File(r).version
<1>1. /\ next[r] \in DOMAIN Repository[r]
      /\ OnRecord(r) = {}
      /\ File(r) = Repository[r][next[r]]
  BY DEF Inv, Progress, File
<1>2. PICK q \in Runners : \E n \in DOMAIN Repository[q] :
        g = Repository[q][n] /\ PastOnRecord(q, n)
  BY DEF Inv, WholePasts
<1>3. PICK n \in DOMAIN Repository[q] : g = Repository[q][n] /\ PastOnRecord(q, n)
  BY <1>2
<1>4. PICK k : k = next[r]
  OBVIOUS
<1>5. /\ k \in 1 .. Len(Repository[r]) /\ k \in Nat /\ Len(Repository[r]) \in Nat
      /\ n \in 1 .. Len(Repository[q]) /\ n \in Nat /\ Len(Repository[q]) \in Nat
  BY <1>1, <1>4, ReleaseType
<1>6. g.version # File(r).version
  BY <1>1 DEF OnRecord
<1>7. n # k
  BY <1>1, <1>3, <1>4, <1>6 DEF AppendOnly
<1>8. ~(k < n)
  <2>1. SUFFICES ASSUME k < n PROVE FALSE
    OBVIOUS
  <2>2. k \in DOMAIN Repository[q] /\ k \in DOMAIN Repository[r]
    BY <1>5, <2>1, ReleaseType
  <2>3. Repository[q][k] \in ledger
    BY <1>3, <2>1, <2>2 DEF PastOnRecord
  <2>4. Repository[q][k].version = Repository[r][k].version
    BY <2>2 DEF AppendOnly
  <2> QED BY <1>1, <1>4, <2>3, <2>4 DEF OnRecord
<1>9. n < k
  BY <1>5, <1>7, <1>8
<1>10. n \in 1 .. Len(Repository[r])
  BY <1>5, <1>9
<1>11. Repository[r][n].version < Repository[r][k].version
  BY <1>5, <1>9, <1>10, RepositoryAssumption DEF Discovered
<1>12. Repository[q][n].version = Repository[r][n].version
  BY <1>5, <1>10, ReleaseType DEF AppendOnly
<1> QED BY <1>1, <1>3, <1>4, <1>11, <1>12

\* With releases that only append, a step keeps the order.
LEMMA NextOrdered ==
  ASSUME AppendOnly, Inv, Ordered, [Next]_vars
  PROVE  Ordered'
<1>1. CASE UNCHANGED schema
  BY <1>1 DEF Ordered
<1>2. CASE \E r \in Runners : pc[r] = "record" /\ CommitTables(r)
  <2>1. PICK r \in Runners : pc[r] = "record" /\ CommitTables(r)
    BY <1>2
  <2>2. PICK f : f = File(r)
    OBVIOUS
  <2>3. /\ f \in Files
        /\ schema \in Seq(Files)
        /\ schema' = Append(schema, f)
    BY <2>1, <2>2, ReleaseType DEF CommitTables, Inv, TypeOK, Progress, File
  <2>4. /\ Len(schema') = Len(schema) + 1
        /\ schema'[Len(schema) + 1] = f
        /\ \A i \in 1 .. Len(schema) : schema'[i] = schema[i]
    BY <2>3, Appended
  <2>5. \A i \in 1 .. Len(schema) : schema[i].version < f.version
    BY <2>1, <2>2, <2>3, Elements, RecordIsLast DEF Inv, ExecutedOnce
  <2>6. Len(schema) \in Nat
    BY <2>3, Elements
  <2>7. \A n \in 1 .. Len(schema') : n \in 1 .. Len(schema) \/ n = Len(schema) + 1
    BY <2>4, <2>6
  <2>8. \A m, n \in 1 .. Len(schema') : m < n => m \in 1 .. Len(schema)
    BY <2>4, <2>6
  <2> QED BY <2>4, <2>5, <2>7, <2>8 DEF Ordered
<1>3. CASE Next
  BY <1>1, <1>2, <1>3, NextSplit
     DEF Moves, Start, Lock, LockTimesOut, Skip, ChecksumChanged, Begin, Execute,
         ExecuteFails, StatementTimesOut, Finish, Unlock, Die, Record, DieAfterCommit
<1> QED BY <1>1, <1>3 DEF vars

\* The database is made of exactly the files on record, each executed once; without
\* any assumption on what the releases have in common.
THEOREM EachExecutedOnce == Spec => []ExecutedOnce
  BY Invariance, PTL DEF Inv

\* Releases that only append files execute them in the order of their versions.
THEOREM InOrder == ASSUME AppendOnly PROVE Spec => []ExecutedOnceInOrder
<1>1. Init => Ordered
  BY DEF Init, Ordered
<1>2. Inv /\ Ordered /\ [Next]_vars => Ordered'
  BY NextOrdered
<1>3. Inv /\ Ordered => ExecutedOnceInOrder
  BY DEF Inv, ExecutedOnce, Ordered, ExecutedOnceInOrder
<1> QED BY <1>1, <1>2, <1>3, Invariance, PTL DEF Spec
=============================================================================
