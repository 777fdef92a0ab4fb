----------------------------- MODULE Migrations -----------------------------
(***************************************************************************)
(* The migration runner (scripts/migrate.py): several runners, of the same *)
(* or of different releases, on one database, each of which may wait too   *)
(* long, die or lose the answer to a commit at any step, and is started    *)
(* again.                                                                  *)
(*                                                                         *)
(* A file is known by its version and its checksum.  Executing it and      *)
(* recording it are one transaction; the runners are serialized by a       *)
(* session advisory lock, which a session that ends gives back.  The       *)
(* frozen C00 file holds a function body that PostgreSQL refuses to        *)
(* validate; that file alone, known by its checksum, is stored without     *)
(* validation.                                                             *)
(***************************************************************************)
EXTENDS Naturals, Sequences, SequencesExt

CONSTANTS Runners,
          Checksums,
          Repository,  \* Repository[r]: the files that r finds, in the order of
                       \*   their versions
          Invalid,     \* checksums of files with a body that does not validate
          Frozen,      \* FROZEN_C00_SHA256
          None,
          MaxFaults    \* bound: deaths and timeouts in one behaviour

Files == [version : Nat, checksum : Checksums]

\* What discover_migrations returns: it sorts the directory, and refuses one with
\* no migration or with two of one version.
Discovered(files) ==
  /\ files # <<>>
  /\ \A m, n \in 1 .. Len(files) : m < n => files[m].version < files[n].version

ASSUME RepositoryAssumption ==
  /\ \A r \in Runners : Repository[r] \in Seq(Files) /\ Discovered(Repository[r])
  /\ None \notin Runners
  /\ MaxFaults \in Nat

VARIABLES ledger,      \* schema_migrations: the files on record
          schema,      \* what the database is made of: the files executed, in order
          lock,        \* the runner whose session holds the advisory lock
          pc, next,    \* where a runner is, and at which of its files
          faults

vars == <<ledger, schema, lock, pc, next, faults>>

Working == {"look", "execute", "record"}

Init ==
  /\ ledger = {}
  /\ schema = <<>>
  /\ lock = None
  /\ pc = [r \in Runners |-> "idle"]
  /\ next = [r \in Runners |-> 1]
  /\ faults = 0

-----------------------------------------------------------------------------

GoesTo(r, place) == pc' = [pc EXCEPT ![r] = place]

Fault == faults < MaxFaults /\ faults' = faults + 1

File(r) == Repository[r][next[r]]

\* The checksum on record for the file that r looks at, if any.
OnRecord(r) == {f \in ledger : f.version = File(r).version}

\* A runner is started, for the first time or again.
Start(r) ==
  /\ pc[r] \in {"idle", "done", "failed"}
  /\ GoesTo(r, "lock")
  /\ next' = [next EXCEPT ![r] = 1]
  /\ UNCHANGED <<ledger, schema, lock, faults>>

\* pg_advisory_lock returns, and the ledger is created if it was not there.
Lock(r) ==
  /\ pc[r] = "lock"
  /\ lock = None
  /\ lock' = r
  /\ GoesTo(r, "look")
  /\ UNCHANGED <<ledger, schema, next, faults>>

\* command_timeout ends the wait; locked is still False and nothing is unlocked.
LockTimesOut(r) ==
  /\ pc[r] = "lock"
  /\ lock # None
  /\ GoesTo(r, "failed")
  /\ UNCHANGED <<ledger, schema, lock, next, faults>>

\* Mutant of Skip: the version is enough.
SkipByVersion(r) ==
  /\ pc[r] = "look"
  /\ next[r] <= Len(Repository[r])
  /\ OnRecord(r) # {}
  /\ next' = [next EXCEPT ![r] = @ + 1]
  /\ UNCHANGED <<ledger, schema, lock, pc, faults>>

\* The file is on record with its checksum: go on with the next one.
Skip(r) ==
  /\ pc[r] = "look"
  /\ next[r] <= Len(Repository[r])
  /\ File(r) \in OnRecord(r)
  /\ next' = [next EXCEPT ![r] = @ + 1]
  /\ UNCHANGED <<ledger, schema, lock, pc, faults>>

\* "applied migration checksum changed"
ChecksumChanged(r) ==
  /\ pc[r] = "look"
  /\ next[r] <= Len(Repository[r])
  /\ OnRecord(r) \notin {{}, {File(r)}}
  /\ GoesTo(r, "fail")
  /\ UNCHANGED <<ledger, schema, lock, next, faults>>

Begin(r) ==
  /\ pc[r] = "look"
  /\ next[r] <= Len(Repository[r])
  /\ OnRecord(r) = {}
  /\ GoesTo(r, "execute")
  /\ UNCHANGED <<ledger, schema, lock, next, faults>>

\* check_function_bodies is off for the frozen file and for no other.
Validates(f) == f.checksum \notin Invalid \/ f.checksum = Frozen

\* Mutant of Execute: the script runs outside the transaction that records it.
ExecuteAndCommit(r) ==
  /\ pc[r] = "execute"
  /\ Validates(File(r))
  /\ schema' = Append(schema, File(r))
  /\ GoesTo(r, "record")
  /\ UNCHANGED <<ledger, lock, next, faults>>

Execute(r) ==
  /\ pc[r] = "execute"
  /\ Validates(File(r))
  /\ GoesTo(r, "record")
  /\ UNCHANGED <<ledger, schema, lock, next, faults>>

\* The script fails, and the transaction is rolled back.
ExecuteFails(r) ==
  /\ pc[r] = "execute"
  /\ ~Validates(File(r))
  /\ GoesTo(r, "fail")
  /\ UNCHANGED <<ledger, schema, lock, next, faults>>

\* command_timeout ends a statement of the transaction, which is rolled back.
StatementTimesOut(r) ==
  /\ Fault
  /\ pc[r] \in {"execute", "record"}
  /\ GoesTo(r, "fail")
  /\ UNCHANGED <<ledger, schema, lock, next>>

CommitTables(r) ==
  /\ ledger' = ledger \cup {File(r)}
  /\ schema' = Append(schema, File(r))

\* The record is inserted and script and record are committed.
Record(r) ==
  /\ pc[r] = "record"
  /\ CommitTables(r)
  /\ next' = [next EXCEPT ![r] = @ + 1]
  /\ GoesTo(r, "look")
  /\ UNCHANGED <<lock, faults>>

\* Every file is on record.
Finish(r) ==
  /\ pc[r] = "look"
  /\ next[r] > Len(Repository[r])
  /\ GoesTo(r, "unlock")
  /\ UNCHANGED <<ledger, schema, lock, next, faults>>

\* Mutant of Unlock: only a runner that succeeded unlocks.
UnlockOnSuccess(r) ==
  /\ pc[r] \in {"unlock", "fail"}
  /\ lock' = IF pc[r] = "unlock" THEN None ELSE lock
  /\ GoesTo(r, IF pc[r] = "unlock" THEN "done" ELSE "failed")
  /\ UNCHANGED <<ledger, schema, next, faults>>

\* finally: the lock is given back, after success and after an error.
Unlock(r) ==
  /\ pc[r] \in {"unlock", "fail"}
  /\ lock' = None
  /\ GoesTo(r, IF pc[r] = "unlock" THEN "done" ELSE "failed")
  /\ UNCHANGED <<ledger, schema, next, faults>>

\* The session ends: its lock is free and its transaction rolled back.
SessionEnds(r) ==
  /\ lock' = IF lock = r THEN None ELSE lock
  /\ GoesTo(r, "failed")
  /\ UNCHANGED next

Die(r) ==
  /\ Fault
  /\ pc[r] \in {"lock", "unlock", "fail"} \cup Working
  /\ SessionEnds(r)
  /\ UNCHANGED <<ledger, schema>>

\* The commit takes effect, but the runner dies before it hears of it.
DieAfterCommit(r) ==
  /\ Fault
  /\ pc[r] = "record"
  /\ CommitTables(r)
  /\ SessionEnds(r)

RunnerStep(r) ==
  \/ Lock(r) \/ LockTimesOut(r)
  \/ Skip(r) \/ ChecksumChanged(r) \/ Begin(r)
  \/ Execute(r) \/ ExecuteFails(r) \/ Record(r)
  \/ Finish(r) \/ Unlock(r)

Next ==
  \E r \in Runners :
    Start(r) \/ RunnerStep(r) \/ StatementTimesOut(r) \/ Die(r) \/ DieAfterCommit(r)

Spec == Init /\ [][Next]_vars

\* A runner goes on, if only into the timeout of its wait; nobody has to start one.
FairSpec == Spec /\ \A r \in Runners : WF_vars(RunnerStep(r))

-----------------------------------------------------------------------------
(* Properties.                                                             *)

\* "append-only after release" (HONOR_FROZEN_REPO_LAYOUT.txt): a release numbers its
\* files as every other release does that has as many.  Nothing in the runner sees
\* to it, and the order below rests on it.
AppendOnly ==
  \A q, r \in Runners : \A n \in DOMAIN Repository[q] \cap DOMAIN Repository[r] :
    Repository[q][n].version = Repository[r][n].version

\* The database is made of exactly the files on record, each executed once, in the
\* order of their versions, whoever executed them and whoever died: what is left is
\* always a state that the next runner can continue from.
ExecutedOnceInOrder ==
  /\ ToSet(schema) = ledger
  /\ \A m, n \in 1 .. Len(schema) : m < n => schema[m].version < schema[n].version

\* A runner that reports success leaves a database that its release knows: each of
\* its files is on record, and is what was executed under its version.
SuccessMeansCurrent ==
  \A r \in Runners : pc[r] = "done" =>
    \A f \in ToSet(Repository[r]) : f \in ledger /\ f \in ToSet(schema)

\* A file is executed only on top of the very files that precede it in its own
\* release: a changed file stops the runner before anything later is applied.
AppliedOnItsOwnPast ==
  [][\A f \in ledger' \ ledger :
       \E r \in Runners : \E n \in 1 .. Len(Repository[r]) :
         /\ Repository[r][n] = f
         /\ \A m \in 1 .. n - 1 : Repository[r][m] \in ledger]_vars

\* The lock is given back, by success, failure or death: a release whose files do
\* not fit the database does not keep the other runners waiting for ever.
LockIsGivenBack == \A r \in Runners : (lock = r) ~> (lock # r)
=============================================================================
