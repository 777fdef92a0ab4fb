------------------------ MODULE ClipAcceptanceProofs ------------------------
(***************************************************************************)
(* The keys that open transactions have entered are apart from each other  *)
(* and from the committed ones, and a clip has one open update at a time.  *)
(* What the guards found when a statement passed them is therefore still   *)
(* true when it commits, and the commit adds new keys only.                *)
(***************************************************************************)
EXTENDS ClipAcceptance, TLAPS

\* What the guards of an open statement found still holds.
Prepared ==
  \A s \in Sessions : Writing(s) =>
    /\ tx[s].entered <= Len(KeysOf(tx[s].stmt))
    /\ tx[s].stmt.kind = "rights" /\ tx[s].stmt.version > 1 =>
         \E r \in rights : r.version = tx[s].stmt.version - 1
    /\ tx[s].stmt.kind = "create" => ~Exists(tx[s].stmt.clip)
    /\ tx[s].stmt.kind = "move" =>
         /\ Exists(tx[s].stmt.clip)
         /\ LifecycleAllows(clips[tx[s].stmt.clip].state, tx[s].stmt.to)
    /\ tx[s].stmt.kind = "post" =>
         Exists(tx[s].stmt.clip) /\ clips[tx[s].stmt.clip].state = "READY"

\* Two open statements neither update nor create one clip.
ClipsApart ==
  \A s, t \in Sessions : s # t /\ Writing(s) /\ Writing(t) =>
    /\ ~Locks(s, tx[t].stmt)
    /\ ~(/\ tx[s].stmt.kind = "create" /\ tx[t].stmt.kind = "create"
         /\ tx[s].stmt.clip = tx[t].stmt.clip)

KeysApart ==
  \A s, t \in Sessions : s # t /\ Writing(s) /\ Writing(t) =>
    HeldBy(s) \cap HeldBy(t) = {}

KeysAreNew == \A s \in Sessions : Writing(s) => HeldBy(s) \cap Taken = {}

\* Only an update waits, and it has entered nothing yet.
WaitingIsFresh ==
  \A s \in Sessions : tx[s].stage = "waiting" =>
    tx[s].stmt.kind \in Updates /\ tx[s].entered = 0

OpenInv == TypeOK /\ WaitingIsFresh /\ Prepared /\ ClipsApart /\ KeysApart /\ KeysAreNew

-----------------------------------------------------------------------------
(* Statements and keys                                                     *)

LEMMA StatementFacts ==
  ASSUME NEW m \in Statements
  PROVE  /\ m.kind \in {"rights", "create", "move", "post"}
         /\ m.kind = "rights" => m.version \in 1 .. MaxVersions /\ m.until \in Ends
         /\ m.kind = "create" => m.clip \in Clips /\ m.version \in 1 .. MaxVersions
         /\ m.kind = "move" => m.clip \in Clips /\ m.to \in States
         /\ m.kind = "post" => m.clip \in Clips
  BY DEF Statements

\* Len and DOMAIN of a statement's keys agree.
LEMMA KeysAreSequences ==
  ASSUME NEW m \in Statements
  PROVE  Len(KeysOf(m)) \in Nat /\ DOMAIN KeysOf(m) = 1 .. Len(KeysOf(m))
<1>1. CASE m.kind = "move" /\ m.to = "READY" /\ clips[m.clip].state # "READY"
  <2>1. m.clip \in Clips
    BY <1>1, StatementFacts
  <2>2. clauses[m.clip] \in Seq(Codes)
    BY <2>1, ClausesAssumption
  <2>3. PICK n \in Nat : DOMAIN clauses[m.clip] = 1 .. n
    BY <2>2
  <2> DEFINE f == [i \in 1 .. n |-> SignatureKey(m.clip, clauses[m.clip][i])]
  <2>4. KeysOf(m) = f
    BY <1>1, <2>3 DEF KeysOf
  <2>5. f \in Seq({f[i] : i \in 1 .. n})
    OBVIOUS
  <2> QED
    BY <2>4, <2>5
<1>2. CASE m.kind = "rights"
  BY <1>2 DEF KeysOf
<1>3. CASE m.kind = "post"
  BY <1>3 DEF KeysOf
<1>4. CASE m.kind = "create"
  BY <1>4 DEF KeysOf
<1>5. CASE m.kind = "move" /\ ~(m.to = "READY" /\ clips[m.clip].state # "READY")
  BY <1>5 DEF KeysOf
<1> QED
  BY <1>1, <1>2, <1>3, <1>4, <1>5, StatementFacts

LEMMA OpenFacts ==
  ASSUME TypeOK, NEW s \in Sessions, tx[s].stage # "idle"
  PROVE  /\ tx[s] \in [stage : {"waiting", "writing"}, stmt : Statements,
                   at : 0 .. MaxTime, entered : Nat]
         /\ tx[s].stmt \in Statements
         /\ tx[s].entered \in Nat
  BY DEF TypeOK, Transactions, Idle

\* What a guard asks of the rows that its statement changes.
LEMMA GuardFacts ==
  ASSUME NEW m \in Statements, NEW at, Guard(m, at)
  PROVE  /\ m.kind = "rights" /\ m.version > 1 => \E r \in rights : r.version = m.version - 1
         /\ m.kind = "create" => ~Exists(m.clip)
         /\ m.kind = "move" => Exists(m.clip) /\ LifecycleAllows(clips[m.clip].state, m.to)
         /\ m.kind = "post" => Exists(m.clip) /\ clips[m.clip].state = "READY"
<1>1. CASE m.kind = "rights"
  BY <1>1 DEF Guard
<1>2. CASE m.kind = "create"
  BY <1>2 DEF Guard
<1>3. CASE m.kind = "move"
  BY <1>3 DEF Guard, MayMove
<1>4. CASE m.kind = "post"
  BY <1>4 DEF Guard
<1> QED
  BY <1>1, <1>2, <1>3, <1>4, StatementFacts

LEMMA KeysOfStatements ==
  ASSUME NEW m \in Statements
  PROVE  /\ m.kind = "rights" => KeysOf(m) = <<<<"rights", m.version>>>>
         /\ m.kind = "create" => KeysOf(m) = <<>>
         /\ m.kind = "post" => KeysOf(m) = <<<<"post", m.clip>>>>
         /\ m.kind = "move" =>
              KeysOf(m) = IF m.to = "READY" /\ clips[m.clip].state # "READY"
                THEN [i \in DOMAIN clauses[m.clip] |-> SignatureKey(m.clip, clauses[m.clip][i])]
                ELSE <<>>
<1>1. CASE m.kind = "rights"
  BY <1>1 DEF KeysOf
<1>2. CASE m.kind = "create"
  BY <1>2 DEF KeysOf
<1>3. CASE m.kind = "post"
  BY <1>3 DEF KeysOf
<1>4. CASE m.kind = "move"
  BY <1>4 DEF KeysOf
<1> QED
  BY <1>1, <1>2, <1>3, <1>4, StatementFacts

\* The keys of a statement depend on the row that it moves.
LEMMA KeysKept ==
  ASSUME NEW m \in Statements,
         m.kind = "move" => clips'[m.clip] = clips[m.clip]
  PROVE  KeysOf(m)' = KeysOf(m)
<1>1. CASE m.kind = "rights"
  BY <1>1 DEF KeysOf
<1>2. CASE m.kind = "create"
  BY <1>2 DEF KeysOf
<1>3. CASE m.kind = "post"
  BY <1>3 DEF KeysOf
<1>4. CASE m.kind = "move"
  BY <1>4 DEF KeysOf
<1> QED
  BY <1>1, <1>2, <1>3, <1>4, StatementFacts

\* A transaction that goes on as it is, beside data that its keys do not
\* depend on, holds what it held.
LEMMA Undisturbed ==
  ASSUME TypeOK, NEW t \in Sessions, Writing(t), tx'[t] = tx[t],
         tx[t].stmt.kind = "move" => clips'[tx[t].stmt.clip] = clips[tx[t].stmt.clip]
  PROVE  /\ KeysOf(tx[t].stmt)' = KeysOf(tx[t].stmt)
         /\ HeldBy(t)' = HeldBy(t)
<1>1. tx[t].stmt \in Statements
  BY OpenFacts DEF Writing
<1>2. \A m \in Statements :
        (m.kind = "move" => clips'[m.clip] = clips[m.clip]) => KeysOf(m)' = KeysOf(m)
  BY KeysKept
<1>3. KeysOf(tx[t].stmt)' = KeysOf(tx[t].stmt)
  BY <1>1, <1>2
<1> QED
  BY <1>3 DEF HeldBy

-----------------------------------------------------------------------------
(* Types                                                                   *)

LEMMA StartedFacts ==
  ASSUME NEW m \in Statements, NEW stage \in {"waiting", "writing"}, NEW at \in 0 .. MaxTime
  PROVE  /\ Started(m, stage, at) \in Transactions
         /\ Started(m, stage, at).stage = stage
         /\ Started(m, stage, at).stmt = m
         /\ Started(m, stage, at).entered = 0
  BY DEF Started, Transactions

LEMMA TypeSend ==
  ASSUME TypeOK, NEW s \in Sessions, NEW m \in Statements, Send(s, m)
  PROVE  TypeOK'
<1>1. now \in 0 .. MaxTime
  BY DEF TypeOK
<1>2. /\ Started(m, "waiting", now) \in Transactions
      /\ Started(m, "writing", now) \in Transactions
  BY <1>1, StartedFacts
<1>3. tx' \in [Sessions -> Transactions]
  BY <1>2 DEF Send, TypeOK
<1> QED
  BY <1>3 DEF Send, TypeOK, data

LEMMA TypeCheck ==
  ASSUME TypeOK, NEW s \in Sessions, Check(s)
  PROVE  TypeOK'
<1>1. tx[s].stage # "idle"
  BY DEF Check
<1>2. [tx[s] EXCEPT !.stage = "writing"] \in Transactions
  BY <1>1, OpenFacts DEF Transactions
<1>3. tx' \in [Sessions -> Transactions]
  BY <1>2 DEF Check, End, TypeOK, Transactions
<1> QED
  BY <1>3 DEF Check, TypeOK, data

LEMMA TypeEnter ==
  ASSUME TypeOK, NEW s \in Sessions, Enter(s)
  PROVE  TypeOK'
<1>1. tx[s].stage # "idle"
  BY DEF Enter, Writing
<1>2. [tx[s] EXCEPT !.entered = @ + 1] \in Transactions
  BY <1>1, OpenFacts DEF Transactions
<1>3. tx' \in [Sessions -> Transactions]
  BY <1>2 DEF Enter, End, TypeOK, Transactions
<1> QED
  BY <1>3 DEF Enter, TypeOK, data

LEMMA TypeCommit ==
  ASSUME TypeOK, OpenInv, NEW s \in Sessions, Commit(s)
  PROVE  TypeOK'
<1> DEFINE m == tx[s].stmt  at == tx[s].at
<1>1. m \in Statements /\ at \in 0 .. MaxTime /\ Writing(s)
  BY OpenFacts DEF Commit, Writing
<1>2. tx' \in [Sessions -> Transactions]
  BY DEF Commit, End, TypeOK, Transactions
<1>3. rights' \subseteq [version : 1 .. MaxVersions, at : 0 .. MaxTime, until : Ends]
  BY <1>1, StatementFacts DEF Commit, Apply, TypeOK
<1>4. posts' \in [Clips -> Nat]
  BY <1>1, StatementFacts DEF Commit, Apply, TypeOK
<1>5. clips' \in [Clips -> {None} \cup Rows]
  <2>1. CASE m.kind = "rights"
    BY <2>1 DEF Commit, Apply, TypeOK
  <2>2. CASE m.kind = "create"
    <3>1. /\ clips' = [clips EXCEPT ![m.clip] =
                        [state |-> "PLANNED", rights |-> m.version, created |-> at]]
          /\ [state |-> "PLANNED", rights |-> m.version, created |-> at] \in Rows
      BY <1>1, <2>2, StatementFacts DEF Commit, Apply, Rows, States
    <3> QED
      BY <3>1 DEF TypeOK
  <2>3. CASE m.kind = "move"
    <3>1. clips[m.clip] \in Rows
      BY <1>1, <2>3, StatementFacts DEF OpenInv, Prepared, Exists, TypeOK
    <3>2. [clips[m.clip] EXCEPT !.state = m.to] \in Rows
      BY <1>1, <2>3, <3>1, StatementFacts DEF Rows
    <3>3. clips' = [clips EXCEPT ![m.clip] = [clips[m.clip] EXCEPT !.state = m.to]]
      BY <2>3 DEF Commit, Apply
    <3> QED
      BY <3>2, <3>3 DEF TypeOK
  <2>4. CASE m.kind = "post"
    <3>1. clips[m.clip] \in Rows
      BY <1>1, <2>4, StatementFacts DEF OpenInv, Prepared, Exists, TypeOK
    <3>2. [clips[m.clip] EXCEPT !.state = "POSTED"] \in Rows
      BY <3>1 DEF Rows, States
    <3>3. clips' = [clips EXCEPT ![m.clip] = [clips[m.clip] EXCEPT !.state = "POSTED"]]
      BY <2>4 DEF Commit, Apply
    <3> QED
      BY <3>2, <3>3 DEF TypeOK
  <2> QED
    BY <1>1, <2>1, <2>2, <2>3, <2>4, StatementFacts
<1> QED
  BY <1>2, <1>3, <1>4, <1>5 DEF Commit, TypeOK

LEMMA TypeStep == OpenInv /\ [Next]_vars => TypeOK'
<1> SUFFICES ASSUME OpenInv, [Next]_vars
             PROVE  TypeOK'
  OBVIOUS
<1> USE DEF OpenInv
<1>1. CASE Tick
  BY <1>1, NumbersAssumption DEF Tick, TypeOK, data
<1>2. ASSUME NEW s \in Sessions, NEW m \in Statements, Send(s, m)
      PROVE  TypeOK'
  BY <1>2, TypeSend
<1>3. ASSUME NEW s \in Sessions, Check(s)
      PROVE  TypeOK'
  BY <1>3, TypeCheck
<1>4. ASSUME NEW s \in Sessions, Enter(s)
      PROVE  TypeOK'
  BY <1>4, TypeEnter
<1>5. ASSUME NEW s \in Sessions, Commit(s)
      PROVE  TypeOK'
  BY <1>5, TypeCommit
<1>6. ASSUME NEW s \in Sessions, Rollback(s)
      PROVE  TypeOK'
  BY <1>6 DEF Rollback, End, TypeOK, Transactions, data
<1>7. CASE UNCHANGED vars
  BY <1>7 DEF vars, TypeOK
<1> QED
  BY <1>1, <1>2, <1>3, <1>4, <1>5, <1>6, <1>7 DEF Next

-----------------------------------------------------------------------------
(* Open transactions                                                       *)

\* The data stays: the other transactions, the guards' findings and the committed
\* keys are as before.
LEMMA OthersKept ==
  ASSUME OpenInv, UNCHANGED data, NEW t \in Sessions, Writing(t), tx'[t] = tx[t]
  PROVE  /\ Writing(t)'
         /\ KeysOf(tx[t].stmt)' = KeysOf(tx[t].stmt)
         /\ HeldBy(t)' = HeldBy(t)
         /\ Taken' = Taken
<1>1. KeysOf(tx[t].stmt)' = KeysOf(tx[t].stmt) /\ HeldBy(t)' = HeldBy(t)
  BY Undisturbed DEF OpenInv, data
<1>2. Writing(t)'
  BY DEF Writing
<1>3. Taken' = Taken
  BY DEF Taken, data
<1> QED
  BY <1>1, <1>2, <1>3

\* A session that stops writing, or does not write, takes nothing from the others.
LEMMA LeaveStep ==
  ASSUME OpenInv, UNCHANGED data, NEW s \in Sessions, ~Writing(s)',
         \A t \in Sessions \ {s} : tx'[t] = tx[t]
  PROVE  Prepared' /\ ClipsApart' /\ KeysApart' /\ KeysAreNew'
<1>1. \A t \in Sessions : Writing(t)' =>
        /\ t # s /\ Writing(t) /\ tx'[t] = tx[t]
        /\ KeysOf(tx[t].stmt)' = KeysOf(tx[t].stmt)
        /\ HeldBy(t)' = HeldBy(t) /\ Taken' = Taken
  <2> TAKE t \in Sessions
  <2> HAVE Writing(t)'
  <2>1. t # s /\ tx'[t] = tx[t]
    OBVIOUS
  <2>2. Writing(t)
    BY <2>1 DEF Writing
  <2> QED
    BY <2>1, <2>2, OthersKept
<1>2. Prepared'
  BY <1>1 DEF OpenInv, Prepared, data, Exists
<1>3. ClipsApart'
  BY <1>1 DEF OpenInv, ClipsApart, Locks
<1>4. KeysApart'
  BY <1>1 DEF OpenInv, KeysApart
<1>5. KeysAreNew'
  BY <1>1 DEF OpenInv, KeysAreNew
<1> QED
  BY <1>2, <1>3, <1>4, <1>5

\* A statement begins to write: its guards have just agreed, and nobody else
\* updates or creates its clip.
LEMMA StartStep ==
  ASSUME OpenInv, UNCHANGED data, NEW s \in Sessions, NEW m \in Statements, NEW at,
         \A t \in Sessions \ {s} : tx'[t] = tx[t],
         Writing(s)', tx'[s].stmt = m, tx'[s].entered = 0,
         Guard(m, at),
         \A t \in Sessions \ {s} : ~Locks(t, m),
         m.kind = "create" => \A t \in Sessions \ {s} :
           Writing(t) => ~(tx[t].stmt.kind = "create" /\ tx[t].stmt.clip = m.clip)
  PROVE  Prepared' /\ ClipsApart' /\ KeysApart' /\ KeysAreNew'
<1>1. \A t \in Sessions \ {s} : Writing(t)' =>
        /\ Writing(t) /\ tx'[t] = tx[t]
        /\ KeysOf(tx[t].stmt)' = KeysOf(tx[t].stmt)
        /\ HeldBy(t)' = HeldBy(t) /\ Taken' = Taken
  <2> TAKE t \in Sessions \ {s}
  <2> HAVE Writing(t)'
  <2>1. tx'[t] = tx[t]
    OBVIOUS
  <2>2. Writing(t)
    BY <2>1 DEF Writing
  <2> QED
    BY <2>1, <2>2, OthersKept
<1>2. HeldBy(s)' = {}
  BY DEF HeldBy
<1>3. Len(KeysOf(m))' \in Nat
  <2>1. KeysOf(m)' = KeysOf(m)
    BY KeysKept DEF data
  <2> QED
    BY <2>1, KeysAreSequences
<1>4. Prepared'
  <2> SUFFICES ASSUME NEW t \in Sessions, Writing(t)'
      PROVE (/\ tx[t].entered <= Len(KeysOf(tx[t].stmt))
             /\ tx[t].stmt.kind = "rights" /\ tx[t].stmt.version > 1 =>
                  \E r \in rights : r.version = tx[t].stmt.version - 1
             /\ tx[t].stmt.kind = "create" => ~Exists(tx[t].stmt.clip)
             /\ tx[t].stmt.kind = "move" =>
                  /\ Exists(tx[t].stmt.clip)
                  /\ LifecycleAllows(clips[tx[t].stmt.clip].state, tx[t].stmt.to)
             /\ tx[t].stmt.kind = "post" =>
                  Exists(tx[t].stmt.clip) /\ clips[tx[t].stmt.clip].state = "READY")'
    BY DEF Prepared
  <2>1. CASE t = s
    <3>1. tx'[t].entered <= Len(KeysOf(m))'
      BY <2>1, <1>3
    <3>2. KeysOf(tx[t].stmt)' = KeysOf(m)'
      BY <2>1
    <3> QED
      BY <2>1, <3>1, <3>2, GuardFacts DEF data, Exists
  <2>2. CASE t # s
    BY <2>2, <1>1 DEF OpenInv, Prepared, data, Exists
  <2> QED
    BY <2>1, <2>2
<1>5. ClipsApart'
  <2> SUFFICES ASSUME NEW t \in Sessions, NEW u \in Sessions, t # u, Writing(t)', Writing(u)'
               PROVE  /\ ~Locks(t, tx[u].stmt)'
                      /\ ~(/\ tx'[t].stmt.kind = "create" /\ tx'[u].stmt.kind = "create"
                           /\ tx'[t].stmt.clip = tx'[u].stmt.clip)
    BY DEF ClipsApart
  <2>1. CASE t # s /\ u # s
    BY <2>1, <1>1 DEF OpenInv, ClipsApart, Locks
  <2>2. CASE t = s
    BY <2>2, <1>1 DEF Locks
  <2>3. CASE u = s
    BY <2>3, <1>1 DEF Locks
  <2> QED
    BY <2>1, <2>2, <2>3
<1>6. KeysApart'
  <2> SUFFICES ASSUME NEW t \in Sessions, NEW u \in Sessions, t # u, Writing(t)', Writing(u)'
               PROVE  (HeldBy(t) \cap HeldBy(u))' = {}
    BY DEF KeysApart
  <2>1. CASE t = s \/ u = s
    BY <2>1, <1>2
  <2>2. CASE t # s /\ u # s
    BY <2>2, <1>1 DEF OpenInv, KeysApart
  <2> QED
    BY <2>1, <2>2
<1>7. KeysAreNew'
  <2> SUFFICES ASSUME NEW t \in Sessions, Writing(t)'
               PROVE  (HeldBy(t) \cap Taken)' = {}
    BY DEF KeysAreNew
  <2>1. CASE t = s
    BY <2>1, <1>2
  <2>2. CASE t # s
    BY <2>2, <1>1 DEF OpenInv, KeysAreNew
  <2> QED
    BY <2>1, <2>2
<1> QED
  BY <1>4, <1>5, <1>6, <1>7

LEMMA SendStep ==
  ASSUME OpenInv, NEW s \in Sessions, NEW m \in Statements, Send(s, m)
  PROVE  Prepared' /\ ClipsApart' /\ KeysApart' /\ KeysAreNew'
<1>1. /\ UNCHANGED data
      /\ \A t \in Sessions \ {s} : tx'[t] = tx[t]
  BY DEF Send, OpenInv, TypeOK
<1>2. now \in 0 .. MaxTime /\ tx \in [Sessions -> Transactions]
  BY DEF OpenInv, TypeOK
<1>3. CASE \E t \in Sessions \ {s} : Locks(t, m)
  <2>1. tx'[s] = Started(m, "waiting", now)
    BY <1>2, <1>3 DEF Send
  <2>2. ~Writing(s)'
    BY <2>1 DEF Writing, Started
  <2> QED
    BY <1>1, <2>2, LeaveStep
<1>4. CASE ~\E t \in Sessions \ {s} : Locks(t, m)
  <2>1. tx'[s] = Started(m, "writing", now) /\ Guard(m, now)
    BY <1>2, <1>4 DEF Send
  <2>2. Writing(s)' /\ tx'[s].stmt = m /\ tx'[s].entered = 0
    BY <2>1 DEF Writing, Started
  <2>3. m.kind = "create" => \A t \in Sessions \ {s} :
          Writing(t) => ~(tx[t].stmt.kind = "create" /\ tx[t].stmt.clip = m.clip)
    BY DEF Send, Fresh, Writing
  <2> QED
    BY <1>1, <1>4, <2>1, <2>2, <2>3, StartStep
<1> QED
  BY <1>3, <1>4

LEMMA CheckStep ==
  ASSUME OpenInv, NEW s \in Sessions, Check(s)
  PROVE  Prepared' /\ ClipsApart' /\ KeysApart' /\ KeysAreNew'
<1> DEFINE m == tx[s].stmt
<1>1. /\ UNCHANGED data
      /\ \A t \in Sessions \ {s} : tx'[t] = tx[t]
  BY DEF Check, End, OpenInv, TypeOK
<1>2. tx \in [Sessions -> Transactions] /\ m \in Statements
  BY OpenFacts DEF OpenInv, TypeOK, Check
<1>3. CASE ~Guard(m, tx[s].at)
  <2>1. tx'[s] = Idle
    BY <1>2, <1>3 DEF Check, End
  <2>2. ~Writing(s)'
    BY <2>1 DEF Writing, Idle
  <2> QED
    BY <1>1, <2>2, LeaveStep
<1>4. CASE Guard(m, tx[s].at)
  <2>1. tx'[s] = [tx[s] EXCEPT !.stage = "writing"]
    BY <1>2, <1>4 DEF Check
  <2>2. tx[s] \in [stage : {"waiting", "writing"}, stmt : Statements,
                   at : 0 .. MaxTime, entered : Nat]
    BY OpenFacts DEF OpenInv, Check
  <2>3. tx[s].entered = 0
    BY DEF OpenInv, WaitingIsFresh, Check
  <2>4. Writing(s)' /\ tx'[s].stmt = m /\ tx'[s].entered = 0
    BY <2>1, <2>2, <2>3 DEF Writing
  <2>5. \A t \in Sessions \ {s} : ~Locks(t, m)
    BY DEF Check, Waits, WaitsFor
  <2>6. m.kind # "create"
    BY DEF OpenInv, WaitingIsFresh, Check, Updates
  <2> QED
    BY <1>1, <1>2, <1>4, <2>4, <2>5, <2>6, StartStep
<1> QED
  BY <1>3, <1>4

LEMMA EnterStep ==
  ASSUME OpenInv, NEW s \in Sessions, Enter(s)
  PROVE  Prepared' /\ ClipsApart' /\ KeysApart' /\ KeysAreNew'
<1> DEFINE m == tx[s].stmt
<1>1. /\ UNCHANGED data
      /\ \A t \in Sessions \ {s} : tx'[t] = tx[t]
      /\ Writing(s)
  BY DEF Enter, End, OpenInv, TypeOK
<1>2. /\ tx \in [Sessions -> Transactions]
      /\ tx[s] \in [stage : {"waiting", "writing"}, stmt : Statements,
                    at : 0 .. MaxTime, entered : Nat]
      /\ m \in Statements
  BY <1>1, OpenFacts DEF OpenInv, TypeOK, Writing
<1>3. CASE NextKey(s) \in Taken
  <2>1. tx'[s] = Idle
    BY <1>2, <1>3 DEF Enter, End
  <2>2. ~Writing(s)'
    BY <2>1 DEF Writing, Idle
  <2> QED
    BY <1>1, <2>2, LeaveStep
<1>4. CASE NextKey(s) \notin Taken
  <2>1. tx'[s] = [tx[s] EXCEPT !.entered = @ + 1]
    BY <1>2, <1>4 DEF Enter
  <2>2. /\ Writing(s)' /\ tx'[s].stmt = m
        /\ tx'[s].entered = tx[s].entered + 1 /\ tx[s].entered \in Nat
    BY <1>1, <1>2, <2>1 DEF Writing
  <2>3. KeysOf(m)' = KeysOf(m) /\ KeysOf(tx[s].stmt)' = KeysOf(m)
    <3>1. \A n \in Statements : KeysOf(n)' = KeysOf(n)
      BY <1>1, KeysKept DEF data
    <3> QED
      BY <1>2, <2>2, <3>1
  <2>4. HeldBy(s)' = HeldBy(s) \cup {NextKey(s)}
    BY <2>2, <2>3 DEF HeldBy, NextKey
  <2>5. \A t \in Sessions \ {s} : Writing(t)' =>
          /\ Writing(t) /\ tx'[t] = tx[t]
          /\ KeysOf(tx[t].stmt)' = KeysOf(tx[t].stmt)
          /\ HeldBy(t)' = HeldBy(t) /\ NextKey(s) \notin HeldBy(t)
    <3> TAKE t \in Sessions \ {s}
    <3> HAVE Writing(t)'
    <3>1. tx'[t] = tx[t]
      BY <1>1
    <3>2. Writing(t)
      BY <3>1 DEF Writing
    <3>3. NextKey(s) \notin HeldBy(t)
      BY <3>2 DEF Enter, Waits, WaitsFor
    <3> QED
      BY <1>1, <3>1, <3>2, <3>3, OthersKept
  <2>6. Taken' = Taken
    BY <1>1 DEF Taken, data
  <2>7. tx[s].entered + 1 <= Len(KeysOf(m))
    <3>1. tx[s].entered <= Len(KeysOf(m)) /\ tx[s].entered # Len(KeysOf(m))
      BY <1>1 DEF Enter, Finished, OpenInv, Prepared
    <3> QED
      BY <1>2, <2>2, <3>1, KeysAreSequences
  <2>8. Prepared'
    <3> SUFFICES ASSUME NEW t \in Sessions, Writing(t)'
        PROVE (/\ tx[t].entered <= Len(KeysOf(tx[t].stmt))
               /\ tx[t].stmt.kind = "rights" /\ tx[t].stmt.version > 1 =>
                    \E r \in rights : r.version = tx[t].stmt.version - 1
               /\ tx[t].stmt.kind = "create" => ~Exists(tx[t].stmt.clip)
               /\ tx[t].stmt.kind = "move" =>
                    /\ Exists(tx[t].stmt.clip)
                    /\ LifecycleAllows(clips[tx[t].stmt.clip].state, tx[t].stmt.to)
               /\ tx[t].stmt.kind = "post" =>
                    Exists(tx[t].stmt.clip) /\ clips[tx[t].stmt.clip].state = "READY")'
      BY DEF Prepared
    <3>1. CASE t = s
      BY <1>1, <3>1, <2>2, <2>3, <2>7 DEF OpenInv, Prepared, data, Exists
    <3>2. CASE t # s
      BY <1>1, <3>2, <2>5 DEF OpenInv, Prepared, data, Exists
    <3> QED
      BY <3>1, <3>2
  <2>9. ClipsApart'
    BY <1>1, <2>2, <2>5 DEF OpenInv, ClipsApart, Locks
  <2>10. KeysApart'
    <3> SUFFICES ASSUME NEW t \in Sessions, NEW u \in Sessions, t # u, Writing(t)', Writing(u)'
                 PROVE  (HeldBy(t) \cap HeldBy(u))' = {}
      BY DEF KeysApart
    <3>1. Writing(t) /\ Writing(u)
      BY <1>1, <2>5
    <3>2. HeldBy(t) \cap HeldBy(u) = {}
      BY <3>1 DEF OpenInv, KeysApart
    <3>3. CASE t = s
      BY <3>2, <3>3, <2>4, <2>5
    <3>4. CASE u = s
      BY <3>2, <3>4, <2>4, <2>5
    <3>5. CASE t # s /\ u # s
      BY <3>2, <3>5, <2>5
    <3> QED
      BY <3>3, <3>4, <3>5
  <2>11. KeysAreNew'
    <3> SUFFICES ASSUME NEW t \in Sessions, Writing(t)'
                 PROVE  (HeldBy(t) \cap Taken)' = {}
      BY DEF KeysAreNew
    <3>1. Writing(t)
      BY <1>1, <2>5
    <3>2. HeldBy(t) \cap Taken = {}
      BY <3>1 DEF OpenInv, KeysAreNew
    <3>3. CASE t = s
      BY <1>4, <3>2, <3>3, <2>4, <2>6
    <3>4. CASE t # s
      BY <3>2, <3>4, <2>5, <2>6
    <3> QED
      BY <3>3, <3>4
  <2> QED
    BY <2>8, <2>9, <2>10, <2>11
<1> QED
  BY <1>3, <1>4

LEMMA WaitingStep == OpenInv /\ [Next]_vars => WaitingIsFresh'
<1> SUFFICES ASSUME OpenInv, [Next]_vars, NEW t \in Sessions, tx'[t].stage = "waiting"
             PROVE  tx'[t].stmt.kind \in Updates /\ tx'[t].entered = 0
  BY DEF WaitingIsFresh
<1>1. tx \in [Sessions -> Transactions]
  BY DEF OpenInv, TypeOK
<1>2. CASE tx'[t] = tx[t]
  BY <1>2 DEF OpenInv, WaitingIsFresh
<1>3. ASSUME NEW s \in Sessions, NEW m \in Statements, Send(s, m), tx'[t] # tx[t]
      PROVE  tx'[t].stmt.kind \in Updates /\ tx'[t].entered = 0
  <2>1. t = s
    BY <1>1, <1>3 DEF Send
  <2>2. CASE \E u \in Sessions \ {s} : Locks(u, m)
    BY <1>1, <1>3, <2>1, <2>2 DEF Send, Locks, Started
  <2>3. CASE ~\E u \in Sessions \ {s} : Locks(u, m)
    BY <1>1, <1>3, <2>1, <2>3 DEF Send, Started
  <2> QED
    BY <2>2, <2>3
<1>4. ASSUME NEW s \in Sessions, Check(s) \/ Enter(s), tx'[t] # tx[t]
      PROVE  tx'[t].stmt.kind \in Updates /\ tx'[t].entered = 0
  <2>1. t = s
    BY <1>1, <1>4 DEF Check, Enter, End
  <2>2. tx[s].stage # "idle"
    BY <1>4 DEF Check, Enter, Writing
  <2>3. tx[s] \in [stage : {"waiting", "writing"}, stmt : Statements,
                   at : 0 .. MaxTime, entered : Nat]
    BY <2>2, OpenFacts DEF OpenInv
  <2> QED
    BY <1>1, <1>4, <2>1, <2>3 DEF Check, Enter, End, Idle, Writing
<1>5. ASSUME NEW s \in Sessions, Commit(s) \/ Rollback(s), tx'[t] # tx[t]
      PROVE  tx'[t].stmt.kind \in Updates /\ tx'[t].entered = 0
  BY <1>1, <1>5 DEF Commit, Rollback, End, Idle
<1>6. CASE Tick \/ UNCHANGED vars
  BY <1>2, <1>6 DEF Tick, vars
<1> QED
  BY <1>2, <1>3, <1>4, <1>5, <1>6 DEF Next

-----------------------------------------------------------------------------
(* Commits                                                                 *)

\* What a commit does to the clips: only an update of the clip's own statement
\* changes it, and only a move to READY from QC makes a clip accepted.
LEMMA CommittedClips ==
  ASSUME OpenInv, NEW s \in Sessions, Commit(s)
  PROVE  LET m == tx[s].stmt IN
         /\ m.kind = "rights" => clips' = clips
         /\ m.kind # "rights" =>
              /\ m.clip \in Clips
              /\ \A d \in Clips \ {m.clip} : clips'[d] = clips[d]
         /\ m.kind = "create" => ~Exists(m.clip) /\ clips'[m.clip].state = "PLANNED"
         /\ m.kind = "move" =>
              /\ Exists(m.clip) /\ clips'[m.clip] # None
              /\ LifecycleAllows(clips[m.clip].state, m.to)
              /\ clips'[m.clip].state = m.to
         /\ m.kind = "post" =>
              /\ Exists(m.clip) /\ clips'[m.clip] # None
              /\ clips[m.clip].state = "READY"
              /\ clips'[m.clip].state = "POSTED"
<1> DEFINE m == tx[s].stmt
<1>1. m \in Statements /\ Writing(s) /\ clips \in [Clips -> {None} \cup Rows]
  BY OpenFacts DEF OpenInv, TypeOK, Commit, Writing
<1>2. CASE m.kind = "rights"
  BY <1>2 DEF Commit, Apply
<1>3. CASE m.kind = "create"
  BY <1>1, <1>3, StatementFacts DEF Commit, Apply, OpenInv, Prepared
<1>4. CASE m.kind = "move"
  <2>1. m.clip \in Clips /\ m.to \in States
    BY <1>1, <1>4, StatementFacts
  <2>2. Exists(m.clip) /\ LifecycleAllows(clips[m.clip].state, m.to)
    BY <1>1, <1>4 DEF OpenInv, Prepared
  <2>3. clips[m.clip] \in Rows
    BY <1>1, <2>1, <2>2 DEF Exists
  <2>4. clips' = [clips EXCEPT ![m.clip] = [clips[m.clip] EXCEPT !.state = m.to]]
    BY <1>4 DEF Commit, Apply
  <2>5. clips'[m.clip] \in Rows /\ clips'[m.clip].state = m.to
    BY <1>1, <2>1, <2>3, <2>4 DEF Rows
  <2>6. clips'[m.clip] # None
    BY <2>5, NoneAssumption
  <2> QED
    BY <1>1, <1>4, <2>1, <2>2, <2>4, <2>5, <2>6
<1>5. CASE m.kind = "post"
  <2>1. m.clip \in Clips
    BY <1>1, <1>5, StatementFacts
  <2>2. Exists(m.clip) /\ clips[m.clip].state = "READY"
    BY <1>1, <1>5 DEF OpenInv, Prepared
  <2>3. clips[m.clip] \in Rows
    BY <1>1, <2>1, <2>2 DEF Exists
  <2>4. clips' = [clips EXCEPT ![m.clip] = [clips[m.clip] EXCEPT !.state = "POSTED"]]
    BY <1>5 DEF Commit, Apply
  <2>5. clips'[m.clip] \in Rows /\ clips'[m.clip].state = "POSTED"
    BY <1>1, <2>1, <2>3, <2>4 DEF Rows, States
  <2>6. clips'[m.clip] # None
    BY <2>5, NoneAssumption
  <2> QED
    BY <1>1, <1>5, <2>1, <2>2, <2>4, <2>5, <2>6 DEF Exists
<1> QED
  BY <1>1, <1>2, <1>3, <1>4, <1>5, StatementFacts

\* All of its keys have been entered, and they become the committed ones.
LEMMA CommittedKeys ==
  ASSUME OpenInv, NEW s \in Sessions, Commit(s)
  PROVE  /\ HeldBy(s) = {KeysOf(tx[s].stmt)[i] : i \in DOMAIN KeysOf(tx[s].stmt)}
         /\ Taken' = Taken \cup HeldBy(s)
<1> DEFINE m == tx[s].stmt  K == KeysOf(m)
<1>1. m \in Statements /\ Writing(s)
  BY OpenFacts DEF OpenInv, Commit, Writing
<1>2. HeldBy(s) = {K[i] : i \in DOMAIN K}
  BY <1>1, KeysAreSequences DEF HeldBy, Commit, Finished
<1>3. Taken' = Taken \cup {K[i] : i \in DOMAIN K}
  <2>1. CASE m.kind = "rights"
    <3>1. {K[i] : i \in DOMAIN K} = {<<"rights", m.version>>}
      BY <1>1, <2>1, KeysOfStatements
    <3>2. /\ rights' = rights \cup {[version |-> m.version, at |-> tx[s].at, until |-> m.until]}
          /\ posts' = posts /\ reserved' = reserved
      BY <2>1 DEF Commit, Apply
    <3> DEFINE v(r) == <<"rights", r.version>>
    <3> DEFINE x == [version |-> m.version, at |-> tx[s].at, until |-> m.until]
    <3>3. rights' = rights \cup {x} /\ v(x) = <<"rights", m.version>>
      BY <3>2
    <3>4. {v(r) : r \in rights'} = {v(r) : r \in rights} \cup {<<"rights", m.version>>}
      <4> HIDE DEF v, x
      <4> QED
        BY <3>3
    <3> QED
      BY <3>1, <3>2, <3>4 DEF Taken
  <2>2. CASE m.kind = "create"
    <3>1. {K[i] : i \in DOMAIN K} = {}
      BY <1>1, <2>2, KeysOfStatements
    <3>2. rights' = rights /\ posts' = posts /\ reserved' = reserved
      BY <2>2 DEF Commit, Apply
    <3> QED
      BY <3>1, <3>2 DEF Taken
  <2>3. CASE m.kind = "move"
    <3>1. /\ rights' = rights /\ posts' = posts
          /\ reserved' = reserved \cup {[key |-> K[i], clip |-> m.clip] : i \in DOMAIN K}
      BY <2>3 DEF Commit, Apply
    <3>2. {r.key : r \in reserved'} = {r.key : r \in reserved} \cup {K[i] : i \in DOMAIN K}
      <4> DEFINE f(i) == [key |-> K[i], clip |-> m.clip]
      <4>1. \A i \in DOMAIN K : f(i).key = K[i]
        OBVIOUS
      <4>2. reserved' = reserved \cup {f(i) : i \in DOMAIN K}
        BY <3>1
      <4> HIDE DEF K, f
      <4> QED
        BY <4>1, <4>2
    <3> QED
      BY <3>1, <3>2 DEF Taken
  <2>4. CASE m.kind = "post"
    <3>1. {K[i] : i \in DOMAIN K} = {<<"post", m.clip>>}
      BY <1>1, <2>4, KeysOfStatements
    <3>2. /\ rights' = rights /\ reserved' = reserved
          /\ posts' = [posts EXCEPT ![m.clip] = @ + 1] /\ m.clip \in Clips
      BY <1>1, <2>4, StatementFacts DEF Commit, Apply
    <3>3. {d \in Clips : posts'[d] > 0} = {d \in Clips : posts[d] > 0} \cup {m.clip}
      BY <3>2 DEF OpenInv, TypeOK
    <3> QED
      BY <3>1, <3>2, <3>3 DEF Taken
  <2> QED
    BY <1>1, <2>1, <2>2, <2>3, <2>4, StatementFacts
<1> QED
  BY <1>2, <1>3

\* The other open statements are about other clips, and are as they were.
LEMMA CommitLeavesOthers ==
  ASSUME OpenInv, NEW s \in Sessions, Commit(s), NEW t \in Sessions, Writing(t)'
  PROVE  /\ t # s /\ Writing(t) /\ tx'[t] = tx[t]
         /\ tx[t].stmt \in Statements
         /\ tx[t].stmt.kind # "rights" => clips'[tx[t].stmt.clip] = clips[tx[t].stmt.clip]
         /\ KeysOf(tx[t].stmt)' = KeysOf(tx[t].stmt)
         /\ HeldBy(t)' = HeldBy(t)
<1>1. t # s /\ tx'[t] = tx[t]
  BY DEF Commit, End, Idle, Writing, OpenInv, TypeOK
<1>2. Writing(t) /\ Writing(s)
  BY <1>1 DEF Writing, Commit
<1>3. tx[t].stmt \in Statements /\ tx[s].stmt \in Statements
  BY <1>2, OpenFacts DEF OpenInv, Writing
<1>4. ASSUME tx[t].stmt.kind # "rights"
      PROVE  clips'[tx[t].stmt.clip] = clips[tx[t].stmt.clip]
  <2>1. CASE tx[s].stmt.kind = "rights"
    BY <2>1, CommittedClips
  <2>2. CASE tx[s].stmt.kind # "rights"
    <3>1. tx[s].stmt.clip # tx[t].stmt.clip
      <4>1. ~Locks(s, tx[t].stmt)
        BY <1>1, <1>2 DEF OpenInv, ClipsApart
      <4>2. CASE tx[s].stmt.kind \in Updates /\ tx[t].stmt.kind \in Updates
        BY <1>2, <4>1, <4>2 DEF Locks
      <4>3. CASE tx[s].stmt.kind = "create" /\ tx[t].stmt.kind = "create"
        BY <1>1, <1>2, <4>3 DEF OpenInv, ClipsApart
      <4>4. CASE tx[s].stmt.kind = "create" /\ tx[t].stmt.kind \in Updates
        BY <1>2, <4>4 DEF OpenInv, Prepared, Updates
      <4>5. CASE tx[t].stmt.kind = "create" /\ tx[s].stmt.kind \in Updates
        BY <1>2, <4>5 DEF OpenInv, Prepared, Updates
      <4> QED
        BY <1>3, <1>4, <2>2, <4>2, <4>3, <4>4, <4>5, StatementFacts DEF Updates
    <3>2. tx[t].stmt.clip \in Clips
      BY <1>3, <1>4, StatementFacts
    <3> QED
      BY <2>2, <3>1, <3>2, CommittedClips
  <2> QED
    BY <2>1, <2>2
<1>5. KeysOf(tx[t].stmt)' = KeysOf(tx[t].stmt) /\ HeldBy(t)' = HeldBy(t)
  BY <1>1, <1>2, <1>4, Undisturbed DEF OpenInv
<1> QED
  BY <1>1, <1>2, <1>3, <1>4, <1>5

LEMMA CommitStep ==
  ASSUME OpenInv, NEW s \in Sessions, Commit(s)
  PROVE  Prepared' /\ ClipsApart' /\ KeysApart' /\ KeysAreNew'
<1>1. Prepared'
  <2> SUFFICES ASSUME NEW t \in Sessions, Writing(t)'
      PROVE (/\ tx[t].entered <= Len(KeysOf(tx[t].stmt))
             /\ tx[t].stmt.kind = "rights" /\ tx[t].stmt.version > 1 =>
                  \E r \in rights : r.version = tx[t].stmt.version - 1
             /\ tx[t].stmt.kind = "create" => ~Exists(tx[t].stmt.clip)
             /\ tx[t].stmt.kind = "move" =>
                  /\ Exists(tx[t].stmt.clip)
                  /\ LifecycleAllows(clips[tx[t].stmt.clip].state, tx[t].stmt.to)
             /\ tx[t].stmt.kind = "post" =>
                  Exists(tx[t].stmt.clip) /\ clips[tx[t].stmt.clip].state = "READY")'
    BY DEF Prepared
  <2>1. /\ Writing(t) /\ tx'[t] = tx[t]
        /\ tx[t].stmt.kind # "rights" => clips'[tx[t].stmt.clip] = clips[tx[t].stmt.clip]
        /\ KeysOf(tx[t].stmt)' = KeysOf(tx[t].stmt)
    BY CommitLeavesOthers
  <2>2. rights \subseteq rights'
    BY DEF Commit, Apply
  <2> QED
    BY <2>1, <2>2 DEF OpenInv, Prepared, Exists
<1>2. ClipsApart'
  BY CommitLeavesOthers DEF OpenInv, ClipsApart, Locks
<1>3. KeysApart'
  BY CommitLeavesOthers DEF OpenInv, KeysApart
<1>4. KeysAreNew'
  <2> SUFFICES ASSUME NEW t \in Sessions, Writing(t)'
               PROVE  (HeldBy(t) \cap Taken)' = {}
    BY DEF KeysAreNew
  <2>1. t # s /\ Writing(t) /\ HeldBy(t)' = HeldBy(t)
    BY CommitLeavesOthers
  <2>2. Writing(s) /\ Taken' = Taken \cup HeldBy(s)
    BY CommittedKeys DEF Commit
  <2>3. HeldBy(t) \cap Taken = {} /\ HeldBy(t) \cap HeldBy(s) = {}
    BY <2>1, <2>2 DEF OpenInv, KeysAreNew, KeysApart
  <2> QED
    BY <2>1, <2>2, <2>3
<1> QED
  BY <1>1, <1>2, <1>3, <1>4

LEMMA OpenStep == OpenInv /\ [Next]_vars => OpenInv'
<1> SUFFICES ASSUME OpenInv, [Next]_vars
             PROVE  Prepared' /\ ClipsApart' /\ KeysApart' /\ KeysAreNew'
  BY TypeStep, WaitingStep DEF OpenInv
<1>1. ASSUME UNCHANGED <<data, tx>>
      PROVE  Prepared' /\ ClipsApart' /\ KeysApart' /\ KeysAreNew'
  <2>1. \A t \in Sessions : Writing(t)' =>
          /\ Writing(t) /\ tx'[t] = tx[t]
          /\ KeysOf(tx[t].stmt)' = KeysOf(tx[t].stmt)
          /\ HeldBy(t)' = HeldBy(t) /\ Taken' = Taken
    BY <1>1, OthersKept DEF Writing
  <2>2. Prepared'
    BY <1>1, <2>1 DEF OpenInv, Prepared, data, Exists
  <2>3. ClipsApart'
    BY <2>1 DEF OpenInv, ClipsApart, Locks
  <2>4. KeysApart'
    BY <2>1 DEF OpenInv, KeysApart
  <2>5. KeysAreNew'
    BY <2>1 DEF OpenInv, KeysAreNew
  <2> QED
    BY <2>2, <2>3, <2>4, <2>5
<1>2. ASSUME NEW s \in Sessions, Rollback(s)
      PROVE  Prepared' /\ ClipsApart' /\ KeysApart' /\ KeysAreNew'
  <2>1. /\ UNCHANGED data
        /\ \A t \in Sessions \ {s} : tx'[t] = tx[t]
        /\ ~Writing(s)'
    BY <1>2 DEF Rollback, End, OpenInv, TypeOK, Writing, Idle
  <2> QED
    BY <2>1, LeaveStep
<1> QED
  BY <1>1, <1>2, SendStep, CheckStep, EnterStep, CommitStep DEF Next, Tick, vars, data

-----------------------------------------------------------------------------
(* The properties                                                          *)

\* Everything but a commit leaves the data alone.
LEMMA OnlyCommitsWrite ==
  ASSUME [Next]_vars
  PROVE  UNCHANGED data \/ \E s \in Sessions : Commit(s)
  BY DEF Next, vars, data, Tick, Send, Check, Enter, Rollback

LEMMA ReservationsStep ==
  ASSUME OpenInv, ReservationsMatchAcceptance, [Next]_vars
  PROVE  ReservationsMatchAcceptance'
<1>1. CASE UNCHANGED data
  BY <1>1 DEF ReservationsMatchAcceptance, ReservationsOf, Accepted, Exists, data
<1>2. ASSUME NEW s \in Sessions, Commit(s)
      PROVE  ReservationsMatchAcceptance'
  <2> DEFINE m == tx[s].stmt  K == KeysOf(m)
             N == {[key |-> K[i], clip |-> m.clip] : i \in DOMAIN K}
             A == {d \in Clips : Accepted(d)}
  <2>1. m \in Statements /\ Writing(s)
    BY <1>2, OpenFacts DEF OpenInv, Commit, Writing
  <2>2. CASE m.kind = "move" /\ m.to = "READY" /\ clips[m.clip].state # "READY"
    <3>1. /\ m.clip \in Clips /\ Exists(m.clip) /\ clips'[m.clip] # None
          /\ LifecycleAllows(clips[m.clip].state, m.to)
          /\ clips'[m.clip].state = "READY"
          /\ \A d \in Clips \ {m.clip} : clips'[d] = clips[d]
      BY <1>2, <2>2, CommittedClips
    <3>2. clips[m.clip].state = "QC"
      BY <2>2, <3>1 DEF LifecycleAllows
    <3>3. A' = A \cup {m.clip}
      BY <3>1, <3>2 DEF Accepted, Exists, Accepting
    <3>4. reserved' = reserved \cup N
      BY <1>2, <2>2 DEF Commit, Apply
    <3>5. N = ReservationsOf(m.clip)
      BY <2>1, <2>2, KeysOfStatements DEF ReservationsOf
    <3>6. \A r \in N : r.key \in HeldBy(s) /\ r.clip = m.clip
      BY <1>2, CommittedKeys
    <3>7. \A r \in reserved : r.key \notin HeldBy(s)
      BY <2>1 DEF OpenInv, KeysAreNew, Taken
    <3>8. (\A r, q \in reserved : r.key = q.key => r.clip = q.clip)'
      <4> HIDE DEF N
      <4> QED
        BY <3>4, <3>6, <3>7 DEF ReservationsMatchAcceptance
    <3>9. reserved' = UNION {ReservationsOf(c) : c \in A'}
      <4> reserved = UNION {ReservationsOf(c) : c \in A}
        BY DEF ReservationsMatchAcceptance
      <4> HIDE DEF A, N
      <4> QED
        BY <3>3, <3>4, <3>5
    <3>10. \A c : ReservationsOf(c)' = ReservationsOf(c)
      BY DEF ReservationsOf
    <3> QED
      BY <3>8, <3>9, <3>10 DEF ReservationsMatchAcceptance
  <2>3. CASE ~(m.kind = "move" /\ m.to = "READY" /\ clips[m.clip].state # "READY")
    <3>1. reserved' = reserved
      <4>1. CASE m.kind = "move"
        <5>1. K = <<>>
          BY <2>1, <2>3, <4>1, KeysOfStatements
        <5>2. reserved' = reserved \cup N
          BY <1>2, <4>1 DEF Commit, Apply
        <5> QED
          BY <5>1, <5>2
      <4>2. CASE m.kind # "move"
        BY <1>2, <4>2 DEF Commit, Apply
      <4> QED
        BY <4>1, <4>2
    <3>2. \A d \in Clips : Accepted(d)' <=> Accepted(d)
      <4>1. CASE m.kind = "rights"
        BY <1>2, <4>1, CommittedClips DEF Accepted, Exists
      <4>2. CASE m.kind = "create"
        BY <1>2, <4>2, CommittedClips DEF Accepted, Exists, Accepting
      <4>3. CASE m.kind = "post"
        BY <1>2, <4>3, CommittedClips DEF Accepted, Exists, Accepting
      <4>4. CASE m.kind = "move"
        <5>1. /\ Exists(m.clip) /\ clips'[m.clip] # None
              /\ LifecycleAllows(clips[m.clip].state, m.to)
              /\ clips'[m.clip].state = m.to
              /\ \A d \in Clips \ {m.clip} : clips'[d] = clips[d]
          BY <1>2, <4>4, CommittedClips
        <5>2. m.to \in Accepting <=> clips[m.clip].state \in Accepting
          BY <2>3, <4>4, <5>1 DEF LifecycleAllows, Accepting
        <5> QED
          BY <5>1, <5>2 DEF Accepted, Exists
      <4> QED
        BY <2>1, <4>1, <4>2, <4>3, <4>4, StatementFacts
    <3>3. A' = A
      BY <3>2
    <3>4. \A c : ReservationsOf(c)' = ReservationsOf(c)
      BY DEF ReservationsOf
    <3> QED
      BY <3>1, <3>3, <3>4 DEF ReservationsMatchAcceptance
  <2> QED
    BY <2>2, <2>3
<1> QED
  BY <1>1, <1>2, OnlyCommitsWrite

LEMMA PostsStep ==
  ASSUME OpenInv, PostsFollowAcceptance, [Next]_vars
  PROVE  PostsFollowAcceptance'
<1>1. CASE UNCHANGED data
  BY <1>1 DEF PostsFollowAcceptance, Exists, data
<1>2. ASSUME NEW s \in Sessions, Commit(s), NEW c \in Clips
      PROVE  posts'[c] <= 1 /\ (posts'[c] = 1 =>
               clips'[c] # None /\ clips'[c].state \in {"POSTED", "ARCHIVED"})
  <2> DEFINE m == tx[s].stmt
  <2>1. m \in Statements /\ Writing(s)
    BY <1>2, OpenFacts DEF OpenInv, Commit, Writing
  <2>2. /\ posts[c] \in Nat /\ posts[c] <= 1
        /\ posts[c] = 1 => clips[c] # None /\ clips[c].state \in {"POSTED", "ARCHIVED"}
    BY DEF PostsFollowAcceptance, OpenInv, TypeOK, Exists
  <2>3. CASE m.kind = "post" /\ m.clip = c
    <3>1. <<"post", c>> \in HeldBy(s)
      BY <1>2, <2>1, <2>3, CommittedKeys, KeysOfStatements
    <3>2. <<"post", c>> \notin Taken
      BY <2>1, <3>1 DEF OpenInv, KeysAreNew
    <3>3. posts[c] = 0
      BY <2>2, <3>2 DEF Taken
    <3>4. posts'[c] = 1
      BY <1>2, <2>3, <3>3 DEF Commit, Apply, OpenInv, TypeOK
    <3> QED
      BY <1>2, <2>3, <3>4, CommittedClips
  <2>4. CASE m.kind = "move" /\ m.clip = c
    <3>1. posts' = posts
      BY <1>2, <2>4 DEF Commit, Apply
    <3>2. /\ clips'[c] # None /\ clips'[c].state = m.to
          /\ LifecycleAllows(clips[c].state, m.to)
      BY <1>2, <2>4, CommittedClips
    <3> QED
      BY <2>2, <3>1, <3>2 DEF LifecycleAllows
  <2>5. CASE m.kind = "create" /\ m.clip = c
    BY <1>2, <2>2, <2>5, CommittedClips DEF Commit, Apply, Exists
  <2>6. CASE m.kind = "rights" \/ m.clip # c
    <3>1. posts'[c] = posts[c]
      BY <1>2, <2>6 DEF Commit, Apply, OpenInv, TypeOK
    <3>2. clips'[c] = clips[c]
      BY <1>2, <2>6, CommittedClips
    <3> QED
      BY <2>2, <3>1, <3>2
  <2> QED
    BY <2>1, <2>3, <2>4, <2>5, <2>6, StatementFacts
<1>3. ASSUME NEW s \in Sessions, Commit(s)
      PROVE  PostsFollowAcceptance'
  BY <1>2, <1>3 DEF PostsFollowAcceptance, Exists
<1> QED
  BY <1>1, <1>3, OnlyCommitsWrite

LEMMA VersionsStep ==
  ASSUME OpenInv, VersionsAreContiguous, [Next]_vars
  PROVE  VersionsAreContiguous'
<1>1. CASE UNCHANGED data
  BY <1>1 DEF VersionsAreContiguous, data
<1>2. ASSUME NEW s \in Sessions, Commit(s)
      PROVE  VersionsAreContiguous'
  <2> DEFINE m == tx[s].stmt
             x == [version |-> m.version, at |-> tx[s].at, until |-> m.until]
  <2>1. m \in Statements /\ Writing(s)
    BY <1>2, OpenFacts DEF OpenInv, Commit, Writing
  <2>2. CASE m.kind = "rights"
    <3>1. rights' = rights \cup {x} /\ x.version = m.version
      BY <1>2, <2>2 DEF Commit, Apply
    <3>2. x.version > 1 => \E q \in rights : q.version = x.version - 1
      BY <2>1, <2>2, <3>1 DEF OpenInv, Prepared
    <3>3. <<"rights", x.version>> \in HeldBy(s)
      BY <1>2, <2>1, <2>2, <3>1, CommittedKeys, KeysOfStatements
    <3>4. \A q \in rights : q.version # x.version
      BY <2>1, <3>3 DEF OpenInv, KeysAreNew, Taken
    <3> HIDE DEF x
    <3> QED
      BY <3>1, <3>2, <3>4 DEF VersionsAreContiguous
  <2>3. CASE m.kind # "rights"
    BY <1>2, <2>3 DEF Commit, Apply, VersionsAreContiguous
  <2> QED
    BY <2>2, <2>3
<1> QED
  BY <1>1, <1>2, OnlyCommitsWrite

Inv == /\ OpenInv
       /\ ReservationsMatchAcceptance
       /\ PostsFollowAcceptance
       /\ VersionsAreContiguous

LEMMA InvInit == Init => Inv
<1> SUFFICES ASSUME Init
             PROVE  Inv
  OBVIOUS
<1>1. TypeOK
  BY NumbersAssumption DEF Init, TypeOK, Transactions
<1>2. WaitingIsFresh /\ Prepared /\ ClipsApart /\ KeysApart /\ KeysAreNew
  BY DEF Init, Idle, Writing, WaitingIsFresh, Prepared, ClipsApart, KeysApart, KeysAreNew
<1>3. \A c \in Clips : ~Exists(c)
  BY DEF Init, Exists
<1>4. ReservationsMatchAcceptance
  BY <1>3 DEF Init, ReservationsMatchAcceptance, Accepted
<1> QED
  BY <1>1, <1>2, <1>4 DEF Init, Inv, OpenInv, PostsFollowAcceptance, VersionsAreContiguous

LEMMA InvStep == Inv /\ [Next]_vars => Inv'
  BY OpenStep, ReservationsStep, PostsStep, VersionsStep DEF Inv

LEMMA InvCorrect == Spec => []Inv
  BY InvInit, InvStep, PTL DEF Spec

\* The committed data and the open transactions are typed.
THEOREM TypeCorrect == Spec => []TypeOK
<1>1. Inv => TypeOK
  BY DEF Inv, OpenInv
<1> QED
  BY <1>1, InvCorrect, PTL

\* However transactions interleave, wait and roll back, exactly the accepted
\* clips have reserved the keys of their rules (honor_final_uniqueness_acceptance_guard).
THEOREM ReservationsCorrect == Spec => []ReservationsMatchAcceptance
<1>1. Inv => ReservationsMatchAcceptance
  BY DEF Inv
<1> QED
  BY <1>1, InvCorrect, PTL

\* At most one clip of a restricted scope and signature is accepted: a common key
\* would be reserved by both.
THEOREM AcceptanceCorrect == Spec => []AcceptedOncePerSignature
<1>1. Inv => AcceptedOncePerSignature
  <2> SUFFICES ASSUME Inv, NEW c \in Clips, NEW d \in Clips,
                      Same(c, d), Accepted(c), Accepted(d)
               PROVE  c = d
    BY DEF AcceptedOncePerSignature
  <2>1. PICK i \in DOMAIN clauses[c], j \in DOMAIN clauses[d] :
          SignatureKey(c, clauses[c][i]) = SignatureKey(d, clauses[d][j])
    BY DEF Same
  <2> DEFINE r == [key |-> SignatureKey(c, clauses[c][i]), clip |-> c]
             q == [key |-> SignatureKey(d, clauses[d][j]), clip |-> d]
  <2>2. r \in ReservationsOf(c) /\ q \in ReservationsOf(d)
    BY DEF ReservationsOf
  <2>3. r \in reserved /\ q \in reserved
    BY <2>2 DEF Inv, ReservationsMatchAcceptance
  <2> QED
    BY <2>1, <2>3 DEF Inv, ReservationsMatchAcceptance
<1> QED
  BY <1>1, InvCorrect, PTL

\* A clip has one post at most, and one that has is posted or archived
\* (honor_post_publish_guard).
THEOREM PostsCorrect == Spec => []PostsFollowAcceptance
<1>1. Inv => PostsFollowAcceptance
  BY DEF Inv
<1> QED
  BY <1>1, InvCorrect, PTL

\* Versions of the rights have no gap and no double
\* (honor_source_rights_version_guard).
THEOREM VersionsCorrect == Spec => []VersionsAreContiguous
<1>1. Inv => VersionsAreContiguous
  BY DEF Inv
<1> QED
  BY <1>1, InvCorrect, PTL

\* The answer to what the rights were at a past moment is changed by the late
\* commit of a version, and by nothing else (honor_current_rights_for_action).
THEOREM PastCorrect == Spec => PastChangesByLateCommitsOnly
<1>1. ASSUME OpenInv, [Next]_vars, NEW t \in 0 .. now, CurrentAt(t)' # CurrentAt(t)
      PROVE  \E s \in Sessions : Commit(s) /\ tx[s].stmt.kind = "rights" /\ tx[s].at <= t
  <2>1. rights' # rights
    <3>1. rights' = rights => CurrentAt(t)' = CurrentAt(t)
      BY DEF CurrentAt, KnownAt
    <3> QED
      BY <1>1, <3>1
  <2>2. PICK s \in Sessions : Commit(s)
    BY <1>1, <2>1, OnlyCommitsWrite DEF data
  <2> DEFINE x == [version |-> tx[s].stmt.version, at |-> tx[s].at,
                   until |-> tx[s].stmt.until]
  <2>3. tx[s].stmt.kind = "rights" /\ rights' = rights \cup {x}
    BY <2>1, <2>2 DEF Commit, Apply
  <2>4. tx[s].at <= t
    <3> SUFFICES ASSUME ~(tx[s].at <= t)
                 PROVE  FALSE
      OBVIOUS
    <3>1. KnownAt(t)' = KnownAt(t)
      BY <2>3 DEF KnownAt
    <3>2. CurrentAt(t)' = CurrentAt(t)
      BY <3>1 DEF CurrentAt
    <3> QED
      BY <1>1, <3>2
  <2> QED
    BY <2>2, <2>3, <2>4
<1>2. Inv /\ [Next]_vars => [\A t \in 0 .. now : CurrentAt(t)' # CurrentAt(t) =>
        \E s \in Sessions : Commit(s) /\ tx[s].stmt.kind = "rights" /\ tx[s].at <= t]_vars
  BY <1>1 DEF Inv
<1> QED
  BY <1>2, InvCorrect, PTL DEF Spec, PastChangesByLateCommitsOnly
=============================================================================
