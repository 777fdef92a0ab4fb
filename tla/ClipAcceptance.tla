--------------------------- MODULE ClipAcceptance ---------------------------
(***************************************************************************)
(* The database guards of a clip's life, as concurrent transactions meet   *)
(* them: versions of a source's rights are committed while clips are       *)
(* created, rendered, accepted (READY) and posted.  A transaction is one   *)
(* statement under READ COMMITTED: it is sent (statement_timestamp), waits *)
(* for the lock of the row it updates, runs its triggers, which look at    *)
(* what is committed by then, enters its keys into the unique indexes,     *)
(* where it waits for a writer of the same key, and it commits.  What it   *)
(* writes is seen by no other before.                                      *)
(*                                                                         *)
(* One source and one campaign's sealed rules; a version grants every use  *)
(* that a clip needs until it ends, or none (the guard of the creation     *)
(* asks for all of them, so no stage tells a clip's versions apart).  The  *)
(* clip's output, its QC and its manifest are not modelled: a clip is sent *)
(* to READY once it has a manifest.                                        *)
(***************************************************************************)
EXTENDS Naturals, Sequences

CONSTANTS
  Clips, Sessions, None,
  campaign, account, signature,  \* of each clip: what its row and its edit plan say
  clauses,                       \* clauses[c]: its uniqueness codes, in their sealed order
  Ends,                          \* when the rights of a version may end
  MaxVersions, MaxTime           \* bounds: versions of the rights, and the clock

VARIABLES
  now,        \* the database's clock
  rights,     \* committed rows of source_rights
  clips,      \* clips[c]: the committed row
  posts,      \* posts[c]: the number of rows of posts
  reserved,   \* committed rows of accepted_edit_signatures
  tx          \* tx[s]: the transaction of session s

vars == <<now, rights, clips, posts, reserved, tx>>
data == <<rights, clips, posts, reserved>>

Codes == {"NO_REUSED_EDIT", "UNIQUE_PER_ACCOUNT", "UNIQUE_PER_CAMPAIGN"}
States == {"PLANNED", "RENDERING", "QC", "READY", "POSTED", "ARCHIVED", "EJECTED"}
Accepting == {"READY", "POSTED", "ARCHIVED"}

\* No code twice in the rules of a clip: the seal refuses it.
ASSUME ClausesAssumption ==
  /\ clauses \in [Clips -> Seq(Codes)]
  /\ \A c \in Clips : \A i, j \in DOMAIN clauses[c] :
       clauses[c][i] = clauses[c][j] => i = j
ASSUME NumbersAssumption ==
  MaxVersions \in Nat /\ MaxTime \in Nat /\ Ends \subseteq Nat

Rows == [state : States, rights : 1 .. MaxVersions, created : 0 .. MaxTime]

ASSUME NoneAssumption == None \notin Rows

-----------------------------------------------------------------------------
(* Statements, transactions and unique keys                                *)

Statements ==
       [kind : {"rights"}, version : 1 .. MaxVersions, until : Ends]
  \cup [kind : {"create"}, clip : Clips, version : 1 .. MaxVersions]
  \cup [kind : {"move"}, clip : Clips, to : States \ {"PLANNED"}]
  \cup [kind : {"post"}, clip : Clips]

Idle == [stage |-> "idle"]

Transactions ==
  {Idle} \cup [stage : {"waiting", "writing"}, stmt : Statements, at : 0 .. MaxTime,
                                         entered : Nat]

Scope(c, code) == IF code = "UNIQUE_PER_ACCOUNT" THEN account[c] ELSE campaign[c]

SignatureKey(c, code) == <<code, Scope(c, code), signature[c]>>

\* Mutant of KeysOf: the loop over the codes ends after the first.
KeysOfFirst(m) ==
  CASE m.kind = "rights" -> <<<<"rights", m.version>>>>
    [] m.kind = "post"   -> <<<<"post", m.clip>>>>
    [] m.kind = "move"   ->
         IF m.to = "READY" /\ clips[m.clip].state # "READY" /\ clauses[m.clip] # <<>>
           THEN <<SignatureKey(m.clip, clauses[m.clip][1])>>
           ELSE <<>>
    [] OTHER -> <<>>

\* The keys that a statement enters into unique indexes, in order.
KeysOf(m) ==
  CASE m.kind = "rights" -> <<<<"rights", m.version>>>>
    [] m.kind = "post"   -> <<<<"post", m.clip>>>>
    [] m.kind = "move"   ->
         IF m.to = "READY" /\ clips[m.clip].state # "READY"
           THEN [i \in DOMAIN clauses[m.clip] |-> SignatureKey(m.clip, clauses[m.clip][i])]
           ELSE <<>>
    [] OTHER -> <<>>

Writing(s) == tx[s].stage = "writing"

\* The keys that the open transaction of s has entered.
HeldBy(s) == {KeysOf(tx[s].stmt)[i] : i \in 1 .. tx[s].entered}

\* The keys of committed rows.
Taken ==
       {<<"rights", r.version>> : r \in rights}
  \cup {<<"post", c>> : c \in {d \in Clips : posts[d] > 0}}
  \cup {r.key : r \in reserved}

Finished(s) == tx[s].entered = Len(KeysOf(tx[s].stmt))
NextKey(s) == KeysOf(tx[s].stmt)[tx[s].entered + 1]

Updates == {"move", "post"}

\* The row of the clip that m updates is locked by another's open transaction.
Locks(t, m) ==
  /\ Writing(t)
  /\ m.kind \in Updates /\ tx[t].stmt.kind \in Updates
  /\ m.clip = tx[t].stmt.clip

\* s waits for t: for the lock of a row, or for the fate of a key.
WaitsFor(s, t) ==
  /\ s # t
  /\ \/ tx[s].stage = "waiting" /\ Locks(t, tx[s].stmt)
     \/ Writing(s) /\ ~Finished(s) /\ Writing(t) /\ NextKey(s) \in HeldBy(t)

Waits(s) == \E t \in Sessions : WaitsFor(s, t)

-----------------------------------------------------------------------------
(* The guards                                                              *)

\* The highest of the known versions, 0 if it does not allow use at time t.
Authoritative(known, t) ==
  IF \E r \in known : t < r.until /\ \A q \in known : q.version <= r.version
    THEN (CHOOSE r \in known : \A q \in known : q.version <= r.version).version
    ELSE 0

\* Mutant of CurrentAt: the newest version, whenever it was committed.
CurrentAtAny(t) == Authoritative(rights, t)

\* Committed by time t as far as the rows tell; that the evidence was captured by
\* then as well is assumed of every version.
KnownAt(t) == {r \in rights : r.at <= t}

\* The version in force at time t, 0 for none: of those committed by then as far
\* as the rows tell, with no fallback to an earlier, broader one.
CurrentAt(t) == Authoritative(KnownAt(t), t)

Exists(c) == clips[c] # None
Accepted(c) == Exists(c) /\ clips[c].state \in Accepting

\* An accepted clip of the same scope has the signature already.
Reused(c) ==
  \E i \in DOMAIN clauses[c], d \in Clips \ {c} :
    /\ Accepted(d)
    /\ SignatureKey(c, clauses[c][i]) = SignatureKey(d, clauses[c][i])

LifecycleAllows(old, new) ==
  \/ old = new
  \/ old = "PLANNED"   /\ new \in {"RENDERING", "EJECTED"}
  \/ old = "RENDERING" /\ new \in {"QC", "EJECTED"}
  \/ old = "QC"        /\ new \in {"READY", "EJECTED"}
  \/ old = "READY"     /\ new \in {"POSTED", "ARCHIVED"}
  \/ old = "POSTED"    /\ new = "ARCHIVED"

\* Every change of the state asks again for the rights of the creation.
CrossRecord(c) == CurrentAt(clips[c].created) = clips[c].rights

MayMove(c, new, at) ==
  LET old == clips[c].state
  IN  /\ CrossRecord(c)
      /\ new = "READY" => CurrentAt(at) = clips[c].rights
      /\ old = "PLANNED" /\ new = "RENDERING" =>
           CurrentAt(at) = clips[c].rights /\ ~Reused(c)
      /\ LifecycleAllows(old, new)

\* What the triggers of a statement, sent at time at, ask of committed rows.
Guard(m, at) ==
  \/ /\ m.kind = "rights"
     /\ m.version > 1 => \E r \in rights : r.version = m.version - 1
  \/ m.kind = "create" /\ ~Exists(m.clip) /\ CurrentAt(at) = m.version
  \/ m.kind = "move" /\ Exists(m.clip) /\ MayMove(m.clip, m.to, at)
  \/ /\ m.kind = "post" /\ Exists(m.clip) /\ clips[m.clip].state = "READY"
     /\ CrossRecord(m.clip)

-----------------------------------------------------------------------------
(* Steps of a transaction                                                  *)

Init ==
  /\ now = 0
  /\ rights = {} /\ reserved = {}
  /\ clips = [c \in Clips |-> None]
  /\ posts = [c \in Clips |-> 0]
  /\ tx = [s \in Sessions |-> Idle]

Tick ==
  /\ now < MaxTime
  /\ now' = now + 1
  /\ UNCHANGED <<data, tx>>

\* A clip's identifier is made up by the one that creates it.
Fresh(c) ==
  \A s \in Sessions :
    tx[s].stage # "idle" => ~(tx[s].stmt.kind = "create" /\ tx[s].stmt.clip = c)

Started(m, stage, at) == [stage |-> stage, stmt |-> m, at |-> at, entered |-> 0]

\* A statement runs its triggers as it is sent, unless it has to wait for the
\* row that it updates; one that they refuse leaves nothing.
Send(s, m) ==
  /\ tx[s].stage = "idle"
  /\ m.kind = "create" => Fresh(m.clip)
  /\ IF \E t \in Sessions \ {s} : Locks(t, m)
       THEN tx' = [tx EXCEPT ![s] = Started(m, "waiting", now)]
       ELSE /\ Guard(m, now)
            /\ tx' = [tx EXCEPT ![s] = Started(m, "writing", now)]
  /\ UNCHANGED <<now, data>>

End(s) == tx' = [tx EXCEPT ![s] = Idle]

\* Mutant of Check: what the triggers need was read before the wait.
CheckBefore(s) ==
  /\ tx[s].stage = "waiting" /\ ~Waits(s)
  /\ tx' = [tx EXCEPT ![s].stage = "writing"]
  /\ UNCHANGED <<now, data>>

\* The row is free: its triggers see what was committed meanwhile, and ask of
\* it for the time at which the statement was sent.
Check(s) ==
  /\ tx[s].stage = "waiting" /\ ~Waits(s)
  /\ IF Guard(tx[s].stmt, tx[s].at)
       THEN tx' = [tx EXCEPT ![s].stage = "writing"]
       ELSE End(s)
  /\ UNCHANGED <<now, data>>

\* Mutant of Enter: a lookup of the committed rows in place of a unique index.
EnterIfAbsent(s) ==
  /\ Writing(s) /\ ~Finished(s)
  /\ IF NextKey(s) \in Taken
       THEN End(s)
       ELSE tx' = [tx EXCEPT ![s].entered = @ + 1]
  /\ UNCHANGED <<now, data>>

\* The next key of its rows; a committed one refuses it.
Enter(s) ==
  /\ Writing(s) /\ ~Finished(s) /\ ~Waits(s)
  /\ IF NextKey(s) \in Taken
       THEN End(s)
       ELSE tx' = [tx EXCEPT ![s].entered = @ + 1]
  /\ UNCHANGED <<now, data>>

\* What a statement writes, seen by all from the commit on.
Apply(m, at) ==
  /\ rights' = IF m.kind = "rights"
                 THEN rights \cup {[version |-> m.version, at |-> at, until |-> m.until]}
                 ELSE rights
  /\ clips' =
       CASE m.kind = "create" ->
              [clips EXCEPT ![m.clip] = [state |-> "PLANNED", rights |-> m.version,
                                         created |-> at]]
         [] m.kind = "move"   -> [clips EXCEPT ![m.clip].state = m.to]
         [] m.kind = "post"   -> [clips EXCEPT ![m.clip].state = "POSTED"]
         [] OTHER -> clips
  /\ posts' = IF m.kind = "post" THEN [posts EXCEPT ![m.clip] = @ + 1] ELSE posts
  /\ reserved' = IF m.kind = "move"
                   THEN reserved \cup {[key |-> KeysOf(m)[i], clip |-> m.clip] : i \in DOMAIN KeysOf(m)}
                   ELSE reserved

Commit(s) ==
  /\ Writing(s) /\ Finished(s)
  /\ Apply(tx[s].stmt, tx[s].at)
  /\ End(s)
  /\ UNCHANGED now

\* The caller gives up, its connection is lost, or the database ends one of
\* those that wait for each other.
Rollback(s) ==
  /\ tx[s].stage # "idle"
  /\ End(s)
  /\ UNCHANGED <<now, data>>

Next ==
  \/ Tick
  \/ \E s \in Sessions :
       \/ \E m \in Statements : Send(s, m)
       \/ Check(s)
       \/ Enter(s)
       \/ Commit(s)
       \/ Rollback(s)

Spec == Init /\ [][Next]_vars

-----------------------------------------------------------------------------
(* Properties                                                              *)

TypeOK ==
  /\ now \in 0 .. MaxTime
  /\ rights \subseteq [version : 1 .. MaxVersions, at : 0 .. MaxTime, until : Ends]
  /\ clips \in [Clips -> {None} \cup Rows]
  /\ posts \in [Clips -> Nat]
  /\ tx \in [Sessions -> Transactions]

Same(c, d) ==
  \E i \in DOMAIN clauses[c], j \in DOMAIN clauses[d] :
    SignatureKey(c, clauses[c][i]) = SignatureKey(d, clauses[d][j])

\* Concurrent renders of one edit: at most one clip of a restricted scope and
\* signature is ever READY, POSTED or ARCHIVED
\* (HONOR_MEDIA_AUDIO_QC_SPEC.md:180).
AcceptedOncePerSignature ==
  \A c, d \in Clips : c # d /\ Same(c, d) => ~(Accepted(c) /\ Accepted(d))

ReservationsOf(c) ==
  {[key |-> SignatureKey(c, clauses[c][i]), clip |-> c] : i \in DOMAIN clauses[c]}

\* A key is reserved by one clip, and exactly the accepted clips have reserved
\* theirs: all of a clip's reservations come and fail with its acceptance
\* (honor_final_uniqueness_acceptance_guard).
ReservationsMatchAcceptance ==
  /\ \A r, q \in reserved : r.key = q.key => r.clip = q.clip
  /\ reserved = UNION {ReservationsOf(c) : c \in {d \in Clips : Accepted(d)}}

\* A clip is posted at most once, and a clip with a post is never anything
\* but posted or archived, whoever archives it while the post is recorded
\* (honor_post_publish_guard).
PostsFollowAcceptance ==
  \A c \in Clips :
    /\ posts[c] <= 1
    /\ posts[c] = 1 => Exists(c) /\ clips[c].state \in {"POSTED", "ARCHIVED"}

\* What the rights of a past moment were changes by one thing only: the commit
\* of a version that was sent by that moment (honor_current_rights_for_action).
PastChangesByLateCommitsOnly ==
  [][\A t \in 0 .. now : CurrentAt(t)' # CurrentAt(t) =>
       \E s \in Sessions : Commit(s) /\ tx[s].stmt.kind = "rights" /\ tx[s].at <= t]_vars

\* The rights of a clip are the latest that were committed by its creation
\* (the comment on honor_current_rights_for_action).
RightsAreLatestAtCreation == \A c \in Clips : Exists(c) => CrossRecord(c)

\* The versions are 1, 2, ... with one row each, also when two are committed at
\* once (honor_source_rights_version_guard and the unique keys of the table).
VersionsAreContiguous ==
  \A r \in rights :
    /\ r.version > 1 => \E q \in rights : q.version = r.version - 1
    /\ \A q \in rights : q.version = r.version => q = r
=============================================================================
