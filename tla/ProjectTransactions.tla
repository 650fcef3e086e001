------------------------ MODULE ProjectTransactions ------------------------
(***************************************************************************)
(* The transaction coordinator of the Companion (project_transactions.py)  *)
(* over the split project repository (project_repository.py): preview,     *)
(* apply, rollback, the unlocked delete, the PREPARED -> snapshot -> head  *)
(* -> AUDIT_PENDING -> audit -> COMMITTED protocol, crashes at every await *)
(* and the recovery that runs before the integration becomes available.    *)
(*                                                                         *)
(* A configuration is named by its content: the digest the code computes   *)
(* covers project id, revision and content, so a snapshot id is the triple *)
(* <<project, revision, content>>.  A durable write is one step: the file  *)
(* is replaced atomically, so a crash falls before or after it.            *)
(*                                                                         *)
(* Operators marked "mutant" are used by no definition: they are the slips *)
(* the properties are meant to catch, each defined above its original.     *)
(***************************************************************************)
EXTENDS Integers, Sequences, FiniteSets

CONSTANTS
    Projects,      \* project ids
    Users,         \* authenticated users, each with one request in flight
    Contents,      \* what a candidate may contain
    Empty,         \* the synthesized content of a project with no head
    NoHead,        \* the head of a project that has none
    None,          \* no journal, no preview, no request
    MaxTx,         \* bound: transactions that get as far as a journal
    MaxVersions,   \* option max_versions: snapshots retained per project
    MaxAudit,      \* option max_audit: audit events retained
    MaxCrashes,    \* bound: crashes
    MaxFaults,     \* bound: failing Store writes
    FaultyStages,  \* the stages whose Store write may fail
    MaxDeletes     \* bound: delete requests

ASSUME SetsAssumption ==
    /\ Empty \notin Contents
    /\ NoHead \notin [revision : Nat, content : Contents \cup {Empty}, tx : Nat]
    /\ "tx" \notin Users
    /\ None \notin Users

\* max_versions is an option of 5..500 and max_audit one of 100..50000; the
\* protocol itself only needs the active head's snapshot beside the new one.
ASSUME BoundsAssumption ==
    /\ MaxTx \in Nat \ {0}
    /\ MaxVersions \in Nat \ {0, 1}
    /\ MaxAudit \in Nat \ {0}
    /\ MaxCrashes \in Nat /\ MaxFaults \in Nat /\ MaxDeletes \in Nat

VARIABLES
    heads,      \* heads store on disk
    snaps,      \* snapshots store
    journals,   \* journal store, one entry per transaction id
    audit,      \* audit store, newest event first
    memHeads,   \* the repository's memory copy of the heads store
    saving,     \* heads saves issued and not yet on disk: the first is being
                \* written, the data of the last replaces that of those between
    previews,   \* retained previews, one per user and project
    request,    \* each user's request in flight
    waiting,    \* users queued on the coordinator's asyncio.Lock
    stage,      \* where the holder of that lock stands; "free" without one
    op,         \* what the holder of the lock works on
    phase,      \* life cycle of the integration
    acked,      \* transactions a client was told are committed
    crashes, faults, deletes

durable == <<heads, snaps, journals, audit>>
client  == <<previews, request, waiting>>
bounds  == <<crashes, faults, deletes>>
vars    == <<durable, memHeads, saving, client, stage, op, phase, acked, bounds>>

TxIds     == 1..MaxTx
Revisions == Nat
Config    == Contents \cup {Empty}

HeadRec  == [revision : Revisions, content : Config, tx : TxIds]
Snapshot == [project : Projects, revision : Revisions, content : Config, tx : TxIds]
Journal  == [state    : {"PREPARED", "AUDIT_PENDING", "COMMITTED", "ABORTED"},
             final    : {"NONE", "COMMITTED", "ABORTED"},
             project  : Projects,
             expected : Revisions,
             base     : Config,
             content  : Config]
Event    == [tx : TxIds, result : {"committed", "aborted"}]
HeadMap  == [Projects -> HeadRec \cup {NoHead}]
Preview  == [revision : Revisions, base : Config, content : Config]
Request  == [kind : {"apply", "rollback", "delete"}, project : Projects,
             revision : Revisions, base : Config, content : Config,
             source : Revisions]
Save     == [by : Users \cup {"tx"}, heads : HeadMap \cup {None}]
Op       == [mode : {"commit", "recover"}, user : Users \cup {None},
             project : Projects, revision : Revisions, base : Config,
             content : Config, tx : TxIds, verdict : {"COMMITTED", "ABORTED"}]

ASSUME SentinelAssumption == None \notin Request \cup Journal \cup HeadMap

Stages == {"free", "recheck", "backup", "prepare", "snapshot", "head",
           "landing", "verify", "pending", "audit", "final"}
Phases == {"down", "recovering", "up", "stuck"}

-----------------------------------------------------------------------------
\* Store.async_load: the data of a save that still waits for the file, else
\* the file itself -- which a save being written has not replaced yet.
Loaded ==
    LET last == Len(saving) IN
    IF last > 1 /\ saving[last].heads # None THEN saving[last].heads ELSE heads

\* _active_or_empty: the revision and content a candidate is diffed against
\* when the project has no head yet.
RevisionOf(h) == IF h = NoHead THEN 0 ELSE h.revision
ContentOf(h)  == IF h = NoHead THEN Empty ELSE h.content

\* repository.read_snapshot, by the content address
StoredAs(p, r, c) == {s \in snaps : s.project = p /\ s.revision = r /\ s.content = c}

\* _prune_snapshots: the newest MaxVersions of one project, by revision and
\* then by age; transaction ids grow with time.
Newer(a, b) == a.revision > b.revision \/ (a.revision = b.revision /\ a.tx > b.tx)

\* mutant: one snapshot too few is kept
PrunedShort(S, p) ==
    {s \in S : s.project = p =>
        Cardinality({n \in S : n.project = p /\ Newer(n, s)}) < MaxVersions - 1}

Pruned(S, p) ==
    {s \in S : s.project = p =>
        Cardinality({n \in S : n.project = p /\ Newer(n, s)}) < MaxVersions}

\* _head_from_snapshot
HeadFrom(s) == [revision |-> s.revision, content |-> s.content, tx |-> s.tx]

\* the snapshot the transaction in `op` writes, and those it reads back
NewSnapshot == [project |-> op.project, revision |-> op.revision + 1,
                content |-> op.content, tx |-> op.tx]
Stored      == StoredAs(op.project, op.revision + 1, op.content)

\* a transaction id no journal bears; MaxTx bounds how many are handed out
Unjournaled == {t \in TxIds : journals[t] = None}
FreshTx     == {t \in Unjournaled : \A u \in Unjournaled : t <= u}
Spare       == Cardinality(Unjournaled) > Len(waiting)
                   + IF op # None THEN (IF journals[op.tx] = None THEN 1 ELSE 0) ELSE 0

\* append_audit: the new event first, the oldest beyond max_audit dropped
Recorded(t) == \E i \in DOMAIN audit : audit[i].tx = t
Trim(s)     == IF Len(s) > MaxAudit THEN SubSeq(s, 1, MaxAudit) ELSE s

\* mutant: the event carries the journal's own state
EventOfUnmapped(t)  == [tx |-> t, result |-> journals[t].final]
\* mutant: recovery keeps the event prepared by _commit
EventOfPrepared(t)  == [tx |-> t, result |-> "committed"]

EventOf(t)  == [tx |-> t, result |-> IF journals[t].final = "ABORTED"
                                     THEN "aborted" ELSE "committed"]

\* the Store raises, or loses the write and the read-back shows it
Fails(s) == s \in FaultyStages /\ faults < MaxFaults /\ faults' = faults + 1

\* mutant: an early return that answers nobody
AnswerForgotten(u) == previews' = previews /\ request' = request

\* The request of u is answered and its preview, if it consumed one, dropped.
Answer(u) ==
    /\ request' = [request EXCEPT ![u] = None]
    /\ previews' = IF request[u].kind = "apply"
                   THEN [previews EXCEPT ![u][request[u].project] = None]
                   ELSE previews

Release == stage' = "free" /\ op' = None

\* An exception leaves the critical section: the lock is released and the
\* client is told of a failure; out of recovery it aborts the setup instead.
Raise ==
    /\ Release
    /\ UNCHANGED <<waiting, acked>>
    /\ IF op.mode = "commit"
       THEN Answer(op.user) /\ UNCHANGED phase
       ELSE phase' = "stuck" /\ UNCHANGED <<request, previews>>

\* The transaction is over: the client learns it is committed, or recovery
\* goes on to the next journal.
Succeed ==
    /\ Release
    /\ UNCHANGED <<waiting, phase>>
    /\ IF op.mode = "commit"
       THEN Answer(op.user) /\ acked' = acked \cup {op.tx}
       ELSE UNCHANGED <<request, previews, acked>>

-----------------------------------------------------------------------------
Init ==
    /\ heads = [p \in Projects |-> NoHead]
    /\ snaps = {}
    /\ journals = [t \in TxIds |-> None]
    /\ audit = <<>>
    /\ memHeads = heads
    /\ saving = <<>>
    /\ previews = [u \in Users |-> [p \in Projects |-> None]]
    /\ request = [u \in Users |-> None]
    /\ waiting = <<>>
    /\ stage = "free"
    /\ op = None
    /\ phase = "up"
    /\ acked = {}
    /\ crashes = 0 /\ faults = 0 /\ deletes = 0

-----------------------------------------------------------------------------
(* Client requests *)

\* preview: diff a candidate against the head in memory and retain it; a
\* later preview of the same user and project replaces it.
MakePreview(u, p, c) ==
    /\ phase = "up"
    /\ request[u] = None
    /\ previews' = [previews EXCEPT ![u][p] =
            [revision |-> RevisionOf(memHeads[p]), base |-> ContentOf(memHeads[p]),
             content |-> c]]
    /\ UNCHANGED <<durable, memHeads, saving, request, waiting, stage, op, phase,
                   acked, bounds>>

\* _purge_previews and _retain_preview evict by age and size; apply drops a
\* preview quoted with another revision.
DropPreview(u, p) ==
    /\ request[u] = None
    /\ previews[u][p] # None
    /\ previews' = [previews EXCEPT ![u][p] = None]
    /\ UNCHANGED <<durable, memHeads, saving, request, waiting, stage, op, phase,
                   acked, bounds>>

Enqueue(u, r) ==
    /\ phase = "up"
    /\ request[u] = None
    /\ Spare
    /\ request' = [request EXCEPT ![u] = r]
    /\ waiting' = Append(waiting, u)
    /\ UNCHANGED <<durable, memHeads, saving, previews, stage, op, phase, acked, bounds>>

RequestApply(u, p) ==
    /\ previews[u][p] # None
    /\ Enqueue(u, [kind |-> "apply", project |-> p,
                   revision |-> previews[u][p].revision, base |-> previews[u][p].base,
                   content |-> previews[u][p].content, source |-> 0])

\* rollback names a server snapshot and the revision the client last saw
RequestRollback(u, s) ==
    /\ s \in snaps
    /\ Enqueue(u, [kind |-> "rollback", project |-> s.project,
                   revision |-> RevisionOf(memHeads[s.project]), base |-> Empty,
                   content |-> s.content, source |-> s.revision])

\* delete_project: the guard and the removal from memory happen at once, the
\* save is issued without the coordinator's lock and awaited.
Delete(u, p) ==
    /\ phase = "up"
    /\ request[u] = None
    /\ memHeads[p] # NoHead
    /\ deletes < MaxDeletes
    /\ deletes' = deletes + 1
    /\ memHeads' = [memHeads EXCEPT ![p] = NoHead]
    /\ saving' = Append(saving, [by |-> u, heads |-> memHeads'])
    /\ request' = [request EXCEPT ![u] =
            [kind |-> "delete", project |-> p, revision |-> 0, base |-> Empty,
             content |-> Empty, source |-> 0]]
    /\ UNCHANGED <<durable, previews, waiting, stage, op, phase, acked, crashes, faults>>

-----------------------------------------------------------------------------
(* The critical section: one holder, one durable write per step *)

\* mutant: no compare-and-swap on the head
AtBaseUnchecked(p, r, c) == TRUE

\* The head just read is still the version a request was computed against.
AtBase(p, r, c) == RevisionOf(Loaded[p]) = r /\ ContentOf(Loaded[p]) = c

Current(r) ==
    /\ AtBase(r.project, r.revision, IF r.kind = "apply" THEN r.base
                                     ELSE ContentOf(Loaded[r.project]))
    /\ r.kind = "rollback" => /\ Loaded[r.project] # NoHead
                              /\ StoredAs(r.project, r.source, r.content) # {}

\* apply and rollback up to _commit: take the lock, re-read the head,
\* recompute the candidate.
Begin(u) ==
    LET r == request[u] IN
    /\ stage = "free" /\ phase = "up"
    /\ waiting # <<>> /\ u = Head(waiting)
    /\ Current(r)
    /\ waiting' = Tail(waiting)
    /\ memHeads' = Loaded
    /\ stage' = "recheck"
    /\ \E t \in FreshTx :
          op' = [mode |-> "commit", user |-> u, project |-> r.project,
                 revision |-> r.revision, base |-> ContentOf(Loaded[r.project]),
                 content |-> r.content, tx |-> t, verdict |-> "COMMITTED"]
    /\ UNCHANGED <<durable, saving, previews, request, phase, acked, bounds>>

\* TransactionConflict, an unknown snapshot, or a rollback of no head
Conflict(u) ==
    /\ stage = "free" /\ phase = "up"
    /\ waiting # <<>> /\ u = Head(waiting)
    /\ ~Current(request[u])
    /\ waiting' = Tail(waiting)
    /\ memHeads' = Loaded
    /\ Answer(u)
    /\ UNCHANGED <<durable, saving, stage, op, phase, acked, bounds>>

\* mutant: the backup is written without looking for it
BackedUpNever(p) == Loaded[p] # NoHead

\* The commit guard permits; the head is read once more and must still be the
\* base, with its own snapshot on disk to roll back to.
BackedUp(p) == StoredAs(p, RevisionOf(Loaded[p]), ContentOf(Loaded[p])) # {}

Unmoved ==
    /\ AtBase(op.project, op.revision, op.base)
    /\ Loaded[op.project] # NoHead => BackedUp(op.project)

Recheck ==
    /\ stage = "recheck"
    /\ memHeads' = Loaded
    /\ \/ /\ Unmoved
          /\ stage' = IF BackedUp(op.project) THEN "prepare" ELSE "backup"
          /\ UNCHANGED <<previews, request, waiting, op, phase, acked>>
       \/ ~Unmoved /\ Raise
    /\ UNCHANGED <<durable, saving, bounds>>

\* MutationDenied by the commit guard
Deny ==
    /\ stage = "recheck"
    /\ Raise
    /\ UNCHANGED <<durable, memHeads, saving, bounds>>

\* put_snapshot: one owner per content address; the oldest are pruned with it
PutSnapshot(s) == snaps' = Pruned(snaps \cup {s}, s.project)

\* the revision-0 snapshot of a project that is about to get its first head
WriteBackup ==
    LET s == [project |-> op.project, revision |-> 0, content |-> op.base,
              tx |-> op.tx] IN
    /\ stage = "backup"
    /\ PutSnapshot(s)
    /\ IF s \in snaps'
       THEN stage' = "prepare" /\ UNCHANGED <<previews, request, waiting, op, phase, acked>>
       ELSE Raise
    /\ UNCHANGED <<heads, journals, audit, memHeads, saving, bounds>>

WritePrepared ==
    /\ stage = "prepare"
    /\ journals' = [journals EXCEPT ![op.tx] =
            [state |-> "PREPARED", final |-> "NONE", project |-> op.project,
             expected |-> op.revision, base |-> op.base, content |-> op.content]]
    /\ stage' = "snapshot"
    /\ UNCHANGED <<heads, snaps, audit, memHeads, saving, client, op, phase, acked, bounds>>

\* "immutable snapshot conflict" when another transaction owns the address,
\* "read-back mismatch" when the new snapshot was pruned at once
WriteSnapshot ==
    /\ stage = "snapshot"
    /\ IF Stored = {} THEN PutSnapshot(NewSnapshot) ELSE UNCHANGED snaps
    /\ IF Stored = {} /\ NewSnapshot \in snaps'
       THEN stage' = "head" /\ UNCHANGED <<previews, request, waiting, op, phase, acked>>
       ELSE Raise
    /\ UNCHANGED <<heads, journals, audit, memHeads, saving, bounds>>

\* write_head: memory first, then the save is issued
WriteHead ==
    /\ stage = "head"
    /\ \E s \in Stored : memHeads' = [memHeads EXCEPT ![op.project] = HeadFrom(s)]
    /\ saving' = Append(saving, [by |-> "tx", heads |-> memHeads'])
    /\ stage' = "landing"
    /\ UNCHANGED <<durable, client, op, phase, acked, bounds>>

\* The save being written is over and its caller goes on; the next in line
\* takes the data that waits, and those behind it find nothing left to write.
Waiting(rest) ==
    [i \in DOMAIN rest |->
        [rest[i] EXCEPT !.heads = IF i = 1 THEN rest[Len(rest)].heads ELSE None]]

Landed(by) ==
    IF by = "tx"
    THEN stage' = "verify" /\ UNCHANGED <<previews, request>>
    ELSE Answer(by) /\ UNCHANGED stage

LandHeads ==
    /\ saving # <<>>
    /\ heads' = IF Head(saving).heads = None THEN heads ELSE Head(saving).heads
    /\ saving' = Waiting(Tail(saving))
    /\ Landed(Head(saving).by)
    /\ UNCHANGED <<snaps, journals, audit, memHeads, waiting, op, phase, acked, bounds>>

\* mutant: no read-back of the head that was written
VerifyHeadInMemory ==
    /\ stage = "verify"
    /\ stage' = "pending"
    /\ UNCHANGED <<durable, memHeads, saving, client, op, phase, acked, bounds>>

VerifyHead ==
    /\ stage = "verify"
    /\ memHeads' = Loaded
    /\ IF \E s \in Stored : Loaded[op.project] = HeadFrom(s)
       THEN stage' = "pending" /\ UNCHANGED <<previews, request, waiting, op, phase, acked>>
       ELSE Raise
    /\ UNCHANGED <<durable, saving, bounds>>

MarkPending ==
    /\ stage = "pending"
    /\ journals' = [journals EXCEPT ![op.tx].state = "AUDIT_PENDING",
                                    ![op.tx].final = op.verdict]
    /\ stage' = "audit"
    /\ UNCHANGED <<heads, snaps, audit, memHeads, saving, client, op, phase, acked, bounds>>

\* append_audit: idempotent for the same event, a conflict for a different one
Appended == IF Recorded(op.tx) THEN audit ELSE Trim(<<EventOf(op.tx)>> \o audit)

AppendAudit ==
    /\ stage = "audit"
    /\ audit' = Appended
    /\ IF \A i \in DOMAIN audit : audit[i].tx = op.tx => audit[i] = EventOf(op.tx)
       THEN stage' = "final" /\ UNCHANGED <<previews, request, waiting, op, phase, acked>>
       ELSE Raise
    /\ UNCHANGED <<heads, snaps, journals, memHeads, saving, bounds>>

WriteFinal ==
    /\ stage = "final"
    /\ journals' = [journals EXCEPT ![op.tx].state = op.verdict]
    /\ Succeed
    /\ UNCHANGED <<heads, snaps, audit, memHeads, saving, bounds>>

-----------------------------------------------------------------------------
(* Store writes that raise, or that are lost and noticed on read-back *)

WriteFails ==
    /\ stage \in {"backup", "prepare", "snapshot", "pending"}
    /\ Fails(stage)
    /\ Raise
    /\ UNCHANGED <<durable, memHeads, saving, crashes, deletes>>

\* write_head raises after it changed memory
HeadFails ==
    /\ stage = "head"
    /\ Fails("head")
    /\ \E s \in Stored : memHeads' = [memHeads EXCEPT ![op.project] = HeadFrom(s)]
    /\ Raise
    /\ UNCHANGED <<durable, saving, crashes, deletes>>

\* a heads save is lost: write_head's caller will see it, delete_head's not
LandFails ==
    /\ saving # <<>>
    /\ Fails("landing")
    /\ saving' = Waiting(Tail(saving))
    /\ Landed(Head(saving).by)
    /\ UNCHANGED <<durable, memHeads, waiting, op, phase, acked, crashes, deletes>>

\* _complete_audit fails: _commit turns an OSError, before or after the file
\* was replaced, into success with audit_pending; a read-back mismatch and any
\* failure during recovery are raised.
AuditFails ==
    /\ stage \in {"audit", "final"}
    /\ Fails(stage)
    /\ \/ /\ audit' \in {audit, IF stage = "audit" THEN Appended ELSE audit}
          /\ IF op.mode = "commit" THEN Succeed ELSE Raise
       \/ UNCHANGED audit /\ Raise
    /\ UNCHANGED <<heads, snaps, journals, memHeads, saving, crashes, deletes>>

-----------------------------------------------------------------------------
(* Crash, load and recovery *)

Crash ==
    /\ phase # "down"
    /\ crashes < MaxCrashes
    /\ crashes' = crashes + 1
    /\ phase' = "down"
    /\ memHeads' = [p \in Projects |-> NoHead]
    /\ saving' = <<>>
    /\ previews' = [u \in Users |-> [p \in Projects |-> None]]
    /\ request' = [u \in Users |-> None]
    /\ waiting' = <<>>
    /\ Release
    /\ UNCHANGED <<durable, acked, faults, deletes>>

\* async_initialize; after a failed setup, the next attempt
Load ==
    /\ phase \in {"down", "stuck"}
    /\ phase' = "recovering"
    /\ memHeads' = heads
    /\ saving' = <<>>
    /\ UNCHANGED <<durable, client, stage, op, acked, bounds>>

\* mutant: an aborted journal is picked up again
OpenOrAborted ==
    {t \in TxIds : journals[t] # None /\ journals[t].state # "COMMITTED"}

Open ==
    {t \in TxIds : journals[t] # None /\ journals[t].state \in {"PREPARED", "AUDIT_PENDING"}}

\* mutant: no head is not the old head of a first revision
MatchesOldHeadOnly(h, j) == h # NoHead /\ h.revision = j.expected /\ h.content = j.base

\* _matches_old_head and _matches_new_head, by revision and digest
MatchesOld(h, j) ==
    \/ j.expected = 0 /\ h = NoHead
    \/ h # NoHead /\ h.revision = j.expected /\ h.content = j.base
MatchesNew(h, j) == h # NoHead /\ h.revision = j.expected + 1 /\ h.content = j.content

\* mutant: recovery looks for the new content under the old revision
SnapshotOfExpected(j) == StoredAs(j.project, j.expected, j.content)

\* read_snapshot of the address a journal promised to write
SnapshotOf(j) == StoredAs(j.project, j.expected + 1, j.content)

\* "unrecoverable project transaction": the head is neither old nor new
Unresolvable(j) ==
    /\ ~MatchesOld(Loaded[j.project], j)
    /\ SnapshotOf(j) # {} => ~MatchesNew(Loaded[j.project], j)

\* the recovery of one journal, oldest first: abort without a snapshot, roll
\* the head forward with one, give up when the head is neither old nor new
Recover ==
    /\ phase = "recovering" /\ stage = "free"
    /\ \E t \in Open :
        LET j    == journals[t]
            h    == Loaded[j.project]
            Snap == SnapshotOf(j)
            Work(s, v) ==
                /\ stage' = s
                /\ op' = [mode |-> "recover", user |-> None, project |-> j.project,
                          revision |-> j.expected, base |-> j.base,
                          content |-> j.content, tx |-> t, verdict |-> v]
                /\ UNCHANGED phase
        IN  /\ \A u \in Open : t <= u
            /\ \/ Snap = {} /\ MatchesOld(h, j) /\ Work("pending", "ABORTED")
               \/ Snap # {} /\ MatchesNew(h, j) /\ Work("verify", "COMMITTED")
               \/ /\ Snap # {} /\ ~MatchesNew(h, j) /\ MatchesOld(h, j)
                  /\ Work("head", "COMMITTED")
               \/ Unresolvable(j) /\ phase' = "stuck" /\ UNCHANGED <<stage, op>>
    /\ memHeads' = Loaded
    /\ UNCHANGED <<durable, saving, client, acked, bounds>>

RecoveryDone ==
    /\ phase = "recovering" /\ stage = "free"
    /\ Open = {}
    /\ phase' = "up"
    /\ UNCHANGED <<durable, memHeads, saving, client, stage, op, acked, bounds>>

-----------------------------------------------------------------------------
ClientNext ==
    \E u \in Users :
        \/ \E p \in Projects :
              \/ \E c \in Contents : MakePreview(u, p, c)
              \/ DropPreview(u, p) \/ RequestApply(u, p) \/ Delete(u, p)
        \/ \E s \in snaps : RequestRollback(u, s)

LockNext == (\E u \in Users : Begin(u) \/ Conflict(u)) \/ Recheck \/ Deny

CommitNext ==
    \/ WriteBackup \/ WritePrepared \/ WriteSnapshot \/ WriteHead \/ VerifyHead
    \/ MarkPending \/ AppendAudit \/ WriteFinal

FaultNext == WriteFails \/ HeadFails \/ LandFails \/ AuditFails

RecoveryNext == Load \/ Recover \/ RecoveryDone

Next ==
    \/ ClientNext \/ LockNext \/ CommitNext \/ LandHeads
    \/ FaultNext \/ RecoveryNext \/ Crash

Spec == Init /\ [][Next]_vars

\* The event loop keeps running tasks, the executor finishes its writes and
\* the lock is handed over in order of arrival; nothing forces a client to
\* ask, a crash, a fault or the reload of a failed setup.  A host that went
\* down is started again.
Fairness ==
    /\ WF_vars(LockNext) /\ WF_vars(CommitNext) /\ WF_vars(LandHeads)
    /\ WF_vars(phase = "down" /\ Load) /\ WF_vars(Recover \/ RecoveryDone)

FairSpec == Spec /\ Fairness

-----------------------------------------------------------------------------
TypeOK ==
    /\ heads \in HeadMap /\ memHeads \in HeadMap
    /\ snaps \subseteq Snapshot
    /\ journals \in [TxIds -> Journal \cup {None}]
    /\ audit \in Seq(Event)
    /\ saving \in Seq(Save)
    /\ previews \in [Users -> [Projects -> Preview \cup {None}]]
    /\ request \in [Users -> Request \cup {None}]
    /\ waiting \in Seq(Users)
    /\ stage \in Stages
    /\ op \in Op \cup {None}
    /\ phase \in Phases
    /\ acked \subseteq TxIds
    /\ crashes \in 0..MaxCrashes /\ faults \in 0..MaxFaults /\ deletes \in 0..MaxDeletes

\* An address in the snapshot store is never taken over by a second
\* transaction, so what a receipt or a rollback names cannot change under it
\* (put_snapshot's immutability, across retries, crashes and pruning).
SnapshotsImmutable ==
    \A a, b \in snaps :
        a.project = b.project /\ a.revision = b.revision /\ a.content = b.content => a = b

\* Whatever head a crash leaves on disk, the very snapshot it was built from is
\* still retained: without it _commit refuses every further mutation of the
\* project ("active project backup snapshot is missing").
HeadIsRestorable ==
    \A p \in Projects : heads[p] # NoHead =>
        \E s \in snaps : s.project = p /\ HeadFrom(s) = heads[p]

\* The audit tells the journal's story: one event per transaction, with the
\* verdict the journal ends in, and present for every finished journal until
\* max_audit newer events push it out -- however often recovery repeats it.
AuditFaithful ==
    /\ \A i, j \in DOMAIN audit : audit[i].tx = audit[j].tx => i = j
    /\ \A i \in DOMAIN audit :
          LET j == journals[audit[i].tx] IN
          j # None /\ j.final = IF audit[i].result = "aborted" THEN "ABORTED" ELSE "COMMITTED"
    /\ \A t \in TxIds :
          journals[t] # None /\ journals[t].state \in {"COMMITTED", "ABORTED"} =>
              Recorded(t) \/ Len(audit) = MaxAudit

\* A committed receipt survives everything: after any crash and recovery the
\* revision it reported is still the project's, with the content it reported,
\* until a later revision is built on it -- or a project is deleted.
ReceiptsSurvive ==
    deletes = 0 => \A t \in acked :
        LET j == journals[t] IN
        /\ j # None /\ j.final = "COMMITTED"
        /\ heads[j.project] # NoHead
        /\ heads[j.project].revision > j.expected
        /\ heads[j.project].revision = j.expected + 1 =>
               heads[j.project].content = j.content

\* An aborted transaction is invisible: neither a head nor a snapshot of it
\* exists, so no client can read or roll back to what the audit calls aborted.
\* A delete in the middle of a commit makes recovery take a head for the old one.
AbortedLeaveNoTrace ==
    deletes = 0 => \A t \in TxIds : journals[t] # None /\ journals[t].final = "ABORTED" =>
        /\ \A p \in Projects : heads[p] # NoHead => heads[p].tx # t
        /\ \A s \in snaps : s.tx = t => s.revision = 0

\* Recovery can resolve whatever a crash left behind: async_recover never
\* meets a head that is neither the old nor the new one of an open journal.
RecoveryNeverStuck ==
    phase = "recovering" /\ stage = "free" /\ Open # {} =>
        ~Unresolvable(journals[CHOOSE t \in Open : \A u \in Open : t <= u])

\* No lost update: a head is only ever replaced by the next revision, written
\* for a journaled transaction whose base is exactly the head it replaces --
\* until a delete, which takes neither the lock nor a journal.
HeadsAdvance ==
    [][deletes' = 0 => \A p \in Projects : heads'[p] # heads[p] /\ heads'[p] # NoHead =>
          \E t \in TxIds :
              /\ journals[t] # None /\ journals[t].project = p
              /\ journals[t].state = "PREPARED"
              /\ MatchesOld(heads[p], journals[t])
              /\ MatchesNew(heads'[p], journals[t])]_vars

\* a transaction later than the head on disk found its project without one
StartedAnew(p) ==
    \E t \in TxIds : /\ t > heads[p].tx
                     /\ journals[t] # None
                     /\ journals[t].project = p /\ journals[t].expected = 0

\* The two copies of the heads store never take a project back.  A delete that
\* races a commit and the re-read of a stale file may bring a head back; but as
\* long as no write failed, what replaces a head is its next revision, or the
\* first one of a transaction that found the project deleted, whoever issued the
\* save and in whatever order saves were issued, merged or cut off by a crash.
\* A failed commit leaves its head in memory, from where a delete may carry it
\* to the file and a later commit write over it; unless heads saves get lost,
\* what a client was told is committed gives way to a later revision only, even
\* then, or to what came after a delete.
HeadsNeverRegress ==
    [][\A p \in Projects :
          heads[p] # NoHead /\ heads'[p] \notin {NoHead, heads[p]} =>
              /\ faults = 0 =>
                    \/ heads'[p].revision = heads[p].revision + 1
                    \/ heads'[p].revision = 1 /\ StartedAnew(p)
              /\ heads[p].tx \in acked /\ "landing" \notin FaultyStages =>
                    heads'[p].revision > heads[p].revision \/ StartedAnew(p)]_vars

\* What is saved for one project does not bring back another that was deleted
\* ("no direct unjournaled delete", "no last-writer-wins path anywhere").
DeletedStayDeleted ==
    [][\A p \in Projects : heads[p] = NoHead /\ heads'[p] # NoHead =>
          op # None /\ op.project = p]_vars

\* Everyone who asked is answered, or was cut off by a crash: no exception
\* keeps the lock and no save is forgotten.
RequestsAnswered == \A u \in Users : request[u] # None ~> request[u] = None

\* Recovery comes to an end: every open journal is closed and the integration
\* available, or the setup is reported as failed; it never spins or hangs.
RecoveryTerminates == phase = "recovering" ~> phase # "recovering"

-----------------------------------------------------------------------------
(* Refinement: what the protocol promises is VersionedProjects.            *)

Outcome(t) ==
    LET j == journals[t] IN
    CASE j = None                -> "open"
      [] j # None /\ j.final = "ABORTED" -> "aborted"
      [] j # None /\ j.final # "ABORTED" ->
            IF j.final = "COMMITTED" \/ MatchesNew(heads[j.project], j)
            THEN "committed" ELSE "open"

Abstract == INSTANCE VersionedProjects WITH
    head    <- heads,
    outcome <- [t \in TxIds |-> Outcome(t)],
    told    <- acked,
    log     <- {audit[i] : i \in DOMAIN audit}

ImplementsVersionedProjects == Abstract!Spec

=============================================================================
