--------------------- MODULE TransactionRecovery_proofs ---------------------
(***************************************************************************)
(* What crashes alone can do: as long as no Store write fails and no       *)
(* project is deleted, recovery always finds a head it can make sense of   *)
(* and the head on disk keeps its snapshot.  A failing write breaks both,  *)
(* since the journal it leaves open stays open while later commits go on;  *)
(* what crashes leave is one open journal at most, and RecoveryInv says    *)
(* what it, the heads and the snapshots are then.                          *)
(*                                                                         *)
(* From the same facts the coordinator implements VersionedProjects: every *)
(* step of the protocol, of a crash or of a recovery is a step of the      *)
(* versioned register or changes nothing of it.  A commit takes effect     *)
(* when the new head reaches the disk, whoever gets it there, the          *)
(* transaction or the recovery after it; the rest is what keeps this the   *)
(* only moment.                                                            *)
(***************************************************************************)
EXTENDS TransactionHistory_proofs, FiniteSetTheorems

Calm == faults = 0 /\ deletes = 0

\* One journal is open at most; while the integration is up it is the journal
\* of the transaction at work.
OneOpen ==
    \A t \in Open :
        /\ \A u \in Open : t = u
        /\ phase = "up" => stage \in Journaled /\ op.tx = t

\* The head of an open journal's project is the old one or the new one.
Resolvable ==
    \A t \in Open :
        LET j == journals[t] IN
        MatchesOld(heads[j.project], j) \/ MatchesNew(heads[j.project], j)

\* No snapshot is ahead of its project's head but the one being committed.
SnapshotsUpTo ==
    \A s \in snaps :
        \/ s.revision <= RevisionOf(heads[s.project])
        \/ \E t \in Open : s.tx = t /\ s \in SnapshotOf(journals[t])

OnePerRevision ==
    \A a, b \in snaps : a.project = b.project /\ a.revision = b.revision => a = b

BackupsEmpty == \A s \in snaps : s.revision = 0 => s.content = Empty

StageInv ==
    /\ stage = "backup" => heads[op.project] = NoHead /\ op.base = Empty
    /\ stage = "snapshot" => SnapshotOf(Own) = {}
    /\ stage = "verify" => MatchesNew(heads[op.project], Own)

Recoverable ==
    /\ OneOpen /\ Resolvable /\ SnapshotsUpTo /\ OnePerRevision /\ BackupsEmpty
    /\ StageInv /\ HeadIsRestorable

RecoveryInv == Calm => Recoverable

-----------------------------------------------------------------------------
(* Lemmas *)

LEMMA CalmBefore ==
  ASSUME TypeOK, [Next]_vars, Calm'
  PROVE  /\ Calm /\ \A u \in Users, p \in Projects : ~Delete(u, p)
         /\ ~WriteFails /\ ~HeadFails /\ ~LandFails /\ ~AuditFails
<1> USE DEF durable, client, bounds
<1>1. faults \in Nat /\ deletes' = 0 /\ faults' = 0
  BY BoundsAssumption DEF TypeOK, Calm
<1>2. deletes = 0 /\ \A u \in Users, p \in Projects : ~Delete(u, p)
  BY <1>1, BeforeDelete
<1>3. ~WriteFails /\ ~HeadFails /\ ~LandFails /\ ~AuditFails
  BY <1>1 DEF WriteFails, HeadFails, LandFails, AuditFails, Fails
<1>4. faults' = faults
  BY <1>2, <1>3 DEF Next, ClientNext, LockNext, CommitNext, FaultNext, RecoveryNext, vars,
     MakePreview, DropPreview, RequestApply, RequestRollback, Enqueue, Begin, Conflict,
     Recheck, Deny, WriteBackup, WritePrepared, WriteSnapshot, WriteHead, LandHeads,
     VerifyHead, MarkPending, AppendAudit, WriteFinal, Crash, Load, Recover, RecoveryDone
<1> QED BY <1>1, <1>2, <1>3, <1>4 DEF Calm

\* Pruning keeps the snapshot just written and the newest one before it, and
\* does not touch the other projects.
LEMMA PruneKeeps ==
  ASSUME snaps \subseteq Snapshot, NEW n \in Snapshot, PutSnapshot(n), OnePerRevision,
         \A r \in snaps : r.project = n.project => r.revision < n.revision
  PROVE  /\ n \in snaps'
         /\ \A s \in snaps : s.project # n.project => s \in snaps'
         /\ \A s \in snaps :
               (\A r \in snaps : r.project = n.project => r.revision <= s.revision)
                  => s \in snaps'
<1> DEFINE S == snaps \cup {n}
           Ahead(s) == {r \in S : r.project = n.project /\ Newer(r, s)}
<1>1. snaps' = Pruned(S, n.project)
  BY DEF PutSnapshot
<1>2. \A s \in S : s.revision \in Nat /\ s.tx \in Nat
  BY DEF Snapshot, Revisions, TxIds
<1>3. ASSUME NEW s \in S, s.project = n.project => Cardinality(Ahead(s)) < MaxVersions
      PROVE  s \in snaps'
  BY <1>1, <1>3 DEF Pruned
<1>4. MaxVersions \in Nat /\ MaxVersions > 1
  BY BoundsAssumption
<1>5. n \in snaps'
  <2>1. \A r \in S : r.project = n.project => r.revision < n.revision \/ r = n
    OBVIOUS
  <2>2. \A r \in S : ~(r.project = n.project /\ Newer(r, n))
    BY <1>2, <2>1 DEF Newer
  <2>3. Ahead(n) = {}
    BY <2>2
  <2>4. Cardinality(Ahead(n)) = 0
    BY <2>3, FS_EmptySet
  <2> QED BY <1>3, <1>4, <2>4
<1>6. ASSUME NEW s \in snaps, s.project # n.project
      PROVE  s \in snaps'
  BY <1>3, <1>6
<1>7. ASSUME NEW s \in snaps,
             \A r \in snaps : r.project = n.project => r.revision <= s.revision
      PROVE  s \in snaps'
  <2>1. CASE s.project = n.project
    <3>1. ASSUME NEW r \in snaps, r.project = n.project, Newer(r, s)
          PROVE  FALSE
      <4>1. r.revision <= s.revision /\ r.revision \in Nat /\ s.revision \in Nat
            /\ r.tx \in Nat
        BY <1>2, <1>7, <3>1
      <4>2. r.revision = s.revision /\ r.tx > s.tx
        BY <3>1, <4>1 DEF Newer
      <4>3. r = s
        BY <2>1, <3>1, <4>2 DEF OnePerRevision
      <4> QED BY <4>1, <4>2, <4>3
    <3>2. Ahead(s) \subseteq {n}
      BY <3>1
    <3>3. IsFiniteSet({n}) /\ Cardinality({n}) = 1
      BY FS_Singleton
    <3>4. Cardinality(Ahead(s)) <= 1 /\ Cardinality(Ahead(s)) \in Nat
      BY <3>2, <3>3, FS_Subset, FS_CardinalityType
    <3> QED BY <1>3, <1>4, <3>4
  <2>2. CASE s.project # n.project
    BY <1>6, <2>2
  <2> QED BY <2>1, <2>2
<1> QED BY <1>5, <1>6, <1>7

\* While a snapshot is being written its revision is the first beyond the head.
LEMMA BeyondHead ==
  ASSUME IndInv, HolderInv, BaseInv, JournalInv, OneOpen, SnapshotsUpTo, StageInv,
         stage \in {"backup", "prepare", "snapshot"}
  PROVE  /\ op.revision \in Nat /\ RevisionOf(heads[op.project]) = op.revision
         /\ \A s \in snaps : s.project = op.project => s.revision <= op.revision
<1>1. op \in Op /\ op.revision \in Nat /\ op.project \in Projects
  BY DEF IndInv, LockInv, Op, Revisions
<1>2. RevisionOf(heads[op.project]) = op.revision
  BY DEF BaseInv, MatchesOld, RevisionOf
<1>3. ASSUME NEW s \in snaps, s.project = op.project, NEW t \in Open,
             s \in SnapshotOf(journals[t])
      PROVE  FALSE
  <2>1. phase = "up"
    BY DEF HolderInv
  <2>2. stage = "snapshot" /\ t = op.tx
    BY <2>1 DEF OneOpen, Journaled
  <2> QED BY <1>3, <2>2 DEF StageInv, Own
<1> QED BY <1>1, <1>2, <1>3 DEF SnapshotsUpTo

\* What WriteSnapshot and WriteBackup write is new, and is kept.
LEMMA SnapshotWritten ==
  ASSUME IndInv, BackupInv, HolderInv, BaseInv, JournalInv, Recoverable, WriteSnapshot
  PROVE  /\ Stored = {} /\ PutSnapshot(NewSnapshot) /\ NewSnapshot \in Snapshot
         /\ NewSnapshot \in snaps' /\ stage' = "head" /\ op' = op /\ phase' = phase
         /\ snaps' \subseteq snaps \cup {NewSnapshot}
         /\ \A s \in snaps : s.project = op.project => s.revision < NewSnapshot.revision
<1>1. stage = "snapshot" /\ op \in Op /\ snaps \subseteq Snapshot
  BY DEF WriteSnapshot, IndInv, TypeOK, LockInv
<1>2. Stored = {}
  <2>1. SnapshotOf(Own) = {} /\ Own.project = op.project /\ Own.expected = op.revision
        /\ Own.content = op.content
    BY <1>1 DEF Recoverable, StageInv, HolderInv, Journaled
  <2> QED BY <2>1 DEF SnapshotOf, Stored
<1>3. PutSnapshot(NewSnapshot) /\ NewSnapshot \in Snapshot
  BY <1>1, <1>2, NewSnapshotType DEF WriteSnapshot
<1>4. \A s \in snaps : s.project = op.project => s.revision < NewSnapshot.revision
  <2>1. /\ op.revision \in Nat
        /\ \A s \in snaps : s.project = op.project => s.revision <= op.revision
    BY <1>1, BeyondHead DEF Recoverable
  <2>2. \A s \in snaps : s.revision \in Nat
    BY <1>1 DEF Snapshot, Revisions
  <2> QED BY <2>1, <2>2 DEF NewSnapshot
<1>5. NewSnapshot.project = op.project
  BY DEF NewSnapshot
<1>6. NewSnapshot \in snaps'
  BY <1>1, <1>3, <1>4, <1>5, PruneKeeps DEF Recoverable
<1>7. stage' = "head" /\ op' = op /\ phase' = phase
  BY <1>2, <1>6 DEF WriteSnapshot
<1> QED BY <1>2, <1>3, <1>4, <1>6, <1>7, PutSnapshotType DEF IndInv

LEMMA BackupWritten ==
  ASSUME IndInv, BackupInv, HolderInv, BaseInv, JournalInv, Recoverable, WriteBackup
  PROVE  LET b == [project |-> op.project, revision |-> 0, content |-> op.base,
                   tx |-> op.tx] IN
         /\ PutSnapshot(b) /\ b \in Snapshot /\ snaps' \subseteq snaps \cup {b}
         /\ b.content = Empty /\ heads[op.project] = NoHead
         /\ \A s \in snaps : s.project # op.project
<1> DEFINE b == [project |-> op.project, revision |-> 0, content |-> op.base, tx |-> op.tx]
<1>1. stage = "backup" /\ op \in Op /\ snaps \subseteq Snapshot /\ PutSnapshot(b)
  BY DEF WriteBackup, IndInv, TypeOK, LockInv
<1>2. b \in Snapshot
  BY <1>1 DEF Op, Snapshot, Revisions
<1>3. heads[op.project] = NoHead /\ op.base = Empty
  BY <1>1 DEF Recoverable, StageInv
<1>4. ASSUME NEW s \in snaps, s.project = op.project
      PROVE  FALSE
  <2>1. s.revision <= op.revision /\ op.revision = 0
    BY <1>1, <1>3, <1>4, BeyondHead DEF Recoverable, RevisionOf
  <2>2. s.revision = 0
    BY <1>1, <2>1 DEF Snapshot, Revisions
  <2>3. s.content = Empty
    BY <2>2 DEF Recoverable, BackupsEmpty
  <2> QED BY <1>1, <1>3, <1>4, <2>2, <2>3 DEF BackupInv, StoredAs
<1> QED BY <1>1, <1>2, <1>3, <1>4, PutSnapshotType DEF IndInv

-----------------------------------------------------------------------------
(* A transaction with a journal goes on to its end, unless a crash cuts it off *)

LEMMA Proceeds ==
  ASSUME IndInv, BackupInv, History, Recoverable, [Next]_vars, stage \in Journaled,
         \A u \in Users, p \in Projects : ~Delete(u, p),
         ~WriteFails, ~HeadFails, ~LandFails, ~AuditFails
  PROVE  \/ WriteFinal
         \/ Crash
         \/ /\ op' = op /\ phase' = phase
            /\ \/ WriteSnapshot /\ stage' = "head"
               \/ WriteHead /\ stage' = "landing"
               \/ LandHeads /\ stage' = "verify"
               \/ VerifyHead /\ stage' = "pending"
               \/ MarkPending /\ stage' = "audit"
               \/ AppendAudit /\ stage' = "final"
               \/ UNCHANGED <<heads, snaps, journals, audit, memHeads, saving, stage>>
<1> USE DEF durable, client, bounds
<1>a. op \in Op /\ Own \in Journal /\ stage # "free" /\ Loaded = heads
  BY LoadedIsHeads DEF History, IndInv, LockInv, Journaled, Own
<1>1. CASE UNCHANGED vars
  BY <1>1 DEF vars
<1>2. CASE ClientNext
  BY <1>2 DEF ClientNext, MakePreview, DropPreview, RequestApply, RequestRollback, Enqueue
<1>3. ~LockNext
  BY DEF LockNext, Begin, Conflict, Recheck, Deny, Journaled
<1>4. CASE WriteSnapshot
  BY <1>4, SnapshotWritten DEF History
<1>5. CASE WriteHead \/ MarkPending
  BY <1>5 DEF WriteHead, MarkPending
<1>6. CASE LandHeads
  BY <1>6, LandsOwn DEF History
<1>7. CASE VerifyHead
  <2>1. MatchesNew(heads[op.project], Own)
    BY <1>7 DEF VerifyHead, Recoverable, StageInv
  <2>2. PICK s \in snaps : s.project = op.project /\ HeadFrom(s) = heads[op.project]
    BY <1>a, <2>1 DEF Recoverable, HeadIsRestorable, MatchesNew, Op
  <2>3. Own.expected = op.revision /\ Own.content = op.content
    BY <1>7 DEF VerifyHead, History, HolderInv, Journaled
  <2>4. heads[op.project].revision = s.revision /\ heads[op.project].content = s.content
    BY <2>2 DEF HeadFrom
  <2>5. s \in Stored
    BY <2>1, <2>2, <2>3, <2>4 DEF Stored, StoredAs, MatchesNew
  <2> QED BY <1>7, <1>a, <2>2, <2>5 DEF VerifyHead
<1>8. CASE AppendAudit
  <2>1. ASSUME NEW i \in DOMAIN audit, audit[i].tx = op.tx
        PROVE  audit[i] = EventOf(op.tx)
    <3>1. audit[i] \in Event
      BY LenProperties, ElementOfSeq DEF IndInv, TypeOK
    <3>2. Own.final = IF audit[i].result = "aborted" THEN "ABORTED" ELSE "COMMITTED"
      BY <2>1 DEF History, AuditFaithful, Own
    <3> QED BY <2>1, <3>1, <3>2 DEF Event, EventOf, Own
  <2> QED BY <1>8, <2>1 DEF AppendAudit
<1>9. CASE RecoveryNext
  <2>1. op.mode \in {"commit", "recover"}
    BY <1>a DEF Op
  <2>2. ~Load
    BY <1>a, <2>1 DEF Load, History, HolderInv
  <2> QED BY <1>9, <1>a, <2>2 DEF RecoveryNext, Recover, RecoveryDone
<1> QED BY <1>1, <1>2, <1>3, <1>4, <1>5, <1>6, <1>7, <1>8, <1>9
  DEF Next, CommitNext, FaultNext, WriteBackup, WritePrepared, Journaled

\* An open journal keeps what it is about.
LEMMA OpenKept ==
  ASSUME IndInv, HolderInv, [Next]_vars, NEW t \in Open
  PROVE  /\ t \in TxIds /\ journals[t] \in Journal /\ journals[t].project \in Projects
         /\ journals'[t].project = journals[t].project
         /\ journals'[t].expected = journals[t].expected
         /\ journals'[t].base = journals[t].base
         /\ journals'[t].content = journals[t].content
<1>1. t \in TxIds /\ journals[t] # None
  BY DEF Open
<1> QED BY <1>1, JournalKeeps DEF Journal

\* A journal is opened only by the transaction that writes it.
LEMMA Opened ==
  ASSUME IndInv, HolderInv, [Next]_vars, NEW t \in Open', t \notin Open
  PROVE  WritePrepared /\ t = op.tx
<1>1. WritePrepared
  BY JournalFrames DEF IndInv
<1>2. t \in TxIds /\ journals'[t] # journals[t]
  BY DEF Open
<1> QED BY <1>1, <1>2, JournalFrames DEF IndInv

LEMMA OneOpenStep ==
  ASSUME IndInv, IndInv', BackupInv, History, History', Recoverable, [Next]_vars,
         \A u \in Users, p \in Projects : ~Delete(u, p),
         ~WriteFails, ~HeadFails, ~LandFails, ~AuditFails
  PROVE  OneOpen'
<1>1. CASE WritePrepared
  <2>1. stage = "prepare" /\ phase = "up" /\ op' = op /\ stage' = "snapshot"
    BY <1>1 DEF WritePrepared, History, HolderInv
  <2>2. Open = {}
    BY <2>1 DEF Recoverable, OneOpen, Journaled
  <2>3. \A t \in Open' : t = op.tx
    BY <2>2, Opened DEF History
  <2> QED BY <2>1, <2>3 DEF OneOpen, Journaled
<1>2. CASE ~WritePrepared
  <2> SUFFICES ASSUME NEW t \in Open'
               PROVE  /\ \A u \in Open' : t = u
                      /\ phase' = "up" => stage' \in Journaled /\ op'.tx = t
    BY DEF OneOpen
  <2>1. Open' \subseteq Open
    BY <1>2, Opened DEF History
  <2>2. \A u \in Open' : t = u
    BY <2>1 DEF Recoverable, OneOpen
  <2>3. ASSUME phase' = "up"
        PROVE  stage' \in Journaled /\ op'.tx = t
    <3>1. phase = "up"
      BY <2>1, <2>3, Frames DEF RecoveryDone
    <3>2. stage \in Journaled /\ op.tx = t
      BY <2>1, <3>1 DEF Recoverable, OneOpen
    <3>3. ~WriteFinal
      BY <3>2, JournalFrames DEF History, IndInv
    <3>4. ~Crash
      BY <2>3 DEF Crash
    <3> QED BY <3>2, <3>3, <3>4, Proceeds DEF Journaled
  <2> QED BY <2>2, <2>3
<1> QED BY <1>1, <1>2

LEMMA ResolvableStep ==
  ASSUME IndInv, IndInv', History, Recoverable, [Next]_vars,
         \A u \in Users, p \in Projects : ~Delete(u, p)
  PROVE  Resolvable'
<1> SUFFICES ASSUME NEW t \in Open'
             PROVE  \/ MatchesOld(heads'[journals'[t].project], journals'[t])
                    \/ MatchesNew(heads'[journals'[t].project], journals'[t])
  BY DEF Resolvable, MatchesOld, MatchesNew
<1>1. CASE t \notin Open
  <2>1. WritePrepared /\ t = op.tx
    BY <1>1, Opened DEF History
  <2>2. stage = "prepare" /\ op.tx \in TxIds /\ heads' = heads
    BY <2>1 DEF WritePrepared, IndInv, LockInv, Op
  <2>3. journals'[t].project = op.project /\ journals'[t].expected = op.revision
        /\ journals'[t].base = op.base
    BY <2>1, <2>2 DEF WritePrepared, IndInv, TypeOK
  <2> QED BY <2>2, <2>3 DEF History, BaseInv, MatchesOld
<1>2. CASE t \in Open
  <2>1. /\ journals'[t].project = journals[t].project /\ journals[t].project \in Projects
        /\ journals'[t].expected = journals[t].expected
        /\ journals'[t].base = journals[t].base /\ journals'[t].content = journals[t].content
    BY <1>2, OpenKept DEF History
  <2>2. CASE heads'[journals[t].project] = heads[journals[t].project]
    BY <1>2, <2>1, <2>2 DEF Recoverable, Resolvable, MatchesOld, MatchesNew
  <2>3. CASE heads'[journals[t].project] # heads[journals[t].project]
    <3>1. Own.state = "PREPARED" /\ Own # None /\ op.tx \in TxIds
          /\ MatchesNew(heads'[journals[t].project], Own)
      BY <2>1, <2>3, AdvanceStep
    <3>2. op.tx \in Open
      BY <3>1 DEF Open, Own
    <3>3. journals[t] = Own
      BY <1>2, <3>2 DEF Recoverable, OneOpen, Own
    <3> QED BY <2>1, <3>1, <3>3 DEF MatchesNew
  <2> QED BY <2>2, <2>3
<1> QED BY <1>1, <1>2

\* Heads only move up.
LEMMA RevisionsGrow ==
  ASSUME IndInv, IndInv', History, [Next]_vars, NEW p \in Projects
  PROVE  /\ RevisionOf(heads[p]) \in Nat /\ RevisionOf(heads'[p]) \in Nat
         /\ RevisionOf(heads[p]) <= RevisionOf(heads'[p])
<1>1. heads[p] \in HeadRec \cup {NoHead} /\ heads'[p] \in HeadRec \cup {NoHead}
  BY DEF IndInv, TypeOK, HeadMap
<1>2. RevisionOf(heads[p]) \in Nat /\ RevisionOf(heads'[p]) \in Nat
  BY <1>1, HeadFields DEF Revisions
<1>3. CASE heads'[p] = heads[p]
  BY <1>2, <1>3
<1>4. CASE heads'[p] # heads[p]
  <2>1. /\ op.tx \in TxIds /\ Own # None
        /\ MatchesOld(heads[p], Own) /\ MatchesNew(heads'[p], Own)
    BY <1>4, AdvanceStep
  <2>2. Own.expected \in Nat
    BY <2>1 DEF Own, IndInv, TypeOK, Journal, Revisions
  <2>3. RevisionOf(heads[p]) = Own.expected /\ RevisionOf(heads'[p]) = Own.expected + 1
    BY <2>1 DEF MatchesOld, MatchesNew, RevisionOf
  <2> QED BY <2>2, <2>3
<1> QED BY <1>2, <1>3, <1>4

LEMMA SnapshotsUpToStep ==
  ASSUME IndInv, IndInv', BackupInv, History, Recoverable, [Next]_vars
  PROVE  SnapshotsUpTo'
<1> SUFFICES ASSUME NEW s \in snaps'
             PROVE  \/ s.revision <= RevisionOf(heads'[s.project])
                    \/ \E t \in Open' : s.tx = t /\ s \in SnapshotOf(journals[t])'
  BY DEF SnapshotsUpTo, RevisionOf
<1>a. s.project \in Projects /\ s.revision \in Nat
  BY DEF IndInv, TypeOK, Snapshot, Revisions
<1>b. /\ RevisionOf(heads[s.project]) \in Nat /\ RevisionOf(heads'[s.project]) \in Nat
      /\ RevisionOf(heads[s.project]) <= RevisionOf(heads'[s.project])
  BY <1>a, RevisionsGrow
<1>1. CASE s \notin snaps
  <2>1. /\ journals' = journals
        /\ s.revision = 0 \/ (stage = "snapshot" /\ s = NewSnapshot)
    BY <1>1, SnapshotAdded DEF History
  <2>2. CASE s.revision = 0
    BY <1>b, <2>2
  <2>3. CASE stage = "snapshot" /\ s = NewSnapshot
    <3>1. /\ Own \in Journal /\ Own.state = "PREPARED" /\ op.tx \in TxIds
          /\ Own.project = op.project /\ Own.expected = op.revision
          /\ Own.content = op.content
      BY <2>3 DEF History, HolderInv, Journaled, IndInv, LockInv, Own, Op
    <3>2. PICK t \in TxIds : t = op.tx
      BY <3>1
    <3>3. t \in Open'
      BY <2>1, <3>1, <3>2, SentinelAssumption DEF Open, Own
    <3>4. s.tx = t /\ s \in SnapshotOf(journals[t])'
      BY <2>1, <2>3, <3>1, <3>2 DEF SnapshotOf, StoredAs, NewSnapshot, Own
    <3> QED BY <3>3, <3>4
  <2> QED BY <2>1, <2>2, <2>3
<1>2. CASE s \in snaps /\ s.revision <= RevisionOf(heads[s.project])
  BY <1>a, <1>b, <1>2
<1>3. ASSUME s \in snaps, NEW t \in Open, s.tx = t, s \in SnapshotOf(journals[t])
      PROVE  \/ s.revision <= RevisionOf(heads'[s.project])
             \/ \E u \in Open' : s.tx = u /\ s \in SnapshotOf(journals[u])'
  <2>1. CASE t \in Open'
    <3>1. /\ journals'[t].project = journals[t].project
          /\ journals'[t].expected = journals[t].expected
          /\ journals'[t].content = journals[t].content
      BY OpenKept DEF History
    <3>2. s \in SnapshotOf(journals[t])'
      BY <1>3, <3>1 DEF SnapshotOf, StoredAs
    <3> QED BY <1>3, <2>1, <3>2
  <2>2. CASE t \notin Open'
    <3>1. WriteFinal /\ t = op.tx
      <4>1. ~WritePrepared
        BY <2>2, OpenKept, JournalFrames DEF WritePrepared, History, HolderInv, Own, Open, IndInv
      <4> QED BY <2>2, <4>1, JournalFrames DEF History, IndInv
    <3>2. /\ stage = "final" /\ op.verdict \in {"COMMITTED", "ABORTED"}
          /\ s \in SnapshotOf(Own) /\ Own.project = op.project /\ Own \in Journal
      BY <1>3, <3>1, Marks DEF WriteFinal, Own, History, HolderInv, Journaled
    <3>3. MatchesNew(heads[op.project], Own)
      BY <3>2 DEF History, DecidedInv, Decided
    <3>4. s.revision = RevisionOf(heads[s.project])
      BY <3>2, <3>3 DEF MatchesNew, SnapshotOf, StoredAs, RevisionOf
    <3> QED BY <1>a, <1>b, <3>4
  <2> QED BY <2>1, <2>2
<1> QED BY <1>1, <1>2, <1>3 DEF Recoverable, SnapshotsUpTo

LEMMA OnePerRevisionStep ==
  ASSUME IndInv, BackupInv, History, Recoverable, [Next]_vars
  PROVE  OnePerRevision' /\ BackupsEmpty'
<1>a. \A s \in snaps : s.revision \in Nat /\ s.project \in Projects
  BY DEF IndInv, TypeOK, Snapshot, Revisions
<1>1. CASE WriteSnapshot
  <2>1. /\ snaps' \subseteq snaps \cup {NewSnapshot}
        /\ \A s \in snaps : s.project = op.project => s.revision < NewSnapshot.revision
        /\ NewSnapshot \in Snapshot
    BY <1>1, SnapshotWritten DEF History
  <2>2. NewSnapshot.project = op.project /\ NewSnapshot.revision # 0
    <3>1. op.revision \in Nat
      BY <1>1 DEF WriteSnapshot, IndInv, LockInv, Op, Revisions
    <3> QED BY <3>1 DEF NewSnapshot
  <2>3. \A s \in snaps : s.project = NewSnapshot.project => s.revision # NewSnapshot.revision
    <3>1. NewSnapshot.revision \in Nat
      BY <2>1 DEF Snapshot, Revisions
    <3> QED BY <1>a, <2>1, <2>2, <3>1
  <2> QED BY <2>1, <2>2, <2>3 DEF Recoverable, OnePerRevision, BackupsEmpty
<1>2. CASE WriteBackup
  <2> DEFINE b == [project |-> op.project, revision |-> 0, content |-> op.base,
                   tx |-> op.tx]
  <2>1. /\ snaps' \subseteq snaps \cup {b} /\ b.content = Empty
        /\ \A s \in snaps : s.project # b.project
    BY <1>2, BackupWritten DEF History
  <2> QED BY <2>1 DEF Recoverable, OnePerRevision, BackupsEmpty
<1>3. CASE ~WriteSnapshot /\ ~WriteBackup
  <2>1. snaps' = snaps
    BY <1>3, Frames
  <2> QED BY <2>1 DEF Recoverable, OnePerRevision, BackupsEmpty
<1> QED BY <1>1, <1>2, <1>3

LEMMA RestorableStep ==
  ASSUME IndInv, IndInv', BackupInv, History, Recoverable, [Next]_vars
  PROVE  HeadIsRestorable'
<1> SUFFICES ASSUME NEW p \in Projects, heads'[p] # NoHead
             PROVE  \E s \in snaps' : s.project = p /\ HeadFrom(s) = heads'[p]
  BY DEF HeadIsRestorable, HeadFrom
<1>1. CASE heads'[p] # heads[p]
  <2>1. LandHeads
    BY <1>1, Frames
  <2>2. /\ stage = "landing" /\ snaps' = snaps
        /\ \E s \in Stored : heads' = [heads EXCEPT ![op.project] = HeadFrom(s)]
    BY <2>1, LandsOwn DEF History
  <2>3. PICK s \in Stored : heads' = [heads EXCEPT ![op.project] = HeadFrom(s)]
    BY <2>2
  <2>4. p = op.project /\ heads'[p] = HeadFrom(s)
    BY <1>1, <2>3 DEF IndInv, TypeOK, HeadMap
  <2> QED BY <2>2, <2>4, StoredIs
<1>2. CASE heads'[p] = heads[p]
  <2>1. PICK s \in snaps : s.project = p /\ HeadFrom(s) = heads[p]
    BY <1>2 DEF Recoverable, HeadIsRestorable
  <2>2. s \in snaps'
    <3>1. CASE WriteSnapshot
      <4>1. /\ PutSnapshot(NewSnapshot) /\ NewSnapshot \in Snapshot
            /\ NewSnapshot.project = op.project
            /\ \A r \in snaps : r.project = op.project => r.revision < NewSnapshot.revision
        BY <3>1, SnapshotWritten DEF History, NewSnapshot
      <4>2. s.project = op.project =>
               \A r \in snaps : r.project = op.project => r.revision <= s.revision
        <5>1. /\ RevisionOf(heads[op.project]) = op.revision
              /\ \A r \in snaps : r.project = op.project => r.revision <= op.revision
          BY <3>1, BeyondHead DEF WriteSnapshot, History, Recoverable
        <5>2. s.project = op.project => s.revision = op.revision
          BY <1>2, <2>1, <5>1 DEF RevisionOf, HeadFrom
        <5> QED BY <5>1, <5>2
      <4> QED BY <4>1, <4>2, PruneKeeps DEF Recoverable, IndInv, TypeOK
    <3>2. CASE WriteBackup
      <4> DEFINE b == [project |-> op.project, revision |-> 0, content |-> op.base,
                       tx |-> op.tx]
      <4>1. /\ PutSnapshot(b) /\ b \in Snapshot
            /\ \A r \in snaps : r.project # b.project
        BY <3>2, BackupWritten DEF History
      <4> HIDE DEF b
      <4> QED BY <4>1, PruneKeeps DEF Recoverable, IndInv, TypeOK
    <3>3. CASE ~WriteSnapshot /\ ~WriteBackup
      BY <3>3, Frames
    <3> QED BY <3>1, <3>2, <3>3
  <2> QED BY <1>2, <2>1, <2>2
<1> QED BY <1>1, <1>2

LEMMA StageStep ==
  ASSUME IndInv, IndInv', BackupInv, History, History', Recoverable, [Next]_vars,
         \A u \in Users, p \in Projects : ~Delete(u, p),
         ~WriteFails, ~HeadFails, ~LandFails, ~AuditFails
  PROVE  StageInv'
<1> USE DEF IndInv
<1>a. Loaded = heads /\ (stage' # "free" => ~Raise)
  BY LoadedIsHeads DEF History, Raise, Release
<1>1. CASE stage' \notin {"backup", "snapshot", "verify"}
  BY <1>1 DEF StageInv
<1>2. ASSUME stage' \in {"backup", "snapshot", "verify"}, NEW u \in Users, Begin(u)
      PROVE  FALSE
  BY <1>2 DEF Begin
<1>3. CASE stage' \in {"backup", "snapshot", "verify"} /\ Recover
  <2>1. stage' = "verify"
    BY <1>3 DEF Recover
  <2>2. PICK t \in Open : op'.tx = t /\ op'.project = journals[t].project
          /\ MatchesNew(Loaded[journals[t].project], journals[t])
    BY <1>3, <2>1 DEF Recover
  <2>3. heads' = heads /\ journals' = journals
    BY <1>3 DEF Recover, durable
  <2> QED BY <1>a, <2>1, <2>2, <2>3 DEF StageInv, Own
<1>4. CASE stage' \in {"backup", "snapshot", "verify"} /\ op' = op /\ Recheck
  <2>1. stage' = "backup" /\ Unmoved /\ ~BackedUp(op.project) /\ heads' = heads
    BY <1>4, <1>a DEF Recheck, durable
  <2>2. heads[op.project] = NoHead /\ op.base = Empty
    BY <1>a, <2>1 DEF Unmoved, AtBase, ContentOf
  <2> QED BY <1>4, <2>1, <2>2 DEF StageInv
<1>5. CASE op' = op /\ WritePrepared
  <2>1. stage = "prepare" /\ stage' = "snapshot" /\ snaps' = snaps /\ op.tx \in TxIds
    BY <1>5 DEF WritePrepared, LockInv, Op
  <2>2. journals'[op.tx].project = op.project /\ journals'[op.tx].expected = op.revision
    BY <1>5, <2>1 DEF WritePrepared, TypeOK
  <2>3. \A s \in snaps : s.project = op.project => s.revision # op.revision + 1
    <3>1. /\ op.revision \in Nat
          /\ \A s \in snaps : s.project = op.project => s.revision <= op.revision
      BY <2>1, BeyondHead DEF History, Recoverable
    <3>2. \A s \in snaps : s.revision \in Nat
      BY DEF TypeOK, Snapshot, Revisions
    <3> QED BY <3>1, <3>2
  <2>4. SnapshotOf(Own)' = {}
    BY <1>5, <2>1, <2>2, <2>3 DEF SnapshotOf, StoredAs, Own
  <2> QED BY <2>1, <2>4 DEF StageInv
<1>6. CASE op' = op /\ LandHeads
  <2>1. /\ stage = "landing" /\ stage' = "verify" /\ journals' = journals
        /\ \E s \in Stored : heads' = [heads EXCEPT ![op.project] = HeadFrom(s)]
    BY <1>6, LandsOwn DEF History
  <2>2. PICK s \in Stored : heads' = [heads EXCEPT ![op.project] = HeadFrom(s)]
    BY <2>1
  <2>3. heads'[op.project] = HeadFrom(s)
    BY <2>1, <2>2 DEF TypeOK, HeadMap, LockInv, Op
  <2>4. Own.expected = op.revision /\ Own.content = op.content
    BY <2>1 DEF History, HolderInv, Journaled
  <2>5. MatchesNew(heads'[op.project], Own)
    BY <2>1, <2>3, <2>4, StoredIs DEF MatchesNew
  <2> QED BY <1>6, <2>1, <2>5 DEF StageInv, Own
<1>7. CASE stage' \in {"backup", "snapshot", "verify"}
           /\ (WriteBackup \/ WriteSnapshot \/ WriteHead \/ VerifyHead \/ MarkPending \/ AppendAudit)
  BY <1>7, <1>a DEF WriteBackup, WriteSnapshot, WriteHead, VerifyHead, MarkPending, AppendAudit
<1>8. CASE UNCHANGED <<heads, snaps, journals, stage, op>>
  BY <1>8 DEF Recoverable, StageInv, Own, SnapshotOf, StoredAs
<1> QED BY <1>1, <1>2, <1>3, <1>4, <1>5, <1>6, <1>7, <1>8, Moves DEF History

-----------------------------------------------------------------------------
(* Theorems *)

LEMMA RecoveryInit == Init => Recoverable
<1> SUFFICES ASSUME Init PROVE Recoverable
  OBVIOUS
<1>1. Open = {} /\ stage = "free" /\ snaps = {}
  BY DEF Init, Open
<1> QED BY <1>1 DEF Init, Recoverable, OneOpen, Resolvable, SnapshotsUpTo, OnePerRevision,
     BackupsEmpty, StageInv, HeadIsRestorable

LEMMA RecoveryStep ==
  IndInv /\ IndInv' /\ BackupInv /\ HistoryInv /\ HistoryInv' /\ RecoveryInv /\ [Next]_vars
    => RecoveryInv'
<1> SUFFICES ASSUME IndInv, IndInv', BackupInv, HistoryInv, HistoryInv', RecoveryInv,
                    [Next]_vars, Calm'
             PROVE  Recoverable'
  BY DEF RecoveryInv
<1>1. /\ Calm /\ \A u \in Users, p \in Projects : ~Delete(u, p)
      /\ ~WriteFails /\ ~HeadFails /\ ~LandFails /\ ~AuditFails
  BY CalmBefore DEF IndInv
<1>2. History /\ History' /\ Recoverable
  BY <1>1 DEF HistoryInv, RecoveryInv, Calm
<1>3. OneOpen' /\ Resolvable' /\ SnapshotsUpTo'
  BY <1>1, <1>2, OneOpenStep, ResolvableStep, SnapshotsUpToStep
<1>4. OnePerRevision' /\ BackupsEmpty' /\ StageInv' /\ HeadIsRestorable'
  BY <1>1, <1>2, OnePerRevisionStep, StageStep, RestorableStep
<1> QED BY <1>3, <1>4 DEF Recoverable

\* As long as nothing but crashes goes wrong, one journal is open at most, the
\* head of its project is the old or the new one, and every snapshot but the
\* one being committed is of the head or of a version before it.
THEOREM RecoveryHolds == Spec => [](BackupInv /\ RecoveryInv)
<1>1. Init => BackupInv /\ RecoveryInv
  BY RecoveryInit DEF Init, BackupInv, RecoveryInv
<1>2. IndInv /\ IndInv' /\ HistoryInv /\ HistoryInv' /\ BackupInv /\ RecoveryInv /\ [Next]_vars
        => BackupInv' /\ RecoveryInv'
  BY BackupStep, RecoveryStep
<1> QED BY <1>1, <1>2, Inductive, HistoryHolds, PTL DEF Spec

\* Whatever head a crash leaves on disk, the snapshot it was built from is
\* still retained: max_versions of two are enough for every number of commits.
THEOREM HeadAlwaysRestorable ==
  Spec => [](faults = 0 /\ deletes = 0 => HeadIsRestorable)
<1>1. RecoveryInv => (faults = 0 /\ deletes = 0 => HeadIsRestorable)
  BY DEF RecoveryInv, Calm, Recoverable
<1> QED BY <1>1, RecoveryHolds, PTL

\* Recovery resolves whatever crashes leave behind, at any point of a commit or
\* of an earlier recovery.
THEOREM RecoveryResolves ==
  Spec => [](faults = 0 /\ deletes = 0 => RecoveryNeverStuck)
<1>1. IndInv /\ HistoryInv /\ RecoveryInv =>
        (faults = 0 /\ deletes = 0 => RecoveryNeverStuck)
  <2> SUFFICES ASSUME IndInv, History, Recoverable, phase = "recovering", stage = "free",
                      Open # {}
               PROVE  ~Unresolvable(journals[CHOOSE t \in Open : \A u \in Open : t <= u])
    BY DEF HistoryInv, RecoveryInv, Calm, RecoveryNeverStuck
  <2>1. PICK t \in Open : \A u \in Open : t = u
    BY DEF Recoverable, OneOpen
  <2>2. t \in TxIds /\ t <= t
    BY DEF Open, TxIds
  <2>3. (CHOOSE v \in Open : \A u \in Open : v <= u) = t
    BY <2>1, <2>2
  <2> DEFINE j == journals[t]
  <2>4. Loaded = heads
    BY LoadedIsHeads DEF History
  <2>5. j \in Journal /\ j.project \in Projects
    BY DEF Open, IndInv, TypeOK, Journal
  <2>6. ASSUME MatchesNew(heads[j.project], j)
        PROVE  SnapshotOf(j) # {}
    <3>1. PICK s \in snaps : s.project = j.project /\ HeadFrom(s) = heads[j.project]
      BY <2>5, <2>6 DEF MatchesNew, Recoverable, HeadIsRestorable
    <3>2. s \in SnapshotOf(j)
      BY <2>6, <3>1 DEF MatchesNew, SnapshotOf, StoredAs, HeadFrom
    <3> QED BY <3>2
  <2>7. ~Unresolvable(j)
    BY <2>4, <2>6 DEF Unresolvable, Recoverable, Resolvable
  <2> QED BY <2>3, <2>7
<1> QED BY <1>1, Inductive, HistoryHolds, RecoveryHolds, PTL

-----------------------------------------------------------------------------
(* The coordinator implements VersionedProjects                             *)

\* what the audit store holds, without its order
Logged == {audit[i] : i \in DOMAIN audit}

\* Everything the steps below rest on.
Refinable == IndInv /\ BackupInv /\ History /\ Recoverable

-----------------------------------------------------------------------------
(* What becomes of a transaction *)

LEMMA OutcomeIs ==
  ASSUME NEW t \in TxIds
  PROVE  /\ journals[t] = None => Outcome(t) = "open"
         /\ journals[t] # None /\ journals[t].final = "ABORTED" => Outcome(t) = "aborted"
         /\ journals[t] # None /\ journals[t].final = "COMMITTED" => Outcome(t) = "committed"
         /\ journals[t] # None /\ journals[t].final = "NONE" =>
               /\ MatchesNew(heads[journals[t].project], journals[t]) => Outcome(t) = "committed"
               /\ ~MatchesNew(heads[journals[t].project], journals[t]) => Outcome(t) = "open"
BY DEF Outcome

\* An undecided journal is the open one.
LEMMA UndecidedOpen ==
  ASSUME Refinable, NEW t \in TxIds, journals[t] # None, journals[t].final = "NONE"
  PROVE  t \in Open
<1>1. journals[t].state = "PREPARED"
  BY DEF Refinable, History, JournalInv
<1> QED BY <1>1 DEF Open

\* The outcomes are a function of the journals and of the open one's head.
LEMMA OutcomeFrame ==
  ASSUME Refinable, [Next]_vars, NEW t \in TxIds,
         journals'[t] = journals[t],
         t \in Open => heads'[journals[t].project] = heads[journals[t].project]
  PROVE  Outcome(t)' = Outcome(t)
<1>1. CASE journals[t] # None /\ journals[t].final = "NONE"
  <2>1. t \in Open
    BY <1>1, UndecidedOpen
  <2>2. heads'[journals[t].project] = heads[journals[t].project]
    BY <2>1
  <2> QED BY <1>1, <2>2 DEF Outcome, MatchesNew
<1>2. CASE ~(journals[t] # None /\ journals[t].final = "NONE")
  <2>1. journals[t] # None => journals[t].final \in {"COMMITTED", "ABORTED"}
    BY <1>2 DEF Refinable, IndInv, TypeOK, Journal
  <2> QED BY <1>2, <2>1 DEF Outcome
<1> QED BY <1>1, <1>2

-----------------------------------------------------------------------------
(* Step by step *)

\* The head reaches the disk: the transaction is committed.
LEMMA LandingCommits ==
  ASSUME Refinable, IndInv', [Next]_vars, LandHeads
  PROVE  /\ op.tx \in TxIds /\ op.project \in Projects /\ op.content \in Config
         /\ Outcome(op.tx) = "open"
         /\ \A t \in TxIds : Outcome(t)' = IF t = op.tx THEN "committed" ELSE Outcome(t)
         /\ heads' = [heads EXCEPT ![op.project] =
                        [revision |-> RevisionOf(heads[op.project]) + 1,
                         content |-> op.content, tx |-> op.tx]]
         /\ acked' = acked /\ audit' = audit
<1> USE DEF Refinable
<1>1. /\ stage = "landing" /\ UNCHANGED <<snaps, journals, audit, acked, phase, op>>
      /\ \E s \in Stored : heads' = [heads EXCEPT ![op.project] = HeadFrom(s)]
  BY LandsOwn DEF History
<1>2. PICK s \in Stored : heads' = [heads EXCEPT ![op.project] = HeadFrom(s)]
  BY <1>1
<1>3. /\ op \in Op /\ op.tx \in TxIds /\ op.project \in Projects /\ op.content \in Config
      /\ op.revision \in Nat
  BY <1>1 DEF IndInv, LockInv, Op, Revisions
<1>4. /\ Own \in Journal /\ Own # None /\ Own.state = "PREPARED" /\ Own.final = "NONE"
      /\ Own.project = op.project /\ Own.expected = op.revision /\ Own.base = op.base
      /\ Own.content = op.content
  BY <1>1, <1>3, SentinelAssumption
     DEF History, HolderInv, Journaled, JournalInv, IndInv, LockInv, Own
<1>5. op.tx \in Open
  BY <1>3, <1>4 DEF Open, Own
<1>6. MatchesOld(heads[op.project], Own) /\ heads[op.project] \in HeadRec \cup {NoHead}
  BY <1>1, <1>3, <1>4 DEF History, BaseInv, MatchesOld, IndInv, TypeOK, HeadMap
<1>7. ~MatchesNew(heads[op.project], Own)
  BY <1>4, <1>6, OldOrNew
<1>8. Outcome(op.tx) = "open"
  BY <1>3, <1>4, <1>7, OutcomeIs DEF Own
<1>9. /\ s \in snaps /\ s.project = op.project /\ s.content = op.content
      /\ s.revision = op.revision + 1 /\ HeadFrom(s) # NoHead
  BY <1>1, StoredIs
<1>10. RevisionOf(heads[op.project]) = op.revision
  BY <1>4, <1>6 DEF MatchesOld, RevisionOf
<1>11. s.tx = op.tx
  <2>1. ~(s.revision <= RevisionOf(heads[s.project]))
    BY <1>3, <1>9, <1>10
  <2>2. PICK t \in Open : s.tx = t
    BY <1>9, <2>1 DEF Recoverable, SnapshotsUpTo
  <2> QED BY <1>5, <2>2 DEF Recoverable, OneOpen
<1>12. HeadFrom(s) = [revision |-> RevisionOf(heads[op.project]) + 1,
                      content |-> op.content, tx |-> op.tx]
  BY <1>9, <1>10, <1>11 DEF HeadFrom
<1>13. MatchesNew(heads'[op.project], Own)
  <2>1. heads'[op.project] = HeadFrom(s)
    BY <1>2, <1>3 DEF IndInv, TypeOK, HeadMap
  <2> QED BY <1>4, <1>9, <2>1 DEF MatchesNew, HeadFrom
<1>14. ASSUME NEW t \in TxIds
       PROVE  Outcome(t)' = IF t = op.tx THEN "committed" ELSE Outcome(t)
  <2>1. CASE t = op.tx
    <3>1. journals'[t] = Own
      BY <1>1, <2>1 DEF Own
    <3>2. Outcome(t)' = "committed"
      BY <1>4, <1>13, <3>1 DEF Outcome, MatchesNew
    <3> QED BY <2>1, <3>2
  <2>2. CASE t # op.tx
    <3>1. t \notin Open
      BY <1>5, <2>2 DEF Recoverable, OneOpen
    <3>2. Outcome(t)' = Outcome(t)
      BY <1>1, <3>1, OutcomeFrame
    <3> QED BY <2>2, <3>2
  <2> QED BY <2>1, <2>2
<1> QED BY <1>1, <1>2, <1>3, <1>8, <1>12, <1>14

\* The verdict goes into the journal: recovery's "aborted" ends an open
\* transaction, "committed" says what the head already shows.
LEMMA MarkingDecides ==
  ASSUME Refinable, [Next]_vars, MarkPending
  PROVE  /\ op.tx \in TxIds /\ UNCHANGED <<heads, acked, audit>>
         /\ \/ /\ Outcome(op.tx) = "open"
               /\ \A t \in TxIds : Outcome(t)' = IF t = op.tx THEN "aborted" ELSE Outcome(t)
            \/ \A t \in TxIds : Outcome(t)' = Outcome(t)
<1> USE DEF Refinable
<1>1. stage = "pending" /\ UNCHANGED <<heads, acked, audit>>
  BY DEF MarkPending
<1>2. /\ op.tx \in TxIds /\ Own \in Journal /\ Own # None
      /\ op.verdict \in {"COMMITTED", "ABORTED"}
      /\ journals'[op.tx] = Marked(Own, op.verdict)
  BY Marks, SentinelAssumption
<1>3. PICK u \in TxIds : u = op.tx
  BY <1>2
<1>4. /\ journals'[u] # None /\ journals'[u].final = op.verdict /\ journals[u] = Own
  BY <1>2, <1>3, JournalMarked DEF Own
<1>5. \A t \in TxIds : t # u => Outcome(t)' = Outcome(t)
  BY <1>1, <1>3, JournalFrames, OutcomeFrame DEF History, IndInv
<1>6. Own.final \in {"NONE", op.verdict}
  BY VerdictKept DEF History
<1>7. CASE op.verdict = "COMMITTED"
  <2>1. MatchesNew(heads[Own.project], Own)
    BY <1>1, <1>7 DEF History, DecidedInv, Decided, HolderInv, Journaled
  <2>2. Outcome(u) = "committed"
    BY <1>2, <1>4, <1>6, <1>7, <2>1 DEF Outcome
  <2>3. Outcome(u)' = "committed"
    BY <1>4, <1>7 DEF Outcome
  <2> QED BY <1>1, <1>2, <1>5, <2>2, <2>3
<1>8. CASE op.verdict = "ABORTED"
  <2>1. MatchesOld(heads[Own.project], Own)
    BY <1>1, <1>8 DEF History, DecidedInv, Decided, HolderInv, Journaled
  <2>2. heads[Own.project] \in HeadRec \cup {NoHead}
    BY <1>2 DEF IndInv, TypeOK, HeadMap, Journal
  <2>3. ~MatchesNew(heads[Own.project], Own)
    BY <1>2, <2>1, <2>2, OldOrNew
  <2>4. Outcome(u)' = "aborted"
    BY <1>4, <1>8 DEF Outcome
  <2>5. Outcome(u) = IF Own.final = "ABORTED" THEN "aborted" ELSE "open"
    BY <1>2, <1>4, <1>6, <1>8, <2>3 DEF Outcome
  <2> QED BY <1>1, <1>2, <1>3, <1>5, <2>4, <2>5
<1> QED BY <1>2, <1>7, <1>8

\* The first write of a journal decides nothing.
LEMMA PreparingIsSilent ==
  ASSUME Refinable, [Next]_vars, WritePrepared
  PROVE  \A t \in TxIds : Outcome(t)' = Outcome(t)
<1> USE DEF Refinable
<1>1. stage = "prepare" /\ heads' = heads
  BY DEF WritePrepared
<1>2. /\ op.tx \in TxIds /\ op.project \in Projects /\ op.revision \in Nat
      /\ op.base \in Config /\ op.content \in Config
  BY <1>1 DEF IndInv, LockInv, Op, Revisions
<1>3. PICK u \in TxIds : u = op.tx
  BY <1>2
<1> DEFINE j == [state |-> "PREPARED", final |-> "NONE", project |-> op.project,
                 expected |-> op.revision, base |-> op.base, content |-> op.content]
<1>4. journals[u] = None /\ journals'[u] = j /\ j \in Journal
  BY <1>1, <1>2, <1>3 DEF WritePrepared, IndInv, TypeOK, History, HolderInv, Own, Journal, Revisions
<1>5. MatchesOld(heads[op.project], j) /\ heads[op.project] \in HeadRec \cup {NoHead}
  BY <1>1, <1>2 DEF History, BaseInv, MatchesOld, IndInv, TypeOK, HeadMap
<1>6. ~MatchesNew(heads[op.project], j)
  BY <1>4, <1>5, OldOrNew
<1>7. j # None /\ j.final = "NONE" /\ j.project = op.project
  BY <1>4, SentinelAssumption
<1> HIDE DEF j
<1>8. Outcome(u)' = "open"
  BY <1>1, <1>4, <1>6, <1>7 DEF Outcome, MatchesNew
<1>9. Outcome(u) = "open"
  BY <1>4 DEF Outcome
<1>10. \A t \in TxIds : t # u => Outcome(t)' = Outcome(t)
  BY <1>1, <1>3, JournalFrames, OutcomeFrame DEF History, IndInv
<1> QED BY <1>8, <1>9, <1>10

\* The last write lets the client know, and decides nothing.
LEMMA ClosingTells ==
  ASSUME Refinable, [Next]_vars, WriteFinal
  PROVE  /\ \A t \in TxIds : Outcome(t)' = Outcome(t)
         /\ UNCHANGED <<heads, audit>>
         /\ \/ acked' = acked
            \/ /\ acked' = acked \cup {op.tx} /\ op.tx \in TxIds
               /\ Outcome(op.tx) = "committed"
<1> USE DEF Refinable
<1>1. stage = "final" /\ UNCHANGED <<heads, audit>> /\ Succeed
  BY DEF WriteFinal
<1>2. /\ op.tx \in TxIds /\ Own \in Journal /\ Own # None
      /\ op.verdict \in {"COMMITTED", "ABORTED"} /\ Own.final = op.verdict
      /\ journals'[op.tx] = Closed(Own, op.verdict)
  BY <1>1, Marks, SentinelAssumption DEF History, HolderInv
<1>3. PICK u \in TxIds : u = op.tx
  BY <1>2
<1>4. /\ journals'[u] # None /\ journals'[u].final = op.verdict
      /\ journals[u] = Own /\ journals[u].final = op.verdict
  BY <1>2, <1>3, JournalClosed DEF Own
<1>5. Outcome(u)' = Outcome(u)
  BY <1>2, <1>4 DEF Outcome
<1>6. \A t \in TxIds : t # u => Outcome(t)' = Outcome(t)
  BY <1>1, <1>3, JournalFrames, OutcomeFrame DEF History, IndInv
<1>7. CASE op.mode = "commit"
  <2>1. acked' = acked \cup {op.tx}
    BY <1>1, <1>7 DEF Succeed
  <2>2. op.verdict = "COMMITTED"
    BY <1>1, <1>7 DEF History, HolderInv
  <2>3. Outcome(op.tx) = "committed"
    BY <1>2, <2>2, OutcomeIs DEF Own
  <2> QED BY <1>1, <1>2, <1>5, <1>6, <2>1, <2>3
<1>8. CASE op.mode # "commit"
  BY <1>1, <1>5, <1>6, <1>8 DEF Succeed
<1> QED BY <1>7, <1>8

\* An event says what became of its transaction.
LEMMA AuditLogs ==
  ASSUME Refinable, [Next]_vars, AppendAudit, audit' # audit
  PROVE  /\ op.tx \in TxIds /\ Outcome(op.tx) # "open"
         /\ UNCHANGED <<heads, journals, acked>>
         /\ Logged' \subseteq Logged \cup {[tx |-> op.tx, result |-> Outcome(op.tx)]}
         /\ [tx |-> op.tx, result |-> Outcome(op.tx)] \in Logged'
<1> USE DEF Refinable
<1>1. /\ stage = "audit" /\ audit' = Appended /\ ~Recorded(op.tx)
      /\ op \in Op /\ Own \in Journal
  BY AuditWritten
<1>2. UNCHANGED <<heads, journals, acked>>
  BY <1>1, Frames DEF AppendAudit, MarkPending, LandHeads, WritePrepared, WriteFinal, Raise
<1>3. /\ op.tx \in TxIds /\ Own # None /\ op.verdict \in {"COMMITTED", "ABORTED"}
      /\ Own.final = op.verdict
  BY <1>1, SentinelAssumption DEF Op, History, HolderInv
<1>4. EventOf(op.tx) = [tx |-> op.tx, result |-> Outcome(op.tx)] /\ Outcome(op.tx) # "open"
  BY <1>3, OutcomeIs DEF EventOf, Own
<1>5. /\ Len(Appended) \in Nat /\ DOMAIN Appended = 1..Len(Appended)
      /\ Len(Appended) >= 1 /\ Appended[1] = EventOf(op.tx)
      /\ \A i \in 2..Len(Appended) : i - 1 \in DOMAIN audit /\ Appended[i] = audit[i - 1]
  BY <1>1, AppendedIs DEF History, AuditInv
<1>6. ASSUME NEW i \in DOMAIN Appended
      PROVE  Appended[i] \in Logged \cup {EventOf(op.tx)}
  <2>1. i = 1 \/ i \in 2..Len(Appended)
    BY <1>5
  <2>2. CASE i = 1
    BY <1>5, <2>2
  <2>3. CASE i \in 2..Len(Appended)
    BY <1>5, <2>3 DEF Logged
  <2> QED BY <2>1, <2>2, <2>3
<1>7. 1 \in DOMAIN Appended
  BY <1>5
<1>8. Logged' = {Appended[i] : i \in DOMAIN Appended}
  BY <1>1 DEF Logged
<1> HIDE DEF Logged
<1>9. Logged' \subseteq Logged \cup {EventOf(op.tx)}
  BY <1>6, <1>8
<1>10. EventOf(op.tx) \in Logged'
  BY <1>5, <1>7, <1>8
<1> QED BY <1>2, <1>3, <1>4, <1>9, <1>10

-----------------------------------------------------------------------------
(* The refinement *)

Outcomes == [t \in TxIds |-> Outcome(t)]

LEMMA OutcomesType ==
  ASSUME Refinable
  PROVE  Outcomes \in [TxIds -> {"open", "aborted", "committed"}]
BY DEF Outcomes, Outcome

LEMMA AbstractInit == Init => Abstract!Init
<1> SUFFICES ASSUME Init PROVE Abstract!Init
  OBVIOUS
<1>1. Outcomes = [t \in TxIds |-> "open"]
  BY DEF Init, Outcomes, Outcome
<1>2. {audit[i] : i \in DOMAIN audit} = {}
  BY EmptySeq, LenProperties DEF Init
<1> QED BY <1>1, <1>2 DEF Init, Abstract!Init, Outcomes

LEMMA AbstractStep ==
  ASSUME Refinable, IndInv', [Next]_vars,
         \A u \in Users, p \in Projects : ~Delete(u, p),
         ~WriteFails, ~HeadFails, ~LandFails, ~AuditFails
  PROVE  [Abstract!Next]_(Abstract!vars)
<1>1. CASE LandHeads
  <2> DEFINE c == [revision |-> RevisionOf(heads[op.project]) + 1,
                   content |-> op.content, tx |-> op.tx]
  <2>1. /\ op.tx \in TxIds /\ op.project \in Projects /\ op.content \in Config
        /\ Outcome(op.tx) = "open"
        /\ \A t \in TxIds : Outcome(t)' = IF t = op.tx THEN "committed" ELSE Outcome(t)
        /\ heads' = [heads EXCEPT ![op.project] = c]
        /\ acked' = acked /\ audit' = audit
    BY <1>1, LandingCommits
  <2>2. Outcomes' = [Outcomes EXCEPT ![op.tx] = "committed"]
    BY <2>1 DEF Outcomes
  <2>3. Abstract!Version(op.project) = RevisionOf(heads[op.project])
    BY DEF Abstract!Version, RevisionOf
  <2>4. Abstract!Commit(op.tx, op.project, op.content)
    BY <2>1, <2>2, <2>3 DEF Abstract!Commit, Outcomes
  <2> QED BY <2>1, <2>4 DEF Abstract!Next
<1>2. CASE MarkPending
  <2>1. /\ op.tx \in TxIds /\ UNCHANGED <<heads, acked, audit>>
        /\ \/ /\ Outcome(op.tx) = "open"
              /\ \A t \in TxIds : Outcome(t)' = IF t = op.tx THEN "aborted" ELSE Outcome(t)
           \/ \A t \in TxIds : Outcome(t)' = Outcome(t)
    BY <1>2, MarkingDecides
  <2>2. CASE \A t \in TxIds : Outcome(t)' = Outcome(t)
    <3>1. Outcomes' = Outcomes
      BY <2>2 DEF Outcomes
    <3> QED BY <2>1, <3>1 DEF Abstract!vars, Outcomes
  <2>3. CASE /\ Outcome(op.tx) = "open"
             /\ \A t \in TxIds : Outcome(t)' = IF t = op.tx THEN "aborted" ELSE Outcome(t)
    <3>1. Outcomes' = [Outcomes EXCEPT ![op.tx] = "aborted"]
      BY <2>1, <2>3 DEF Outcomes
    <3>2. Abstract!Abort(op.tx)
      BY <2>1, <2>3, <3>1 DEF Abstract!Abort, Outcomes
    <3> QED BY <2>1, <3>2 DEF Abstract!Next
  <2> QED BY <2>1, <2>2, <2>3
<1>3. CASE WriteFinal
  <2>1. /\ \A t \in TxIds : Outcome(t)' = Outcome(t)
        /\ UNCHANGED <<heads, audit>>
        /\ \/ acked' = acked
           \/ /\ acked' = acked \cup {op.tx} /\ op.tx \in TxIds
              /\ Outcome(op.tx) = "committed"
    BY <1>3, ClosingTells
  <2>2. Outcomes' = Outcomes
    BY <2>1 DEF Outcomes
  <2>3. CASE acked' = acked
    BY <2>1, <2>2, <2>3 DEF Abstract!vars, Outcomes
  <2>4. CASE acked' = acked \cup {op.tx} /\ op.tx \in TxIds /\ Outcome(op.tx) = "committed"
    <3>1. Abstract!Tell(op.tx)
      BY <2>1, <2>2, <2>4 DEF Abstract!Tell, Outcomes
    <3> QED BY <2>4, <3>1 DEF Abstract!Next
  <2> QED BY <2>1, <2>3, <2>4
<1>4. CASE AppendAudit /\ audit' # audit
  <2>1. /\ op.tx \in TxIds /\ Outcome(op.tx) # "open"
        /\ UNCHANGED <<heads, journals, acked>>
        /\ Logged' \subseteq Logged \cup {[tx |-> op.tx, result |-> Outcome(op.tx)]}
        /\ [tx |-> op.tx, result |-> Outcome(op.tx)] \in Logged'
    BY <1>4, AuditLogs
  <2>2. Outcomes' = Outcomes
    BY <2>1 DEF Outcomes, Outcome, MatchesNew
  <2>3. Abstract!Next
    <3>1. \E t \in TxIds : Abstract!Log(t)
      BY <2>1, <2>2 DEF Abstract!Log, Outcomes, Logged
    <3> QED BY <3>1 DEF Abstract!Next
  <2> QED BY <2>3
<1>5. CASE ~LandHeads /\ ~MarkPending /\ ~WriteFinal /\ ~(AppendAudit /\ audit' # audit)
  <2>1. UNCHANGED <<heads, audit, acked>>
    BY <1>5, Frames
  <2>2. Outcomes' = Outcomes
    <3>1. CASE WritePrepared
      BY <3>1, PreparingIsSilent DEF Outcomes
    <3>2. CASE ~WritePrepared
      <4>1. journals' = journals
        BY <1>5, <3>2, Frames
      <4> QED BY <2>1, <4>1 DEF Outcomes, Outcome, MatchesNew
    <3> QED BY <3>1, <3>2
  <2> QED BY <2>1, <2>2 DEF Abstract!vars, Outcomes
<1> QED BY <1>1, <1>2, <1>3, <1>4, <1>5

\* As long as no write fails and nothing is deleted, the journal, the stores,
\* the lock and recovery amount to a versioned register per project: a
\* transaction takes effect at once or not at all, its outcome never changes,
\* clients are told of committed ones only and the audit holds outcomes, at
\* whatever points and however often the host crashes.
THEOREM CoordinatorRefines ==
  Spec /\ [](faults = 0 /\ deletes = 0) => ImplementsVersionedProjects
<1>1. Init => Abstract!Init
  BY AbstractInit
<1>2. IndInv /\ IndInv' /\ HistoryInv /\ BackupInv /\ RecoveryInv /\ Calm /\ Calm' /\ [Next]_vars
        => [Abstract!Next]_(Abstract!vars)
  <2> SUFFICES ASSUME IndInv, IndInv', HistoryInv, BackupInv, RecoveryInv, Calm, Calm',
                      [Next]_vars
               PROVE  [Abstract!Next]_(Abstract!vars)
    OBVIOUS
  <2>1. /\ \A u \in Users, p \in Projects : ~Delete(u, p)
        /\ ~WriteFails /\ ~HeadFails /\ ~LandFails /\ ~AuditFails
    BY CalmBefore DEF IndInv
  <2>2. Refinable
    BY DEF Refinable, HistoryInv, RecoveryInv, Calm
  <2> QED BY <2>1, <2>2, AbstractStep
<1>3. ImplementsVersionedProjects <=> Abstract!Init /\ [][Abstract!Next]_(Abstract!vars)
  BY DEF ImplementsVersionedProjects, Abstract!Spec
<1>4. (faults = 0 /\ deletes = 0) <=> Calm
  BY DEF Calm
<1> QED
  BY <1>1, <1>2, <1>3, <1>4, Inductive, HistoryHolds, RecoveryHolds, PTL DEF Spec

=============================================================================
