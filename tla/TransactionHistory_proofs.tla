---------------------- MODULE TransactionHistory_proofs ----------------------
(***************************************************************************)
(* What the journal, the heads, the snapshots, the audit and the clients'  *)
(* receipts say of one another, for every pattern of failing writes,       *)
(* crashes and recoveries.  delete_head works outside the lock and outside *)
(* the journal, so every statement is about the time until the first       *)
(* delete: HistoryInv is guarded by deletes = 0.                           *)
(***************************************************************************)
EXTENDS ProjectTransactions_proofs

\* the journal of the transaction at work
Own == journals[op.tx]

\* The stages past the head.
Decided == {"pending", "audit", "final"}

\* A commit runs while the integration is up, a recovery before it is, on the
\* oldest open journal; and the holder's journal says what the holder does.
HolderInv ==
    /\ stage # "free" /\ op.mode = "commit" => phase = "up" /\ op.verdict = "COMMITTED"
    /\ stage # "free" /\ op.mode = "recover" =>
          phase = "recovering" /\ op.tx \in Open /\ \A u \in Open : op.tx <= u
    /\ stage \in {"recheck", "backup", "prepare", "snapshot"} => op.mode = "commit"
    /\ stage \in {"recheck", "backup", "prepare"} => Own = None
    /\ stage \in Journaled =>
          /\ Own.project = op.project /\ Own.expected = op.revision
          /\ Own.base = op.base /\ Own.content = op.content
    /\ stage \in {"snapshot", "head", "landing"} =>
          Own.state = "PREPARED" /\ op.verdict = "COMMITTED"
    /\ stage = "verify" => op.verdict = "COMMITTED" /\ Own.final # "ABORTED"
    /\ stage \in {"verify", "pending"} => Own.state \in {"PREPARED", "AUDIT_PENDING"}
    /\ stage \in {"audit", "final"} => Own.state = "AUDIT_PENDING" /\ Own.final = op.verdict

\* Only the holder saves heads, one save at a time, made from what is on disk.
SavingInv ==
    /\ stage # "landing" => saving = <<>>
    /\ stage \in {"recheck", "backup", "prepare", "snapshot", "head"} => memHeads = heads
    /\ stage = "landing" =>
          /\ saving = <<[by |-> "tx", heads |-> memHeads]>>
          /\ \E s \in Stored : memHeads = [heads EXCEPT ![op.project] = HeadFrom(s)]

\* The head does not move between the second look at it and its replacement.
BaseInv ==
    stage \in {"backup", "prepare", "snapshot", "head", "landing"} =>
        MatchesOld(heads[op.project], [expected |-> op.revision, base |-> op.base])

\* The verdict is the truth: the new head is there, or neither it nor its
\* snapshot is, and nobody was told otherwise.
DecidedInv ==
    /\ stage \in Decided /\ op.verdict = "COMMITTED" => MatchesNew(heads[op.project], Own)
    /\ stage \in Decided /\ op.verdict = "ABORTED" =>
          /\ op.mode = "recover" /\ Own.final # "COMMITTED"
          /\ MatchesOld(heads[op.project], Own) /\ SnapshotOf(Own) = {}

\* A committed journal's head is there, or a later one is.
Survives(j) ==
    /\ heads[j.project] # NoHead
    /\ heads[j.project].revision > j.expected
    /\ heads[j.project].revision = j.expected + 1 => heads[j.project].content = j.content

\* An open journal already marked aborted was left by a recovery that did not
\* end; the next one meets the same head and comes to the same verdict.
Undone(t) ==
    /\ phase # "up"
    /\ \A u \in Open : t <= u
    /\ MatchesOld(heads[journals[t].project], journals[t])
    /\ SnapshotOf(journals[t]) = {}

JournalInv ==
    \A t \in TxIds : journals[t] # None =>
        /\ journals[t].state = "PREPARED" <=> journals[t].final = "NONE"
        /\ journals[t].state \in {"COMMITTED", "ABORTED"} => journals[t].final = journals[t].state
        /\ journals[t].final = "COMMITTED" => Survives(journals[t])
        /\ journals[t].state = "AUDIT_PENDING" /\ journals[t].final = "ABORTED" => Undone(t)

\* What a client was told is in the journal.
ToldInv == \A t \in acked : journals[t] # None /\ journals[t].final = "COMMITTED"

\* Heads and snapshots come from journaled transactions.
HeadOriginInv ==
    \A p \in Projects : heads[p] # NoHead =>
        /\ journals[heads[p].tx] # None /\ journals[heads[p].tx].project = p
        /\ MatchesNew(heads[p], journals[heads[p].tx])

SnapshotOriginInv ==
    \A s \in snaps : s.revision > 0 =>
        /\ journals[s.tx] # None
        /\ s.project = journals[s.tx].project /\ s.content = journals[s.tx].content
        /\ s.revision = journals[s.tx].expected + 1

\* No head and no snapshot is left of an aborted transaction.
NoTraceInv ==
    \A t \in TxIds : journals[t] # None /\ journals[t].final = "ABORTED" =>
        /\ \A p \in Projects : heads[p] # NoHead => heads[p].tx # t
        /\ \A s \in snaps : s.tx = t => s.revision = 0

AuditInv == Len(audit) <= MaxAudit /\ (stage = "final" => Recorded(op.tx))

History ==
    /\ HolderInv /\ SavingInv /\ BaseInv /\ DecidedInv /\ JournalInv /\ ToldInv
    /\ HeadOriginInv /\ SnapshotOriginInv /\ NoTraceInv
    /\ AuditInv /\ AuditFaithful

HistoryInv == deletes = 0 => History

-----------------------------------------------------------------------------
(* Steps of the protocol *)

\* No save but the holder's own is on its way: the file is what is read.
LEMMA LoadedIsHeads == ASSUME SavingInv PROVE Loaded = heads
<1>1. CASE saving = <<>>
  BY <1>1 DEF Loaded
<1>2. CASE saving # <<>>
  <2>1. saving = <<[by |-> "tx", heads |-> memHeads]>>
    BY <1>2 DEF SavingInv
  <2> QED BY <2>1 DEF Loaded
<1> QED BY <1>1, <1>2

\* Saves taken from a line of one leave none.
LEMMA LineOfOne ==
  ASSUME NEW s \in Save
  PROVE  Waiting(Tail(<<s>>)) = <<>>
<1> DEFINE line == <<s>>
<1>1. line \in Seq(Save) /\ line # <<>> /\ Len(line) = 1
  OBVIOUS
<1>2. Waiting(Tail(line)) \in Seq(Save) /\ DOMAIN Waiting(Tail(line)) = 1..(Len(line) - 1)
  <2> HIDE DEF line
  <2> QED BY <1>1, WaitingSaves
<1>3. Len(Waiting(Tail(line))) = 0
  BY <1>1, <1>2, LenProperties
<1> QED BY <1>2, <1>3, EmptySeq

\* A delete is the only step that leaves the time before the first one.
LEMMA BeforeDelete ==
  ASSUME TypeOK, [Next]_vars, deletes' = 0
  PROVE  deletes = 0 /\ \A u \in Users, p \in Projects : ~Delete(u, p)
<1> USE DEF durable, client, bounds
<1>1. deletes \in Nat
  BY BoundsAssumption DEF TypeOK
<1>2. \A u \in Users, p \in Projects : ~Delete(u, p)
  BY <1>1 DEF Delete
<1>3. deletes' = deletes
  BY <1>2 DEF Next, ClientNext, LockNext, CommitNext, FaultNext, RecoveryNext, vars,
     MakePreview, DropPreview, RequestApply, RequestRollback, Enqueue, Begin, Conflict,
     Recheck, Deny, WriteBackup, WritePrepared, WriteSnapshot, WriteHead, LandHeads,
     VerifyHead, MarkPending, AppendAudit, WriteFinal, WriteFails, HeadFails, LandFails,
     AuditFails, Crash, Load, Recover, RecoveryDone
<1> QED BY <1>2, <1>3

\* While the lock is held after a step, the step took it, moved its holder on,
\* or left the protocol alone.
LEMMA Moves ==
  ASSUME TypeOK, LockInv, ClientInv, HolderInv, [Next]_vars, stage' # "free",
         \A u \in Users, p \in Projects : ~Delete(u, p)
  PROVE  \/ \E u \in Users : Begin(u)
         \/ Recover
         \/ /\ op' = op /\ phase' = phase /\ stage # "free"
            /\ \/ Recheck \/ WriteBackup \/ WritePrepared \/ WriteSnapshot \/ WriteHead
               \/ LandHeads \/ LandFails \/ VerifyHead \/ MarkPending \/ AppendAudit
         \/ UNCHANGED <<heads, snaps, journals, audit, memHeads, saving, stage, op, phase>>
<1> USE DEF durable, client, bounds
<1>a. ~Raise /\ ~Succeed
  BY DEF Raise, Succeed, Release
<1>1. CASE UNCHANGED vars
  BY <1>1 DEF vars
<1>2. CASE ClientNext
  BY <1>2 DEF ClientNext, MakePreview, DropPreview, RequestApply, RequestRollback, Enqueue
<1>3. CASE LockNext
  <2>1. ASSUME NEW u \in Users, Conflict(u)
        PROVE  FALSE
    BY <2>1 DEF Conflict
  <2>2. CASE Recheck
    BY <1>a, <2>2 DEF Recheck
  <2> QED BY <1>3, <1>a, <2>1, <2>2 DEF LockNext, Deny
<1>b. ASSUME LandHeads \/ LandFails
      PROVE  op' = op /\ phase' = phase /\ stage # "free"
  BY <1>b, LandedType DEF LandHeads, LandFails
<1>4. CASE CommitNext
  <2>1. CASE WriteBackup \/ WritePrepared \/ WriteSnapshot
    BY <1>a, <2>1 DEF WriteBackup, WritePrepared, WriteSnapshot
  <2>2. CASE WriteHead \/ VerifyHead
    BY <1>a, <2>2 DEF WriteHead, VerifyHead
  <2>3. CASE MarkPending \/ AppendAudit \/ WriteFinal
    BY <1>a, <2>3 DEF MarkPending, AppendAudit, WriteFinal
  <2> QED BY <1>4, <2>1, <2>2, <2>3 DEF CommitNext
<1>5. CASE FaultNext
  BY <1>5, <1>a, <1>b DEF FaultNext, WriteFails, HeadFails, AuditFails
<1>6. CASE RecoveryNext \/ Crash
  <2>1. op.mode \in {"commit", "recover"} \/ stage = "free"
    BY DEF LockInv, Op
  <2>2. ~Load
    BY <2>1 DEF Load, HolderInv
  <2> QED BY <1>6, <2>2 DEF RecoveryNext, RecoveryDone, Crash, Release
<1> QED BY <1>1, <1>2, <1>3, <1>4, <1>5, <1>6, <1>b DEF Next

-----------------------------------------------------------------------------
(* The holder of the lock *)

\* The journals of all but the transaction at work stay what they are, and an
\* open journal is closed only by the last write of its own transaction.
LEMMA JournalFrames ==
  ASSUME TypeOK, LockInv, HolderInv, [Next]_vars
  PROVE  /\ \A t \in TxIds : journals'[t] # journals[t] =>
               t = op.tx /\ (WritePrepared \/ MarkPending \/ WriteFinal)
         /\ ~WritePrepared /\ ~WriteFinal => Open' = Open
         /\ WriteFinal => Open' = Open \ {op.tx}
<1>1. stage # "free" => op \in Op /\ op.tx \in TxIds
  BY DEF LockInv, Op
<1>2. \A t \in TxIds : journals'[t] # journals[t] =>
         t = op.tx /\ (WritePrepared \/ MarkPending \/ WriteFinal)
  <2> SUFFICES ASSUME NEW t \in TxIds, journals'[t] # journals[t]
               PROVE  t = op.tx /\ (WritePrepared \/ MarkPending \/ WriteFinal)
    OBVIOUS
  <2>1. WritePrepared \/ MarkPending \/ WriteFinal
    BY Frames
  <2> QED BY <2>1, <1>1 DEF WritePrepared, MarkPending, WriteFinal, TypeOK
<1>3. CASE MarkPending
  <2>1. stage = "pending" /\ op.tx \in TxIds /\ Own \in Journal
        /\ Own.state \in {"PREPARED", "AUDIT_PENDING"}
    BY <1>3, <1>1 DEF MarkPending, LockInv, HolderInv, Own
  <2>2. journals'[op.tx] = [Own EXCEPT !.state = "AUDIT_PENDING", !.final = op.verdict]
    BY <1>3, <2>1 DEF MarkPending, TypeOK, Own
  <2>3. journals'[op.tx] \in Journal /\ journals'[op.tx].state = "AUDIT_PENDING"
    BY <1>1, <2>1, <2>2 DEF Journal, Op
  <2>4. \A t \in TxIds : t # op.tx => journals'[t] = journals[t]
    BY <1>2
  <2>5. op.tx \in Open /\ op.tx \in Open'
    BY <2>1, <2>3, SentinelAssumption DEF Open, Own
  <2> QED BY <1>3, <2>4, <2>5 DEF Open, MarkPending, WriteFinal
<1>4. CASE WriteFinal
  <2>1. stage = "final" /\ op.tx \in TxIds /\ Own \in Journal
        /\ op.verdict \in {"COMMITTED", "ABORTED"}
    BY <1>4, <1>1 DEF WriteFinal, LockInv, Own, Op
  <2>2. journals'[op.tx].state = op.verdict
    BY <1>4, <2>1 DEF WriteFinal, TypeOK, Own, Journal
  <2>3. \A t \in TxIds : t # op.tx => journals'[t] = journals[t]
    BY <1>2
  <2> QED BY <1>4, <2>1, <2>2, <2>3 DEF Open, WriteFinal
<1>5. CASE ~WritePrepared /\ ~MarkPending /\ ~WriteFinal
  BY <1>5, Frames DEF Open
<1> QED BY <1>2, <1>3, <1>4, <1>5

\* Who begins, and on what.
LEMMA BeginsOn ==
  ASSUME TypeOK, LockInv, ClientInv, SavingInv, NEW u \in Users, Begin(u)
  PROVE  /\ op' \in Op /\ op'.mode = "commit" /\ op'.verdict = "COMMITTED"
         /\ journals[op'.tx] = None /\ stage' = "recheck" /\ phase' = "up"
         /\ UNCHANGED <<heads, snaps, journals, audit, saving>> /\ memHeads' = heads
         /\ saving = <<>>
<1>1. op' \in Op /\ op'.mode = "commit"
  BY BeginType
<1>2. op'.verdict = "COMMITTED" /\ op'.tx \in FreshTx
  BY DEF Begin
<1>3. Loaded = heads
  BY LoadedIsHeads
<1> QED BY <1>1, <1>2, <1>3 DEF Begin, FreshTx, Unjournaled, durable, SavingInv

\* What a recovery sets out to do.
LEMMA RecoversOn ==
  ASSUME TypeOK, SavingInv, JournalInv, Recover, stage' # "free"
  PROVE  /\ op'.tx \in Open /\ (\A u \in Open : op'.tx <= u)
         /\ op'.mode = "recover" /\ phase' = "recovering"
         /\ UNCHANGED <<heads, snaps, journals, audit, saving>> /\ memHeads' = heads
         /\ saving = <<>>
         /\ LET j == journals[op'.tx] IN
            /\ op'.project = j.project /\ op'.revision = j.expected
            /\ op'.base = j.base /\ op'.content = j.content
            /\ \/ /\ stage' = "pending" /\ op'.verdict = "ABORTED" /\ j.final # "COMMITTED"
                  /\ SnapshotOf(j) = {} /\ MatchesOld(heads[j.project], j)
               \/ stage' = "verify" /\ op'.verdict = "COMMITTED" /\ j.final # "ABORTED"
               \/ /\ stage' = "head" /\ op'.verdict = "COMMITTED" /\ j.state = "PREPARED"
                  /\ MatchesOld(heads[j.project], j)
<1>1. Loaded = heads
  BY LoadedIsHeads
<1>2. PICK t \in Open :
        LET j == journals[t] IN
        /\ \A u \in Open : t <= u
        /\ op'.tx = t /\ op'.mode = "recover" /\ phase' = "recovering"
        /\ op'.project = j.project /\ op'.revision = j.expected
        /\ op'.base = j.base /\ op'.content = j.content
        /\ \/ SnapshotOf(j) = {} /\ MatchesOld(heads[j.project], j)
              /\ stage' = "pending" /\ op'.verdict = "ABORTED"
           \/ SnapshotOf(j) # {} /\ MatchesNew(heads[j.project], j)
              /\ stage' = "verify" /\ op'.verdict = "COMMITTED"
           \/ SnapshotOf(j) # {} /\ MatchesOld(heads[j.project], j)
              /\ stage' = "head" /\ op'.verdict = "COMMITTED"
  BY <1>1 DEF Recover
<1> DEFINE j == journals[t]
<1>3. t \in TxIds /\ j \in Journal /\ j # None /\ j.state \in {"PREPARED", "AUDIT_PENDING"}
  BY DEF Open, TypeOK
<1>4. /\ (j.state = "PREPARED") <=> (j.final = "NONE")
      /\ j.final = "COMMITTED" => Survives(j)
      /\ j.state = "AUDIT_PENDING" /\ j.final = "ABORTED" => SnapshotOf(j) = {}
  BY <1>3 DEF JournalInv, Undone
<1>5. j.final = "COMMITTED" => ~MatchesOld(heads[j.project], j)
  <2>1. j.expected \in Nat /\ j.project \in Projects /\ heads[j.project] \in HeadRec \cup {NoHead}
    BY <1>3 DEF Journal, TypeOK, HeadMap, Revisions
  <2>2. heads[j.project] # NoHead => heads[j.project].revision \in Nat
    BY <2>1 DEF HeadRec, Revisions
  <2> QED BY <1>4, <2>1, <2>2 DEF Survives, MatchesOld
<1>6. j.final \in {"NONE", "COMMITTED", "ABORTED"}
  BY <1>3 DEF Journal
<1>7. j.final # "ABORTED" \/ SnapshotOf(j) = {}
  BY <1>3, <1>4
<1>8. SnapshotOf(j) # {} /\ MatchesOld(heads[j.project], j) => j.state = "PREPARED"
  BY <1>4, <1>5, <1>6, <1>7
<1>9. UNCHANGED <<heads, snaps, journals, audit, saving>> /\ memHeads' = heads /\ saving = <<>>
  BY <1>1 DEF Recover, durable, SavingInv
<1> QED BY <1>2, <1>5, <1>7, <1>8, <1>9

\* What the holder's stage promises holds at its next stage.
LEMMA HolderStep ==
  ASSUME IndInv, IndInv', HolderInv, SavingInv, JournalInv, DecidedInv, [Next]_vars,
         \A u \in Users, p \in Projects : ~Delete(u, p)
  PROVE  HolderInv'
<1> USE DEF IndInv
<1>1. CASE stage' = "free"
  BY <1>1 DEF HolderInv, Journaled
<1>2. CASE stage' # "free"
  <2>a. op' \in Op /\ op'.tx \in TxIds
    BY <1>2 DEF LockInv, Op
  <2>1. ASSUME NEW u \in Users, Begin(u)
        PROVE  HolderInv'
    <3>1. /\ op'.mode = "commit" /\ op'.verdict = "COMMITTED" /\ journals' = journals
          /\ journals[op'.tx] = None /\ stage' = "recheck" /\ phase' = "up"
      BY <2>1, BeginsOn
    <3> QED BY <3>1 DEF HolderInv, Own, Journaled
  <2>2. CASE Recover
    <3> DEFINE j == journals[op'.tx]
    <3>1. /\ op'.tx \in Open /\ (\A u \in Open : op'.tx <= u)
          /\ op'.mode = "recover" /\ phase' = "recovering" /\ journals' = journals
          /\ op'.project = j.project /\ op'.revision = j.expected
          /\ op'.base = j.base /\ op'.content = j.content
          /\ \/ stage' = "pending" /\ op'.verdict = "ABORTED"
             \/ stage' = "verify" /\ op'.verdict = "COMMITTED" /\ j.final # "ABORTED"
             \/ stage' = "head" /\ op'.verdict = "COMMITTED" /\ j.state = "PREPARED"
      BY <1>2, <2>2, RecoversOn
    <3>2. Open' = Open /\ j.state \in {"PREPARED", "AUDIT_PENDING"}
      BY <3>1 DEF Open
    <3> QED BY <3>1, <3>2 DEF HolderInv, Own, Journaled
  <2>3. ASSUME op' = op, phase' = phase, stage # "free",
               \/ Recheck \/ WriteBackup \/ WritePrepared \/ WriteSnapshot \/ WriteHead
               \/ LandHeads \/ LandFails \/ VerifyHead \/ MarkPending \/ AppendAudit
        PROVE  HolderInv'
    <3>a. op \in Op /\ op.tx \in TxIds
      BY <2>3 DEF LockInv, Op
    <3>b. ~Raise
      BY <1>2 DEF Raise, Release
    <3>1. CASE WritePrepared
      <4>1. op.mode = "commit" /\ phase = "up" /\ op.verdict = "COMMITTED"
        BY <3>1 DEF WritePrepared, HolderInv
      <4>2. /\ journals'[op.tx] = [state |-> "PREPARED", final |-> "NONE",
                  project |-> op.project, expected |-> op.revision, base |-> op.base,
                  content |-> op.content]
            /\ stage' = "snapshot"
        BY <3>1, <3>a DEF WritePrepared, TypeOK
      <4> QED BY <2>3, <4>1, <4>2 DEF HolderInv, Own, Journaled
    <3>2. CASE MarkPending
      <4>1. /\ stage = "pending" /\ stage' = "audit" /\ Own \in Journal
            /\ Own.project = op.project /\ Own.expected = op.revision
            /\ Own.base = op.base /\ Own.content = op.content
        BY <3>2 DEF MarkPending, HolderInv, Journaled, LockInv, Own
      <4>2. journals'[op.tx] = [Own EXCEPT !.state = "AUDIT_PENDING", !.final = op.verdict]
        BY <3>2, <3>a, <4>1 DEF MarkPending, TypeOK, Own
      <4>3. Open' = Open
        BY <3>2, JournalFrames DEF MarkPending, WritePrepared, WriteFinal
      <4> QED BY <2>3, <4>1, <4>2, <4>3 DEF HolderInv, Own, Journaled, Journal
    <3>3. CASE ~WritePrepared /\ ~MarkPending
      <4>1. journals' = journals /\ Open' = Open
        <5>1. ~WriteFinal
          BY <1>2 DEF WriteFinal, Succeed, Release
        <5> QED BY <3>3, <5>1, Frames, JournalFrames
      <4>2. Own' = Own
        BY <2>3, <4>1 DEF Own
      <4>3. CASE Recheck
        <5>1. stage = "recheck" /\ stage' \in {"prepare", "backup"}
          BY <3>b, <4>3 DEF Recheck
        <5> QED BY <2>3, <4>1, <4>2, <5>1 DEF HolderInv, Journaled
      <4>4. CASE WriteBackup \/ WriteSnapshot \/ WriteHead
        <5>1. \/ stage = "backup" /\ stage' = "prepare"
              \/ stage = "snapshot" /\ stage' = "head"
              \/ stage = "head" /\ stage' = "landing"
          BY <3>b, <4>4 DEF WriteBackup, WriteSnapshot, WriteHead
        <5> QED BY <2>3, <4>1, <4>2, <5>1 DEF HolderInv, Journaled
      <4>5. CASE LandHeads \/ LandFails
        <5>1. stage' = stage \/ (stage = "landing" /\ stage' = "verify")
          BY <4>5, LandedType DEF LandHeads, LandFails
        <5>2. stage = "landing" => Own.final = "NONE"
          <6> HAVE stage = "landing"
          <6>1. Own \in Journal /\ Own.state = "PREPARED" /\ op.tx \in TxIds
            BY <3>a DEF LockInv, HolderInv, Own
          <6> QED BY <6>1, SentinelAssumption DEF JournalInv, Own
        <5> QED BY <2>3, <4>1, <4>2, <5>1, <5>2 DEF HolderInv, Journaled
      <4>6. CASE VerifyHead
        <5>1. stage = "verify" /\ stage' = "pending"
          BY <3>b, <4>6 DEF VerifyHead
        <5> QED BY <2>3, <4>1, <4>2, <5>1 DEF HolderInv, Journaled
      <4>7. CASE AppendAudit
        <5>1. stage = "audit" /\ stage' = "final"
          BY <3>b, <4>7 DEF AppendAudit
        <5> QED BY <2>3, <4>1, <4>2, <5>1 DEF HolderInv, Journaled
      <4> QED BY <2>3, <3>3, <4>3, <4>4, <4>5, <4>6, <4>7
    <3> QED BY <3>1, <3>2, <3>3
  <2>4. CASE UNCHANGED <<heads, snaps, journals, audit, memHeads, saving, stage, op, phase>>
    BY <2>4 DEF HolderInv, Own, Journaled, Open
  <2> QED BY <1>2, <2>1, <2>2, <2>3, <2>4, Moves
<1> QED BY <1>1, <1>2

\* Who touches the line of saves, and what may happen while the holder's own
\* is the one being written.
LEMMA SavingFrames ==
  ASSUME TypeOK, LockInv, HolderInv, [Next]_vars,
         \A u \in Users, p \in Projects : ~Delete(u, p)
  PROVE  /\ \/ WriteHead \/ LandHeads \/ LandFails
            \/ saving' = saving
            \/ saving' = <<>> /\ stage' = "free"
         /\ stage = "landing" =>
              \/ LandHeads \/ LandFails \/ Crash
              \/ UNCHANGED <<heads, snaps, memHeads, saving, stage, op>>
<1> USE DEF durable, client, bounds
<1>1. CASE UNCHANGED vars
  BY <1>1 DEF vars
<1>2. CASE ClientNext
  BY <1>2 DEF ClientNext, MakePreview, DropPreview, RequestApply, RequestRollback, Enqueue
<1>3. CASE LockNext
  BY <1>3 DEF LockNext, Begin, Conflict, Recheck, Deny
<1>4. CASE CommitNext \/ LandHeads
  BY <1>4 DEF CommitNext, WriteBackup, WritePrepared, WriteSnapshot, WriteHead,
     VerifyHead, MarkPending, AppendAudit, WriteFinal
<1>5. CASE FaultNext
  BY <1>5 DEF FaultNext, WriteFails, HeadFails, AuditFails
<1>6. CASE RecoveryNext
  <2>1. op.mode \in {"commit", "recover"} \/ stage = "free"
    BY DEF LockInv, Op
  <2>2. CASE Load
    BY <2>1, <2>2 DEF Load, HolderInv
  <2>3. CASE Recover \/ RecoveryDone
    BY <2>3 DEF Recover, RecoveryDone
  <2> QED BY <1>6, <2>2, <2>3 DEF RecoveryNext
<1>7. CASE Crash
  BY <1>7 DEF Crash, Release
<1> QED BY <1>1, <1>2, <1>3, <1>4, <1>5, <1>6, <1>7 DEF Next

LEMMA SavingStep ==
  ASSUME IndInv, HolderInv, SavingInv, JournalInv, [Next]_vars,
         \A u \in Users, p \in Projects : ~Delete(u, p)
  PROVE  SavingInv'
<1> USE DEF IndInv
<1>1. CASE LandHeads \/ LandFails
  <2>1. stage = "landing" /\ saving = <<[by |-> "tx", heads |-> memHeads]>>
    BY <1>1 DEF LandHeads, LandFails, SavingInv
  <2>2. [by |-> "tx", heads |-> memHeads] \in Save
    BY DEF Save, TypeOK
  <2>3. saving' = <<>>
    BY <1>1, <2>1, <2>2, LineOfOne DEF LandHeads, LandFails
  <2>4. Head(saving).by = "tx" /\ stage' = "verify"
    BY <1>1, <2>1, HeadTailProperties DEF LandHeads, LandFails, Landed
  <2> QED BY <2>3, <2>4 DEF SavingInv
<1>2. CASE WriteHead
  <2>1. saving = <<>> /\ memHeads = heads /\ stage' = "landing"
    BY <1>2 DEF WriteHead, SavingInv
  <2>2. UNCHANGED <<heads, snaps, op>>
    BY <1>2 DEF WriteHead, durable
  <2>3. saving' = <<[by |-> "tx", heads |-> memHeads']>>
    BY <1>2, <2>1 DEF WriteHead
  <2>4. \E s \in Stored : memHeads' = [heads EXCEPT ![op.project] = HeadFrom(s)]
    BY <1>2, <2>1 DEF WriteHead
  <2>5. Stored' = Stored
    BY <2>2 DEF Stored, StoredAs
  <2> QED BY <2>1, <2>2, <2>3, <2>4, <2>5 DEF SavingInv
<1>3. CASE stage = "landing" /\ ~LandHeads /\ ~LandFails
  <2>1. CASE Crash
    BY <2>1 DEF Crash, Release, SavingInv
  <2>2. CASE UNCHANGED <<heads, snaps, memHeads, saving, stage, op>>
    BY <2>2 DEF SavingInv, Stored, StoredAs
  <2> QED BY <1>3, <2>1, <2>2, SavingFrames
<1>4. CASE stage # "landing" /\ ~LandHeads /\ ~LandFails /\ ~WriteHead
  <2>1. saving' = <<>>
    BY <1>4, SavingFrames DEF SavingInv
  <2>2. stage' # "landing" /\ (stage' \in {"recheck", "backup", "prepare", "snapshot", "head"}
            => memHeads' = heads')
    <3>1. CASE stage' = "free"
      BY <3>1
    <3>2. CASE stage' # "free"
      <4>a. heads' = heads /\ Loaded = heads
        BY <1>4, Frames, LoadedIsHeads
      <4>b. ~Raise
        BY <3>2 DEF Raise, Release
      <4>1. ASSUME NEW u \in Users, Begin(u)
            PROVE  stage' = "recheck" /\ memHeads' = heads'
        BY <4>a, <4>1 DEF Begin
      <4>2. CASE Recover
        BY <3>2, <4>a, <4>2 DEF Recover
      <4>3. CASE Recheck
        BY <4>a, <4>b, <4>3 DEF Recheck
      <4>4. CASE WriteBackup \/ WritePrepared \/ WriteSnapshot
        BY <4>a, <4>b, <4>4 DEF WriteBackup, WritePrepared, WriteSnapshot, SavingInv, client
      <4>5. CASE VerifyHead \/ MarkPending \/ AppendAudit
        BY <4>b, <4>5 DEF VerifyHead, MarkPending, AppendAudit
      <4>6. CASE UNCHANGED <<heads, memHeads, stage>>
        BY <1>4, <4>6 DEF SavingInv
      <4> QED BY <1>4, <3>2, <4>1, <4>2, <4>3, <4>4, <4>5, <4>6, Moves
    <3> QED BY <3>1, <3>2
  <2> QED BY <2>1, <2>2 DEF SavingInv
<1> QED BY <1>1, <1>2, <1>3, <1>4

\* Only the holder's own save changes the heads file.
LEMMA LandsOwn ==
  ASSUME IndInv, SavingInv, LandHeads
  PROVE  /\ stage = "landing" /\ stage' = "verify"
         /\ \E s \in Stored : heads' = [heads EXCEPT ![op.project] = HeadFrom(s)]
         /\ UNCHANGED <<snaps, journals, audit, acked, phase, op>>
<1> USE DEF IndInv
<1>1. stage = "landing" /\ saving = <<[by |-> "tx", heads |-> memHeads]>>
  BY DEF LandHeads, SavingInv
<1>2. Head(saving) = [by |-> "tx", heads |-> memHeads]
  BY <1>1, HeadTailProperties
<1>3. memHeads # None
  BY SentinelAssumption DEF TypeOK
<1>4. PICK s \in Stored : memHeads = [heads EXCEPT ![op.project] = HeadFrom(s)]
  BY <1>1 DEF SavingInv
<1>5. heads' = memHeads
  BY <1>2, <1>3 DEF LandHeads
<1> QED BY <1>1, <1>2, <1>4, <1>5 DEF LandHeads, Landed

\* A head is never old and new at once.
LEMMA OldOrNew ==
  ASSUME NEW h \in HeadRec \cup {NoHead}, NEW j \in Journal
  PROVE  ~(MatchesOld(h, j) /\ MatchesNew(h, j))
BY DEF MatchesOld, MatchesNew, HeadRec, Journal, Revisions

LEMMA HeadExists == ASSUME NEW h \in HeadRec PROVE h # NoHead
BY SetsAssumption DEF HeadRec, Config, TxIds, Revisions

\* A snapshot read back holds the configuration the transaction committed to.
LEMMA StoredIs ==
  ASSUME IndInv, stage # "free", NEW s \in Stored
  PROVE  /\ s \in snaps /\ s.project = op.project /\ s.content = op.content
         /\ op.revision \in Nat /\ s.revision = op.revision + 1
         /\ HeadFrom(s) \in HeadRec /\ HeadFrom(s) # NoHead
         /\ HeadFrom(s).revision = s.revision /\ HeadFrom(s).content = s.content
         /\ HeadFrom(s).tx = s.tx
<1>1. s \in snaps /\ s \in Snapshot
  BY DEF Stored, StoredAs, IndInv, TypeOK
<1>2. op \in Op
  BY DEF IndInv, LockInv
<1> QED BY <1>1, <1>2, HeadFromType, HeadExists DEF Stored, StoredAs, HeadFrom, Op, Revisions

\* Marking a journal, and closing it, change nothing else of it.
Marked(j, v) == [j EXCEPT !.state = "AUDIT_PENDING", !.final = v]
Closed(j, v) == [j EXCEPT !.state = v]

LEMMA JournalMarked ==
  ASSUME NEW j \in Journal, NEW v \in {"COMMITTED", "ABORTED"}
  PROVE  /\ Marked(j, v) \in Journal /\ Marked(j, v) # None
         /\ Marked(j, v).state = "AUDIT_PENDING" /\ Marked(j, v).final = v
         /\ Marked(j, v).project = j.project /\ Marked(j, v).expected = j.expected
         /\ Marked(j, v).base = j.base /\ Marked(j, v).content = j.content
<1>1. Marked(j, v) \in Journal
  BY DEF Journal, Marked
<1> QED BY <1>1, SentinelAssumption DEF Journal, Marked

LEMMA JournalClosed ==
  ASSUME NEW j \in Journal, NEW v \in {"COMMITTED", "ABORTED"}
  PROVE  /\ Closed(j, v) \in Journal /\ Closed(j, v) # None
         /\ Closed(j, v).state = v /\ Closed(j, v).final = j.final
         /\ Closed(j, v).project = j.project /\ Closed(j, v).expected = j.expected
         /\ Closed(j, v).base = j.base /\ Closed(j, v).content = j.content
<1>1. Closed(j, v) \in Journal
  BY DEF Journal, Closed
<1> QED BY <1>1, SentinelAssumption DEF Journal, Closed

\* What the marking and the closing write.
LEMMA Marks ==
  ASSUME IndInv, MarkPending \/ WriteFinal
  PROVE  /\ op.tx \in TxIds /\ Own \in Journal /\ op.verdict \in {"COMMITTED", "ABORTED"}
         /\ MarkPending => journals'[op.tx] = Marked(Own, op.verdict) /\ ~WriteFinal
         /\ WriteFinal => journals'[op.tx] = Closed(Own, op.verdict)
<1>1. op \in Op /\ op.tx \in TxIds /\ Own \in Journal
  BY DEF IndInv, LockInv, MarkPending, WriteFinal, Own, Op
<1>2. MarkPending => journals'[op.tx] = Marked(Own, op.verdict)
  BY <1>1 DEF MarkPending, Own, IndInv, TypeOK, Marked
<1>3. WriteFinal => journals'[op.tx] = Closed(Own, op.verdict)
  BY <1>1 DEF WriteFinal, Own, IndInv, TypeOK, Closed
<1> QED BY <1>1, <1>2, <1>3 DEF Op, MarkPending, WriteFinal

\* What a journal is about is settled when it is prepared.
LEMMA JournalKeeps ==
  ASSUME IndInv, HolderInv, [Next]_vars, NEW t \in TxIds, journals[t] # None
  PROVE  /\ journals'[t] # None /\ journals[t] \in Journal /\ journals'[t] \in Journal
         /\ journals'[t].project = journals[t].project
         /\ journals'[t].expected = journals[t].expected
         /\ journals'[t].base = journals[t].base
         /\ journals'[t].content = journals[t].content
         /\ \/ journals'[t] = journals[t]
            \/ /\ MarkPending /\ t = op.tx
               /\ journals'[t].state = "AUDIT_PENDING" /\ journals'[t].final = op.verdict
            \/ /\ WriteFinal /\ t = op.tx
               /\ journals'[t].state = op.verdict /\ journals'[t].final = journals[t].final
<1> USE DEF IndInv
<1>1. journals[t] \in Journal
  BY DEF TypeOK
<1>2. CASE journals'[t] = journals[t]
  BY <1>1, <1>2, Zenon
<1>3. CASE journals'[t] # journals[t]
  <2>1. t = op.tx /\ (WritePrepared \/ MarkPending \/ WriteFinal)
    BY <1>3, JournalFrames
  <2>2. ~WritePrepared
    BY <2>1 DEF WritePrepared, HolderInv, Own
  <2>3. Own = journals[t]
    BY <2>1 DEF Own
  <2> QED BY <2>1, <2>2, <2>3, Marks, JournalMarked, JournalClosed
<1> QED BY <1>2, <1>3

-----------------------------------------------------------------------------
(* The head a transaction replaces, and the one it leaves *)

LEMMA BaseStep ==
  ASSUME IndInv, HolderInv, SavingInv, JournalInv, BaseInv, [Next]_vars,
         \A u \in Users, p \in Projects : ~Delete(u, p)
  PROVE  BaseInv'
<1> USE DEF IndInv
<1>1. CASE ~(stage' \in {"backup", "prepare", "snapshot", "head", "landing"})
  BY <1>1 DEF BaseInv
<1>2. CASE stage' \in {"backup", "prepare", "snapshot", "head", "landing"}
  <2>a. ~Raise
    BY <1>2 DEF Raise, Release
  <2>b. heads' = heads /\ Loaded = heads
    BY <1>2, Frames, LandsOwn, LoadedIsHeads
  <2>1. ASSUME NEW u \in Users, Begin(u)
        PROVE  BaseInv'
    BY <1>2, <2>1 DEF Begin
  <2>2. CASE Recover
    BY <1>2, <2>2, <2>b, RecoversOn DEF BaseInv, MatchesOld
  <2>3. CASE op' = op /\ Recheck
    <3>1. RevisionOf(heads[op.project]) = op.revision /\ ContentOf(heads[op.project]) = op.base
      BY <2>3, <2>a, <2>b DEF Recheck, Unmoved, AtBase
    <3> QED BY <2>3, <2>b, <3>1 DEF BaseInv, MatchesOld, RevisionOf, ContentOf
  <2>4. CASE op' = op /\ (WriteBackup \/ WritePrepared \/ WriteSnapshot \/ WriteHead)
    BY <2>4, <2>b DEF WriteBackup, WritePrepared, WriteSnapshot, WriteHead, BaseInv
  <2>5. CASE LandHeads \/ LandFails
    <3>1. stage = "landing"
      BY <2>5 DEF LandHeads, LandFails, SavingInv
    <3>2. saving[1].by = "tx" /\ stage' = "verify"
      BY <2>5, <3>1, LandedType DEF LandHeads, LandFails, SavingInv
    <3> QED BY <1>2, <3>2
  <2>6. CASE VerifyHead \/ MarkPending \/ AppendAudit
    BY <1>2, <2>6, <2>a DEF VerifyHead, MarkPending, AppendAudit
  <2>7. CASE UNCHANGED <<heads, stage, op>>
    BY <2>7 DEF BaseInv
  <2> QED BY <1>2, <2>1, <2>2, <2>3, <2>4, <2>5, <2>6, <2>7, Moves
<1> QED BY <1>1, <1>2

LEMMA DecidedStep ==
  ASSUME IndInv, IndInv', HolderInv, HolderInv', SavingInv, JournalInv, DecidedInv,
         [Next]_vars, \A u \in Users, p \in Projects : ~Delete(u, p)
  PROVE  DecidedInv'
<1> USE DEF IndInv
<1>1. CASE stage' \notin Decided
  BY <1>1 DEF DecidedInv
<1>2. CASE stage' \in Decided
  <2>a. ~Raise /\ stage' # "free"
    BY <1>2 DEF Raise, Release, Decided
  <2>b. heads' = heads /\ Loaded = heads
    BY <1>2, Frames, LandsOwn, LoadedIsHeads DEF Decided
  <2>1. ASSUME NEW u \in Users, Begin(u)
        PROVE  DecidedInv'
    BY <1>2, <2>1 DEF Begin, Decided
  <2>2. CASE Recover
    BY <1>2, <2>a, <2>2, <2>b, RecoversOn DEF DecidedInv, Own, Decided, SnapshotOf, StoredAs
  <2>3. CASE op' = op /\ VerifyHead
    <3>1. stage = "verify" /\ journals' = journals
      BY <2>3 DEF VerifyHead, durable
    <3>2. PICK s \in Stored : heads[op.project] = HeadFrom(s)
      BY <2>3, <2>a, <2>b DEF VerifyHead
    <3>3. op.verdict = "COMMITTED" /\ Own.expected = op.revision /\ Own.content = op.content
      BY <3>1 DEF HolderInv, Journaled
    <3>4. MatchesNew(heads[op.project], Own)
      BY <3>1, <3>2, <3>3, StoredIs DEF MatchesNew
    <3> QED BY <2>3, <2>b, <3>1, <3>3, <3>4 DEF DecidedInv, Own
  <2>4. CASE op' = op /\ MarkPending
    <3>1. stage = "pending" /\ snaps' = snaps /\ Own' = journals'[op.tx]
      BY <2>4 DEF MarkPending, Own
    <3>3. /\ Own'.project = Own.project /\ Own'.expected = Own.expected /\ Own'.base = Own.base
          /\ Own'.content = Own.content /\ Own'.final = op.verdict
      BY <2>4, <3>1, Marks, JournalMarked
    <3> QED BY <2>4, <2>b, <3>1, <3>3
        DEF DecidedInv, Decided, MatchesNew, MatchesOld, SnapshotOf, StoredAs
  <2>5. CASE op' = op /\ AppendAudit
    BY <2>5, <2>b DEF AppendAudit, DecidedInv, Decided, Own, SnapshotOf, StoredAs
  <2>6. CASE Recheck \/ WriteBackup \/ WritePrepared \/ WriteSnapshot \/ WriteHead
    BY <1>2, <2>6, <2>a DEF Recheck, WriteBackup, WritePrepared, WriteSnapshot, WriteHead, Decided
  <2>7. CASE LandHeads \/ LandFails
    <3>1. stage = "landing"
      BY <2>7 DEF LandHeads, LandFails, SavingInv
    <3>2. saving[1].by = "tx" /\ stage' = "verify"
      BY <2>7, <3>1, LandedType DEF LandHeads, LandFails, SavingInv
    <3> QED BY <1>2, <3>2 DEF Decided
  <2>8. CASE UNCHANGED <<heads, snaps, journals, stage, op>>
    BY <2>8 DEF DecidedInv, Own, SnapshotOf, StoredAs
  <2> QED BY <2>a, <2>1, <2>2, <2>3, <2>4, <2>5, <2>6, <2>7, <2>8, Moves
<1> QED BY <1>1, <1>2

-----------------------------------------------------------------------------
(* The journals, the heads and what clients were told *)

\* A committed journal stays ahead of nothing: while the holder's head lands,
\* every other committed journal's head is the one replaced, or an older one.
LEMMA SurvivesLanding ==
  ASSUME IndInv, HolderInv, SavingInv, BaseInv, JournalInv, LandHeads,
         NEW t \in TxIds, journals[t] # None, journals[t].final = "COMMITTED"
  PROVE  Survives(journals[t])'
<1> DEFINE j == journals[t]
<1>1. /\ stage = "landing" /\ journals' = journals
      /\ \E s \in Stored : heads' = [heads EXCEPT ![op.project] = HeadFrom(s)]
  BY LandsOwn
<1>2. PICK s \in Stored : heads' = [heads EXCEPT ![op.project] = HeadFrom(s)]
  BY <1>1
<1>3. j \in Journal /\ j.project \in Projects /\ j.expected \in Nat /\ Survives(j)
  BY DEF IndInv, TypeOK, Journal, Revisions, JournalInv
<1>4. op.project \in Projects /\ op.revision \in Nat
  BY <1>1 DEF IndInv, LockInv, Op, Revisions
<1>5. CASE j.project # op.project
  <2>1. heads'[j.project] = heads[j.project]
    BY <1>2, <1>3, <1>4, <1>5 DEF IndInv, TypeOK, HeadMap
  <2> QED BY <1>1, <1>3, <2>1 DEF Survives
<1>6. CASE j.project = op.project
  <2>1. /\ heads'[j.project] = HeadFrom(s) /\ HeadFrom(s) # NoHead
        /\ HeadFrom(s).revision = op.revision + 1
    BY <1>1, <1>2, <1>4, <1>6, StoredIs DEF IndInv, TypeOK, HeadMap
  <2>2. heads[j.project] # NoHead /\ heads[j.project].revision = op.revision
    BY <1>1, <1>3, <1>6 DEF BaseInv, Survives, MatchesOld
  <2>3. op.revision > j.expected
    BY <1>3, <2>2 DEF Survives
  <2> QED BY <1>1, <1>3, <1>4, <2>1, <2>3 DEF Survives
<1> QED BY <1>5, <1>6

\* While a commit runs nothing is left half undone, and while a recovery
\* works on a journal no other one is.
LEMMA NoneUndone ==
  ASSUME IndInv, HolderInv, JournalInv, stage # "free", NEW t \in TxIds, journals[t] # None,
         journals[t].state = "AUDIT_PENDING", journals[t].final = "ABORTED"
  PROVE  op.mode = "recover" /\ t = op.tx
<1>1. phase # "up" /\ \A u \in Open : t <= u
  BY DEF JournalInv, Undone
<1>2. op.mode = "recover"
  BY <1>1 DEF HolderInv, IndInv, LockInv, Op
<1>3. op.tx \in Open /\ \A u \in Open : op.tx <= u
  BY <1>2 DEF HolderInv
<1>4. t \in Open
  BY DEF Open
<1>5. op.tx \in TxIds /\ t <= op.tx /\ op.tx <= t
  BY <1>1, <1>3, <1>4 DEF Open
<1> QED BY <1>2, <1>5 DEF TxIds

LEMMA JournalStep ==
  ASSUME IndInv, IndInv', HolderInv, SavingInv, BaseInv, DecidedInv, JournalInv,
         [Next]_vars, \A u \in Users, p \in Projects : ~Delete(u, p)
  PROVE  JournalInv'
<1> SUFFICES ASSUME NEW t \in TxIds, journals'[t] # None
             PROVE  /\ journals'[t].state = "PREPARED" <=> journals'[t].final = "NONE"
                    /\ journals'[t].state \in {"COMMITTED", "ABORTED"} =>
                          journals'[t].final = journals'[t].state
                    /\ journals'[t].final = "COMMITTED" => Survives(journals[t])'
                    /\ journals'[t].state = "AUDIT_PENDING" /\ journals'[t].final = "ABORTED"
                          => Undone(t)'
  BY DEF JournalInv
<1> DEFINE j == journals[t]
           k == journals'[t]
<1>a. j # None =>
        /\ j \in Journal
        /\ (j.state = "PREPARED" <=> j.final = "NONE")
        /\ j.state \in {"COMMITTED", "ABORTED"} => j.final = j.state
        /\ j.final = "COMMITTED" => Survives(j)
        /\ j.state = "AUDIT_PENDING" /\ j.final = "ABORTED" => Undone(t)
  BY DEF JournalInv, IndInv, TypeOK
<1>b. stage # "free" => op \in Op /\ op.tx \in TxIds
  BY DEF IndInv, LockInv, Op
<1>1. CASE WritePrepared /\ t = op.tx
  <2>1. k = [state |-> "PREPARED", final |-> "NONE", project |-> op.project,
             expected |-> op.revision, base |-> op.base, content |-> op.content]
    BY <1>1, <1>b DEF WritePrepared, IndInv, TypeOK
  <2> QED BY <2>1
<1>2. CASE MarkPending /\ t = op.tx
  <2>1. /\ stage = "pending" /\ heads' = heads /\ snaps' = snaps /\ phase' = phase
        /\ journals[t] = Own /\ Own' = k
        /\ op.verdict \in {"COMMITTED", "ABORTED"}
    BY <1>2, Marks DEF MarkPending, Own
  <2>2. /\ k.state = "AUDIT_PENDING" /\ k.final = op.verdict
        /\ k.project = Own.project /\ k.expected = Own.expected
        /\ k.base = Own.base /\ k.content = Own.content /\ Own \in Journal
    BY <1>2, <2>1, Marks, JournalMarked
  <2>3. Own.project = op.project /\ Own.expected \in Nat
    BY <2>1, <2>2 DEF HolderInv, Journaled, Journal, Revisions
  <2>4. CASE op.verdict = "COMMITTED"
    <3>1. MatchesNew(heads[op.project], Own)
      BY <2>1, <2>4 DEF DecidedInv, Decided
    <3> QED BY <2>1, <2>2, <2>3, <2>4, <3>1 DEF Survives, MatchesNew
  <2>5. CASE op.verdict = "ABORTED"
    <3>1. /\ op.mode = "recover" /\ MatchesOld(heads[op.project], Own)
          /\ SnapshotOf(Own) = {}
      BY <2>1, <2>5 DEF DecidedInv, Decided
    <3>2. phase = "recovering" /\ \A u \in Open : op.tx <= u
      BY <2>1, <3>1 DEF HolderInv
    <3>3. Open' = Open
      BY <1>2, JournalFrames, Marks DEF IndInv, MarkPending, WritePrepared
    <3>4. MatchesOld(heads'[k.project], k)
      BY <2>1, <2>2, <2>3, <3>1 DEF MatchesOld
    <3>5. SnapshotOf(journals[t])' = {}
      BY <2>1, <2>2, <3>1 DEF SnapshotOf, StoredAs
    <3>6. Undone(t)'
      BY <1>2, <2>1, <3>2, <3>3, <3>4, <3>5 DEF Undone
    <3> QED BY <2>2, <2>5, <3>6
  <2> QED BY <2>1, <2>4, <2>5
<1>3. CASE ~(t = op.tx /\ (WritePrepared \/ MarkPending))
  <2>a. j # None
    BY <1>3, JournalFrames, Marks, SentinelAssumption DEF IndInv, Own
  <2>1. /\ k.project = j.project /\ k.expected = j.expected /\ k.base = j.base
        /\ k.content = j.content /\ k.final = j.final
        /\ k.state = j.state \/ (WriteFinal /\ t = op.tx /\ k.state = op.verdict)
    BY <1>3, <2>a, JournalKeeps, Zenon
  <2>2. WriteFinal /\ t = op.tx => j.state = "AUDIT_PENDING" /\ j.final = op.verdict
        /\ op.verdict \in {"COMMITTED", "ABORTED"}
    BY Marks DEF WriteFinal, HolderInv, Own
  <2>3. /\ k.state = "PREPARED" <=> k.final = "NONE"
        /\ k.state \in {"COMMITTED", "ABORTED"} => k.final = k.state
    BY <1>a, <2>a, <2>1, <2>2
  <2>4. j.final = "COMMITTED" => Survives(journals[t])'
    <3>1. CASE LandHeads
      BY <2>a, <3>1, SurvivesLanding
    <3>2. CASE ~LandHeads
      <4>1. heads' = heads
        BY <3>2, Frames
      <4> QED BY <1>a, <2>a, <2>1, <4>1 DEF Survives
    <3> QED BY <3>1, <3>2
  <2>5. ASSUME k.state = "AUDIT_PENDING", k.final = "ABORTED"
        PROVE  Undone(t)'
    <3>1. j.state = "AUDIT_PENDING" /\ j.final = "ABORTED" /\ Undone(t) /\ t \in Open
      BY <1>a, <2>a, <2>1, <2>5, <2>2 DEF Open
    <3>2. stage # "free" => op.mode = "recover" /\ t = op.tx /\ Own = j
      BY <2>a, <3>1, NoneUndone DEF Own
    <3>3. heads' = heads
      BY <3>1, <3>2, Frames, LandsOwn DEF HolderInv
    <3>4. snaps' = snaps
      BY <3>2, Frames DEF WriteBackup, WriteSnapshot, HolderInv
    <3>5. phase' # "up"
      BY <3>1, Frames DEF Undone, RecoveryDone
    <3>6. Open' \subseteq Open
      <4>1. ~WritePrepared
        BY <3>2 DEF WritePrepared, HolderInv
      <4> QED BY <4>1, JournalFrames DEF IndInv
    <3>7. MatchesOld(heads'[k.project], k)
      BY <2>1, <3>1, <3>3 DEF Undone, MatchesOld
    <3>8. SnapshotOf(journals[t])' = {}
      BY <2>1, <3>1, <3>4 DEF Undone, SnapshotOf, StoredAs
    <3>9. \A u \in Open' : t <= u
      BY <3>1, <3>6 DEF Undone
    <3> QED BY <3>5, <3>7, <3>8, <3>9 DEF Undone
  <2> QED BY <2>1, <2>3, <2>4, <2>5
<1> QED BY <1>1, <1>2, <1>3

\* What was told to a client is never taken back.
LEMMA ToldStep ==
  ASSUME IndInv, HolderInv, DecidedInv, ToldInv, [Next]_vars
  PROVE  ToldInv'
<1> SUFFICES ASSUME NEW t \in acked'
             PROVE  journals'[t] # None /\ journals'[t].final = "COMMITTED"
  BY DEF ToldInv
<1>1. CASE t \in acked
  <2>1. t \in TxIds /\ journals[t] # None /\ journals[t].final = "COMMITTED"
    BY <1>1 DEF ToldInv, IndInv, TypeOK
  <2>2. MarkPending /\ t = op.tx => op.verdict = "COMMITTED"
    BY <2>1, Marks DEF MarkPending, DecidedInv, Decided, Own
  <2> QED BY <2>1, <2>2, JournalKeeps, Zenon
<1>2. CASE t \notin acked
  <2>1. /\ Succeed /\ stage \in {"audit", "final"}
        /\ WriteFinal \/ (AuditFails /\ journals' = journals)
    BY <1>2, Frames DEF WriteFinal, AuditFails
  <2>2. op.mode = "commit" /\ t = op.tx
    BY <1>2, <2>1 DEF Succeed
  <2>3. op.verdict = "COMMITTED" /\ Own.final = "COMMITTED" /\ Own \in Journal /\ t \in TxIds
    BY <2>1, <2>2 DEF HolderInv, Own, IndInv, LockInv, Op
  <2>4. journals[t].final = "COMMITTED" /\ journals[t] # None
    BY <2>2, <2>3, SentinelAssumption DEF Own
  <2>5. ~MarkPending
    BY <2>1 DEF MarkPending
  <2> QED BY <2>3, <2>4, <2>5, JournalKeeps, Zenon
<1> QED BY <1>1, <1>2

-----------------------------------------------------------------------------
(* Where heads and snapshots come from *)

LEMMA HeadOriginStep ==
  ASSUME IndInv, HolderInv, SavingInv, HeadOriginInv, SnapshotOriginInv, [Next]_vars
  PROVE  HeadOriginInv'
<1> SUFFICES ASSUME NEW p \in Projects, heads'[p] # NoHead
             PROVE  /\ journals'[heads'[p].tx] # None /\ journals'[heads'[p].tx].project = p
                    /\ MatchesNew(heads'[p], journals'[heads'[p].tx])
  BY DEF HeadOriginInv, MatchesNew
<1>1. CASE heads'[p] = heads[p]
  <2>1. heads[p].tx \in TxIds
    BY <1>1 DEF IndInv, TypeOK, HeadMap, HeadRec
  <2>2. /\ journals[heads[p].tx] # None /\ journals[heads[p].tx].project = p
        /\ MatchesNew(heads[p], journals[heads[p].tx])
    BY <1>1 DEF HeadOriginInv
  <2> QED BY <1>1, <2>1, <2>2, JournalKeeps DEF MatchesNew
<1>2. CASE heads'[p] # heads[p]
  <2>1. LandHeads
    BY <1>2, Frames
  <2>2. /\ stage = "landing" /\ journals' = journals
        /\ \E s \in Stored : heads' = [heads EXCEPT ![op.project] = HeadFrom(s)]
    BY <2>1, LandsOwn
  <2>3. PICK s \in Stored : heads' = [heads EXCEPT ![op.project] = HeadFrom(s)]
    BY <2>2
  <2>4. p = op.project /\ heads'[p] = HeadFrom(s)
    BY <1>2, <2>3 DEF IndInv, TypeOK, HeadMap
  <2>5. /\ s \in snaps /\ s.project = p /\ s.content = op.content /\ s.revision > 0
        /\ heads'[p].revision = s.revision /\ heads'[p].content = s.content
        /\ heads'[p].tx = s.tx /\ s.revision = op.revision + 1
    BY <2>2, <2>4, StoredIs
  <2> QED BY <2>2, <2>5 DEF SnapshotOriginInv, MatchesNew
<1> QED BY <1>1, <1>2

\* What a step adds to the snapshot store.
LEMMA SnapshotAdded ==
  ASSUME IndInv, HolderInv, [Next]_vars, NEW s \in snaps', s \notin snaps
  PROVE  /\ s.tx = op.tx /\ stage # "free" /\ op.mode = "commit" /\ journals' = journals
         /\ \/ s.revision = 0
            \/ stage = "snapshot" /\ s = NewSnapshot
<1>1. WriteBackup \/ WriteSnapshot
  BY Frames
<1>2. stage \in {"backup", "snapshot"} /\ op \in Op /\ op.mode = "commit"
  BY <1>1 DEF WriteBackup, WriteSnapshot, HolderInv, IndInv, LockInv
<1>3. CASE WriteBackup
  <2> DEFINE b == [project |-> op.project, revision |-> 0, content |-> op.base, tx |-> op.tx]
  <2>1. b \in Snapshot /\ PutSnapshot(b)
    BY <1>2, <1>3 DEF WriteBackup, Op, Snapshot, Revisions
  <2>2. s = b
    BY <2>1, PutSnapshotType DEF IndInv
  <2> QED BY <1>2, <1>3, <2>2 DEF WriteBackup
<1>4. CASE WriteSnapshot
  <2>1. PutSnapshot(NewSnapshot) /\ NewSnapshot \in Snapshot
    BY <1>2, <1>4, NewSnapshotType DEF WriteSnapshot
  <2>2. s = NewSnapshot
    BY <2>1, PutSnapshotType DEF IndInv
  <2> QED BY <1>2, <1>4, <2>2 DEF WriteSnapshot, NewSnapshot
<1> QED BY <1>1, <1>3, <1>4

LEMMA SnapshotOriginStep ==
  ASSUME IndInv, HolderInv, SnapshotOriginInv, [Next]_vars
  PROVE  SnapshotOriginInv'
<1> SUFFICES ASSUME NEW s \in snaps', s.revision > 0
             PROVE  /\ journals'[s.tx] # None
                    /\ s.project = journals'[s.tx].project
                    /\ s.content = journals'[s.tx].content
                    /\ s.revision = journals'[s.tx].expected + 1
  BY DEF SnapshotOriginInv
<1>1. CASE s \in snaps
  <2>1. s.tx \in TxIds
    BY <1>1 DEF IndInv, TypeOK, Snapshot
  <2> QED BY <1>1, <2>1, JournalKeeps DEF SnapshotOriginInv
<1>2. CASE s \notin snaps
  <2>1. stage = "snapshot" /\ s = NewSnapshot /\ journals' = journals
    BY <1>2, SnapshotAdded
  <2>2. /\ Own \in Journal /\ Own.project = op.project /\ Own.expected = op.revision
        /\ Own.content = op.content
    BY <2>1 DEF HolderInv, Journaled, IndInv, LockInv, Own
  <2> QED BY <2>1, <2>2, SentinelAssumption DEF NewSnapshot, Own
<1> QED BY <1>1, <1>2

\* The recovery that gives a transaction up finds neither its head nor its
\* snapshot; afterwards nobody writes either.
LEMMA NoTraceStep ==
  ASSUME IndInv, HolderInv, SavingInv, JournalInv, DecidedInv, HeadOriginInv,
         SnapshotOriginInv, NoTraceInv, [Next]_vars
  PROVE  NoTraceInv'
<1> SUFFICES ASSUME NEW t \in TxIds, journals'[t] # None, journals'[t].final = "ABORTED"
             PROVE  /\ \A p \in Projects : heads'[p] # NoHead => heads'[p].tx # t
                    /\ \A s \in snaps' : s.tx = t => s.revision = 0
  BY DEF NoTraceInv
<1>1. CASE journals[t] # None /\ journals[t].final = "ABORTED"
  <2>1. ASSUME NEW p \in Projects, heads'[p] # NoHead
        PROVE  heads'[p].tx # t
    <3>1. CASE heads'[p] = heads[p]
      BY <1>1, <2>1, <3>1 DEF NoTraceInv
    <3>2. CASE heads'[p] # heads[p]
      <4>1. LandHeads
        BY <3>2, Frames
      <4>2. /\ stage = "landing"
            /\ \E s \in Stored : heads' = [heads EXCEPT ![op.project] = HeadFrom(s)]
        BY <4>1, LandsOwn
      <4>3. PICK s \in Stored : heads' = [heads EXCEPT ![op.project] = HeadFrom(s)]
        BY <4>2
      <4>4. heads'[p] = HeadFrom(s)
        BY <3>2, <4>3 DEF IndInv, TypeOK, HeadMap
      <4>5. s \in snaps /\ s.revision # 0 /\ heads'[p].tx = s.tx
        BY <4>2, <4>4, StoredIs
      <4> QED BY <1>1, <4>5 DEF NoTraceInv
    <3> QED BY <3>1, <3>2
  <2>2. ASSUME NEW s \in snaps', s.tx = t, s.revision # 0
        PROVE  FALSE
    <3>1. s \notin snaps
      BY <1>1, <2>2 DEF NoTraceInv
    <3>2. stage = "snapshot" /\ t = op.tx
      BY <2>2, <3>1, SnapshotAdded
    <3>3. Own.state = "PREPARED"
      BY <3>2 DEF HolderInv
    <3> QED BY <1>1, <3>2, <3>3 DEF JournalInv, Own
  <2> QED BY <2>1, <2>2
<1>2. CASE ~(journals[t] # None /\ journals[t].final = "ABORTED")
  <2>1. MarkPending /\ t = op.tx /\ op.verdict = "ABORTED"
    <3>1. journals'[t] # journals[t]
      BY <1>2
    <3>2. t = op.tx /\ (WritePrepared \/ MarkPending \/ WriteFinal)
      BY <3>1, JournalFrames DEF IndInv
    <3>3. ~WritePrepared
      <4>1. ASSUME WritePrepared
            PROVE  journals'[t].final = "NONE"
        BY <3>2, <4>1 DEF WritePrepared, IndInv, TypeOK
      <4> QED BY <4>1
    <3>4. ~WriteFinal
      <4>1. ASSUME WriteFinal
            PROVE  journals[t] # None /\ journals'[t].final = journals[t].final
        BY <3>2, <4>1, Marks, JournalClosed, SentinelAssumption DEF Own
      <4> QED BY <1>2, <4>1
    <3> QED BY <3>2, <3>3, <3>4, Marks, JournalMarked
  <2>2. /\ stage = "pending" /\ heads' = heads /\ snaps' = snaps
        /\ Own = journals[t] /\ Own \in Journal
    BY <2>1, Marks DEF MarkPending, Own
  <2>3. MatchesOld(heads[op.project], Own) /\ SnapshotOf(Own) = {} /\ Own.project = op.project
    BY <2>1, <2>2 DEF DecidedInv, Decided, HolderInv, Journaled
  <2>4. ASSUME NEW p \in Projects, heads[p] # NoHead, heads[p].tx = t
        PROVE  FALSE
    <3>1. Own.project = p /\ MatchesNew(heads[p], Own)
      BY <2>2, <2>4 DEF HeadOriginInv
    <3>2. heads[p] \in HeadRec \cup {NoHead}
      BY DEF IndInv, TypeOK, HeadMap
    <3> QED BY <2>2, <2>3, <3>1, <3>2, OldOrNew
  <2>5. ASSUME NEW s \in snaps, s.tx = t, s.revision # 0
        PROVE  FALSE
    <3>1. s \in Snapshot /\ s.revision > 0
      BY <2>5 DEF IndInv, TypeOK, Snapshot, Revisions
    <3>2. s \in SnapshotOf(Own)
      BY <2>2, <2>5, <3>1 DEF SnapshotOriginInv, SnapshotOf, StoredAs
    <3> QED BY <2>3, <3>2
  <2> QED BY <2>2, <2>4, <2>5
<1> QED BY <1>1, <1>2

-----------------------------------------------------------------------------
(* The audit *)

\* A new event comes first; the others move one place back, and only the
\* oldest of a full audit drops out.
LEMMA AppendedIs ==
  ASSUME IndInv, op \in Op, Own \in Journal, ~Recorded(op.tx), Len(audit) <= MaxAudit
  PROVE  /\ Len(Appended) \in Nat /\ DOMAIN Appended = 1..Len(Appended)
         /\ Len(Appended) <= MaxAudit /\ Len(Appended) >= 1
         /\ Len(audit) < MaxAudit => Len(Appended) > Len(audit)
         /\ Len(audit) >= MaxAudit => Len(Appended) >= MaxAudit
         /\ Appended[1] = EventOf(op.tx)
         /\ \A i \in 2..Len(Appended) : i - 1 \in DOMAIN audit /\ Appended[i] = audit[i - 1]
<1> DEFINE e == <<EventOf(op.tx)>>
           l == e \o audit
<1>1. EventOf(op.tx) \in Event
  BY DEF EventOf, Event, Op
<1>2. e \in Seq(Event) /\ Len(e) = 1 /\ e[1] = EventOf(op.tx)
  BY <1>1
<1>3. audit \in Seq(Event) /\ Len(audit) \in Nat /\ DOMAIN audit = 1..Len(audit)
  BY LenProperties DEF IndInv, TypeOK
<1>4. /\ l \in Seq(Event) /\ Len(l) = Len(audit) + 1 /\ l[1] = EventOf(op.tx)
      /\ \A i \in 2..Len(l) : l[i] = audit[i - 1]
  <2> HIDE DEF e
  <2>1. /\ l \in Seq(Event) /\ Len(l) = Len(e) + Len(audit)
        /\ \A i \in 1..(Len(e) + Len(audit)) :
              l[i] = IF i <= Len(e) THEN e[i] ELSE audit[i - Len(e)]
    BY <1>2, <1>3, ConcatProperties
  <2> QED BY <1>2, <1>3, <2>1
<1>5. Appended = Trim(l)
  BY DEF Appended
<1> HIDE DEF l
<1>6. MaxAudit \in Nat /\ MaxAudit >= 1
  BY BoundsAssumption
<1>7. CASE Len(l) > MaxAudit
  <2>1. Appended = SubSeq(l, 1, MaxAudit)
    BY <1>5, <1>7 DEF Trim
  <2>2. \A i \in 1..MaxAudit : l[i] \in Event
    BY <1>3, <1>4, <1>6, <1>7, ElementOfSeq
  <2>3. /\ Appended \in Seq(Event) /\ Len(Appended) = MaxAudit
        /\ \A i \in 1..MaxAudit : Appended[i] = l[i]
    BY <1>3, <1>4, <1>6, <1>7, <2>1, <2>2, SubSeqProperties
  <2>4. DOMAIN Appended = 1..Len(Appended)
    BY <2>3, LenProperties
  <2> QED BY <1>3, <1>4, <1>6, <1>7, <2>3, <2>4
<1>8. CASE ~(Len(l) > MaxAudit)
  <2>1. Appended = l
    BY <1>5, <1>8 DEF Trim
  <2>2. DOMAIN l = 1..Len(l)
    BY <1>4, LenProperties
  <2> QED BY <1>3, <1>4, <1>6, <1>8, <2>1, <2>2
<1> QED BY <1>7, <1>8

\* Which steps write the audit, and what they write.
LEMMA AuditWritten ==
  ASSUME IndInv, [Next]_vars, audit' # audit
  PROVE  /\ stage = "audit" /\ audit' = Appended /\ ~Recorded(op.tx) /\ journals' = journals
         /\ op \in Op /\ Own \in Journal
<1>1. AppendAudit \/ AuditFails
  BY Frames
<1>2. stage = "audit" /\ audit' = Appended /\ journals' = journals
  BY <1>1 DEF AppendAudit, AuditFails
<1>3. ~Recorded(op.tx)
  BY <1>2 DEF Appended
<1> QED BY <1>2, <1>3 DEF IndInv, LockInv, Own

\* A verdict once in the journal is not replaced by the other one.
LEMMA VerdictKept ==
  ASSUME IndInv, HolderInv, JournalInv, DecidedInv, MarkPending
  PROVE  Own.final \in {"NONE", op.verdict}
<1>1. /\ stage = "pending" /\ Own \in Journal /\ op.tx \in TxIds
      /\ op.verdict \in {"COMMITTED", "ABORTED"}
  BY Marks DEF MarkPending
<1>2. CASE op.verdict = "ABORTED"
  BY <1>1, <1>2 DEF DecidedInv, Decided, Journal
<1>3. CASE op.verdict = "COMMITTED"
  <2>1. MatchesNew(heads[op.project], Own)
    BY <1>1, <1>3 DEF DecidedInv, Decided
  <2>2. ASSUME Own.final = "ABORTED"
        PROVE  FALSE
    <3>1. Own.state = "AUDIT_PENDING" /\ Own.project = op.project /\ Own # None
      BY <1>1, <2>2, SentinelAssumption DEF HolderInv, Journaled, JournalInv, Own
    <3>2. MatchesOld(heads[op.project], Own)
      BY <1>1, <2>2, <3>1 DEF JournalInv, Undone, Own
    <3>3. heads[op.project] \in HeadRec \cup {NoHead}
      BY <1>1 DEF IndInv, TypeOK, HeadMap, LockInv, Op
    <3> QED BY <1>1, <2>1, <3>2, <3>3, OldOrNew
  <2> QED BY <1>1, <1>3, <2>2 DEF Journal
<1> QED BY <1>1, <1>2, <1>3

LEMMA AuditStep ==
  ASSUME IndInv, IndInv', HolderInv, JournalInv, DecidedInv, AuditInv, AuditFaithful,
         [Next]_vars, \A u \in Users, p \in Projects : ~Delete(u, p)
  PROVE  AuditInv' /\ AuditFaithful'
<1>a. /\ Len(audit) \in Nat /\ DOMAIN audit = 1..Len(audit) /\ Len(audit) <= MaxAudit
      /\ MaxAudit \in Nat
      /\ \A i \in DOMAIN audit : audit[i] \in Event
  BY LenProperties, ElementOfSeq, BoundsAssumption DEF IndInv, TypeOK, AuditInv
<1>b. Len(audit) \in Nat /\ MaxAudit \in Nat
  BY <1>a
<1>1. CASE audit' # audit
  <2>1. /\ stage = "audit" /\ audit' = Appended /\ ~Recorded(op.tx) /\ journals' = journals
        /\ op \in Op /\ Own \in Journal
    BY <1>1, AuditWritten
  <2>2. /\ Len(audit') \in Nat /\ DOMAIN audit' = 1..Len(audit') /\ Len(audit') <= MaxAudit /\ Len(audit') >= 1
        /\ Len(audit) < MaxAudit => Len(audit') > Len(audit)
        /\ Len(audit) >= MaxAudit => Len(audit') >= MaxAudit
        /\ audit'[1] = EventOf(op.tx)
        /\ \A i \in 2..Len(audit') : i - 1 \in DOMAIN audit /\ audit'[i] = audit[i - 1]
    BY <1>a, <2>1, AppendedIs
  <2>3. /\ Own.final = op.verdict /\ Own.state = "AUDIT_PENDING"
        /\ op.verdict \in {"COMMITTED", "ABORTED"} /\ Own # None
    BY <2>1, SentinelAssumption DEF HolderInv, Op
  <2>4. audit'[1].tx = op.tx
    BY <2>2 DEF EventOf
  <2>5. AuditInv'
    <3>1. op' = op \/ stage' = "free"
      BY <1>1, Frames DEF AppendAudit, AuditFails, Raise, Succeed, Release
    <3>2. \E i \in DOMAIN audit' : audit'[i].tx = op.tx
      BY <2>2, <2>4
    <3> QED BY <2>2, <3>1, <3>2 DEF AuditInv, Recorded
  <2>6. ASSUME NEW i \in DOMAIN audit', NEW k \in DOMAIN audit', audit'[i].tx = audit'[k].tx
        PROVE  i = k
    <3>1. \A m \in 2..Len(audit') : audit'[m].tx # op.tx
      BY <2>1, <2>2 DEF Recorded
    <3>2. (i \in 2..Len(audit') /\ k \in 2..Len(audit')) \/ i = k
      BY <2>2, <2>4, <2>6, <3>1
    <3>3. CASE i \in 2..Len(audit') /\ k \in 2..Len(audit')
      <4>1. i - 1 = k - 1
        BY <2>2, <2>6, <3>3 DEF AuditFaithful
      <4> QED BY <3>3, <4>1
    <3> QED BY <3>2, <3>3
  <2>7. ASSUME NEW i \in DOMAIN audit'
        PROVE  /\ journals[audit'[i].tx] # None
               /\ journals[audit'[i].tx].final =
                     IF audit'[i].result = "aborted" THEN "ABORTED" ELSE "COMMITTED"
    <3>1. CASE i = 1
      BY <2>2, <2>3, <3>1 DEF EventOf, Own
    <3>2. CASE i # 1
      BY <2>2, <3>2 DEF AuditFaithful
    <3> QED BY <3>1, <3>2
  <2>8. ASSUME NEW t \in TxIds, journals[t] # None,
               journals[t].state \in {"COMMITTED", "ABORTED"}
        PROVE  (\E i \in DOMAIN audit' : audit'[i].tx = t) \/ Len(audit') = MaxAudit
    <3>1. CASE Len(audit) >= MaxAudit
      <4>1. /\ Len(audit') >= MaxAudit /\ Len(audit') <= MaxAudit
            /\ Len(audit') \in Nat /\ MaxAudit \in Nat
        BY <1>a, <2>2, <3>1
      <4> QED BY <4>1
    <3>2. CASE Len(audit) < MaxAudit
      <4>0. Len(audit) # MaxAudit
        BY <1>b, <3>2
      <4>1. PICK i \in DOMAIN audit : audit[i].tx = t
        BY <2>8, <4>0 DEF AuditFaithful, Recorded
      <4>2. Len(audit') > Len(audit)
        BY <1>a, <2>2, <3>2
      <4>3. i + 1 \in 2..Len(audit') /\ (i + 1) - 1 = i
        BY <1>a, <2>2, <4>2
      <4>4. audit'[i + 1].tx = t /\ i + 1 \in DOMAIN audit'
        BY <2>2, <4>1, <4>3
      <4> QED BY <4>4
    <3> QED BY <1>a, <3>1, <3>2
  <2>9. AuditFaithful'
    BY <2>1, <2>6, <2>7, <2>8 DEF AuditFaithful, Recorded
  <2> QED BY <2>5, <2>9
<1>2. CASE audit' = audit
  <2>1. AuditInv'
    <3>1. CASE stage' # "final"
      BY <1>2, <3>1 DEF AuditInv
    <3>2. CASE stage' = "final"
      <4>a. ~Raise
        BY <3>2 DEF Raise, Release
      <4>1. ASSUME NEW u \in Users, Begin(u)
            PROVE  FALSE
        BY <3>2, <4>1 DEF Begin
      <4>2. ~Recover
        BY <3>2 DEF Recover
      <4>3. CASE AppendAudit
        <5>1. stage = "audit" /\ audit' = Appended
          BY <4>3 DEF AppendAudit
        <5>2. op \in Op /\ Own \in Journal
          BY <5>1 DEF IndInv, LockInv, Own
        <5>3. Recorded(op.tx)
          <6> SUFFICES ASSUME ~Recorded(op.tx) PROVE FALSE
            OBVIOUS
          <6>1. 1 \in DOMAIN Appended /\ Appended[1] = EventOf(op.tx)
            BY <1>a, <5>2, AppendedIs
          <6>2. 1 \in DOMAIN audit /\ audit[1].tx = op.tx
            BY <1>2, <5>1, <6>1 DEF EventOf
          <6> QED BY <6>2 DEF Recorded
        <5>4. op' = op
          BY <4>3, <4>a DEF AppendAudit
        <5> QED BY <1>2, <5>3, <5>4 DEF AuditInv, Recorded
      <4>4. CASE Recheck \/ WriteBackup \/ WritePrepared \/ WriteSnapshot \/ WriteHead
        BY <3>2, <4>4, <4>a DEF Recheck, WriteBackup, WritePrepared, WriteSnapshot, WriteHead
      <4>5. CASE VerifyHead \/ MarkPending
        BY <3>2, <4>5, <4>a DEF VerifyHead, MarkPending
      <4>6. CASE LandHeads \/ LandFails
        <5>1. stage' = stage /\ op' = op
          BY <3>2, <4>6, LandedType DEF IndInv, LandHeads, LandFails
        <5> QED BY <1>2, <5>1 DEF AuditInv, Recorded
      <4>7. CASE UNCHANGED <<stage, op>>
        BY <1>2, <4>7 DEF AuditInv, Recorded
      <4> QED BY <3>2, <4>1, <4>2, <4>3, <4>4, <4>5, <4>6, <4>7, Moves DEF IndInv
    <3> QED BY <3>1, <3>2
  <2>2. ASSUME NEW i \in DOMAIN audit
        PROVE  /\ journals'[audit[i].tx] # None
               /\ journals'[audit[i].tx].final =
                     IF audit[i].result = "aborted" THEN "ABORTED" ELSE "COMMITTED"
    <3> DEFINE t == audit[i].tx
    <3>1. t \in TxIds /\ journals[t] # None
          /\ journals[t].final = IF audit[i].result = "aborted" THEN "ABORTED" ELSE "COMMITTED"
      BY <1>a DEF Event, AuditFaithful
    <3>2. ASSUME MarkPending, t = op.tx
          PROVE  op.verdict = journals[t].final
      BY <3>1, <3>2, VerdictKept DEF Own
    <3>3. journals'[t] # None /\ journals'[t].final = journals[t].final
      BY <3>1, <3>2, JournalKeeps
    <3> QED BY <3>1, <3>3
  <2>3. ASSUME NEW t \in TxIds, journals'[t] # None,
               journals'[t].state \in {"COMMITTED", "ABORTED"}
        PROVE  Recorded(t) \/ Len(audit) = MaxAudit
    <3>1. CASE journals'[t] = journals[t]
      BY <2>3, <3>1 DEF AuditFaithful
    <3>2. CASE journals'[t] # journals[t]
      <4>1. t = op.tx /\ (WritePrepared \/ MarkPending \/ WriteFinal)
        BY <3>2, JournalFrames DEF IndInv
      <4>2. ~MarkPending
        BY <2>3, <4>1, Marks, JournalMarked
      <4>3. ~WritePrepared
        <5>1. ASSUME WritePrepared
              PROVE  journals'[t].state = "PREPARED"
          BY <4>1, <5>1 DEF WritePrepared, IndInv, TypeOK
        <5> QED BY <2>3, <5>1
      <4>4. stage = "final"
        BY <4>1, <4>2, <4>3 DEF WriteFinal
      <4> QED BY <4>1, <4>4 DEF AuditInv
    <3> QED BY <3>1, <3>2
  <2>4. AuditFaithful'
    BY <1>2, <2>2, <2>3 DEF AuditFaithful, Recorded
  <2> QED BY <2>1, <2>4
<1> QED BY <1>1, <1>2

-----------------------------------------------------------------------------
(* Theorems *)

LEMMA HistoryInit == Init => History
<1> SUFFICES ASSUME Init PROVE History
  OBVIOUS
<1>1. <<>> \in Seq(Event) /\ Len(<<>>) = 0 /\ DOMAIN <<>> = {}
  BY EmptySeq, LenProperties
<1>2. HolderInv /\ SavingInv /\ BaseInv /\ DecidedInv
  BY DEF Init, HolderInv, SavingInv, BaseInv, DecidedInv, Journaled, Decided
<1>3. JournalInv /\ ToldInv /\ HeadOriginInv /\ SnapshotOriginInv /\ NoTraceInv
  BY DEF Init, JournalInv, ToldInv, HeadOriginInv, SnapshotOriginInv, NoTraceInv
<1>4. AuditInv /\ AuditFaithful
  BY <1>1, BoundsAssumption DEF Init, AuditInv, AuditFaithful
<1> QED BY <1>2, <1>3, <1>4 DEF History

LEMMA HistoryStep == IndInv /\ IndInv' /\ HistoryInv /\ [Next]_vars => HistoryInv'
<1> SUFFICES ASSUME IndInv, IndInv', HistoryInv, [Next]_vars, deletes' = 0
             PROVE  History'
  BY DEF HistoryInv
<1>1. History /\ \A u \in Users, p \in Projects : ~Delete(u, p)
  BY BeforeDelete DEF IndInv, HistoryInv
<1>2. HolderInv' /\ SavingInv' /\ BaseInv'
  BY <1>1, HolderStep, SavingStep, BaseStep DEF History
<1>3. DecidedInv' /\ JournalInv' /\ ToldInv'
  BY <1>1, <1>2, DecidedStep, JournalStep, ToldStep DEF History
<1>4. HeadOriginInv' /\ SnapshotOriginInv' /\ NoTraceInv'
  BY <1>1, HeadOriginStep, SnapshotOriginStep, NoTraceStep DEF History
<1>5. AuditInv' /\ AuditFaithful'
  BY <1>1, AuditStep DEF History
<1> QED BY <1>2, <1>3, <1>4, <1>5 DEF History

\* Up to the first delete, whatever writes fail and wherever crashes fall, what
\* the holder does is what its journal says, a verdict in a journal is the truth
\* about the head and the snapshots, and every head, snapshot, audit event and
\* answer to a client comes from a journal.
THEOREM HistoryHolds == Spec => []HistoryInv
<1>1. Init => HistoryInv
  BY HistoryInit DEF HistoryInv
<1>2. IndInv /\ IndInv' /\ HistoryInv /\ [Next]_vars => HistoryInv'
  BY HistoryStep
<1> QED BY <1>1, <1>2, Inductive, PTL DEF Spec

\* The audit tells the journal's story, however often recovery repeats the
\* audit write, until the first delete.
THEOREM AuditIsFaithful == Spec => [](deletes = 0 => AuditFaithful)
<1>1. HistoryInv => (deletes = 0 => AuditFaithful)
  BY DEF HistoryInv, History
<1> QED BY <1>1, HistoryHolds, PTL

\* No head and no snapshot of an aborted transaction exists, until the first
\* delete: what the audit calls aborted cannot be read or rolled back to.
THEOREM AbortedInvisible == Spec => []AbortedLeaveNoTrace
<1>1. HistoryInv => AbortedLeaveNoTrace
  BY DEF HistoryInv, History, NoTraceInv, AbortedLeaveNoTrace
<1> QED BY <1>1, HistoryHolds, PTL

\* The revision a client was told is committed outlives every crash, failing
\* write and recovery, until a later revision is built on it, or a project is
\* deleted.
THEOREM ReceiptsDurable == Spec => []ReceiptsSurvive
<1>1. IndInv /\ HistoryInv => ReceiptsSurvive
  <2> SUFFICES ASSUME IndInv, History PROVE ReceiptsSurvive
    BY DEF HistoryInv, ReceiptsSurvive
  <2>1. ASSUME NEW t \in acked
        PROVE  /\ journals[t] # None /\ journals[t].final = "COMMITTED"
               /\ Survives(journals[t])
    BY DEF History, ToldInv, JournalInv, IndInv, TypeOK
  <2> QED BY <2>1 DEF ReceiptsSurvive, Survives
<1> QED BY <1>1, Inductive, HistoryHolds, PTL

LEMMA AdvanceStep ==
  ASSUME IndInv, IndInv', History, [Next]_vars, NEW p \in Projects,
         heads'[p] # heads[p]
  PROVE  /\ op.tx \in TxIds /\ Own # None /\ Own.project = p /\ Own.state = "PREPARED"
         /\ MatchesOld(heads[p], Own) /\ MatchesNew(heads'[p], Own)
<1>1. LandHeads
  BY Frames
<1>2. /\ stage = "landing"
      /\ \E s \in Stored : heads' = [heads EXCEPT ![op.project] = HeadFrom(s)]
  BY <1>1, LandsOwn DEF History
<1>3. PICK s \in Stored : heads' = [heads EXCEPT ![op.project] = HeadFrom(s)]
  BY <1>2
<1>4. p = op.project /\ heads'[p] = HeadFrom(s)
  BY <1>3 DEF IndInv, TypeOK, HeadMap
<1>5. /\ Own \in Journal /\ Own.state = "PREPARED" /\ Own.project = op.project
      /\ Own.expected = op.revision /\ Own.base = op.base /\ Own.content = op.content
      /\ op.tx \in TxIds
  BY <1>2 DEF History, HolderInv, Journaled, Own, IndInv, LockInv, Op
<1>6. MatchesOld(heads[p], Own)
  BY <1>2, <1>4, <1>5 DEF History, BaseInv, MatchesOld
<1>7. MatchesNew(heads'[p], Own)
  BY <1>2, <1>4, <1>5, StoredIs DEF MatchesNew
<1> QED BY <1>4, <1>5, <1>6, <1>7, SentinelAssumption

\* No lost update: as long as no project is deleted, every change of a head is
\* the next revision, written for the journaled transaction whose base is the
\* very head it replaces.
THEOREM HeadsOnlyAdvance == Spec => HeadsAdvance
<1>1. IndInv /\ IndInv' /\ HistoryInv /\ [Next]_vars =>
        [deletes' = 0 => \A p \in Projects : heads'[p] # heads[p] /\ heads'[p] # NoHead =>
          \E t \in TxIds :
              /\ journals[t] # None /\ journals[t].project = p
              /\ journals[t].state = "PREPARED"
              /\ MatchesOld(heads[p], journals[t])
              /\ MatchesNew(heads'[p], journals[t])]_vars
  BY AdvanceStep, BeforeDelete DEF HistoryInv, IndInv, Own
<1> QED BY <1>1, Inductive, HistoryHolds, PTL DEF Spec, HeadsAdvance

=============================================================================
