--------------------- MODULE ProjectTransactions_proofs ---------------------
(***************************************************************************)
(* Theorems about the transaction coordinator, for every set of users,     *)
(* projects and contents and every bound.  TypeOK alone is not inductive:  *)
(* a step reads op.tx, journals[op.tx] or request[Head(waiting)], so that  *)
(* the type of what it writes rests on who holds the lock and on nobody    *)
(* having two requests in flight.  LockInv and ClientInv say just that,    *)
(* BackupInv that the backup stage still has no backup to collide with.    *)
(***************************************************************************)
EXTENDS ProjectTransactions, SequenceTheorems, TLAPS

\* The holder of the lock works on a well-formed operation, from "snapshot" on
\* with a journal of its own, and no heads save is its own but while landing.
LockInv ==
    /\ stage # "free" => op \in Op
    /\ stage \in {"snapshot", "head", "landing", "verify", "pending", "audit", "final"} =>
          journals[op.tx] \in Journal
    /\ stage # "landing" => \A i \in DOMAIN saving : saving[i].by # "tx"

\* One request in flight per user: it waits for the lock, holds it, or is a
\* delete whose save is on its way.
Queued(u)   == request[u] # None /\ request[u].kind # "delete"
Deleting(u) == request[u] # None /\ request[u].kind = "delete"

ClientInv ==
    /\ \A i \in DOMAIN waiting : Queued(waiting[i])
    /\ \A i, j \in DOMAIN waiting : waiting[i] = waiting[j] => i = j
    /\ stage # "free" /\ op.mode = "commit" =>
          /\ op.user \in Users /\ Queued(op.user)
          /\ \A i \in DOMAIN waiting : waiting[i] # op.user
    /\ \A i \in DOMAIN saving : saving[i].by # "tx" => Deleting(saving[i].by)
    /\ \A i, j \in DOMAIN saving : saving[i].by = saving[j].by => i = j

\* The stages at which the journal of the transaction at work is written.
Journaled == {"snapshot", "head", "landing", "verify", "pending", "audit", "final"}

\* What the backup stage is about to write is not there yet.
BackupInv == stage = "backup" => StoredAs(op.project, 0, op.base) = {}

IndInv == TypeOK /\ LockInv /\ ClientInv

-----------------------------------------------------------------------------
(* Lemmas about the operators of the model *)

\* Store.async_load returns a well-formed heads file.
LEMMA LoadedType == ASSUME TypeOK PROVE Loaded \in HeadMap
<1>1. Len(saving) \in Nat /\ \A i \in 1..Len(saving) : saving[i] \in Save
  BY LenProperties, ElementOfSeq DEF TypeOK
<1>2. CASE Len(saving) > 1
  BY <1>1, <1>2 DEF Loaded, TypeOK, Save
<1>3. CASE ~(Len(saving) > 1)
  BY <1>3 DEF Loaded, TypeOK
<1> QED BY <1>1, <1>2, <1>3

\* Finishing the first save leaves the other callers in line, in order.
LEMMA WaitingSaves ==
  ASSUME NEW s \in Seq(Save), s # <<>>
  PROVE  /\ Waiting(Tail(s)) \in Seq(Save)
         /\ DOMAIN Waiting(Tail(s)) = 1..(Len(s) - 1)
         /\ \A i \in 1..(Len(s) - 1) : Waiting(Tail(s))[i].by = s[i + 1].by
         /\ \A i \in 1..(Len(s) - 1) : i + 1 \in DOMAIN s
<1> DEFINE r == Tail(s)
<1>1. /\ r \in Seq(Save) /\ Len(r) = Len(s) - 1 /\ Len(s) \in Nat /\ DOMAIN s = 1..Len(s)
      /\ \A i \in 1..Len(r) : r[i] = s[i + 1]
  BY HeadTailProperties, LenProperties
<1>2. Len(r) \in Nat /\ DOMAIN r = 1..Len(r)
  BY <1>1, LenProperties
<1>3. \A i \in 1..Len(r) : r[i] \in Save
  BY <1>1, ElementOfSeq
<1>4. \A i \in 1..Len(r) :
        /\ Waiting(r)[i] = [r[i] EXCEPT !.heads = IF i = 1 THEN r[Len(r)].heads ELSE None]
        /\ Waiting(r)[i] \in Save /\ Waiting(r)[i].by = r[i].by
  BY <1>2, <1>3 DEF Waiting, Save
<1>5. Waiting(r) \in [1..Len(r) -> Save]
  BY <1>2, <1>4 DEF Waiting
<1>6. Waiting(r) \in Seq(Save)
  BY <1>2, <1>5, SeqDef
<1> QED BY <1>1, <1>2, <1>4, <1>6 DEF Waiting

\* append_audit keeps a sequence of events.
LEMMA AppendedType ==
  ASSUME TypeOK, op \in Op, journals[op.tx] \in Journal
  PROVE  Appended \in Seq(Event)
<1>1. <<EventOf(op.tx)>> \in Seq(Event)
  BY DEF EventOf, Event, Op
<1>2. <<EventOf(op.tx)>> \o audit \in Seq(Event)
  BY <1>1, ConcatProperties DEF TypeOK
<1>3. ASSUME NEW s \in Seq(Event), Len(s) > MaxAudit
      PROVE  SubSeq(s, 1, MaxAudit) \in Seq(Event)
  <2>1. Len(s) \in Nat /\ \A i \in 1..MaxAudit : s[i] \in Event
    BY <1>3, LenProperties, ElementOfSeq, BoundsAssumption
  <2> QED BY <2>1, SubSeqProperties, BoundsAssumption
<1> QED BY <1>2, <1>3 DEF Appended, Trim, TypeOK

\* Pruning only ever drops snapshots.
LEMMA PutSnapshotType ==
  ASSUME TypeOK, NEW s \in Snapshot, PutSnapshot(s)
  PROVE  snaps' \subseteq snaps \cup {s} /\ snaps' \subseteq Snapshot
BY DEF PutSnapshot, Pruned, TypeOK

LEMMA NewSnapshotType == ASSUME op \in Op PROVE NewSnapshot \in Snapshot
BY DEF NewSnapshot, Op, Snapshot, Revisions

LEMMA HeadFromType == ASSUME NEW s \in Snapshot PROVE HeadFrom(s) \in HeadRec
BY DEF HeadFrom, Snapshot, HeadRec

LEMMA HeadFields ==
  ASSUME NEW h \in HeadRec \cup {NoHead}
  PROVE  RevisionOf(h) \in Revisions /\ ContentOf(h) \in Config
BY DEF RevisionOf, ContentOf, HeadRec, Config, Revisions

\* Who waits in line, and who has a save on its way.
LEMMA MemberTypes ==
  ASSUME TypeOK
  PROVE  /\ \A i \in DOMAIN waiting : waiting[i] \in Users
         /\ \A i \in DOMAIN saving : saving[i].by \in Users \cup {"tx"}
<1>1. waiting \in Seq(Users) /\ saving \in Seq(Save)
  BY DEF TypeOK
<1>2. \A i \in DOMAIN waiting : waiting[i] \in Users
  BY <1>1, LenProperties, ElementOfSeq
<1>3. \A i \in DOMAIN saving : saving[i] \in Save
  BY <1>1, LenProperties, ElementOfSeq
<1> QED BY <1>2, <1>3 DEF Save

\* Answering one user leaves the client's tables well-formed.
LEMMA AnswerType ==
  ASSUME TypeOK, NEW u \in Users, Answer(u)
  PROVE  /\ request' \in [Users -> Request \cup {None}]
         /\ previews' \in [Users -> [Projects -> Preview \cup {None}]]
BY DEF Answer, TypeOK

-----------------------------------------------------------------------------
(* Which step writes what *)

LEMMA Frames ==
  ASSUME [Next]_vars
  PROVE  /\ heads' # heads => LandHeads
         /\ snaps' # snaps => WriteBackup \/ WriteSnapshot
         /\ journals' # journals => WritePrepared \/ MarkPending \/ WriteFinal
         /\ audit' # audit => AppendAudit \/ AuditFails
         /\ acked' # acked => Succeed /\ (WriteFinal \/ AuditFails)
         /\ phase' = "up" => phase = "up" \/ RecoveryDone
<1> USE DEF durable, client, bounds
<1>1. CASE UNCHANGED vars
  BY <1>1 DEF vars
<1>2. CASE ClientNext
  BY <1>2 DEF ClientNext, MakePreview, DropPreview, RequestApply, RequestRollback, Enqueue, Delete
<1>3. CASE LockNext
  BY <1>3 DEF LockNext, Begin, Conflict, Recheck, Deny, Raise
<1>4. CASE CommitNext \/ LandHeads
  BY <1>4 DEF CommitNext, WriteBackup, WritePrepared, WriteSnapshot, WriteHead, LandHeads,
     VerifyHead, MarkPending, AppendAudit, WriteFinal, Raise, Succeed
<1>5. CASE FaultNext
  BY <1>5 DEF FaultNext, WriteFails, HeadFails, LandFails, AuditFails, Raise, Succeed
<1>6. CASE RecoveryNext \/ Crash
  BY <1>6 DEF RecoveryNext, Load, Recover, RecoveryDone, Crash
<1> QED BY <1>1, <1>2, <1>3, <1>4, <1>5, <1>6 DEF Next

-----------------------------------------------------------------------------
(* Steps shared by many actions *)

\* The end of a transaction, in success or with an exception: what it leaves
\* of the client's tables and of the lock is well-formed.
LEMMA OverType ==
  ASSUME TypeOK, LockInv, ClientInv, stage # "free", Raise \/ Succeed
  PROVE  /\ request' \in [Users -> Request \cup {None}]
         /\ previews' \in [Users -> [Projects -> Preview \cup {None}]]
         /\ waiting' = waiting /\ stage' = "free" /\ op' = None
         /\ phase' \in Phases /\ acked' \subseteq TxIds
<1>0. op \in Op /\ op.tx \in TxIds
  BY DEF LockInv, Op
<1>1. waiting' = waiting /\ stage' = "free" /\ op' = None
  BY DEF Raise, Succeed, Release
<1>2. phase' \in Phases /\ acked' \subseteq TxIds
  BY <1>0 DEF Raise, Succeed, TypeOK, Phases
<1>3. CASE op.mode = "commit"
  <2>1. op.user \in Users /\ Answer(op.user)
    BY <1>3 DEF Raise, Succeed, ClientInv
  <2> QED BY <1>1, <1>2, <2>1, AnswerType
<1>4. CASE op.mode # "commit"
  BY <1>1, <1>2, <1>4 DEF Raise, Succeed, TypeOK
<1> QED BY <1>3, <1>4

\* After it everybody still in line, and every delete on its way, is waiting
\* for the answer to the same request as before.
LEMMA OverClient ==
  ASSUME TypeOK, LockInv, ClientInv, stage # "free", saving' = saving,
         Raise \/ Succeed
  PROVE  ClientInv'
<1>1. waiting' = waiting /\ stage' = "free"
  BY DEF Raise, Succeed, Release
<1>2. CASE op.mode = "commit"
  <2>1. op.user \in Users /\ request' = [request EXCEPT ![op.user] = None]
    BY <1>2 DEF Raise, Succeed, Answer, ClientInv
  <2>2. \A i \in DOMAIN waiting : waiting[i] # op.user
    BY <1>2 DEF ClientInv
  <2>3. \A i \in DOMAIN saving : saving[i].by # op.user
    BY <1>2, SetsAssumption DEF ClientInv, Queued, Deleting
  <2>4. /\ \A i \in DOMAIN waiting : waiting[i] \in Users
        /\ \A i \in DOMAIN saving : saving[i].by \in Users \cup {"tx"}
    BY MemberTypes
  <2>5. \A u \in Users : u # op.user => request'[u] = request[u]
    BY <2>1 DEF TypeOK
  <2> QED
    BY <1>1, <2>2, <2>3, <2>4, <2>5 DEF ClientInv, Queued, Deleting
<1>3. CASE op.mode # "commit"
  BY <1>1, <1>3 DEF Raise, Succeed, ClientInv, Queued, Deleting
<1> QED BY <1>2, <1>3

\* Whoever is first in line has asked for something, and gets to work on it.
LEMMA FirstInLine ==
  ASSUME TypeOK, ClientInv, waiting # <<>>
  PROVE  /\ 1 \in DOMAIN waiting /\ Head(waiting) = waiting[1]
         /\ Queued(Head(waiting)) /\ request[Head(waiting)] \in Request
<1>1. 1 \in DOMAIN waiting /\ Head(waiting) = waiting[1] /\ waiting[1] \in Users
  BY LenProperties, EmptySeq, HeadTailProperties DEF TypeOK
<1> QED BY <1>1 DEF ClientInv, Queued, TypeOK

LEMMA BeginType ==
  ASSUME TypeOK, ClientInv, NEW u \in Users, Begin(u)
  PROVE  op' \in Op /\ op'.mode = "commit" /\ op'.user = u
<1>1. request[u] \in Request
  BY FirstInLine DEF Begin
<1>2. ContentOf(Loaded[request[u].project]) \in Config
  BY <1>1, LoadedType, HeadFields DEF HeadMap, Request
<1> QED BY <1>1, <1>2 DEF Begin, Op, Request, FreshTx, Unjournaled

\* The first heads save is over, written or lost.
LEMMA LandedType ==
  ASSUME TypeOK, LockInv, ClientInv, saving # <<>>, Landed(Head(saving).by)
  PROVE  /\ request' \in [Users -> Request \cup {None}]
         /\ previews' \in [Users -> [Projects -> Preview \cup {None}]]
         /\ stage' \in Stages
         /\ Head(saving) = saving[1] /\ 1 \in DOMAIN saving
         /\ saving[1].by = "tx" => stage = "landing" /\ stage' = "verify"
         /\ saving[1].by # "tx" => stage' = stage /\ saving[1].by \in Users
<1>1. Head(saving) = saving[1] /\ 1 \in DOMAIN saving /\ saving[1] \in Save
  BY LenProperties, EmptySeq, ElementOfSeq DEF TypeOK
<1>2. CASE saving[1].by = "tx"
  BY <1>1, <1>2 DEF Landed, LockInv, TypeOK, Stages
<1>3. CASE saving[1].by # "tx"
  <2>1. saving[1].by \in Users /\ Answer(saving[1].by) /\ stage' = stage
    BY <1>1, <1>3 DEF Landed, Save
  <2> QED BY <1>1, <1>3, <2>1, AnswerType DEF TypeOK
<1> QED BY <1>2, <1>3

LEMMA LandedLockClient ==
  ASSUME TypeOK, LockInv, ClientInv, saving # <<>>, Landed(Head(saving).by),
         saving' = Waiting(Tail(saving)), UNCHANGED <<journals, op, waiting>>
  PROVE  LockInv' /\ ClientInv'
<1> DEFINE n == Len(saving)
<1>1. /\ DOMAIN saving' = 1..(n - 1) /\ DOMAIN saving = 1..n /\ n \in Nat
      /\ \A i \in 1..(n - 1) : i + 1 \in DOMAIN saving /\ i + 1 # 1
      /\ \A i \in 1..(n - 1) : saving'[i].by = saving[i + 1].by
  BY WaitingSaves, LenProperties DEF TypeOK
<1>2. /\ Head(saving) = saving[1] /\ 1 \in DOMAIN saving
      /\ saving[1].by = "tx" => stage = "landing" /\ stage' = "verify"
      /\ saving[1].by # "tx" => stage' = stage /\ saving[1].by \in Users
  BY LandedType
<1>3. \A i \in DOMAIN saving' : saving'[i].by # saving[1].by
  <2> SUFFICES ASSUME NEW i \in 1..(n - 1)
               PROVE  saving'[i].by # saving[1].by
    BY <1>1
  <2>1. saving'[i].by = saving[i + 1].by /\ i + 1 \in DOMAIN saving /\ i + 1 # 1
    BY <1>1
  <2> QED BY <1>2, <2>1 DEF ClientInv
<1>4. \A i, j \in DOMAIN saving' : saving'[i].by = saving'[j].by => i = j
  <2> SUFFICES ASSUME NEW i \in 1..(n - 1), NEW j \in 1..(n - 1),
                      saving'[i].by = saving'[j].by
               PROVE  i = j
    BY <1>1
  <2>1. saving[i + 1].by = saving[j + 1].by /\ i + 1 \in DOMAIN saving /\ j + 1 \in DOMAIN saving
    BY <1>1
  <2>2. i + 1 = j + 1
    BY <2>1 DEF ClientInv
  <2> QED BY <1>1, <2>2
<1>5. \A i \in DOMAIN saving' : saving'[i].by # "tx" => Deleting(saving'[i].by)
  BY <1>1 DEF ClientInv
<1>6. LockInv'
  BY <1>1, <1>2, <1>3 DEF LockInv
<1>7. ClientInv'
  <2>1. CASE saving[1].by = "tx"
    <3>1. request' = request
      BY <1>2, <2>1 DEF Landed
    <3> QED BY <1>2, <1>4, <1>5, <2>1, <3>1 DEF ClientInv, Queued, Deleting
  <2>2. CASE saving[1].by # "tx"
    <3> DEFINE u == saving[1].by
    <3>1. u \in Users /\ request' = [request EXCEPT ![u] = None] /\ Deleting(u)
      BY <1>2, <2>2 DEF Landed, Answer, ClientInv
    <3>2. /\ \A i \in DOMAIN waiting : waiting[i] \in Users
          /\ \A i \in DOMAIN saving : saving[i].by \in Users \cup {"tx"}
      BY MemberTypes
    <3>3. \A v \in Users : v # u => request'[v] = request[v]
      BY <3>1 DEF TypeOK
    <3>4. \A i \in DOMAIN waiting : waiting[i] # u /\ Queued(waiting[i])'
      BY <3>1, <3>2, <3>3 DEF ClientInv, Queued, Deleting
    <3>5. stage # "free" /\ op.mode = "commit" => op.user # u /\ Queued(op.user)'
      BY <3>1, <3>3 DEF ClientInv, Queued, Deleting
    <3>6. \A i \in DOMAIN saving' : saving'[i].by # "tx" =>
             /\ request'[saving'[i].by] # None
             /\ request'[saving'[i].by].kind = "delete"
      <4> SUFFICES ASSUME NEW i \in DOMAIN saving', saving'[i].by # "tx"
                   PROVE  request'[saving'[i].by] = request[saving'[i].by]
        BY <1>5 DEF Deleting
      <4>1. saving'[i].by \in Users
        BY <1>1, <3>2
      <4> QED BY <1>3, <3>3, <4>1
    <3> QED BY <1>2, <1>4, <2>2, <3>4, <3>5, <3>6 DEF ClientInv, Queued, Deleting
  <2> QED BY <2>1, <2>2
<1> QED BY <1>6, <1>7

-----------------------------------------------------------------------------
(* Every step keeps the types *)

LEMMA TypeStep == IndInv /\ [Next]_vars => TypeOK'
<1> SUFFICES ASSUME TypeOK, LockInv, ClientInv, [Next]_vars
             PROVE  TypeOK'
  BY DEF IndInv
<1> USE DEF durable, client, bounds
<1>a. Loaded \in HeadMap
  BY LoadedType
<1>b. \A p \in Projects :
        /\ RevisionOf(memHeads[p]) \in Revisions /\ ContentOf(memHeads[p]) \in Config
        /\ RevisionOf(Loaded[p]) \in Revisions /\ ContentOf(Loaded[p]) \in Config
  BY <1>a, HeadFields DEF TypeOK, HeadMap
<1>c. stage # "free" => op \in Op /\ op.tx \in TxIds
  BY DEF LockInv, Op
<1>d. \A s \in Stored : s \in Snapshot /\ HeadFrom(s) \in HeadRec
  BY HeadFromType DEF Stored, StoredAs, TypeOK
<1>1. ASSUME NEW u \in Users, NEW p \in Projects, NEW c \in Contents, MakePreview(u, p, c)
      PROVE  TypeOK'
  <2>1. [revision |-> RevisionOf(memHeads[p]), base |-> ContentOf(memHeads[p]),
         content |-> c] \in Preview
    BY <1>b DEF Preview, Config
  <2> QED BY <1>1, <2>1 DEF MakePreview, TypeOK
<1>2. ASSUME NEW u \in Users, NEW p \in Projects, DropPreview(u, p)
      PROVE  TypeOK'
  BY <1>2 DEF DropPreview, TypeOK
<1>3. ASSUME NEW u \in Users, NEW r \in Request, Enqueue(u, r)
      PROVE  TypeOK'
  <2>1. waiting' \in Seq(Users)
    BY <1>3, AppendProperties DEF Enqueue, TypeOK
  <2> QED BY <1>3, <2>1 DEF Enqueue, TypeOK
<1>4. ASSUME NEW u \in Users, NEW p \in Projects, RequestApply(u, p)
      PROVE  TypeOK'
  <2>1. previews[u][p] \in Preview
    BY <1>4 DEF RequestApply, TypeOK
  <2>2. [kind |-> "apply", project |-> p, revision |-> previews[u][p].revision,
         base |-> previews[u][p].base, content |-> previews[u][p].content,
         source |-> 0] \in Request
    BY <2>1 DEF Request, Preview, Revisions
  <2> QED BY <1>3, <1>4, <2>2 DEF RequestApply
<1>5. ASSUME NEW u \in Users, NEW s \in snaps, RequestRollback(u, s)
      PROVE  TypeOK'
  <2>1. s \in Snapshot
    BY DEF TypeOK
  <2>2. [kind |-> "rollback", project |-> s.project,
         revision |-> RevisionOf(memHeads[s.project]), base |-> Empty,
         content |-> s.content, source |-> s.revision] \in Request
    BY <1>b, <2>1 DEF Request, Snapshot, Config
  <2> QED BY <1>3, <1>5, <2>2 DEF RequestRollback
<1>6. ASSUME NEW u \in Users, NEW p \in Projects, Delete(u, p)
      PROVE  TypeOK'
  <2>1. memHeads' \in HeadMap
    BY <1>6 DEF Delete, TypeOK, HeadMap
  <2>2. [by |-> u, heads |-> memHeads'] \in Save
    BY <2>1 DEF Save
  <2>3. saving' \in Seq(Save)
    BY <1>6, <2>2, AppendProperties DEF Delete, TypeOK
  <2>4. [kind |-> "delete", project |-> p, revision |-> 0, base |-> Empty,
         content |-> Empty, source |-> 0] \in Request
    BY DEF Request, Revisions, Config
  <2>5. deletes' \in 0..MaxDeletes
    BY <1>6, BoundsAssumption DEF Delete, TypeOK
  <2> QED BY <1>6, <2>1, <2>3, <2>4, <2>5 DEF Delete, TypeOK
<1>7. ASSUME NEW u \in Users, Begin(u)
      PROVE  TypeOK'
  <2>1. waiting' \in Seq(Users)
    BY <1>7, HeadTailProperties DEF Begin, TypeOK
  <2> QED BY <1>7, <1>a, <2>1, BeginType DEF Begin, TypeOK, Stages
<1>8. ASSUME NEW u \in Users, Conflict(u)
      PROVE  TypeOK'
  <2>1. waiting' \in Seq(Users)
    BY <1>8, HeadTailProperties DEF Conflict, TypeOK
  <2> QED BY <1>8, <1>a, <2>1, AnswerType DEF Conflict, TypeOK
<1>9. CASE Recheck
  BY <1>9, <1>a, OverType DEF Recheck, TypeOK, Stages
<1>10. CASE Deny
  BY <1>10, OverType DEF Deny, TypeOK, Stages
<1>11. CASE WriteBackup
  <2> DEFINE s == [project |-> op.project, revision |-> 0, content |-> op.base, tx |-> op.tx]
  <2>1. s \in Snapshot /\ PutSnapshot(s)
    BY <1>11, <1>c DEF WriteBackup, Snapshot, Op, Revisions
  <2>2. snaps' \subseteq Snapshot
    BY <2>1, PutSnapshotType
  <2> QED BY <1>11, <2>2, OverType DEF WriteBackup, TypeOK, Stages
<1>12. CASE WritePrepared
  <2>1. [state |-> "PREPARED", final |-> "NONE", project |-> op.project,
         expected |-> op.revision, base |-> op.base, content |-> op.content] \in Journal
    BY <1>12, <1>c DEF WritePrepared, Op, Journal
  <2> QED BY <1>12, <2>1 DEF WritePrepared, TypeOK, Stages
<1>13. CASE WriteSnapshot
  <2>1. snaps' \subseteq Snapshot
    BY <1>13, <1>c, NewSnapshotType, PutSnapshotType DEF WriteSnapshot, TypeOK
  <2> QED BY <1>13, <2>1, OverType DEF WriteSnapshot, TypeOK, Stages
<1>14. CASE WriteHead
  <2>1. memHeads' \in HeadMap
    BY <1>14, <1>d DEF WriteHead, TypeOK, HeadMap
  <2>2. [by |-> "tx", heads |-> memHeads'] \in Save
    BY <2>1 DEF Save
  <2>3. saving' \in Seq(Save)
    BY <1>14, <2>2, AppendProperties DEF WriteHead, TypeOK
  <2> QED BY <1>14, <2>1, <2>3 DEF WriteHead, TypeOK, Stages
<1>15. CASE LandHeads
  <2>1. saving' \in Seq(Save) /\ Head(saving) \in Save
    BY <1>15, WaitingSaves, HeadTailProperties DEF LandHeads, TypeOK
  <2>2. heads' \in HeadMap
    BY <1>15, <2>1 DEF LandHeads, TypeOK, Save
  <2> QED BY <1>15, <2>1, <2>2, LandedType DEF LandHeads, TypeOK
<1>16. CASE VerifyHead
  BY <1>16, <1>a, OverType DEF VerifyHead, TypeOK, Stages
<1>17. CASE MarkPending
  <2>1. journals' \in [TxIds -> Journal \cup {None}]
    BY <1>17, <1>c DEF MarkPending, TypeOK, LockInv, Journal, Op
  <2> QED BY <1>17, <2>1 DEF MarkPending, TypeOK, Stages
<1>18. CASE AppendAudit
  <2>1. audit' \in Seq(Event)
    BY <1>18, <1>c, AppendedType DEF AppendAudit, LockInv
  <2> QED BY <1>18, <2>1, OverType DEF AppendAudit, TypeOK, Stages
<1>19. CASE WriteFinal
  <2>1. journals' \in [TxIds -> Journal \cup {None}]
    BY <1>19, <1>c DEF WriteFinal, TypeOK, LockInv, Journal, Op
  <2> QED BY <1>19, <2>1, OverType DEF WriteFinal, TypeOK, Stages
<1>e. \A s : Fails(s) => faults' \in 0..MaxFaults
  BY BoundsAssumption DEF Fails, TypeOK
<1>20. CASE WriteFails
  BY <1>20, <1>e, OverType DEF WriteFails, TypeOK, Stages
<1>21. CASE HeadFails
  <2>1. memHeads' \in HeadMap
    BY <1>21, <1>d DEF HeadFails, TypeOK, HeadMap
  <2> QED BY <1>21, <1>e, <2>1, OverType DEF HeadFails, TypeOK, Stages
<1>22. CASE LandFails
  <2>1. saving' \in Seq(Save)
    BY <1>22, WaitingSaves DEF LandFails, TypeOK
  <2> QED BY <1>22, <1>e, <2>1, LandedType DEF LandFails, TypeOK
<1>23. CASE AuditFails
  <2>1. audit' \in Seq(Event)
    BY <1>23, <1>c, AppendedType DEF AuditFails, LockInv, TypeOK
  <2> QED BY <1>23, <1>e, <2>1, OverType DEF AuditFails, TypeOK, Stages
<1>24. CASE Crash
  <2>1. memHeads' \in HeadMap /\ saving' \in Seq(Save) /\ waiting' \in Seq(Users)
    BY <1>24, EmptySeq DEF Crash, HeadMap
  <2>2. crashes' \in 0..MaxCrashes
    BY <1>24, BoundsAssumption DEF Crash, TypeOK
  <2> QED BY <1>24, <2>1, <2>2 DEF Crash, Release, TypeOK, Stages, Phases
<1>25. CASE Load
  <2>1. saving' \in Seq(Save)
    BY <1>25, EmptySeq DEF Load
  <2> QED BY <1>25, <2>1 DEF Load, TypeOK, Phases
<1>26. CASE Recover
  <2>1. \A t \in Open : journals[t] \in Journal
    BY DEF Open, TypeOK
  <2>2. op' \in Op \cup {None} /\ stage' \in Stages /\ phase' \in Phases
    BY <1>26, <2>1 DEF Recover, Open, Op, Journal, Stages, Phases, TypeOK
  <2> QED BY <1>26, <1>a, <2>2 DEF Recover, TypeOK
<1>27. CASE RecoveryDone
  BY <1>27 DEF RecoveryDone, TypeOK, Phases
<1>28. CASE UNCHANGED vars
  BY <1>28 DEF vars, TypeOK
<1> QED
  BY <1>1, <1>2, <1>4, <1>5, <1>6, <1>7, <1>8, <1>9, <1>10, <1>11, <1>12, <1>13,
     <1>14, <1>15, <1>16, <1>17, <1>18, <1>19, <1>20, <1>21, <1>22, <1>23, <1>24,
     <1>25, <1>26, <1>27, <1>28
  DEF Next, ClientNext, LockNext, CommitNext, FaultNext, RecoveryNext

-----------------------------------------------------------------------------
(* Every step keeps the lock with one holder *)

LEMMA LockStep == IndInv /\ [Next]_vars => LockInv'
<1> SUFFICES ASSUME TypeOK, LockInv, ClientInv, [Next]_vars
             PROVE  LockInv'
  BY DEF IndInv
<1> USE DEF durable, client, bounds
<1>a. stage # "free" => op \in Op /\ op.tx \in TxIds
  BY DEF LockInv, Op
<1>b. ASSUME stage # "free", stage # "landing", saving' = saving, Raise \/ Succeed
      PROVE  LockInv'
  <2>1. stage' = "free"
    BY <1>b DEF Raise, Succeed, Release
  <2> QED BY <1>b, <2>1 DEF LockInv
<1>1. ASSUME NEW u \in Users, NEW p \in Projects, NEW c \in Contents,
             MakePreview(u, p, c)
      PROVE  LockInv'
  BY <1>1 DEF MakePreview, LockInv
<1>1d. ASSUME NEW u \in Users, NEW p \in Projects, DropPreview(u, p) \/ RequestApply(u, p)
      PROVE  LockInv'
  BY <1>1d DEF DropPreview, RequestApply, Enqueue, LockInv
<1>2. ASSUME NEW u \in Users, NEW s \in snaps, RequestRollback(u, s)
      PROVE  LockInv'
  BY <1>2 DEF RequestRollback, Enqueue, LockInv
<1>3. ASSUME NEW u \in Users, NEW p \in Projects, Delete(u, p)
      PROVE  LockInv'
  <2>1. memHeads' \in HeadMap
    BY <1>3 DEF Delete, TypeOK, HeadMap
  <2>2. [by |-> u, heads |-> memHeads'] \in Save
    BY <2>1 DEF Save
  <2>3. /\ DOMAIN saving' = 1..(Len(saving) + 1) /\ DOMAIN saving = 1..Len(saving)
        /\ \A i \in 1..Len(saving) : saving'[i] = saving[i]
        /\ saving'[Len(saving) + 1].by = u /\ Len(saving) \in Nat
    BY <1>3, <2>2, AppendProperties, LenProperties DEF Delete, TypeOK
  <2>4. u # "tx"
    BY SetsAssumption
  <2>5. stage # "landing" => \A i \in DOMAIN saving' : saving'[i].by # "tx"
    BY <2>3, <2>4 DEF LockInv
  <2> QED BY <1>3, <2>5 DEF Delete, LockInv
<1>4. ASSUME NEW u \in Users, Begin(u)
      PROVE  LockInv'
  <2>1. stage' = "recheck" /\ op' \in Op
    BY <1>4, BeginType DEF Begin
  <2> QED BY <1>4, <2>1 DEF Begin, LockInv
<1>5. ASSUME NEW u \in Users, Conflict(u)
      PROVE  LockInv'
  BY <1>5 DEF Conflict, LockInv
<1>6. CASE Recheck
  BY <1>6, <1>a, <1>b DEF Recheck, LockInv
<1>7. CASE Deny
  BY <1>7, <1>b DEF Deny
<1>8. CASE WriteBackup
  BY <1>8, <1>a, <1>b DEF WriteBackup, LockInv
<1>9. CASE WritePrepared
  <2>1. journals'[op.tx] \in Journal
    BY <1>9, <1>a DEF WritePrepared, TypeOK, Op, Journal
  <2> QED BY <1>9, <1>a, <2>1 DEF WritePrepared, LockInv
<1>10. CASE WriteSnapshot
  BY <1>10, <1>a, <1>b DEF WriteSnapshot, LockInv
<1>11. CASE WriteHead
  BY <1>11, <1>a DEF WriteHead, LockInv
<1>12. CASE LandHeads
  BY <1>12, LandedLockClient DEF LandHeads
<1>13. CASE VerifyHead
  BY <1>13, <1>a, <1>b DEF VerifyHead, LockInv
<1>14. CASE MarkPending
  <2>1. journals'[op.tx] \in Journal
    BY <1>14, <1>a DEF MarkPending, TypeOK, LockInv, Op, Journal
  <2> QED BY <1>14, <1>a, <2>1 DEF MarkPending, LockInv
<1>15. CASE AppendAudit
  BY <1>15, <1>a, <1>b DEF AppendAudit, LockInv
<1>16. CASE WriteFinal
  BY <1>16, <1>b DEF WriteFinal
<1>17. CASE WriteFails
  BY <1>17, <1>b DEF WriteFails
<1>18. CASE HeadFails
  BY <1>18, <1>b DEF HeadFails
<1>19. CASE LandFails
  BY <1>19, LandedLockClient DEF LandFails
<1>20. CASE AuditFails
  BY <1>20, <1>b DEF AuditFails
<1>21. CASE Crash
  BY <1>21, EmptySeq DEF Crash, Release, LockInv
<1>22. CASE Load
  BY <1>22, EmptySeq DEF Load, LockInv
<1>23. CASE Recover
  <2>1. \A t \in Open : journals[t] \in Journal /\ t \in TxIds
    BY DEF Open, TypeOK
  <2>2. CASE stage' # "free"
    <3>1. PICK t \in Open :
            /\ stage' \in {"pending", "verify", "head"}
            /\ op' = [mode |-> "recover", user |-> None, project |-> journals[t].project,
                      revision |-> journals[t].expected, base |-> journals[t].base,
                      content |-> journals[t].content, tx |-> t, verdict |-> op'.verdict]
            /\ op'.verdict \in {"COMMITTED", "ABORTED"}
      BY <1>23, <2>2 DEF Recover
    <3>2. op' \in Op /\ op'.tx = t
      BY <2>1, <3>1 DEF Op, Journal
    <3> QED BY <1>23, <2>1, <3>1, <3>2 DEF Recover, LockInv
  <2>3. CASE stage' = "free"
    BY <1>23, <2>3 DEF Recover, LockInv
  <2> QED BY <2>2, <2>3
<1>24. CASE RecoveryDone
  BY <1>24 DEF RecoveryDone, LockInv
<1>25. CASE UNCHANGED vars
  BY <1>25 DEF vars, LockInv
<1> QED
  BY <1>1, <1>1d, <1>2, <1>3, <1>4, <1>5, <1>6, <1>7, <1>8, <1>9, <1>10, <1>11, <1>12,
     <1>13, <1>14, <1>15, <1>16, <1>17, <1>18, <1>19, <1>20, <1>21, <1>22, <1>23,
     <1>24, <1>25
  DEF Next, ClientNext, LockNext, CommitNext, FaultNext, RecoveryNext

-----------------------------------------------------------------------------
(* Every step keeps to one request in flight per user *)

LEMMA ClientStep == IndInv /\ [Next]_vars => ClientInv'
<1> SUFFICES ASSUME TypeOK, LockInv, ClientInv, [Next]_vars
             PROVE  ClientInv'
  BY DEF IndInv
<1> USE DEF durable, client, bounds
<1>a. /\ \A i \in DOMAIN waiting : waiting[i] \in Users
      /\ \A i \in DOMAIN saving : saving[i].by \in Users \cup {"tx"}
  BY MemberTypes
<1>b. ASSUME NEW u \in Users, request[u] = None
      PROVE  /\ \A i \in DOMAIN waiting : waiting[i] # u
             /\ \A i \in DOMAIN saving : saving[i].by # u
             /\ stage # "free" /\ op.mode = "commit" => op.user # u
  BY <1>b, SetsAssumption DEF ClientInv, Queued, Deleting
<1>c. ASSUME UNCHANGED <<waiting, saving, request, stage, op>>
      PROVE  ClientInv'
  BY <1>c DEF ClientInv, Queued, Deleting
<1>d. ASSUME UNCHANGED <<waiting, saving, request, op>>, stage # "free"
      PROVE  ClientInv'
  BY <1>d DEF ClientInv, Queued, Deleting
<1>1. ASSUME NEW u \in Users, NEW p \in Projects, NEW c \in Contents,
             MakePreview(u, p, c)
      PROVE  ClientInv'
  BY <1>1, <1>c DEF MakePreview
<1>2. ASSUME NEW u \in Users, NEW p \in Projects, DropPreview(u, p)
      PROVE  ClientInv'
  BY <1>2, <1>c DEF DropPreview
<1>3. ASSUME NEW u \in Users, NEW r, r # None, r.kind # "delete", Enqueue(u, r)
      PROVE  ClientInv'
  <2>1. /\ DOMAIN waiting' = 1..(Len(waiting) + 1) /\ DOMAIN waiting = 1..Len(waiting)
        /\ \A i \in 1..Len(waiting) : waiting'[i] = waiting[i]
        /\ waiting'[Len(waiting) + 1] = u /\ Len(waiting) \in Nat
    BY <1>3, AppendProperties, LenProperties DEF Enqueue, TypeOK
  <2>2. request' = [request EXCEPT ![u] = r] /\ UNCHANGED <<saving, stage, op>>
    BY <1>3 DEF Enqueue
  <2>3. request'[u] = r /\ \A v \in Users : v # u => request'[v] = request[v]
    BY <2>2 DEF TypeOK
  <2>4. \A i \in DOMAIN waiting' : Queued(waiting[i])' \/ i = Len(waiting) + 1
    BY <1>3, <1>a, <2>1, <2>3 DEF ClientInv, Queued
  <2>5. \A i \in DOMAIN waiting' : waiting'[i] # u \/ i = Len(waiting) + 1
    BY <1>3, <1>b, <2>1 DEF Enqueue
  <2>6. \A i \in DOMAIN saving : saving[i].by # u
    BY <1>3, <1>b DEF Enqueue
  <2>7. stage # "free" /\ op.mode = "commit" => op.user # u
    BY <1>3, <1>b DEF Enqueue
  <2> QED
    BY <1>3, <1>a, <2>1, <2>2, <2>3, <2>4, <2>5, <2>6, <2>7 DEF ClientInv, Queued, Deleting
<1>4. ASSUME NEW u \in Users, NEW p \in Projects, RequestApply(u, p)
      PROVE  ClientInv'
  <2> DEFINE r == [kind |-> "apply", project |-> p, revision |-> previews[u][p].revision,
                   base |-> previews[u][p].base, content |-> previews[u][p].content,
                   source |-> 0]
  <2>1. r \in Request
    BY <1>4 DEF RequestApply, TypeOK, Request, Preview, Revisions
  <2> QED BY <1>3, <1>4, <2>1, SentinelAssumption DEF RequestApply
<1>5. ASSUME NEW u \in Users, NEW s \in snaps, RequestRollback(u, s)
      PROVE  ClientInv'
  <2> DEFINE r == [kind |-> "rollback", project |-> s.project,
                   revision |-> RevisionOf(memHeads[s.project]), base |-> Empty,
                   content |-> s.content, source |-> s.revision]
  <2>1. s \in Snapshot
    BY DEF TypeOK
  <2>2. memHeads[s.project] \in HeadRec \cup {NoHead}
    BY <2>1 DEF TypeOK, HeadMap, Snapshot
  <2>3. r \in Request
    BY <2>1, <2>2, HeadFields DEF Request, Snapshot, Config
  <2> QED BY <1>3, <1>5, <2>3, SentinelAssumption DEF RequestRollback
<1>6. ASSUME NEW u \in Users, NEW p \in Projects, Delete(u, p)
      PROVE  ClientInv'
  <2> DEFINE r == [kind |-> "delete", project |-> p, revision |-> 0, base |-> Empty,
                   content |-> Empty, source |-> 0]
  <2>1. r \in Request /\ r # None
    BY SentinelAssumption DEF Request, Revisions, Config
  <2>2. [by |-> u, heads |-> memHeads'] \in Save
    BY <1>6 DEF Delete, TypeOK, HeadMap, Save
  <2>3. /\ DOMAIN saving' = 1..(Len(saving) + 1) /\ DOMAIN saving = 1..Len(saving)
        /\ \A i \in 1..Len(saving) : saving'[i] = saving[i]
        /\ saving'[Len(saving) + 1].by = u /\ Len(saving) \in Nat
    BY <1>6, <2>2, AppendProperties, LenProperties DEF Delete, TypeOK
  <2>4. request[u] = None /\ UNCHANGED <<waiting, stage, op>>
        /\ request'[u] = r /\ \A v \in Users : v # u => request'[v] = request[v]
    BY <1>6 DEF Delete, TypeOK
  <2>5. \A i \in 1..Len(saving) : saving'[i].by # u
    BY <1>b, <2>3, <2>4
  <2>6. \A i, j \in DOMAIN saving' : saving'[i].by = saving'[j].by => i = j
    BY <2>3, <2>5 DEF ClientInv
  <2>7. \A i \in DOMAIN saving' : saving'[i].by # "tx" =>
           request'[saving'[i].by] # None /\ request'[saving'[i].by].kind = "delete"
    BY <1>a, <2>1, <2>3, <2>4, <2>5 DEF ClientInv, Deleting
  <2>8. \A i \in DOMAIN waiting : Queued(waiting[i])'
    BY <1>a, <1>b, <2>4 DEF ClientInv, Queued
  <2>9. stage # "free" /\ op.mode = "commit" => Queued(op.user)'
    BY <1>b, <2>4 DEF ClientInv, Queued
  <2> QED BY <2>4, <2>6, <2>7, <2>8, <2>9 DEF ClientInv, Queued, Deleting
<1>7. ASSUME NEW u \in Users, waiting # <<>>, u = Head(waiting), waiting' = Tail(waiting)
      PROVE  /\ \A i \in DOMAIN waiting' : i + 1 \in DOMAIN waiting /\ waiting'[i] = waiting[i + 1]
             /\ \A i \in DOMAIN waiting' : waiting'[i] # u /\ Queued(waiting'[i])
             /\ \A i, j \in DOMAIN waiting' : waiting'[i] = waiting'[j] => i = j
  <2>1. /\ DOMAIN waiting' = 1..(Len(waiting) - 1) /\ DOMAIN waiting = 1..Len(waiting)
        /\ \A i \in 1..(Len(waiting) - 1) : waiting'[i] = waiting[i + 1]
        /\ Len(waiting) \in Nat
    BY <1>7, HeadTailProperties, LenProperties DEF TypeOK
  <2>2. u = waiting[1] /\ 1 \in DOMAIN waiting
    BY <1>7, FirstInLine
  <2>3. \A i \in DOMAIN waiting' : i + 1 \in DOMAIN waiting /\ waiting'[i] = waiting[i + 1]
    BY <2>1
  <2>4. \A i \in DOMAIN waiting' : waiting'[i] # u /\ Queued(waiting'[i])
    <3> SUFFICES ASSUME NEW i \in DOMAIN waiting'
                 PROVE  waiting'[i] # u /\ Queued(waiting'[i])
      OBVIOUS
    <3>1. i + 1 \in DOMAIN waiting /\ waiting'[i] = waiting[i + 1] /\ i + 1 # 1
      BY <2>1, <2>3
    <3> QED BY <2>2, <3>1 DEF ClientInv
  <2>5. ASSUME NEW i \in DOMAIN waiting', NEW j \in DOMAIN waiting', waiting'[i] = waiting'[j]
        PROVE  i = j
    <3>1. i + 1 = j + 1 /\ i \in Int /\ j \in Int
      BY <2>1, <2>3, <2>5 DEF ClientInv
    <3> QED BY <3>1
  <2> QED BY <2>3, <2>4, <2>5
<1>8. ASSUME NEW u \in Users, Begin(u)
      PROVE  ClientInv'
  <2>1. /\ request' = request /\ saving' = saving /\ Queued(u)
        /\ op'.mode = "commit" /\ op'.user = u
    BY <1>8, FirstInLine, BeginType DEF Begin
  <2> QED BY <1>7, <1>8, <2>1 DEF Begin, ClientInv, Queued, Deleting
<1>9. ASSUME NEW u \in Users, Conflict(u)
      PROVE  ClientInv'
  <2>1. /\ stage = "free" /\ UNCHANGED <<stage, op, saving>>
        /\ request' = [request EXCEPT ![u] = None] /\ Queued(u)
    BY <1>9, FirstInLine DEF Conflict, Answer
  <2>2. \A v \in Users : v # u => request'[v] = request[v]
    BY <2>1 DEF TypeOK
  <2>3. \A i \in DOMAIN saving : saving[i].by # u
    BY <2>1, SetsAssumption DEF ClientInv, Queued, Deleting
  <2>4. \A i \in DOMAIN waiting' : waiting'[i] \in Users
    BY <1>7, <1>9, <1>a DEF Conflict
  <2> QED BY <1>7, <1>9, <1>a, <2>1, <2>2, <2>3, <2>4 DEF Conflict, ClientInv, Queued, Deleting
<1>e. ASSUME stage # "free", saving' = saving, Raise \/ Succeed
      PROVE  ClientInv'
  BY <1>e, OverClient
<1>10. CASE Recheck
  BY <1>10, <1>d, <1>e DEF Recheck
<1>11. CASE Deny
  BY <1>11, <1>e DEF Deny
<1>12. CASE WriteBackup
  BY <1>12, <1>d, <1>e DEF WriteBackup
<1>13. CASE WritePrepared \/ MarkPending
  BY <1>13, <1>d DEF WritePrepared, MarkPending
<1>14. CASE WriteSnapshot
  BY <1>14, <1>d, <1>e DEF WriteSnapshot
<1>15. CASE WriteHead
  <2>1. memHeads' \in HeadMap
    BY <1>15, TypeStep DEF IndInv, TypeOK
  <2>2. [by |-> "tx", heads |-> memHeads'] \in Save
    BY <2>1 DEF Save
  <2>3. /\ DOMAIN saving' = 1..(Len(saving) + 1) /\ DOMAIN saving = 1..Len(saving)
        /\ \A i \in 1..Len(saving) : saving'[i] = saving[i]
        /\ saving'[Len(saving) + 1].by = "tx" /\ Len(saving) \in Nat
    BY <1>15, <2>2, AppendProperties, LenProperties DEF WriteHead, TypeOK
  <2>4. \A i \in 1..Len(saving) : saving[i].by # "tx"
    BY <1>15, <2>3 DEF WriteHead, LockInv
  <2>5. \A i, j \in DOMAIN saving' : saving'[i].by = saving'[j].by => i = j
    BY <2>3, <2>4 DEF ClientInv
  <2>6. \A i \in DOMAIN saving' : saving'[i].by # "tx" => Deleting(saving'[i].by)
    BY <2>3 DEF ClientInv
  <2> QED BY <1>15, <2>5, <2>6 DEF WriteHead, ClientInv, Queued, Deleting
<1>16. CASE LandHeads
  BY <1>16, LandedLockClient DEF LandHeads
<1>17. CASE VerifyHead
  BY <1>17, <1>d, <1>e DEF VerifyHead
<1>18. CASE AppendAudit
  BY <1>18, <1>d, <1>e DEF AppendAudit
<1>19. CASE WriteFinal
  BY <1>19, <1>e DEF WriteFinal
<1>20. CASE WriteFails
  BY <1>20, <1>e DEF WriteFails
<1>21. CASE HeadFails
  BY <1>21, <1>e DEF HeadFails
<1>22. CASE LandFails
  BY <1>22, LandedLockClient DEF LandFails
<1>23. CASE AuditFails
  BY <1>23, <1>e DEF AuditFails
<1>24. CASE Crash
  <2>1. DOMAIN <<>> = {}
    BY LenProperties, EmptySeq
  <2> QED BY <1>24, <2>1 DEF Crash, Release, ClientInv
<1>25. CASE Load
  <2>1. DOMAIN <<>> = {}
    BY LenProperties, EmptySeq
  <2> QED BY <1>25, <2>1 DEF Load, ClientInv, Queued
<1>26. CASE Recover
  <2>1. stage' = "free" \/ op'.mode = "recover"
    BY <1>26 DEF Recover
  <2> QED BY <1>26, <2>1 DEF Recover, ClientInv, Queued, Deleting
<1>27. CASE RecoveryDone
  BY <1>27, <1>c DEF RecoveryDone
<1>28. CASE UNCHANGED vars
  BY <1>28, <1>c DEF vars
<1> QED
  BY <1>1, <1>2, <1>4, <1>5, <1>6, <1>8, <1>9, <1>10, <1>11, <1>12, <1>13, <1>14,
     <1>15, <1>16, <1>17, <1>18, <1>19, <1>20, <1>21, <1>22, <1>23, <1>24, <1>25,
     <1>26, <1>27, <1>28
  DEF Next, ClientNext, LockNext, CommitNext, FaultNext, RecoveryNext

-----------------------------------------------------------------------------
(* Theorems *)

LEMMA InitInv == Init => IndInv
<1> SUFFICES ASSUME Init PROVE IndInv
  OBVIOUS
<1>1. <<>> \in Seq(Event) /\ <<>> \in Seq(Save) /\ <<>> \in Seq(Users) /\ DOMAIN <<>> = {}
  BY EmptySeq, LenProperties
<1>2. TypeOK
  BY <1>1, BoundsAssumption DEF Init, TypeOK, HeadMap, Stages, Phases
<1>3. LockInv /\ ClientInv
  BY <1>1 DEF Init, LockInv, ClientInv
<1> QED BY <1>2, <1>3 DEF IndInv

\* The inductive invariant: whatever interleaving of requests, writes, faults,
\* crashes and recoveries, the types hold, the lock of the coordinator has at
\* most one holder with an operation and a journal of its own, and no user has
\* two requests in flight.
THEOREM Inductive == Spec => []IndInv
<1>1. Init => IndInv
  BY InitInv
<1>2. IndInv /\ [Next]_vars => IndInv'
  BY TypeStep, LockStep, ClientStep DEF IndInv
<1> QED BY <1>1, <1>2, PTL DEF Spec

\* Type correctness of the coordinator and its stores, for every set of users,
\* projects and contents, every bound and every pattern of failing writes.
THEOREM TypeCorrect == Spec => []TypeOK
<1>1. IndInv => TypeOK
  BY DEF IndInv
<1> QED BY <1>1, Inductive, PTL

-----------------------------------------------------------------------------
(* The snapshot store *)

LEMMA BackupStep == IndInv /\ BackupInv /\ [Next]_vars => BackupInv'
<1> SUFFICES ASSUME IndInv, BackupInv, [Next]_vars, stage' = "backup"
             PROVE  StoredAs(op.project, 0, op.base)' = {}
  BY DEF BackupInv
<1> USE DEF durable, client, bounds
<1>1. CASE Recheck
  <2>1. Unmoved /\ ~BackedUp(op.project) /\ op' = op /\ snaps' = snaps
    BY <1>1 DEF Recheck, Raise, Release
  <2>2. Loaded[op.project] = NoHead
    BY <2>1 DEF Unmoved
  <2>3. StoredAs(op.project, 0, Empty) = {} /\ op.base = Empty
    BY <2>1, <2>2 DEF Unmoved, AtBase, BackedUp, RevisionOf, ContentOf
  <2> QED BY <2>1, <2>3 DEF StoredAs
<1>2. CASE ~Recheck
  <2>1. stage = "backup" /\ op' = op /\ snaps' = snaps
    BY <1>2 DEF Next, ClientNext, LockNext, CommitNext, FaultNext, RecoveryNext, vars,
         MakePreview, DropPreview, RequestApply, RequestRollback, Enqueue, Delete, Begin,
         Conflict, Deny, WriteBackup, WritePrepared, WriteSnapshot, WriteHead, LandHeads,
         Landed, VerifyHead, MarkPending, AppendAudit, WriteFinal, WriteFails, HeadFails,
         LandFails, AuditFails, Crash, Load, Recover, RecoveryDone, Raise, Succeed, Release
  <2> QED BY <2>1 DEF BackupInv, StoredAs
<1> QED BY <1>1, <1>2

LEMMA SnapshotsStep ==
  IndInv /\ BackupInv /\ SnapshotsImmutable /\ [Next]_vars => SnapshotsImmutable'
<1> SUFFICES ASSUME IndInv, BackupInv, SnapshotsImmutable, [Next]_vars
             PROVE  SnapshotsImmutable'
  OBVIOUS
<1> USE DEF durable, client, bounds
<1>0. TypeOK /\ (stage # "free" => op \in Op)
  BY DEF IndInv, LockInv
<1>1. ASSUME NEW s \in Snapshot, StoredAs(s.project, s.revision, s.content) = {},
             snaps' \subseteq snaps \cup {s}
      PROVE  SnapshotsImmutable'
  BY <1>1 DEF SnapshotsImmutable, StoredAs
<1>2. CASE WriteBackup
  <2> DEFINE s == [project |-> op.project, revision |-> 0, content |-> op.base, tx |-> op.tx]
  <2>1. s \in Snapshot /\ PutSnapshot(s)
    BY <1>0, <1>2 DEF WriteBackup, Snapshot, Op, Revisions
  <2>2. snaps' \subseteq snaps \cup {s}
    BY <1>0, <2>1, PutSnapshotType
  <2>3. StoredAs(s.project, s.revision, s.content) = {}
    BY <1>2 DEF WriteBackup, BackupInv
  <2> QED BY <1>1, <2>1, <2>2, <2>3
<1>3. CASE WriteSnapshot
  <2>1. CASE Stored = {}
    <3>1. NewSnapshot \in Snapshot /\ PutSnapshot(NewSnapshot)
      BY <1>0, <1>3, <2>1, NewSnapshotType DEF WriteSnapshot
    <3>2. snaps' \subseteq snaps \cup {NewSnapshot}
      BY <1>0, <3>1, PutSnapshotType
    <3>3. StoredAs(NewSnapshot.project, NewSnapshot.revision, NewSnapshot.content) = {}
      BY <2>1 DEF Stored, NewSnapshot
    <3> QED BY <1>1, <3>1, <3>2, <3>3
  <2>2. CASE Stored # {}
    BY <1>3, <2>2 DEF WriteSnapshot, SnapshotsImmutable
  <2> QED BY <2>1, <2>2
<1>4. CASE ~WriteBackup /\ ~WriteSnapshot
  <2>1. snaps' = snaps
    BY <1>4 DEF Next, ClientNext, LockNext, CommitNext, FaultNext, RecoveryNext, vars,
         MakePreview, DropPreview, RequestApply, RequestRollback, Enqueue, Delete, Begin,
         Conflict, Recheck, Deny, WritePrepared, WriteHead, LandHeads, VerifyHead,
         MarkPending, AppendAudit, WriteFinal, WriteFails, HeadFails, LandFails,
         AuditFails, Crash, Load, Recover, RecoveryDone
  <2> QED BY <2>1 DEF SnapshotsImmutable
<1> QED BY <1>2, <1>3, <1>4

\* The snapshot store is immutable: however commits fail and are retried,
\* projects are deleted and created again, and recovery repeats what a crash
\* cut off, no address is ever taken over by another transaction's snapshot.
THEOREM SnapshotStoreImmutable == Spec => []SnapshotsImmutable
<1>1. Init => BackupInv /\ SnapshotsImmutable
  BY DEF Init, BackupInv, SnapshotsImmutable
<1>2. IndInv /\ BackupInv /\ SnapshotsImmutable /\ [Next]_vars
        => BackupInv' /\ SnapshotsImmutable'
  BY BackupStep, SnapshotsStep
<1> QED BY <1>1, <1>2, Inductive, PTL DEF Spec

=============================================================================
