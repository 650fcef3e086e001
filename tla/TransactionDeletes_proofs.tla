---------------------- MODULE TransactionDeletes_proofs ----------------------
(***************************************************************************)
(* What deletes beside commits, crashes and failing writes cannot break:   *)
(* delete_head takes neither the coordinator's lock nor a journal, so the  *)
(* heads in the file, in memory and in the saves in line drift apart.  The *)
(* invariant follows every version of a project through all of them.       *)
(***************************************************************************)
EXTENDS ProjectTransactions_proofs

\* No heads save was lost, which the caller of a delete would not notice.
NothingLost == faults = 0 \/ "landing" \notin FaultyStages

\* The saves in line that have data to write, and what file, memory and they
\* hold of a project.
Written     == {i \in DOMAIN saving : saving[i].heads # None}
Copies(p)   == {heads[p], memHeads[p]} \cup {saving[i].heads[p] : i \in Written}
Versions(p) == Copies(p) \ {NoHead}

\* A transaction later than the head h found its project without one.
Anew(p, h) ==
    \E t \in TxIds : /\ t > h.tx
                     /\ journals[t] # None
                     /\ journals[t].project = p /\ journals[t].expected = 0

\* A commit runs while the integration is up, a recovery before it is.
ModeInv ==
    /\ stage # "free" => \/ op.mode = "commit" /\ phase = "up"
                         \/ op.mode = "recover" /\ phase = "recovering"
    /\ stage \in {"recheck", "backup", "prepare", "snapshot"} => op.mode = "commit"

\* Transactions are journaled in the order of their ids, and the holder's
\* journal says what the holder does.
OrderInv ==
    /\ \A t, u \in TxIds : journals[t] # None /\ u < t => journals[u] # None
    /\ stage \in {"recheck", "backup", "prepare"} => op.tx \in FreshTx
    /\ stage \in Journaled =>
          journals[op.tx].project = op.project /\ journals[op.tx].expected = op.revision

\* What a client was told is journaled, and not at work any more.
ToldInv ==
    /\ \A t \in acked : journals[t] # None
    /\ phase = "up" /\ stage # "free" => op.tx \notin acked

\* Snapshots and every copy of a head are of journaled transactions of their
\* project, and a commit moves the head to a snapshot of its own.
OriginInv ==
    /\ \A s \in snaps : s.revision > 0 =>
          journals[s.tx] # None /\ journals[s.tx].project = s.project
    /\ \A p \in Projects : \A h \in Versions(p) :
          journals[h.tx] # None /\ journals[h.tx].project = p
    /\ phase = "up" /\ stage = "head" => \A s \in Stored : s.tx = op.tx

\* Behind the first save in line, those without data come first.
LineInv ==
    \A i, j \in DOMAIN saving :
        2 <= i /\ i < j /\ saving[j].heads = None => saving[i].heads = None

\* Before clients are served there is no delete: memory is the file, and the
\* only save ever on its way is the one that recovery makes.
QuietInv ==
    /\ phase # "up" /\ stage # "landing" => saving = <<>>
    /\ phase = "recovering" /\ stage # "landing" => memHeads = heads
    /\ phase = "recovering" /\ stage \in {"head", "landing"} /\ heads[op.project] # NoHead =>
          heads[op.project].revision = op.revision
    /\ phase = "recovering" /\ stage = "landing" =>
          /\ saving = <<[by |-> "tx", heads |-> memHeads]>>
          /\ \E h \in HeadRec : /\ h.revision = op.revision + 1
                                /\ memHeads = [heads EXCEPT ![op.project] = h]

\* As long as no write failed there is one version of a project at most, but
\* for that of the transaction at work.
OneVersion ==
    faults = 0 /\ phase = "up" =>
        \A p \in Projects :
            \/ stage = "landing" /\ op.project = p
            \/ \E v \in HeadRec \cup {NoHead} : Copies(p) \subseteq {v, NoHead}

\* What a client was told is committed is older than every other version of
\* its project, wherever that is, or of the time before a delete.
AckedFirst ==
    phase = "up" =>
        \A p \in Projects : \A a, b \in Versions(p) :
            a.tx \in acked => b = a \/ b.revision > a.revision \/ Anew(p, a)

\* The base of the transaction at work, against all versions of its project.
BaseInv ==
    phase = "up" /\ stage \in {"backup", "prepare", "snapshot", "head"} =>
        \A a \in Versions(op.project) :
            /\ a.tx < op.tx
            /\ faults = 0 => op.revision \in {0, a.revision}
            /\ a.tx \in acked => \/ a.revision <= op.revision
                                 \/ op.revision = 0
                                 \/ Anew(op.project, a)

\* While the head h of the transaction at work is on its way at place k, memory
\* and the saves behind it hold nothing older.  Either so do all others and the
\* file is about to follow, or h is yet to be merged into the next save; until
\* then the one older version is v.
OnItsWay(k, h, v) ==
    LET p   == op.project
        new == {h, NoHead}
        old == {v, NoHead}
    IN  /\ saving[k].by = "tx" /\ h.revision = op.revision + 1
        /\ memHeads[p] \in new
        /\ \A i \in Written : i >= k => saving[i].heads[p] \in new
        /\ faults = 0 /\ v # NoHead =>
              op.revision = v.revision \/ (op.revision = 0 /\ v.tx < op.tx)
        /\ \/ /\ \A i \in Written : saving[i].heads[p] \in new
              /\ 1 \notin Written => heads[p] \in new
              /\ faults = 0 => heads[p] \in new \cup old
           \/ /\ k >= 2 /\ k \in Written
              /\ faults = 0 => /\ heads[p] \in old
                               /\ \A i \in Written : i < k => saving[i].heads[p] \in old

LandingInv ==
    phase = "up" /\ stage = "landing" =>
        \E k \in DOMAIN saving, h \in HeadRec, v \in HeadRec \cup {NoHead} : OnItsWay(k, h, v)

\* From then on it is the only version left.
LandedInv ==
    phase = "up" /\ stage \in {"verify", "pending", "audit", "final"} =>
        \E h \in HeadRec : Copies(op.project) \subseteq {h, NoHead}

Traced   == ModeInv /\ OrderInv /\ ToldInv /\ OriginInv /\ LineInv
Unlost   == QuietInv /\ OneVersion /\ AckedFirst /\ BaseInv /\ LandingInv /\ LandedInv
HeadsInv == Traced /\ (NothingLost => Unlost)

-----------------------------------------------------------------------------
(* Which step moves what *)

LEMMA HeadFrames ==
  ASSUME [Next]_vars
  PROVE  \/ LandHeads \/ LandFails \/ WriteHead \/ HeadFails \/ Crash \/ Load
         \/ \E u \in Users, p \in Projects : Delete(u, p)
         \/ /\ UNCHANGED <<heads, saving>>
            /\ memHeads' = memHeads \/ (memHeads' = Loaded /\ stage' # "landing")
<1> USE DEF durable, client, bounds
<1>1. CASE UNCHANGED vars
  BY <1>1 DEF vars
<1>2. CASE ClientNext
  BY <1>2 DEF ClientNext, MakePreview, DropPreview, RequestApply, RequestRollback, Enqueue
<1>3. CASE LockNext
  BY <1>3 DEF LockNext, Begin, Conflict, Recheck, Deny, Raise, Release
<1>4. CASE CommitNext
  BY <1>4 DEF CommitNext, WriteBackup, WritePrepared, WriteSnapshot, VerifyHead,
     MarkPending, AppendAudit, WriteFinal, Raise, Release
<1>5. CASE FaultNext
  BY <1>5 DEF FaultNext, WriteFails, AuditFails
<1>6. CASE RecoveryNext
  BY <1>6 DEF RecoveryNext, Recover, RecoveryDone
<1> QED BY <1>1, <1>2, <1>3, <1>4, <1>5, <1>6 DEF Next

\* While the lock is held after a step, the step took it, moved its holder on,
\* or left the protocol alone.
LEMMA Moves ==
  ASSUME IndInv, ModeInv, [Next]_vars, stage' # "free"
  PROVE  \/ \E u \in Users : Begin(u)
         \/ Recover
         \/ /\ op' = op /\ phase' = phase /\ acked' = acked /\ stage # "free"
            /\ \/ Recheck \/ WriteBackup \/ WritePrepared \/ WriteSnapshot \/ WriteHead
               \/ LandHeads \/ LandFails \/ VerifyHead \/ MarkPending \/ AppendAudit
         \/ UNCHANGED <<heads, snaps, journals, stage, op, phase, acked, faults>>
<1> USE DEF durable, client, bounds
<1>0. TypeOK /\ LockInv /\ ClientInv
  BY DEF IndInv
<1>a. ~Raise /\ ~Succeed
  BY DEF Raise, Succeed, Release
<1>1. CASE UNCHANGED vars
  BY <1>1 DEF vars
<1>2. CASE ClientNext
  BY <1>2 DEF ClientNext, MakePreview, DropPreview, RequestApply, RequestRollback, Enqueue,
     Delete
<1>3. CASE LockNext
  <2>1. ASSUME NEW u \in Users, Conflict(u)
        PROVE  FALSE
    BY <2>1 DEF Conflict
  <2>2. CASE Recheck
    BY <1>a, <2>2 DEF Recheck
  <2> QED BY <1>3, <1>a, <2>1, <2>2 DEF LockNext, Deny
<1>4. CASE CommitNext
  <2>1. CASE WriteBackup \/ WritePrepared \/ WriteSnapshot
    BY <1>a, <2>1 DEF WriteBackup, WritePrepared, WriteSnapshot
  <2>2. CASE WriteHead \/ VerifyHead
    BY <1>a, <2>2 DEF WriteHead, VerifyHead
  <2>3. CASE MarkPending \/ AppendAudit \/ WriteFinal
    BY <1>a, <2>3 DEF MarkPending, AppendAudit, WriteFinal
  <2> QED BY <1>4, <2>1, <2>2, <2>3 DEF CommitNext
<1>5. CASE LandHeads \/ LandFails
  <2>1. op' = op /\ phase' = phase /\ acked' = acked
    BY <1>5 DEF LandHeads, LandFails
  <2>2. stage # "free"
    BY <1>0, <1>5, LandedType DEF LandHeads, LandFails
  <2> QED BY <1>5, <2>1, <2>2
<1>6. CASE WriteFails \/ HeadFails \/ AuditFails
  BY <1>6, <1>a DEF WriteFails, HeadFails, AuditFails
<1>7. CASE RecoveryNext \/ Crash
  <2>1. phase \in {"down", "stuck"} => stage = "free"
    BY DEF ModeInv
  <2>2. ~Load
    BY <2>1 DEF Load
  <2> QED BY <1>7, <2>2 DEF RecoveryNext, RecoveryDone, Crash, Release
<1> QED BY <1>1, <1>2, <1>3, <1>4, <1>5, <1>6, <1>7 DEF Next, FaultNext

\* A fault is counted, and a lost save is one.
LEMMA Faults ==
  ASSUME TypeOK, [Next]_vars
  PROVE  /\ faults' = faults \/ (faults' = faults + 1 /\ FaultNext)
         /\ FaultNext => faults' # 0
         /\ NothingLost' => NothingLost /\ ~LandFails
         /\ faults' = 0 => faults = 0
<1> USE DEF durable, client, bounds
<1>0. faults \in Nat
  BY BoundsAssumption DEF TypeOK
<1>1. CASE FaultNext
  <2>1. faults' = faults + 1
    BY <1>1 DEF FaultNext, WriteFails, HeadFails, LandFails, AuditFails, Fails
  <2>2. LandFails => "landing" \in FaultyStages
    BY DEF LandFails, Fails
  <2> QED BY <1>0, <1>1, <2>1, <2>2 DEF NothingLost
<1>2. CASE ~FaultNext
  <2>1. faults' = faults
    BY <1>2 DEF Next, ClientNext, LockNext, CommitNext, RecoveryNext, vars,
       MakePreview, DropPreview, RequestApply, RequestRollback, Enqueue, Delete, Begin,
       Conflict, Recheck, Deny, WriteBackup, WritePrepared, WriteSnapshot, WriteHead,
       LandHeads, VerifyHead, MarkPending, AppendAudit, WriteFinal, Crash, Load, Recover,
       RecoveryDone
  <2> QED BY <1>0, <1>2, <2>1 DEF NothingLost, FaultNext
<1> QED BY <1>1, <1>2

-----------------------------------------------------------------------------
(* The line of saves and the copies in it *)

LEMMA CopiesType ==
  ASSUME TypeOK, NEW p \in Projects
  PROVE  /\ Copies(p) \subseteq HeadRec \cup {NoHead}
         /\ Versions(p) \subseteq HeadRec
         /\ \A i \in Written : saving[i].heads \in HeadMap
         /\ Loaded[p] \in Copies(p)
<1>1. /\ Len(saving) \in Nat /\ DOMAIN saving = 1..Len(saving)
      /\ \A i \in DOMAIN saving : saving[i] \in Save
  BY LenProperties, ElementOfSeq DEF TypeOK
<1>2. \A i \in Written : saving[i].heads \in HeadMap
  BY <1>1 DEF Written, Save
<1>3. Copies(p) \subseteq HeadRec \cup {NoHead}
  BY <1>2 DEF Copies, TypeOK, HeadMap
<1>4. Loaded[p] \in Copies(p)
  BY <1>1 DEF Loaded, Copies, Written
<1> QED BY <1>2, <1>3, <1>4 DEF Versions

\* A save is over: those behind it move up, and the next one takes the data of
\* the last.
LEMMA LineMoves ==
  ASSUME TypeOK, saving # <<>>, saving' = Waiting(Tail(saving))
  PROVE  LET n == Len(saving) IN
         /\ n \in Nat \ {0} /\ Head(saving) = saving[1]
         /\ DOMAIN saving = 1..n /\ DOMAIN saving' = 1..(n - 1)
         /\ \A i \in 1..(n - 1) : saving'[i].by = saving[i + 1].by
         /\ n > 1 => saving'[1].heads = saving[n].heads
         /\ \A i \in 2..(n - 1) : saving'[i].heads = None
<1> DEFINE n == Len(saving)
           r == Tail(saving)
<1>1. /\ n \in Nat \ {0} /\ Head(saving) = saving[1] /\ DOMAIN saving = 1..n
      /\ r \in Seq(Save) /\ Len(r) = n - 1 /\ \A i \in 1..(n - 1) : r[i] = saving[i + 1]
  BY HeadTailProperties, LenProperties, EmptySeq DEF TypeOK
<1>2. DOMAIN r = 1..(n - 1) /\ \A i \in 1..(n - 1) : r[i] \in Save
  BY <1>1, LenProperties, ElementOfSeq
<1>3. /\ DOMAIN saving' = 1..(n - 1)
      /\ \A i \in 1..(n - 1) :
            saving'[i] = [r[i] EXCEPT !.heads = IF i = 1 THEN r[n - 1].heads ELSE None]
  BY <1>1, <1>2 DEF Waiting
<1>4. \A i \in 1..(n - 1) :
        /\ saving'[i].by = r[i].by
        /\ saving'[i].heads = IF i = 1 THEN r[n - 1].heads ELSE None
  <2> SUFFICES ASSUME NEW i \in 1..(n - 1)
               PROVE  /\ saving'[i].by = r[i].by
                      /\ saving'[i].heads = IF i = 1 THEN r[n - 1].heads ELSE None
    OBVIOUS
  <2> DEFINE d == IF i = 1 THEN r[n - 1].heads ELSE None
  <2>1. saving'[i] = [r[i] EXCEPT !.heads = d] /\ r[i] \in Save
    BY <1>2, <1>3
  <2> HIDE DEF d, r
  <2>2. saving'[i].by = r[i].by /\ saving'[i].heads = d
    BY <2>1 DEF Save
  <2> QED BY <2>2 DEF d
<1>5. n > 1 => r[n - 1] = saving[n]
  BY <1>1
<1> QED BY <1>1, <1>3, <1>4, <1>5

\* A save is issued: it comes last, with the heads in memory.
LEMMA LineGrows ==
  ASSUME TypeOK, NEW b \in Users \cup {"tx"}, memHeads' \in HeadMap,
         saving' = Append(saving, [by |-> b, heads |-> memHeads'])
  PROVE  LET n == Len(saving) IN
         /\ n \in Nat /\ DOMAIN saving = 1..n /\ DOMAIN saving' = 1..(n + 1)
         /\ \A i \in 1..n : saving'[i] = saving[i]
         /\ saving'[n + 1].by = b /\ saving'[n + 1].heads = memHeads'
         /\ Written' = Written \cup {n + 1}
<1> DEFINE n == Len(saving)
           e == [by |-> b, heads |-> memHeads']
<1>1. e \in Save /\ memHeads' # None
  BY SentinelAssumption DEF Save
<1>2. /\ n \in Nat /\ DOMAIN saving = 1..n /\ DOMAIN saving' = 1..(n + 1)
      /\ \A i \in 1..n : saving'[i] = saving[i]
      /\ saving'[n + 1] = e
  BY <1>1, AppendProperties, LenProperties DEF TypeOK
<1>3. Written' = Written \cup {n + 1}
  BY <1>1, <1>2 DEF Written
<1> QED BY <1>2, <1>3

\* Nothing becomes a copy of a head but what the transaction at work writes.
LEMMA CopiesKept ==
  ASSUME IndInv, [Next]_vars, ~WriteHead, ~HeadFails, NEW p \in Projects
  PROVE  Copies(p)' \subseteq Copies(p) \cup {NoHead}
<1>0. TypeOK /\ TypeOK'
  BY TypeStep DEF IndInv
<1>1. heads[p] \in Copies(p) /\ memHeads[p] \in Copies(p) /\ Loaded[p] \in Copies(p)
      /\ \A i \in Written : saving[i].heads[p] \in Copies(p)
  BY <1>0, CopiesType DEF Copies
<1>2. CASE UNCHANGED <<heads, saving>> /\ memHeads' \in {memHeads, Loaded}
  BY <1>1, <1>2 DEF Copies, Written
<1>3. CASE LandHeads \/ LandFails
  <2>1. saving # <<>> /\ saving' = Waiting(Tail(saving)) /\ memHeads' = memHeads
    BY <1>3 DEF LandHeads, LandFails
  <2> DEFINE n == Len(saving)
  <2>2. /\ n \in Nat \ {0} /\ Head(saving) = saving[1]
        /\ DOMAIN saving = 1..n /\ DOMAIN saving' = 1..(n - 1)
        /\ n > 1 => saving'[1].heads = saving[n].heads
        /\ \A i \in 2..(n - 1) : saving'[i].heads = None
    BY <1>0, <2>1, LineMoves
  <2>3. \A i \in Written' : saving'[i].heads[p] \in Copies(p)
    <3> SUFFICES ASSUME NEW i \in Written' PROVE saving'[i].heads[p] \in Copies(p)
      OBVIOUS
    <3>1. i = 1 /\ n > 1 /\ saving'[1].heads = saving[n].heads /\ n \in DOMAIN saving
      BY <2>2 DEF Written
    <3>2. n \in Written
      BY <3>1 DEF Written
    <3> QED BY <1>1, <3>1, <3>2
  <2>4. heads'[p] \in Copies(p)
    <3>1. CASE LandFails
      BY <1>1, <3>1 DEF LandFails, durable
    <3>2. CASE LandHeads
      BY <1>1, <2>2, <3>2 DEF LandHeads, Written
    <3> QED BY <1>3, <3>1, <3>2
  <2> QED BY <1>1, <2>1, <2>3, <2>4 DEF Copies
<1>4. ASSUME NEW u \in Users, NEW q \in Projects, Delete(u, q)
      PROVE  Copies(p)' \subseteq Copies(p) \cup {NoHead}
  <2>1. /\ memHeads' = [memHeads EXCEPT ![q] = NoHead] /\ heads' = heads
        /\ saving' = Append(saving, [by |-> u, heads |-> memHeads'])
    BY <1>4 DEF Delete, durable
  <2>2. memHeads' \in HeadMap
    BY <1>0 DEF TypeOK
  <2>3. memHeads'[p] \in {memHeads[p], NoHead}
    BY <1>0, <2>1 DEF TypeOK, HeadMap
  <2> DEFINE n == Len(saving)
  <2>4. /\ n \in Nat /\ DOMAIN saving = 1..n
        /\ \A i \in 1..n : saving'[i] = saving[i]
        /\ saving'[n + 1].heads = memHeads'
        /\ Written' = Written \cup {n + 1}
    BY <1>0, <2>1, <2>2, LineGrows
  <2>5. \A i \in Written' : saving'[i].heads[p] \in Copies(p) \cup {NoHead}
    BY <1>1, <2>3, <2>4 DEF Written
  <2> QED BY <1>1, <2>1, <2>3, <2>5 DEF Copies
<1>5. CASE Crash \/ Load
  <2>1. saving' = <<>> /\ heads' = heads /\ memHeads'[p] \in {NoHead, heads[p]}
    BY <1>5 DEF Crash, Load, durable
  <2>2. Written' = {}
    BY <2>1, EmptySeq, LenProperties DEF Written
  <2> QED BY <1>1, <2>1, <2>2 DEF Copies
<1> QED BY <1>2, <1>3, <1>4, <1>5, HeadFrames

\* What that adds to the copies, and to nothing else.
LEMMA CopyAdded ==
  ASSUME IndInv, [Next]_vars, WriteHead \/ HeadFails
  PROVE  \E s \in Stored :
            /\ HeadFrom(s) \in HeadRec /\ HeadFrom(s).revision = op.revision + 1
            /\ HeadFrom(s).tx = s.tx /\ s \in snaps /\ s.project = op.project
            /\ memHeads' = [memHeads EXCEPT ![op.project] = HeadFrom(s)]
            /\ \A p \in Projects :
                  Copies(p)' \subseteq
                     Copies(p) \cup IF p = op.project THEN {HeadFrom(s)} ELSE {}
<1>0. TypeOK /\ TypeOK' /\ stage = "head" /\ op \in Op
  BY TypeStep DEF IndInv, LockInv, WriteHead, HeadFails
<1>1. PICK s \in Stored : memHeads' = [memHeads EXCEPT ![op.project] = HeadFrom(s)]
  BY DEF WriteHead, HeadFails
<1>2. s \in snaps /\ s \in Snapshot /\ s.project = op.project /\ s.revision = op.revision + 1
  BY <1>0 DEF Stored, StoredAs, TypeOK
<1>3. HeadFrom(s) \in HeadRec /\ HeadFrom(s).revision = op.revision + 1 /\ HeadFrom(s).tx = s.tx
  BY <1>2, HeadFromType DEF HeadFrom
<1>4. ASSUME NEW p \in Projects
      PROVE  Copies(p)' \subseteq Copies(p) \cup IF p = op.project THEN {HeadFrom(s)} ELSE {}
  <2>1. memHeads'[p] = IF p = op.project THEN HeadFrom(s) ELSE memHeads[p]
    BY <1>0, <1>1 DEF TypeOK, HeadMap
  <2>2. heads' = heads /\ (saving' = saving \/ WriteHead)
    BY DEF WriteHead, HeadFails, durable
  <2>3. CASE saving' = saving
    BY <2>1, <2>2, <2>3 DEF Copies, Written
  <2>4. CASE WriteHead
    <3> DEFINE n == Len(saving)
    <3>1. memHeads' \in HeadMap /\ saving' = Append(saving, [by |-> "tx", heads |-> memHeads'])
      BY <1>0, <2>4 DEF WriteHead, TypeOK
    <3>2. /\ n \in Nat /\ DOMAIN saving = 1..n
          /\ \A i \in 1..n : saving'[i] = saving[i]
          /\ saving'[n + 1].heads = memHeads'
          /\ Written' = Written \cup {n + 1}
      BY <1>0, <3>1, LineGrows
    <3>3. \A i \in Written' : saving'[i].heads[p] \in Copies(p) \cup {memHeads'[p]}
      BY <3>2 DEF Written, Copies
    <3> QED BY <2>1, <2>2, <3>3 DEF Copies
  <2> QED BY <2>2, <2>3, <2>4
<1> QED BY <1>1, <1>2, <1>3, <1>4

-----------------------------------------------------------------------------
(* Journals, snapshots and versions *)

LEMMA ModeStep == IndInv /\ ModeInv /\ [Next]_vars => ModeInv'
<1> SUFFICES ASSUME IndInv, ModeInv, [Next]_vars, stage' # "free"
             PROVE  ModeInv'
  BY DEF ModeInv
<1>0. TypeOK /\ LockInv /\ ClientInv
  BY DEF IndInv
<1>1. ASSUME NEW u \in Users, Begin(u)
      PROVE  ModeInv'
  <2>1. op'.mode = "commit" /\ phase' = "up"
    BY <1>0, <1>1, BeginType DEF Begin
  <2> QED BY <2>1 DEF ModeInv
<1>2. CASE Recover
  <2>1. op'.mode = "recover" /\ phase' = "recovering" /\ stage' \in {"pending", "verify", "head"}
    BY <1>2 DEF Recover
  <2> QED BY <2>1 DEF ModeInv
<1>3. ASSUME op' = op, phase' = phase, stage # "free",
             Recheck \/ WriteBackup \/ WritePrepared \/ WriteSnapshot \/ WriteHead
             \/ LandHeads \/ LandFails \/ VerifyHead \/ MarkPending \/ AppendAudit
      PROVE  ModeInv'
  <2>1. CASE Recheck \/ WriteBackup \/ WritePrepared \/ WriteSnapshot
    <3>1. stage \in {"recheck", "backup", "prepare", "snapshot"}
      BY <2>1 DEF Recheck, WriteBackup, WritePrepared, WriteSnapshot
    <3> QED BY <1>3, <3>1 DEF ModeInv
  <2>2. CASE LandHeads \/ LandFails
    <3>1. stage' \in {stage, "verify"}
      BY <2>2 DEF LandHeads, LandFails, Landed
    <3> QED BY <1>3, <3>1 DEF ModeInv
  <2>3. CASE WriteHead \/ VerifyHead \/ MarkPending \/ AppendAudit
    <3>1. stage' \in {"landing", "pending", "audit", "final"}
      BY <1>3, <2>3 DEF WriteHead, VerifyHead, MarkPending, AppendAudit, Raise, Release
    <3> QED BY <1>3, <3>1 DEF ModeInv
  <2> QED BY <1>3, <2>1, <2>2, <2>3
<1>4. CASE UNCHANGED <<stage, op, phase>>
  BY <1>4 DEF ModeInv
<1> QED BY <1>1, <1>2, <1>3, <1>4, Moves

\* Journals stay, with their project and the revision they expect; a new one is
\* that of the transaction at work.
LEMMA JournalsGrow ==
  ASSUME IndInv, OrderInv, [Next]_vars
  PROVE  /\ \A t \in TxIds : journals[t] # None =>
               /\ journals'[t] # None
               /\ journals'[t].project = journals[t].project
               /\ journals'[t].expected = journals[t].expected
         /\ \A t \in TxIds : journals[t] = None /\ journals'[t] # None => WritePrepared /\ t = op.tx
         /\ WritePrepared =>
               /\ op.tx \in FreshTx /\ journals'[op.tx] # None
               /\ journals'[op.tx].project = op.project
               /\ journals'[op.tx].expected = op.revision
<1>0. TypeOK /\ TypeOK' /\ (stage # "free" => op \in Op /\ op.tx \in TxIds)
  BY TypeStep DEF IndInv, LockInv, Op
<1>a. \A t \in TxIds : journals[t] # None => journals[t] \in Journal
  BY <1>0 DEF TypeOK
<1>1. CASE WritePrepared
  <2>1. op.tx \in FreshTx /\ op \in Op /\ op.tx \in TxIds
    BY <1>0, <1>1 DEF WritePrepared, OrderInv
  <2> DEFINE j == [state |-> "PREPARED", final |-> "NONE", project |-> op.project,
                   expected |-> op.revision, base |-> op.base, content |-> op.content]
  <2>2. journals[op.tx] = None /\ j \in Journal
    BY <2>1 DEF FreshTx, Unjournaled, Journal, Op
  <2>3. journals'[op.tx] = j /\ \A t \in TxIds : t # op.tx => journals'[t] = journals[t]
    BY <1>0, <1>1, <2>1 DEF WritePrepared, TypeOK
  <2>4. j # None
    BY <2>2, SentinelAssumption
  <2> QED BY <1>1, <2>1, <2>2, <2>3, <2>4
<1>2. CASE MarkPending \/ WriteFinal
  <2>1. stage \in {"pending", "final"} /\ op.tx \in TxIds /\ journals[op.tx] \in Journal
    BY <1>0, <1>2 DEF IndInv, LockInv, MarkPending, WriteFinal
  <2>2. /\ \A t \in TxIds : t # op.tx => journals'[t] = journals[t]
        /\ \/ journals'[op.tx] = [journals[op.tx] EXCEPT !.state = "AUDIT_PENDING", !.final = op.verdict]
           \/ journals'[op.tx] = [journals[op.tx] EXCEPT !.state = op.verdict]
    BY <1>0, <1>2, <2>1 DEF MarkPending, WriteFinal, TypeOK
  <2>3. /\ journals'[op.tx].project = journals[op.tx].project
        /\ journals'[op.tx].expected = journals[op.tx].expected
        /\ journals'[op.tx] \in Journal
    BY <1>0, <2>1, <2>2 DEF Journal, Op
  <2>4. journals'[op.tx] # None /\ journals[op.tx] # None
    BY <2>1, <2>3, SentinelAssumption
  <2>5. ~WritePrepared
    BY <2>1 DEF WritePrepared
  <2> QED BY <2>2, <2>3, <2>4, <2>5
<1>3. CASE ~WritePrepared /\ ~MarkPending /\ ~WriteFinal
  BY <1>3, Frames
<1> QED BY <1>1, <1>2, <1>3

\* What was created anew after a head was.
LEMMA AnewKept ==
  ASSUME IndInv, OrderInv, [Next]_vars, NEW p, NEW h, Anew(p, h)
  PROVE  Anew(p, h)'
BY JournalsGrow DEF Anew

\* A fresh id is later than all those that are journaled.
LEMMA FreshIsLast ==
  ASSUME OrderInv, NEW f \in FreshTx, NEW t \in TxIds, journals[t] # None
  PROVE  t < f
<1>1. f \in 1..MaxTx /\ journals[f] = None /\ t \in 1..MaxTx
  BY DEF FreshTx, Unjournaled, TxIds
<1>2. ~(f < t)
  BY <1>1 DEF OrderInv, TxIds
<1>3. t # f
  BY <1>1
<1> QED BY <1>1, <1>2, <1>3, BoundsAssumption

LEMMA OrderStep == IndInv /\ ModeInv /\ OrderInv /\ [Next]_vars => OrderInv'
<1> SUFFICES ASSUME IndInv, ModeInv, OrderInv, [Next]_vars
             PROVE  OrderInv'
  OBVIOUS
<1>0. TypeOK /\ LockInv /\ ClientInv /\ (stage # "free" => op \in Op /\ op.tx \in TxIds)
  BY DEF IndInv, LockInv, Op
<1>1. \A t, u \in TxIds : journals'[t] # None /\ u < t => journals'[u] # None
  <2> SUFFICES ASSUME NEW t \in TxIds, NEW u \in TxIds, journals'[t] # None, u < t
               PROVE  journals'[u] # None
    OBVIOUS
  <2>1. CASE journals[t] # None
    BY <2>1, JournalsGrow DEF OrderInv
  <2>2. CASE journals[t] = None
    <3>1. t \in FreshTx
      BY <2>2, JournalsGrow
    <3>2. journals[u] # None
      <4>1. t \in 1..MaxTx /\ u \in 1..MaxTx
        BY DEF TxIds
      <4> QED BY <3>1, <4>1, BoundsAssumption DEF FreshTx, Unjournaled
    <3> QED BY <3>2, JournalsGrow
  <2> QED BY <2>1, <2>2
<1>2. CASE stage' = "free"
  BY <1>1, <1>2 DEF OrderInv, Journaled
<1>3. ASSUME NEW u \in Users, Begin(u)
      PROVE  OrderInv'
  <2>1. stage' = "recheck" /\ op'.tx \in FreshTx /\ journals' = journals
    BY <1>3 DEF Begin, durable
  <2> QED BY <1>1, <2>1 DEF OrderInv, Journaled, FreshTx, Unjournaled
<1>4. CASE Recover /\ stage' # "free"
  <2>1. PICK t \in Open : op'.tx = t /\ op'.project = journals[t].project
                          /\ op'.revision = journals[t].expected
    BY <1>4 DEF Recover
  <2>2. journals' = journals /\ stage' \in {"pending", "verify", "head"}
    BY <1>4 DEF Recover, durable
  <2> QED BY <1>1, <2>1, <2>2 DEF OrderInv, Journaled
<1>5. ASSUME op' = op, stage # "free", stage' # "free",
             Recheck \/ WriteBackup \/ WritePrepared \/ WriteSnapshot \/ WriteHead
             \/ LandHeads \/ LandFails \/ VerifyHead \/ MarkPending \/ AppendAudit
      PROVE  OrderInv'
  <2>1. CASE Recheck \/ WriteBackup
    <3>1. stage \in {"recheck", "backup"} /\ stage' \in {"backup", "prepare"} /\ journals' = journals
      BY <1>5, <2>1 DEF Recheck, WriteBackup, Raise, Release, durable
    <3> QED BY <1>1, <1>5, <3>1 DEF OrderInv, Journaled, FreshTx, Unjournaled
  <2>2. CASE WritePrepared
    <3>1. stage' = "snapshot"
      BY <2>2 DEF WritePrepared
    <3> QED BY <1>1, <1>5, <2>2, <3>1, JournalsGrow DEF OrderInv
  <2>3. CASE LandHeads \/ LandFails
    <3>1. stage' = stage \/ (stage = "landing" /\ stage' = "verify")
      BY <1>0, <2>3, LandedType DEF LandHeads, LandFails
    <3>2. journals' = journals
      BY <2>3 DEF LandHeads, LandFails, durable
    <3> QED BY <1>1, <1>5, <3>1, <3>2 DEF OrderInv, Journaled, FreshTx, Unjournaled
  <2>4. CASE WriteSnapshot \/ WriteHead \/ VerifyHead \/ MarkPending \/ AppendAudit
    <3>1. stage \in Journaled /\ stage' \in {"head", "landing", "pending", "audit", "final"}
      BY <1>5, <2>4 DEF WriteSnapshot, WriteHead, VerifyHead, MarkPending, AppendAudit, Raise,
         Release, Journaled
    <3>2. journals[op.tx] \in Journal /\ op.tx \in TxIds
      BY <1>0, <1>5, <3>1 DEF LockInv, Journaled
    <3>3. journals[op.tx] # None
      BY <3>2, SentinelAssumption
    <3> QED BY <1>1, <1>5, <3>1, <3>2, <3>3, JournalsGrow DEF OrderInv
  <2> QED BY <1>5, <2>1, <2>2, <2>3, <2>4
<1>6. CASE UNCHANGED <<journals, stage, op>>
  BY <1>6 DEF OrderInv, FreshTx, Unjournaled
<1> QED BY <1>2, <1>3, <1>4, <1>5, <1>6, Moves

LEMMA ToldStep == IndInv /\ ModeInv /\ OrderInv /\ ToldInv /\ [Next]_vars => ToldInv'
<1> SUFFICES ASSUME IndInv, ModeInv, OrderInv, ToldInv, [Next]_vars
             PROVE  ToldInv'
  OBVIOUS
<1>0. TypeOK /\ LockInv /\ ClientInv /\ (stage # "free" => op \in Op /\ op.tx \in TxIds)
  BY DEF IndInv, LockInv, Op
<1>1. acked' = acked \/ (acked' = acked \cup {op.tx} /\ stage \in {"audit", "final"} /\ stage' = "free")
  <2>1. CASE acked' # acked
    <3>1. Succeed /\ (WriteFinal \/ AuditFails)
      BY <2>1, Frames
    <3> QED BY <2>1, <3>1 DEF Succeed, Release, WriteFinal, AuditFails
  <2> QED BY <2>1
<1>2. \A t \in acked' : journals'[t] # None
  <2>1. stage \in {"audit", "final"} => journals[op.tx] # None /\ op.tx \in TxIds
    BY <1>0, SentinelAssumption DEF LockInv
  <2>2. \A t \in acked' : t \in TxIds /\ journals[t] # None
    BY <1>0, <1>1, <2>1 DEF ToldInv, TypeOK
  <2> QED BY <2>2, JournalsGrow
<1>3. ASSUME phase' = "up", stage' # "free"
      PROVE  op'.tx \notin acked'
  <2>1. acked' = acked
    BY <1>1, <1>3
  <2>2. ASSUME NEW u \in Users, Begin(u)
        PROVE  op'.tx \notin acked
    BY <2>2 DEF Begin, ToldInv, FreshTx, Unjournaled
  <2>3. ~Recover
    BY <1>3 DEF Recover
  <2>4. CASE op' = op /\ phase' = phase /\ stage # "free"
    BY <1>3, <2>1, <2>4 DEF ToldInv
  <2>5. CASE UNCHANGED <<stage, op, phase>>
    BY <1>3, <2>1, <2>5 DEF ToldInv
  <2> QED BY <1>3, <2>1, <2>2, <2>3, <2>4, <2>5, Moves
<1> QED BY <1>2, <1>3 DEF ToldInv

LEMMA OriginStep ==
  IndInv /\ ModeInv /\ OrderInv /\ OriginInv /\ [Next]_vars => OriginInv'
<1> SUFFICES ASSUME IndInv, ModeInv, OrderInv, OriginInv, [Next]_vars
             PROVE  OriginInv'
  OBVIOUS
<1>0. TypeOK /\ TypeOK' /\ LockInv /\ ClientInv /\ (stage # "free" => op \in Op /\ op.tx \in TxIds)
  BY TypeStep DEF IndInv, LockInv, Op
<1>a. \A s \in snaps : s \in Snapshot /\ s.tx \in TxIds
  BY <1>0 DEF TypeOK, Snapshot
<1>1. ASSUME NEW s \in snaps', s.revision > 0
      PROVE  journals'[s.tx] # None /\ journals'[s.tx].project = s.project
  <2>1. CASE s \in snaps
    BY <1>1, <1>a, <2>1, JournalsGrow DEF OriginInv
  <2>2. CASE s \notin snaps
    <3>1. WriteBackup \/ WriteSnapshot
      BY <2>2, Frames
    <3>2. ~WriteBackup
      <4> DEFINE b == [project |-> op.project, revision |-> 0, content |-> op.base, tx |-> op.tx]
      <4>1. WriteBackup => snaps' \subseteq snaps \cup {b}
        BY DEF WriteBackup, PutSnapshot, Pruned
      <4>2. b.revision = 0
        OBVIOUS
      <4> QED BY <1>1, <2>2, <4>1, <4>2
    <3>3. s = NewSnapshot /\ stage = "snapshot"
      BY <2>2, <3>1, <3>2 DEF WriteSnapshot, PutSnapshot, Pruned
    <3>4. journals[op.tx] # None /\ op.tx \in TxIds /\ journals[op.tx].project = op.project
      BY <1>0, <3>3, SentinelAssumption DEF LockInv, OrderInv, Journaled
    <3> QED BY <3>3, <3>4, JournalsGrow DEF NewSnapshot
  <2> QED BY <2>1, <2>2
<1>2. ASSUME NEW p \in Projects, NEW h \in Versions(p)'
      PROVE  journals'[h.tx] # None /\ journals'[h.tx].project = p
  <2>1. CASE h \in Versions(p)
    <3>1. h \in HeadRec /\ h.tx \in TxIds
      BY <1>0, <2>1, CopiesType DEF HeadRec
    <3> QED BY <2>1, <3>1, JournalsGrow DEF OriginInv
  <2>2. CASE h \notin Versions(p)
    <3>1. WriteHead \/ HeadFails
      BY <2>2, CopiesKept DEF Versions
    <3>2. PICK s \in Stored :
            /\ HeadFrom(s).tx = s.tx /\ s \in snaps /\ s.project = op.project
            /\ Copies(p)' \subseteq Copies(p) \cup IF p = op.project THEN {HeadFrom(s)} ELSE {}
      BY <3>1, CopyAdded
    <3>3. h = HeadFrom(s) /\ p = op.project
      BY <2>2, <3>2 DEF Versions
    <3>4. s.revision = op.revision + 1 /\ op.revision \in Nat
      <4>1. stage = "head"
        BY <3>1 DEF WriteHead, HeadFails
      <4> QED BY <1>0, <4>1 DEF Stored, StoredAs, Op, Revisions
    <3>5. journals[s.tx] # None /\ journals[s.tx].project = s.project /\ s.tx \in TxIds
      BY <1>a, <3>2, <3>4 DEF OriginInv
    <3> QED BY <3>2, <3>3, <3>5, JournalsGrow
  <2> QED BY <2>1, <2>2
<1>3. ASSUME phase' = "up", stage' = "head", NEW s \in Stored'
      PROVE  s.tx = op'.tx
  <2>1. ASSUME NEW u \in Users, Begin(u)
        PROVE  FALSE
    BY <1>3, <2>1 DEF Begin
  <2>2. ~Recover
    BY <1>3 DEF Recover
  <2>3. CASE UNCHANGED <<snaps, stage, op, phase>>
    BY <1>3, <2>3 DEF OriginInv, Stored, StoredAs
  <2>4. CASE op' = op /\ WriteSnapshot
    <3>1. Stored = {} /\ snaps' \subseteq snaps \cup {NewSnapshot}
      BY <1>3, <2>4 DEF WriteSnapshot, PutSnapshot, Pruned, Raise, Release
    <3>2. s = NewSnapshot
      BY <2>4, <3>1 DEF Stored, StoredAs
    <3> QED BY <2>4, <3>2 DEF NewSnapshot
  <2>5. CASE /\ op' = op /\ phase' = phase /\ stage # "free"
             /\ \/ Recheck \/ WriteBackup \/ WritePrepared \/ WriteHead
                \/ LandHeads \/ LandFails \/ VerifyHead \/ MarkPending \/ AppendAudit
    <3>1. CASE Recheck \/ WriteBackup \/ WritePrepared
      BY <1>3, <3>1 DEF Recheck, WriteBackup, WritePrepared, Raise, Release
    <3>2. CASE WriteHead \/ VerifyHead \/ MarkPending \/ AppendAudit
      BY <1>3, <3>2 DEF WriteHead, VerifyHead, MarkPending, AppendAudit, Raise, Release
    <3>3. CASE LandHeads \/ LandFails
      <4>1. stage = "head" /\ snaps' = snaps
        BY <1>0, <1>3, <3>3, LandedType DEF LandHeads, LandFails, durable
      <4> QED BY <1>3, <2>5, <4>1 DEF OriginInv, Stored, StoredAs
    <3> QED BY <2>5, <3>1, <3>2, <3>3
  <2> QED BY <1>3, <2>1, <2>2, <2>3, <2>4, <2>5, Moves
<1> QED BY <1>1, <1>2, <1>3 DEF OriginInv

LEMMA LineStep == IndInv /\ LineInv /\ [Next]_vars => LineInv'
<1> SUFFICES ASSUME IndInv, LineInv, [Next]_vars
             PROVE  LineInv'
  OBVIOUS
<1>0. TypeOK /\ TypeOK'
  BY TypeStep DEF IndInv
<1> DEFINE n == Len(saving)
<1>1. CASE LandHeads \/ LandFails
  <2>1. saving # <<>> /\ saving' = Waiting(Tail(saving))
    BY <1>1 DEF LandHeads, LandFails
  <2>2. n \in Nat /\ DOMAIN saving' = 1..(n - 1) /\ \A i \in 2..(n - 1) : saving'[i].heads = None
    BY <1>0, <2>1, LineMoves
  <2> QED BY <2>2 DEF LineInv
<1>2. ASSUME NEW b \in Users \cup {"tx"}, saving' = Append(saving, [by |-> b, heads |-> memHeads'])
      PROVE  LineInv'
  <2>1. /\ n \in Nat /\ DOMAIN saving = 1..n /\ DOMAIN saving' = 1..(n + 1)
        /\ \A i \in 1..n : saving'[i] = saving[i]
        /\ saving'[n + 1].heads = memHeads'
    BY <1>0, <1>2, LineGrows DEF TypeOK
  <2>2. saving'[n + 1].heads # None
    BY <1>0, <2>1, SentinelAssumption DEF TypeOK
  <2>3. ASSUME NEW i \in DOMAIN saving', NEW j \in DOMAIN saving',
               2 <= i, i < j, saving'[j].heads = None
        PROVE  saving'[i].heads = None
    <3>1. i \in 1..n /\ j \in 1..n
      BY <2>1, <2>2, <2>3
    <3> QED BY <2>1, <2>3, <3>1 DEF LineInv
  <2> QED BY <2>3 DEF LineInv
<1>3. CASE WriteHead \/ \E u \in Users, p \in Projects : Delete(u, p)
  BY <1>2, <1>3 DEF WriteHead, Delete
<1>4. CASE Crash \/ Load
  <2>1. saving' = <<>>
    BY <1>4 DEF Crash, Load
  <2> QED BY <2>1, EmptySeq, LenProperties DEF LineInv
<1>5. CASE saving' = saving
  BY <1>5 DEF LineInv
<1> QED BY <1>1, <1>3, <1>4, <1>5, HeadFrames DEF HeadFails

LEMMA TracedStep == IndInv /\ Traced /\ [Next]_vars => Traced'
BY ModeStep, OrderStep, ToldStep, OriginStep, LineStep DEF Traced

-----------------------------------------------------------------------------
(* Before clients are served *)

LEMMA QuietStep ==
  IndInv /\ Traced /\ QuietInv /\ NothingLost' /\ [Next]_vars => QuietInv'
<1> SUFFICES ASSUME IndInv, Traced, QuietInv, NothingLost', [Next]_vars, phase' # "up"
             PROVE  QuietInv'
  BY DEF QuietInv
<1> USE DEF durable, client, bounds
<1>0. TypeOK /\ TypeOK' /\ LockInv /\ ModeInv /\ ~LandFails
  BY TypeStep, Faults DEF IndInv, Traced
<1>a. phase # "up" /\ stage # "landing" => saving = <<>> /\ Loaded = heads
  BY DEF QuietInv, Loaded
<1>b. stage # "free" => (op.mode = "commit" <=> phase = "up") /\ phase \in {"up", "recovering"}
  BY <1>0 DEF ModeInv
<1>1. CASE Crash
  BY <1>1 DEF Crash, Release, QuietInv
<1>2. CASE Load
  BY <1>2, <1>b DEF Load, QuietInv
<1>3. CASE Recover
  <2>1. phase = "recovering" /\ stage = "free" /\ heads' = heads /\ memHeads' = heads
        /\ saving' = <<>> /\ stage' # "landing"
    BY <1>3, <1>a DEF Recover
  <2>2. stage' = "head" /\ heads[op'.project] # NoHead => heads[op'.project].revision = op'.revision
    BY <1>3, <1>a DEF Recover, MatchesOld
  <2> QED BY <2>1, <2>2 DEF QuietInv
<1>4. CASE UNCHANGED <<heads, memHeads, saving, stage, op, phase>>
  BY <1>4 DEF QuietInv
<1>5. CASE WriteHead
  <2>1. phase = "recovering" /\ stage = "head" /\ UNCHANGED <<heads, op, phase>> /\ stage' = "landing"
    BY <1>5, <1>b DEF WriteHead
  <2>2. saving = <<>> /\ memHeads = heads
    BY <2>1, <1>a DEF QuietInv
  <2>3. \E h \in HeadRec : /\ h.revision = op.revision + 1
                           /\ memHeads' = [heads EXCEPT ![op.project] = h]
    BY <1>5, <2>2, CopyAdded
  <2>4. saving' = <<[by |-> "tx", heads |-> memHeads']>>
    BY <1>5, <2>2 DEF WriteHead
  <2> QED BY <2>1, <2>3, <2>4 DEF QuietInv
<1>6. CASE LandHeads
  <2>1. stage = "landing" /\ phase = "recovering" /\ phase' = phase /\ memHeads' = memHeads
    BY <1>6, <1>a, <1>b DEF LandHeads
  <2>2. saving = <<[by |-> "tx", heads |-> memHeads]>>
    BY <2>1 DEF QuietInv
  <2>3. Len(saving) = 1 /\ saving # <<>> /\ Head(saving) = [by |-> "tx", heads |-> memHeads]
    BY <2>2
  <2>4. DOMAIN saving' = 1..0
    BY <1>0, <1>6, <2>3, LineMoves DEF LandHeads
  <2>5. saving' = <<>>
    BY <1>0, <2>4, LenProperties, EmptySeq DEF TypeOK
  <2>6. memHeads # None
    BY <1>0, SentinelAssumption DEF TypeOK
  <2>7. heads' = memHeads /\ stage' = "verify"
    BY <1>6, <2>3, <2>6 DEF LandHeads, Landed
  <2> QED BY <2>1, <2>5, <2>7 DEF QuietInv
<1>7. CASE VerifyHead
  <2>1. phase = "recovering" /\ saving = <<>> /\ heads' = heads /\ memHeads' = heads
        /\ saving' = <<>> /\ stage' \in {"pending", "free"}
    BY <1>7, <1>a, <1>b DEF VerifyHead, Raise, Release
  <2> QED BY <2>1 DEF QuietInv
<1>8. CASE MarkPending \/ AppendAudit \/ WriteFinal \/ WriteFails \/ AuditFails
  <2>1. /\ UNCHANGED <<heads, memHeads, saving>> /\ stage' \in {"audit", "final", "free"}
        /\ stage \notin {"free", "landing"}
    BY <1>8 DEF MarkPending, AppendAudit, WriteFinal, WriteFails, AuditFails, Raise, Succeed,
       Release
  <2>2. phase = "recovering"
    BY <1>8, <1>b, <2>1 DEF MarkPending, AppendAudit, WriteFinal, WriteFails, AuditFails, Raise,
       Succeed
  <2> QED BY <1>a, <2>1, <2>2 DEF QuietInv
<1>9. CASE HeadFails
  <2>1. phase = "recovering" /\ phase' = "stuck" /\ stage' = "free" /\ saving' = saving
        /\ stage = "head"
    BY <1>9, <1>b DEF HeadFails, Raise, Release
  <2> QED BY <1>a, <2>1 DEF QuietInv
<1>10. CASE ClientNext
  BY <1>4, <1>10 DEF ClientNext, MakePreview, DropPreview, RequestApply, RequestRollback,
     Enqueue, Delete
<1>11. CASE LockNext
  <2>1. ~Recheck /\ ~Deny
    BY <1>0, <1>b DEF Recheck, Deny, Raise, ModeInv
  <2> QED BY <1>11, <2>1 DEF LockNext, Begin, Conflict
<1>12. CASE WriteBackup \/ WritePrepared \/ WriteSnapshot
  BY <1>0, <1>12, <1>b DEF WriteBackup, WritePrepared, WriteSnapshot, Raise, ModeInv
<1>13. CASE UNCHANGED vars
  BY <1>4, <1>13 DEF vars
<1> QED
  BY <1>0, <1>1, <1>2, <1>3, <1>5, <1>6, <1>7, <1>8, <1>9, <1>10, <1>11, <1>12, <1>13
  DEF Next, CommitNext, FaultNext, RecoveryNext, RecoveryDone

-----------------------------------------------------------------------------
(* The head of the transaction at work, on its way and landed *)

\* The first save is over while the head h is behind it: then h will be in
\* whatever is written next.
LEMMA OthersLand ==
  ASSUME IndInv, LineInv, LandHeads, op' = op, NEW k \in DOMAIN saving, k # 1,
         NEW h, NEW v, h \in HeadRec, OnItsWay(k, h, v), faults' = faults
  PROVE  k - 1 \in DOMAIN saving' /\ OnItsWay(k - 1, h, v)'
<1>0. TypeOK
  BY DEF IndInv
<1> DEFINE n == Len(saving)
           p == op.project
<1>1. saving # <<>> /\ saving' = Waiting(Tail(saving)) /\ memHeads' = memHeads
  BY DEF LandHeads
<1>2. /\ n \in Nat \ {0} /\ Head(saving) = saving[1]
      /\ DOMAIN saving = 1..n /\ DOMAIN saving' = 1..(n - 1)
      /\ \A i \in 1..(n - 1) : saving'[i].by = saving[i + 1].by
      /\ n > 1 => saving'[1].heads = saving[n].heads
      /\ \A i \in 2..(n - 1) : saving'[i].heads = None
  BY <1>0, <1>1, LineMoves
<1>3. k \in 2..n /\ k - 1 \in 1..(n - 1) /\ saving'[k - 1].by = saving[k].by
  BY <1>2
<1>4. heads' = IF 1 \in Written THEN saving[1].heads ELSE heads
  BY <1>2 DEF LandHeads, Written
<1>5. \A i \in Written' : i = 1 /\ n \in Written /\ saving'[i].heads = saving[n].heads
  BY <1>2, <1>3 DEF Written
<1>6. \A i \in Written' : saving'[i].heads[p] \in {h, NoHead}
  BY <1>3, <1>5 DEF OnItsWay
<1>7. 1 \notin Written' => heads'[p] \in {h, NoHead}
  <2>1. CASE 1 \notin Written' /\ k \in Written
    <3>1. n \notin Written
      BY <1>2, <1>3, <2>1 DEF Written
    <3>2. k < n /\ saving[n].heads = None /\ saving[k].heads # None
      BY <1>2, <1>3, <2>1, <3>1 DEF Written
    <3> QED BY <1>2, <1>3, <3>2 DEF LineInv
  <2>2. CASE k \notin Written
    BY <1>4, <2>2 DEF OnItsWay
  <2> QED BY <2>1, <2>2
<1>8. faults = 0 => heads'[p] \in {h, NoHead, v}
  BY <1>3, <1>4 DEF OnItsWay
<1>9. /\ saving[k].by = "tx" /\ h.revision = op.revision + 1 /\ memHeads[p] \in {h, NoHead}
      /\ faults = 0 /\ v # NoHead =>
            op.revision = v.revision \/ (op.revision = 0 /\ v.tx < op.tx)
  BY DEF OnItsWay
<1>10. OnItsWay(k - 1, h, v)'
  BY <1>1, <1>3, <1>6, <1>7, <1>8, <1>9 DEF OnItsWay
<1> QED BY <1>2, <1>3, <1>10

LEMMA LandedStep ==
  IndInv /\ Traced /\ LandingInv /\ LandedInv /\ NothingLost' /\ [Next]_vars => LandedInv'
<1> SUFFICES ASSUME IndInv, Traced, LandingInv, LandedInv, NothingLost', [Next]_vars,
                    phase' = "up", stage' \in {"verify", "pending", "audit", "final"}
             PROVE  \E h \in HeadRec : Copies(op.project)' \subseteq {h, NoHead}
  BY DEF LandedInv
<1>0. TypeOK /\ LockInv /\ ClientInv /\ ModeInv /\ ~LandFails
      /\ (stage # "free" => op \in Op /\ op.project \in Projects)
  BY Faults DEF IndInv, Traced, LockInv, Op
<1>1. CASE LandHeads /\ saving[1].by = "tx"
  <2>1. stage = "landing" /\ phase = "up" /\ op' = op /\ memHeads' = memHeads
        /\ Head(saving) = saving[1] /\ saving # <<>> /\ saving' = Waiting(Tail(saving))
    BY <1>0, <1>1, LandedType DEF LandHeads
  <2>2. PICK k \in DOMAIN saving, h \in HeadRec, v \in HeadRec \cup {NoHead} : OnItsWay(k, h, v)
    BY <2>1 DEF LandingInv
  <2> DEFINE n == Len(saving)
             p == op.project
  <2>3. /\ n \in Nat \ {0} /\ DOMAIN saving = 1..n /\ DOMAIN saving' = 1..(n - 1)
        /\ n > 1 => saving'[1].heads = saving[n].heads
        /\ \A i \in 2..(n - 1) : saving'[i].heads = None
    BY <1>0, <2>1, LineMoves
  <2>4. k = 1
    BY <1>1, <2>2, <2>3, <1>0 DEF OnItsWay, ClientInv
  <2>5. /\ memHeads[p] \in {h, NoHead}
        /\ \A i \in Written : saving[i].heads[p] \in {h, NoHead}
        /\ 1 \notin Written => heads[p] \in {h, NoHead}
    BY <2>2, <2>4 DEF OnItsWay
  <2>6. heads'[p] \in {h, NoHead}
    BY <1>1, <2>1, <2>3, <2>5 DEF LandHeads, Written
  <2>7. \A i \in Written' : i = 1 /\ n \in Written /\ saving'[i].heads = saving[n].heads
    BY <2>3 DEF Written
  <2> QED BY <2>1, <2>5, <2>6, <2>7 DEF Copies
<1>2. CASE /\ stage \in {"verify", "pending", "audit", "final"} /\ op' = op /\ phase = "up"
           /\ ~WriteHead /\ ~HeadFails
  <2>1. PICK h \in HeadRec : Copies(op.project) \subseteq {h, NoHead}
    BY <1>2 DEF LandedInv
  <2> QED BY <1>0, <1>2, <2>1, CopiesKept
<1>3. ASSUME NEW u \in Users, Begin(u)
      PROVE  FALSE
  BY <1>3 DEF Begin
<1>4. ~Recover
  BY DEF Recover
<1>5. CASE /\ op' = op /\ phase' = phase
           /\ \/ Recheck \/ WriteBackup \/ WritePrepared \/ WriteSnapshot \/ WriteHead
  BY <1>5 DEF Recheck, WriteBackup, WritePrepared, WriteSnapshot, WriteHead, Raise, Release
<1>6. CASE op' = op /\ phase' = phase /\ LandHeads /\ saving[1].by # "tx"
  <2>1. stage' = stage
    BY <1>0, <1>6, LandedType DEF LandHeads
  <2> QED BY <1>2, <1>6, <2>1 DEF WriteHead, HeadFails
<1>7. CASE /\ op' = op /\ phase' = phase
           /\ VerifyHead \/ MarkPending \/ AppendAudit
  BY <1>2, <1>7 DEF VerifyHead, MarkPending, AppendAudit, WriteHead, HeadFails
<1>8. CASE UNCHANGED <<stage, op, phase>>
  BY <1>2, <1>8 DEF WriteHead, HeadFails
<1> QED BY <1>0, <1>1, <1>3, <1>4, <1>5, <1>6, <1>7, <1>8, Moves

\* The head of a commit sets out from the one version there was.
LEMMA SetsOut ==
  ASSUME IndInv, Traced, OneVersion, BaseInv, WriteHead, phase = "up", [Next]_vars
  PROVE  LandingInv'
<1>0. TypeOK /\ TypeOK' /\ stage = "head" /\ op \in Op /\ op.project \in Projects
      /\ op' = op /\ faults' = faults /\ heads' = heads
  BY TypeStep DEF IndInv, LockInv, WriteHead, Op, durable, bounds
<1> DEFINE p == op.project
           n == Len(saving)
<1>1. PICK s \in Stored :
        /\ HeadFrom(s) \in HeadRec /\ HeadFrom(s).revision = op.revision + 1
        /\ memHeads' = [memHeads EXCEPT ![op.project] = HeadFrom(s)]
  BY CopyAdded
<1> DEFINE h == HeadFrom(s)
<1>2. memHeads'[p] = h
  BY <1>0, <1>1 DEF TypeOK, HeadMap
<1>3. PICK k \in Nat \ {0} :
        /\ k = n + 1 /\ n \in Nat /\ DOMAIN saving = 1..n /\ DOMAIN saving' = 1..k
        /\ \A i \in 1..n : saving'[i] = saving[i]
        /\ saving'[k].by = "tx" /\ saving'[k].heads = memHeads'
        /\ Written' = Written \cup {k}
  <2>1. memHeads' \in HeadMap
    BY <1>0 DEF TypeOK
  <2>2. /\ n \in Nat /\ DOMAIN saving = 1..n /\ DOMAIN saving' = 1..(n + 1)
        /\ \A i \in 1..n : saving'[i] = saving[i]
        /\ saving'[n + 1].by = "tx" /\ saving'[n + 1].heads = memHeads'
        /\ Written' = Written \cup {n + 1}
    BY <1>0, <2>1, LineGrows DEF WriteHead
  <2> QED BY <2>2
<1>4. PICK v \in HeadRec \cup {NoHead} :
        /\ faults = 0 => Copies(p) \subseteq {v, NoHead}
        /\ faults = 0 /\ v # NoHead => v \in Versions(p)
  <2>1. CASE faults = 0
    <3>1. PICK w \in HeadRec \cup {NoHead} : Copies(p) \subseteq {w, NoHead}
      BY <1>0, <2>1 DEF OneVersion
    <3>2. CASE w \in Copies(p)
      BY <3>1, <3>2 DEF Versions
    <3>3. CASE w \notin Copies(p)
      BY <3>1, <3>3
    <3> QED BY <3>2, <3>3
  <2>2. CASE faults # 0
    BY <2>2
  <2> QED BY <2>1, <2>2
<1>5. faults = 0 /\ v # NoHead =>
         op.revision = v.revision \/ (op.revision = 0 /\ v.tx < op.tx)
  BY <1>0, <1>4 DEF BaseInv
<1>6. \A i \in Written' : \/ i = k /\ saving'[i].heads[p] = h
                          \/ i \in 1..n /\ i < k /\ saving'[i].heads[p] \in Copies(p)
  BY <1>2, <1>3 DEF Written, Copies
<1>a. /\ \A i \in Written' : i >= k => saving'[i].heads[p] \in {h, NoHead}
      /\ faults = 0 => /\ heads[p] \in {v, NoHead}
                       /\ \A i \in Written' : i < k => saving'[i].heads[p] \in {v, NoHead}
  <2>1. heads[p] \in Copies(p)
    BY DEF Copies
  <2> QED BY <1>3, <1>4, <1>6, <2>1
<1>7. CASE n = 0
  <2>1. Written' = {1} /\ saving'[1].heads[p] = h
    BY <1>2, <1>3, <1>7 DEF Written
  <2>2. OnItsWay(k, h, v)'
    BY <1>0, <1>1, <1>2, <1>3, <1>5, <1>a, <2>1 DEF OnItsWay
  <2> QED BY <1>1, <1>3, <2>2 DEF LandingInv
<1>8. CASE n # 0
  <2>1. k >= 2
    BY <1>3, <1>8
  <2>2. OnItsWay(k, h, v)'
    BY <1>0, <1>1, <1>2, <1>3, <1>5, <1>a, <2>1 DEF OnItsWay
  <2> QED BY <1>1, <1>3, <2>2 DEF LandingInv
<1> QED BY <1>7, <1>8

\* A delete behind it changes nothing for the head on its way.
LEMMA DeleteBehind ==
  ASSUME IndInv, [Next]_vars, NEW u \in Users, NEW q \in Projects, Delete(u, q),
         NEW k \in DOMAIN saving, NEW h, NEW v, OnItsWay(k, h, v), op.project \in Projects
  PROVE  k \in DOMAIN saving' /\ OnItsWay(k, h, v)'
<1> DEFINE p == op.project
           n == Len(saving)
<1>0. TypeOK /\ TypeOK' /\ heads' = heads /\ op' = op /\ faults' = faults
      /\ memHeads' = [memHeads EXCEPT ![q] = NoHead]
  BY TypeStep DEF IndInv, Delete, durable
<1>1. memHeads'[p] \in {memHeads[p], NoHead}
  BY <1>0 DEF TypeOK, HeadMap
<1>2. /\ n \in Nat /\ DOMAIN saving = 1..n /\ DOMAIN saving' = 1..(n + 1)
      /\ \A i \in 1..n : saving'[i] = saving[i]
      /\ saving'[n + 1].heads = memHeads'
      /\ Written' = Written \cup {n + 1}
  BY <1>0, LineGrows DEF Delete, TypeOK
<1>3. k \in 1..n /\ saving'[k] = saving[k] /\ memHeads[p] \in {h, NoHead}
  BY <1>2 DEF OnItsWay
<1>4. saving'[n + 1].heads[p] \in {h, NoHead} /\ memHeads'[p] \in {h, NoHead}
  BY <1>1, <1>2, <1>3
<1>5. \A i \in Written : i \in 1..n /\ saving'[i] = saving[i]
  BY <1>2 DEF Written
<1>6. /\ 1 \in Written' <=> 1 \in Written
      /\ k \in Written' <=> k \in Written
      /\ ~(n + 1 < k)
  BY <1>2, <1>3
<1>7. OnItsWay(k, h, v)'
  BY <1>0, <1>2, <1>3, <1>4, <1>5, <1>6 DEF OnItsWay
<1> QED BY <1>2, <1>7

LEMMA LandingStep ==
  IndInv /\ Traced /\ Unlost /\ NothingLost' /\ [Next]_vars => LandingInv'
<1> SUFFICES ASSUME IndInv, Traced, Unlost, NothingLost', [Next]_vars,
                    phase' = "up", stage' = "landing"
             PROVE  LandingInv'
  BY DEF LandingInv
<1>0. /\ TypeOK /\ LockInv /\ ClientInv /\ ModeInv /\ LineInv /\ ~LandFails
      /\ stage # "free" => op \in Op /\ op.project \in Projects
  BY Faults DEF IndInv, Traced, LockInv, Op
<1>a. ~Recover /\ \A u \in Users : ~Begin(u)
  BY DEF Recover, Begin
<1>1. CASE WriteHead
  <2>1. phase = "up"
    BY <1>1 DEF WriteHead
  <2> QED BY <1>1, <2>1, SetsOut DEF Unlost
<1>2. CASE stage = "landing" /\ op' = op /\ phase = "up" /\ ~WriteHead
  <2>1. PICK k \in DOMAIN saving, h \in HeadRec, v \in HeadRec \cup {NoHead} : OnItsWay(k, h, v)
    BY <1>2 DEF Unlost, LandingInv
  <2>2. CASE LandHeads
    <3>1. saving[1].by # "tx" /\ faults' = faults
      BY <1>0, <2>2, LandedType DEF LandHeads, bounds
    <3>2. k # 1
      BY <2>1, <3>1 DEF OnItsWay
    <3>3. k - 1 \in DOMAIN saving' /\ OnItsWay(k - 1, h, v)'
      BY <1>0, <1>2, <2>1, <2>2, <3>1, <3>2, OthersLand
    <3> QED BY <3>3 DEF LandingInv
  <2>3. ASSUME NEW u \in Users, NEW q \in Projects, Delete(u, q)
        PROVE  LandingInv'
    <3>1. k \in DOMAIN saving' /\ OnItsWay(k, h, v)'
      BY <1>0, <1>2, <2>1, <2>3, DeleteBehind
    <3> QED BY <3>1 DEF LandingInv
  <2>4. CASE UNCHANGED <<heads, saving, memHeads>>
    <3>1. faults' = 0 => faults = 0
      BY <1>0, Faults
    <3>2. OnItsWay(k, h, v)'
      BY <1>2, <2>1, <2>4, <3>1 DEF OnItsWay, Written
    <3> QED BY <2>1, <2>4, <3>2 DEF LandingInv
  <2>5. ~HeadFails /\ ~Crash /\ ~Load
    BY <1>2 DEF HeadFails, Crash, Load
  <2> QED BY <1>0, <1>2, <2>2, <2>3, <2>4, <2>5, HeadFrames
<1>3. CASE /\ op' = op /\ phase' = phase /\ stage # "free"
           /\ \/ Recheck \/ WriteBackup \/ WritePrepared \/ WriteSnapshot
              \/ VerifyHead \/ MarkPending \/ AppendAudit
  BY <1>3 DEF Recheck, WriteBackup, WritePrepared, WriteSnapshot, VerifyHead, MarkPending,
     AppendAudit, Raise, Release
<1>4. CASE op' = op /\ phase' = phase /\ LandHeads
  <2>1. stage = "landing"
    BY <1>0, <1>4, LandedType DEF LandHeads
  <2> QED BY <1>1, <1>2, <1>4, <2>1
<1>5. CASE UNCHANGED <<stage, op, phase>>
  BY <1>1, <1>2, <1>5
<1> QED BY <1>0, <1>a, <1>1, <1>3, <1>4, <1>5, Moves

-----------------------------------------------------------------------------
(* One version, and what was told of it *)

\* A recovery is over: what is in the file is all there is.
LEMMA Fresh ==
  ASSUME Traced, QuietInv, RecoveryDone, NEW p \in Projects
  PROVE  Copies(p)' \subseteq {heads[p]}
<1>1. phase = "recovering" /\ stage = "free" /\ UNCHANGED <<heads, memHeads, saving>>
  BY DEF RecoveryDone, durable
<1>2. memHeads = heads /\ saving = <<>>
  BY <1>1 DEF QuietInv
<1>3. Written' = {}
  BY <1>1, <1>2, EmptySeq, LenProperties DEF Written
<1> QED BY <1>1, <1>2, <1>3 DEF Copies

LEMMA OneVersionStep ==
  IndInv /\ Traced /\ Unlost /\ LandedInv' /\ NothingLost' /\ [Next]_vars => OneVersion'
<1> SUFFICES ASSUME IndInv, Traced, Unlost, LandedInv', NothingLost', [Next]_vars,
                    faults' = 0, phase' = "up", NEW p \in Projects,
                    ~(stage' = "landing" /\ op'.project = p)
             PROVE  \E v \in HeadRec \cup {NoHead} : Copies(p)' \subseteq {v, NoHead}
  BY DEF OneVersion
<1>0. /\ TypeOK /\ LockInv /\ ClientInv /\ faults = 0 /\ ~FaultNext
      /\ stage # "free" => op \in Op /\ op.project \in Projects
  BY Faults DEF IndInv, LockInv, Op
<1>1. CASE RecoveryDone
  <2>1. heads[p] \in HeadRec \cup {NoHead}
    BY <1>0 DEF TypeOK, HeadMap
  <2>2. Copies(p)' \subseteq {heads[p]}
    BY <1>1, Fresh DEF Unlost
  <2> QED BY <2>1, <2>2
<1>2. CASE phase = "up" /\ WriteHead
  <2>1. stage = "head" /\ stage' = "landing" /\ op' = op /\ p # op.project
    BY <1>2 DEF WriteHead
  <2>2. Copies(p)' \subseteq Copies(p)
    BY <1>2, <2>1, CopyAdded
  <2> QED BY <1>0, <1>2, <2>1, <2>2 DEF Unlost, OneVersion
<1>3. CASE phase = "up" /\ ~WriteHead /\ ~(stage = "landing" /\ op.project = p)
  <2>1. Copies(p)' \subseteq Copies(p) \cup {NoHead}
    BY <1>0, <1>3, CopiesKept DEF FaultNext
  <2> QED BY <1>0, <1>3, <2>1 DEF Unlost, OneVersion
<1>4. CASE phase = "up" /\ stage = "landing" /\ op.project = p
  <2>1. LandHeads /\ stage' = "verify" /\ op' = op
    <3>1. ~Crash
      BY DEF Crash
    <3>2. (stage' = "landing" /\ op' = op) \/ (LandHeads /\ stage' # "landing")
      BY <1>0, <1>4, <3>1 DEF Next, ClientNext, LockNext, CommitNext, FaultNext, RecoveryNext, vars,
         MakePreview, DropPreview, RequestApply, RequestRollback, Enqueue, Delete, Begin,
         Conflict, Recheck, Deny, WriteBackup, WritePrepared, WriteSnapshot, WriteHead,
         LandHeads, VerifyHead, MarkPending, AppendAudit, WriteFinal, Load, Recover, RecoveryDone
    <3> QED BY <1>0, <1>4, <3>2, LandedType DEF LandHeads
  <2> QED BY <1>4, <2>1 DEF LandedInv
<1> QED BY <1>1, <1>2, <1>3, <1>4, Frames

\* An older version stays older, or of the time before a delete.
LEMMA AckedStep ==
  IndInv /\ Traced /\ Unlost /\ NothingLost' /\ [Next]_vars => AckedFirst'
<1> SUFFICES ASSUME IndInv, Traced, Unlost, NothingLost', [Next]_vars, phase' = "up",
                    NEW p \in Projects, NEW a \in Versions(p)', NEW b \in Versions(p)',
                    a.tx \in acked'
             PROVE  b = a \/ b.revision > a.revision \/ Anew(p, a)'
  BY DEF AckedFirst
<1>0. /\ TypeOK /\ OrderInv /\ OriginInv /\ ToldInv /\ LockInv
      /\ stage # "free" => op \in Op /\ op.project \in Projects /\ op.tx \in TxIds
  BY DEF IndInv, Traced, LockInv, Op
<1>1. CASE RecoveryDone
  BY <1>1, Fresh DEF Unlost, Versions
<1>2. CASE phase = "up" /\ ~WriteHead /\ ~HeadFails
  <2>1. a \in Versions(p) /\ b \in Versions(p)
    BY <1>2, CopiesKept DEF Versions
  <2>2. CASE a.tx \in acked
    BY <1>0, <1>2, <2>1, <2>2, AnewKept DEF Unlost, AckedFirst
  <2>3. CASE a.tx \notin acked
    <3>1. a.tx = op.tx /\ stage \in {"audit", "final"}
      BY <2>3, Frames DEF Succeed, WriteFinal, AuditFails
    <3>2. op.project = p
      BY <1>0, <2>1, <3>1 DEF OriginInv, OrderInv, Journaled
    <3> QED BY <1>2, <2>1, <3>1, <3>2 DEF Unlost, LandedInv, Versions
  <2> QED BY <2>2, <2>3
<1>3. CASE phase = "up" /\ (WriteHead \/ HeadFails)
  <2>1. stage = "head" /\ acked' = acked /\ a.tx \in acked /\ op \in Op /\ op.tx \notin acked
    <3>1. stage = "head"
      BY <1>3 DEF WriteHead, HeadFails
    <3>2. ~WriteFinal /\ ~AuditFails
      BY <3>1 DEF WriteFinal, AuditFails
    <3> QED BY <1>0, <1>3, <3>1, <3>2, Frames DEF ToldInv
  <2>2. PICK s \in Stored :
          /\ HeadFrom(s) \in HeadRec /\ HeadFrom(s).revision = op.revision + 1
          /\ HeadFrom(s).tx = s.tx
          /\ Copies(p)' \subseteq Copies(p) \cup IF p = op.project THEN {HeadFrom(s)} ELSE {}
    BY <1>3, CopyAdded
  <2>3. HeadFrom(s).tx = op.tx
    BY <1>0, <1>3, <2>1, <2>2 DEF OriginInv
  <2>4. a \in Versions(p) /\ a \in HeadRec
    BY <1>0, <2>1, <2>2, <2>3, CopiesType DEF Versions
  <2>5. CASE b \in Versions(p)
    BY <1>0, <1>3, <2>1, <2>4, <2>5, AnewKept DEF Unlost, AckedFirst
  <2>6. CASE b \notin Versions(p)
    <3>1. b.revision = op.revision + 1 /\ p = op.project
      BY <2>2, <2>6 DEF Versions
    <3>2. a.tx < op.tx /\ (a.revision <= op.revision \/ op.revision = 0 \/ Anew(p, a))
      BY <1>3, <2>1, <2>4, <3>1 DEF Unlost, BaseInv
    <3>3. CASE a.revision <= op.revision
      BY <2>1, <2>4, <3>1, <3>3 DEF Op, HeadRec, Revisions
    <3>4. CASE op.revision = 0
      <4>1. journals[op.tx] # None /\ journals[op.tx].project = p /\ journals[op.tx].expected = 0
        BY <1>0, <2>1, <3>1, <3>4, SentinelAssumption DEF LockInv, OrderInv, Journaled
      <4>2. op.tx > a.tx
        BY <1>0, <2>1, <2>4, <3>2 DEF HeadRec, TxIds
      <4>3. Anew(p, a)
        BY <1>0, <2>1, <4>1, <4>2 DEF Anew
      <4> QED BY <1>0, <4>3, AnewKept
    <3>5. CASE Anew(p, a)
      BY <1>0, <3>5, AnewKept
    <3> QED BY <3>2, <3>3, <3>4, <3>5
  <2> QED BY <2>5, <2>6
<1> QED BY <1>1, <1>2, <1>3, Frames

\* The second look at the head, against all its versions.
LEMMA LooksAgain ==
  ASSUME IndInv, Traced, Unlost, Recheck, Unmoved, [Next]_vars, phase = "up",
         NEW a \in Versions(op.project)'
  PROVE  /\ a.tx < op.tx
         /\ faults' = 0 => op.revision \in {0, a.revision}
         /\ a.tx \in acked' => \/ a.revision <= op.revision
                               \/ op.revision = 0
                               \/ Anew(op.project, a)'
<1> DEFINE p == op.project
           b == Loaded[p]
<1>0. /\ TypeOK /\ OrderInv /\ OriginInv /\ stage = "recheck" /\ op \in Op /\ p \in Projects
      /\ op.tx \in FreshTx /\ faults' = faults
  BY DEF IndInv, Traced, LockInv, Op, OrderInv, Recheck, bounds
<1>1. a \in Versions(p) /\ a \in HeadRec
  <2>1. op' = op
    BY <1>0 DEF Recheck
  <2>2. ~WriteHead /\ ~HeadFails
    BY <1>0 DEF WriteHead, HeadFails
  <2> QED BY <1>0, <2>1, <2>2, CopiesKept, CopiesType DEF Versions
<1>2. a.tx < op.tx
  <2>1. a.tx \in TxIds /\ journals[a.tx] # None
    BY <1>0, <1>1 DEF OriginInv, HeadRec
  <2> QED BY <1>0, <2>1, FreshIsLast
<1>3. b \in Copies(p) /\ b \in HeadRec \cup {NoHead}
  BY <1>0, CopiesType
<1>4. op.revision = IF b = NoHead THEN 0 ELSE b.revision
  BY DEF Unmoved, AtBase, RevisionOf
<1>5. faults' = 0 => op.revision \in {0, a.revision}
  BY <1>0, <1>1, <1>3, <1>4 DEF Unlost, OneVersion, Versions
<1>6. ASSUME a.tx \in acked', op.revision # 0
      PROVE  a.revision <= op.revision \/ Anew(p, a)'
  <2>1. acked' = acked
    BY <1>0, Frames DEF WriteFinal, AuditFails
  <2>2. b \in Versions(p) /\ b \in HeadRec /\ op.revision = b.revision
    BY <1>3, <1>4, <1>6 DEF Versions
  <2>3. b = a \/ b.revision > a.revision \/ Anew(p, a)
    BY <1>0, <1>1, <1>6, <2>1, <2>2 DEF Unlost, AckedFirst
  <2>4. CASE Anew(p, a)
    <3>1. journals' = journals
      BY DEF Recheck, durable
    <3> QED BY <1>0, <2>4, <3>1 DEF Anew, Recheck, Raise, AtBase
  <2> QED BY <1>1, <2>2, <2>3, <2>4 DEF HeadRec, Revisions
<1> QED BY <1>2, <1>5, <1>6

LEMMA BaseStep ==
  IndInv /\ Traced /\ Unlost /\ NothingLost' /\ [Next]_vars => BaseInv'
<1> SUFFICES ASSUME IndInv, Traced, Unlost, NothingLost', [Next]_vars, phase' = "up",
                    stage' \in {"backup", "prepare", "snapshot", "head"},
                    NEW a \in Versions(op.project)'
             PROVE  (/\ a.tx < op.tx
                     /\ faults = 0 => op.revision \in {0, a.revision}
                     /\ a.tx \in acked => \/ a.revision <= op.revision
                                          \/ op.revision = 0
                                          \/ Anew(op.project, a))'
  BY DEF BaseInv
<1>0. /\ TypeOK /\ LockInv /\ ClientInv /\ ModeInv /\ OrderInv /\ ~LandFails
      /\ stage # "free" => op \in Op /\ op.project \in Projects
  BY Faults DEF IndInv, Traced, LockInv, Op
<1>a. ~Recover /\ \A u \in Users : ~Begin(u)
  BY DEF Recover, Begin
<1>1. CASE Recheck
  <2>1. Unmoved /\ op' = op /\ phase = "up"
    BY <1>1 DEF Recheck, Raise, Release
  <2> QED BY <1>1, <2>1, LooksAgain
<1>2. CASE /\ stage \in {"backup", "prepare", "snapshot", "head"} /\ op' = op /\ phase = "up"
           /\ acked' = acked /\ ~WriteHead /\ ~HeadFails
  <2>1. a \in Versions(op.project)
    BY <1>0, <1>2, CopiesKept DEF Versions
  <2>2. /\ a.tx < op.tx
        /\ faults = 0 => op.revision \in {0, a.revision}
        /\ a.tx \in acked => a.revision <= op.revision \/ op.revision = 0 \/ Anew(op.project, a)
    BY <1>2, <2>1 DEF Unlost, BaseInv
  <2>3. faults' = 0 => faults = 0
    BY <1>0, Faults
  <2>4. Anew(op.project, a) => Anew(op.project, a)'
    BY <1>0, <1>2, JournalsGrow DEF Anew
  <2> QED BY <1>2, <2>2, <2>3, <2>4
<1>3. CASE /\ op' = op /\ phase' = phase /\ acked' = acked /\ stage # "free"
           /\ \/ WriteBackup \/ WritePrepared \/ WriteSnapshot
  <2>1. stage \in {"backup", "prepare", "snapshot", "head"} /\ ~WriteHead /\ ~HeadFails
    BY <1>3 DEF WriteBackup, WritePrepared, WriteSnapshot, WriteHead, HeadFails
  <2> QED BY <1>2, <1>3, <2>1
<1>4. CASE op' = op /\ phase' = phase /\ acked' = acked /\ LandHeads
  <2>1. stage' = stage
    BY <1>0, <1>4, LandedType DEF LandHeads
  <2>2. ~WriteHead /\ ~HeadFails
    BY <1>4, <2>1 DEF WriteHead, HeadFails, Raise, Release
  <2> QED BY <1>2, <1>4, <2>1, <2>2
<1>5. CASE WriteHead \/ VerifyHead \/ MarkPending \/ AppendAudit
  BY <1>5 DEF WriteHead, VerifyHead, MarkPending, AppendAudit, Raise, Release
<1>6. CASE UNCHANGED <<heads, snaps, journals, stage, op, phase, acked, faults>>
  <2>1. ~WriteHead /\ ~HeadFails
    BY <1>6 DEF WriteHead, HeadFails, Raise, Release
  <2> QED BY <1>2, <1>6, <2>1
<1> QED BY <1>0, <1>a, <1>1, <1>3, <1>4, <1>5, <1>6, Moves

-----------------------------------------------------------------------------
(* Theorems *)

LEMMA HeadsInit == Init => HeadsInv
<1> SUFFICES ASSUME Init PROVE HeadsInv
  OBVIOUS
<1>0. /\ saving = <<>> /\ stage = "free" /\ phase = "up" /\ acked = {} /\ snaps = {}
      /\ \A p \in Projects : heads[p] = NoHead /\ memHeads[p] = NoHead
      /\ \A t \in TxIds : journals[t] = None
  BY DEF Init
<1>1. DOMAIN saving = {} /\ Written = {}
  BY <1>0, EmptySeq, LenProperties DEF Written
<1>2. \A p \in Projects : Copies(p) = {NoHead} /\ Versions(p) = {}
  BY <1>0, <1>1 DEF Copies, Versions
<1>3. Traced
  BY <1>0, <1>1, <1>2 DEF Traced, ModeInv, OrderInv, ToldInv, OriginInv, LineInv, Journaled
<1>4. Unlost
  BY <1>0, <1>2 DEF Unlost, QuietInv, OneVersion, AckedFirst, BaseInv, LandingInv, LandedInv
<1> QED BY <1>3, <1>4 DEF HeadsInv

LEMMA HeadsStep == IndInv /\ HeadsInv /\ [Next]_vars => HeadsInv'
<1> SUFFICES ASSUME IndInv, HeadsInv, [Next]_vars
             PROVE  HeadsInv'
  OBVIOUS
<1>1. Traced /\ Traced'
  BY TracedStep DEF HeadsInv
<1>2. ASSUME NothingLost'
      PROVE  Unlost'
  <2>1. Unlost
    BY <1>2, Faults DEF HeadsInv, IndInv
  <2>2. QuietInv' /\ LandedInv' /\ LandingInv' /\ AckedFirst' /\ BaseInv'
    BY <1>1, <1>2, <2>1, QuietStep, LandedStep, LandingStep, AckedStep, BaseStep DEF Unlost
  <2>3. OneVersion'
    BY <1>1, <1>2, <2>1, <2>2, OneVersionStep
  <2> QED BY <2>2, <2>3 DEF Unlost
<1> QED BY <1>1, <1>2 DEF HeadsInv

\* What a heads save puts in place of the head on disk.
LEMMA HeadReplaced ==
  ASSUME IndInv, HeadsInv, [Next]_vars, NEW p \in Projects,
         heads[p] # NoHead, heads'[p] \notin {NoHead, heads[p]}
  PROVE  /\ faults = 0 => \/ heads'[p].revision = heads[p].revision + 1
                          \/ heads'[p].revision = 1 /\ StartedAnew(p)
         /\ heads[p].tx \in acked /\ "landing" \notin FaultyStages =>
               heads'[p].revision > heads[p].revision \/ StartedAnew(p)
<1> DEFINE a == heads[p]
           b == heads'[p]
<1>0. /\ TypeOK /\ LockInv /\ ClientInv /\ ModeInv /\ OrderInv /\ LineInv
      /\ stage # "free" => op \in Op /\ op.project \in Projects /\ op.tx \in TxIds
  BY DEF IndInv, LockInv, Op, HeadsInv, Traced
<1>1. LandHeads /\ ~WriteHead /\ ~HeadFails /\ faults' = faults
  <2>1. LandHeads
    BY Frames
  <2>2. heads' # heads
    OBVIOUS
  <2> QED BY <2>1, <2>2 DEF LandHeads, WriteHead, HeadFails, durable, bounds
<1>2. a \in Versions(p) /\ a \in HeadRec /\ b \in Versions(p) /\ b \in HeadRec
  <2>1. heads'[p] \in Copies(p)' /\ heads[p] \in Copies(p)
    BY DEF Copies
  <2> QED BY <1>0, <1>1, <2>1, CopiesKept, CopiesType DEF Versions
<1>3. /\ saving # <<>> /\ Len(saving) \in Nat \ {0} /\ Head(saving) = saving[1]
      /\ DOMAIN saving = 1..Len(saving)
      /\ heads' = IF 1 \in Written THEN saving[1].heads ELSE heads
  <2>1. saving # <<>> /\ saving' = Waiting(Tail(saving))
    BY <1>1 DEF LandHeads
  <2>2. /\ Len(saving) \in Nat \ {0} /\ Head(saving) = saving[1]
        /\ DOMAIN saving = 1..Len(saving)
    BY <1>0, <2>1, LineMoves
  <2> QED BY <1>1, <2>1, <2>2 DEF LandHeads, Written
<1>4. StartedAnew(p) <=> Anew(p, a)
  BY DEF StartedAnew, Anew
<1>5. ASSUME NothingLost, phase # "up"
      PROVE  b.revision = a.revision + 1
  <2>1. QuietInv
    BY <1>5 DEF HeadsInv, Unlost
  <2>2. stage = "landing" /\ phase = "recovering" /\ op \in Op
    BY <1>0, <1>3, <1>5, <2>1 DEF QuietInv, ModeInv
  <2>3. saving = <<[by |-> "tx", heads |-> memHeads]>> /\ heads \in HeadMap
    BY <1>0, <2>1, <2>2 DEF QuietInv, TypeOK
  <2>4. PICK h \in HeadRec : /\ h.revision = op.revision + 1
                             /\ memHeads = [heads EXCEPT ![op.project] = h]
    BY <2>1, <2>2 DEF QuietInv
  <2>5. heads' = memHeads
    <3>1. saving[1].heads = memHeads
      BY <2>3
    <3> QED BY <1>3, <3>1
  <2>6. p = op.project /\ b = h
    BY <2>3, <2>4, <2>5 DEF HeadMap
  <2>7. a.revision = op.revision
    BY <2>1, <2>2, <2>6 DEF QuietInv
  <2> QED BY <2>4, <2>6, <2>7
<1>6. ASSUME faults = 0, phase = "up"
      PROVE  b.revision = a.revision + 1 \/ (b.revision = 1 /\ Anew(p, a))
  <2>1. OneVersion /\ LandingInv
    BY <1>6 DEF HeadsInv, NothingLost, Unlost
  <2>2. stage = "landing" /\ op.project = p /\ op \in Op /\ op.tx \in TxIds
    <3>1. ~\E v \in HeadRec \cup {NoHead} : Copies(p) \subseteq {v, NoHead}
      BY <1>2 DEF Versions
    <3> QED BY <1>0, <1>6, <2>1, <3>1 DEF OneVersion
  <2>3. PICK k \in DOMAIN saving, h \in HeadRec, v \in HeadRec \cup {NoHead} : OnItsWay(k, h, v)
    BY <1>6, <2>1, <2>2 DEF LandingInv
  <2>4. a \in {h, v, NoHead} /\ b \in {h, v, NoHead}
    BY <1>3, <1>6, <2>2, <2>3 DEF OnItsWay
  <2>5. a = v /\ b = h
    <3>1. CASE \A i \in Written : saving[i].heads[p] \in {h, NoHead}
      <4>1. 1 \notin Written => a = b
        BY <1>3
      <4>2. b = h
        BY <1>2, <1>3, <3>1, <4>1 DEF Versions
      <4> QED BY <2>4, <4>2
    <3>2. CASE ~\A i \in Written : saving[i].heads[p] \in {h, NoHead}
      <4>1. k >= 2 /\ a \in {v, NoHead} /\ \A i \in Written : i < k => saving[i].heads[p] \in {v, NoHead}
        BY <1>6, <2>2, <2>3, <3>2 DEF OnItsWay
      <4>2. 1 < k
        BY <1>3, <4>1
      <4>3. b \in {v, NoHead}
        BY <1>3, <4>1, <4>2
      <4> QED BY <4>1, <4>3
    <3> QED BY <3>1, <3>2
  <2>6. h.revision = op.revision + 1 /\ v # NoHead
        /\ (op.revision = v.revision \/ (op.revision = 0 /\ v.tx < op.tx))
    BY <1>6, <2>3, <2>5 DEF OnItsWay
  <2>7. CASE op.revision = v.revision
    BY <2>5, <2>6, <2>7
  <2>8. CASE op.revision = 0 /\ v.tx < op.tx
    <3>1. journals[op.tx] # None /\ journals[op.tx].project = p /\ journals[op.tx].expected = 0
      BY <1>0, <2>2, <2>8, SentinelAssumption DEF LockInv, OrderInv, Journaled
    <3>2. op.tx > a.tx
      BY <1>2, <2>2, <2>5, <2>8 DEF HeadRec, TxIds
    <3> QED BY <2>2, <2>5, <2>6, <2>8, <3>1, <3>2 DEF Anew
  <2> QED BY <2>6, <2>7, <2>8
<1>7. ASSUME a.tx \in acked, "landing" \notin FaultyStages
      PROVE  b.revision > a.revision \/ Anew(p, a)
  <2>1. CASE phase = "up"
    <3>1. AckedFirst
      BY <1>7 DEF HeadsInv, NothingLost, Unlost
    <3> QED BY <1>2, <1>7, <2>1, <3>1 DEF AckedFirst
  <2>2. CASE phase # "up"
    BY <1>2, <1>5, <1>7, <2>2 DEF NothingLost, HeadRec, Revisions
  <2> QED BY <2>1, <2>2
<1> QED BY <1>4, <1>5, <1>6, <1>7 DEF NothingLost

\* Every version of a project, in the file, in memory and in the saves in line,
\* is of a journaled transaction of that project; and unless a heads save got
\* lost, what clients were told is committed is the oldest of them, and while no
\* write failed the only one beside that of the transaction at work -- whatever
\* deletes, crashes and recoveries come in between.
THEOREM VersionsTraced == Spec => []HeadsInv
<1>1. Init => HeadsInv
  BY HeadsInit
<1>2. IndInv /\ HeadsInv /\ [Next]_vars => HeadsInv'
  BY HeadsStep
<1> QED BY <1>1, <1>2, Inductive, PTL DEF Spec

\* No head goes back: what replaces a head on disk is its next revision, or the
\* first one of a transaction that found the project deleted; with failing
\* writes, that holds of what clients were told is committed.
THEOREM HeadsKept == Spec => HeadsNeverRegress
<1>1. IndInv /\ HeadsInv /\ [Next]_vars =>
        [\A p \in Projects :
          heads[p] # NoHead /\ heads'[p] \notin {NoHead, heads[p]} =>
              /\ faults = 0 =>
                    \/ heads'[p].revision = heads[p].revision + 1
                    \/ heads'[p].revision = 1 /\ StartedAnew(p)
              /\ heads[p].tx \in acked /\ "landing" \notin FaultyStages =>
                    heads'[p].revision > heads[p].revision \/ StartedAnew(p)]_vars
  BY HeadReplaced
<1> QED BY <1>1, Inductive, VersionsTraced, PTL DEF Spec, HeadsNeverRegress

=============================================================================
