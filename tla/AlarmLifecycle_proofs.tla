----------------------- MODULE AlarmLifecycle_proofs ------------------------
(***************************************************************************)
(* Theorems about the alarms of an entity, for any number of alarms and    *)
(* coroutines, any delays, and any number of changes, acts, restarts and   *)
(* lost writes.                                                            *)
(***************************************************************************)
EXTENDS AlarmLifecycle, WellFoundedInduction, TLAPS

\* who waits for the Store
Queue == IF writer = NoSave THEN {} ELSE waiting \cup {writer.by}

\* the rows whose write v waits for
Cover(v) == IF writer.by = v \/ unsaved = NoSave THEN writer.rows ELSE unsaved

\* occurrence k of an alarm has been raised by now
Past(row, k) == k < row.occurrence \/ (k = row.occurrence /\ row.active)

\* what a coroutine did to its row is there
Holds(row, j) ==
    /\ j.does = "raise"  => Past(row, j.occurrence)
    /\ j.does = "ack"    => row.acked
    /\ j.does = "shelve" => row.shelved \/ j.alarm \in expired

\* The rows s are at least as far as the rows r.
Before(r, s) == \A a \in Alarms :
    /\ r[a].occurrence <= s[a].occurrence
    /\ (r[a].occurrence = s[a].occurrence /\ r[a].active) => s[a].active
    /\ r[a].acked => s[a].acked
    /\ r[a].shelved => s[a].shelved \/ a \in expired

\* What is on disk is behind what is being written, and that behind the memory.
StoreInv ==
    /\ writer = NoSave => waiting = {} /\ unsaved = NoSave
    /\ writer # NoSave => /\ writer.by \notin waiting
                          /\ Before(stored, writer.rows) /\ Before(writer.rows, alarmState)
    /\ unsaved # NoSave => Before(writer.rows, unsaved) /\ Before(unsaved, alarmState)
    /\ Before(stored, alarmState)

Notice(j) == <<j.alarm, j.occurrence>>

\* What a suspended coroutine waits for, has done and will do.
Job1(v) ==
    LET j == workers[v] IN
    /\ j.at = "saving" <=> v \in Queue
    /\ j.at = "notifying" => j.does = "raise"
    /\ j.does = "raise" => Past(alarmState[j.alarm], j.occurrence)
    /\ faults = 0 => Holds((IF j.at = "saving" THEN Cover(v) ELSE stored)[j.alarm], j)
    /\ (faults = 0 /\ j.does = "raise" /\ j.at # "notifying") => Notice(j) \notin notified

JobInv ==
    /\ \A v \in Workers : workers[v] # Idle => Job1(v)
    /\ \A u, v \in Workers :
          (u # v /\ workers[u] # Idle /\ workers[v] # Idle
             /\ workers[u].does = "raise" /\ workers[v].does = "raise")
          => Notice(workers[u]) # Notice(workers[v])

Answered(row, does, a) == IF does = "ack" THEN row.acked ELSE row.shelved \/ a \in expired

\* What was told is on disk.
ToldInv == faults = 0 =>
    /\ \A n \in notified : Past(stored[n[1]], n[2])
    /\ \A c \in confirmed : Answered(stored[c[2]], c[1], c[2])

TypeInv ==
    /\ TypeOK /\ faults \in Nat
    /\ notified \subseteq Alarms \X Nat
    /\ confirmed \subseteq {"ack", "shelve"} \X Alarms

RowsInv == TypeInv /\ StoreInv /\ JobInv /\ ToldInv

\* a scan under way will still visit a
Pending(a) == \E w \in Workers :
    workers[w] # Idle /\ workers[w].scan /\ workers[w].alarm < a

\* the last value was decided for a
Known(a) == value # "gone" /\ a \notin withheld \cup stale /\ ~Pending(a)

TaskInv == \A v \in Workers : workers[v] # Idle =>
    /\ workers[v].scan => /\ workers[v].raw # "gone" /\ ~workers[v].task
                          /\ workers[v].does \in {"raise", "clear"}
    /\ workers[v].task => alarmState[workers[v].alarm].active

PlantInv == \A a \in Alarms : Known(a) =>
    /\ value = "normal" => ~alarmState[a].active
    /\ (value = "alarm" /\ a \notin sleeping) => alarmState[a].active

PlantsInv == TypeInv /\ TaskInv /\ PlantInv /\ sleeping \cap broken \subseteq rearmed

-----------------------------------------------------------------------------
(* Lemmas about rows *)

LEMMA Least ==
  ASSUME NEW T, T \subseteq Nat, T # {}
  PROVE  \E x \in T : \A y \in T : x <= y
<1> DEFINE R == {ss \in Nat \X Nat : ss[1] < ss[2]}
<1>1. OpToRel(<, Nat) = R
  BY Zenon DEF OpToRel
<1>2. IsWellFoundedOn(R, Nat)
  BY <1>1, NatLessThanWellFounded, Zenon
<1> HIDE DEF R
<1>3. \E x \in T : \A y \in T : ~ (<<y, x>> \in R)
  BY <1>2, WFMin
<1>4. \A x, y \in T : x <= y \/ <<y, x>> \in R
  BY DEF R
<1> QED BY <1>3, <1>4

LEMMA BeforeSelf == ASSUME NEW r \in Rows PROVE Before(r, r)
BY DEF Before, Rows, Row

LEMMA BeforeTrans ==
  ASSUME NEW r \in Rows, NEW s \in Rows, NEW t \in Rows, Before(r, s), Before(s, t)
  PROVE  Before(r, t)
BY DEF Before, Rows, Row

LEMMA HoldsLater ==
  ASSUME NEW r \in Rows, NEW s \in Rows, Before(r, s)
  PROVE  /\ \A a \in Alarms, k \in Nat : Past(r[a], k) => Past(s[a], k)
         /\ \A j \in Worker : Holds(r[j.alarm], j) => Holds(s[j.alarm], j)
         /\ \A c \in {"ack", "shelve"} \X Alarms :
               Answered(r[c[2]], c[1], c[2]) => Answered(s[c[2]], c[1], c[2])
<1>1. ASSUME NEW a \in Alarms, NEW k \in Nat, Past(r[a], k)
      PROVE  Past(s[a], k)
  BY <1>1 DEF Before, Rows, Row, Past
<1>2. ASSUME NEW j \in Worker, Holds(r[j.alarm], j)
      PROVE  Holds(s[j.alarm], j)
  BY <1>1, <1>2 DEF Holds, Before, Worker
<1>3. ASSUME NEW c \in {"ack", "shelve"} \X Alarms, Answered(r[c[2]], c[1], c[2])
      PROVE  Answered(s[c[2]], c[1], c[2])
  BY <1>3 DEF Answered, Before
<1> QED BY <1>1, <1>2, <1>3

-----------------------------------------------------------------------------
(* A scan as the set S it visits and the set T, empty or of one alarm, at  *)
(* which it stops.                                                         *)

Starts(S, raw)  == {a \in S : Pends(a, raw) /\ ~Registered(a)}
Decided(S, raw) == {a \in S : Decides(a, raw) /\ ~Pends(a, raw)}
Off(S, raw)     == {a \in S : Cancels(a, raw)}

Scanned(w, S, T, raw) ==
    /\ alarmState' = [a \in Alarms |->
          IF a \in Starts(S, raw) THEN [alarmState[a] EXCEPT !.anchored = TRUE]
          ELSE IF a \notin T THEN alarmState[a]
          ELSE IF raw = "alarm" THEN Raised(alarmState[a]) ELSE Cleared(alarmState[a])]
    /\ sleeping' = (sleeping \ Off(S, raw)) \cup Starts(S, raw)
    /\ workers' = [v \in Workers |->
          IF v = w THEN IF T = {} THEN Idle
                        ELSE Job(IF raw = "alarm" THEN "raise" ELSE "clear",
                                 CHOOSE a \in T : TRUE, TRUE, raw, FALSE)
          ELSE IF v \in TasksOf(Off(S, raw)) THEN Idle
          ELSE IF v \in TasksOf(Decided(S, raw)) THEN [workers[v] EXCEPT !.task = FALSE]
          ELSE workers[v]]
    /\ IF T = {} THEN UNCHANGED storeVars ELSE AsyncSave(w)
    /\ withheld' = IF raw = "gone" THEN withheld
                   ELSE (withheld \ S) \cup {a \in S : ~Decides(a, raw)}
    /\ stale' = (stale \ {a \in S : Decides(a, raw)})
                   \cup {a \in S : Decides(a, raw) /\ raw # value'}
    /\ broken' = (broken \ Starts(S, raw)) \cup {a \in Decided(S, raw) \cap Delayed : raw = "normal"}
    /\ rearmed' = rearmed \ (Starts(S, raw) \cup Off(S, raw))

\* S and T for a scan from k on
Extent(k, S, T, raw) ==
    \/ S = k..N /\ T = {} /\ \A a \in S : ~Turns(a, raw)
    \/ \E s \in k..N : /\ S = k..s /\ T = {s} /\ Turns(s, raw)
                       /\ \A a \in S : Turns(a, raw) => a = s

LEMMA ScanExtent ==
  ASSUME NEW w, NEW k \in Nat, NEW raw, N \in Nat, ScanFrom(w, k, raw)
  PROVE  \E S, T : Extent(k, S, T, raw) /\ Scanned(w, S, T, raw)
<1>1. PICK turning : turning = {a \in k..N : Turns(a, raw)}
  OBVIOUS
<1>2. PICK S : S = {a \in k..N : \A b \in turning : a <= b}
  OBVIOUS
<1>3. PICK T : T = S \cap turning
  OBVIOUS
<1>4. Scanned(w, S, T, raw)
  BY <1>1, <1>2, <1>3 DEF ScanFrom, Scanned, Starts, Decided, Off
<1>5. CASE turning = {}
  <2>1. S = k..N /\ T = {}
    BY <1>2, <1>3, <1>5
  <2>2. \A a \in S : ~Turns(a, raw)
    BY <1>1, <1>5, <2>1
  <2> QED BY <1>4, <2>1, <2>2 DEF Extent
<1>6. CASE turning # {}
  <2>1. turning \subseteq Nat
    BY <1>1
  <2>2. PICK s \in turning : \A b \in turning : s <= b
    BY <1>6, <2>1, Least
  <2>3. s \in k..N /\ Turns(s, raw)
    BY <1>1
  <2>4. S = k..s
    BY <1>1, <1>2, <2>2, <2>3
  <2>5. \A a \in S : Turns(a, raw) => a = s
    <3> SUFFICES ASSUME NEW a \in S, Turns(a, raw) PROVE a = s
      OBVIOUS
    <3>1. a \in turning /\ a \in k..s
      BY <1>1, <1>2, <2>4
    <3> QED BY <2>2, <2>3, <3>1
  <2>6. T = {s}
    BY <1>1, <1>3, <2>3, <2>4, <2>5
  <2> QED BY <1>4, <2>3, <2>4, <2>5, <2>6 DEF Extent
<1> QED BY <1>5, <1>6

LEMMA ExtentTypes ==
  ASSUME NEW k \in Nat \ {0}, NEW raw, NEW S, NEW T, N \in Nat, Extent(k, S, T, raw)
  PROVE  /\ S \subseteq Alarms /\ T \subseteq S
         /\ T # {} => T = {CHOOSE a \in T : TRUE} /\ Turns(CHOOSE a \in T : TRUE, raw)
<1>1. CASE S = k..N /\ T = {}
  BY <1>1 DEF Alarms
<1>2. ASSUME NEW s \in k..N, S = k..s, T = {s}, Turns(s, raw)
      PROVE  /\ S \subseteq Alarms /\ T \subseteq S
             /\ T # {} => T = {CHOOSE a \in T : TRUE} /\ Turns(CHOOSE a \in T : TRUE, raw)
  <2>1. S \subseteq Alarms /\ T \subseteq S
    BY <1>2 DEF Alarms
  <2>2. (CHOOSE a \in T : TRUE) = s
    BY <1>2
  <2> QED BY <1>2, <2>1, <2>2
<1> QED BY <1>1, <1>2 DEF Extent

Anchored(row) == [row EXCEPT !.anchored = TRUE]

LEMMA RowSteps ==
  ASSUME NEW r \in Row
  PROVE  /\ \A q \in {Anchored(r), Raised(r)} :
               /\ q \in Row /\ q.occurrence = r.occurrence
               /\ q.acked = r.acked /\ q.shelved = r.shelved
               /\ r.active => q.active
         /\ Cleared(r) \in Row /\ Cleared(r).occurrence = r.occurrence + 1
         /\ ~Cleared(r).active /\ ~Cleared(r).acked /\ ~Cleared(r).shelved
         /\ Raised(r).active /\ Anchored(r).active = r.active
<1> USE DEF Row
<1>1. Raised(r) \in Row
  BY DEF Raised
<1>2. /\ Raised(r).occurrence = r.occurrence /\ Raised(r).acked = r.acked
      /\ Raised(r).shelved = r.shelved /\ Raised(r).active
  BY DEF Raised
<1>3. Anchored(r) \in Row
  BY DEF Anchored
<1>4. /\ Anchored(r).occurrence = r.occurrence
      /\ Anchored(r).acked = r.acked
      /\ Anchored(r).shelved = r.shelved
      /\ Anchored(r).active = r.active
  BY DEF Anchored
<1>5. Cleared(r) \in Row
  <2>1. r.occurrence + 1 \in Nat
    OBVIOUS
  <2>2. PICK n : n = r.occurrence + 1
    OBVIOUS
  <2>3. Cleared(r) = [r EXCEPT !.active = FALSE, !.acked = FALSE, !.shelved = FALSE,
                                !.occurrence = n]
    BY <2>2 DEF Cleared
  <2> QED BY <2>1, <2>2, <2>3
<1>6. /\ Cleared(r).occurrence = r.occurrence + 1
      /\ ~Cleared(r).active /\ ~Cleared(r).acked /\ ~Cleared(r).shelved
  BY DEF Cleared
<1>7. ASSUME NEW q \in {Anchored(r), Raised(r)}
      PROVE  /\ q \in Row /\ q.occurrence = r.occurrence
             /\ q.acked = r.acked /\ q.shelved = r.shelved
             /\ r.active => q.active
  <2>1. CASE q = Raised(r)
    BY <1>1, <1>2, <2>1, Zenon
  <2>2. CASE q = Anchored(r)
    BY <1>3, <1>4, <2>2, Zenon
  <2> QED BY <2>1, <2>2
<1> QED BY <1>2, <1>4, <1>5, <1>6, <1>7, Zenon

LEMMA ScannedRows ==
  ASSUME NEW w, NEW raw, NEW S, NEW T, alarmState \in Rows,
         T # {} => T = {CHOOSE a \in T : TRUE} /\ Turns(CHOOSE a \in T : TRUE, raw),
         Scanned(w, S, T, raw)
  PROVE  alarmState' \in Rows /\ Before(alarmState, alarmState')
<1>1. \A a \in Alarms : alarmState[a] \in Row
  BY DEF Rows
<1>2. ASSUME NEW a \in Alarms
      PROVE  /\ alarmState'[a] \in Row
             /\ alarmState[a].occurrence <= alarmState'[a].occurrence
             /\ (alarmState[a].occurrence = alarmState'[a].occurrence /\ alarmState[a].active)
                   => alarmState'[a].active
             /\ alarmState[a].acked => alarmState'[a].acked
             /\ alarmState[a].shelved => alarmState'[a].shelved \/ a \in expired
  <2>0. alarmState[a] \in Row
    BY <1>1
  <2>1. \/ alarmState'[a] = alarmState[a]
        \/ alarmState'[a] = Anchored(alarmState[a])
        \/ a \in T /\ alarmState'[a] = Raised(alarmState[a])
        \/ a \in T /\ alarmState'[a] = Cleared(alarmState[a])
    BY DEF Scanned, Anchored
  <2>2. a \in T => ~Suppressed(a)
    BY DEF Turns, Decides
  <2>3. a \in T => ~alarmState[a].acked /\ (alarmState[a].shelved => a \in expired)
    BY <2>2 DEF Suppressed
  <2>4. PICK r : r = alarmState[a]
    OBVIOUS
  <2>5. PICK q : q = alarmState'[a]
    OBVIOUS
  <2>6. \/ q = r
        \/ q = Anchored(r) \/ q = Raised(r)
        \/ a \in T /\ q = Cleared(r)
    BY <2>1, <2>4, <2>5
  <2>7. /\ q \in Row /\ r.occurrence <= q.occurrence
        /\ (r.occurrence = q.occurrence /\ r.active) => q.active
        /\ r.acked => q.acked
        /\ r.shelved => q.shelved \/ a \in expired
    <3>1. r \in Row /\ r.occurrence \in Nat
      BY <2>0, <2>4 DEF Row
    <3>2. CASE q = r
      BY <3>1, <3>2
    <3>3. CASE q \in {Anchored(r), Raised(r)}
      <4>1. /\ q \in Row /\ q.occurrence = r.occurrence
            /\ q.acked = r.acked /\ q.shelved = r.shelved
            /\ r.active => q.active
        BY <3>1, <3>3, RowSteps
      <4> QED BY <3>1, <4>1
    <3>4. CASE a \in T /\ q = Cleared(r)
      <4>1. q \in Row /\ q.occurrence = r.occurrence + 1
        BY <3>1, <3>4, RowSteps, Zenon
      <4> QED BY <2>3, <2>4, <3>1, <3>4, <4>1
    <3> QED BY <2>6, <3>2, <3>3, <3>4
  <2> QED BY <2>4, <2>5, <2>7
<1>3. DOMAIN alarmState' = Alarms /\ alarmState' = [a \in Alarms |-> alarmState'[a]]
  BY DEF Scanned
<1>4. alarmState' \in Rows
  BY <1>2, <1>3 DEF Rows
<1>5. Before(alarmState, alarmState')
  BY <1>2 DEF Before
<1> QED BY <1>4, <1>5

LEMMA NewIsFree ==
  ASSUME CanStart
  PROVE  NewWorker \in Workers /\ Free(NewWorker) /\ NewWorker \notin Queue
<1>1. NewWorker \in Workers /\ Free(NewWorker)
  BY DEF CanStart, NewWorker
<1> QED BY <1>1 DEF Free, Queue

LEMMA JobType ==
  ASSUME NEW a \in Alarms, NEW raw \in Values, NEW does \in {"raise", "clear", "ack", "shelve"},
         NEW scan \in BOOLEAN, NEW task \in BOOLEAN, alarmState \in Rows
  PROVE  Job(does, a, scan, raw, task) \in Worker
<1>1. alarmState[a].occurrence \in Nat
  BY DEF Rows, Row
<1>2. (IF scan THEN raw ELSE "gone") \in Values
  BY DEF Values
<1> QED BY <1>1, <1>2 DEF Job, Worker

LEMMA SaveTypes ==
  ASSUME NEW w \in Workers, writer \in Save \cup {NoSave}, unsaved \in Rows \cup {NoSave},
         waiting \subseteq Workers, stored \in Rows, alarmState' \in Rows, AsyncSave(w)
  PROVE  /\ writer' \in Save \cup {NoSave} /\ unsaved' \in Rows \cup {NoSave}
         /\ waiting' \subseteq Workers /\ stored' = stored
<1>1. CASE writer = NoSave
  BY <1>1 DEF AsyncSave, Save
<1>2. CASE writer # NoSave
  BY <1>2 DEF AsyncSave
<1> QED BY <1>1, <1>2

-----------------------------------------------------------------------------
(* Types *)

WorkersOK == workers \in [Workers -> Worker \cup {Idle}]
SavesOK   == /\ writer \in Save \cup {NoSave} /\ unsaved \in Rows \cup {NoSave}
             /\ waiting \subseteq Workers /\ stored \in Rows
SetsOK    == /\ expired \subseteq Alarms /\ withheld \subseteq Alarms
             /\ stale \subseteq Alarms /\ broken \subseteq Alarms /\ rearmed \subseteq Alarms
ValuesOK  == /\ value \in Values /\ phase \in {"starting", "grace", "open"}
             /\ faults \in Nat
ToldOK    == notified \subseteq Alarms \X Nat /\ confirmed \subseteq {"ack", "shelve"} \X Alarms

LEMMA TypeParts ==
  TypeInv <=> /\ WorkersOK /\ SavesOK /\ SetsOK /\ ValuesOK /\ ToldOK
              /\ alarmState \in Rows /\ sleeping \subseteq Delayed
BY DEF TypeInv, TypeOK, WorkersOK, SavesOK, SetsOK, ValuesOK, ToldOK

LEMMA ScannedTypes ==
  ASSUME NEW w \in Workers, NEW raw \in Values, NEW S \in SUBSET Alarms, NEW T, TypeInv,
         T \subseteq S,
         T # {} => T = {CHOOSE a \in T : TRUE} /\ Turns(CHOOSE a \in T : TRUE, raw),
         Scanned(w, S, T, raw)
  PROVE  /\ WorkersOK' /\ SavesOK' /\ alarmState' \in Rows
         /\ sleeping' \subseteq Delayed
         /\ withheld' \subseteq Alarms /\ stale' \subseteq Alarms
         /\ broken' \subseteq Alarms /\ rearmed' \subseteq Alarms
<1>0. alarmState \in Rows /\ alarmState' \in Rows
  BY ScannedRows, TypeParts
<1>1. WorkersOK'
  <2>1. ASSUME NEW v \in Workers
        PROVE  workers'[v] \in Worker \cup {Idle}
    <3>1. workers[v] \in Worker \cup {Idle}
      BY TypeParts DEF WorkersOK
    <3>2. workers[v] # Idle => [workers[v] EXCEPT !.task = FALSE] \in Worker
      BY <3>1 DEF Worker
    <3>3. CASE v = w /\ T = {}
      BY <3>3 DEF Scanned
    <3>4. CASE v = w /\ T # {}
      <4>1. PICK a \in Alarms : a = CHOOSE x \in T : TRUE
        BY <3>4
      <4>2. PICK does \in {"raise", "clear", "ack", "shelve"} :
              does = IF raw = "alarm" THEN "raise" ELSE "clear"
        OBVIOUS
      <4>3. workers'[v] = Job(does, a, TRUE, raw, FALSE)
        BY <3>4, <4>1, <4>2 DEF Scanned
      <4> QED BY <1>0, <4>3, JobType
    <3>5. CASE v # w
      <4>1. v \in TasksOf(Decided(S, raw)) => workers[v] # Idle
        BY DEF TasksOf
      <4>2. workers'[v] \in {Idle, workers[v]}
               \/ (workers[v] # Idle /\ workers'[v] = [workers[v] EXCEPT !.task = FALSE])
        BY <3>5, <4>1 DEF Scanned
      <4> QED BY <3>1, <3>2, <4>2
    <3> QED BY <3>3, <3>4, <3>5
  <2>2. workers' = [v \in Workers |-> workers'[v]]
    BY DEF Scanned
  <2> QED BY <2>1, <2>2 DEF WorkersOK
<1>2. SavesOK'
  <2>1. SavesOK
    BY TypeParts
  <2>2. CASE T = {}
    BY <2>1, <2>2 DEF Scanned, storeVars, SavesOK
  <2>3. CASE T # {}
    <3>1. AsyncSave(w)
      BY <2>3 DEF Scanned
    <3>2. /\ writer' \in Save \cup {NoSave} /\ unsaved' \in Rows \cup {NoSave}
          /\ waiting' \subseteq Workers /\ stored' = stored
      BY <1>0, <2>1, <3>1, SaveTypes DEF SavesOK
    <3> QED BY <2>1, <3>2 DEF SavesOK
  <2> QED BY <2>2, <2>3
<1>3. sleeping' \subseteq Delayed
  BY TypeParts DEF Scanned, Starts, Pends
<1>4. /\ withheld' \subseteq Alarms /\ stale' \subseteq Alarms
      /\ broken' \subseteq Alarms /\ rearmed' \subseteq Alarms
  BY TypeParts DEF Scanned, Starts, Decided, SetsOK
<1> QED BY <1>0, <1>1, <1>2, <1>3, <1>4

LEMMA ScanTypes ==
  ASSUME NEW w \in Workers, NEW k \in Nat \ {0}, NEW raw \in Values, TypeInv, ScanFrom(w, k, raw)
  PROVE  /\ WorkersOK' /\ SavesOK' /\ alarmState' \in Rows
         /\ sleeping' \subseteq Delayed
         /\ withheld' \subseteq Alarms /\ stale' \subseteq Alarms
         /\ broken' \subseteq Alarms /\ rearmed' \subseteq Alarms
<1>0. N \in Nat
  BY AlarmAssumption
<1>1. PICK S, T : Extent(k, S, T, raw) /\ Scanned(w, S, T, raw)
  BY <1>0, ScanExtent
<1>2. /\ S \subseteq Alarms /\ T \subseteq S
      /\ T # {} => T = {CHOOSE a \in T : TRUE} /\ Turns(CHOOSE a \in T : TRUE, raw)
  BY <1>0, <1>1, ExtentTypes
<1> QED BY <1>1, <1>2, ScannedTypes

LEMMA GoesOnTypes ==
  ASSUME NEW w \in Workers, workers[w] # Idle, TypeInv, GoesOn(w)
  PROVE  /\ WorkersOK' /\ SavesOK' /\ alarmState' \in Rows
         /\ sleeping' \subseteq Delayed
         /\ withheld' \subseteq Alarms /\ stale' \subseteq Alarms
         /\ broken' \subseteq Alarms /\ rearmed' \subseteq Alarms
<1>1. workers[w] \in Worker
  BY TypeParts DEF WorkersOK
<1>2. workers[w].alarm + 1 \in Nat \ {0} /\ workers[w].raw \in Values
  BY <1>1 DEF Worker, Alarms
<1>3. CASE workers[w].scan
  BY <1>2, <1>3, ScanTypes DEF GoesOn
<1>4. CASE ~workers[w].scan
  <2>1. /\ workers' = [workers EXCEPT ![w] = Idle]
        /\ UNCHANGED <<alarmState, sleeping, storeVars, withheld, stale, broken, rearmed>>
    BY <1>4 DEF GoesOn
  <2>2. WorkersOK'
    BY <2>1, TypeParts DEF WorkersOK
  <2> QED BY <2>1, <2>2, TypeParts DEF SavesOK, SetsOK, storeVars
<1> QED BY <1>3, <1>4

\* a new coroutine changed its row and awaits the save
LEMMA StartTypes ==
  ASSUME NEW a \in Alarms, NEW row \in Row, NEW does \in {"raise", "ack", "shelve"},
         NEW task \in BOOLEAN, TypeInv, CanStart,
         alarmState' = [alarmState EXCEPT ![a] = row],
         workers' = [workers EXCEPT ![NewWorker] = Job(does, a, FALSE, value, task)],
         AsyncSave(NewWorker)
  PROVE  WorkersOK' /\ SavesOK' /\ alarmState' \in Rows
<1>1. alarmState' \in Rows
  BY TypeParts DEF Rows
<1>2. NewWorker \in Workers
  BY NewIsFree
<1>3. Job(does, a, FALSE, value, task) \in Worker
  BY JobType, TypeParts DEF ValuesOK
<1>4. WorkersOK'
  BY <1>2, <1>3, TypeParts DEF WorkersOK
<1>5. SavesOK'
  BY <1>1, <1>2, SaveTypes, TypeParts DEF SavesOK
<1> QED BY <1>1, <1>4, <1>5

LEMMA NextSaveTypes ==
  ASSUME TypeInv, writer # NoSave, NextSave
  PROVE  /\ WorkersOK' /\ writer' \in Save \cup {NoSave} /\ unsaved' \in Rows \cup {NoSave}
         /\ waiting' \subseteq Workers
<1>1. WorkersOK'
  <2>1. ASSUME NEW w \in Workers, workers[w] # Idle
        PROVE  [workers[w] EXCEPT !.at = "saved"] \in Worker
    <3>1. workers[w] \in Worker
      BY <2>1, TypeParts DEF WorkersOK
    <3> QED BY <3>1 DEF Worker
  <2> QED BY <2>1, TypeParts DEF NextSave, WorkersOK
<1>2. writer' \in Save \cup {NoSave}
  BY TypeParts DEF NextSave, SavesOK, Save
<1> QED BY <1>1, <1>2, TypeParts DEF NextSave, SavesOK

LEMMA InitTypes == Init => TypeInv
<1> SUFFICES ASSUME Init PROVE TypeInv
  OBVIOUS
<1>1. Fresh \in Rows
  BY DEF Fresh, Rows, Row
<1> QED BY <1>1, TypeParts
        DEF Init, WorkersOK, SavesOK, SetsOK, ValuesOK, ToldOK, Values

LEMMA NoticeTypes ==
  ASSUME NEW w \in Workers, TypeInv, workers[w] # Idle
  PROVE  <<workers[w].alarm, workers[w].occurrence>> \in Alarms \X Nat
<1>1. workers[w] \in Worker
  BY TypeParts DEF WorkersOK
<1> QED BY <1>1 DEF Worker

LEMMA StepTypes == TypeInv /\ [Next]_alarmVars => TypeInv'
<1> SUFFICES ASSUME TypeInv, [Next]_alarmVars PROVE TypeInv'
  OBVIOUS
<1>0. /\ WorkersOK /\ SavesOK /\ SetsOK /\ ValuesOK /\ ToldOK
      /\ alarmState \in Rows /\ sleeping \subseteq Delayed
  BY TypeParts
<1> SUFFICES /\ WorkersOK' /\ SavesOK' /\ SetsOK' /\ ValuesOK' /\ ToldOK'
             /\ alarmState' \in Rows /\ sleeping' \subseteq Delayed
  BY DEF TypeInv, TypeOK, WorkersOK, SavesOK, SetsOK, ValuesOK, ToldOK
<1>1. ASSUME NEW w \in Workers, ClearSaved(w) \/ Delivered(w)
      PROVE  /\ WorkersOK' /\ SavesOK' /\ SetsOK' /\ ValuesOK' /\ ToldOK'
             /\ alarmState' \in Rows /\ sleeping' \subseteq Delayed
  <2>1. GoesOn(w) /\ workers[w] # Idle
    BY <1>1 DEF ClearSaved, Delivered, At
  <2>2. UNCHANGED <<value, phase, expired, notified, confirmed, boundVars>>
    BY <1>1 DEF ClearSaved, Delivered
  <2>3. /\ WorkersOK' /\ SavesOK' /\ alarmState' \in Rows
        /\ sleeping' \subseteq Delayed
        /\ withheld' \subseteq Alarms /\ stale' \subseteq Alarms
        /\ broken' \subseteq Alarms /\ rearmed' \subseteq Alarms
    BY <2>1, GoesOnTypes
  <2> QED BY <1>0, <2>2, <2>3 DEF SetsOK, ValuesOK, ToldOK, boundVars
<1>2. ASSUME NEW w \in Workers, Notify(w)
      PROVE  /\ WorkersOK' /\ SavesOK' /\ SetsOK' /\ ValuesOK' /\ ToldOK'
             /\ alarmState' \in Rows /\ sleeping' \subseteq Delayed
  <2>1. workers[w] # Idle
    BY <1>2 DEF Notify, At
  <2>2. [workers[w] EXCEPT !.at = "notifying"] \in Worker
    BY <1>0, <2>1 DEF WorkersOK, Worker
  <2>3. WorkersOK'
    BY <1>0, <1>2, <2>2 DEF Notify, WorkersOK
  <2>4. notified' \subseteq Alarms \X Nat
    BY <1>0, <1>2, <2>1, NoticeTypes DEF Notify, ToldOK
  <2> QED BY <1>0, <1>2, <2>3, <2>4
          DEF Notify, SavesOK, SetsOK, ValuesOK, ToldOK, storeVars, boundVars
<1>3. ASSUME NEW w \in Workers, ActAnswered(w)
      PROVE  /\ WorkersOK' /\ SavesOK' /\ SetsOK' /\ ValuesOK' /\ ToldOK'
             /\ alarmState' \in Rows /\ sleeping' \subseteq Delayed
  <2>1. workers[w] # Idle /\ workers[w].does \in {"ack", "shelve"}
    BY <1>3 DEF ActAnswered, At
  <2>2. workers[w].alarm \in Alarms
    BY <1>0, <2>1 DEF WorkersOK, Worker
  <2>3. WorkersOK'
    BY <1>0, <1>3 DEF ActAnswered, WorkersOK
  <2>4. confirmed' \subseteq {"ack", "shelve"} \X Alarms
    BY <1>0, <1>3, <2>1, <2>2 DEF ActAnswered, ToldOK
  <2> QED BY <1>0, <1>3, <2>3, <2>4
          DEF ActAnswered, SavesOK, SetsOK, ValuesOK, ToldOK, storeVars, boundVars
<1>4. ASSUME NEW a \in Alarms, Wakes(a)
      PROVE  /\ WorkersOK' /\ SavesOK' /\ SetsOK' /\ ValuesOK' /\ ToldOK'
             /\ alarmState' \in Rows /\ sleeping' \subseteq Delayed
  <2>1. /\ sleeping' = sleeping \ {a}
        /\ rearmed' \subseteq rearmed
        /\ UNCHANGED <<value, phase, expired, withheld, stale, broken, notified, confirmed,
                       boundVars>>
    BY <1>4 DEF Wakes
  <2>2. CASE Evaluates(a) /\ ~alarmState[a].active
    <3>1. Raised(alarmState[a]) \in Row
      BY <1>0, RowSteps DEF Rows
    <3>2. WorkersOK' /\ SavesOK' /\ alarmState' \in Rows
      BY <1>4, <2>2, <3>1, StartTypes DEF Wakes
    <3> QED BY <1>0, <2>1, <3>2 DEF SetsOK, ValuesOK, ToldOK, historyVars, boundVars
  <2>3. CASE ~(Evaluates(a) /\ ~alarmState[a].active)
    <3>1. UNCHANGED <<alarmState, workers, storeVars>>
      BY <1>4, <2>3 DEF Wakes
    <3> QED BY <1>0, <2>1, <3>1
            DEF WorkersOK, SavesOK, SetsOK, ValuesOK, ToldOK, storeVars, historyVars, boundVars
  <2> QED BY <2>2, <2>3
<1>5. CASE Started
  <2>1. Rearmed \subseteq Delayed /\ Delayed \subseteq Alarms
    BY AlarmAssumption DEF Rearmed
  <2>2. /\ sleeping' \subseteq sleeping \cup Rearmed /\ rearmed' \subseteq rearmed \cup Rearmed
        /\ phase' = "grace"
        /\ UNCHANGED <<value, alarmState, workers, storeVars, expired, withheld, stale, broken,
                       notified, confirmed, boundVars>>
    BY <1>5 DEF Started
  <2> QED BY <1>0, <2>1, <2>2
          DEF WorkersOK, SavesOK, SetsOK, ValuesOK, ToldOK, storeVars, boundVars
<1>6. CASE GraceEnds
  BY <1>0, <1>6 DEF GraceEnds, WorkersOK, SavesOK, SetsOK, ValuesOK, ToldOK,
                    storeVars, historyVars, boundVars
<1>7. CASE SaveLands
  <2>1. writer # NoSave /\ NextSave /\ stored' = writer.rows
    BY <1>7 DEF SaveLands, Landed
  <2>2. stored' \in Rows
    BY <1>0, <2>1 DEF SavesOK, Save
  <2> QED BY <1>0, <1>7, <2>1, <2>2, NextSaveTypes
          DEF SaveLands, SavesOK, SetsOK, ValuesOK, ToldOK, historyVars, boundVars
<1>8. CASE SaveLost
  <2>1. writer # NoSave /\ NextSave /\ faults' \in Nat
    BY <1>0, <1>8 DEF SaveLost, ValuesOK
  <2> QED BY <1>0, <1>8, <2>1, NextSaveTypes
          DEF SaveLost, SavesOK, SetsOK, ValuesOK, ToldOK, historyVars
<1>9. ASSUME NEW v \in Values, Reports(v)
      PROVE  /\ WorkersOK' /\ SavesOK' /\ SetsOK' /\ ValuesOK' /\ ToldOK'
             /\ alarmState' \in Rows /\ sleeping' \subseteq Delayed
  <2>1. NewWorker \in Workers
    BY <1>9, NewIsFree DEF Reports
  <2>2. /\ WorkersOK' /\ SavesOK' /\ alarmState' \in Rows
        /\ sleeping' \subseteq Delayed
        /\ withheld' \subseteq Alarms /\ stale' \subseteq Alarms
        /\ broken' \subseteq Alarms /\ rearmed' \subseteq Alarms
    BY <1>9, <2>1, ScanTypes DEF Reports
  <2> QED BY <1>0, <1>9, <2>2 DEF Reports, SetsOK, ValuesOK, ToldOK
<1>10. ASSUME NEW a \in Alarms, AckAlarm(a) \/ ShelveAlarm(a)
       PROVE  /\ WorkersOK' /\ SavesOK' /\ SetsOK' /\ ValuesOK' /\ ToldOK'
              /\ alarmState' \in Rows /\ sleeping' \subseteq Delayed
  <2>1. \E does \in {"ack", "shelve"}, row \in Row : Acts(does, a, row)
    <3>1. /\ [alarmState[a] EXCEPT !.acked = TRUE] \in Row
          /\ [alarmState[a] EXCEPT !.shelved = TRUE] \in Row
      BY <1>0 DEF Rows, Row
    <3> QED BY <1>10, <3>1 DEF AckAlarm, ShelveAlarm
  <2>2. PICK does \in {"ack", "shelve"}, row \in Row : Acts(does, a, row)
    BY <2>1
  <2>3. WorkersOK' /\ SavesOK' /\ alarmState' \in Rows
    BY <2>2, StartTypes DEF Acts
  <2> QED BY <1>0, <2>2, <2>3 DEF Acts, SetsOK, ValuesOK, ToldOK, historyVars
<1>11. ASSUME NEW a \in Alarms, ShelfExpires(a)
       PROVE  /\ WorkersOK' /\ SavesOK' /\ SetsOK' /\ ValuesOK' /\ ToldOK'
              /\ alarmState' \in Rows /\ sleeping' \subseteq Delayed
  BY <1>0, <1>11 DEF ShelfExpires, WorkersOK, SavesOK, SetsOK, ValuesOK, ToldOK,
                     storeVars, historyVars, boundVars
<1>12. CASE Restart
  BY <1>0, <1>12 DEF Restart, WorkersOK, SavesOK, SetsOK, ValuesOK, ToldOK
<1>13. CASE UNCHANGED alarmVars
  BY <1>0, <1>13 DEF alarmVars, WorkersOK, SavesOK, SetsOK, ValuesOK, ToldOK,
                     storeVars, historyVars, boundVars
<1> QED BY <1>1, <1>2, <1>3, <1>4, <1>5, <1>6, <1>7, <1>8, <1>9, <1>10, <1>11, <1>12, <1>13
        DEF Next, EngineNext

\* The records of the alarms, the coroutines that are suspended and what is on
\* its way to the Store keep their form (GltStore, __init__.py).
THEOREM TypeCorrect == Spec => []TypeOK
<1>1. TypeInv => TypeOK
  BY DEF TypeInv
<1> QED BY <1>1, InitTypes, StepTypes, PTL DEF Spec

-----------------------------------------------------------------------------
(* What awaits the Store *)

LEMMA CoverRows ==
  ASSUME TypeInv, NEW v \in Queue
  PROVE  /\ writer # NoSave /\ writer \in Save /\ writer.rows \in Rows /\ writer.by \in Workers
         /\ Cover(v) \in Rows /\ v \in Workers
<1>1. writer # NoSave /\ writer \in Save
  BY TypeParts DEF SavesOK, Queue
<1>2. writer.rows \in Rows /\ writer.by \in Workers
  BY <1>1 DEF Save
<1> QED BY <1>1, <1>2, TypeParts DEF Cover, SavesOK, Queue

LEMMA SaveAsked ==
  ASSUME NEW w \in Workers \ Queue, TypeInv, StoreInv, alarmState' \in Rows,
         Before(alarmState, alarmState'), expired' = expired, AsyncSave(w)
  PROVE  /\ StoreInv' /\ stored' = stored
         /\ Queue' = Queue \cup {w} /\ Cover(w)' = alarmState'
         /\ \A v \in Queue : Cover(v)' \in Rows /\ Before(Cover(v), Cover(v)')
<1>0. stored \in Rows /\ alarmState \in Rows
  BY TypeParts DEF SavesOK
<1>1. Before(stored, alarmState') /\ Before(alarmState', alarmState')
  BY <1>0, BeforeSelf, BeforeTrans DEF StoreInv
<1>2. CASE writer = NoSave
  <2>1. PICK s : s = [by |-> w, rows |-> alarmState']
    OBVIOUS
  <2>2. s \in Save /\ s.by = w /\ s.rows = alarmState' /\ s # NoSave
    BY <2>1, AlarmAssumption DEF Save
  <2>3. writer' = s /\ waiting' = {} /\ unsaved' = NoSave /\ stored' = stored
    BY <1>2, <2>1 DEF AsyncSave, StoreInv
  <2>4. Queue = {} /\ Queue' = {w} /\ Cover(w)' = alarmState'
    BY <1>2, <2>2, <2>3 DEF Queue, Cover
  <2>5. StoreInv'
    BY <1>1, <2>2, <2>3 DEF StoreInv, Before
  <2> QED BY <2>3, <2>4, <2>5
<1>3. CASE writer # NoSave
  <2>1. /\ writer' = writer /\ stored' = stored
        /\ waiting' = waiting \cup {w} /\ unsaved' = alarmState'
    BY <1>3 DEF AsyncSave
  <2>2. writer \in Save /\ writer.rows \in Rows
    BY <1>3, TypeParts DEF SavesOK, Save
  <2>3. w # writer.by /\ w \notin waiting
    BY <1>3 DEF Queue
  <2>4. alarmState' # NoSave
    BY AlarmAssumption
  <2>5. Queue' = Queue \cup {w} /\ Cover(w)' = alarmState'
    BY <1>3, <2>1, <2>3, <2>4 DEF Queue, Cover
  <2>6. Before(writer.rows, alarmState')
    BY <1>0, <1>3, <2>2, BeforeTrans DEF StoreInv
  <2>7. StoreInv'
    <3>1. writer.by \notin waiting \cup {w} /\ Before(stored, writer.rows)
      BY <1>3, <2>3 DEF StoreInv
    <3> QED BY <1>1, <1>3, <2>1, <2>4, <2>6, <3>1 DEF StoreInv, Before
  <2>8. ASSUME NEW v \in Queue
        PROVE  Cover(v)' \in Rows /\ Before(Cover(v), Cover(v)')
    <3>1. CASE v = writer.by
      <4>1. Cover(v) = writer.rows /\ Cover(v)' = writer.rows
        BY <2>1, <3>1 DEF Cover
      <4> QED BY <2>2, <4>1, BeforeSelf
    <3>2. CASE v # writer.by
      <4>1. Cover(v)' = alarmState'
        BY <2>1, <2>4, <3>2 DEF Cover
      <4>2. CASE unsaved = NoSave
        <5>1. Cover(v) = writer.rows
          BY <4>2 DEF Cover
        <5> QED BY <2>6, <4>1, <5>1
      <4>3. CASE unsaved # NoSave
        <5>1. Cover(v) = unsaved /\ unsaved \in Rows /\ Before(unsaved, alarmState)
          BY <3>2, <4>3, TypeParts DEF Cover, StoreInv, SavesOK
        <5> QED BY <1>0, <4>1, <5>1, BeforeTrans
      <4> QED BY <4>2, <4>3
    <3> QED BY <3>1, <3>2
  <2> QED BY <2>1, <2>5, <2>7, <2>8
<1> QED BY <1>2, <1>3

LEMMA SaveQuiet ==
  ASSUME TypeInv, StoreInv, alarmState' \in Rows,
         Before(alarmState, alarmState'), expired' = expired, UNCHANGED storeVars
  PROVE  /\ StoreInv' /\ stored' = stored /\ Queue' = Queue
         /\ \A v \in Queue : Cover(v)' \in Rows /\ Before(Cover(v), Cover(v)')
<1>0. stored \in Rows /\ alarmState \in Rows
  BY TypeParts DEF SavesOK
<1>1. /\ writer' = writer /\ waiting' = waiting /\ unsaved' = unsaved /\ stored' = stored
  BY DEF storeVars
<1>2. Queue' = Queue /\ \A v : Cover(v)' = Cover(v)
  BY <1>1 DEF Queue, Cover
<1>3. Before(stored, alarmState')
  BY <1>0, BeforeTrans DEF StoreInv
<1>4. writer # NoSave => Before(writer.rows, alarmState')
  <2>1. writer # NoSave => writer.rows \in Rows
    BY TypeParts DEF SavesOK, Save
  <2> QED BY <1>0, <2>1, BeforeTrans DEF StoreInv
<1>5. unsaved # NoSave => Before(unsaved, alarmState')
  <2>1. unsaved # NoSave => unsaved \in Rows
    BY TypeParts DEF SavesOK
  <2> QED BY <1>0, <2>1, BeforeTrans DEF StoreInv
<1>6. StoreInv'
  BY <1>1, <1>3, <1>4, <1>5 DEF StoreInv, Before
<1>7. ASSUME NEW v \in Queue
      PROVE  Cover(v)' \in Rows /\ Before(Cover(v), Cover(v)')
  BY <1>2, CoverRows, BeforeSelf
<1> QED BY <1>1, <1>2, <1>6, <1>7

-----------------------------------------------------------------------------
(* The step of one coroutine, which ends or changes rows and awaits its    *)
(* save; the others go on, or lose their task, or are cancelled with it.   *)

Continues(v) ==
    \/ workers'[v] \in {workers[v], Idle}
    \/ workers[v] # Idle /\ workers'[v] = [workers[v] EXCEPT !.task = FALSE]

Awaits(w, j) ==
    /\ j \in Worker /\ j.at = "saving" /\ AsyncSave(w)
    /\ Holds(alarmState'[j.alarm], j)
    /\ j.does = "raise" => ~Past(alarmState[j.alarm], j.occurrence)

Advances(w) ==
    /\ UNCHANGED <<expired, faults, notified>>
    /\ Before(alarmState, alarmState')
    /\ \A v \in Workers \ {w} : Continues(v)
    /\ \/ workers'[w] = Idle /\ UNCHANGED storeVars
       \/ Awaits(w, workers'[w])

LEMMA SameJob ==
  ASSUME NEW v \in Workers, TypeInv, Continues(v), workers'[v] # Idle
  PROVE  /\ workers[v] # Idle /\ workers[v] \in Worker
         /\ workers'[v].does = workers[v].does /\ workers'[v].alarm = workers[v].alarm
         /\ workers'[v].occurrence = workers[v].occurrence
         /\ workers'[v].at = workers[v].at
<1>1. workers[v] # Idle => workers[v] \in Worker
  BY TypeParts DEF WorkersOK
<1> QED BY <1>1 DEF Continues, Worker

LEMMA AdvanceRows ==
  ASSUME NEW w \in Workers \ Queue, RowsInv, alarmState' \in Rows, Advances(w)
  PROVE  StoreInv' /\ JobInv' /\ stored' = stored
<1>0. /\ TypeInv /\ StoreInv /\ JobInv /\ ToldInv
      /\ stored \in Rows /\ alarmState \in Rows
      /\ expired' = expired /\ faults' = faults /\ notified' = notified
      /\ Before(alarmState, alarmState')
  BY TypeParts DEF RowsInv, Advances, SavesOK
<1>1. /\ StoreInv' /\ stored' = stored
      /\ \A v \in Workers \ {w} : v \in Queue' <=> v \in Queue
      /\ \A v \in Queue : Cover(v)' \in Rows /\ Before(Cover(v), Cover(v)')
      /\ workers'[w] # Idle => w \in Queue' /\ Cover(w)' = alarmState'
  <2>1. CASE workers'[w] = Idle /\ UNCHANGED storeVars
    BY <1>0, <2>1, SaveQuiet
  <2>2. CASE Awaits(w, workers'[w])
    BY <1>0, <2>2, SaveAsked DEF Awaits
  <2> QED BY <2>1, <2>2 DEF Advances
<1>2. ASSUME NEW v \in Workers \ {w}, workers'[v] # Idle
      PROVE  Job1(v)'
  <2>1. /\ workers[v] # Idle /\ workers[v] \in Worker
        /\ workers'[v].does = workers[v].does /\ workers'[v].alarm = workers[v].alarm
        /\ workers'[v].occurrence = workers[v].occurrence
        /\ workers'[v].at = workers[v].at
    BY <1>0, <1>2, SameJob DEF Advances
  <2>2. PICK j : j = workers[v]
    OBVIOUS
  <2>3. j \in Worker /\ j.alarm \in Alarms /\ j.occurrence \in Nat
    BY <2>1, <2>2 DEF Worker
  <2>4. /\ j.at = "saving" <=> v \in Queue
        /\ j.at = "notifying" => j.does = "raise"
        /\ j.does = "raise" => Past(alarmState[j.alarm], j.occurrence)
        /\ faults = 0 => Holds((IF j.at = "saving" THEN Cover(v) ELSE stored)[j.alarm], j)
        /\ (faults = 0 /\ j.does = "raise" /\ j.at # "notifying") => Notice(j) \notin notified
    BY <1>0, <2>1, <2>2 DEF JobInv, Job1
  <2>5. j.does = "raise" => Past(alarmState'[j.alarm], j.occurrence)
    BY <1>0, <2>3, <2>4, HoldsLater
  <2>6. faults = 0 => Holds((IF j.at = "saving" THEN Cover(v)' ELSE stored)[j.alarm], j)
    <3>1. CASE j.at = "saving"
      <4>1. v \in Queue /\ Cover(v) \in Rows
        BY <1>0, <2>4, <3>1, CoverRows
      <4>2. Cover(v)' \in Rows /\ Before(Cover(v), Cover(v)')
        BY <1>1, <4>1
      <4> QED BY <2>3, <2>4, <3>1, <4>1, <4>2, HoldsLater
    <3>2. CASE j.at # "saving"
      BY <2>4, <3>2
    <3> QED BY <3>1, <3>2
  <2>7. /\ workers'[v].does = j.does /\ workers'[v].alarm = j.alarm
        /\ workers'[v].occurrence = j.occurrence /\ workers'[v].at = j.at
    BY <2>1, <2>2
  <2>8. workers'[v].at = "saving" <=> v \in Queue'
    BY <1>1, <2>4, <2>7
  <2>9. faults' = 0 => Holds((IF workers'[v].at = "saving" THEN Cover(v)'
                                                         ELSE stored')[workers'[v].alarm],
                             workers'[v])
    BY <1>0, <1>1, <2>6, <2>7 DEF Holds
  <2>10. Notice(workers'[v]) = Notice(j)
    BY <2>7 DEF Notice
  <2> QED BY <1>0, <2>4, <2>5, <2>7, <2>8, <2>9, <2>10 DEF Job1, Past, Notice, Holds
<1>3. ASSUME workers'[w] # Idle
      PROVE  Job1(w)'
  <2>1. Awaits(w, workers'[w])
    BY <1>3 DEF Advances
  <2>2. PICK j \in Worker : j = workers'[w]
    BY <2>1 DEF Awaits
  <2>3. /\ j.at = "saving" /\ Holds(alarmState'[j.alarm], j)
        /\ j.does = "raise" => ~Past(alarmState[j.alarm], j.occurrence)
        /\ j.alarm \in Alarms /\ j.occurrence \in Nat
    BY <2>1, <2>2 DEF Awaits, Worker
  <2>4. (faults = 0 /\ j.does = "raise") => Notice(j) \notin notified
    <3> SUFFICES ASSUME faults = 0, j.does = "raise", Notice(j) \in notified PROVE FALSE
      OBVIOUS
    <3>1. Past(stored[j.alarm], j.occurrence)
      <4>1. \A n \in notified : Past(stored[n[1]], n[2])
        BY <1>0 DEF ToldInv
      <4> QED BY <4>1 DEF Notice
    <3>2. Past(alarmState[j.alarm], j.occurrence)
      BY <1>0, <2>3, <3>1, HoldsLater DEF StoreInv
    <3> QED BY <2>3, <3>2
  <2>5. j.does = "raise" => Past(alarmState'[j.alarm], j.occurrence)
    BY <2>3 DEF Holds
  <2> QED BY <1>0, <1>1, <1>3, <2>2, <2>3, <2>4, <2>5 DEF Job1, Holds, Past, Notice
<1>4. ASSUME NEW u \in Workers, NEW v \in Workers, u # v,
             workers'[u] # Idle, workers'[v] # Idle,
             workers'[u].does = "raise", workers'[v].does = "raise"
      PROVE  Notice(workers'[u]) # Notice(workers'[v])
  <2>1. ASSUME NEW x \in Workers \ {w}, workers'[x] # Idle, workers'[x].does = "raise"
        PROVE  /\ workers[x] # Idle /\ workers[x].does = "raise"
               /\ Notice(workers'[x]) = Notice(workers[x])
               /\ Past(alarmState[workers'[x].alarm], workers'[x].occurrence)
    <3>1. /\ workers[x] # Idle /\ workers[x] \in Worker
          /\ workers'[x].does = workers[x].does /\ workers'[x].alarm = workers[x].alarm
          /\ workers'[x].occurrence = workers[x].occurrence
      BY <1>0, <2>1, SameJob DEF Advances
    <3>2. Past(alarmState[workers[x].alarm], workers[x].occurrence)
      BY <1>0, <2>1, <3>1 DEF JobInv, Job1
    <3> QED BY <2>1, <3>1, <3>2 DEF Notice
  <2>2. workers'[w] # Idle /\ workers'[w].does = "raise"
           => ~Past(alarmState[workers'[w].alarm], workers'[w].occurrence)
    BY DEF Advances, Awaits
  <2>3. CASE u # w /\ v # w
    BY <1>0, <1>4, <2>1, <2>3 DEF JobInv
  <2>4. CASE u = w
    BY <1>4, <2>1, <2>2, <2>4 DEF Notice
  <2>5. CASE v = w
    BY <1>4, <2>1, <2>2, <2>5 DEF Notice
  <2> QED BY <2>3, <2>4, <2>5
<1>5. JobInv'
  <2>1. \A v \in Workers : workers'[v] # Idle => Job1(v)'
    BY <1>2, <1>3
  <2> QED BY <1>4, <2>1 DEF JobInv, Notice
<1> QED BY <1>1, <1>5

LEMMA ScanAdvances ==
  ASSUME NEW w \in Workers, NEW k \in Nat \ {0}, NEW raw \in Values, TypeInv,
         ScanFrom(w, k, raw), UNCHANGED <<expired, faults, notified>>
  PROVE  Advances(w)
<1>0. N \in Nat /\ alarmState \in Rows
  BY AlarmAssumption, TypeParts
<1>1. PICK S, T : Extent(k, S, T, raw) /\ Scanned(w, S, T, raw)
  BY <1>0, ScanExtent
<1>2. /\ S \subseteq Alarms /\ T \subseteq S
      /\ T # {} => T = {CHOOSE a \in T : TRUE} /\ Turns(CHOOSE a \in T : TRUE, raw)
  BY <1>0, <1>1, ExtentTypes
<1>3. Before(alarmState, alarmState')
  BY <1>0, <1>1, <1>2, ScannedRows
<1>4. \A v \in Workers \ {w} : Continues(v)
  BY <1>1 DEF Scanned, Continues, TasksOf
<1>5. CASE T = {}
  BY <1>1, <1>3, <1>4, <1>5 DEF Scanned, Advances
<1>6. CASE T # {}
  <2>1. PICK s : s = CHOOSE a \in T : TRUE
    OBVIOUS
  <2>2. s \in T /\ s \in Alarms /\ Turns(s, raw)
    BY <1>2, <1>6, <2>1
  <2>3. PICK does \in {"raise", "clear"} : does = IF raw = "alarm" THEN "raise" ELSE "clear"
    OBVIOUS
  <2>4. PICK j : j = Job(does, s, TRUE, raw, FALSE)
    OBVIOUS
  <2>5. workers'[w] = j /\ AsyncSave(w)
    BY <1>1, <1>6, <2>1, <2>3, <2>4 DEF Scanned
  <2>6. j \in Worker
    BY <1>0, <2>2, <2>4, JobType
  <2>7. /\ j.at = "saving" /\ j.does = does /\ j.alarm = s
        /\ j.occurrence = alarmState[s].occurrence
    BY <2>4 DEF Job
  <2>8. CASE raw = "alarm"
    <3>1. s \notin Starts(S, raw) /\ ~alarmState[s].active
      BY <1>0, <2>2, <2>8 DEF Turns, Starts, Rows, Row
    <3>2. alarmState'[s] = Raised(alarmState[s])
      BY <1>1, <2>2, <2>8, <3>1 DEF Scanned
    <3>3. alarmState[s] \in Row
      BY <1>0, <2>2 DEF Rows
    <3>4. alarmState'[s].occurrence = alarmState[s].occurrence /\ alarmState'[s].active
      BY <3>2, <3>3, RowSteps
    <3>5. /\ Past(alarmState'[s], alarmState[s].occurrence)
          /\ ~Past(alarmState[s], alarmState[s].occurrence)
      BY <3>1, <3>3, <3>4 DEF Past, Row
    <3>6. Awaits(w, j)
      BY <2>3, <2>5, <2>6, <2>7, <2>8, <3>5 DEF Awaits, Holds
    <3> QED BY <1>3, <1>4, <2>5, <3>6 DEF Advances
  <2>9. CASE raw # "alarm"
    <3>1. Awaits(w, j)
      BY <2>3, <2>5, <2>6, <2>7, <2>9 DEF Awaits, Holds
    <3> QED BY <1>3, <1>4, <2>5, <3>1 DEF Advances
  <2> QED BY <2>8, <2>9
<1> QED BY <1>5, <1>6

LEMMA GoesOnAdvances ==
  ASSUME NEW w \in Workers, workers[w] # Idle, TypeInv, GoesOn(w),
         UNCHANGED <<expired, faults, notified>>
  PROVE  Advances(w)
<1>1. workers[w] \in Worker /\ alarmState \in Rows
  BY TypeParts DEF WorkersOK
<1>2. workers[w].alarm + 1 \in Nat \ {0} /\ workers[w].raw \in Values
  BY <1>1 DEF Worker, Alarms
<1>3. CASE workers[w].scan
  BY <1>2, <1>3, ScanAdvances DEF GoesOn
<1>4. CASE ~workers[w].scan
  <2>1. /\ workers' = [workers EXCEPT ![w] = Idle]
        /\ alarmState' = alarmState /\ UNCHANGED storeVars
    BY <1>4 DEF GoesOn
  <2>2. Before(alarmState, alarmState')
    BY <1>1, <2>1, BeforeSelf
  <2>3. workers'[w] = Idle /\ \A v \in Workers \ {w} : Continues(v)
    BY <2>1, TypeParts DEF WorkersOK, Continues
  <2> QED BY <2>1, <2>2, <2>3 DEF Advances
<1> QED BY <1>3, <1>4

LEMMA StartAdvances ==
  ASSUME NEW a \in Alarms, NEW row \in Row, NEW does \in {"raise", "ack", "shelve"},
         NEW task \in BOOLEAN, TypeInv, CanStart,
         alarmState' = [alarmState EXCEPT ![a] = row],
         workers' = [workers EXCEPT ![NewWorker] = Job(does, a, FALSE, value, task)],
         AsyncSave(NewWorker), UNCHANGED <<expired, faults, notified>>,
         row.occurrence = alarmState[a].occurrence,
         alarmState[a].active => row.active,
         alarmState[a].acked => row.acked,
         alarmState[a].shelved => row.shelved,
         does = "raise" => row.active /\ ~alarmState[a].active,
         does = "ack" => row.acked,
         does = "shelve" => row.shelved
  PROVE  Advances(NewWorker)
<1>0. alarmState \in Rows /\ WorkersOK
  BY TypeParts
<1>1. NewWorker \in Workers
  BY NewIsFree
<1>2. PICK j \in Worker : j = Job(does, a, FALSE, value, task)
  BY JobType, TypeParts DEF ValuesOK
<1>3. /\ j.at = "saving" /\ j.does = does /\ j.alarm = a
      /\ j.occurrence = alarmState[a].occurrence
  BY <1>2 DEF Job
<1>4. alarmState'[a] = row /\ \A b \in Alarms \ {a} : alarmState'[b] = alarmState[b]
  BY <1>0 DEF Rows
<1>5. workers'[NewWorker] = j /\ \A v \in Workers \ {NewWorker} : Continues(v)
  BY <1>0, <1>1, <1>2 DEF WorkersOK, Continues
<1>6. Before(alarmState, alarmState')
  <2>1. \A b \in Alarms : alarmState[b].occurrence \in Nat
    BY <1>0 DEF Rows, Row
  <2> QED BY <1>4, <2>1 DEF Before
<1>7. Awaits(NewWorker, j)
  <2>1. alarmState[a].occurrence \in Nat
    BY <1>0 DEF Rows, Row
  <2>2. Holds(row, j)
    BY <1>3, <2>1 DEF Holds, Past
  <2>3. j.does = "raise" => ~Past(alarmState[j.alarm], j.occurrence)
    BY <1>3, <2>1 DEF Past
  <2> QED BY <1>2, <1>3, <1>4, <2>2, <2>3 DEF Awaits
<1> QED BY <1>5, <1>6, <1>7 DEF Advances

LEMMA SaveNext ==
  ASSUME RowsInv, writer # NoSave, NextSave, stored' = writer.rows \/ faults' = faults + 1,
         stored' \in {stored, writer.rows}, faults' \in {faults, faults + 1},
         UNCHANGED <<alarmState, expired, notified, confirmed>>
  PROVE  StoreInv' /\ JobInv' /\ ToldInv'
<1>0. /\ TypeInv /\ StoreInv /\ JobInv /\ ToldInv
      /\ stored \in Rows /\ alarmState \in Rows /\ WorkersOK /\ faults \in Nat
  BY TypeParts DEF RowsInv, SavesOK, ValuesOK
<1>1. writer \in Save /\ writer.rows \in Rows
  BY <1>0, TypeParts DEF SavesOK, Save
<1>2. Before(stored, writer.rows) /\ Before(writer.rows, alarmState)
  BY <1>0 DEF StoreInv
<1>3. stored' \in Rows /\ Before(stored, stored') /\ Before(stored', alarmState)
  BY <1>0, <1>1, <1>2, BeforeSelf DEF StoreInv
<1>4. faults' = 0 => faults = 0 /\ stored' = writer.rows
  BY <1>0
<1>5. ToldInv'
  <2>1. SUFFICES ASSUME faults' = 0
                 PROVE  /\ \A n \in notified : Past(stored'[n[1]], n[2])
                        /\ \A c \in confirmed : Answered(stored'[c[2]], c[1], c[2])
    BY DEF ToldInv, Past, Answered
  <2>2. /\ \A n \in notified : Past(stored[n[1]], n[2]) /\ n \in Alarms \X Nat
        /\ \A c \in confirmed : /\ Answered(stored[c[2]], c[1], c[2])
                                /\ c \in {"ack", "shelve"} \X Alarms
    BY <1>0, <1>4, <2>1, TypeParts DEF ToldInv, ToldOK
  <2> QED BY <1>0, <1>3, <2>2, HoldsLater
<1>6. /\ unsaved' = NoSave
      /\ \/ /\ unsaved # NoSave
            /\ \E w \in waiting : writer' = [by |-> w, rows |-> unsaved]
                                  /\ waiting' = waiting \ {w}
         \/ unsaved = NoSave /\ writer' = NoSave /\ waiting' = {}
  BY DEF NextSave
<1>7. StoreInv'
  <2>1. CASE unsaved = NoSave
    BY <1>3, <1>6, <2>1 DEF StoreInv, Before
  <2>2. ASSUME NEW w \in waiting, unsaved # NoSave,
               writer' = [by |-> w, rows |-> unsaved], waiting' = waiting \ {w}
        PROVE  StoreInv'
    <3>1. unsaved \in Rows /\ Before(writer.rows, unsaved) /\ Before(unsaved, alarmState)
      BY <1>0, <2>2, TypeParts DEF StoreInv, SavesOK
    <3>2. Before(stored', unsaved)
      BY <1>0, <1>1, <1>2, <3>1, BeforeTrans
    <3>3. /\ writer'.rows = unsaved /\ writer'.by \notin waiting' /\ unsaved' = NoSave
          /\ expired' = expired /\ alarmState' = alarmState
      BY <1>6, <2>2
    <3>4. Before(stored', writer'.rows) /\ Before(writer'.rows, alarmState')
             /\ Before(stored', alarmState')
      BY <1>3, <3>1, <3>2, <3>3
    <3>5. /\ Before(stored, writer.rows)' /\ Before(writer.rows, alarmState)'
          /\ Before(stored, alarmState)'
      BY <3>3, <3>4 DEF Before
    <3>6. writer' # NoSave
      <4>1. [by |-> w, rows |-> unsaved] \in Save
        BY <1>0, <2>2, TypeParts DEF SavesOK, Save
      <4> QED BY <2>2, <4>1, AlarmAssumption
    <3> QED BY <3>3, <3>5, <3>6 DEF StoreInv
  <2> QED BY <1>6, <2>1, <2>2
<1>8. /\ \A v \in Workers : v \in Queue' <=> v \in Queue /\ v \notin Returning
      /\ \A v \in Returning : unsaved # NoSave => v = writer.by
      /\ Returning \subseteq Queue
      /\ \A v \in Queue' : unsaved # NoSave /\ Cover(v)' = unsaved /\ v # writer.by
  <2>0. writer.by \notin waiting
    BY <1>0 DEF StoreInv
  <2>1. CASE unsaved = NoSave
    BY <1>6, <2>1 DEF Queue, Returning
  <2>2. ASSUME NEW w \in waiting, unsaved # NoSave,
               writer' = [by |-> w, rows |-> unsaved], waiting' = waiting \ {w}
        PROVE  /\ \A v \in Workers : v \in Queue' <=> v \in Queue /\ v \notin Returning
               /\ \A v \in Returning : unsaved # NoSave => v = writer.by
               /\ Returning \subseteq Queue
               /\ \A v \in Queue' : unsaved # NoSave /\ Cover(v)' = unsaved /\ v # writer.by
    <3>1. w \in Workers
      BY <1>0, TypeParts DEF SavesOK
    <3>2. [by |-> w, rows |-> unsaved] \in Save
      BY <1>0, <2>2, <3>1, TypeParts DEF SavesOK, Save
    <3>3. writer' # NoSave /\ writer'.by = w /\ writer'.rows = unsaved
      BY <2>2, <3>2, AlarmAssumption
    <3>4. Queue' = waiting
      BY <2>2, <3>3 DEF Queue
    <3>5. Returning = {writer.by}
      BY <2>2 DEF Returning
    <3>6. \A v : Cover(v)' = unsaved
      BY <1>6, <3>3 DEF Cover
    <3> QED BY <2>0, <2>2, <3>4, <3>5, <3>6 DEF Queue
  <2> QED BY <1>6, <2>1, <2>2
<1>9. \A v \in Workers :
        workers'[v] = IF v \in Returning /\ workers[v] # Idle
                      THEN [workers[v] EXCEPT !.at = "saved"] ELSE workers[v]
  BY DEF NextSave
<1>10. ASSUME NEW v \in Workers, workers'[v] # Idle
       PROVE  /\ workers[v] # Idle /\ workers[v] \in Worker
              /\ workers'[v].does = workers[v].does /\ workers'[v].alarm = workers[v].alarm
              /\ workers'[v].occurrence = workers[v].occurrence
              /\ workers'[v].at = IF v \in Returning THEN "saved" ELSE workers[v].at
  <2>1. workers[v] # Idle
    BY <1>9, <1>10
  <2>2. workers[v] \in Worker
    BY <1>0, <2>1 DEF WorkersOK
  <2> QED BY <1>9, <2>1, <2>2 DEF Worker
<1>11. ASSUME NEW v \in Workers, workers'[v] # Idle
       PROVE  Job1(v)'
  <2>1. PICK j : j = workers[v]
    OBVIOUS
  <2>2. /\ workers[v] # Idle /\ j \in Worker
        /\ workers'[v].does = j.does /\ workers'[v].alarm = j.alarm
        /\ workers'[v].occurrence = j.occurrence
        /\ workers'[v].at = IF v \in Returning THEN "saved" ELSE j.at
    BY <1>10, <1>11, <2>1
  <2>3. j.alarm \in Alarms /\ j.occurrence \in Nat
    BY <2>2 DEF Worker
  <2>4. /\ j.at = "saving" <=> v \in Queue
        /\ j.at = "notifying" => j.does = "raise"
        /\ j.does = "raise" => Past(alarmState[j.alarm], j.occurrence)
        /\ faults = 0 => Holds((IF j.at = "saving" THEN Cover(v) ELSE stored)[j.alarm], j)
        /\ (faults = 0 /\ j.does = "raise" /\ j.at # "notifying") => Notice(j) \notin notified
    BY <1>0, <2>1, <2>2 DEF JobInv, Job1
  <2>5. workers'[v].at = "saving" <=> v \in Queue'
    BY <1>8, <2>2, <2>4
  <2>6. faults' = 0 => Holds((IF workers'[v].at = "saving" THEN Cover(v)'
                                                         ELSE stored')[j.alarm], j)
    <3> SUFFICES ASSUME faults' = 0
                 PROVE  Holds((IF workers'[v].at = "saving" THEN Cover(v)'
                                                          ELSE stored')[j.alarm], j)
      OBVIOUS
    <3>1. CASE v \in Queue'
      <4>1. unsaved # NoSave /\ Cover(v)' = unsaved /\ v # writer.by /\ v \in Queue
        BY <1>8, <3>1
      <4>2. Cover(v) = unsaved
        BY <4>1 DEF Cover
      <4> QED BY <1>4, <2>4, <2>5, <3>1, <4>1, <4>2
    <3>2. CASE v \notin Queue' /\ v \in Queue
      <4>1. v \in Returning
        BY <1>8, <3>2
      <4>2. Cover(v) = writer.rows
        BY <1>8, <4>1 DEF Cover
      <4> QED BY <1>4, <2>4, <2>5, <3>2, <4>2
    <3>3. CASE v \notin Queue' /\ v \notin Queue
      <4>1. Holds(stored[j.alarm], j)
        BY <1>4, <2>4, <3>3
      <4>2. Holds(stored'[j.alarm], j)
        BY <1>0, <1>3, <2>2, <4>1, HoldsLater
      <4> QED BY <2>5, <3>3, <4>2
    <3> QED BY <3>1, <3>2, <3>3
  <2>7. (faults' = 0 /\ j.does = "raise" /\ workers'[v].at # "notifying") => Notice(j) \notin notified
    BY <1>4, <1>8, <2>2, <2>4
  <2>8. Notice(workers'[v]) = Notice(j)
    BY <2>2 DEF Notice
  <2> QED BY <2>2, <2>4, <2>5, <2>6, <2>7, <2>8 DEF Job1, Past, Notice, Holds
<1>12. JobInv'
  <2>1. ASSUME NEW u \in Workers, NEW v \in Workers, u # v,
               workers'[u] # Idle, workers'[v] # Idle,
               workers'[u].does = "raise", workers'[v].does = "raise"
        PROVE  Notice(workers'[u]) # Notice(workers'[v])
    BY <1>0, <1>10, <2>1 DEF JobInv, Notice
  <2>2. \A v \in Workers : workers'[v] # Idle => Job1(v)'
    BY <1>11
  <2> QED BY <2>1, <2>2 DEF JobInv, Notice
<1> QED BY <1>5, <1>7, <1>12

LEMMA KeptTold ==
  ASSUME ToldInv, UNCHANGED <<stored, expired, faults, notified, confirmed>>
  PROVE  ToldInv'
BY DEF ToldInv, Past, Answered

LEMMA KeptRows ==
  ASSUME StoreInv, JobInv, ToldInv,
         UNCHANGED <<alarmState, workers, storeVars, expired, faults, notified, confirmed>>
  PROVE  StoreInv' /\ JobInv' /\ ToldInv'
<1>1. StoreInv'
  BY DEF StoreInv, Before, storeVars
<1>2. JobInv'
  <2>1. Queue' = Queue /\ \A v : Cover(v)' = Cover(v)
    BY DEF Queue, Cover, storeVars
  <2>2. \A v \in Workers : workers'[v] # Idle => Job1(v)'
    BY <2>1 DEF JobInv, Job1, Past, Holds, Notice, storeVars
  <2> QED BY <2>2 DEF JobInv, Notice
<1>3. ToldInv'
  BY KeptTold DEF storeVars
<1> QED BY <1>1, <1>2, <1>3

\* an alarm whose shelf is over counts as one that was shelved
LEMMA ExpiryRows ==
  ASSUME RowsInv, NEW a, ShelfExpires(a)
  PROVE  StoreInv' /\ JobInv' /\ ToldInv'
<1>0. /\ StoreInv /\ JobInv /\ ToldInv /\ expired \subseteq expired'
      /\ UNCHANGED <<alarmState, workers, stored, writer, waiting, unsaved, faults,
                     notified, confirmed>>
  BY DEF RowsInv, ShelfExpires, storeVars, historyVars, boundVars
<1>2. StoreInv'
  <2>1. /\ Before(stored, writer.rows)  => Before(stored', writer'.rows)
        /\ Before(writer.rows, alarmState) => Before(writer'.rows, alarmState')
        /\ Before(writer.rows, unsaved) => Before(writer'.rows, unsaved')
        /\ Before(unsaved, alarmState) => Before(unsaved', alarmState')
        /\ Before(stored, alarmState) => Before(stored', alarmState')
    BY <1>0
  <2> QED BY <1>0, <2>1 DEF StoreInv, Before
<1>3. Queue' = Queue /\ \A v : Cover(v)' = Cover(v)
  BY <1>0 DEF Queue, Cover
<1>4. JobInv'
  <2>1. ASSUME NEW v \in Workers, workers'[v] # Idle
        PROVE  Job1(v)'
    <3>1. Job1(v)
      BY <1>0, <2>1 DEF JobInv
    <3> QED BY <1>0, <1>3, <3>1 DEF Job1, Past, Holds, Notice
  <2> QED BY <1>0, <2>1 DEF JobInv, Notice
<1>5. ToldInv'
  BY <1>0 DEF ToldInv, Past, Answered
<1> QED BY <1>2, <1>4, <1>5

LEMMA NotifyRows ==
  ASSUME RowsInv, NEW w \in Workers, Notify(w)
  PROVE  StoreInv' /\ JobInv' /\ ToldInv'
<1>0. /\ TypeInv /\ StoreInv /\ JobInv /\ ToldInv /\ WorkersOK
      /\ workers[w] # Idle /\ workers[w].does = "raise" /\ workers[w].at = "saved"
      /\ workers' = [workers EXCEPT ![w].at = "notifying"]
      /\ notified' = notified \cup {Notice(workers[w])}
      /\ UNCHANGED <<alarmState, stored, writer, waiting, unsaved, expired, faults, confirmed>>
  BY TypeParts DEF RowsInv, Notify, At, Notice, storeVars, boundVars
<1>1. StoreInv'
  BY <1>0 DEF StoreInv, Before
<1>2. Queue' = Queue /\ \A v : Cover(v)' = Cover(v)
  BY <1>0 DEF Queue, Cover
<1>3. \A v \in Workers : workers[v] # Idle => workers[v] \in Worker
  BY <1>0 DEF WorkersOK
<1>4. Job1(w)
  BY <1>0 DEF JobInv
<1>5. ASSUME NEW v \in Workers, workers'[v] # Idle
      PROVE  /\ workers[v] # Idle
             /\ workers'[v].does = workers[v].does /\ workers'[v].alarm = workers[v].alarm
             /\ workers'[v].occurrence = workers[v].occurrence
             /\ workers'[v].at = IF v = w THEN "notifying" ELSE workers[v].at
  BY <1>0, <1>3, <1>5 DEF WorkersOK, Worker
<1>6. ASSUME NEW v \in Workers, workers'[v] # Idle
      PROVE  Job1(v)'
  <2>1. Job1(v)
    BY <1>0, <1>5, <1>6 DEF JobInv
  <2>2. CASE v = w
    BY <1>0, <1>2, <1>5, <1>6, <2>1, <2>2 DEF Job1, Past, Holds, Notice
  <2>3. CASE v # w
    <3>1. workers'[v] = workers[v]
      BY <1>0, <2>3 DEF WorkersOK
    <3>2. workers[v].does = "raise" => Notice(workers[v]) # Notice(workers[w])
      BY <1>0, <1>5, <1>6, <2>3 DEF JobInv
    <3> QED BY <1>0, <1>2, <2>1, <3>1, <3>2 DEF Job1, Past, Holds, Notice
  <2> QED BY <2>2, <2>3
<1>7. JobInv'
  <2>1. ASSUME NEW u \in Workers, NEW v \in Workers, u # v,
               workers'[u] # Idle, workers'[v] # Idle,
               workers'[u].does = "raise", workers'[v].does = "raise"
        PROVE  Notice(workers'[u]) # Notice(workers'[v])
    BY <1>0, <1>5, <2>1 DEF JobInv, Notice
  <2> QED BY <1>6, <2>1 DEF JobInv, Notice
<1>8. ToldInv'
  <2>1. faults = 0 => Past(stored[workers[w].alarm], workers[w].occurrence)
    BY <1>0, <1>4 DEF Job1, Holds
  <2> QED BY <1>0, <2>1 DEF ToldInv, Past, Answered, Notice
<1> QED BY <1>1, <1>7, <1>8

LEMMA AnswerRows ==
  ASSUME RowsInv, NEW w \in Workers, ActAnswered(w)
  PROVE  StoreInv' /\ JobInv' /\ ToldInv'
<1>0. /\ TypeInv /\ StoreInv /\ JobInv /\ ToldInv /\ WorkersOK
      /\ alarmState \in Rows
      /\ workers[w] # Idle /\ workers[w].does \in {"ack", "shelve"} /\ workers[w].at = "saved"
      /\ workers' = [workers EXCEPT ![w] = Idle]
      /\ confirmed' = confirmed \cup {<<workers[w].does, workers[w].alarm>>}
      /\ UNCHANGED <<alarmState, stored, storeVars, expired, faults, notified>>
  BY TypeParts DEF RowsInv, ActAnswered, At, storeVars, boundVars
<1>1. Job1(w)
  BY <1>0 DEF JobInv
<1>2. w \notin Queue
  BY <1>0, <1>1 DEF Job1
<1>3. Advances(w)
  <2>1. Before(alarmState, alarmState')
    BY <1>0, BeforeSelf
  <2>2. workers'[w] = Idle /\ \A v \in Workers \ {w} : Continues(v)
    BY <1>0 DEF WorkersOK, Continues
  <2> QED BY <1>0, <2>1, <2>2 DEF Advances
<1>4. StoreInv' /\ JobInv'
  BY <1>0, <1>2, <1>3, AdvanceRows
<1>5. ToldInv'
  <2>1. faults = 0 => Answered(stored[workers[w].alarm], workers[w].does, workers[w].alarm)
    BY <1>0, <1>1 DEF Job1, Holds, Answered
  <2> QED BY <1>0, <2>1 DEF ToldInv, Past, Answered
<1> QED BY <1>4, <1>5

LEMMA RestartRows ==
  ASSUME RowsInv, Restart
  PROVE  StoreInv' /\ JobInv' /\ ToldInv'
<1>0. /\ TypeInv /\ ToldInv /\ stored \in Rows
      /\ alarmState' = stored /\ workers' = [w \in Workers |-> Idle]
      /\ writer' = NoSave /\ waiting' = {} /\ unsaved' = NoSave
      /\ UNCHANGED <<stored, expired, faults, notified, confirmed>>
  BY TypeParts DEF RowsInv, Restart, SavesOK
<1>1. Before(stored', alarmState')
  BY <1>0, BeforeSelf
<1>2. StoreInv'
  BY <1>0, <1>1 DEF StoreInv, Before
<1>3. JobInv'
  BY <1>0 DEF JobInv
<1> QED BY <1>0, <1>2, <1>3, KeptTold

LEMMA ActRows ==
  ASSUME RowsInv, NEW a \in Alarms, AckAlarm(a) \/ ShelveAlarm(a)
  PROVE  Advances(NewWorker)
<1>0. /\ TypeInv /\ alarmState[a] \in Row
  BY TypeParts DEF RowsInv, Rows
<1>1. CASE AckAlarm(a)
  <2>1. PICK row : row = [alarmState[a] EXCEPT !.acked = TRUE]
    OBVIOUS
  <2>2. /\ row \in Row /\ row.occurrence = alarmState[a].occurrence /\ row.acked
        /\ row.active = alarmState[a].active /\ row.shelved = alarmState[a].shelved
    BY <1>0, <2>1 DEF Row
  <2>3. Acts("ack", a, row)
    BY <1>1, <2>1 DEF AckAlarm
  <2> QED BY <1>0, <2>2, <2>3, StartAdvances DEF Acts, historyVars
<1>2. CASE ShelveAlarm(a)
  <2>1. PICK row : row = [alarmState[a] EXCEPT !.shelved = TRUE]
    OBVIOUS
  <2>2. /\ row \in Row /\ row.occurrence = alarmState[a].occurrence /\ row.shelved
        /\ row.active = alarmState[a].active /\ row.acked = alarmState[a].acked
    BY <1>0, <2>1 DEF Row
  <2>3. Acts("shelve", a, row)
    BY <1>2, <2>1 DEF ShelveAlarm
  <2> QED BY <1>0, <2>2, <2>3, StartAdvances DEF Acts, historyVars
<1> QED BY <1>1, <1>2

LEMMA WakeRows ==
  ASSUME RowsInv, NEW a \in Alarms, Wakes(a), Evaluates(a) /\ ~alarmState[a].active
  PROVE  CanStart /\ Advances(NewWorker)
<1>0. /\ TypeInv /\ alarmState[a] \in Row
  BY TypeParts DEF RowsInv, Rows
<1>1. PICK row : row = Raised(alarmState[a])
  OBVIOUS
<1>2. /\ row \in Row /\ row.occurrence = alarmState[a].occurrence /\ row.active
      /\ row.acked = alarmState[a].acked /\ row.shelved = alarmState[a].shelved
  BY <1>0, <1>1, RowSteps
<1>3. /\ CanStart /\ AsyncSave(NewWorker) /\ UNCHANGED <<expired, faults, notified>>
      /\ alarmState' = [alarmState EXCEPT ![a] = row]
      /\ workers' = [workers EXCEPT ![NewWorker] = Job("raise", a, FALSE, value, TRUE)]
  BY <1>0, <1>1 DEF Wakes, historyVars, boundVars
<1> QED BY <1>0, <1>2, <1>3, StartAdvances

LEMMA InitRows == Init => StoreInv /\ JobInv /\ ToldInv
<1> SUFFICES ASSUME Init PROVE StoreInv /\ JobInv /\ ToldInv
  OBVIOUS
<1>1. Fresh \in Rows
  BY DEF Fresh, Rows, Row
<1>2. Before(stored, alarmState)
  BY <1>1, BeforeSelf DEF Init
<1> QED BY <1>2 DEF Init, StoreInv, JobInv, ToldInv

LEMMA StepRows == RowsInv /\ [Next]_alarmVars => RowsInv'
<1> SUFFICES ASSUME RowsInv, [Next]_alarmVars PROVE RowsInv'
  OBVIOUS
<1>0. TypeInv /\ StoreInv /\ JobInv /\ ToldInv
  BY DEF RowsInv
<1>1. TypeInv' /\ alarmState' \in Rows
  <2>1. TypeInv'
    BY <1>0, StepTypes
  <2> QED BY <2>1 DEF TypeInv, TypeOK
<1> SUFFICES StoreInv' /\ JobInv' /\ ToldInv'
  BY <1>1 DEF RowsInv
<1>2. ASSUME NEW w \in Workers \ Queue, Advances(w), confirmed' = confirmed
      PROVE  StoreInv' /\ JobInv' /\ ToldInv'
  <2>1. StoreInv' /\ JobInv' /\ stored' = stored
    BY <1>1, <1>2, AdvanceRows
  <2> QED BY <1>0, <1>2, <2>1, KeptTold DEF Advances
<1>3. CanStart => NewWorker \in Workers \ Queue
  BY NewIsFree
<1>4. ASSUME NEW w \in Workers, ClearSaved(w) \/ Delivered(w)
      PROVE  StoreInv' /\ JobInv' /\ ToldInv'
  <2>1. /\ GoesOn(w) /\ workers[w] # Idle /\ workers[w].at # "saving"
        /\ UNCHANGED <<expired, faults, notified, confirmed>>
    BY <1>4 DEF ClearSaved, Delivered, At, boundVars
  <2>2. w \notin Queue
    BY <1>0, <2>1 DEF JobInv, Job1
  <2> QED BY <1>0, <1>2, <2>1, <2>2, GoesOnAdvances
<1>5. ASSUME NEW w \in Workers, Notify(w)
      PROVE  StoreInv' /\ JobInv' /\ ToldInv'
  BY <1>5, NotifyRows
<1>6. ASSUME NEW w \in Workers, ActAnswered(w)
      PROVE  StoreInv' /\ JobInv' /\ ToldInv'
  BY <1>6, AnswerRows
<1>7. ASSUME NEW a \in Alarms, Wakes(a)
      PROVE  StoreInv' /\ JobInv' /\ ToldInv'
  <2>1. UNCHANGED <<expired, faults, notified, confirmed>>
    BY <1>7 DEF Wakes, historyVars, boundVars
  <2>2. CASE Evaluates(a) /\ ~alarmState[a].active
    BY <1>2, <1>3, <1>7, <2>1, <2>2, WakeRows
  <2>3. CASE ~(Evaluates(a) /\ ~alarmState[a].active)
    <3>1. UNCHANGED <<alarmState, workers, storeVars>>
      BY <1>7, <2>3 DEF Wakes
    <3> QED BY <1>0, <2>1, <3>1, KeptRows
  <2> QED BY <2>2, <2>3
<1>8. CASE Started \/ GraceEnds \/ UNCHANGED alarmVars
  <2>1. UNCHANGED <<alarmState, workers, storeVars, expired, faults, notified, confirmed>>
    BY <1>8 DEF Started, GraceEnds, alarmVars, historyVars, boundVars
  <2> QED BY <1>0, <2>1, KeptRows
<1>9. CASE SaveLands
  BY <1>9, SaveNext DEF SaveLands, Landed, historyVars, boundVars
<1>10. CASE SaveLost
  BY <1>10, SaveNext DEF SaveLost, historyVars
<1>11. ASSUME NEW v \in Values, Reports(v)
       PROVE  StoreInv' /\ JobInv' /\ ToldInv'
  <2>1. /\ CanStart /\ ScanFrom(NewWorker, 1, v)
        /\ UNCHANGED <<expired, faults, notified, confirmed>>
    BY <1>11 DEF Reports
  <2>2. Advances(NewWorker)
    BY <1>0, <1>3, <2>1, ScanAdvances
  <2> QED BY <1>2, <1>3, <2>1, <2>2
<1>12. ASSUME NEW a \in Alarms, AckAlarm(a) \/ ShelveAlarm(a)
       PROVE  StoreInv' /\ JobInv' /\ ToldInv'
  <2>1. CanStart /\ confirmed' = confirmed
    BY <1>12 DEF AckAlarm, ShelveAlarm, Acts, historyVars
  <2> QED BY <1>2, <1>3, <1>12, <2>1, ActRows
<1>13. ASSUME NEW a \in Alarms, ShelfExpires(a)
       PROVE  StoreInv' /\ JobInv' /\ ToldInv'
  BY <1>13, ExpiryRows
<1>14. CASE Restart
  BY <1>14, RestartRows
<1> QED BY <1>4, <1>5, <1>6, <1>7, <1>8, <1>9, <1>10, <1>11, <1>12, <1>13, <1>14
        DEF Next, EngineNext

LEMMA RowsHold == Spec => []RowsInv
<1>1. Init => RowsInv
  BY InitTypes, InitRows DEF RowsInv
<1> QED BY <1>1, StepRows, PTL DEF Spec

\* However many changes, sleepers, operators and restarts meet, one occurrence
\* of an alarm is sent to the notify service at most once (alarm_transition
\* and _notify_alarm, __init__.py), as long as the Store loses no write.
THEOREM OneNoticeHolds == Spec => OneNoticePerOccurrence
<1>1. ASSUME RowsInv, RowsInv', [Next]_alarmVars
      PROVE  \A w \in Workers :
                faults = 0 /\ workers[w] # Idle
                   /\ workers'[w] = [workers[w] EXCEPT !.at = "notifying"]
                   /\ workers[w].at # "notifying"
                => <<workers[w].alarm, workers[w].occurrence>> \notin notified
  <2> SUFFICES ASSUME NEW w \in Workers, faults = 0, workers[w] # Idle,
                      workers'[w] = [workers[w] EXCEPT !.at = "notifying"],
                      workers[w].at # "notifying"
               PROVE  Notice(workers[w]) \notin notified
    BY DEF Notice
  <2>1. workers[w] \in Worker /\ workers'[w] \in Worker
    <3>1. workers[w] \in Worker
      BY <1>1, TypeParts DEF RowsInv, WorkersOK
    <3> QED BY <3>1 DEF Worker
  <2>2. workers'[w] # Idle /\ workers'[w].at = "notifying" /\ workers'[w].does = workers[w].does
    BY <2>1, AlarmAssumption DEF Worker
  <2>3. workers[w].does = "raise"
    BY <1>1, <2>2 DEF RowsInv, JobInv, Job1
  <2> QED BY <1>1, <2>3 DEF RowsInv, JobInv, Job1
<1> QED BY <1>1, RowsHold, PTL DEF Spec, OneNoticePerOccurrence

\* An acknowledgement that was answered is on disk and survives every restart,
\* and so does a shelf for as long as it lasts (ack_alarm and shelve_alarm with
\* the save they await, __init__.py).
THEOREM ActsSurvive == Spec => []ConfirmedActsSurvive
<1>1. RowsInv => ConfirmedActsSurvive
  <2> SUFFICES ASSUME RowsInv, faults = 0, NEW c \in confirmed
               PROVE  Answered(alarmState[c[2]], c[1], c[2])
    BY DEF ConfirmedActsSurvive, Answered
  <2>1. /\ Answered(stored[c[2]], c[1], c[2]) /\ Before(stored, alarmState)
        /\ stored \in Rows /\ alarmState \in Rows
        /\ c \in {"ack", "shelve"} \X Alarms
    BY TypeParts DEF RowsInv, ToldInv, StoreInv, SavesOK, ToldOK
  <2> QED BY <2>1, HoldsLater
<1> QED BY <1>1, RowsHold, PTL

-----------------------------------------------------------------------------
(* The rows and the plant *)

ScanContext(w, k, raw) ==
    \/ value' = raw /\ k = 1
    \/ /\ value' = value /\ raw # "gone"
       /\ workers[w] # Idle /\ workers[w].scan /\ k = workers[w].alarm + 1

LEMMA ScanPlant ==
  ASSUME NEW w \in Workers, NEW k \in Nat \ {0}, NEW raw \in Values, PlantsInv,
         ScanFrom(w, k, raw), ScanContext(w, k, raw)
  PROVE  TaskInv' /\ PlantInv' /\ (sleeping \cap broken \subseteq rearmed)'
<1>0. /\ TypeInv /\ TaskInv /\ PlantInv /\ sleeping \cap broken \subseteq rearmed
      /\ N \in Nat /\ alarmState \in Rows /\ WorkersOK
  BY AlarmAssumption, TypeParts DEF PlantsInv
<1>1. PICK S, T : Extent(k, S, T, raw) /\ Scanned(w, S, T, raw)
  BY <1>0, ScanExtent
<1>2. /\ S \subseteq Alarms /\ T \subseteq S
      /\ T # {} => T = {CHOOSE a \in T : TRUE} /\ Turns(CHOOSE a \in T : TRUE, raw)
  BY <1>0, <1>1, ExtentTypes
<1>3. /\ \A a \in Alarms \ S : alarmState'[a] = alarmState[a]
      /\ \A a \in Alarms \ T : alarmState'[a].active = alarmState[a].active
      /\ \A a \in T : alarmState'[a].active = (raw = "alarm")
  <2>1. \A a \in Alarms : alarmState[a] \in Row
    BY <1>0 DEF Rows
  <2>2. ASSUME NEW a \in Alarms \ S
        PROVE  alarmState'[a] = alarmState[a]
    BY <1>1, <1>2, <2>2 DEF Scanned, Starts
  <2>3. ASSUME NEW a \in Alarms \ T
        PROVE  alarmState'[a].active = alarmState[a].active
    <3>1. alarmState'[a] \in {alarmState[a], Anchored(alarmState[a])}
      BY <1>1, <2>3 DEF Scanned, Anchored
    <3> QED BY <2>1, <3>1, RowSteps
  <2>4. ASSUME NEW a \in T
        PROVE  alarmState'[a].active = (raw = "alarm")
    <3>1. Turns(a, raw) /\ a \in Alarms
      BY <1>2, <2>4
    <3>2. a \notin Starts(S, raw)
      BY <3>1 DEF Turns, Starts
    <3>3. alarmState'[a] = IF raw = "alarm" THEN Raised(alarmState[a]) ELSE Cleared(alarmState[a])
      BY <1>1, <2>4, <3>1, <3>2 DEF Scanned
    <3>4. Raised(alarmState[a]).active /\ Cleared(alarmState[a]).active = FALSE
      BY DEF Raised, Cleared
    <3>5. Raised(alarmState[a]).active = TRUE
      BY <2>1, <3>1 DEF Raised, Row
    <3> QED BY <3>3, <3>4, <3>5
  <2> QED BY <2>2, <2>3, <2>4
<1>4. \A v \in Workers \ {w} : workers[v] # Idle /\ workers[v].scan => workers'[v] = workers[v]
  BY <1>0, <1>1 DEF TaskInv, Scanned, TasksOf
<1>5. T # {} => \E s \in Alarms : /\ T = {s} /\ Turns(s, raw) /\ workers'[w] # Idle
                                  /\ workers'[w].scan /\ workers'[w].alarm = s
                                  /\ workers'[w].raw = raw /\ ~workers'[w].task
                                  /\ workers'[w].does \in {"raise", "clear"}
  <2> SUFFICES ASSUME T # {}
               PROVE  \E s \in Alarms : /\ T = {s} /\ Turns(s, raw) /\ workers'[w] # Idle
                                        /\ workers'[w].scan /\ workers'[w].alarm = s
                                        /\ workers'[w].raw = raw /\ ~workers'[w].task
                                        /\ workers'[w].does \in {"raise", "clear"}
    OBVIOUS
  <2>1. PICK s : s = CHOOSE a \in T : TRUE
    OBVIOUS
  <2>2. s \in Alarms /\ T = {s} /\ Turns(s, raw)
    BY <1>2, <2>1
  <2>3. PICK does \in {"raise", "clear"} : does = IF raw = "alarm" THEN "raise" ELSE "clear"
    OBVIOUS
  <2>4. workers'[w] = Job(does, s, TRUE, raw, FALSE)
    BY <1>1, <2>1, <2>3 DEF Scanned
  <2>5. workers'[w] # Idle
    BY <1>0, <2>2, <2>4, JobType, AlarmAssumption
  <2> QED BY <2>2, <2>4, <2>5 DEF Job
<1>6. TaskInv'
  <2> SUFFICES ASSUME NEW v \in Workers, workers'[v] # Idle
               PROVE  /\ workers'[v].scan => /\ workers'[v].raw # "gone" /\ ~workers'[v].task
                                             /\ workers'[v].does \in {"raise", "clear"}
                      /\ workers'[v].task => alarmState'[workers'[v].alarm].active
    BY DEF TaskInv
  <2>1. CASE v = w
    <3>1. T # {}
      BY <1>1, <2>1 DEF Scanned
    <3> QED BY <1>5, <2>1, <3>1 DEF Turns, Decides
  <2>2. CASE v # w
    <3>1. /\ v \notin TasksOf(Off(S, raw))
          /\ workers'[v] \in {workers[v], [workers[v] EXCEPT !.task = FALSE]}
      BY <1>1, <2>2 DEF Scanned
    <3>2. workers[v] # Idle
      BY <1>1, <2>2 DEF Scanned, TasksOf
    <3>3. workers[v] \in Worker
      BY <1>0, <3>2 DEF WorkersOK
    <3>4. /\ workers[v].scan => /\ workers[v].raw # "gone" /\ ~workers[v].task
                                /\ workers[v].does \in {"raise", "clear"}
          /\ workers[v].task => alarmState[workers[v].alarm].active
      BY <1>0, <3>2 DEF TaskInv
    <3>5. CASE workers'[v] = [workers[v] EXCEPT !.task = FALSE]
      <4>1. /\ workers'[v].scan = workers[v].scan /\ workers'[v].raw = workers[v].raw
            /\ workers'[v].does = workers[v].does /\ ~workers'[v].task
        BY <3>3, <3>5 DEF Worker
      <4> QED BY <3>4, <4>1
    <3>6. CASE workers'[v] = workers[v]
      <4>1. workers[v].task => workers[v].alarm \notin Off(S, raw)
        BY <3>1, <3>2 DEF TasksOf
      <4>2. workers[v].alarm \in Alarms
        BY <3>3 DEF Worker
      <4>3. (workers[v].task /\ workers[v].alarm \in T) => raw = "alarm"
        BY <1>2, <4>1 DEF Off, Cancels, Turns, Decides, Values
      <4> QED BY <1>3, <3>4, <3>6, <4>2, <4>3
    <3> QED BY <3>1, <3>5, <3>6
  <2> QED BY <2>1, <2>2
<1>7. sleeping' \cap broken' \subseteq rearmed'
  <2>1. \A a \in Starts(S, raw) : raw = "alarm"
    BY DEF Starts, Pends
  <2>2. \A a \in Decided(S, raw) : raw = "normal" => a \in Off(S, raw)
    BY DEF Decided, Off, Cancels
  <2> QED BY <1>0, <1>1, <2>1, <2>2 DEF Scanned
<1>8. ASSUME NEW a \in Alarms, Known(a)'
      PROVE  /\ value' = "normal" => ~alarmState'[a].active
             /\ (value' = "alarm" /\ a \notin sleeping') => alarmState'[a].active
  <2>0. value' # "gone" /\ a \notin withheld' /\ a \notin stale' /\ ~Pending(a)'
    BY <1>8 DEF Known
  <2>1. CASE a \in S
    <3>1. Decides(a, raw) /\ raw = value' /\ raw \in {"normal", "alarm"}
      <4>1. raw # "gone"
        BY <2>0 DEF ScanContext
      <4>2. Decides(a, raw)
        BY <1>1, <2>0, <2>1, <4>1 DEF Scanned
      <4>3. raw = value'
        BY <1>1, <2>0, <2>1, <4>2 DEF Scanned
      <4> QED BY <4>1, <4>2, <4>3 DEF Values
    <3>2. CASE a \in T
      BY <1>3, <3>1, <3>2
    <3>3. CASE a \notin T
      <4>1. ~Turns(a, raw)
        BY <1>1, <2>1, <3>3 DEF Extent
      <4>2. alarmState'[a].active = alarmState[a].active /\ alarmState[a].active \in BOOLEAN
        BY <1>0, <1>3, <3>3 DEF Rows, Row
      <4>3. CASE ~Pends(a, raw)
        BY <3>1, <4>1, <4>2, <4>3 DEF Turns
      <4>4. CASE Pends(a, raw)
        <5>1. raw = "alarm" /\ ~alarmState[a].active
          BY <4>4 DEF Pends
        <5>2. a \notin Off(S, raw)
          BY <5>1 DEF Off, Cancels
        <5>3. a \in sleeping'
          <6>1. CASE Registered(a)
            <7>1. TasksOf({a}) = {}
              BY <1>0, <5>1 DEF TaskInv, TasksOf
            <7> QED BY <1>1, <5>2, <6>1, <7>1 DEF Registered, Scanned
          <6>2. CASE ~Registered(a)
            BY <1>1, <2>1, <4>4, <6>2 DEF Starts, Scanned
          <6> QED BY <6>1, <6>2
        <5> QED BY <3>1, <5>1, <5>3
      <4> QED BY <4>3, <4>4
    <3> QED BY <3>2, <3>3
  <2>2. CASE a \notin S
    <3>1. a < k
      <4>1. CASE T = {}
        BY <1>0, <1>1, <2>2, <4>1 DEF Extent, Alarms
      <4>2. CASE T # {}
        <5>1. PICK s \in Alarms : /\ T = {s} /\ workers'[w] # Idle
                                  /\ workers'[w].scan /\ workers'[w].alarm = s
          BY <1>5, <4>2
        <5>2. ~(s < a)
          BY <2>0, <5>1 DEF Pending
        <5>3. S = k..s
          BY <1>1, <5>1 DEF Extent
        <5> QED BY <1>0, <2>2, <5>2, <5>3 DEF Alarms
      <4> QED BY <4>1, <4>2
    <3>2. /\ value' = value /\ raw # "gone"
          /\ workers[w] # Idle /\ workers[w].scan /\ k = workers[w].alarm + 1
      BY <3>1 DEF ScanContext, Alarms
    <3>3. ~Pending(a)
      <4> SUFFICES ASSUME NEW u \in Workers, workers[u] # Idle, workers[u].scan,
                          workers[u].alarm < a
                   PROVE  FALSE
        BY DEF Pending
      <4>1. u # w
        <5>1. workers[w].alarm \in Nat
          BY <1>0, <3>2 DEF WorkersOK, Worker, Alarms
        <5> QED BY <3>1, <3>2, <5>1 DEF Alarms
      <4>2. workers'[u] = workers[u]
        BY <1>4, <4>1
      <4> QED BY <2>0, <4>2 DEF Pending
    <3>4. /\ a \in withheld' <=> a \in withheld
          /\ a \in stale' <=> a \in stale
          /\ a \in sleeping' <=> a \in sleeping
      BY <1>1, <2>2, <3>2 DEF Scanned, Starts, Off
    <3>5. Known(a)
      BY <2>0, <3>2, <3>3, <3>4 DEF Known
    <3> QED BY <1>0, <1>3, <2>2, <3>2, <3>4, <3>5 DEF PlantInv
  <2> QED BY <2>1, <2>2
<1>9. PlantInv'
  BY <1>8 DEF PlantInv
<1> QED BY <1>6, <1>7, <1>9

\* a step that reports nothing, scans nothing and clears nothing
Keeps ==
    /\ UNCHANGED <<value, withheld, stale>>
    /\ \A a \in Alarms :
          /\ alarmState[a].active => alarmState'[a].active
          /\ (value = "normal" /\ alarmState'[a].active) => alarmState[a].active
          /\ (value = "alarm" /\ a \in sleeping \ sleeping') => alarmState'[a].active
    /\ \A v \in Workers :
          /\ (workers[v] # Idle /\ workers[v].scan)
                => /\ workers'[v] # Idle /\ workers'[v].scan
                   /\ workers'[v].alarm = workers[v].alarm
          /\ workers'[v] # Idle =>
                \/ /\ workers[v] # Idle /\ workers'[v].alarm = workers[v].alarm
                   /\ workers'[v].scan = workers[v].scan /\ workers'[v].raw = workers[v].raw
                   /\ workers'[v].task = workers[v].task /\ workers'[v].does = workers[v].does
                \/ /\ ~workers'[v].scan
                   /\ workers'[v].task => alarmState'[workers'[v].alarm].active

LEMMA KeepsPlant ==
  ASSUME PlantsInv, Keeps
  PROVE  TaskInv' /\ PlantInv'
<1>0. TaskInv /\ PlantInv /\ WorkersOK
  BY TypeParts DEF PlantsInv
<1>1. TaskInv'
  <2> SUFFICES ASSUME NEW v \in Workers, workers'[v] # Idle
               PROVE  /\ workers'[v].scan => /\ workers'[v].raw # "gone" /\ ~workers'[v].task
                                             /\ workers'[v].does \in {"raise", "clear"}
                      /\ workers'[v].task => alarmState'[workers'[v].alarm].active
    BY DEF TaskInv
  <2>1. CASE /\ workers[v] # Idle /\ workers'[v].alarm = workers[v].alarm
             /\ workers'[v].scan = workers[v].scan /\ workers'[v].raw = workers[v].raw
             /\ workers'[v].task = workers[v].task /\ workers'[v].does = workers[v].does
    <3>1. workers[v].alarm \in Alarms
      BY <1>0, <2>1 DEF WorkersOK, Worker
    <3> QED BY <1>0, <2>1, <3>1 DEF TaskInv, Keeps
  <2>2. CASE /\ ~workers'[v].scan
             /\ workers'[v].task => alarmState'[workers'[v].alarm].active
    BY <2>2
  <2> QED BY <2>1, <2>2 DEF Keeps
<1>2. ASSUME NEW a \in Alarms, Known(a)'
      PROVE  /\ value' = "normal" => ~alarmState'[a].active
             /\ (value' = "alarm" /\ a \notin sleeping') => alarmState'[a].active
  <2>1. Pending(a) => Pending(a)'
    BY DEF Keeps, Pending
  <2>2. Known(a) /\ value' = value
    BY <1>2, <2>1 DEF Known, Keeps
  <2> QED BY <1>0, <2>2 DEF PlantInv, Keeps
<1>3. PlantInv'
  BY <1>2 DEF PlantInv
<1> QED BY <1>1, <1>3

LEMMA JobKeeps ==
  ASSUME PlantsInv, CanStart, NEW a \in Alarms, NEW does, NEW task \in BOOLEAN, NEW row,
         workers' = [workers EXCEPT ![NewWorker] = Job(does, a, FALSE, value, task)],
         alarmState' = [alarmState EXCEPT ![a] = row],
         alarmState[a].active => row.active,
         (value = "normal" /\ row.active) => alarmState[a].active,
         (value = "alarm" /\ a \notin sleeping') => (a \notin sleeping \/ row.active),
         sleeping \ sleeping' \subseteq {a},
         task => row.active,
         UNCHANGED <<value, withheld, stale>>
  PROVE  Keeps
<1>0. alarmState \in Rows /\ WorkersOK
  BY TypeParts DEF PlantsInv
<1>1. NewWorker \in Workers /\ workers[NewWorker] = Idle
  BY NewIsFree DEF Free
<1>2. alarmState'[a] = row /\ \A b \in Alarms \ {a} : alarmState'[b] = alarmState[b]
  BY <1>0 DEF Rows
<1>3. /\ \A v \in Workers \ {NewWorker} : workers'[v] = workers[v]
      /\ workers'[NewWorker] = Job(does, a, FALSE, value, task)
  BY <1>0, <1>1 DEF WorkersOK
<1>4. LET j == Job(does, a, FALSE, value, task) IN j.scan = FALSE /\ j.task = task /\ j.alarm = a
  BY DEF Job
<1>5. ASSUME NEW b \in Alarms
      PROVE  /\ alarmState[b].active => alarmState'[b].active
             /\ (value = "normal" /\ alarmState'[b].active) => alarmState[b].active
             /\ (value = "alarm" /\ b \in sleeping \ sleeping') => alarmState'[b].active
  BY <1>2
<1>6. ASSUME NEW v \in Workers
      PROVE  /\ (workers[v] # Idle /\ workers[v].scan)
                   => /\ workers'[v] # Idle /\ workers'[v].scan
                      /\ workers'[v].alarm = workers[v].alarm
             /\ workers'[v] # Idle =>
                   \/ /\ workers[v] # Idle /\ workers'[v].alarm = workers[v].alarm
                      /\ workers'[v].scan = workers[v].scan /\ workers'[v].raw = workers[v].raw
                      /\ workers'[v].task = workers[v].task /\ workers'[v].does = workers[v].does
                   \/ /\ ~workers'[v].scan
                      /\ workers'[v].task => alarmState'[workers'[v].alarm].active
  <2>1. CASE v = NewWorker
    BY <1>1, <1>2, <1>3, <1>4, <2>1
  <2>2. CASE v # NewWorker
    BY <1>3, <2>2
  <2> QED BY <2>1, <2>2
<1> QED BY <1>5, <1>6 DEF Keeps

LEMMA InitPlants == Init => TaskInv /\ PlantInv /\ sleeping \cap broken \subseteq rearmed
BY DEF Init, TaskInv, PlantInv, Known

LEMMA StepPlants == PlantsInv /\ [Next]_alarmVars => PlantsInv'
<1> SUFFICES ASSUME PlantsInv, [Next]_alarmVars PROVE PlantsInv'
  OBVIOUS
<1>0. /\ TypeInv /\ TaskInv /\ PlantInv /\ sleeping \cap broken \subseteq rearmed
      /\ WorkersOK /\ alarmState \in Rows /\ TypeInv'
  BY TypeParts, StepTypes DEF PlantsInv
<1> SUFFICES TaskInv' /\ PlantInv' /\ (sleeping \cap broken \subseteq rearmed)'
  BY <1>0 DEF PlantsInv
<1>1. ASSUME NEW w \in Workers, ClearSaved(w) \/ Delivered(w)
      PROVE  TaskInv' /\ PlantInv' /\ (sleeping \cap broken \subseteq rearmed)'
  <2>1. GoesOn(w) /\ workers[w] # Idle /\ value' = value
    BY <1>1 DEF ClearSaved, Delivered, At
  <2>2. workers[w] \in Worker
    BY <1>0, <2>1 DEF WorkersOK
  <2>3. CASE workers[w].scan
    <3>1. PICK k : k = workers[w].alarm + 1
      OBVIOUS
    <3>2. PICK raw : raw = workers[w].raw
      OBVIOUS
    <3>3. k \in Nat \ {0} /\ raw \in Values /\ raw # "gone"
      BY <1>0, <2>1, <2>2, <2>3, <3>1, <3>2 DEF Worker, Alarms, TaskInv
    <3>4. ScanFrom(w, k, raw)
      BY <2>1, <2>3, <3>1, <3>2 DEF GoesOn
    <3>5. ScanContext(w, k, raw)
      BY <2>1, <2>3, <3>1, <3>3 DEF ScanContext
    <3> QED BY <3>3, <3>4, <3>5, ScanPlant
  <2>4. CASE ~workers[w].scan
    <3>1. /\ workers' = [workers EXCEPT ![w] = Idle]
          /\ UNCHANGED <<alarmState, sleeping, withheld, stale, broken, rearmed>>
      BY <2>1, <2>4 DEF GoesOn
    <3>2. \A v \in Workers : workers'[v] = IF v = w THEN Idle ELSE workers[v]
      BY <1>0, <3>1 DEF WorkersOK
    <3>3. Keeps
      BY <2>1, <2>4, <3>1, <3>2 DEF Keeps
    <3> QED BY <1>0, <3>1, <3>3, KeepsPlant
  <2> QED BY <2>3, <2>4
<1>2. ASSUME NEW w \in Workers, Notify(w)
      PROVE  TaskInv' /\ PlantInv' /\ (sleeping \cap broken \subseteq rearmed)'
  <2>1. /\ workers[w] # Idle /\ workers' = [workers EXCEPT ![w].at = "notifying"]
        /\ UNCHANGED <<value, alarmState, sleeping, withheld, stale, broken, rearmed>>
    BY <1>2 DEF Notify, At
  <2>2. workers[w] \in Worker
    BY <1>0, <2>1 DEF WorkersOK
  <2>3. \A v \in Workers : workers'[v] = IF v = w THEN [workers[w] EXCEPT !.at = "notifying"]
                                                  ELSE workers[v]
    BY <1>0, <2>1 DEF WorkersOK
  <2>4. PICK j : j = [workers[w] EXCEPT !.at = "notifying"]
    OBVIOUS
  <2>5. /\ j \in Worker /\ j # Idle /\ j.alarm = workers[w].alarm
        /\ j.scan = workers[w].scan /\ j.raw = workers[w].raw /\ j.task = workers[w].task
        /\ j.does = workers[w].does
    <3>1. /\ j \in Worker /\ j.alarm = workers[w].alarm
          /\ j.scan = workers[w].scan /\ j.raw = workers[w].raw /\ j.task = workers[w].task
          /\ j.does = workers[w].does
      BY <2>2, <2>4 DEF Worker
    <3> QED BY <3>1, AlarmAssumption
  <2>6. Keeps
    BY <2>1, <2>3, <2>4, <2>5 DEF Keeps
  <2> QED BY <1>0, <2>1, <2>6, KeepsPlant
<1>3. ASSUME NEW w \in Workers, ActAnswered(w)
      PROVE  TaskInv' /\ PlantInv' /\ (sleeping \cap broken \subseteq rearmed)'
  <2>1. /\ workers[w] # Idle /\ workers[w].does \in {"ack", "shelve"}
        /\ workers' = [workers EXCEPT ![w] = Idle]
        /\ UNCHANGED <<value, alarmState, sleeping, withheld, stale, broken, rearmed>>
    BY <1>3 DEF ActAnswered, At
  <2>2. \A v \in Workers : workers'[v] = IF v = w THEN Idle ELSE workers[v]
    BY <1>0, <2>1 DEF WorkersOK
  <2>3. ~workers[w].scan
    BY <1>0, <2>1 DEF TaskInv
  <2>4. Keeps
    BY <2>1, <2>2, <2>3 DEF Keeps
  <2> QED BY <1>0, <2>1, <2>4, KeepsPlant

<1>4. ASSUME NEW a \in Alarms, Wakes(a)
      PROVE  TaskInv' /\ PlantInv' /\ (sleeping \cap broken \subseteq rearmed)'
  <2>1. /\ sleeping' = sleeping \ {a} /\ rearmed' = rearmed \ {a}
        /\ UNCHANGED <<value, withheld, stale, broken>>
    BY <1>4 DEF Wakes
  <2>2. CASE Evaluates(a) /\ ~alarmState[a].active
    <3>1. PICK row : row = Raised(alarmState[a])
      OBVIOUS
    <3>2. row.active
      <4>1. alarmState[a] \in Row
        BY <1>0 DEF Rows
      <4> QED BY <3>1, <4>1, RowSteps
    <3>3. /\ CanStart /\ alarmState' = [alarmState EXCEPT ![a] = row]
          /\ workers' = [workers EXCEPT ![NewWorker] = Job("raise", a, FALSE, value, TRUE)]
      BY <1>0, <1>4, <2>2, <3>1 DEF Wakes
    <3>4. value # "normal"
      BY <2>2 DEF Evaluates
    <3>5. Keeps
      BY <2>1, <3>2, <3>3, <3>4, JobKeeps
    <3> QED BY <1>0, <2>1, <3>5, KeepsPlant
  <2>3. CASE ~(Evaluates(a) /\ ~alarmState[a].active)
    <3>1. UNCHANGED <<alarmState, workers>>
      BY <1>4, <2>3 DEF Wakes
    <3>2. Keeps
      BY <2>1, <2>3, <3>1 DEF Keeps, Evaluates
    <3> QED BY <1>0, <2>1, <3>2, KeepsPlant
  <2> QED BY <2>2, <2>3
<1>5. CASE Started
  <2>1. /\ UNCHANGED <<value, alarmState, workers, withheld, stale>>
        /\ sleeping \subseteq sleeping'
    BY <1>5 DEF Started
  <2>2. Keeps
    BY <2>1 DEF Keeps
  <2>3. sleeping' \cap broken' \subseteq rearmed'
    BY <1>0, <1>5 DEF Started
  <2> QED BY <2>2, <2>3, KeepsPlant
<1>6. CASE GraceEnds \/ UNCHANGED alarmVars \/ \E a \in Alarms : ShelfExpires(a)
  <2>1. UNCHANGED <<value, alarmState, workers, sleeping, withheld, stale, broken, rearmed>>
    BY <1>6 DEF GraceEnds, ShelfExpires, alarmVars, historyVars
  <2>2. Keeps
    BY <2>1 DEF Keeps
  <2> QED BY <1>0, <2>1, <2>2, KeepsPlant
<1>7. CASE SaveLands \/ SaveLost
  <2>1. /\ UNCHANGED <<value, alarmState, sleeping, withheld, stale, broken, rearmed>>
        /\ NextSave
    BY <1>7 DEF SaveLands, SaveLost, Landed, historyVars
  <2>2. ASSUME NEW v \in Workers
        PROVE  /\ workers[v] = Idle => workers'[v] = Idle
               /\ workers[v] # Idle =>
                     /\ workers'[v] # Idle
                     /\ workers'[v].alarm = workers[v].alarm /\ workers'[v].scan = workers[v].scan
                     /\ workers'[v].raw = workers[v].raw /\ workers'[v].task = workers[v].task
                     /\ workers'[v].does = workers[v].does
    <3>1. workers'[v] \in {workers[v], [workers[v] EXCEPT !.at = "saved"]}
      BY <2>1 DEF NextSave
    <3>2. workers[v] = Idle => workers'[v] = Idle
      BY <2>1 DEF NextSave
    <3>3. ASSUME workers[v] # Idle
          PROVE  /\ workers'[v] \in Worker
                 /\ workers'[v].alarm = workers[v].alarm /\ workers'[v].scan = workers[v].scan
                 /\ workers'[v].raw = workers[v].raw /\ workers'[v].task = workers[v].task
                 /\ workers'[v].does = workers[v].does
      <4>1. workers[v] \in Worker
        BY <1>0, <3>3 DEF WorkersOK
      <4> QED BY <3>1, <4>1 DEF Worker
    <3> QED BY <3>2, <3>3, AlarmAssumption
  <2>3. Keeps
    BY <2>1, <2>2 DEF Keeps
  <2> QED BY <1>0, <2>1, <2>3, KeepsPlant
<1>8. ASSUME NEW v \in Values, Reports(v)
      PROVE  TaskInv' /\ PlantInv' /\ (sleeping \cap broken \subseteq rearmed)'
  <2>1. NewWorker \in Workers /\ ScanFrom(NewWorker, 1, v) /\ value' = v
    BY <1>8, NewIsFree DEF Reports
  <2> QED BY <2>1, ScanPlant DEF ScanContext
<1>9. ASSUME NEW a \in Alarms, AckAlarm(a) \/ ShelveAlarm(a)
      PROVE  TaskInv' /\ PlantInv' /\ (sleeping \cap broken \subseteq rearmed)'
  <2>1. \E does, row : Acts(does, a, row) /\ row.active = alarmState[a].active
    <3>1. alarmState[a] \in Row
      BY <1>0 DEF Rows
    <3>2. /\ [alarmState[a] EXCEPT !.acked = TRUE].active = alarmState[a].active
          /\ [alarmState[a] EXCEPT !.shelved = TRUE].active = alarmState[a].active
      BY <3>1 DEF Row
    <3> QED BY <1>9, <3>2 DEF AckAlarm, ShelveAlarm
  <2>2. PICK does, row : Acts(does, a, row) /\ row.active = alarmState[a].active
    BY <2>1
  <2>3. /\ CanStart /\ alarmState' = [alarmState EXCEPT ![a] = row]
        /\ workers' = [workers EXCEPT ![NewWorker] = Job(does, a, FALSE, value, FALSE)]
        /\ UNCHANGED <<value, sleeping, withheld, stale, broken, rearmed>>
    BY <2>2 DEF Acts, historyVars
  <2>4. Keeps
    BY <2>2, <2>3, JobKeeps
  <2> QED BY <1>0, <2>3, <2>4, KeepsPlant
<1>10. CASE Restart
  <2>1. /\ workers' = [w \in Workers |-> Idle] /\ withheld' = Alarms /\ sleeping' = {}
    BY <1>10 DEF Restart
  <2> QED BY <2>1 DEF TaskInv, PlantInv, Known
<1> QED BY <1>1, <1>2, <1>3, <1>4, <1>5, <1>6, <1>7, <1>8, <1>9, <1>10
        DEF Next, EngineNext

LEMMA PlantsHold == Spec => []PlantsInv
<1>1. Init => PlantsInv
  BY InitTypes, InitPlants DEF PlantsInv
<1> QED BY <1>1, StepPlants, PTL DEF Spec

\* Whatever the number of its alarms and of the scans, sleepers and operators
\* that meet: at rest an alarm is active exactly if its entity is in alarm, but
\* for the values the code withheld from it or took up late
\* (process_state_change and _delayed_transition, __init__.py).
THEOREM PlantFollowed == Spec => []AlarmsFollowPlant
<1>1. PlantsInv => AlarmsFollowPlant
  <2> SUFFICES ASSUME PlantsInv, NEW a \in Alarms, Settled(a)
               PROVE  alarmState[a].active = (value = "alarm")
    BY DEF AlarmsFollowPlant
  <2>1. /\ value \in {"normal", "alarm"} /\ a \notin sleeping
        /\ \A w \in Workers : workers[w] = Idle
        /\ a \notin withheld \cup stale
    BY TypeParts DEF PlantsInv, Settled, ValuesOK, Values
  <2>2. Known(a)
    BY <2>1 DEF Known, Pending
  <2>3. alarmState[a].active \in BOOLEAN
    BY TypeParts DEF PlantsInv, Rows, Row
  <2> QED BY <2>1, <2>2, <2>3 DEF PlantsInv, PlantInv
<1> QED BY <1>1, PlantsHold, PTL

\* No delay annunciates a transient the scan has seen to be over: a normal value
\* cancels the sleeper before it can wake. Only the rest of a delay that a start
\* re-arms may, while no normal value cancelled it (process_state_change and
\* pending_from_state).
THEOREM TransientsSilent == Spec => TransientsStaySilent
<1>1. ASSUME RowsInv, PlantsInv, [Next]_alarmVars
      PROVE  \A a \in Delayed \ rearmed :
                alarmState'[a] = Raised(alarmState[a]) /\ ~alarmState[a].active => a \notin broken
  <2> SUFFICES ASSUME NEW a \in Delayed \ rearmed, ~alarmState[a].active,
                      alarmState'[a] = Raised(alarmState[a])
               PROVE  a \notin broken
    OBVIOUS
  <2>0. /\ TypeInv /\ alarmState \in Rows /\ stored \in Rows /\ a \in Alarms
        /\ sleeping \cap broken \subseteq rearmed /\ WorkersOK
    BY <1>1, TypeParts, AlarmAssumption DEF RowsInv, PlantsInv, SavesOK
  <2>1. /\ alarmState[a] \in Row /\ alarmState'[a].active
        /\ alarmState'[a].occurrence = alarmState[a].occurrence
    <3>1. alarmState[a] \in Row
      BY <2>0 DEF Rows
    <3> QED BY <3>1, RowSteps
  <2>2. ASSUME NEW w, NEW k \in Nat \ {0}, NEW raw, ScanFrom(w, k, raw)
        PROVE  FALSE
    <3>1. PICK S, T : Extent(k, S, T, raw) /\ Scanned(w, S, T, raw)
      BY <2>2, ScanExtent, AlarmAssumption
    <3>2. a \notin T
      <4> SUFFICES ASSUME a \in T PROVE FALSE
        OBVIOUS
      <4>1. Turns(a, raw)
        BY <3>1 DEF Extent
      <4>2. raw # "alarm"
        BY <4>1 DEF Turns, Pends
      <4>3. alarmState[a].active # (raw = "alarm")
        BY <4>1 DEF Turns
      <4> QED BY <2>1, <4>2, <4>3 DEF Row
    <3>3. alarmState'[a] \in {alarmState[a], Anchored(alarmState[a])}
      BY <2>0, <3>1, <3>2 DEF Scanned, Anchored
    <3> QED BY <2>1, <3>3, RowSteps
  <2>3. alarmState' # alarmState
    BY <2>1
  <2>4. ASSUME NEW w \in Workers, ClearSaved(w) \/ Delivered(w)
        PROVE  FALSE
    <3>1. GoesOn(w) /\ workers[w] \in Worker
      BY <2>0, <2>4 DEF ClearSaved, Delivered, At, WorkersOK
    <3>2. workers[w].alarm + 1 \in Nat \ {0}
      BY <3>1 DEF Worker, Alarms
    <3> QED BY <2>2, <2>3, <3>1, <3>2 DEF GoesOn
  <2>5. ASSUME NEW v \in Values, Reports(v)
        PROVE  FALSE
    BY <2>2, <2>5 DEF Reports
  <2>6. ASSUME NEW b \in Alarms, Wakes(b)
        PROVE  a \notin broken
    <3>1. b \in sleeping /\ (alarmState' = alarmState
                                \/ alarmState' = [alarmState EXCEPT ![b] = Raised(@)])
      BY <2>6 DEF Wakes
    <3>2. b = a
      BY <2>0, <2>1, <2>3, <3>1 DEF Rows
    <3> QED BY <2>0, <3>1, <3>2
  <2>7. ASSUME NEW b \in Alarms, AckAlarm(b) \/ ShelveAlarm(b)
        PROVE  FALSE
    <3>1. alarmState[b] \in Row
      BY <2>0 DEF Rows
    <3>2. \E row : /\ alarmState' = [alarmState EXCEPT ![b] = row]
                   /\ row.active = alarmState[b].active
      BY <2>7, <3>1 DEF AckAlarm, ShelveAlarm, Acts, Row
    <3> QED BY <2>0, <2>1, <3>2 DEF Rows
  <2>8. CASE Restart
    <3>1. Before(stored, alarmState) /\ alarmState' = stored
      BY <1>1, <2>8 DEF RowsInv, StoreInv, Restart
    <3> QED BY <2>0, <2>1, <3>1 DEF Before
  <2>9. \/ \E w \in Workers : Notify(w) \/ ActAnswered(w)
        \/ Started \/ GraceEnds \/ SaveLands \/ SaveLost \/ UNCHANGED alarmVars
        \/ \E b \in Alarms : ShelfExpires(b)
        => alarmState' = alarmState
    BY DEF Notify, ActAnswered, Started, GraceEnds, SaveLands, SaveLost, ShelfExpires,
           alarmVars
  <2> QED BY <1>1, <2>3, <2>4, <2>5, <2>6, <2>7, <2>8, <2>9 DEF Next, EngineNext
<1> QED BY <1>1, RowsHold, PlantsHold, PTL DEF Spec, TransientsStaySilent
=============================================================================
