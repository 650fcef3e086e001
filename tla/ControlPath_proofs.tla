------------------------- MODULE ControlPath_proofs -------------------------
(***************************************************************************)
(* Theorems about the path of a configured control and its trusted         *)
(* evidence, for any controls, retention and number of requests, failing   *)
(* saves, lost connections, restarts and rehearsals.                       *)
(***************************************************************************)
EXTENDS ControlPath, SequenceTheorems, TLAPS

Waits    == {"accepting", "recording", "closing"}
Ended    == {"closing", "closed", "over"}
Outcomes == {"timed_out", "readback_confirmed", "result_unknown"}

Reply == [call : Calls, answer : ControlStates \cup {"preview", "error"}]

\* requests whose handler waits for its save
Savers == IF writer = NoSave THEN {} ELSE waiting \cup {writer.by}

\* every copy of the evidence
Logs == {events, logFile} \cup (IF writer = NoSave THEN {} ELSE {writer.rows})

Said == UNION {{log[n] : n \in DOMAIN log} : log \in Logs}

\* the row a handler waits for
Awaited(i) ==
    Row(i, CASE calls[i].stage = "accepting" -> "accepted"
             [] calls[i].stage = "recording" -> "dispatched"
             [] OTHER                        -> calls[i].outcome)

\* the save that i waits for holds the row, as the memory does
Covered(i, row) ==
    /\ Keeps(events, row)
    /\ (writer # NoSave /\ (i = writer.by \/ (i \in waiting /\ unsaved = FALSE)))
          => Keeps(writer.rows, row)

Waiting(i) == calls[i].stage \in Waits => Covered(i, Awaited(i))

Durable(i, s) == faults = 0 => Keeps(logFile, Row(i, s))

\* What is on disk is contained in what is being written, and that in memory.
SaveInv ==
    /\ writer = NoSave => waiting = {} /\ unsaved = FALSE
    /\ writer # NoSave => /\ Len(writer.rows) <= MaxRows
                          /\ writer.by \notin waiting
                          /\ Extends(logFile, writer.rows)
                          /\ Extends(writer.rows, events)
    /\ Extends(logFile, events)

\* Who waits for a save waits for one that holds its row.
WaitInv ==
    /\ \A i \in Savers : i \in DOMAIN calls /\ calls[i].stage \in Waits
    /\ \A i \in DOMAIN calls : Waiting(i)

\* What a handler has done when it has come that far.
Progress(i) ==
    /\ calls[i].stage = "accepted" => Durable(i, "accepted")
    /\ calls[i].stage \in {"calling", "recording", "recorded", "closing", "closed"} =>
          i \in dispatched
    /\ calls[i].stage = "closed" => Durable(i, calls[i].outcome)

ProgressInv == \A i \in DOMAIN calls : Progress(i)

\* What an answer on its way promises.
Promise(reply) == reply.answer = "readback_confirmed" =>
    reply.call \in dispatched /\ Durable(reply.call, "readback_confirmed")

ReplyInv == \A n \in DOMAIN replies : Promise(replies[n])

\* A success on display is recorded.
ShownInv == ShowsSuccess =>
    /\ control.correlationId \in dispatched
    /\ Durable(control.correlationId, "readback_confirmed")

\* What the evidence claims, in any of its copies.
Claim(row) ==
    /\ row.call \in DOMAIN calls
    /\ row.result # "accepted" => row.call \in dispatched
    /\ row.result \in {"readback_confirmed", "result_unknown"} =>
          calls[row.call].stage \in Ended
    /\ row.result = "readback_confirmed" => Row(row.call, "result_unknown") \notin Said

ClaimInv == \A row \in Said : Claim(row)

\* Only an open dialog awaits anything, and only what it asked for.
DialogInv ==
    /\ control.controlId = None => control.phase = "idle" /\ asked = {} /\ replies = <<>>
    /\ asked \subseteq DOMAIN calls
    /\ \A n \in DOMAIN replies : replies[n].call \in DOMAIN calls

\* What an open dialog awaits, is told and shows as a success was asked for since
\* it was opened.
FreshInv ==
    /\ opened \in {0} \cup DOMAIN calls
    /\ \A i \in asked : i > opened
    /\ \A n \in DOMAIN replies : replies[n].call > opened
    /\ ShowsSuccess => control.correlationId > opened

\* What is being written is what could have been in memory.
WriteInv == writer # NoSave => Len(writer.rows) <= MaxRows

\* A request that is being closed has its outcome.
OutcomeInv == \A i \in DOMAIN calls :
    calls[i].stage \in {"closing", "closed"} => calls[i].outcome \in Outcomes

TypeInv == TypeOK /\ WriteInv /\ DialogInv /\ OutcomeInv

IndInv == /\ TypeInv /\ SaveInv /\ WaitInv /\ ProgressInv /\ ReplyInv /\ ClaimInv
          /\ AcceptedBeforeDispatch /\ ShownInv

-----------------------------------------------------------------------------
(* Lemmas about the log *)

LEMMA ExtendsSelf ==
  ASSUME NEW log \in Seq(Rows)
  PROVE  Extends(log, log)
<1>1. Len(log) \in Nat
  BY LenProperties
<1> QED BY <1>1 DEF Extends

LEMMA ExtendsTrans ==
  ASSUME NEW a \in Seq(Rows), NEW b \in Seq(Rows), NEW c \in Seq(Rows),
         Len(b) <= MaxRows, Len(c) <= MaxRows, Extends(a, b), Extends(b, c)
  PROVE  Extends(a, c)
<1>1. Len(a) \in Nat /\ Len(b) \in Nat /\ Len(c) \in Nat /\ MaxRows \in Nat
  BY LenProperties, EvidenceAssumption
<1>2. PICK j \in 0..Len(a) :
         /\ j <= Len(b)
         /\ \A n \in 1..j : b[Len(b) - j + n] = a[n]
         /\ j < Len(a) => Len(b) = MaxRows
  BY DEF Extends
<1>3. PICK k \in 0..Len(b) :
         /\ k <= Len(c)
         /\ \A n \in 1..k : c[Len(c) - k + n] = b[n]
         /\ k < Len(b) => Len(c) = MaxRows
  BY DEF Extends
<1> DEFINE new == Len(b) - j
           m   == k - new
<1>4. CASE k < new
  <2>1. Len(c) = MaxRows
    BY <1>1, <1>2, <1>3, <1>4
  <2>2. 0 \in 0..Len(a) /\ 0 <= Len(c) /\ \A n \in 1..0 : c[Len(c) - 0 + n] = a[n]
    BY <1>1
  <2> QED BY <2>1, <2>2 DEF Extends
<1>5. CASE k >= new
  <2>1. m \in 0..Len(a) /\ m <= j /\ m <= Len(c)
    BY <1>1, <1>2, <1>3, <1>5
  <2>2. ASSUME NEW n \in 1..m
        PROVE  c[Len(c) - m + n] = a[n]
    <3>1. new + n \in 1..k /\ n \in 1..j
      BY <1>1, <1>2, <1>3, <1>5, <2>1
    <3>2. c[Len(c) - k + (new + n)] = b[new + n]
      BY <1>3, <3>1
    <3>3. b[Len(b) - j + n] = a[n]
      BY <1>2, <3>1
    <3>4. Len(c) - k + (new + n) = Len(c) - m + n /\ Len(b) - j + n = new + n
      BY <1>1, <1>2, <1>3
    <3> QED BY <3>2, <3>3, <3>4
  <2>3. m < Len(a) => Len(c) = MaxRows
    BY <1>1, <1>2, <1>3, <1>5
  <2> HIDE DEF m
  <2> QED BY <2>1, <2>2, <2>3 DEF Extends
<1> QED BY <1>1, <1>2, <1>3, <1>4, <1>5

\* what a log holds, its extensions hold, but for the retention
LEMMA ExtendsKeeps ==
  ASSUME NEW a \in Seq(Rows), NEW b \in Seq(Rows), NEW row,
         Len(a) <= MaxRows, Len(b) <= MaxRows, Extends(a, b), Keeps(a, row)
  PROVE  Keeps(b, row)
<1>1. Len(a) \in Nat /\ Len(b) \in Nat /\ MaxRows \in Nat
  BY LenProperties, EvidenceAssumption
<1>0. DOMAIN a = 1..Len(a) /\ DOMAIN b = 1..Len(b)
  BY LenProperties
<1>2. PICK k \in 0..Len(a) :
         /\ k <= Len(b)
         /\ \A n \in 1..k : b[Len(b) - k + n] = a[n]
         /\ k < Len(a) => Len(b) = MaxRows
  BY DEF Extends
<1>3. CASE k < Len(a)
  BY <1>2, <1>3 DEF Keeps
<1>4. CASE k = Len(a) /\ Len(a) = MaxRows
  <2>1. Len(b) = MaxRows
    BY <1>1, <1>2, <1>4
  <2> QED BY <2>1 DEF Keeps
<1>5. CASE k = Len(a) /\ \E n \in DOMAIN a : a[n] = row
  <2>1. PICK n \in 1..Len(a) : a[n] = row
    BY <1>0, <1>5
  <2>2. n \in 1..k
    BY <1>5
  <2>3. b[Len(b) - k + n] = row
    BY <1>2, <2>1, <2>2
  <2>4. Len(b) - k + n \in 1..Len(b)
    BY <1>1, <1>2, <2>2
  <2>5. \E i \in DOMAIN b : b[i] = row
    BY <1>0, <2>3, <2>4
  <2> QED BY <2>5 DEF Keeps
<1>6. k = Len(a) \/ k < Len(a)
  BY <1>1
<1>7. Len(a) = MaxRows \/ \E n \in DOMAIN a : a[n] = row
  BY DEF Keeps
<1> QED BY <1>3, <1>4, <1>5, <1>6, <1>7

OnTop(log, new, row) ==
    \A n \in DOMAIN new : new[n] = row \/ \E k \in DOMAIN log : new[n] = log[k]

\* a new row on top
LEMMA PruneLemma ==
  ASSUME NEW log \in Seq(Rows), Len(log) <= MaxRows, NEW row \in Rows, NEW new,
         new = Prune(<<row>> \o log)
  PROVE  /\ new \in Seq(Rows) /\ Len(new) <= MaxRows
         /\ Extends(log, new) /\ Keeps(new, row)
         /\ OnTop(log, new, row)
<1> DEFINE all == <<row>> \o log
           len == IF Len(all) > MaxRows THEN MaxRows ELSE Len(all)
<1>1. /\ Len(log) \in Nat /\ MaxRows \in Nat \ {0} /\ DOMAIN log = 1..Len(log)
      /\ <<row>> \in Seq(Rows) /\ Len(<<row>>) = 1 /\ <<row>>[1] = row
  BY LenProperties, EvidenceAssumption
<1>2. /\ all \in Seq(Rows) /\ Len(all) = Len(log) + 1
      /\ \A n \in 1..Len(log) + 1 : all[n] = IF n <= 1 THEN <<row>>[n] ELSE log[n - 1]
  BY <1>1, ConcatProperties
<1>3. all[1] = row /\ \A n \in 1..Len(log) : all[n + 1] = log[n]
  BY <1>1, <1>2
<1>4. len \in 1..MaxRows /\ len <= Len(log) + 1 /\ (len < Len(log) + 1 => len = MaxRows)
      /\ Len(log) <= len
  BY <1>1, <1>2
<1> HIDE DEF all, len
<1>5. new = SubSeq(all, 1, len)
  BY DEF Prune, all, len
<1>6. /\ new \in Seq(Rows) /\ Len(new) = len /\ \A n \in 1..len : new[n] = all[n]
  <2>1. \A n \in 1..len : all[n] \in Rows
    <3>1. \A n \in 1..Len(all) : all[n] \in Rows
      BY <1>2, ElementOfSeq
    <3> QED BY <1>1, <1>2, <1>4, <3>1
  <2>2. len \in Int /\ 1 \in Int /\ 1 <= len
    BY <1>1, <1>4
  <2>3. /\ SubSeq(all, 1, len) \in Seq(Rows)
        /\ Len(SubSeq(all, 1, len)) = IF 1 <= len THEN len - 1 + 1 ELSE 0
        /\ \A n \in 1..len - 1 + 1 : SubSeq(all, 1, len)[n] = all[1 + n - 1]
    BY <2>1, <2>2, SubSeqProperties
  <2>4. len - 1 + 1 = len /\ \A n \in 1..len : 1 + n - 1 = n
    BY <2>2
  <2> QED BY <1>5, <2>2, <2>3, <2>4
<1>7. DOMAIN new = 1..len
  BY <1>6, LenProperties
<1>8. OnTop(log, new, row)
  <2> SUFFICES ASSUME NEW n \in 1..len, n # 1
               PROVE  \E k \in DOMAIN log : new[n] = log[k]
    BY <1>3, <1>6, <1>7 DEF OnTop
  <2>1. n - 1 \in 1..Len(log) /\ n = (n - 1) + 1
    BY <1>1, <1>4
  <2>2. new[n] = log[n - 1]
    <3>1. new[n] = all[n]
      BY <1>6
    <3>2. all[(n - 1) + 1] = log[n - 1]
      BY <1>3, <2>1
    <3> QED BY <2>1, <3>1, <3>2
  <2> QED BY <1>1, <2>1, <2>2
<1>9. Keeps(new, row)
  BY <1>3, <1>4, <1>6, <1>7 DEF Keeps
<1>10. Extends(log, new)
  <2> DEFINE k == len - 1
  <2>1. k \in 0..Len(log) /\ k <= len /\ (k < Len(log) => len = MaxRows)
    BY <1>1, <1>4
  <2>2. ASSUME NEW n \in 1..k
        PROVE  new[len - k + n] = log[n]
    <3>1. len - k + n = n + 1 /\ n + 1 \in 1..len /\ n \in 1..Len(log)
      BY <1>1, <1>4
    <3> QED BY <1>3, <1>6, <3>1
  <2> HIDE DEF k
  <2> QED BY <1>6, <2>1, <2>2 DEF Extends
<1> QED BY <1>4, <1>6, <1>8, <1>9, <1>10

-----------------------------------------------------------------------------
(* What a step does to the evidence *)

LEMMA RecordLemma ==
  ASSUME EvidenceTypeOK, SaveInv, NEW i \in Writers, NEW row \in Rows,
         Record(i, row), i \notin Savers
  PROVE  /\ EvidenceTypeOK' /\ SaveInv'
         /\ logFile' = logFile
         /\ Savers' = Savers \cup {i}
         /\ Said' \subseteq Said \cup {row}
         /\ Covered(i, row)'
         /\ \A j, r : j # i /\ Covered(j, r) => Covered(j, r)'
<1>1. /\ events \in Seq(Rows) /\ Len(events) <= MaxRows
      /\ logFile \in Seq(Rows) /\ Len(logFile) <= MaxRows
      /\ events' = Prune(<<row>> \o events)
  BY DEF EvidenceTypeOK, Record
<1>2. /\ events' \in Seq(Rows) /\ Len(events') <= MaxRows
      /\ Extends(events, events') /\ Keeps(events', row)
      /\ OnTop(events, events', row)
  BY <1>1, PruneLemma
<1>3. \A r : Keeps(events, r) => Keeps(events', r)
  BY <1>1, <1>2, ExtendsKeeps
<1>4. Extends(logFile, events')
  BY <1>1, <1>2, ExtendsTrans DEF SaveInv
<1>5. logFile' = logFile
  BY DEF Record
<1>6. CASE writer = NoSave
  <2>1. /\ writer' = [by |-> i, rows |-> events'] /\ waiting' = {} /\ unsaved' = FALSE
        /\ Savers = {}
    BY <1>6 DEF Record, SaveInv, Savers
  <2>2. writer' \in Save
    BY <1>2, <2>1 DEF Save
  <2>3. writer' # NoSave
    BY <2>2, EvidenceAssumption
  <2>4. Savers' = {i}
    BY <2>1, <2>3 DEF Savers
  <2>5. Extends(events', events')
    BY <1>2, ExtendsSelf
  <2>6. EvidenceTypeOK'
    BY <1>1, <1>2, <1>5, <2>1, <2>2 DEF EvidenceTypeOK
  <2>7. SaveInv'
    BY <1>2, <1>4, <1>5, <2>1, <2>3, <2>5 DEF SaveInv
  <2>8. Logs' = {events', logFile} /\ Logs = {events, logFile}
    BY <1>5, <1>6, <2>1, <2>3 DEF Logs
  <2>9. Said' \subseteq Said \cup {row}
    BY <1>2, <2>8 DEF Said, OnTop
  <2>10. Covered(i, row)'
    BY <1>2, <2>1 DEF Covered
  <2>11. \A j, r : j # i /\ Covered(j, r) => Covered(j, r)'
    BY <1>3, <2>1 DEF Covered
  <2> QED BY <1>5, <2>1, <2>4, <2>6, <2>7, <2>9, <2>10, <2>11
<1>7. CASE writer # NoSave
  <2>1. /\ writer' = writer /\ waiting' = waiting \cup {i} /\ unsaved' = TRUE
        /\ i # writer.by
    BY <1>7 DEF Record, Savers
  <2>2. writer \in Save /\ writer.rows \in Seq(Rows)
    BY <1>7 DEF EvidenceTypeOK, Save
  <2>3. EvidenceTypeOK'
    BY <1>1, <1>2, <1>5, <2>1 DEF EvidenceTypeOK
  <2>4. Extends(writer.rows, events')
    BY <1>1, <1>2, <1>7, <2>2, ExtendsTrans DEF SaveInv
  <2>5. SaveInv'
    BY <1>4, <1>5, <1>7, <2>1, <2>4 DEF SaveInv
  <2>6. Savers' = Savers \cup {i}
    BY <1>7, <2>1 DEF Savers
  <2>7. Logs' = {events', logFile, writer.rows} /\ Logs = {events, logFile, writer.rows}
    BY <1>5, <1>7, <2>1 DEF Logs
  <2>8. Said' \subseteq Said \cup {row}
    BY <1>2, <2>7 DEF Said, OnTop
  <2>9. Covered(i, row)'
    BY <1>2, <2>1 DEF Covered
  <2>10. \A j, r : j # i /\ Covered(j, r) => Covered(j, r)'
    BY <1>3, <2>1 DEF Covered
  <2> QED BY <1>5, <2>3, <2>5, <2>6, <2>8, <2>9, <2>10
<1> QED BY <1>6, <1>7

LEMMA SaveEndsLemma ==
  ASSUME EvidenceTypeOK, SaveInv, SaveLands \/ SaveFails
  PROVE  /\ EvidenceTypeOK' /\ SaveInv'
         /\ Extends(logFile, logFile')
         /\ Savers' = Savers \ Returning /\ writer.by \in Writers
         /\ Said' \subseteq Said
         /\ \A j, r : Covered(j, r) => Covered(j, r)'
         /\ SaveLands => \A j \in Returning : \A r : Covered(j, r) => Keeps(logFile', r)
<1>1. writer # NoSave /\ NextSave /\ logFile' \in {logFile, writer.rows}
  BY DEF SaveLands, SaveFails
<1>2. /\ events \in Seq(Rows) /\ Len(events) <= MaxRows
      /\ logFile \in Seq(Rows) /\ Len(logFile) <= MaxRows
      /\ writer \in Save /\ writer.rows \in Seq(Rows) /\ writer.by \in Writers
      /\ Len(writer.rows) <= MaxRows /\ writer.by \notin waiting
      /\ waiting \subseteq Writers /\ unsaved \in BOOLEAN
  BY <1>1 DEF EvidenceTypeOK, SaveInv, Save
<1>3. events' = events /\ unsaved' = FALSE
  BY <1>1 DEF NextSave
<1>4. /\ logFile' \in Seq(Rows) /\ Len(logFile') <= MaxRows
      /\ Extends(logFile, logFile') /\ Extends(logFile', events)
  BY <1>1, <1>2, ExtendsSelf DEF SaveInv
<1>5. Extends(events, events)
  BY <1>2, ExtendsSelf
<1>6. SaveLands => \A j \in Returning : \A r : Covered(j, r) => Keeps(logFile', r)
  BY <1>1, <1>2 DEF SaveLands, Returning, Covered
<1>7. CASE unsaved = TRUE
  <2>1. PICK w \in waiting : writer' = [by |-> w, rows |-> events] /\ waiting' = waiting \ {w}
    BY <1>1, <1>7 DEF NextSave
  <2>2. writer' \in Save
    BY <1>2, <2>1 DEF Save
  <2>3. writer' # NoSave
    BY <2>2, EvidenceAssumption
  <2>4. EvidenceTypeOK'
    BY <1>2, <1>3, <1>4, <2>1, <2>2 DEF EvidenceTypeOK
  <2>5. SaveInv'
    BY <1>2, <1>3, <1>4, <1>5, <2>1, <2>3 DEF SaveInv
  <2>6. Savers' = waiting /\ Savers = waiting \cup {writer.by} /\ Returning = {writer.by}
    BY <1>1, <1>7, <2>1, <2>3 DEF Savers, Returning
  <2>7. Logs' = {events, logFile'} /\ Logs = {events, logFile, writer.rows}
    BY <1>1, <1>3, <2>1, <2>3 DEF Logs
  <2>8. Said' \subseteq Said
    BY <1>1, <2>7 DEF Said
  <2>9. \A j, r : Covered(j, r) => Covered(j, r)'
    BY <1>3, <2>1 DEF Covered
  <2> QED BY <1>2, <1>4, <1>6, <2>4, <2>5, <2>6, <2>8, <2>9
<1>8. CASE unsaved = FALSE
  <2>1. writer' = NoSave /\ waiting' = {}
    BY <1>1, <1>8 DEF NextSave
  <2>2. EvidenceTypeOK'
    BY <1>2, <1>3, <1>4, <2>1 DEF EvidenceTypeOK
  <2>3. SaveInv'
    BY <1>3, <1>4, <2>1 DEF SaveInv
  <2>4. Savers' = {} /\ Savers = Returning
    BY <1>1, <1>8, <2>1 DEF Savers, Returning
  <2>5. Logs' = {events, logFile'} /\ Logs = {events, logFile, writer.rows}
    BY <1>1, <1>3, <2>1 DEF Logs
  <2>6. Said' \subseteq Said
    BY <1>1, <2>5 DEF Said
  <2>7. \A j, r : Covered(j, r) => Covered(j, r)'
    BY <1>3, <2>1 DEF Covered
  <2> QED BY <1>2, <1>4, <1>6, <2>2, <2>3, <2>4, <2>6, <2>7
<1> QED BY <1>2, <1>7, <1>8

LEMMA ReopenedLemma ==
  ASSUME EvidenceTypeOK, SaveInv, Reopened
  PROVE  /\ EvidenceTypeOK' /\ SaveInv'
         /\ logFile' = logFile /\ Savers' = {} /\ Said' \subseteq Said
<1>1. /\ events' = logFile /\ logFile' = logFile
      /\ writer' = NoSave /\ waiting' = {} /\ unsaved' = FALSE
  BY DEF Reopened
<1>2. Extends(logFile, logFile)
  BY ExtendsSelf DEF EvidenceTypeOK
<1>3. Logs' = {logFile} /\ logFile \in Logs
  BY <1>1 DEF Logs
<1>4. Said' \subseteq Said
  BY <1>3 DEF Said
<1> QED BY <1>1, <1>2, <1>4 DEF EvidenceTypeOK, SaveInv, Savers

LEMMA StillLemma ==
  ASSUME EvidenceTypeOK, SaveInv, UNCHANGED evidenceVars
  PROVE  /\ EvidenceTypeOK' /\ SaveInv'
         /\ logFile' = logFile /\ Savers' = Savers /\ Said' = Said
         /\ \A j, r : Covered(j, r) => Covered(j, r)'
BY DEF EvidenceTypeOK, SaveInv, evidenceVars, Savers, Said, Logs, Covered

-----------------------------------------------------------------------------
(* What a step does to requests, answers and the display *)

LEMMA CallFacts ==
  ASSUME TypeOK
  PROVE  /\ calls \in Seq(Call) /\ Len(calls) \in Nat /\ Len(calls) <= MaxCalls
         /\ DOMAIN calls = 1..Len(calls)
         /\ \A i \in DOMAIN calls : i \in Calls /\ i \in Writers /\ calls[i] \in Call
<1>1. calls \in Seq(Call) /\ Len(calls) \in Nat /\ Len(calls) <= MaxCalls
  BY LenProperties DEF TypeOK
<1>2. DOMAIN calls = 1..Len(calls)
  BY <1>1, LenProperties
<1>3. \A i \in 1..Len(calls) : i \in Calls /\ calls[i] \in Call
  BY <1>1, ElementOfSeq, PathAssumption DEF Calls
<1> QED BY <1>1, <1>2, <1>3, PathAssumption

\* each request is replaced by one
LEMMA SameLength ==
  ASSUME TypeOK, calls' = [i \in DOMAIN calls |-> calls'[i]],
         \A i \in DOMAIN calls : calls'[i] \in Call
  PROVE  calls' \in Seq(Call) /\ Len(calls') <= MaxCalls /\ DOMAIN calls' = DOMAIN calls
<1>1. DOMAIN calls = 1..Len(calls) /\ Len(calls) \in Nat /\ Len(calls) <= MaxCalls
  BY CallFacts
<1>2. calls' \in [1..Len(calls) -> Call]
  BY <1>1
<1>3. calls' \in Seq(Call)
  BY <1>1, <1>2, SeqDef
<1>4. DOMAIN calls' = 1..Len(calls) /\ DOMAIN calls' = 1..Len(calls') /\ Len(calls') \in Nat
  BY <1>2, <1>3, LenProperties
<1>5. Len(calls') = Len(calls)
  BY <1>1, <1>4
<1> QED BY <1>1, <1>3, <1>4, <1>5

LEMMA MoveLemma ==
  ASSUME TypeOK, NEW i \in DOMAIN calls, NEW stage \in Stages, MoveTo(i, stage)
  PROVE  /\ calls' \in Seq(Call) /\ Len(calls') <= MaxCalls /\ DOMAIN calls' = DOMAIN calls
         /\ calls'[i].stage = stage /\ calls'[i].outcome = calls[i].outcome
         /\ \A j \in DOMAIN calls : j # i => calls'[j] = calls[j]
<1>1. \A j \in DOMAIN calls : calls[j] \in Call
  BY CallFacts
<1>2. calls' = [calls EXCEPT ![i] = [calls[i] EXCEPT !.stage = stage]]
  BY DEF MoveTo
<1>3. \A j \in DOMAIN calls :
         calls'[j] = IF j = i THEN [calls[i] EXCEPT !.stage = stage] ELSE calls[j]
  BY <1>2
<1>4. calls[i] \in Call
  BY <1>1
<1>5. [calls[i] EXCEPT !.stage = stage] \in Call
  BY <1>4 DEF Call
<1>6. \A j \in DOMAIN calls : calls'[j] \in Call
  BY <1>1, <1>3, <1>5
<1>7. calls' = [j \in DOMAIN calls |-> calls'[j]]
  BY <1>2
<1>8. calls'[i].stage = stage /\ calls'[i].outcome = calls[i].outcome
  BY <1>3, <1>4 DEF Call
<1> QED BY <1>3, <1>6, <1>7, <1>8, SameLength

LEMMA CloseLemma ==
  ASSUME TypeOK, NEW i \in DOMAIN calls, NEW s \in ControlStates, Close(i, s)
  PROVE  /\ calls' \in Seq(Call) /\ Len(calls') <= MaxCalls /\ DOMAIN calls' = DOMAIN calls
         /\ calls'[i].stage = "closing" /\ calls'[i].outcome = s
         /\ \A j \in DOMAIN calls : j # i => calls'[j] = calls[j]
<1> DEFINE new == [calls[i] EXCEPT !.stage = "closing", !.outcome = s]
<1>1. \A j \in DOMAIN calls : calls[j] \in Call
  BY CallFacts
<1>2. calls' = [calls EXCEPT ![i] = new]
  BY DEF Close
<1>3. new \in Call /\ new.stage = "closing" /\ new.outcome = s
  BY <1>1 DEF Call, Stages
<1> HIDE DEF new
<1>4. \A j \in DOMAIN calls : calls'[j] = IF j = i THEN new ELSE calls[j]
  BY <1>2
<1>5. \A j \in DOMAIN calls : calls'[j] \in Call
  BY <1>1, <1>3, <1>4
<1>6. calls' = [j \in DOMAIN calls |-> calls'[j]]
  BY <1>2
<1> QED BY <1>3, <1>4, <1>5, <1>6, SameLength

\* every answer on its way was so before, or is one of extra
Replied(extra) ==
    \A n \in DOMAIN replies' :
        replies'[n] \in extra \/ \E k \in DOMAIN replies : replies'[n] = replies[k]

LEMMA AnswerLemma ==
  ASSUME TypeOK, NEW i \in Calls, NEW a \in ControlStates \cup {"preview", "error"},
         Answer(i, a)
  PROVE  replies' \in Seq(Reply) /\ Replied({[call |-> i, answer |-> a]})
<1> DEFINE r == [call |-> i, answer |-> a]
<1>1. replies \in Seq(Reply) /\ r \in Reply
  BY DEF TypeOK, Reply
<1>2. replies' = replies \/ replies' = Append(replies, r)
  BY DEF Answer
<1>3. CASE replies' = replies
  BY <1>1, <1>3 DEF Replied
<1>4. CASE replies' = Append(replies, r)
  <2>1. /\ replies' \in Seq(Reply) /\ Len(replies') = Len(replies) + 1
        /\ \A n \in 1..Len(replies) : replies'[n] = replies[n]
        /\ replies'[Len(replies) + 1] = r
    BY <1>1, <1>4, AppendProperties
  <2>2. Len(replies) \in Nat
    BY <1>1, LenProperties
  <2>3. DOMAIN replies' = 1..Len(replies') /\ DOMAIN replies = 1..Len(replies)
    BY <1>1, <2>1, LenProperties
  <2>4. ASSUME NEW n \in 1..Len(replies')
        PROVE  replies'[n] \in {r} \/ \E k \in 1..Len(replies) : replies'[n] = replies[k]
    <3>1. n \in 1..Len(replies) \/ n = Len(replies) + 1
      BY <2>1, <2>2
    <3> QED BY <2>1, <3>1
  <2> QED BY <2>1, <2>3, <2>4 DEF Replied
<1> QED BY <1>2, <1>3, <1>4

LEMMA DurableKept ==
  ASSUME EvidenceTypeOK, EvidenceTypeOK', Extends(logFile, logFile'), faults' = 0 => faults = 0
  PROVE  \A i, s : Durable(i, s) => Durable(i, s)'
<1>1. /\ logFile \in Seq(Rows) /\ Len(logFile) <= MaxRows
      /\ logFile' \in Seq(Rows) /\ Len(logFile') <= MaxRows
  BY DEF EvidenceTypeOK
<1>2. \A row : Keeps(logFile, row) => Keeps(logFile', row)
  BY <1>1, ExtendsKeeps
<1> QED BY <1>2 DEF Durable

LEMMA ProgressKept ==
  ASSUME \A i, s : Durable(i, s) => Durable(i, s)',
         dispatched \subseteq dispatched',
         NEW j, Progress(j), calls'[j] = calls[j]
  PROVE  Progress(j)'
BY DEF Progress

LEMMA RepliesKept ==
  ASSUME ReplyInv, \A i, s : Durable(i, s) => Durable(i, s)', dispatched \subseteq dispatched',
         NEW extra, Replied(extra), \A r \in extra : Promise(r)'
  PROVE  ReplyInv'
<1>1. \A r : Promise(r) => Promise(r)'
  BY DEF Promise
<1>2. ASSUME NEW n \in DOMAIN replies'
      PROVE  \E r : r = replies'[n] /\ Promise(r)'
  <2>1. CASE replies'[n] \in extra
    BY <2>1
  <2>2. CASE \E k \in DOMAIN replies : replies'[n] = replies[k]
    <3>1. PICK k \in DOMAIN replies : replies'[n] = replies[k]
      BY <2>2
    <3>2. Promise(replies[k])
      BY DEF ReplyInv
    <3>3. PICK r : r = replies[k]
      OBVIOUS
    <3>4. Promise(r)'
      BY <1>1, <3>2, <3>3
    <3> QED BY <3>1, <3>3, <3>4
  <2> QED BY <2>1, <2>2 DEF Replied
<1> QED BY <1>2 DEF ReplyInv, Promise

LEMMA ClaimsKept ==
  ASSUME ClaimInv, Said' \subseteq Said, dispatched \subseteq dispatched',
         DOMAIN calls \subseteq DOMAIN calls',
         \A j \in DOMAIN calls : calls[j].stage \in Ended => calls'[j].stage \in Ended
  PROVE  ClaimInv'
<1> SUFFICES ASSUME NEW row \in Said'
             PROVE  Claim(row)'
  BY DEF ClaimInv
<1>1. Claim(row)
  BY DEF ClaimInv
<1> QED BY <1>1 DEF Claim

LEMMA ShownKept ==
  ASSUME ShownInv, \A i, s : Durable(i, s) => Durable(i, s)',
         dispatched \subseteq dispatched',
         \/ ~ShowsSuccess'
         \/ control'.result = control.result /\ control'.correlationId = control.correlationId
  PROVE  ShownInv'
BY DEF ShownInv, ShowsSuccess, Durable

-----------------------------------------------------------------------------
(* Types *)

LEMMA RecordTypes ==
  ASSUME EvidenceTypeOK, WriteInv, NEW i \in Writers, NEW row \in Rows, Record(i, row)
  PROVE  EvidenceTypeOK' /\ WriteInv'
<1>1. events \in Seq(Rows) /\ Len(events) <= MaxRows /\ events' = Prune(<<row>> \o events)
  BY DEF EvidenceTypeOK, Record
<1>2. events' \in Seq(Rows) /\ Len(events') <= MaxRows
  BY <1>1, PruneLemma
<1>3. [by |-> i, rows |-> events'] \in Save
  BY <1>2 DEF Save
<1>4. EvidenceTypeOK'
  BY <1>2, <1>3 DEF EvidenceTypeOK, Record
<1>5. writer' = writer \/ writer' = [by |-> i, rows |-> events']
  BY DEF Record
<1>6. WriteInv'
  BY <1>2, <1>5 DEF WriteInv
<1> QED BY <1>4, <1>6

LEMMA SaveTypes ==
  ASSUME EvidenceTypeOK, WriteInv, SaveLands \/ SaveFails
  PROVE  EvidenceTypeOK' /\ WriteInv' /\ Returning \subseteq Writers /\ writer.by \in Writers
<1>1. /\ writer # NoSave /\ writer \in Save
      /\ writer.rows \in Seq(Rows) /\ writer.by \in Writers /\ Len(writer.rows) <= MaxRows
  BY DEF EvidenceTypeOK, WriteInv, SaveLands, SaveFails, Save
<1>2. EvidenceTypeOK'
  <2>1. writer' \in Save \cup {NoSave} /\ waiting' \subseteq Writers
    BY <1>1 DEF EvidenceTypeOK, SaveLands, SaveFails, NextSave, Save
  <2> QED BY <1>1, <2>1 DEF EvidenceTypeOK, SaveLands, SaveFails, NextSave
<1>3. WriteInv'
  BY <1>1 DEF EvidenceTypeOK, WriteInv, SaveLands, SaveFails, NextSave
<1>4. Returning \subseteq Writers
  BY <1>1 DEF EvidenceTypeOK, Returning
<1> QED BY <1>1, <1>2, <1>3, <1>4

\* a request is appended
LEMMA SendLemma ==
  ASSUME TypeInv, NEW kind \in {"preview", "execute"}, NEW c \in Controls, Send(kind, c)
  PROVE  /\ calls' \in Seq(Call) /\ Len(calls') <= MaxCalls
         /\ DOMAIN calls \subseteq DOMAIN calls' /\ asked' \subseteq DOMAIN calls'
         /\ asked' \subseteq Calls
         /\ DOMAIN calls' = DOMAIN calls \cup {Len(calls) + 1}
         /\ Len(calls) + 1 \notin DOMAIN calls
         /\ calls'[Len(calls) + 1].stage = "sent"
         /\ \A j \in DOMAIN calls : calls'[j] = calls[j]
<1> DEFINE new == [kind |-> kind, control |-> c, shown |-> control.preview,
                   stage |-> "sent", outcome |-> None]
<1>1. calls \in Seq(Call) /\ Len(calls) \in Nat /\ DOMAIN calls = 1..Len(calls)
  BY CallFacts DEF TypeInv
<1>2. new \in Call /\ new.stage = "sent"
  BY DEF TypeInv, TypeOK, Dialog, Call, Stages
<1>3. calls' = Append(calls, new) /\ Len(calls) < MaxCalls /\ asked' = asked \cup {Len(calls) + 1}
  BY DEF Send
<1> HIDE DEF new
<1>4. /\ calls' \in Seq(Call) /\ Len(calls') = Len(calls) + 1
      /\ \A n \in 1..Len(calls) : calls'[n] = calls[n]
      /\ calls'[Len(calls) + 1] = new
  BY <1>1, <1>2, <1>3, AppendProperties
<1>5. Len(calls') <= MaxCalls
  BY <1>1, <1>3, <1>4, PathAssumption
<1>6. DOMAIN calls' = 1..Len(calls) + 1
  BY <1>4, LenProperties
<1>7. 1..Len(calls) + 1 = 1..Len(calls) \cup {Len(calls) + 1}
  BY <1>1
<1>8. Len(calls) + 1 \notin 1..Len(calls)
  BY <1>1
<1>9. asked \subseteq DOMAIN calls /\ asked \subseteq Calls
  BY DEF TypeInv, TypeOK, DialogInv
<1>10. Len(calls) + 1 \in Calls
  BY <1>1, <1>3, PathAssumption DEF Calls
<1> QED BY <1>1, <1>2, <1>3, <1>4, <1>5, <1>6, <1>7, <1>8, <1>9, <1>10

\* a handler answers, to whoever still waits
LEMMA AnswerTypes ==
  ASSUME TypeInv, NEW i \in DOMAIN calls, NEW a \in ControlStates \cup {"preview", "error"},
         Answer(i, a), UNCHANGED <<control, asked>>, DOMAIN calls' = DOMAIN calls
  PROVE  replies' \in Seq(Reply) /\ DialogInv'
<1>1. i \in Calls
  BY CallFacts DEF TypeInv
<1>2. replies' \in Seq(Reply) /\ Replied({[call |-> i, answer |-> a]})
  BY <1>1, AnswerLemma DEF TypeInv
<1>3. \A n \in DOMAIN replies' : replies'[n].call \in DOMAIN calls'
  BY <1>2 DEF Replied, TypeInv, DialogInv
<1>4. control.controlId = None => replies' = <<>>
  BY DEF Answer, TypeInv, DialogInv
<1> QED BY <1>2, <1>3, <1>4 DEF TypeInv, DialogInv

LEMMA ResumedTypes ==
  ASSUME TypeOK, NEW those
  PROVE  /\ Resumed(those) \in [DOMAIN calls -> Call]
         /\ \A j \in DOMAIN calls :
               /\ Resumed(those)[j].outcome = calls[j].outcome
               /\ j \in those => Resumed(those)[j].stage = After(calls[j].stage)
               /\ j \notin those => Resumed(those)[j] = calls[j]
<1> SUFFICES ASSUME NEW j \in DOMAIN calls
             PROVE  /\ Resumed(those)[j] \in Call
                    /\ Resumed(those)[j].outcome = calls[j].outcome
                    /\ j \in those => Resumed(those)[j].stage = After(calls[j].stage)
                    /\ j \notin those => Resumed(those)[j] = calls[j]
  BY DEF Resumed
<1>1. calls[j] \in Call
  BY CallFacts
<1>2. After(calls[j].stage) \in Stages
  BY <1>1 DEF After, Call, Stages
<1>3. Resumed(those)[j] =
         IF j \in those THEN [calls[j] EXCEPT !.stage = After(calls[j].stage)] ELSE calls[j]
  BY DEF Resumed
<1> HIDE DEF Resumed
<1> QED BY <1>1, <1>2, <1>3 DEF Call

LEMMA StillTypes ==
  ASSUME TypeInv, UNCHANGED evidenceVars
  PROVE  EvidenceTypeOK' /\ WriteInv'
BY DEF TypeInv, TypeOK, EvidenceTypeOK, WriteInv, evidenceVars

LEMMA DialogTypes ==
  ASSUME TypeInv, DialogNext \/ Deliver
  PROVE  TypeInv'
<1>1. EvidenceTypeOK' /\ WriteInv'
  BY StillTypes DEF DialogNext, PressPreview, PressRun, PressCancel, CloseDialog, Deliver
<1>2. DOMAIN calls \subseteq Calls /\ calls \in Seq(Call)
      /\ \A j \in DOMAIN calls : calls[j] \in Call
  BY CallFacts DEF TypeInv
<1>0. OutcomeInv'
  <2>1. CASE calls' = calls
    BY <2>1 DEF TypeInv, OutcomeInv
  <2>2. CASE \E kind \in {"preview", "execute"}, c \in Controls : Send(kind, c)
    BY <2>2, SendLemma DEF TypeInv, OutcomeInv
  <2>3. PressRun => control.controlId \in Controls
    BY DEF PressRun, Offered, TypeInv, TypeOK, DialogInv, Dialog
  <2> QED BY <2>1, <2>2, <2>3 DEF DialogNext, PressPreview, PressRun, PressCancel, CloseDialog,
             Deliver
<1>3. ASSUME NEW c \in Controls, PressPreview(c)
      PROVE  TypeInv'
  <2>1. Send("preview", c)
    BY <1>3 DEF PressPreview
  <2>2. /\ calls' \in Seq(Call) /\ Len(calls') <= MaxCalls
        /\ DOMAIN calls \subseteq DOMAIN calls' /\ asked' \subseteq DOMAIN calls' /\ asked' \subseteq Calls
    BY <2>1, SendLemma
  <2>3. control' \in Dialog /\ control'.controlId = c /\ c # None
    BY <1>3, PathAssumption DEF PressPreview, Selected, initialControlState, Dialog, Phases
  <2>5. DialogInv'
    BY <1>3, <2>2, <2>3 DEF PressPreview, TypeInv, DialogInv
  <2> QED BY <1>0, <1>1, <1>3, <2>2, <2>3, <2>5 DEF PressPreview, TypeInv, TypeOK
<1>4. CASE PressRun
  <2>1. control.controlId \in Controls /\ control \in Dialog
    BY <1>4 DEF PressRun, Offered, TypeInv, TypeOK, DialogInv, Dialog
  <2>2. Send("execute", control.controlId)
    BY <1>4 DEF PressRun
  <2>3. /\ calls' \in Seq(Call) /\ Len(calls') <= MaxCalls
        /\ DOMAIN calls \subseteq DOMAIN calls' /\ asked' \subseteq DOMAIN calls' /\ asked' \subseteq Calls
    BY <2>1, <2>2, SendLemma
  <2>4. control' \in Dialog /\ control'.controlId = control.controlId
    BY <1>4, <2>1 DEF PressRun, Pending, Dialog, Phases
  <2>6. DialogInv'
    BY <1>4, <2>1, <2>3, <2>4, PathAssumption DEF PressRun, TypeInv, DialogInv
  <2> QED BY <1>0, <1>1, <1>4, <2>3, <2>4, <2>6 DEF PressRun, TypeInv, TypeOK
<1>5. CASE PressCancel
  <2>1. control \in Dialog
    BY DEF TypeInv, TypeOK
  <2>2. control' \in Dialog /\ control'.controlId = control.controlId
    BY <1>5, <2>1 DEF PressCancel, Cancelled, Dialog, Phases, ControlStates, Terminal
  <2>3. DialogInv'
    BY <1>5, <2>2, PathAssumption DEF PressCancel, Offered, TypeInv, DialogInv
  <2> QED BY <1>0, <1>1, <1>5, <2>2, <2>3 DEF PressCancel, TypeInv, TypeOK
<1>6. CASE CloseDialog
  <2>1. control' \in Dialog
    BY <1>6 DEF CloseDialog, initialControlState, Dialog, Phases
  <2>2. DialogInv'
    BY <1>6 DEF CloseDialog, initialControlState, TypeInv, DialogInv
  <2>3. replies' \in Seq(Reply)
    BY <1>6 DEF CloseDialog
  <2>4. opened' \in 0..MaxCalls
    BY <1>2, <1>6, LenProperties DEF CloseDialog, TypeInv, TypeOK
  <2> QED BY <1>0, <1>1, <1>6, <2>1, <2>2, <2>3, <2>4 DEF CloseDialog, TypeInv, TypeOK, Reply
<1>7. CASE Deliver
  <2> DEFINE i == Head(replies).call
             a == Head(replies).answer
  <2>1. replies # <<>> /\ replies \in Seq(Reply)
    BY <1>7 DEF Deliver, TypeInv, TypeOK, Reply
  <2>2. Head(replies) \in Reply /\ Head(replies) = replies[1] /\ 1 \in DOMAIN replies
        /\ Tail(replies) \in Seq(Reply)
        /\ \A n \in DOMAIN Tail(replies) : n + 1 \in DOMAIN replies /\ Tail(replies)[n] = replies[n + 1]
    <3>1. /\ Head(replies) \in Reply /\ Tail(replies) \in Seq(Reply)
          /\ Len(Tail(replies)) = Len(replies) - 1
          /\ \A n \in 1..Len(Tail(replies)) : Tail(replies)[n] = replies[n + 1]
      BY <2>1, HeadTailProperties
    <3>2. Len(replies) \in Nat \ {0} /\ DOMAIN replies = 1..Len(replies)
          /\ DOMAIN Tail(replies) = 1..Len(Tail(replies))
      BY <2>1, <3>1, EmptySeq, LenProperties
    <3>3. Head(replies) = replies[1]
      BY <2>1
    <3>4. 1 \in 1..Len(replies)
      BY <3>2
    <3>5. \A n \in 1..Len(Tail(replies)) : n + 1 \in 1..Len(replies)
      BY <3>1, <3>2
    <3> QED BY <3>1, <3>2, <3>3, <3>4, <3>5
  <2>3. i \in DOMAIN calls /\ i \in Nat /\ a \in ControlStates \cup {"preview", "error"}
    BY <1>2, <2>2 DEF TypeInv, DialogInv, Reply, Calls
  <2>4. control \in Dialog /\ control.controlId # None /\ calls[i].control \in Controls
    BY <1>2, <2>1, <2>3 DEF TypeInv, TypeOK, DialogInv, Call
  <2>5. /\ a = "preview" => control' = Previewed(calls[i].control)
        /\ a = "error" => control' = Denied
        /\ a \notin {"preview", "error"} => control' = Result(a, i)
    BY <1>7 DEF Deliver
  <2>6. asked' = asked \ {i} /\ replies' = Tail(replies) /\ calls' = calls
    BY <1>7 DEF Deliver
  <2> HIDE DEF i, a
  <2>7. /\ Previewed(calls[i].control) \in Dialog /\ Previewed(calls[i].control).controlId # None
        /\ Denied \in Dialog /\ Denied.controlId # None
    BY <2>4 DEF Previewed, Denied, Dialog, Phases, ControlStates, Terminal
  <2>8. ASSUME a \in ControlStates
        PROVE  Result(a, i) \in Dialog /\ Result(a, i).controlId # None
    <3> DEFINE phase == IF a \in Terminal THEN "result" ELSE "pending"
    <3>1. Result(a, i) = [control EXCEPT !.phase = phase, !.result = a, !.correlationId = i]
      BY DEF Result
    <3>2. phase \in Phases
      BY DEF Phases
    <3> HIDE DEF phase
    <3> QED BY <2>3, <2>4, <2>8, <3>1, <3>2 DEF Dialog
  <2>9. control' \in Dialog /\ control'.controlId # None
    <3>1. CASE a \in {"preview", "error"}
      BY <2>5, <2>7, <3>1
    <3>2. CASE a \notin {"preview", "error"}
      BY <2>3, <2>5, <2>8, <3>2
    <3> QED BY <3>1, <3>2
  <2>10. DialogInv'
    <3>1. \A n \in DOMAIN replies' : replies'[n].call \in DOMAIN calls
      BY <2>2, <2>6 DEF TypeInv, DialogInv
    <3> QED BY <2>6, <2>9, <3>1 DEF TypeInv, DialogInv
  <2>11. replies' \in Seq(Reply) /\ asked' \subseteq Calls
    BY <2>2, <2>6 DEF TypeInv, TypeOK
  <2> QED BY <1>0, <1>1, <1>7, <2>9, <2>10, <2>11 DEF Deliver, TypeInv, TypeOK, Reply
<1> QED BY <1>3, <1>4, <1>5, <1>6, <1>7 DEF DialogNext

LEMMA HandlerTypes ==
  ASSUME TypeInv, NEW i \in Calls,
         \/ AnswerPreview(i) \/ Refuse(i) \/ RefuseAtGate(i) \/ AnswerRefused(i)
         \/ Dispatch(i) \/ AnswerExecute(i)
         \/ Accept(i) \/ ServiceReturns(i) \/ ServiceRaises(i) \/ Readback(i)
  PROVE  TypeInv'
<1>1. i \in DOMAIN calls /\ i \in Writers
  BY PathAssumption DEF AnswerPreview, Refuse, RefuseAtGate, AnswerRefused, Dispatch, AnswerExecute, Accept, ServiceReturns,
     ServiceRaises, Readback, FirstSent, MayCall, At
<1>2. calls[i] \in Call
  BY <1>1, CallFacts DEF TypeInv
<1>3. TypeOK /\ EvidenceTypeOK /\ WriteInv
  BY DEF TypeInv, TypeOK
<1>4. CASE AnswerPreview(i) \/ Refuse(i) \/ AnswerRefused(i) \/ AnswerExecute(i)
  <2>1. MoveTo(i, "over")
    BY <1>4 DEF AnswerPreview, Refuse, AnswerRefused, AnswerExecute
  <2>2. calls' \in Seq(Call) /\ Len(calls') <= MaxCalls /\ DOMAIN calls' = DOMAIN calls
    BY <1>1, <1>3, <2>1, MoveLemma DEF Stages
  <2>3. PICK a \in ControlStates \cup {"preview", "error"} : Answer(i, a)
    <3>1. At(i, "closed") => calls[i].outcome \in ControlStates
      BY <1>1 DEF At, TypeInv, OutcomeInv, Outcomes, ControlStates, Terminal
    <3> QED BY <1>4, <3>1 DEF AnswerPreview, Refuse, AnswerRefused, AnswerExecute
  <2>4. UNCHANGED <<control, evidenceVars, asked, rehearsing, dispatched, opened,
                    faults, breaks, rehearsals>>
    BY <1>4 DEF AnswerPreview, Refuse, AnswerRefused, AnswerExecute
  <2>5. replies' \in Seq(Reply) /\ DialogInv'
    BY <1>1, <2>2, <2>3, <2>4, AnswerTypes
  <2>6. EvidenceTypeOK' /\ WriteInv'
    BY <2>4, StillTypes
  <2>7. OutcomeInv'
    BY <1>1, <1>3, <2>1, MoveLemma DEF Stages, TypeInv, OutcomeInv
  <2> QED BY <1>3, <2>2, <2>4, <2>5, <2>6, <2>7 DEF TypeInv, TypeOK, Reply
<1>7. CASE RefuseAtGate(i)
  <2>1. calls' \in Seq(Call) /\ Len(calls') <= MaxCalls /\ DOMAIN calls' = DOMAIN calls
    BY <1>1, <1>3, <1>7, MoveLemma DEF RefuseAtGate, Stages
  <2>2. EvidenceTypeOK' /\ WriteInv'
    BY <1>7, StillTypes DEF RefuseAtGate
  <2>3. DialogInv'
    BY <1>7, <2>1 DEF RefuseAtGate, TypeInv, DialogInv
  <2>4. OutcomeInv'
    BY <1>1, <1>3, <1>7, MoveLemma DEF RefuseAtGate, Stages, TypeInv, OutcomeInv
  <2> QED BY <1>3, <1>7, <2>1, <2>2, <2>3, <2>4 DEF RefuseAtGate, TypeInv, TypeOK
<1>5. CASE Dispatch(i)
  <2>1. calls' \in Seq(Call) /\ Len(calls') <= MaxCalls /\ DOMAIN calls' = DOMAIN calls
    BY <1>1, <1>3, <1>5, MoveLemma DEF Dispatch, Stages
  <2>2. EvidenceTypeOK' /\ WriteInv'
    BY <1>5, StillTypes DEF Dispatch
  <2>3. DialogInv'
    BY <1>5, <2>1 DEF Dispatch, TypeInv, DialogInv
  <2>4. OutcomeInv'
    BY <1>1, <1>3, <1>5, MoveLemma DEF Dispatch, Stages, TypeInv, OutcomeInv
  <2> QED BY <1>3, <1>5, <2>1, <2>2, <2>3, <2>4 DEF Dispatch, TypeInv, TypeOK
<1>6. CASE Accept(i) \/ ServiceReturns(i) \/ ServiceRaises(i) \/ Readback(i)
  <2>1. PICK s \in ControlStates : Record(i, Row(i, s))
    BY <1>6 DEF Accept, ServiceReturns, ServiceRaises, Readback, Close, ControlStates, Terminal
  <2>2. Row(i, s) \in Rows
    BY PathAssumption DEF Row
  <2>3. EvidenceTypeOK' /\ WriteInv'
    BY <1>1, <1>3, <2>1, <2>2, RecordTypes
  <2>4. /\ calls' \in Seq(Call) /\ Len(calls') <= MaxCalls /\ DOMAIN calls' = DOMAIN calls
        /\ OutcomeInv'
    <3>1. CASE \E stage \in {"accepting", "recording"} : MoveTo(i, stage)
      BY <1>1, <1>3, <3>1, MoveLemma DEF Stages, TypeInv, OutcomeInv
    <3>2. CASE \E t \in Outcomes : Close(i, t)
      BY <1>1, <1>3, <3>2, CloseLemma DEF Outcomes, ControlStates, Terminal, TypeInv, OutcomeInv
    <3> QED BY <1>6, <3>1, <3>2 DEF Accept, ServiceReturns, ServiceRaises, Readback, Outcomes
  <2>5. UNCHANGED <<control, asked, replies, rehearsing, dispatched, opened,
                    faults, breaks, rehearsals>>
    BY <1>6 DEF Accept, ServiceReturns, ServiceRaises, Readback, Close
  <2>6. DialogInv'
    BY <2>4, <2>5 DEF TypeInv, DialogInv
  <2> QED BY <1>3, <2>3, <2>4, <2>5, <2>6 DEF TypeInv, TypeOK
<1> QED BY <1>4, <1>5, <1>6, <1>7

LEMMA SavingTypes ==
  ASSUME TypeInv, EvidenceSaved \/ EvidenceRaises \/ EvidenceLost
  PROVE  TypeInv'
<1>1. TypeOK /\ EvidenceTypeOK /\ WriteInv
  BY DEF TypeInv, TypeOK
<1>2. SaveLands \/ SaveFails
  BY DEF EvidenceSaved, EvidenceRaises, EvidenceLost
<1>3. EvidenceTypeOK' /\ WriteInv' /\ writer.by \in Writers
  BY <1>1, <1>2, SaveTypes
<1>4. faults' \in 0..MaxFaults
  BY <1>1, PathAssumption DEF TypeOK, EvidenceSaved, EvidenceRaises, EvidenceLost
<1>5. UNCHANGED <<control, asked, rehearsing, dispatched, opened, breaks, rehearsals>>
  BY DEF EvidenceSaved, EvidenceRaises, EvidenceLost
<1> DEFINE after == Resumed(Returning)
<1>6. /\ after \in [DOMAIN calls -> Call]
      /\ \A j \in DOMAIN calls : after[j].stage \in {"closing", "closed"} =>
            after[j].outcome \in Outcomes
  <2>1. \A j \in DOMAIN calls : After(calls[j].stage) \in {"closing", "closed"} =>
           calls[j].stage \in {"closing", "closed"}
    BY DEF After
  <2> QED BY <1>1, <2>1, ResumedTypes DEF TypeInv, OutcomeInv
<1> HIDE DEF after
<1>7. calls' \in [DOMAIN calls -> Call] /\ OutcomeInv'
  <2>1. \A j \in DOMAIN calls : [after[j] EXCEPT !.stage = "over"] \in Call
    <3> TAKE j \in DOMAIN calls
    <3>1. after[j] \in Call
      BY <1>6
    <3> QED BY <3>1 DEF Call, Stages
  <2>2. calls' = after \/ calls' = [after EXCEPT ![writer.by].stage = "over"]
    BY DEF EvidenceSaved, EvidenceRaises, EvidenceLost, after
  <2>3. CASE calls' = [after EXCEPT ![writer.by].stage = "over"]
    <3>1. calls' = [j \in DOMAIN calls |-> IF j = writer.by THEN [after[j] EXCEPT !.stage = "over"]
                                                            ELSE after[j]]
      BY <1>6, <2>3
    <3>2. \A j \in DOMAIN calls : after[j] \in Call
      BY <1>6
    <3>3. \A j \in DOMAIN calls : [after[j] EXCEPT !.stage = "over"].stage = "over"
      BY <3>2 DEF Call
    <3> QED BY <1>6, <2>1, <3>1, <3>3 DEF OutcomeInv
  <2> QED BY <1>6, <2>2, <2>3 DEF OutcomeInv
<1>8. calls' \in Seq(Call) /\ Len(calls') <= MaxCalls /\ DOMAIN calls' = DOMAIN calls
  BY <1>1, <1>7, SameLength
<1>9. replies' \in Seq(Reply) /\ DialogInv'
  <2>1. CASE replies' = replies
    BY <1>1, <1>5, <1>8, <2>1 DEF TypeInv, DialogInv, TypeOK, Reply
  <2>2. CASE Answer(writer.by, "error") /\ writer.by \in DOMAIN calls
    BY <1>5, <1>8, <2>2, AnswerTypes
  <2>3. CASE Answer(writer.by, "error") /\ writer.by \notin DOMAIN calls
    BY <2>1, <2>3 DEF Answer, TypeInv, DialogInv
  <2> QED BY <2>1, <2>2, <2>3 DEF EvidenceSaved, EvidenceRaises, EvidenceLost
<1> QED BY <1>1, <1>3, <1>4, <1>5, <1>7, <1>8, <1>9 DEF TypeInv, TypeOK, Reply

LEMMA AroundTypes ==
  ASSUME TypeInv, StartRehearsal \/ EndRehearsal \/ Disconnect \/ Restart
  PROVE  TypeInv'
<1>1. TypeOK /\ EvidenceTypeOK /\ WriteInv
  BY DEF TypeInv, TypeOK
<1>2. EvidenceTypeOK' /\ WriteInv'
  <2>1. CASE UNCHANGED evidenceVars
    BY <2>1, StillTypes
  <2>2. CASE Reopened
    BY <1>1, <2>2 DEF Reopened, EvidenceTypeOK, WriteInv
  <2> QED BY <2>1, <2>2 DEF StartRehearsal, EndRehearsal, Disconnect, Restart
<1>3. /\ \A j \in DOMAIN calls : calls[j] \in Call /\ [calls[j] EXCEPT !.stage = "over"] \in Call
      /\ \A j \in DOMAIN calls : [calls[j] EXCEPT !.stage = "over"].stage = "over"
      /\ DOMAIN calls \subseteq Calls
  <2>1. DOMAIN calls \subseteq Calls /\ \A j \in DOMAIN calls : calls[j] \in Call
    BY <1>1, CallFacts
  <2>2. \A j \in DOMAIN calls : /\ [calls[j] EXCEPT !.stage = "over"] \in Call
                                /\ [calls[j] EXCEPT !.stage = "over"].stage = "over"
    BY <2>1 DEF Call, Stages
  <2> QED BY <2>1, <2>2
<1>4. /\ calls' \in Seq(Call) /\ Len(calls') <= MaxCalls /\ DOMAIN calls' = DOMAIN calls
      /\ OutcomeInv'
  <2>1. CASE calls' = calls
    BY <1>1, <2>1 DEF TypeOK, TypeInv, OutcomeInv
  <2>2. CASE \E lost : calls' = [j \in DOMAIN calls |->
              IF j \in lost THEN [calls[j] EXCEPT !.stage = "over"] ELSE calls[j]]
    <3>1. calls' \in [DOMAIN calls -> Call]
      BY <1>3, <2>2
    <3>2. OutcomeInv'
      BY <1>3, <2>2 DEF TypeInv, OutcomeInv
    <3> QED BY <1>1, <3>1, <3>2, SameLength
  <2>3. CASE calls' = [j \in DOMAIN calls |-> [calls[j] EXCEPT !.stage = "over"]]
    <3>1. calls' \in [DOMAIN calls -> Call]
      BY <1>3, <2>3
    <3>2. OutcomeInv'
      BY <1>3, <2>3 DEF OutcomeInv
    <3> QED BY <1>1, <3>1, <3>2, SameLength
  <2> QED BY <2>1, <2>2, <2>3 DEF StartRehearsal, EndRehearsal, Disconnect, Restart
<1>5. CASE StartRehearsal \/ EndRehearsal
  <2>1. DialogInv'
    BY <1>4, <1>5 DEF StartRehearsal, EndRehearsal, TypeInv, DialogInv
  <2>2. rehearsals' \in 0..MaxRehearsals /\ rehearsing' \in BOOLEAN
    <3>1. MaxRehearsals \in Nat /\ rehearsals \in 0..MaxRehearsals
      BY <1>1, PathAssumption DEF TypeOK
    <3>2. rehearsals' = rehearsals \/ (rehearsals < MaxRehearsals /\ rehearsals' = rehearsals + 1)
      BY <1>5 DEF StartRehearsal, EndRehearsal
    <3>3. rehearsing' \in BOOLEAN
      BY <1>1, <1>3, <1>5 DEF StartRehearsal, EndRehearsal, TypeOK
    <3> QED BY <3>1, <3>2, <3>3
  <2> QED BY <1>1, <1>2, <1>4, <1>5, <2>1, <2>2 DEF StartRehearsal, EndRehearsal, TypeInv, TypeOK
<1>6. CASE Disconnect \/ Restart
  <2>1. Rejected
    BY <1>6 DEF Disconnect, Restart
  <2>2. replies' \in Seq(Reply) /\ asked' = {}
    BY <2>1 DEF Rejected
  <2>3. control' \in Dialog
    BY <1>1, <2>1 DEF Rejected, TypeOK, Denied, Dialog, Phases, ControlStates, Terminal
  <2>4. DialogInv'
    <3>1. control \in Dialog
      BY <1>1 DEF TypeOK
    <3>2. control' = control \/ (asked # {} /\ control' = Denied)
      BY <2>1 DEF Rejected
    <3>3. Denied.controlId = control.controlId
      BY <3>1 DEF Denied, Dialog
    <3> QED BY <2>1, <2>2, <3>2, <3>3 DEF Rejected, TypeInv, DialogInv
  <2>5. breaks' \in 0..MaxBreaks /\ rehearsing' \in BOOLEAN
    <3>1. MaxBreaks \in Nat /\ breaks \in 0..MaxBreaks
      BY <1>1, PathAssumption DEF TypeOK
    <3>2. breaks < MaxBreaks /\ breaks' = breaks + 1
      BY <1>6 DEF Disconnect, Restart
    <3>3. rehearsing' \in BOOLEAN
      BY <1>1, <1>6 DEF Disconnect, Restart, TypeOK
    <3> QED BY <3>1, <3>2, <3>3
  <2> QED BY <1>1, <1>2, <1>4, <1>6, <2>2, <2>3, <2>4, <2>5 DEF Disconnect, Restart, TypeInv,
             TypeOK, Reply
<1> QED BY <1>5, <1>6

LEMMA InitTypes == Init => TypeInv
<1> SUFFICES ASSUME Init PROVE TypeInv
  OBVIOUS
<1>1. <<>> \in Seq(Call) /\ <<>> \in Seq(Reply) /\ <<>> \in Seq(Rows) /\ Len(<<>>) = 0
      /\ DOMAIN <<>> = {}
  BY EmptySeq
<1>2. control \in Dialog /\ control.phase = "idle"
  BY DEF Init, ControlInit, initialControlState, Dialog, Phases
<1>3. EvidenceTypeOK /\ WriteInv
  <2>1. 0 <= MaxRows
    BY EvidenceAssumption
  <2>2. /\ events = <<>> /\ logFile = <<>> /\ writer = NoSave /\ waiting = {}
        /\ unsaved = FALSE
    BY DEF Init, EvidenceInit
  <2> QED BY <1>1, <2>1, <2>2 DEF EvidenceTypeOK, WriteInv
<1>5. OutcomeInv
  BY <1>1 DEF Init, OutcomeInv
<1>4. DialogInv
  BY <1>1, <1>2 DEF Init, DialogInv
<1> QED BY <1>1, <1>2, <1>3, <1>4, <1>5, PathAssumption DEF Init, TypeInv, TypeOK, Reply

LEMMA StepTypes == TypeInv /\ [Next]_pathVars => TypeInv'
<1> SUFFICES ASSUME TypeInv, [Next]_pathVars PROVE TypeInv'
  OBVIOUS
<1>1. CASE Next
  BY <1>1, DialogTypes, HandlerTypes, SavingTypes, AroundTypes DEF Next, CompanionNext
<1>2. CASE UNCHANGED pathVars
  <2>1. EvidenceTypeOK' /\ WriteInv'
    BY <1>2, StillTypes DEF pathVars
  <2> QED BY <1>2, <2>1 DEF pathVars, TypeInv, TypeOK, DialogInv, OutcomeInv
<1> QED BY <1>1, <1>2

\* Every reachable state of the dialog, its requests, the answers on their way and
\* the evidence is one of those the types describe: what the handlers put together
\* (createConfiguredControlClient, ws_controls_execute, async_record) always fits.
THEOREM TypeCorrect == Spec => []TypeOK
<1>1. TypeInv => TypeOK
  BY DEF TypeInv
<1> QED BY <1>1, InitTypes, StepTypes, PTL DEF Spec

-----------------------------------------------------------------------------
(* Steps *)

CoverStays(i) == \A r : Covered(i, r) => Covered(i, r)'

DurableStays == \A i, s : Durable(i, s) => Durable(i, s)'

LEMMA WaitingKept ==
  ASSUME NEW i, Waiting(i), CoverStays(i), calls'[i] = calls[i]
  PROVE  Waiting(i)'
<1>1. PICK r : r = Awaited(i)
  OBVIOUS
<1>2. Awaited(i)' = r
  BY <1>1 DEF Awaited, Row
<1>3. CASE calls[i].stage \in Waits
  <2>1. Covered(i, r)'
    BY <1>1, <1>3 DEF Waiting, CoverStays
  <2> QED BY <1>2, <2>1 DEF Waiting, Covered
<1> QED BY <1>3 DEF Waiting

LEMMA AcceptedKept ==
  ASSUME AcceptedBeforeDispatch, DurableStays,
         \A i \in dispatched' : i \in dispatched \/ Durable(i, "accepted")
  PROVE  AcceptedBeforeDispatch'
<1> SUFFICES ASSUME NEW i \in dispatched', faults' = 0
             PROVE  Keeps(logFile, Row(i, "accepted"))'
  BY DEF AcceptedBeforeDispatch
<1>1. Durable(i, "accepted")
  BY DEF AcceptedBeforeDispatch, Durable
<1>2. Durable(i, "accepted")'
  BY <1>1 DEF DurableStays
<1> QED BY <1>2 DEF Durable

\* neither the evidence nor a request changes
LEMMA StillStep ==
  ASSUME IndInv, TypeInv', UNCHANGED <<evidenceVars, calls, dispatched, faults>>,
         Replied({}),
         \/ ~ShowsSuccess'
         \/ control'.result = control.result /\ control'.correlationId = control.correlationId
         \/ \E k \in DOMAIN replies : /\ control'.result = replies[k].answer
                                      /\ control'.correlationId = replies[k].call
  PROVE  IndInv'
<1>1. TypeInv /\ EvidenceTypeOK /\ EvidenceTypeOK' /\ SaveInv
  BY DEF IndInv, TypeInv, TypeOK
<1>2. /\ SaveInv' /\ logFile' = logFile /\ Savers' = Savers /\ Said' = Said
      /\ \A j, r : Covered(j, r) => Covered(j, r)'
  BY <1>1, StillLemma
<1>3. Extends(logFile, logFile')
  BY <1>1, <1>2, ExtendsSelf DEF EvidenceTypeOK
<1>4. DurableStays
  BY <1>1, <1>3, DurableKept DEF DurableStays
<1>5. WaitInv'
  <2>1. \A j \in DOMAIN calls : Waiting(j)'
    BY <1>2, WaitingKept DEF IndInv, WaitInv, CoverStays
  <2> QED BY <1>2, <2>1 DEF IndInv, WaitInv
<1>6. ProgressInv'
  <2>1. \A j \in DOMAIN calls : Progress(j)'
    BY <1>4, ProgressKept DEF IndInv, ProgressInv, DurableStays
  <2> QED BY <2>1 DEF ProgressInv
<1>7. ReplyInv'
  BY <1>4, RepliesKept DEF IndInv, DurableStays
<1>8. ClaimInv'
  BY <1>2, ClaimsKept DEF IndInv
<1>9. AcceptedBeforeDispatch'
  BY <1>4, AcceptedKept DEF IndInv
<1>10. ShownInv'
  <2>1. CASE ~ShowsSuccess' \/ (control'.result = control.result
                                /\ control'.correlationId = control.correlationId)
    BY <1>4, <2>1, ShownKept DEF IndInv, DurableStays
  <2>2. ASSUME ShowsSuccess', NEW k \in DOMAIN replies, control'.result = replies[k].answer,
               control'.correlationId = replies[k].call
        PROVE  ShownInv'
    <3>1. Promise(replies[k])
      BY DEF IndInv, ReplyInv
    <3>2. replies[k].call \in dispatched /\ Durable(replies[k].call, "readback_confirmed")
      BY <2>2, <3>1 DEF Promise, ShowsSuccess
    <3> QED BY <1>2, <2>2, <3>2 DEF ShownInv, Durable
  <2> QED BY <2>1, <2>2
<1> QED BY <1>2, <1>5, <1>6, <1>7, <1>8, <1>9, <1>10 DEF IndInv

\* a request moves on, and no save is involved
LEMMA MoveStep ==
  ASSUME IndInv, TypeInv', NEW i \in DOMAIN calls, NEW stage \in Stages \ Waits,
         calls[i].stage \notin Waits, calls[i].stage \in Ended => stage \in Ended,
         MoveTo(i, stage),
         UNCHANGED <<control, evidenceVars, rehearsing, faults>>,
         dispatched \subseteq dispatched',
         \A j \in dispatched' : j \in dispatched \/ Durable(j, "accepted"),
         NEW extra, Replied(extra), \A r \in extra : Promise(r)', Progress(i)'
  PROVE  IndInv'
<1>1. TypeInv /\ TypeOK /\ EvidenceTypeOK /\ EvidenceTypeOK' /\ SaveInv
  BY DEF IndInv, TypeInv, TypeOK
<1>2. /\ SaveInv' /\ logFile' = logFile /\ Savers' = Savers /\ Said' = Said
      /\ \A j, r : Covered(j, r) => Covered(j, r)'
  BY <1>1, StillLemma
<1>3. Extends(logFile, logFile')
  BY <1>1, <1>2, ExtendsSelf DEF EvidenceTypeOK
<1>4. DurableStays
  BY <1>1, <1>3, DurableKept DEF DurableStays
<1>5. /\ DOMAIN calls' = DOMAIN calls /\ calls'[i].stage = stage
      /\ \A j \in DOMAIN calls : j # i => calls'[j] = calls[j]
  BY <1>1, MoveLemma
<1>6. WaitInv'
  <2>1. i \notin Savers
    BY DEF IndInv, WaitInv
  <2>2. \A j \in DOMAIN calls : j # i => Waiting(j)'
    BY <1>2, <1>5, WaitingKept DEF IndInv, WaitInv, CoverStays
  <2>3. Waiting(i)'
    BY <1>5 DEF Waiting
  <2>4. \A j \in Savers : j \in DOMAIN calls /\ calls'[j].stage \in Waits
    BY <1>5, <2>1 DEF IndInv, WaitInv
  <2> QED BY <1>2, <1>5, <2>2, <2>3, <2>4 DEF WaitInv
<1>7. ProgressInv'
  <2>1. \A j \in DOMAIN calls : j # i => Progress(j)'
    BY <1>4, <1>5, ProgressKept DEF IndInv, ProgressInv, DurableStays
  <2> QED BY <1>5, <2>1 DEF ProgressInv
<1>8. ReplyInv'
  BY <1>4, RepliesKept DEF IndInv, DurableStays
<1>9. ClaimInv'
  BY <1>2, <1>5, ClaimsKept DEF IndInv
<1>10. AcceptedBeforeDispatch'
  BY <1>4, AcceptedKept DEF IndInv
<1>11. ShownInv'
  BY <1>4, ShownKept DEF IndInv, DurableStays
<1> QED BY <1>2, <1>6, <1>7, <1>8, <1>9, <1>10, <1>11 DEF IndInv

\* a request records a row
LEMMA RecordStep ==
  ASSUME IndInv, TypeInv', NEW i \in DOMAIN calls, NEW s \in ControlStates,
         Record(i, Row(i, s)), calls[i].stage \in {"sent", "calling", "recorded"},
         DOMAIN calls' = DOMAIN calls, \A j \in DOMAIN calls : j # i => calls'[j] = calls[j],
         calls'[i].stage \in Waits, Awaited(i)' = Row(i, s),
         s \in {"readback_confirmed", "result_unknown"} => calls'[i].stage \in Ended,
         s # "accepted" => i \in dispatched,
         UNCHANGED <<control, replies, rehearsing, dispatched, faults>>,
         Progress(i)'
  PROVE  IndInv'
<1>1. TypeInv /\ TypeOK /\ EvidenceTypeOK /\ EvidenceTypeOK' /\ SaveInv
  BY DEF IndInv, TypeInv, TypeOK
<1>2. i \in Writers /\ Row(i, s) \in Rows /\ i \notin Savers
  <2>1. i \in Writers /\ i \in Calls
    BY <1>1, CallFacts
  <2>2. i \notin Savers
    BY DEF IndInv, WaitInv, Waits
  <2> QED BY <2>1, <2>2, PathAssumption DEF Row
<1>3. /\ SaveInv' /\ logFile' = logFile /\ Savers' = Savers \cup {i}
      /\ Said' \subseteq Said \cup {Row(i, s)} /\ Covered(i, Row(i, s))'
      /\ \A j, r : j # i /\ Covered(j, r) => Covered(j, r)'
  BY <1>1, <1>2, RecordLemma
<1>4. Extends(logFile, logFile')
  BY <1>1, <1>3, ExtendsSelf DEF EvidenceTypeOK
<1>5. DurableStays
  BY <1>1, <1>4, DurableKept DEF DurableStays
<1>6. WaitInv'
  <2>1. \A j \in DOMAIN calls : j # i => Waiting(j)'
    BY <1>3, WaitingKept DEF IndInv, WaitInv, CoverStays
  <2>2. Waiting(i)'
    <3>1. PICK r : r = Row(i, s)
      OBVIOUS
    <3>2. Covered(i, r)' /\ Awaited(i)' = r
      BY <1>3, <3>1 DEF Row
    <3> QED BY <3>2 DEF Waiting, Covered
  <2>3. \A j \in Savers \cup {i} : j \in DOMAIN calls /\ calls'[j].stage \in Waits
    BY <1>2 DEF IndInv, WaitInv
  <2> QED BY <1>3, <2>1, <2>2, <2>3 DEF WaitInv
<1>7. ProgressInv'
  <2>1. \A j \in DOMAIN calls : j # i => Progress(j)'
    BY <1>5, ProgressKept DEF IndInv, ProgressInv, DurableStays
  <2> QED BY <2>1 DEF ProgressInv
<1>8. ReplyInv'
  <2>1. Replied({})
    BY DEF Replied
  <2> QED BY <1>5, <2>1, RepliesKept DEF IndInv, DurableStays
<1>9. ClaimInv'
  <2>1. \A row \in Said : Claim(row)
    BY DEF IndInv, ClaimInv
  <2>2. \A row \in Said : row.call = i => row.result \notin {"readback_confirmed", "result_unknown"}
    BY <2>1 DEF Claim, Ended
  <2>3. ASSUME NEW row \in Said
        PROVE  Claim(row)'
    <3>1. Row(row.call, "result_unknown") = Row(i, s) => row.call = i /\ s = "result_unknown"
      BY DEF Row
    <3> QED BY <1>3, <2>1, <2>2, <3>1 DEF Claim, Row
  <2>4. PICK new : new = Row(i, s)
    OBVIOUS
  <2>5. Claim(new)'
    <3>1. new.call = i /\ new.result = s
      BY <2>4 DEF Row
    <3>2. s = "readback_confirmed" => Row(i, "result_unknown") \notin Said \cup {Row(i, s)}
      BY <2>2 DEF Row
    <3> QED BY <1>3, <3>1, <3>2 DEF Claim, Row
  <2>6. \A row \in Said' : Claim(row)'
    BY <1>3, <2>3, <2>4, <2>5
  <2> QED BY <2>6 DEF ClaimInv
<1>10. AcceptedBeforeDispatch'
  BY <1>5, AcceptedKept DEF IndInv
<1>11. ShownInv'
  BY <1>5, ShownKept DEF IndInv, DurableStays
<1> QED BY <1>3, <1>6, <1>7, <1>8, <1>9, <1>10, <1>11 DEF IndInv

\* a save ends, well or badly, and those that waited for it go on
LEMMA SavingStep ==
  ASSUME IndInv, TypeInv', EvidenceSaved \/ EvidenceRaises \/ EvidenceLost
  PROVE  IndInv'
<1>1. TypeInv /\ TypeOK /\ EvidenceTypeOK /\ EvidenceTypeOK' /\ SaveInv
  BY DEF IndInv, TypeInv, TypeOK
<1>2. SaveLands \/ SaveFails
  BY DEF EvidenceSaved, EvidenceRaises, EvidenceLost
<1>3. /\ SaveInv' /\ Extends(logFile, logFile') /\ Savers' = Savers \ Returning
      /\ Said' \subseteq Said
      /\ \A j, r : Covered(j, r) => Covered(j, r)'
      /\ SaveLands => \A j \in Returning : \A r : Covered(j, r) => Keeps(logFile', r)
  BY <1>1, <1>2, SaveEndsLemma
<1>4. Returning \subseteq Savers /\ writer.by \in Returning
  BY <1>2 DEF Returning, Savers, SaveLands, SaveFails
<1>5. /\ faults \in Nat /\ UNCHANGED <<control, rehearsing, dispatched>>
      /\ faults' = 0 => faults = 0 /\ SaveLands
  BY <1>1 DEF TypeOK, EvidenceSaved, EvidenceRaises, EvidenceLost
<1>6. DurableStays
  BY <1>1, <1>3, <1>5, DurableKept DEF DurableStays
<1> DEFINE after == Resumed(Returning)
<1>7. /\ after \in [DOMAIN calls -> Call]
      /\ \A j \in DOMAIN calls :
            /\ after[j].outcome = calls[j].outcome
            /\ j \in Returning => after[j].stage = After(calls[j].stage)
            /\ j \notin Returning => after[j] = calls[j]
  BY <1>1, ResumedTypes
<1>8. calls' = after \/ calls' = [after EXCEPT ![writer.by].stage = "over"]
  BY DEF EvidenceSaved, EvidenceRaises, EvidenceLost
<1> HIDE DEF after
<1>9. /\ DOMAIN calls' = DOMAIN calls
      /\ \A j \in DOMAIN calls :
            /\ j \in Returning => /\ calls'[j].stage \in {After(calls[j].stage), "over"}
                                  /\ calls'[j].outcome = calls[j].outcome
            /\ j \notin Returning => calls'[j] = calls[j]
  <2>1. CASE calls' = after
    BY <1>7, <2>1
  <2>2. CASE calls' = [after EXCEPT ![writer.by].stage = "over"]
    <3>1. calls' = [j \in DOMAIN calls |-> IF j = writer.by THEN [after[j] EXCEPT !.stage = "over"]
                                                            ELSE after[j]]
      BY <1>7, <2>2
    <3>2. \A j \in DOMAIN calls : /\ [after[j] EXCEPT !.stage = "over"].stage = "over"
                                 /\ [after[j] EXCEPT !.stage = "over"].outcome = after[j].outcome
      <4>1. \A j \in DOMAIN calls : after[j] \in Call
        BY <1>7
      <4> QED BY <4>1 DEF Call
    <3> QED BY <1>4, <1>7, <3>1, <3>2
  <2> QED BY <1>8, <2>1, <2>2
<1>10. \A j \in DOMAIN calls \cap Returning : calls[j].stage \in Waits
  BY <1>4 DEF IndInv, WaitInv
<1>11. WaitInv'
  <2>1. \A j \in DOMAIN calls \ Returning : Waiting(j)'
    BY <1>3, <1>9, WaitingKept DEF IndInv, WaitInv, CoverStays
  <2>2. \A j \in DOMAIN calls \cap Returning : Waiting(j)'
    BY <1>9, <1>10 DEF Waiting, Waits, After
  <2>3. \A j \in Savers \ Returning : j \in DOMAIN calls /\ calls'[j].stage \in Waits
    BY <1>9 DEF IndInv, WaitInv
  <2> QED BY <1>3, <1>9, <2>1, <2>2, <2>3 DEF WaitInv
<1>12. ProgressInv'
  <2>1. \A j \in DOMAIN calls \ Returning : Progress(j)'
    BY <1>5, <1>6, <1>9, ProgressKept DEF IndInv, ProgressInv, DurableStays
  <2>2. ASSUME NEW j \in DOMAIN calls, j \in Returning
        PROVE  Progress(j)'
    <3>1. Progress(j) /\ Waiting(j) /\ calls[j].stage \in Waits
      BY <1>10, <2>2 DEF IndInv, ProgressInv, WaitInv
    <3>2. calls'[j].stage \in {After(calls[j].stage), "over"} /\ calls'[j].outcome = calls[j].outcome
      BY <1>9, <2>2
    <3>3. CASE calls'[j].stage = "over"
      BY <3>3 DEF Progress
    <3>4. CASE calls[j].stage = "accepting" /\ calls'[j].stage = "accepted"
      <4>1. faults' = 0 => Keeps(logFile', Row(j, "accepted"))
        BY <1>3, <1>5, <2>2, <3>1, <3>4 DEF Waiting, Awaited
      <4>2. Durable(j, "accepted")'
        BY <4>1 DEF Durable, Row
      <4> QED BY <3>4, <4>2 DEF Progress
    <3>5. CASE calls[j].stage = "recording" /\ calls'[j].stage = "recorded"
      BY <1>5, <3>1, <3>5 DEF Progress
    <3>6. CASE calls[j].stage = "closing" /\ calls'[j].stage = "closed"
      <4>1. faults' = 0 => Keeps(logFile', Row(j, calls[j].outcome))
        BY <1>3, <1>5, <2>2, <3>1, <3>6 DEF Waiting, Awaited
      <4>2. j \in dispatched'
        BY <1>5, <3>1, <3>6 DEF Progress
      <4> QED BY <3>2, <3>6, <4>1, <4>2 DEF Progress, Durable, Row
    <3> QED BY <3>1, <3>2, <3>3, <3>4, <3>5, <3>6 DEF Waits, After
  <2> QED BY <1>9, <2>1, <2>2 DEF ProgressInv
<1>13. ReplyInv'
  <2>1. PICK extra : Replied(extra) /\ \A r \in extra : r.answer = "error"
    <3>1. CASE Answer(writer.by, "error") /\ writer.by \in Calls
      <4>1. Replied({[call |-> writer.by, answer |-> "error"]})
        BY <1>1, <3>1, AnswerLemma
      <4> QED BY <4>1
    <3>2. CASE replies' = replies
      <4>1. Replied({})
        BY <3>2 DEF Replied
      <4> QED BY <4>1
    <3>3. writer.by \in Calls
      BY <1>1, <1>2, SaveTypes, PathAssumption DEF TypeInv
    <3> QED BY <3>1, <3>2, <3>3 DEF EvidenceSaved, EvidenceRaises, EvidenceLost
  <2>2. \A r \in extra : Promise(r)'
    BY <2>1 DEF Promise
  <2> QED BY <1>5, <1>6, <2>1, <2>2, RepliesKept DEF IndInv, DurableStays
<1>14. ClaimInv'
  <2>1. ASSUME NEW j \in DOMAIN calls, calls[j].stage \in Ended
        PROVE  calls'[j].stage \in Ended
    BY <1>9, <2>1 DEF Ended, After
  <2> QED BY <1>3, <1>5, <1>9, <2>1, ClaimsKept DEF IndInv
<1>15. AcceptedBeforeDispatch'
  BY <1>5, <1>6, AcceptedKept DEF IndInv
<1>16. ShownInv'
  BY <1>5, <1>6, ShownKept DEF IndInv, DurableStays
<1> QED BY <1>3, <1>11, <1>12, <1>13, <1>14, <1>15, <1>16 DEF IndInv

LEMMA SendStep ==
  ASSUME IndInv, TypeInv', NEW c \in Controls, NEW kind \in {"preview", "execute"},
         Send(kind, c), ~ShowsSuccess',
         UNCHANGED <<evidenceVars, replies, rehearsing, dispatched, faults>>
  PROVE  IndInv'
<1>1. TypeInv /\ TypeOK /\ EvidenceTypeOK /\ EvidenceTypeOK' /\ SaveInv
  BY DEF IndInv, TypeInv, TypeOK
<1>2. /\ SaveInv' /\ logFile' = logFile /\ Savers' = Savers /\ Said' = Said
      /\ \A j, r : Covered(j, r) => Covered(j, r)'
  BY <1>1, StillLemma
<1>3. Extends(logFile, logFile')
  BY <1>1, <1>2, ExtendsSelf DEF EvidenceTypeOK
<1>4. DurableStays
  BY <1>1, <1>3, DurableKept DEF DurableStays
<1> DEFINE new == Len(calls) + 1
<1>5. /\ DOMAIN calls' = DOMAIN calls \cup {new} /\ new \notin DOMAIN calls
      /\ calls'[new].stage = "sent"
      /\ \A j \in DOMAIN calls : calls'[j] = calls[j]
  BY <1>1, SendLemma
<1> HIDE DEF new
<1>6. WaitInv'
  <2>1. \A j \in DOMAIN calls : Waiting(j)'
    BY <1>2, <1>5, WaitingKept DEF IndInv, WaitInv, CoverStays
  <2>2. calls'[new].stage \notin Waits
    BY <1>5 DEF Waits
  <2>3. \A j \in Savers : j \in DOMAIN calls /\ calls'[j].stage \in Waits
    BY <1>5 DEF IndInv, WaitInv
  <2> QED BY <1>2, <1>5, <2>1, <2>2, <2>3 DEF WaitInv, Waiting
<1>7. ProgressInv'
  <2>1. \A j \in DOMAIN calls : Progress(j)'
    BY <1>4, <1>5, ProgressKept DEF IndInv, ProgressInv, DurableStays
  <2>2. \A j : calls'[j].stage = "sent" => Progress(j)'
    BY DEF Progress
  <2> QED BY <1>5, <2>1, <2>2 DEF ProgressInv
<1>8. ReplyInv'
  <2>1. Replied({})
    BY DEF Replied
  <2> QED BY <1>4, <2>1, RepliesKept DEF IndInv, DurableStays
<1>9. ClaimInv'
  BY <1>2, <1>5, ClaimsKept DEF IndInv
<1>10. AcceptedBeforeDispatch'
  BY <1>4, AcceptedKept DEF IndInv
<1>11. ShownInv'
  BY DEF ShownInv
<1> QED BY <1>2, <1>6, <1>7, <1>8, <1>9, <1>10, <1>11 DEF IndInv

\* the connection or the Companion is gone
LEMMA BreakStep ==
  ASSUME IndInv, TypeInv', Disconnect \/ Restart
  PROVE  IndInv'
<1>1. TypeInv /\ TypeOK /\ EvidenceTypeOK /\ EvidenceTypeOK' /\ SaveInv
  BY DEF IndInv, TypeInv, TypeOK
<1>2. \A j \in DOMAIN calls : [calls[j] EXCEPT !.stage = "over"].stage = "over"
  <2>1. \A j \in DOMAIN calls : calls[j] \in Call
    BY <1>1, CallFacts
  <2> QED BY <2>1 DEF Call
<1>3. /\ DOMAIN calls' = DOMAIN calls
      /\ \A j \in DOMAIN calls : calls'[j].stage = "over" \/ calls'[j] = calls[j]
      /\ Disconnect => \A j \in DOMAIN calls : calls[j].stage # "sent" => calls'[j] = calls[j]
      /\ Restart => \A j \in DOMAIN calls : calls'[j].stage = "over"
  <2>1. CASE Disconnect
    <3>1. PICK lost \in SUBSET {j \in DOMAIN calls : calls[j].stage = "sent"} :
             calls' = [j \in DOMAIN calls |->
                 IF j \in lost THEN [calls[j] EXCEPT !.stage = "over"] ELSE calls[j]]
      BY <2>1 DEF Disconnect
    <3>2. \A j \in DOMAIN calls :
             calls'[j] = IF j \in lost THEN [calls[j] EXCEPT !.stage = "over"] ELSE calls[j]
      BY <3>1
    <3>3. \A j \in DOMAIN calls : calls[j].stage # "sent" => j \notin lost
      OBVIOUS
    <3>4. ASSUME Restart PROVE \A j \in DOMAIN calls : calls'[j].stage = "over"
      BY <1>2, <3>4 DEF Restart
    <3> QED BY <1>2, <3>1, <3>2, <3>3, <3>4
  <2>2. CASE Restart /\ ~Disconnect
    BY <1>2, <2>2 DEF Restart
  <2> QED BY <2>1, <2>2
<1>4. /\ SaveInv' /\ logFile' = logFile /\ Said' \subseteq Said /\ Savers' \subseteq Savers
      /\ Disconnect /\ ~Restart => \A j, r : Covered(j, r) => Covered(j, r)'
      /\ Restart => Savers' = {}
  <2>1. CASE Restart
    BY <1>1, <2>1, ReopenedLemma DEF Restart
  <2>2. CASE Disconnect /\ ~Restart
    BY <1>1, <2>2, StillLemma DEF Disconnect
  <2> QED BY <2>1, <2>2
<1>5. /\ UNCHANGED <<dispatched, faults>> /\ (rehearsing' => rehearsing)
      /\ replies' = <<>>
  BY DEF Disconnect, Restart, Rejected
<1>6. Extends(logFile, logFile')
  BY <1>1, <1>4, ExtendsSelf DEF EvidenceTypeOK
<1>7. DurableStays
  BY <1>1, <1>5, <1>6, DurableKept DEF DurableStays
<1>8. \A j \in DOMAIN calls : calls'[j].stage = "over" => Waiting(j)' /\ Progress(j)'
  BY DEF Waiting, Waits, Progress
<1>9. WaitInv'
  <2>1. CASE Restart
    BY <1>3, <1>4, <1>8, <2>1 DEF WaitInv
  <2>2. CASE Disconnect /\ ~Restart
    <3>1. \A j \in DOMAIN calls : Waiting(j)'
      BY <1>3, <1>4, <1>8, <2>2, WaitingKept DEF IndInv, WaitInv, CoverStays
    <3>2. \A j \in Savers : j \in DOMAIN calls /\ calls'[j].stage \in Waits
      BY <1>3, <2>2 DEF IndInv, WaitInv, Waits
    <3> QED BY <1>3, <1>4, <3>1, <3>2 DEF WaitInv
  <2> QED BY <2>1, <2>2
<1>10. ProgressInv'
  <2>1. \A j \in DOMAIN calls : calls'[j] = calls[j] => Progress(j)'
    BY <1>5, <1>7, ProgressKept DEF IndInv, ProgressInv, DurableStays
  <2> QED BY <1>3, <1>8, <2>1 DEF ProgressInv
<1>11. ReplyInv'
  <2>1. DOMAIN <<>> = {}
    BY EmptySeq
  <2> QED BY <1>5, <2>1 DEF ReplyInv
<1>12. ClaimInv'
  <2>1. \A j \in DOMAIN calls : calls[j].stage \in Ended => calls'[j].stage \in Ended
    BY <1>3 DEF Ended
  <2> QED BY <1>3, <1>4, <1>5, <2>1, ClaimsKept DEF IndInv
<1>13. AcceptedBeforeDispatch'
  BY <1>5, <1>7, AcceptedKept DEF IndInv
<1>14. ShownInv'
  <2>1. control' = control \/ control' = Denied
    BY DEF Disconnect, Restart, Rejected
  <2>2. control \in Dialog
    BY <1>1 DEF TypeOK
  <2>3. Denied.result = "denied"
    BY <2>2 DEF Denied, Dialog
  <2>4. ~ShowsSuccess' \/ control' = control
    BY <2>1, <2>3 DEF ShowsSuccess
  <2> QED BY <1>5, <1>7, <2>4, ShownKept DEF IndInv, DurableStays
<1> QED BY <1>4, <1>9, <1>10, <1>11, <1>12, <1>13, <1>14 DEF IndInv

LEMMA DialogStep ==
  ASSUME IndInv, TypeInv', DialogNext \/ Deliver
  PROVE  IndInv'
<1>1. TypeInv /\ control \in Dialog
  BY DEF IndInv, TypeInv, TypeOK
<1>2. CASE \E c \in Controls : PressPreview(c)
  <2>1. PICK c \in Controls : PressPreview(c)
    BY <1>2
  <2>2. Send("preview", c) /\ control' = Selected(c)
        /\ UNCHANGED <<evidenceVars, replies, rehearsing, dispatched, faults>>
    BY <2>1 DEF PressPreview
  <2>3. ~ShowsSuccess'
    BY <2>2, PathAssumption
    DEF Selected, initialControlState, ShowsSuccess, ControlStates, Terminal
  <2> QED BY <2>2, <2>3, SendStep
<1>3. CASE PressRun
  <2>1. control.controlId \in Controls
    BY <1>1, <1>3 DEF PressRun, Offered, TypeInv, DialogInv, Dialog
  <2>2. Send("execute", control.controlId) /\ control' = Pending
        /\ UNCHANGED <<evidenceVars, replies, rehearsing, dispatched, faults>>
    BY <1>3 DEF PressRun
  <2>3. Pending.result = None
    BY <1>1 DEF Pending, Dialog
  <2>4. ~ShowsSuccess'
    BY <2>2, <2>3, PathAssumption DEF ShowsSuccess, ControlStates, Terminal
  <2> QED BY <2>1, <2>2, <2>4, SendStep
<1>4. CASE PressCancel \/ CloseDialog
  <2>1. control' = Cancelled \/ control' = initialControlState
    BY <1>4 DEF PressCancel, CloseDialog
  <2>2. Cancelled.result = "cancelled_before_dispatch" /\ initialControlState.result = None
    BY <1>1 DEF Cancelled, Dialog, initialControlState
  <2>3. ~ShowsSuccess'
    BY <2>1, <2>2, PathAssumption DEF ShowsSuccess, ControlStates, Terminal
  <2>4. UNCHANGED <<evidenceVars, calls, dispatched, faults, rehearsing>>
    BY <1>4 DEF PressCancel, CloseDialog
  <2>5. Replied({})
    <3>1. CASE replies' = replies
      BY <3>1 DEF Replied
    <3>2. CASE replies' = <<>>
      <4>1. DOMAIN <<>> = {}
        BY EmptySeq
      <4> QED BY <3>2, <4>1 DEF Replied
    <3> QED BY <1>4, <3>1, <3>2 DEF PressCancel, CloseDialog
  <2> QED BY <2>3, <2>4, <2>5, StillStep
<1>5. CASE Deliver
  <2>1. UNCHANGED <<evidenceVars, calls, dispatched, faults, rehearsing>>
        /\ replies # <<>> /\ replies' = Tail(replies)
    BY <1>5 DEF Deliver
  <2>2. replies \in Seq(Reply)
    BY <1>1 DEF TypeInv, TypeOK, Reply
  <2>3. 1 \in DOMAIN replies /\ Head(replies) = replies[1]
        /\ \A n \in DOMAIN replies' : n + 1 \in DOMAIN replies /\ replies'[n] = replies[n + 1]
    <3>1. /\ Tail(replies) \in Seq(Reply) /\ Len(Tail(replies)) = Len(replies) - 1
          /\ \A n \in 1..Len(Tail(replies)) : Tail(replies)[n] = replies[n + 1]
      BY <2>1, <2>2, HeadTailProperties
    <3>2. Len(replies) \in Nat \ {0} /\ DOMAIN replies = 1..Len(replies)
          /\ DOMAIN Tail(replies) = 1..Len(Tail(replies))
      BY <2>1, <2>2, <3>1, EmptySeq, LenProperties
    <3>3. Head(replies) = replies[1]
      BY <2>1
    <3>4. 1 \in 1..Len(replies)
      BY <3>2
    <3>5. \A n \in 1..Len(Tail(replies)) : n + 1 \in 1..Len(replies)
      BY <3>1, <3>2
    <3> QED BY <2>1, <3>1, <3>2, <3>3, <3>4, <3>5
  <2>4. Replied({})
    BY <2>3 DEF Replied
  <2> DEFINE i == Head(replies).call
             a == Head(replies).answer
  <2>5. control' = Previewed(calls[i].control) \/ control' = Denied \/ control' = Result(a, i)
    BY <1>5 DEF Deliver
  <2>6. /\ Denied.result = "denied"
        /\ Previewed(calls[i].control).result = control.result
        /\ Previewed(calls[i].control).correlationId = control.correlationId
        /\ Result(a, i).result = a /\ Result(a, i).correlationId = i
    BY <1>1 DEF Previewed, Denied, Result, Dialog
  <2>7. \/ ~ShowsSuccess'
        \/ control'.result = control.result /\ control'.correlationId = control.correlationId
        \/ \E k \in DOMAIN replies : /\ control'.result = replies[k].answer
                                     /\ control'.correlationId = replies[k].call
    <3>1. CASE control' = Result(a, i)
      BY <2>3, <2>6, <3>1
    <3>2. CASE control' # Result(a, i)
      BY <2>5, <2>6, <3>2 DEF ShowsSuccess
    <3> QED BY <3>1, <3>2
  <2> QED BY <2>1, <2>4, <2>7, StillStep
<1> QED BY <1>2, <1>3, <1>4, <1>5 DEF DialogNext

LEMMA RehearsalStep ==
  ASSUME IndInv, TypeInv', StartRehearsal \/ EndRehearsal
  PROVE  IndInv'
<1>1. UNCHANGED <<control, evidenceVars, calls, replies, dispatched, faults>>
  BY DEF StartRehearsal, EndRehearsal
<1>2. Replied({})
  BY <1>1 DEF Replied
<1> QED BY <1>1, <1>2, StillStep

LEMMA HandlerStep ==
  ASSUME IndInv, TypeInv', NEW i \in Calls,
         \/ AnswerPreview(i) \/ Refuse(i) \/ RefuseAtGate(i) \/ AnswerRefused(i)
         \/ Dispatch(i) \/ AnswerExecute(i)
         \/ Accept(i) \/ ServiceReturns(i) \/ ServiceRaises(i) \/ Readback(i)
  PROVE  IndInv'
<1>1. i \in DOMAIN calls
  BY DEF AnswerPreview, Refuse, RefuseAtGate, AnswerRefused, Dispatch, AnswerExecute, Accept, ServiceReturns,
     ServiceRaises, Readback, FirstSent, MayCall, At
<1>2. TypeInv /\ TypeOK /\ Progress(i)
  BY <1>1 DEF IndInv, TypeInv, ProgressInv
<1>3. CASE AnswerPreview(i) \/ Refuse(i) \/ AnswerRefused(i) \/ AnswerExecute(i)
  <2>1. MoveTo(i, "over") /\ calls[i].stage \in {"sent", "refusing", "closed"}
        /\ UNCHANGED <<control, evidenceVars, rehearsing, dispatched, faults>>
    BY <1>3 DEF AnswerPreview, Refuse, AnswerRefused, AnswerExecute, FirstSent, At
  <2>2. PICK a : /\ Answer(i, a) /\ a \in ControlStates \cup {"preview", "error"}
                 /\ a \notin {"preview", "error"} => calls[i].stage = "closed" /\ a = calls[i].outcome
    <3>1. At(i, "closed") => calls[i].outcome \in ControlStates
      BY <1>1, <1>2 DEF At, TypeInv, OutcomeInv, Outcomes, ControlStates, Terminal
    <3> QED BY <1>3, <3>1 DEF AnswerPreview, Refuse, AnswerRefused, AnswerExecute, At
  <2> DEFINE r == [call |-> i, answer |-> a]
  <2>3. Replied({r})
    BY <1>2, <2>2, AnswerLemma
  <2>4. Promise(r)'
    <3>1. a = "readback_confirmed" => i \in dispatched /\ Durable(i, "readback_confirmed")
      BY <1>2, <2>2 DEF Progress
    <3>2. a = "readback_confirmed" => i \in dispatched' /\ Durable(i, "readback_confirmed")'
      BY <2>1, <3>1 DEF Durable, evidenceVars
    <3> QED BY <3>2 DEF Promise
  <2>5. calls'[i].stage = "over"
    BY <1>1, <1>2, <2>1, MoveLemma DEF Stages
  <2>6. Progress(i)'
    BY <2>5 DEF Progress
  <2> HIDE DEF r
  <2>7. \A x \in {r} : Promise(x)'
    <3>1. PICK x : x = r /\ Promise(x)'
      BY <2>4 DEF r
    <3> QED BY <3>1
  <2> QED BY <1>1, <2>1, <2>3, <2>6, <2>7, MoveStep DEF Stages, Waits, Ended
<1>4. CASE Dispatch(i)
  <2>1. MoveTo(i, "calling") /\ calls[i].stage = "accepted" /\ dispatched' = dispatched \cup {i}
        /\ UNCHANGED <<control, evidenceVars, replies, rehearsing, faults>>
    BY <1>4 DEF Dispatch, MayCall, At
  <2>2. calls'[i].stage = "calling"
    BY <1>1, <1>2, <2>1, MoveLemma DEF Stages
  <2>3. Progress(i)'
    BY <2>1, <2>2 DEF Progress
  <2>4. \A j \in dispatched' : j \in dispatched \/ Durable(j, "accepted")
    BY <1>2, <2>1 DEF Progress
  <2>5. Replied({})
    BY <2>1 DEF Replied
  <2> QED BY <1>1, <2>1, <2>3, <2>4, <2>5, MoveStep DEF Stages, Waits, Ended
<1>5. CASE Accept(i) \/ ServiceReturns(i)
  <2>1. PICK s \in {"accepted", "dispatched"}, stage \in {"accepting", "recording"} :
            /\ MoveTo(i, stage) /\ Record(i, Row(i, s))
            /\ s = "accepted" => stage = "accepting" /\ calls[i].stage = "sent" /\ ~rehearsing
            /\ s = "dispatched" => stage = "recording" /\ calls[i].stage = "calling"
    BY <1>5 DEF Accept, ServiceReturns, Gate, FirstSent, At
  <2>2. UNCHANGED <<control, replies, rehearsing, dispatched, faults>>
    BY <1>5 DEF Accept, ServiceReturns
  <2>3. /\ DOMAIN calls' = DOMAIN calls /\ calls'[i].stage = stage
        /\ \A j \in DOMAIN calls : j # i => calls'[j] = calls[j]
    BY <1>1, <1>2, <2>1, MoveLemma DEF Stages
  <2>4. Awaited(i)' = Row(i, s)
    BY <2>1, <2>3 DEF Awaited, Row
  <2>5. s = "dispatched" => i \in dispatched
    BY <1>2, <2>1 DEF Progress
  <2>6. Progress(i)'
    BY <2>1, <2>2, <2>3, <2>5 DEF Progress
  <2>7. s \in ControlStates /\ stage \in Waits /\ calls[i].stage \in {"sent", "calling", "recorded"}
    BY <2>1 DEF ControlStates, Waits
  <2> QED BY <1>1, <2>1, <2>2, <2>3, <2>4, <2>5, <2>6, <2>7, RecordStep
<1>6. CASE ServiceRaises(i) \/ Readback(i)
  <2>1. PICK s \in Outcomes : Close(i, s) /\ calls[i].stage \in {"calling", "recorded"}
    BY <1>6 DEF ServiceRaises, Readback, At, Outcomes
  <2>2. /\ UNCHANGED <<control, replies, rehearsing, dispatched, faults>>
        /\ Record(i, Row(i, s)) /\ s \in ControlStates
    BY <2>1 DEF Close, Outcomes, ControlStates, Terminal
  <2>3. /\ DOMAIN calls' = DOMAIN calls /\ calls'[i].stage = "closing" /\ calls'[i].outcome = s
        /\ \A j \in DOMAIN calls : j # i => calls'[j] = calls[j]
    BY <1>1, <1>2, <2>1, <2>2, CloseLemma
  <2>4. Awaited(i)' = Row(i, s)
    BY <2>3 DEF Awaited, Row
  <2>5. i \in dispatched
    BY <1>2, <2>1 DEF Progress
  <2>6. Progress(i)'
    BY <2>2, <2>3, <2>5 DEF Progress
  <2> QED BY <1>1, <2>1, <2>2, <2>3, <2>4, <2>5, <2>6, RecordStep DEF Waits, Ended
<1>7. CASE RefuseAtGate(i)
  <2>1. MoveTo(i, "refusing") /\ calls[i].stage = "sent"
        /\ UNCHANGED <<control, evidenceVars, replies, rehearsing, dispatched, faults>>
    BY <1>7 DEF RefuseAtGate, FirstSent, At
  <2>2. calls'[i].stage = "refusing"
    BY <1>1, <1>2, <2>1, MoveLemma DEF Stages
  <2>3. Progress(i)'
    BY <2>2 DEF Progress
  <2>4. Replied({})
    BY <2>1 DEF Replied
  <2> QED BY <1>1, <2>1, <2>3, <2>4, MoveStep DEF Stages, Waits, Ended
<1> QED BY <1>3, <1>4, <1>5, <1>6, <1>7

LEMMA InitInd == Init => IndInv
<1> SUFFICES ASSUME Init PROVE IndInv
  OBVIOUS
<1>1. TypeInv
  BY InitTypes
<1>2. /\ events = <<>> /\ logFile = <<>> /\ writer = NoSave /\ waiting = {} /\ unsaved = FALSE
      /\ calls = <<>> /\ replies = <<>> /\ dispatched = {} /\ control = initialControlState
  BY DEF Init, EvidenceInit, ControlInit
<1>3. <<>> \in Seq(Rows) /\ DOMAIN <<>> = {}
  BY EmptySeq
<1>4. SaveInv
  BY <1>2, <1>3, ExtendsSelf DEF SaveInv
<1>5. Savers = {} /\ Said = {}
  BY <1>2, <1>3 DEF Savers, Said, Logs
<1>6. WaitInv /\ ProgressInv /\ ReplyInv /\ ClaimInv /\ AcceptedBeforeDispatch
  BY <1>2, <1>3, <1>5 DEF WaitInv, ProgressInv, ReplyInv, ClaimInv, AcceptedBeforeDispatch
<1>7. ShownInv
  BY <1>2, PathAssumption
  DEF ShownInv, ShowsSuccess, initialControlState, ControlStates, Terminal
<1> QED BY <1>1, <1>4, <1>6, <1>7 DEF IndInv

LEMMA StepInd == IndInv /\ [Next]_pathVars => IndInv'
<1> SUFFICES ASSUME IndInv, [Next]_pathVars PROVE IndInv'
  OBVIOUS
<1>1. TypeInv'
  BY StepTypes DEF IndInv
<1>2. CASE Next
  BY <1>1, <1>2, DialogStep, HandlerStep, SavingStep, RehearsalStep, BreakStep
  DEF Next, CompanionNext
<1>3. CASE UNCHANGED pathVars
  <2>1. UNCHANGED <<control, evidenceVars, calls, replies, rehearsing, dispatched,
                    faults>>
    BY <1>3 DEF pathVars
  <2>2. Replied({})
    BY <2>1 DEF Replied
  <2> QED BY <1>1, <2>1, <2>2, StillStep
<1> QED BY <1>2, <1>3

-----------------------------------------------------------------------------
(* The properties *)

\* Closing the dialog forgets what it asked for, so nothing older than the dialog
\* is ever shown as its success (controlReducer, ControlDialog).
LEMMA FreshStep ==
  ASSUME TypeInv, FreshInv, [Next]_pathVars
  PROVE  FreshInv'
<1>1. control \in Dialog /\ opened \in Nat /\ asked \subseteq DOMAIN calls
      /\ DOMAIN calls \subseteq Nat /\ calls \in Seq(Call)
  BY CallFacts DEF TypeInv, TypeOK, DialogInv, Calls
<1>2. CASE CloseDialog
  <2>1. /\ opened' = Len(calls) /\ calls' = calls /\ asked' = {} /\ replies' = <<>>
        /\ control' = initialControlState
    BY <1>2 DEF CloseDialog
  <2>2. Len(calls) \in {0} \cup DOMAIN calls
    BY <1>1, LenProperties
  <2>3. ~ShowsSuccess'
    BY <2>1, PathAssumption DEF initialControlState, ShowsSuccess, ControlStates, Terminal
  <2> QED BY <2>1, <2>2, <2>3 DEF FreshInv
<1>3. ASSUME NEW kind \in {"preview", "execute"}, NEW c \in Controls, Send(kind, c),
             UNCHANGED <<replies, opened>>, ~ShowsSuccess'
      PROVE  FreshInv'
  <2>1. DOMAIN calls \subseteq DOMAIN calls' /\ asked' = asked \cup {Len(calls) + 1}
    BY <1>3, SendLemma DEF Send
  <2>2. Len(calls) + 1 > opened
    BY <1>1, LenProperties DEF FreshInv
  <2> QED BY <1>3, <2>1, <2>2 DEF FreshInv
<1>4. ASSUME NEW c \in Controls, PressPreview(c)
      PROVE  FreshInv'
  <2>1. ~ShowsSuccess'
    BY <1>4, PathAssumption
    DEF PressPreview, Selected, initialControlState, ShowsSuccess, ControlStates, Terminal
  <2> QED BY <1>3, <1>4, <2>1 DEF PressPreview
<1>5. CASE PressRun
  <2>1. control.controlId \in Controls
    BY <1>1, <1>5 DEF PressRun, Offered, TypeInv, DialogInv, Dialog
  <2>2. ~ShowsSuccess'
    BY <1>1, <1>5, PathAssumption DEF PressRun, Pending, Dialog, ShowsSuccess, ControlStates, Terminal
  <2> QED BY <1>3, <1>5, <2>1, <2>2 DEF PressRun
<1>6. ASSUME UNCHANGED opened, DOMAIN calls' = DOMAIN calls, asked' \subseteq asked,
             \A n \in DOMAIN replies' : \/ replies'[n].call \in asked
                                       \/ \E k \in DOMAIN replies : replies'[n] = replies[k],
             \/ ~ShowsSuccess'
             \/ control'.result = control.result /\ control'.correlationId = control.correlationId
             \/ \E k \in DOMAIN replies : control'.correlationId = replies[k].call
      PROVE  FreshInv'
  BY <1>6 DEF FreshInv, ShowsSuccess
<1>7. CASE Deliver
  <2>1. /\ UNCHANGED <<calls, opened>> /\ asked' \subseteq asked
        /\ replies # <<>> /\ replies' = Tail(replies)
    BY <1>7 DEF Deliver
  <2>2. replies \in Seq(Reply)
    BY DEF TypeInv, TypeOK, Reply
  <2>3. /\ Tail(replies) \in Seq(Reply) /\ Len(Tail(replies)) = Len(replies) - 1
        /\ \A n \in 1..Len(Tail(replies)) : Tail(replies)[n] = replies[n + 1]
    BY <2>1, <2>2, HeadTailProperties
  <2>4. /\ Len(replies) \in Nat \ {0} /\ DOMAIN replies = 1..Len(replies)
        /\ DOMAIN Tail(replies) = 1..Len(Tail(replies)) /\ Head(replies) = replies[1]
    BY <2>1, <2>2, <2>3, EmptySeq, LenProperties
  <2>5. 1 \in 1..Len(replies) /\ \A n \in 1..Len(Tail(replies)) : n + 1 \in 1..Len(replies)
    BY <2>3, <2>4
  <2> DEFINE i == Head(replies).call
             a == Head(replies).answer
  <2>6. control' = Previewed(calls[i].control) \/ control' = Denied \/ control' = Result(a, i)
    BY <1>7 DEF Deliver
  <2>7. /\ Denied.result = "denied"
        /\ Previewed(calls[i].control).result = control.result
        /\ Previewed(calls[i].control).correlationId = control.correlationId
        /\ Result(a, i).correlationId = i
    BY <1>1 DEF Previewed, Denied, Result, Dialog
  <2>8. \/ ~ShowsSuccess'
        \/ control'.result = control.result /\ control'.correlationId = control.correlationId
        \/ \E k \in DOMAIN replies : control'.correlationId = replies[k].call
    <3>1. CASE control' = Result(a, i)
      BY <2>4, <2>5, <2>7, <3>1
    <3>2. CASE control' # Result(a, i)
      BY <2>6, <2>7, <3>2 DEF ShowsSuccess
    <3> QED BY <3>1, <3>2
  <2> QED BY <1>6, <2>1, <2>3, <2>4, <2>5, <2>8
<1>8. CASE PressCancel
  <2>1. UNCHANGED <<calls, asked, replies, opened>> /\ control' = Cancelled
    BY <1>8 DEF PressCancel
  <2>2. ~ShowsSuccess'
    BY <1>1, <2>1 DEF Cancelled, Dialog, ShowsSuccess
  <2> QED BY <1>6, <2>1, <2>2
<1>9. ASSUME NEW i, NEW a, Answer(i, a), UNCHANGED <<control, asked, opened>>,
             DOMAIN calls' = DOMAIN calls, i \in Calls, a \in ControlStates \cup {"preview", "error"}
      PROVE  FreshInv'
  <2>1. CASE i \in asked
    <3>1. Replied({[call |-> i, answer |-> a]})
      BY <1>9, AnswerLemma DEF TypeInv
    <3> QED BY <1>6, <1>9, <2>1, <3>1 DEF Replied
  <2>2. CASE i \notin asked
    BY <1>6, <1>9, <2>2 DEF Answer
  <2> QED BY <2>1, <2>2
<1>10. CASE \E i \in Calls : AnswerPreview(i) \/ Refuse(i) \/ AnswerRefused(i) \/ AnswerExecute(i)
  <2>1. PICK i \in Calls : AnswerPreview(i) \/ Refuse(i) \/ AnswerRefused(i) \/ AnswerExecute(i)
    BY <1>10
  <2>2. At(i, "closed") => calls[i].outcome \in ControlStates
    BY DEF At, TypeInv, OutcomeInv, Outcomes, ControlStates, Terminal
  <2>3. /\ UNCHANGED <<control, asked, opened>> /\ MoveTo(i, "over")
        /\ \E a \in ControlStates \cup {"preview", "error"} : Answer(i, a)
    BY <2>1, <2>2 DEF AnswerPreview, Refuse, AnswerRefused, AnswerExecute
  <2>4. DOMAIN calls' = DOMAIN calls
    BY <2>3 DEF MoveTo
  <2> QED BY <1>9, <2>3, <2>4
<1>11. CASE \E i \in Calls : \/ RefuseAtGate(i) \/ Accept(i) \/ Dispatch(i) \/ ServiceReturns(i)
                            \/ ServiceRaises(i) \/ Readback(i)
  <2>1. /\ UNCHANGED <<control, asked, replies, opened>> /\ DOMAIN calls' = DOMAIN calls
    BY <1>11 DEF RefuseAtGate, Accept, Dispatch, ServiceReturns, ServiceRaises, Readback, Close, MoveTo
  <2> QED BY <1>6, <2>1
<1>12. CASE EvidenceSaved \/ EvidenceRaises \/ EvidenceLost
  <2>1. UNCHANGED <<control, asked, opened>> /\ DOMAIN calls' = DOMAIN calls
    BY <1>12 DEF EvidenceSaved, EvidenceRaises, EvidenceLost, Resumed
  <2>2. writer.by \in Calls
    BY <1>12, SaveTypes, PathAssumption
    DEF TypeInv, TypeOK, EvidenceSaved, EvidenceRaises, EvidenceLost
  <2>3. replies' = replies \/ Answer(writer.by, "error")
    BY <1>12 DEF EvidenceSaved, EvidenceRaises, EvidenceLost
  <2> QED BY <1>6, <1>9, <2>1, <2>2, <2>3
<1>13. CASE StartRehearsal \/ EndRehearsal \/ UNCHANGED pathVars
  BY <1>6, <1>13 DEF StartRehearsal, EndRehearsal, pathVars
<1>14. CASE Disconnect \/ Restart
  <2>1. UNCHANGED opened /\ DOMAIN calls' = DOMAIN calls /\ Rejected
    BY <1>14 DEF Disconnect, Restart
  <2>2. asked' = {} /\ replies' = <<>> /\ (control' = control \/ control' = Denied)
    BY <2>1 DEF Rejected
  <2>3. Denied.result = "denied"
    BY <1>1 DEF Denied, Dialog
  <2> QED BY <1>6, <2>1, <2>2, <2>3 DEF ShowsSuccess
<1> QED BY <1>2, <1>4, <1>5, <1>7, <1>8, <1>10, <1>11, <1>12, <1>13, <1>14
    DEF Next, DialogNext, CompanionNext

\* The inductive invariant holds in every reachable state: what waits, what is
\* being written and what was answered stay in step (async_record and Store).
LEMMA Inductive == Spec => []IndInv
BY InitInd, StepInd, PTL DEF Spec

\* What the dialog shows belongs to it (the answers to a closed dialog go nowhere).
LEMMA Fresh == Spec => []FreshInv
<1>1. Init => FreshInv
  BY PathAssumption DEF Init, ControlInit, initialControlState, FreshInv, ShowsSuccess,
     ControlStates, Terminal
<1>2. IndInv /\ FreshInv /\ [Next]_pathVars => FreshInv'
  BY FreshStep DEF IndInv
<1> QED BY <1>1, <1>2, Inductive, PTL DEF Spec

\* No service is called before its "accepted" row is on disk, however saves are
\* merged and wherever the Companion dies, as long as no write fails
\* (ws_controls_execute awaits async_record before async_call).
THEOREM AcceptedFirst == Spec => []AcceptedBeforeDispatch
<1>1. IndInv => AcceptedBeforeDispatch
  BY DEF IndInv
<1> QED BY <1>1, Inductive, PTL

\* A success on display belongs to a request of this very dialog that reached the plant,
\* and the evidence on disk confirms it (isControlSuccess, ws_controls_execute).
THEOREM SuccessRecorded == Spec => []SuccessIsRecorded
<1>1. IndInv /\ FreshInv => SuccessIsRecorded
  BY DEF IndInv, FreshInv, ShownInv, Durable, SuccessIsRecorded
<1> QED BY <1>1, Inductive, Fresh, PTL

\* Neither the memory nor the file ever claims an effect that was not attempted, nor
\* a confirmation beside an unknown result (the order of ws_controls_execute's rows).
THEOREM HonestEvidence == Spec => []EvidenceIsHonest
<1>1. IndInv => EvidenceIsHonest
  <2> SUFFICES ASSUME IndInv, NEW log \in {events, logFile}, NEW n \in DOMAIN log
               PROVE  /\ log[n].result # "accepted" => log[n].call \in dispatched
                      /\ log[n].result = "readback_confirmed" =>
                            Row(log[n].call, "result_unknown") \notin {log[m] : m \in DOMAIN log}
    BY DEF EvidenceIsHonest
  <2>1. log \in Logs /\ \A m \in DOMAIN log : log[m] \in Said
    BY DEF Logs, Said
  <2>2. Claim(log[n])
    BY <2>1 DEF IndInv, ClaimInv
  <2> QED BY <2>1, <2>2 DEF Claim
<1> QED BY <1>1, Inductive, PTL

\* The file only ever gains rows on top, however saves are merged, fail or are cut
\* off by a restart, until the retention drops the oldest (_prune, async_save).
THEOREM AppendOnly == Spec => EvidenceAppendOnly
<1>1. IndInv /\ [Next]_pathVars => [Extends(logFile, logFile')]_evidenceVars
  <2> SUFFICES ASSUME IndInv, [Next]_pathVars
               PROVE  Extends(logFile, logFile') \/ UNCHANGED evidenceVars
    OBVIOUS
  <2>1. EvidenceTypeOK /\ SaveInv
    BY DEF IndInv, TypeInv, TypeOK
  <2>2. CASE logFile' = logFile
    BY <2>1, <2>2, ExtendsSelf DEF EvidenceTypeOK
  <2>3. CASE SaveLands \/ SaveFails
    BY <2>1, <2>3, SaveEndsLemma
  <2>4. logFile' = logFile \/ SaveLands \/ SaveFails
    BY DEF Next, DialogNext, CompanionNext, PressPreview, PressRun, PressCancel, CloseDialog,
       Deliver, AnswerPreview, Refuse, RefuseAtGate, AnswerRefused, Accept, Dispatch, ServiceReturns, ServiceRaises, Readback,
       AnswerExecute, Close, Record, EvidenceSaved, EvidenceRaises, EvidenceLost, StartRehearsal,
       EndRehearsal, Disconnect, Restart, Reopened, pathVars, evidenceVars
  <2> QED BY <2>2, <2>3, <2>4
<1> QED BY <1>1, Inductive, PTL DEF Spec, EvidenceAppendOnly

=============================================================================
