--------------------------- MODULE AlarmLifecycle ---------------------------
(***************************************************************************)
(* The alarms of one entity in the Companion (GltStore in __init__.py with *)
(* alarm_engine.py): the scan of a state change, alarm_transition with its *)
(* save and its notification, delayed transitions, acknowledge, shelve,    *)
(* the grace after a start and what a restart finds in the Store.          *)
(*                                                                         *)
(* A coroutine runs up to its next await in one step.  Alarms are numbered *)
(* in the order a scan visits them.  Conditions and hysteresis are reduced *)
(* to the class of the value; a maintenance flag acts like a shelf.  A     *)
(* reload of the entry, whose old manager lives on in what it awaits, is   *)
(* left out: a restart is one of the process.                              *)
(***************************************************************************)
EXTENDS Integers

CONSTANTS
    N,            \* alarms of the entity
    Delayed,      \* those with delay_seconds > 0
    ByInactive,   \* those configured by inactive_states
    Workers,      \* names for coroutines that are suspended at an await
    NoSave, Idle,
    MaxChanges,   \* bound: state changes of the entity
    MaxActs,      \* bound: acknowledgements and shelves
    MaxRestarts,  \* bound: restarts of Home Assistant
    MaxFaults     \* bound: writes of the Store that are lost

VARIABLES
    value,        \* what the entity reports
    phase,        \* "starting", "grace" or "open"
    alarmState,   \* the rows in memory
    sleeping,     \* alarms whose delayed transition is asleep
    workers,      \* the suspended coroutines
    stored,       \* the rows on disk
    writer,       \* the save being written, or NoSave
    waiting,      \* workers that wait for the writer to end
    unsaved,      \* the newest data none has taken up yet, or NoSave
    expired,      \* alarms whose shelf is over
    withheld,     \* history: the last value was not decided for these
    stale,        \* history: these were decided on a value no longer true
    broken,       \* history: a normal value was decided since the delay began
    rearmed,      \* history: these sleep the rest of a delay from before a start
    notified,     \* history: occurrences a notification was sent for
    confirmed,    \* history: acknowledgements and shelves answered
    changes, acts, restarts, faults

storeVars   == <<stored, writer, waiting, unsaved>>
historyVars == <<withheld, stale, broken, rearmed, notified, confirmed>>
boundVars   == <<changes, acts, restarts, faults>>
alarmVars   == <<value, phase, alarmState, sleeping, workers, storeVars, expired,
                 historyVars, boundVars>>

Alarms == 1..N
Values == {"normal", "alarm", "gone"}
Row    == [active : BOOLEAN, acked : BOOLEAN, shelved : BOOLEAN,
           anchored : BOOLEAN,         \* delay_anchor is set
           occurrence : Nat]        \* which one: how often it was cleared before
Worker == [does : {"raise", "clear", "ack", "shelve"}, alarm : Alarms,
           occurrence : Nat,
           scan : BOOLEAN,             \* a scan, which goes on to the next alarms
           raw : Values,               \* the value a scan was called with
           task : BOOLEAN,             \* registered in _alarm_tasks
           at : {"saving", "saved", "notifying"}]
Rows == [Alarms -> Row]
Save == [by : Workers, rows : Rows]

ASSUME AlarmAssumption ==
    /\ {N, MaxChanges, MaxActs, MaxRestarts, MaxFaults} \subseteq Nat
    /\ Delayed \subseteq Alarms /\ ByInactive \subseteq Alarms
    /\ NoSave \notin Save \cup Rows /\ Idle \notin Worker

Fresh == [a \in Alarms |-> [active |-> FALSE, acked |-> FALSE, shelved |-> FALSE,
                            anchored |-> FALSE, occurrence |-> 0]]

Init ==
    /\ value = "gone" /\ phase = "starting"
    /\ alarmState = Fresh /\ stored = Fresh
    /\ sleeping = {} /\ workers = [w \in Workers |-> Idle]
    /\ writer = NoSave /\ waiting = {} /\ unsaved = NoSave
    /\ expired = {}
    /\ withheld = Alarms /\ stale = {} /\ broken = {} /\ rearmed = {}
    /\ notified = {} /\ confirmed = {}
    /\ changes = 0 /\ acts = 0 /\ restarts = 0 /\ faults = 0

-----------------------------------------------------------------------------
(* The Store: one save is written at a time, those that wait are merged. *)

AsyncSave(w) ==
    IF writer = NoSave
    THEN writer' = [by |-> w, rows |-> alarmState'] /\ UNCHANGED <<stored, waiting, unsaved>>
    ELSE /\ waiting' = waiting \cup {w} /\ unsaved' = alarmState'
         /\ UNCHANGED <<stored, writer>>

\* workers whose async_save returns when the writer ends
Returning == {writer.by} \cup (IF unsaved = NoSave THEN waiting ELSE {})

NextSave ==
    /\ \/ unsaved # NoSave /\ \E w \in waiting :
             writer' = [by |-> w, rows |-> unsaved] /\ waiting' = waiting \ {w}
       \/ unsaved = NoSave /\ writer' = NoSave /\ waiting' = {}
    /\ unsaved' = NoSave
    /\ workers' = [w \in Workers |->
          IF w \in Returning /\ workers[w] # Idle THEN [workers[w] EXCEPT !.at = "saved"]
                                                  ELSE workers[w]]

Landed == writer # NoSave /\ stored' = writer.rows /\ NextSave

-----------------------------------------------------------------------------
(* process_state_change *)

\* suppression_for
Suppressed(a) == alarmState[a].acked \/ (alarmState[a].shelved /\ a \notin expired)

\* decide, and the grace: the value is acted on
Decides(a, raw) == raw # "gone" /\ ~Suppressed(a) /\ phase = "open"

\* mutant: an alarm without a delay waits, too
PendsAlways(a, raw) == Decides(a, raw) /\ raw = "alarm" /\ ~alarmState[a].active

\* "delay_pending"
Pends(a, raw) ==
    Decides(a, raw) /\ raw = "alarm" /\ ~alarmState[a].active /\ a \in Delayed

\* alarm_transition changes the row, and awaits its save
Turns(a, raw) ==
    Decides(a, raw) /\ ~Pends(a, raw) /\ alarmState[a].active # (raw = "alarm")

\* workers that are the registered task of an alarm of S
TasksOf(S) == {w \in Workers : workers[w] # Idle /\ workers[w].task /\ workers[w].alarm \in S}

Registered(a) == a \in sleeping \/ TasksOf({a}) # {}

Raised(row) == [row EXCEPT !.active = TRUE]

Cleared(row) ==
    [row EXCEPT !.active = FALSE, !.acked = FALSE, !.shelved = FALSE, !.occurrence = @ + 1]

\* mutant: the pending delay is left alone
CancelsNever(a, raw) == FALSE

\* mutant: every change cancels it
CancelsAlways(a, raw) == Decides(a, raw)

\* "not decision["active"]", past the delay_pending branch
Cancels(a, raw) == Decides(a, raw) /\ raw = "normal"

Job(does, a, scan, raw, task) ==
    [does |-> does, alarm |-> a, occurrence |-> alarmState[a].occurrence,
     scan |-> scan, raw |-> IF scan THEN raw ELSE "gone", task |-> task, at |-> "saving"]

\* The scan w visits the alarms from the k-th on, up to the first that turns.
\* Those it decides lose their task, which a normal value also cancels.
ScanFrom(w, k, raw) ==
    LET turning == {a \in k..N : Turns(a, raw)}
        visited == {a \in k..N : \A b \in turning : a <= b}
        stop    == visited \cap turning
        starts  == {a \in visited : Pends(a, raw) /\ ~Registered(a)}
        decided == {a \in visited : Decides(a, raw) /\ ~Pends(a, raw)}
        off     == {a \in visited : Cancels(a, raw)}
    IN
    /\ alarmState' = [a \in Alarms |->
          IF a \in starts THEN [alarmState[a] EXCEPT !.anchored = TRUE]
          ELSE IF a \notin stop THEN alarmState[a]
          ELSE IF raw = "alarm" THEN Raised(alarmState[a]) ELSE Cleared(alarmState[a])]
    /\ sleeping' = (sleeping \ off) \cup starts
    /\ workers' = [v \in Workers |->
          IF v = w THEN IF stop = {} THEN Idle
                        ELSE Job(IF raw = "alarm" THEN "raise" ELSE "clear",
                                 CHOOSE a \in stop : TRUE, TRUE, raw, FALSE)
          ELSE IF v \in TasksOf(off) THEN Idle
          ELSE IF v \in TasksOf(decided) THEN [workers[v] EXCEPT !.task = FALSE]
          ELSE workers[v]]
    /\ IF stop = {} THEN UNCHANGED storeVars ELSE AsyncSave(w)
    /\ withheld' = IF raw = "gone" THEN withheld
                   ELSE (withheld \ visited) \cup {a \in visited : ~Decides(a, raw)}
    /\ stale' = (stale \ {a \in visited : Decides(a, raw)})
                   \cup {a \in visited : Decides(a, raw) /\ raw # value'}
    /\ broken' = (broken \ starts) \cup {a \in decided \cap Delayed : raw = "normal"}
    /\ rearmed' = rearmed \ (starts \cup off)

Free(w) ==
    workers[w] = Idle /\ w \notin waiting /\ \A s \in {writer} \ {NoSave} : s.by # w

\* a coroutine of its own
NewWorker == CHOOSE w \in Workers : Free(w)

CanStart == \E w \in Workers : Free(w)

\* the state_changed event and the scan it starts
Reports(v) ==
    /\ CanStart
    /\ changes < MaxChanges /\ changes' = changes + 1
    /\ v # value \/ v = "alarm"
    /\ value' = v
    /\ ScanFrom(NewWorker, 1, v)
    /\ UNCHANGED <<phase, expired, notified, confirmed, acts, restarts, faults>>

-----------------------------------------------------------------------------
(* What comes after an await *)

At(w, does, at) == workers[w] # Idle /\ workers[w].does = does /\ workers[w].at = at

\* mutant: the scan ends with the first alarm that turned
GoesOnNoFurther(w) ==
    /\ workers' = [workers EXCEPT ![w] = Idle]
    /\ UNCHANGED <<alarmState, sleeping, storeVars, withheld, stale, broken, rearmed>>

\* the scan's later alarms, with the value it was called with
GoesOn(w) ==
    IF workers[w].scan THEN ScanFrom(w, workers[w].alarm + 1, workers[w].raw)
    ELSE /\ workers' = [workers EXCEPT ![w] = Idle]
         /\ UNCHANGED <<alarmState, sleeping, storeVars, withheld, stale, broken, rearmed>>

ClearSaved(w) ==
    /\ At(w, "clear", "saved")
    /\ UNCHANGED <<value, phase, expired, notified, confirmed, boundVars>>
    /\ GoesOn(w)

\* mutant: the notification does not wait for the save
NotifyAtOnce(w) ==
    /\ At(w, "raise", "saving") \/ At(w, "raise", "saved")
    /\ workers' = [workers EXCEPT ![w].at = "notifying"]
    /\ notified' = notified \cup {<<workers[w].alarm, workers[w].occurrence>>}
    /\ UNCHANGED <<value, phase, alarmState, sleeping, storeVars, expired,
                   withheld, stale, broken, rearmed, confirmed, boundVars>>

\* _notify_alarm calls the notify service
Notify(w) ==
    /\ At(w, "raise", "saved")
    /\ workers' = [workers EXCEPT ![w].at = "notifying"]
    /\ notified' = notified \cup {<<workers[w].alarm, workers[w].occurrence>>}
    /\ UNCHANGED <<value, phase, alarmState, sleeping, storeVars, expired,
                   withheld, stale, broken, rearmed, confirmed, boundVars>>

\* it was delivered, failed or timed out: each is recorded and survived
Delivered(w) ==
    /\ At(w, "raise", "notifying")
    /\ UNCHANGED <<value, phase, expired, notified, confirmed, boundVars>>
    /\ GoesOn(w)

\* mutant: the answer does not wait for the save
ActAnsweredAtOnce(w) ==
    /\ workers[w] # Idle /\ workers[w].does \in {"ack", "shelve"}
    /\ workers' = [workers EXCEPT ![w] = Idle]
    /\ confirmed' = confirmed \cup {<<workers[w].does, workers[w].alarm>>}
    /\ UNCHANGED <<value, phase, alarmState, sleeping, storeVars, expired,
                   withheld, stale, broken, rearmed, notified, boundVars>>

ActAnswered(w) ==
    /\ At(w, "ack", "saved") \/ At(w, "shelve", "saved")
    /\ workers' = [workers EXCEPT ![w] = Idle]
    /\ confirmed' = confirmed \cup {<<workers[w].does, workers[w].alarm>>}
    /\ UNCHANGED <<value, phase, alarmState, sleeping, storeVars, expired,
                   withheld, stale, broken, rearmed, notified, boundVars>>

\* evaluate, which takes an unavailable value for none of the inactive_states
Evaluates(a) == value = "alarm" \/ (value = "gone" /\ a \in ByInactive)

\* _delayed_transition, with the value of this moment; neither a suppression
\* nor the grace is asked
Wakes(a) ==
    /\ a \in sleeping /\ sleeping' = sleeping \ {a} /\ rearmed' = rearmed \ {a}
    /\ IF Evaluates(a) /\ ~alarmState[a].active
       THEN /\ CanStart
            /\ alarmState' = [alarmState EXCEPT ![a] = Raised(@)]
            /\ workers' = [workers EXCEPT ![NewWorker] = Job("raise", a, FALSE, value, TRUE)]
            /\ AsyncSave(NewWorker)
       ELSE UNCHANGED <<alarmState, workers, storeVars>>
    /\ UNCHANGED <<value, phase, expired, withheld, stale, broken, notified, confirmed,
                   boundVars>>

-----------------------------------------------------------------------------
(* Operators and time *)

Acts(does, a, row) ==
    /\ CanStart
    /\ acts < MaxActs /\ acts' = acts + 1
    /\ alarmState' = [alarmState EXCEPT ![a] = row]
    /\ workers' = [workers EXCEPT ![NewWorker] = Job(does, a, FALSE, value, FALSE)]
    /\ AsyncSave(NewWorker)
    /\ UNCHANGED <<value, phase, sleeping, expired, historyVars,
                   changes, restarts, faults>>

AckAlarm(a) == Acts("ack", a, [alarmState[a] EXCEPT !.acked = TRUE])

\* bound: an alarm is shelved again only while the first shelf lasts
ShelveAlarm(a) ==
    a \notin expired /\ Acts("shelve", a, [alarmState[a] EXCEPT !.shelved = TRUE])

ShelfExpires(a) ==
    /\ alarmState[a].shelved /\ a \notin expired
    /\ expired' = expired \cup {a}
    /\ UNCHANGED <<value, phase, alarmState, sleeping, workers, storeVars,
                   historyVars, boundVars>>

GraceEnds ==
    /\ phase = "grace" /\ phase' = "open"
    /\ UNCHANGED <<value, alarmState, sleeping, workers, storeVars, expired,
                   historyVars, boundVars>>

-----------------------------------------------------------------------------
(* Starts and faults *)

\* pending_from_state: delays whose anchor is kept and whose alarm is not active
Rearmed == {a \in Delayed : alarmState[a].anchored /\ ~alarmState[a].active}

\* async_mark_started
Started ==
    /\ phase = "starting" /\ phase' = "grace"
    /\ sleeping' = sleeping \cup {a \in Rearmed : ~Registered(a)}
    /\ rearmed' = rearmed \cup {a \in Rearmed : ~Registered(a)}
    /\ UNCHANGED <<value, alarmState, workers, storeVars, expired,
                   withheld, stale, broken, notified, confirmed, boundVars>>

\* The process ends and starts again with async_load: what was suspended or
\* being saved is gone.  The entity may report anything by then; nothing of what
\* it did meanwhile was seen.
Restart ==
    /\ restarts < MaxRestarts /\ restarts' = restarts + 1
    /\ phase' = "starting" /\ value' \in Values
    /\ alarmState' = stored
    /\ sleeping' = {} /\ workers' = [w \in Workers |-> Idle]
    /\ writer' = NoSave /\ waiting' = {} /\ unsaved' = NoSave
    /\ withheld' = Alarms /\ rearmed' = {}
    /\ UNCHANGED <<stored, expired, stale, broken, notified, confirmed,
                   changes, acts, faults>>

SaveLands ==
    /\ Landed
    /\ UNCHANGED <<value, phase, alarmState, sleeping, expired, historyVars, boundVars>>

\* the Store logs a failed write
SaveLost ==
    /\ writer # NoSave /\ faults < MaxFaults /\ faults' = faults + 1
    /\ NextSave
    /\ UNCHANGED <<value, phase, alarmState, sleeping, stored, expired, historyVars,
                   changes, acts, restarts>>

-----------------------------------------------------------------------------
EngineNext ==
    \/ \E w \in Workers : ClearSaved(w) \/ Notify(w) \/ Delivered(w) \/ ActAnswered(w)
    \/ \E a \in Alarms : Wakes(a)
    \/ Started \/ GraceEnds \/ SaveLands

Next ==
    \/ EngineNext
    \/ \E v \in Values : Reports(v)
    \/ \E a \in Alarms : AckAlarm(a) \/ ShelveAlarm(a) \/ ShelfExpires(a)
    \/ Restart \/ SaveLost

Spec == Init /\ [][Next]_alarmVars

\* The event loop resumes what is ready, sleeps and the grace end, a write and
\* a notification end (each has its timeout).
FairSpec == Spec /\ WF_alarmVars(EngineNext)

-----------------------------------------------------------------------------
TypeOK ==
    /\ value \in Values /\ phase \in {"starting", "grace", "open"}
    /\ alarmState \in Rows /\ stored \in Rows
    /\ sleeping \subseteq Delayed
    /\ workers \in [Workers -> Worker \cup {Idle}]
    /\ writer \in Save \cup {NoSave} /\ unsaved \in Rows \cup {NoSave}
    /\ waiting \subseteq Workers
    /\ UNION {expired, withheld, stale, broken, rearmed} \subseteq Alarms

\* One occurrence of an alarm is notified at most once: not by every change
\* while it lasts, not by a delay that ends beside a scan, and not again after
\* a restart, as long as no write is lost.
OneNoticePerOccurrence ==
    [][\A w \in Workers :
          faults = 0 /\ workers[w] # Idle /\ workers'[w] = [workers[w] EXCEPT !.at = "notifying"]
             /\ workers[w].at # "notifying"
          => <<workers[w].alarm, workers[w].occurrence>> \notin notified]_alarmVars

\* A restart un-acknowledges nothing and un-shelves nothing that was answered.
ConfirmedActsSurvive ==
    faults = 0 => \A c \in confirmed :
        IF c[1] = "ack" THEN alarmState[c[2]].acked
        ELSE alarmState[c[2]].shelved \/ c[2] \in expired

Settled(a) ==
    /\ phase = "open" /\ value # "gone"
    /\ a \notin sleeping /\ \A w \in Workers : workers[w] = Idle
    /\ ~Suppressed(a) /\ a \notin withheld \cup stale

\* When everything has come to rest an alarm is active exactly if its entity
\* is in alarm, but for those whose last value was withheld from them by a
\* suppression or a start, or came late because the scan waited for another
\* alarm's save or notification.
AlarmsFollowPlant == \A a \in Alarms : Settled(a) => alarmState[a].active = (value = "alarm")

\* A delay is for transients: one that was seen to be over before the delay
\* ended is never annunciated by it. (Not so for the rest of a delay that a start
\* re-arms: its anchor is never cleared, so it may outlive its transient.)
TransientsStaySilent ==
    [][\A a \in Delayed \ rearmed :
          alarmState'[a] = Raised(alarmState[a]) /\ ~alarmState[a].active => a \notin broken]_alarmVars

Persists(a) ==
    value = "alarm" /\ phase = "open" /\ ~Suppressed(a) /\ a \notin withheld \cup stale

\* A fault that persists is annunciated, however noisy it is.
PersistentFaultsRing == \A a \in Alarms : Persists(a) ~> (alarmState[a].active \/ ~Persists(a))
=============================================================================
