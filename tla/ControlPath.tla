---------------------------- MODULE ControlPath ----------------------------
(***************************************************************************)
(* A configured control on its way from the dialog to the plant and back:  *)
(* the dialog's calls (createConfiguredControlClient), the handlers that   *)
(* answer them (ws_controls_preview, ws_controls_execute) with the         *)
(* simulation gate and the trusted evidence, and Home Assistant's services *)
(* (external).                                                             *)
(*                                                                         *)
(* Which effect a control resolves to at which revision is left out: the   *)
(* boundary refuses for any of its reasons at any time.                    *)
(***************************************************************************)
EXTENDS ConfiguredControl, TrustedEvidence

CONSTANTS
    MaxCalls,        \* bound: requests of the dialog
    MaxFaults,       \* bound: saves of the evidence that fail
    MaxBreaks,       \* bound: lost connections and restarts of the Companion
    MaxRehearsals    \* bound: simulation sessions started

VARIABLES
    calls,       \* the requests, in the order they were sent
    asked,       \* requests the dialog awaits
    replies,     \* answers on their way to it
    rehearsing,  \* a simulation session of the project is active
    dispatched,  \* requests for which a service was called
    opened,      \* history: requests sent before the dialog was opened
    faults, breaks, rehearsals

pathVars == <<control, evidenceVars, calls, asked, replies, rehearsing, dispatched,
              opened, faults, breaks, rehearsals>>

Calls == 1..MaxCalls
Stages == {"sent", "refusing", "accepting", "accepted", "calling", "recording", "recorded",
           "closing", "closed", "over"}
Call == [kind : {"preview", "execute"}, control : Controls,
         shown : Controls \cup {None},  \* the summary on display when it was sent
         stage : Stages, outcome : ControlStates \cup {None}]

Row(i, s) == [call |-> i, result |-> s]

ASSUME PathAssumption ==
    /\ Writers = Calls /\ Rows = [call : Calls, result : ControlStates]
    /\ None \notin Controls \cup ControlStates
    /\ {MaxCalls, MaxFaults, MaxBreaks, MaxRehearsals} \subseteq Nat

Init ==
    /\ ControlInit /\ EvidenceInit
    /\ calls = <<>> /\ asked = {} /\ replies = <<>>
    /\ rehearsing \in BOOLEAN
    /\ dispatched = {} /\ opened = 0
    /\ faults = 0 /\ breaks = 0 /\ rehearsals = 0

-----------------------------------------------------------------------------
(* The dialog *)

Send(kind, c) ==
    /\ Len(calls) < MaxCalls
    /\ calls' = Append(calls, [kind |-> kind, control |-> c, shown |-> control.preview,
                               stage |-> "sent", outcome |-> None])
    /\ asked' = asked \cup {Len(calls) + 1}

\* the button of a control, offered in every phase
PressPreview(c) ==
    /\ Send("preview", c)
    /\ control' = Selected(c)
    /\ UNCHANGED <<evidenceVars, replies, rehearsing, dispatched, opened,
                   faults, breaks, rehearsals>>

PressRun ==
    /\ Offered
    /\ Send("execute", control.controlId)
    /\ control' = Pending
    /\ UNCHANGED <<evidenceVars, replies, rehearsing, dispatched, opened,
                   faults, breaks, rehearsals>>

PressCancel ==
    /\ Offered
    /\ control' = Cancelled
    /\ UNCHANGED <<evidenceVars, calls, asked, replies, rehearsing, dispatched,
                   opened, faults, breaks, rehearsals>>

\* the dialog is closed and opened again; answers to the old one go nowhere
CloseDialog ==
    /\ control.phase # "idle"
    /\ control' = initialControlState
    /\ asked' = {} /\ replies' = <<>> /\ opened' = Len(calls)
    /\ UNCHANGED <<evidenceVars, calls, rehearsing, dispatched, faults, breaks, rehearsals>>

Deliver ==
    /\ replies # <<>>
    /\ LET i == Head(replies).call
           a == Head(replies).answer IN
       /\ control' = CASE a = "preview" -> Previewed(calls[i].control)
                       [] a = "error"   -> Denied
                       [] OTHER         -> Result(a, i)
       /\ asked' = asked \ {i}
    /\ replies' = Tail(replies)
    /\ UNCHANGED <<evidenceVars, calls, rehearsing, dispatched, opened,
                   faults, breaks, rehearsals>>

\* every call awaited is rejected
Rejected ==
    /\ control' = IF asked = {} THEN control ELSE Denied
    /\ asked' = {} /\ replies' = <<>>

-----------------------------------------------------------------------------
(* The handlers *)

At(i, stage) == i \in DOMAIN calls /\ calls[i].stage = stage

\* requests are taken up in the order they were sent
FirstSent(i) == At(i, "sent") /\ \A j \in 1..(i - 1) : calls[j].stage # "sent"

MoveTo(i, stage) == calls' = [calls EXCEPT ![i].stage = stage]

Answer(i, a) == replies' = IF i \in asked THEN Append(replies, [call |-> i, answer |-> a])
                                          ELSE replies

AnswerPreview(i) ==
    /\ FirstSent(i) /\ calls[i].kind = "preview"
    /\ MoveTo(i, "over") /\ Answer(i, "preview")
    /\ UNCHANGED <<control, evidenceVars, asked, rehearsing, dispatched, opened,
                   faults, breaks, rehearsals>>

\* not found, revision conflict, rate limit or resolution
Refuse(i) ==
    /\ FirstSent(i)
    /\ MoveTo(i, "over") /\ Answer(i, "error")
    /\ UNCHANGED <<control, evidenceVars, asked, rehearsing, dispatched, opened,
                   faults, breaks, rehearsals>>

\* decide_dispatch for a control
Gate == ~rehearsing

\* refused by the gate: the answer waits for a row in the manager's own audit
RefuseAtGate(i) ==
    /\ FirstSent(i) /\ calls[i].kind = "execute"
    /\ ~Gate
    /\ MoveTo(i, "refusing")
    /\ UNCHANGED <<control, evidenceVars, asked, replies, rehearsing, dispatched, opened,
                   faults, breaks, rehearsals>>

AnswerRefused(i) ==
    /\ At(i, "refusing")
    /\ MoveTo(i, "over") /\ Answer(i, "error")
    /\ UNCHANGED <<control, evidenceVars, asked, rehearsing, dispatched, opened,
                   faults, breaks, rehearsals>>

Accept(i) ==
    /\ FirstSent(i) /\ calls[i].kind = "execute"
    /\ Gate
    /\ MoveTo(i, "accepting")
    /\ Record(i, Row(i, "accepted"))
    /\ UNCHANGED <<control, asked, replies, rehearsing, dispatched, opened,
                   faults, breaks, rehearsals>>

\* mutant: the service is called while the row is being saved
MayCallEarly(i) == At(i, "accepting") \/ At(i, "accepted")

MayCall(i) == At(i, "accepted")

\* mutant: the attempt is recorded before it is made
DispatchRecordedFirst(i) ==
    /\ MayCall(i)
    /\ MoveTo(i, "recording")
    /\ Record(i, Row(i, "dispatched"))
    /\ UNCHANGED <<control, asked, replies, rehearsing, dispatched, opened,
                   faults, breaks, rehearsals>>

Dispatch(i) ==
    /\ MayCall(i)
    /\ MoveTo(i, "calling")
    /\ dispatched' = dispatched \cup {i}
    /\ UNCHANGED <<control, evidenceVars, asked, replies, rehearsing, opened,
                   faults, breaks, rehearsals>>

ServiceReturns(i) ==
    /\ At(i, "calling")
    /\ MoveTo(i, "recording")
    /\ Record(i, Row(i, "dispatched"))
    /\ UNCHANGED <<control, asked, replies, rehearsing, dispatched, opened,
                   faults, breaks, rehearsals>>

Close(i, s) ==
    /\ calls' = [calls EXCEPT ![i].stage = "closing", ![i].outcome = s]
    /\ Record(i, Row(i, s))
    /\ UNCHANGED <<control, asked, replies, rehearsing, dispatched, opened,
                   faults, breaks, rehearsals>>

ServiceRaises(i) == At(i, "calling") /\ Close(i, "result_unknown")

\* mutant: the outcome is answered without being recorded
ReadbackUnrecorded(i) ==
    /\ At(i, "recorded")
    /\ \E s \in {"timed_out", "readback_confirmed"} :
          calls' = [calls EXCEPT ![i].stage = "closed", ![i].outcome = s]
    /\ UNCHANGED <<control, evidenceVars, asked, replies, rehearsing, dispatched,
                   opened, faults, breaks, rehearsals>>

Readback(i) == At(i, "recorded") /\ \E s \in {"timed_out", "readback_confirmed"} : Close(i, s)

AnswerExecute(i) ==
    /\ At(i, "closed")
    /\ MoveTo(i, "over") /\ Answer(i, calls[i].outcome)
    /\ UNCHANGED <<control, evidenceVars, asked, rehearsing, dispatched, opened,
                   faults, breaks, rehearsals>>

\* what a handler goes on to when its save has returned
After(stage) == CASE stage = "accepting" -> "accepted"
                  [] stage = "recording" -> "recorded"
                  [] stage = "closing"   -> "closed"
                  [] OTHER               -> stage

Resumed(those) == [i \in DOMAIN calls |->
    IF i \in those THEN [calls[i] EXCEPT !.stage = After(@)] ELSE calls[i]]

EvidenceSaved ==
    /\ SaveLands
    /\ calls' = Resumed(Returning)
    /\ UNCHANGED <<control, asked, replies, rehearsing, dispatched, opened,
                   faults, breaks, rehearsals>>

\* the failed write raises into its own handler, which answers with an error
EvidenceRaises ==
    LET i == writer.by IN
    /\ faults < MaxFaults /\ faults' = faults + 1
    /\ SaveFails
    /\ calls' = [Resumed(Returning) EXCEPT ![i].stage = "over"]
    /\ Answer(i, "error")
    /\ UNCHANGED <<control, asked, rehearsing, dispatched, opened,
                   breaks, rehearsals>>

\* or is logged by the Store, and nobody learns of it
EvidenceLost ==
    /\ faults < MaxFaults /\ faults' = faults + 1
    /\ SaveFails
    /\ calls' = Resumed(Returning)
    /\ UNCHANGED <<control, asked, replies, rehearsing, dispatched, opened,
                   breaks, rehearsals>>

-----------------------------------------------------------------------------
(* Around them *)

StartRehearsal ==
    /\ ~rehearsing /\ rehearsals < MaxRehearsals
    /\ rehearsing' = TRUE /\ rehearsals' = rehearsals + 1
    /\ UNCHANGED <<control, evidenceVars, calls, asked, replies, dispatched, opened,
                   faults, breaks>>

\* stopped, or its time is up
EndRehearsal ==
    /\ rehearsing /\ rehearsing' = FALSE
    /\ UNCHANGED <<control, evidenceVars, calls, asked, replies, dispatched, opened,
                   faults, breaks, rehearsals>>

\* the handlers go on; requests not taken up yet may be lost
Disconnect ==
    /\ breaks < MaxBreaks /\ breaks' = breaks + 1
    /\ Rejected
    /\ \E lost \in SUBSET {i \in DOMAIN calls : calls[i].stage = "sent"} :
          calls' = [i \in DOMAIN calls |->
              IF i \in lost THEN [calls[i] EXCEPT !.stage = "over"] ELSE calls[i]]
    /\ UNCHANGED <<evidenceVars, rehearsing, dispatched, opened,
                   faults, rehearsals>>

\* simulation sessions are not persisted
Restart ==
    /\ breaks < MaxBreaks /\ breaks' = breaks + 1
    /\ Rejected
    /\ Reopened
    /\ calls' = [i \in DOMAIN calls |-> [calls[i] EXCEPT !.stage = "over"]]
    /\ rehearsing' = FALSE
    /\ UNCHANGED <<dispatched, opened, faults, rehearsals>>

-----------------------------------------------------------------------------
DialogNext == (\E c \in Controls : PressPreview(c)) \/ PressRun \/ PressCancel \/ CloseDialog

CompanionNext ==
    \/ \E i \in Calls :
          \/ AnswerPreview(i) \/ Refuse(i) \/ RefuseAtGate(i) \/ AnswerRefused(i)
          \/ Accept(i) \/ Dispatch(i)
          \/ ServiceReturns(i) \/ ServiceRaises(i) \/ Readback(i) \/ AnswerExecute(i)
    \/ EvidenceSaved

Next ==
    \/ DialogNext \/ CompanionNext \/ Deliver
    \/ EvidenceRaises \/ EvidenceLost
    \/ StartRehearsal \/ EndRehearsal \/ Disconnect \/ Restart

Spec == Init /\ [][Next]_pathVars

\* The event loop runs what is ready, a write ends, a service call returns or
\* raises, and the browser handles what it receives.
FairSpec == Spec /\ WF_pathVars(CompanionNext) /\ WF_pathVars(Deliver)

-----------------------------------------------------------------------------
TypeOK ==
    /\ control \in Dialog
    /\ EvidenceTypeOK
    /\ calls \in Seq(Call) /\ Len(calls) <= MaxCalls
    /\ asked \subseteq Calls
    /\ replies \in Seq([call : Calls, answer : ControlStates \cup {"preview", "error"}])
    /\ rehearsing \in BOOLEAN
    /\ dispatched \subseteq Calls /\ opened \in 0..MaxCalls
    /\ faults \in 0..MaxFaults /\ breaks \in 0..MaxBreaks
    /\ rehearsals \in 0..MaxRehearsals

\* No service is called before its "accepted" row is durable, however the saves
\* of several requests are merged and wherever the Companion dies, as long as
\* no write fails.
AcceptedBeforeDispatch ==
    faults = 0 => \A i \in dispatched : Keeps(logFile, Row(i, "accepted"))

\* The evidence claims no effect that was not attempted, in memory or on disk,
\* after any failure or restart; and of one request never both a confirmation
\* and an unknown result.
EvidenceIsHonest ==
    \A log \in {events, logFile} : \A n \in DOMAIN log :
        /\ log[n].result # "accepted" => log[n].call \in dispatched
        /\ log[n].result = "readback_confirmed" =>
              Row(log[n].call, "result_unknown") \notin {log[m] : m \in DOMAIN log}

\* A success on display is the success of a request of this very dialog, and
\* the trusted evidence on disk says the same of it.
SuccessIsRecorded ==
    ShowsSuccess =>
        /\ control.correlationId > opened
        /\ control.correlationId \in dispatched
        /\ faults = 0 => Keeps(logFile, Row(control.correlationId, "readback_confirmed"))

\* No service is called during a rehearsal: the state is read at the moment of
\* dispatch, as dispatch_gate.decide_dispatch asks. (It is not: a session that
\* starts while the "accepted" row is being saved finds the request past the gate.)
RehearsalHolds == [][rehearsing => dispatched' = dispatched]_pathVars

\* Whatever is lost or fails, a person who pressed Run is told a result.
RunSettles == control.phase = "pending" ~> control.phase # "pending"

\* What Run executes is the control whose effect the dialog shows.
DispatchedAsShown == \A i \in dispatched : calls[i].control = calls[i].shown
=============================================================================
