------------------------- MODULE ConfiguredControl -------------------------
(***************************************************************************)
(* The dialog that runs a configured control (configured-control.mjs and   *)
(* the confirmation in project-safety.js): one state, replaced by a        *)
(* reducer whenever a person acts or an answer arrives.                    *)
(*                                                                         *)
(* A preview is the control it describes; a correlation is the number of   *)
(* the request.  The error code and the announcement, which repeat the     *)
(* result, are left out.                                                   *)
(***************************************************************************)
EXTENDS Integers

CONSTANTS
    Controls,  \* ids of the controls the project defines
    None

VARIABLE control

Terminal == {"readback_confirmed", "timed_out", "denied", "failed_before_dispatch",
             "failed_after_dispatch", "result_unknown", "cancelled_before_dispatch"}
ControlStates == Terminal \cup {"accepted", "dispatched"}
Phases == {"idle", "ready", "confirm", "pending", "result"}

Dialog == [phase : Phases, controlId : Controls \cup {None},
           preview : Controls \cup {None}, result : ControlStates \cup {None},
           correlationId : Nat]

initialControlState ==
    [phase |-> "idle", controlId |-> None, preview |-> None, result |-> None,
     correlationId |-> 0]

ControlInit == control = initialControlState

-----------------------------------------------------------------------------
(* reduceControlEvidence *)

Selected(c) == [initialControlState EXCEPT !.phase = "ready", !.controlId = c]

\* the summary of whichever control was asked for, now or before
Previewed(c) == [control EXCEPT !.phase = "confirm", !.preview = c]

Cancelled == [control EXCEPT !.phase = "ready", !.preview = None,
                             !.result = "cancelled_before_dispatch"]

Pending == [control EXCEPT !.phase = "pending", !.result = None, !.correlationId = 0]

\* mutant: timed_out is not among the terminal states
ResultButTimeout(s, n) ==
    [control EXCEPT !.phase = IF s \in Terminal \ {"timed_out"} THEN "result" ELSE "pending",
                    !.result = s, !.correlationId = n]

Result(s, n) ==
    [control EXCEPT !.phase = IF s \in Terminal THEN "result" ELSE "pending",
                    !.result = s, !.correlationId = n]

\* any call that is rejected: refused, failed, or the connection is gone
Denied == [control EXCEPT !.phase = "result", !.result = "denied"]

\* Run and Cancel are offered in this phase alone
Offered == control.phase = "confirm"

\* isControlSuccess
ShowsSuccess == control.result = "readback_confirmed"
=============================================================================
