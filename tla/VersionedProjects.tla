------------------------- MODULE VersionedProjects -------------------------
(***************************************************************************)
(* What the transaction coordinator promises its clients: every project is *)
(* a versioned register, a transaction takes effect at once or not at all, *)
(* its outcome never changes, only a committed one is reported as such and *)
(* the audit log only holds outcomes.  Stores, journals, locks, crashes    *)
(* and recovery do not exist here.                                         *)
(***************************************************************************)
EXTENDS Naturals

CONSTANTS Projects, TxIds, Config, NoHead

VARIABLES
    head,     \* the current version of each project, or NoHead
    outcome,  \* per transaction: "open", "committed" or "aborted"
    told,     \* transactions a client knows to be committed
    log       \* the audit events retained

vars == <<head, outcome, told, log>>

Init ==
    /\ head = [p \in Projects |-> NoHead]
    /\ outcome = [t \in TxIds |-> "open"]
    /\ told = {}
    /\ log = {}

Version(p) == IF head[p] = NoHead THEN 0 ELSE head[p].revision

\* The next version of p becomes visible and t committed in the same instant.
Commit(t, p, c) ==
    /\ outcome[t] = "open"
    /\ outcome' = [outcome EXCEPT ![t] = "committed"]
    /\ head' = [head EXCEPT ![p] = [revision |-> Version(p) + 1, content |-> c, tx |-> t]]
    /\ UNCHANGED <<told, log>>

Abort(t) ==
    /\ outcome[t] = "open"
    /\ outcome' = [outcome EXCEPT ![t] = "aborted"]
    /\ UNCHANGED <<head, told, log>>

Tell(t) ==
    /\ outcome[t] = "committed"
    /\ told' = told \cup {t}
    /\ UNCHANGED <<head, outcome, log>>

\* An outcome is logged; old events may be dropped to make room.
Log(t) ==
    /\ outcome[t] # "open"
    /\ log' \subseteq log \cup {[tx |-> t, result |-> outcome[t]]}
    /\ [tx |-> t, result |-> outcome[t]] \in log'
    /\ UNCHANGED <<head, outcome, told>>

Next ==
    \E t \in TxIds :
        \/ \E p \in Projects, c \in Config : Commit(t, p, c)
        \/ Abort(t) \/ Tell(t) \/ Log(t)

Spec == Init /\ [][Next]_vars
=============================================================================
