---------------------------- MODULE EditorSaves ----------------------------
(***************************************************************************)
(* The designer's way of saving: one document in the browser that is       *)
(* edited, undone, replaced by a load and saved by a timer or by hand,     *)
(* while earlier saves are still under way, against a server that others   *)
(* save to as well (GltFlowCardEditor, EditorStore, saveSharedProject).    *)
(*                                                                         *)
(* A document is the identity and revision it claims, and the origin its   *)
(* content descends from: the load or copy it began with.  A commit is     *)
(* what ProjectTransactions makes of it, one step; a refusal of the server *)
(* may come for any reason at any time.                                    *)
(***************************************************************************)
EXTENDS Naturals, Sequences, FiniteSets, SequencesExt

CONSTANTS
    Shared,      \* projects the server has from the start
    New,         \* identifiers an editor may make up
    None,        \* no identifier
    UndoLimit,   \* entries of the undo stack (80 in the code)
    MaxActs,     \* bound: acts of the person at the editor
    MaxOthers,   \* bound: saves by other people
    MaxLost      \* bound: calls lost with the connection, leases that expire

VARIABLES
    doc,       \* _config: the identity, revision and origin of the document
    pid,       \* _glt4ProjectId
    undo, redo,
    timer,     \* an autosave is armed
    open,      \* the editor is connected to the page
    saves,     \* saveProject calls, in the order they were made
    reads,     \* projects read by Load and not yet put in place
    versions,  \* the server: per project the authors of its revisions
    leases,    \* the server: per project the save that holds the lease, or 0
    origins,   \* history: where the documents of this editor began
    unsaved,   \* history: an edit was not sent to the server yet
    dropped,   \* history: the autosave of the last edit was cleared, or kept in the browser
    stamped,   \* history: origins of documents that got another's identity or revision
    lost,      \* history: saves with a lost call or an expired lease
    acts, others

server == <<versions, leases>>
browser == <<doc, pid, undo, redo, timer, open, reads>>
history == <<origins, unsaved, dropped, stamped>>
vars == <<browser, saves, server, history, lost, acts, others>>

Ids == Shared \cup New
Stages == {"acquiring", "saving", "releasing", "creating", "answered", "over"}
Doc == [id : Ids \cup {None}, revision : Nat, origin : Nat \ {0}]
Save == [kind : {"auto", "manual", "copy"}, id : Ids, sent : Doc,
         stage : Stages, revision : Nat]

\* the author of a revision that was not saved by this editor
Others == 0

ASSUME EditorAssumption ==
    /\ Shared \cap New = {} /\ None \notin Ids
    /\ UndoLimit \in Nat \ {0}
    /\ {MaxActs, MaxOthers, MaxLost} \subseteq Nat

\* A card's configuration carries a project of the server or none.
Init ==
    /\ \/ doc = [id |-> None, revision |-> 0, origin |-> 1]
       \/ \E p \in Shared : doc = [id |-> p, revision |-> 1, origin |-> 1]
    /\ pid = doc.id
    /\ undo = <<>> /\ redo = <<>>
    /\ timer = FALSE /\ open = TRUE
    /\ saves = <<>> /\ reads = <<>>
    /\ versions = [p \in Ids |-> IF p \in Shared THEN <<Others>> ELSE <<>>]
    /\ leases = [p \in Ids |-> 0]
    /\ origins = <<[project |-> doc.id, at |-> doc.revision]>>
    /\ unsaved = FALSE /\ dropped = FALSE /\ stamped = {}
    /\ lost = {} /\ acts = 0 /\ others = 0

-----------------------------------------------------------------------------
(* The person at the editor *)

Act == open /\ acts < MaxActs /\ acts' = acts + 1

\* mutant: the stack is not cut
RememberedAll(stack) == Append(stack, doc)

\* _remember
Remembered(stack) ==
    LET s == Append(stack, doc) IN IF Len(s) > UndoLimit THEN Tail(s) ELSE s

\* mutant: the timer is cleared after it was armed
EmitClears == timer' = FALSE

\* _emit after a change: the autosave starts over
Emit == timer' = TRUE

Edit ==
    /\ Act
    /\ undo' = Remembered(undo) /\ redo' = <<>>
    /\ Emit /\ unsaved' = TRUE /\ dropped' = FALSE
    /\ UNCHANGED <<doc, pid, open, reads, saves, server, origins, stamped, lost, others>>

\* The whole configuration is put back, with the identity and revision of then.
Undo ==
    /\ Act /\ undo # <<>>
    /\ doc' = Last(undo)
    /\ undo' = Front(undo) /\ redo' = Append(redo, doc)
    /\ Emit /\ unsaved' = TRUE /\ dropped' = FALSE
    /\ UNCHANGED <<pid, open, reads, saves, server, origins, stamped, lost, others>>

Redo ==
    /\ Act /\ redo # <<>>
    /\ doc' = Last(redo)
    /\ redo' = Front(redo) /\ undo' = Append(undo, doc)
    /\ Emit /\ unsaved' = TRUE /\ dropped' = FALSE
    /\ UNCHANGED <<pid, open, reads, saves, server, origins, stamped, lost, others>>

Taken == {origins[o].project : o \in DOMAIN origins} \cup {saves[i].id : i \in DOMAIN saves}

Call(kind, id, sent, stage) ==
    saves' = Append(saves, [kind |-> kind, id |-> id, sent |-> sent,
                            stage |-> stage, revision |-> 0])

CurrentId == IF pid # None THEN pid ELSE doc.id

\* The library's save button: the identity is the editor's, or a new one, and
\* is put on a copy of the document.  Whether the server has the project is read
\* from the list of the dialog, which may be older than a project of this editor.
SaveByHand ==
    /\ Act
    /\ \E id \in IF CurrentId = None THEN New \ Taken ELSE {CurrentId} :
       \E listed \in {(id \in Shared), versions[id] # <<>>} :
          /\ Call("manual", id, [doc EXCEPT !.id = id],
                  IF ~listed /\ doc.revision = 0 THEN "creating" ELSE "acquiring")
          /\ stamped' = IF doc.id \in {None, id} THEN stamped ELSE stamped \cup {doc.origin}
    /\ unsaved' = FALSE
    /\ UNCHANGED <<browser, server, origins, dropped, lost, others>>

\* "save as": the document gets the new identity before anything is saved
SaveCopy ==
    /\ Act
    /\ \E id \in New \ Taken :
          LET copy == [id |-> id, revision |-> 0, origin |-> Len(origins) + 1] IN
          /\ doc' = copy /\ pid' = id
          /\ origins' = Append(origins, [project |-> id, at |-> 0])
          /\ Call("copy", id, copy, "acquiring")
    /\ unsaved' = FALSE
    /\ UNCHANGED <<undo, redo, timer, open, reads, server, dropped, stamped, lost, others>>

\* projects/get answers with the head of its moment
Load(p) ==
    /\ Act /\ versions[p] # <<>>
    /\ reads' = Append(reads, [project |-> p, at |-> Len(versions[p])])
    /\ UNCHANGED <<doc, pid, undo, redo, timer, open, saves, server, history, lost, others>>

\* the undo stack is kept, an armed autosave is not
Loaded ==
    /\ reads # <<>>
    /\ LET r == Head(reads) IN
       /\ doc' = [id |-> r.project, revision |-> r.at, origin |-> Len(origins) + 1]
       /\ pid' = r.project
       /\ origins' = Append(origins, r)
    /\ reads' = Tail(reads)
    /\ timer' = FALSE /\ dropped' = (dropped \/ timer)
    /\ UNCHANGED <<undo, redo, open, saves, server, unsaved, stamped, lost, acts, others>>

Leave ==
    /\ Act /\ open' = FALSE
    /\ UNCHANGED <<doc, pid, undo, redo, timer, reads, saves, server, history,
                   lost, others>>

-----------------------------------------------------------------------------
(* What the editor does by itself *)

\* 900 ms after the last change; a document without identity stays in the browser
TimerFires ==
    /\ timer /\ timer' = FALSE
    /\ IF open /\ CurrentId # None
       THEN /\ Call("auto", CurrentId, doc, "acquiring")
            /\ unsaved' = FALSE /\ UNCHANGED dropped
       ELSE /\ dropped' = (dropped \/ open)
            /\ UNCHANGED <<saves, unsaved>>
    /\ UNCHANGED <<doc, pid, undo, redo, open, reads, server, origins, stamped,
                   lost, acts, others>>

\* mutant: the identity is not compared
StampsAny(i) == TRUE

\* an autosave's revision is for the document that still has its identity
Stamps(i) == doc.id = saves[i].id

At(i, stage) == i \in DOMAIN saves /\ saves[i].stage = stage
MoveTo(i, stage) == saves' = [saves EXCEPT ![i].stage = stage]

\* the answer's revision goes to the document on display, whatever it is by now
Marked(i) ==
    IF doc.origin = saves[i].sent.origin THEN stamped ELSE stamped \cup {doc.origin}

AutoAnswered(i) ==
    /\ At(i, "answered") /\ saves[i].kind = "auto"
    /\ MoveTo(i, "over")
    /\ IF saves[i].revision > 0 /\ Stamps(i)
       THEN /\ doc' = [doc EXCEPT !.revision = saves[i].revision]
            /\ stamped' = Marked(i)
       ELSE UNCHANGED <<doc, stamped>>
    /\ UNCHANGED <<pid, undo, redo, timer, open, reads, server, origins, unsaved,
                   dropped, lost, acts, others>>

\* whatever document is there gets the identity and the revision, and an armed
\* autosave is cleared
ManualAnswered(i) ==
    /\ At(i, "answered") /\ saves[i].kind = "manual"
    /\ MoveTo(i, "over")
    /\ IF saves[i].revision > 0
       THEN /\ doc' = [doc EXCEPT !.id = saves[i].id, !.revision = saves[i].revision]
            /\ pid' = saves[i].id
            /\ timer' = FALSE /\ dropped' = (dropped \/ timer)
            /\ stamped' = Marked(i)
       ELSE UNCHANGED <<doc, pid, timer, dropped, stamped>>
    /\ UNCHANGED <<undo, redo, open, reads, server, origins, unsaved, lost, acts, others>>

CopyAnswered(i) ==
    /\ At(i, "answered") /\ saves[i].kind = "copy"
    /\ MoveTo(i, "over")
    /\ UNCHANGED <<browser, server, history, lost, acts, others>>

\* Home Assistant's dialog hands the configuration back to setConfig
HostEchoes ==
    /\ doc.id # None /\ pid # doc.id
    /\ pid' = doc.id
    /\ UNCHANGED <<doc, undo, redo, timer, open, reads, saves, server, history,
                   lost, acts, others>>

-----------------------------------------------------------------------------
(* saveSharedProject and the server *)

\* lease_held, no role, authority lapsed, invalid document, revision conflict
Fails(i) == saves' = [saves EXCEPT ![i].stage =
                IF saves[i].stage = "saving" THEN "releasing" ELSE "answered"]

Refused(i) ==
    /\ \E s \in {"acquiring", "saving", "creating"} : At(i, s)
    /\ Fails(i)
    /\ UNCHANGED <<browser, server, history, lost, acts, others>>

\* an unknown project has no members, so nobody may hold its lease
Grants(i) == leases' = [leases EXCEPT ![saves[i].id] = i]

MayLease(i) == At(i, "acquiring") /\ leases[saves[i].id] = 0 /\ versions[saves[i].id] # <<>>

Acquired(i) ==
    /\ MayLease(i) /\ Grants(i)
    /\ MoveTo(i, "saving")
    /\ UNCHANGED <<browser, versions, history, lost, acts, others>>

\* mutant: the revision that is replaced is not compared
AcceptsAny(i) == saves[i].sent.id = saves[i].id

\* the candidate names the project and the revision it replaces
Accepts(i) ==
    /\ saves[i].sent.id = saves[i].id
    /\ saves[i].sent.revision = Len(versions[saves[i].id])

MayCommit(i) ==
    \/ At(i, "saving") /\ leases[saves[i].id] = i /\ Accepts(i)
    \/ At(i, "creating") /\ versions[saves[i].id] = <<>>

Commits(i) == versions' = [versions EXCEPT ![saves[i].id] = Append(@, saves[i].sent.origin)]

Committed(i) ==
    /\ MayCommit(i) /\ Commits(i)
    /\ saves' = [saves EXCEPT ![i].stage = IF @ = "saving" THEN "releasing" ELSE "answered",
                              ![i].revision = Len(versions[saves[i].id]) + 1]
    /\ UNCHANGED <<browser, leases, history, lost, acts, others>>

Freed(i) == [leases EXCEPT ![saves[i].id] = IF @ = i THEN 0 ELSE @]

\* mutant: the lease is given back after a success only
ReleasedOnSuccess(i) ==
    /\ At(i, "releasing")
    /\ leases' = IF saves[i].revision > 0 THEN Freed(i) ELSE leases
    /\ MoveTo(i, "answered")
    /\ UNCHANGED <<browser, versions, history, lost, acts, others>>

\* mutant: the end of an expired lease is waited for
ReleasedIfHeld(i) ==
    /\ At(i, "releasing") /\ leases[saves[i].id] = i
    /\ leases' = Freed(i)
    /\ MoveTo(i, "answered")
    /\ UNCHANGED <<browser, versions, history, lost, acts, others>>

\* finally: a lease that is gone makes the release fail, and with it the save
Released(i) ==
    /\ At(i, "releasing")
    /\ leases' = Freed(i)
    /\ saves' = [saves EXCEPT ![i].stage = "answered",
                              ![i].revision = IF leases[saves[i].id] = i THEN @ ELSE 0]
    /\ UNCHANGED <<browser, versions, history, lost, acts, others>>

\* The call is rejected in the browser; the server may have done what it asked.
ConnectionLost(i) ==
    /\ Cardinality(lost) < MaxLost /\ lost' = lost \cup {i}
    /\ \E s \in {"acquiring", "saving", "creating", "releasing"} : At(i, s)
    /\ \/ UNCHANGED server
       \/ MayLease(i) /\ Grants(i) /\ UNCHANGED versions
       \/ MayCommit(i) /\ Commits(i) /\ UNCHANGED leases
       \/ At(i, "releasing") /\ leases' = Freed(i) /\ UNCHANGED versions
    /\ saves' = [saves EXCEPT ![i].stage = IF @ = "saving" THEN "releasing" ELSE "answered",
                              ![i].revision = 0]
    /\ UNCHANGED <<browser, history, acts, others>>

\* 60 seconds after it was granted
LeaseExpires(p) ==
    /\ leases[p] # 0
    /\ leases[p] \in lost \/ Cardinality(lost) < MaxLost
    /\ lost' = lost \cup {leases[p]}
    /\ leases' = [leases EXCEPT ![p] = 0]
    /\ UNCHANGED <<browser, saves, versions, history, acts, others>>

\* another editor acquires, saves and releases
OthersSave(p) ==
    /\ others < MaxOthers /\ others' = others + 1
    /\ leases[p] = 0 /\ versions[p] # <<>>
    /\ versions' = [versions EXCEPT ![p] = Append(@, Others)]
    /\ UNCHANGED <<browser, saves, leases, history, lost, acts>>

-----------------------------------------------------------------------------
PersonNext ==
    \/ Edit \/ Undo \/ Redo \/ SaveByHand \/ SaveCopy \/ Leave
    \/ \E p \in Ids : Load(p)

BrowserNext ==
    \E i \in DOMAIN saves : AutoAnswered(i) \/ ManualAnswered(i) \/ CopyAnswered(i)

ServerNext ==
    \E i \in DOMAIN saves : Refused(i) \/ Acquired(i) \/ Committed(i) \/ Released(i)

Next ==
    \/ PersonNext \/ BrowserNext \/ ServerNext
    \/ TimerFires \/ Loaded \/ HostEchoes
    \/ \E i \in DOMAIN saves : ConnectionLost(i)
    \/ \E p \in Ids : LeaseExpires(p) \/ OthersSave(p)

Spec == Init /\ [][Next]_vars

\* Every call is answered or rejected, the browser handles what it receives and
\* its timers fire.
FairSpec == Spec /\ WF_vars(ServerNext) /\ WF_vars(BrowserNext) /\ WF_vars(TimerFires)

-----------------------------------------------------------------------------
TypeOK ==
    /\ doc \in Doc /\ doc.origin \in DOMAIN origins
    /\ pid \in Ids \cup {None}
    /\ undo \in Seq(Doc) /\ redo \in Seq(Doc)
    /\ Len(undo) + Len(redo) <= UndoLimit
    /\ timer \in BOOLEAN /\ open \in BOOLEAN
    /\ saves \in Seq(Save) /\ Len(saves) <= MaxActs
    /\ reads \in Seq([project : Ids, at : Nat \ {0}])
    /\ origins \in Seq([project : Ids \cup {None}, at : Nat])
    /\ versions \in [Ids -> Seq({Others} \cup DOMAIN origins)]
    /\ leases \in [Ids -> {0} \cup DOMAIN saves]
    /\ unsaved \in BOOLEAN /\ dropped \in BOOLEAN /\ stamped \subseteq DOMAIN origins
    /\ lost \subseteq DOMAIN saves
    /\ acts \in 0..MaxActs /\ others \in 0..MaxOthers

\* The n-th revision of p belongs to the project its content was loaded from, and
\* every revision since the one it was loaded at is its own.
BuiltUpon(p, n) ==
    LET o == versions[p][n] IN
    /\ origins[o].project \in {p, None}
    /\ \A m \in (origins[o].at + 1)..(n - 1) : versions[p][m] = o

\* A revision that this editor saves replaces only work that its document
\* contains, whatever was undone, loaded again or answered late.  Exempt are the
\* documents the code itself misleads: one that got the identity or the revision
\* of a save of another document (a manual answer after a load or copy, an
\* autosave's answer after a load of the same project), and one saved by hand
\* under the editor's identity after an undo across a load.
NothingOverwritten ==
    \A p \in Ids : \A n \in DOMAIN versions[p] :
        versions[p][n] \notin {Others} \cup stamped => BuiltUpon(p, n)

\* The same without exemption, as the documentation promises it: no save of this
\* editor overwrites work its document does not contain.
NoLastWriterWins ==
    \A p \in Ids : \A n \in DOMAIN versions[p] :
        versions[p][n] # Others => BuiltUpon(p, n)

\* No document of this editor, on display or on its stacks, claims a revision its
\* project has not reached, whichever answers arrive after it was replaced.
NeverAhead ==
    \A d \in {doc} \cup Range(undo) \cup Range(redo) :
        d.id # None => d.revision <= Len(versions[d.id])

\* A lease is held for a save that is still using it, or its call was lost: no
\* refusal, conflict or failure leaves a project locked for everybody.
LeaseReturned ==
    \A p \in Ids : leases[p] # 0 =>
        \/ leases[p] \in lost
        \/ saves[leases[p]].stage \in {"saving", "releasing"}

\* Every save comes to its end, also when its lease is held by another, expires
\* or its calls are lost.
SaveIsAnswered ==
    \A i \in 1..MaxActs : i \in DOMAIN saves ~> At(i, "over")

\* An edit is sent to the server: later edits, undos, autosaves' answers and
\* refusals only put it off.  It is not when the editor is left, when a load or
\* the answer of a manual save clears the timer before it fires, or when the
\* document has no identity and the timer keeps it in the browser.
EditsAreSent == unsaved ~> ~unsaved \/ dropped \/ ~open
=============================================================================
