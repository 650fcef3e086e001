# Verification of the GLT Flow Card Companion

TLA+ models of the Companion integration in `src/custom_components/glt_flow_card`
and of the card's designer and control dialog, checked with TLC on small
instances and, where a property should hold for every instance, proved with
TLAPS. Paths below are relative to the repository.

## The system

A Home Assistant integration keeps building-automation *projects* (one JSON
document each) and serves a browser card. Everything on the server runs as
asyncio tasks of one process: two operations interleave exactly at their
`await`s. The stores are JSON files written whole by Home Assistant's `Store`,
so one write is atomic and a crash falls between writes.

| component | state it keeps | operations | what makes it correct |
|---|---|---|---|
| transaction coordinator, `project_transactions.py` | retained previews, one `asyncio.Lock`, the transaction at work | preview, apply, rollback, recover | atomic commits, no lost update, receipts survive crashes, every request answered |
| repository, `project_repository.py` | heads, snapshots, journals, audit (memory copy and file of each) | read/write head, put snapshot and prune, journal, append audit, delete head, legacy import | content addresses immutable, heads restorable, audit agrees with the journal |
| runtime and commands, `__init__.py` | `GltStore.data`, alarm tasks, schedule runs, one runtime per entry | WebSocket commands, setup, unload, options reload, timers | each command acts under the authority it was granted, no torn reloads |
| leases, `project_leases.py` | one lease per project, rate buckets, generation (memory only) | acquire, renew, release, expire, invalidate | one holder, dead tokens stay dead |
| membership, `project_access.py` | assignments and access revision (memory and file) | assign, revoke, seed, persist | exact-revision changes, no stranded project |
| policy, `policy.py`, `policy_sessions.py` | none; subscriptions, cursors | authorize, revalidate | revocation takes effect before the next delivery |
| alarms, `__init__.py`, `alarm_engine.py` | alarm rows (memory and file), delayed tasks, grace after a start | scan of a state change, delayed transition, acknowledge, shelve, notify | one notice per occurrence, acts survive a restart, transients silent, persistent faults ring |
| schedules and simulation, `schedule_time.py`, `dispatch_gate.py`, `simulation_session.py` | run keys, history, open rehearsals | minute tick, catch-up, start/stop rehearsal | at most one run per instant, none during a rehearsal |
| controls, `configured_controls.py`, `trusted_evidence.py`, `project-safety.js` | evidence rows (memory and file), the dialog's state | preview, accept, dispatch, record result, show | accepted evidence before any dispatch, the log claims no effect that was not attempted |
| remote sites, `remote_fanout.py`, `site_*.py` | none durable | bounded fan-out | partial answers are marked as such |
| documents, `project_contract/diff/merge/migrations/bundle.py` | none | validate, diff, merge, migrate | merge of disjoint edits, digest of what was shown |
| designer, `src/src/generated-bases/glt-flow-card.base.js`, `project-save.mjs` | document, undo stack, autosave timer, saves in flight | edit, undo, load, copy, autosave, save by hand | nobody's revision overwritten, no lease left behind, no edit forgotten |
| browser modules, `src/src/v100` | save state machine, view sequence, catalogs | authority client, resync, rendering | unsaved work cleared only by a receipt |

Interactions: a WebSocket command is authorised by the policy from membership,
carries that decision (with its access revision) and a lease token into the
coordinator as a *guard*; the coordinator calls the guard under its lock, reads
and writes the repository, and answers. Membership changes invalidate leases.
Setup loads the repository, recovers open journals and only then publishes the
runtime. The designer saves through the lease and save commands; the control
dialog calls the control commands, which ask the simulation's gate and write
evidence; state changes of the plant start alarm scans. `delete_project` is the exception: it writes the repository without
the coordinator's lock.

The hard behaviours are therefore interleavings at awaits, crashes between two
files, writes that fail or do not stick, and authority that lapses while a
request waits. `PROJECT.json` lists each of them at its line under `hazards`,
with the properties that watch it or the reason none does yet.

## What is modelled

### `ProjectTransactions` — coordinator and repository

State: the four files (`heads`, `snaps`, `journals`, `audit`), the memory copy
of the heads (`memHeads`), the heads saves issued and not yet on disk
(`saving`), the retained previews, one request per user, the lock's queue and
where its holder stands (`waiting`, `stage`, `op`), the life cycle of the
integration (`phase`), and the history variable `acked` of transactions a
client was told are committed.

| actions | code |
|---|---|
| `MakePreview`, `DropPreview` | `preview`, `_retain_preview`, `_purge_previews` |
| `RequestApply`, `RequestRollback` | `apply`, `rollback` up to the lock |
| `Delete` | `GltStore.delete_project` with `delete_head` |
| `Begin`, `Conflict`, `Recheck`, `Deny` | lock, head re-read, `_check_guard`, second head read |
| `WriteBackup`, `WritePrepared`, `WriteSnapshot`, `WriteHead`, `LandHeads`, `VerifyHead`, `MarkPending`, `AppendAudit`, `WriteFinal` | one awaited write or read-back of `_commit` and `_complete_audit` each |
| `WriteFails`, `HeadFails`, `LandFails`, `AuditFails` | a write that raises, or is lost and noticed by the read-back |
| `Crash`, `Load`, `Recover`, `RecoveryDone` | process exit, `async_initialize`, `async_recover`, `async_load` |

Abstractions. A digest covers project id, revision and content, so a snapshot
id is the triple of them; contents are model values. One durable write is one
step. Home Assistant's `Store` (external) merges saves that wait for the same
file and answers a load from the data that waits, else from the file: `saving`,
`Waiting` and `Loaded` are that. Transaction ids come from a counter instead of
random text, and a preview may vanish at any time instead of by age and bytes.
The commit guard is a nondeterministic `Deny`. A failed setup is retried by
`Load`, as Home Assistant or a user does.

### `VersionedProjects` — what clients are promised

Every project is a versioned register; a transaction takes effect at once or
not at all, its outcome never changes, a client is told only of committed
ones, and the log holds only outcomes. `ProjectTransactions` is shown to
implement it under the mapping `Abstract`: a transaction counts as committed
from the instant its head is on disk, before its journal says so.

### `LeaseRegistry`, `ProjectAccess` — who may edit, who is a member

`LeaseRegistry` is the in-memory registry of `project_leases.py`: at most one
lease per project, a bearer that rotates with every renewal, expiry on a clock,
a rate limit, and what drops leases (a release, a newer access revision, a new
runtime generation). Tokens are numbers in the order they are issued, times
count down, and `issued` is a history variable. `release_session`,
`release_user` and `release_all` have no caller in the integration, so no
action models them.

`ProjectAccess` is `project_access.py` with the role table of `policy.py`:
memory (`access`), the file (`stored`) and the saves under way (`saves`).
`_persist` saves the whole of memory and compares the read-back; `Store`
(external) writes one save at a time, lets the next in line take the data of
the last, answers a load from the waiting data, and logs a write error instead
of raising it (`Lose`). `Companion` declares the projects and users both share.

### `MutationAuthority` — authority in flight

Composes the two with connections and with requests in flight: what
`_guard_command` decides at the boundary, what a request carries through its
awaits, and what is asked again when it goes on.

| actions | code |
|---|---|
| `Connect`, `Disconnect` | a WebSocket connection; nothing in the integration is told |
| `LeaseCommand` | `leases/acquire`, `renew`, `release` with `_lease_purpose` |
| `RequestSave`, `Recheck`, `Commit`, `Fail` | boundary, `recheck_before_commit` under the lock, end of the commit |
| `RequestSet`, `ApplySet`, `RefuseSet`, `RemoveNobody`, `FinishSet` | `ws_access_set` between its awaits |
| `RequestCreate`, `LeaseForCreate`, `DeniedForCreate`, `GiveBack` | `ws_projects_create` with its own seed and lease |
| `SaveAcl`, `LoseAcl`, `PersistFails` | the ACL file's writer, the read-back that differs |
| `Delete` | `ws_projects_delete`, which has no await between check and effect |
| `TimePasses`, `Restart`, `Reload` | clock, process exit and start, unload and setup |

History variables: `lapsed`, the requests whose authority did not hold at some
moment of their wait (`Watched` keeps it in every step), and `told`, per project
the last entry a caller was answered (`answered`) and the last that was read back
from the file (`verified`). `_persist`'s read-back is one or the other: while
another save is in line, `Store` answers it from the data that waits
(`DataWaits`), which no file may ever hold. `ConfirmedMembershipSurvives` says
what does hold: the file never falls behind an entry that was read back from it,
memory is never behind the file, and, if no save was lost and the process did not
end, everything answered is in the file once no save is in line.
`AnsweredIsStored` is that last clause without its condition, as `_persist`'s
docstring has it; the run `authority_hearsay` refutes it.

Abstractions. What a commit does to the stores is `ProjectTransactions`; here it
is one step after the guard. "viewer" stands for operator too, since no route
here tells them apart. The seeding inside `projects/save` is left out: that
route demands a lease, which demands an assignment, and with an assignment
nothing is seeded. A setup finds no membership or one that an earlier run
seeded and changed, not one taken over from legacy permissions. A reload waits until no mutation is in flight.

### `TrustedEvidence`, `ConfiguredControl`, `ControlPath` — from the button to the plant

`TrustedEvidence` is `trusted_evidence.py`: rows in memory, newest first, cut to
the retention and saved as a whole after each; `Store` (external) merges the
saves that wait. `ConfiguredControl` is the reducer of `configured-control.mjs`
with what `project-safety.js` does around it. `ControlPath` composes them with
the handlers, the simulation's gate and Home Assistant's services (external).

| actions | code |
|---|---|
| `PressPreview`, `PressRun`, `PressCancel`, `CloseDialog`, `Deliver` | the dialog's buttons and `reduceControlEvidence` |
| `AnswerPreview`, `Refuse` | `ws_controls_preview`; a refusal of `ws_controls_execute` before the gate |
| `RefuseAtGate`, `AnswerRefused` | the gate refuses; its audit row is saved before the refusal is answered |
| `Accept`, `Dispatch` | gate and accepted row; the service call after its save returned |
| `ServiceReturns`, `ServiceRaises`, `Readback`, `AnswerExecute` | dispatched row; result unknown; read-back or its timeout; the answer |
| `EvidenceSaved`, `EvidenceRaises`, `EvidenceLost` | a write of the log ends, raises into its handler, or is only logged |
| `StartRehearsal`, `EndRehearsal` | `simulation_session.py` |
| `Disconnect`, `Restart` | the connection is lost, calls rejected; process exit and `async_initialize` |

Abstractions. Which service a control resolves to, revisions, the rate limit
and the byte budget of the log are left out: the boundary refuses for any of
its reasons at any time. The correlation id is the number of the request. Left
out: a reload of the entry while a handler is suspended, which leaves two
evidence stores, the old one still saving its rows over the new one's. History
variable: `opened`, the requests sent before the dialog was opened, so that a
success on display can be told to be this dialog's own.

### `AlarmLifecycle` — the alarms of one entity

| actions | code |
|---|---|
| `Reports` | a state change: `process_state_change` and its scan, up to the first save |
| `ClearSaved`, `Notify`, `Delivered` | the scan after `alarm_transition`'s save and its notification, going on to the later alarms with the value it was called with |
| `Wakes` | `_delayed_transition` after its sleep |
| `AckAlarm`, `ShelveAlarm`, `ActAnswered`, `ShelfExpires` | `ws_alarm_action` and its save; the shelf's time |
| `Started`, `GraceEnds`, `Restart` | `async_mark_started` with `pending_from_state`, the grace, the end of the process and the load after it |
| `SaveLands`, `SaveLost` | the Store's writer, a write that is only logged |

A coroutine runs from one `await` to the next in one step. Conditions and
hysteresis are reduced to the class of the value; a maintenance flag acts like
a shelf. `ByInactive` are the alarms configured by `inactive_states`, which an
unavailable entity also raises when a delay ends (`Evaluates`). `Workers` are
names for suspended coroutines. `Restart` is the end of the process and no
reload: `async_close` cancels the delayed tasks only, and what the old manager's
scans and acts do afterwards is left out (see the divergences). History
variables: `withheld` and `stale` (the last value was not decided, or was no
longer true when it was decided), `broken` (a normal value was seen since the
delay began), `rearmed` (a start re-armed the rest of a delay from its old
anchor), `notified`, `confirmed`.

### `EditorSaves` — the designer's saves

| actions | code |
|---|---|
| `Edit`, `Undo`, `Redo` | `_remember`, `_emit`; `_undo`, `_redo` put back whole configurations |
| `TimerFires`, `AutoAnswered` | the autosave of `_emit`, 900 ms after the last change, and its answer |
| `SaveByHand`, `ManualAnswered`, `SaveCopy`, `CopyAnswered`, `Load`, `Loaded` | the library dialog `showProjects` |
| `HostEchoes`, `Leave` | the host hands the configuration back to `setConfig`; the editor is removed (counted as an act) |
| `Acquired`, `Refused`, `Committed`, `Released` | `saveSharedProject`'s lease, save and `finally`, at the server |
| `ConnectionLost`, `LeaseExpires`, `OthersSave` | a call is rejected though it may have been done; 60 s; another editor |

A document is the identity and revision it claims and the origin its content
descends from (a load, a copy, the start). A commit is what
`ProjectTransactions` makes of it, one step, which compares the named project
and revision with the head; a refusal may come for any reason at any time. The
dialog is opened at the click; its list of projects may be older. Left out:
deleting a project, importing YAML, restoring a version, the browser's local
storage, a dialog left open while the document under it changes, and pressing
Save in one left open after a failed copy. History variables: `origins`;
`unsaved`, `dropped` (the autosave of the last edit was cleared by a manual
save's answer or a load, or kept in the browser for want of an identity);
`stamped` (origins of the documents that were given another document's identity
or revision); `lost`.

## Runs

| run | instance | shows |
|---|---|---|
| `tx_crash` | 1 project, 2 users, 2 contents, 4 transactions, 2 crashes, retention 2 | atomicity (refinement), audit, restorable heads, recovery never stuck |
| `tx_faults` | 1 project, 2 users, 1 content, 3 transactions, 1 fault at any stage, 1 crash, 1 delete | receipts survive, aborted leaves nothing, immutability, heads advance and never regress, every request is answered, recovery ends |
| `tx_delete_resurrects` | 2 projects, 1 delete, no crash, no fault | **violated**: a deleted project comes back |
| `authority` | 1 project; an HA administrator with two tabs and a user with one; 2 bearers, 3 access revisions, 1 lost save, 1 restart | leases, membership and guard: lost roles disarm, no commit on authority that lapsed, dead bearers stay dead, membership read back survives |
| `authority_hearsay` | 3 projects, 3 tabs of an administrator, 1 lost save, 1 restart | **violated**: an answered membership change is in no file |
| `controls` | 1 control, 4 requests, retention 5, 1 failing save, 1 break, 1 rehearsal | accepted before dispatched, honest and append-only evidence, success on display is the dialog's own and recorded, every Run is told a result |
| `controls_mixup` | 2 controls, 3 requests | **violated**: Run executes another control than the summary shows |
| `controls_rehearsal` | 1 control, 2 requests, 1 rehearsal | **violated**: a service is called during a rehearsal |
| `alarms` | 2 alarms, one with a delay and by inactive states; 3 changes, 1 act, 1 restart, 1 lost write | one notice per occurrence, acts survive, alarms follow the plant, transients silent, persistent faults ring |
| `editor` | 2 shared projects and 1 new, undo limit 2, 3 acts, 1 save of another editor, 1 lost call or expired lease | nothing overwritten but by documents that were misled, no claim ahead of the server, leases come back, saves end, edits are sent |
| `editor_overwrites` | 2 shared projects, 3 acts, nothing lost, nobody else | **violated**: a save overwrites work its document does not contain |
| `tx_audit_outage` | 1 project, 2 transactions, 1 fault, 1 crash | **violated**: an audit outage followed by a commit makes the next setup fail |

Bounds. `MaxTx`, `MaxCrashes`, `MaxFaults` and `MaxDeletes` cap counters; all
else is finite because of them. Two users are enough for a queue behind the
lock and a delete beside a commit; the code treats further users alike. Two
crashes let recovery itself be interrupted. Retention 2 is the smallest at
which the protocol works and is where pruning bites after two revisions; the
option's own minimum is 5, so the run is stricter than the code. `MaxAudit` 3
with four transactions trims the audit. In `tx_faults` three transactions are one
that commits, one that fails or loses its head to the delete, and one that builds
on what is left; faults at every stage, the crash and the delete may all meet in
one behaviour. `ReceiptsSurvive`, `AbortedLeaveNoTrace` and `HeadsAdvance` speak of
the time until the first delete, `HeadsNeverRegress` of all of it. What that run
cannot reach is left to the proof `HeadsKept`, which is for all constants: two
projects whose heads share the saved file, a project created anew with another
content after a delete, and, because a head write that gets lost without a trace
is enabled, the clause of `HeadsNeverRegress` about what clients were told.
`tx_delete_resurrects` has two projects because its question is about another
project's save; the same can happen to one project alone, when the second read of
its own commit brings the head back. Users, projects and contents are symmetric;
the run with liveness uses no symmetry.

In `authority` a lease lives two ticks and the rate limit is one operation per
tick, so that both bite; two bearers let a renewal or a second acquisition race
the first, and the administrator's two tabs change the membership at once, so
that their saves merge. The tabs are symmetric. A role taken and given back while
one request waits needs a third bearer and is left to the proof
`GuardClearsUnbroken`; every property of the run is proved for all values. In
`authority_hearsay` three tabs are what it takes to have one save lost, one read
back and one waiting.

In `controls` one request writes up to three rows, so two executions fill a
retention of five and the oldest rows are dropped while others wait; the
control is one because nothing but `controls_mixup` tells controls apart.
`controls_rehearsal` needs one preview and one Run only. In
`alarms` the delayed alarm comes first, so that the scan of the second waits
for it; three changes are a fault, its end and a relapse, three workers are two
coroutines that wait beside a third that starts. In `editor` three acts are an
edit, an undo and a save, or two saves around a load, and an undo limit of two
is reached by them; `editor_overwrites` needs no other editor and no new
project. The proofs about `ControlPath`, `EditorSaves` and
`AlarmLifecycle` are for all bounds.

Fairness (`FairSpec`) of the transactions: weak fairness of the lock's holder, of its writes, of the
heads file's writer, and of load and recovery after a crash. The event loop
runs every ready task, the executor finishes a file write, `asyncio.Lock` is
FIFO, and Home Assistant starts its integrations again. No fairness is assumed
of clients, faults, crashes, or the retry of a failed setup.

Of the others: `ControlPath` assumes that handlers go on, a write ends, a
service call returns or raises and the browser handles what it receives. The
blocking service call has no timeout in the code, so that it ends at all is an
assumption about the service. `AlarmLifecycle` assumes the same of coroutines,
sleeps, writes and notifications (which have a timeout). `EditorSaves` assumes
that every call is answered or rejected, the browser handles answers, and its
timer fires. None assumes anything of people, the plant, rehearsals or faults.

## Divergences found

* `tx_delete_resurrects`: `delete_head` runs outside the coordinator's lock.
  While its save is still being written, a commit of another project re-reads
  the old file and saves the deleted head again. The Phase 2 research asks for
  a transaction/tombstone path and "no direct unjournaled delete".
* `tx_audit_outage`: an `OSError` of the audit is answered as success and left
  to the next start. A later commit moves the head, and `async_recover` then
  raises "unrecoverable project transaction" at that and every later start.
  The Phase 1 verification review says recovery covers this state.

* `authority_hearsay`: `_persist` reads its save back with `Store.async_load`,
  which answers from the data that waits when another save is in line. If its own
  save is lost, a membership that no file holds is confirmed, and the end of the
  process before the waiting save takes it back.

* `controls_mixup`: an answer to an older preview is shown whatever control was
  chosen since, and Run executes the chosen one.

* `controls_rehearsal`: the gate is asked before the await of the accepted row and
  not again (`__init__.py:1636-1667`), though `dispatch_gate.py:70-73` asks for
  the state "at the moment of dispatch". A rehearsal that starts in between is not
  seen, and the service is called.

* `editor_overwrites`: the answer of a save by hand puts its identity and revision
  on whatever document is on display by then, for instance a project loaded
  meanwhile. Saving that one replaces the revision just saved with content that
  never contained it. `src/README.md:440` says there is "no last-writer-wins path
  anywhere".

`PROJECT.json` quotes the lines under `findings`. Seen while modelling, with no
run of their own:

* Nothing calls `LeaseRegistry.release_session`, and the session a lease is bound
  to is the login's refresh token. A lease outlives its connection until it
  expires, and another tab may use its bearer, although `src/README.md:427`, the
  Phase 2 plan 02-08 and `release_session`'s docstring say it is dropped.
* `src/README.md:433` says a membership change does not invalidate a save in
  flight; `recheck_before_commit` refuses any save whose access revision moved.
* `project_transactions.py:40-44` places the guard immediately before PREPARED;
  `_commit` awaits the head and, for a first head, writes a backup in between.
* A failed save of the ACL leaves memory changed; after a restart the old
  revision is back and the next change gives out the same number again.
* Every commit that fails after its snapshot was written leaves the snapshot
  behind; as many such failures as the retention keeps can prune the head's
  own. `HeadIsRestorable` is therefore checked in the run without faults.
* A reload of the entry builds a second manager while coroutines of the first are
  suspended. They go on after it and save the old manager's memory over the new
  one's: an answered acknowledgement or an evidence row can be lost, an occurrence
  be notified by both, two coordinators commit under two locks. No model has a
  second manager; a restart is the end of the process in all of them.
* A commit whose head write fails leaves its head in memory
  (`project_repository.py:338`). A delete of another project saves it, and a
  commit that read the older file meanwhile writes over it: a head of the same
  or a lower revision replaces one no client was told of. `HeadsNeverRegress`
  allows that once a write has failed, and only for such heads.
* A delete's save that was merged, or that a commit's re-read undid, leaves on
  disk a head which memory no longer has. A commit that then finds the project
  without a head creates it anew, so revision 1 directly replaces a later one
  on disk. `HeadsNeverRegress` names this case (`StartedAnew`): no other step
  takes a head back.
* A delete alone can make recovery fail at every start, without any failing write:
  a commit that expects revision 1 has read the head from the file and written
  PREPARED, the delete's save then lands, and the program stops. The journal is
  neither at its old head nor at its new one (`project_transactions.py:744-771`;
  `_matches_old_head` takes a missing head only for revision 0), so
  `async_recover` raises. TLC finds it with one project, two commits, one delete
  and one crash; `RecoveryNeverStuck` is claimed before the first delete.
* `MutationDenied` is no `PermissionError`, so a denial under the lock is not
  answered as `capability_denied` (`__init__.py:1448`).

Controls:

* A late preview answer while a Run is pending offers Run again; a Cancel then
  shows "Nothing was sent" although it was. A lost connection, or a failing
  evidence row after the dispatch, is shown as denied.
* A write error is logged by `Store`, so an accepted row may not be durable; a
  failed write raises into one caller and leaves the merged others without
  theirs. Rows left at "accepted" by a crash are never closed.

Alarms:

* An acknowledged alarm is suppressed, so the change that would clear it, and
  with it the acknowledgement, is not looked at: it stays active and silent.
* A value seen during the grace or a shelf is not looked at again when it ends
  (`withheld`), though `test_alarm_restart.py:257` says nothing is lost.
* `delay_anchor` is not saved when it is set and never cleared
  (`__init__.py:887`): after a restart a delay is lost, or the rest of one whose
  transient was seen to be over is re-armed, and a later activation rings early,
  although `alarm_engine.py:168-175` measures from the activation that goes on.
  TLC finds this when `TransientsStaySilent` speaks of all of `Delayed`: a delay,
  a normal value, a restart, a fault, and the rest of the old delay ends. The
  property exempts the re-armed rest (`rearmed`) and nothing else.
  `_delayed_transition` asks neither the suppression nor the grace.
* A scan decides its later alarms on the value it started with, after waiting
  up to 15 s for an earlier one's notification (`stale`).

Designer:

* After an autosave, undo also restores the old revision; every later save is a
  conflict, which only `_glt4SaveError` knows, and nothing reads it.
* A save by hand after an undo across a load stores the old content under the new
  project, and an autosave's answer after a load of the same project stamps the
  loaded document. With the answer of a manual save these are the cases that
  `NothingOverwritten` exempts, document by document (`stamped`), and
  `NoLastWriterWins` does not.
* A manual save's answer or a load clears an armed autosave (`dropped`);
  leaving the editor within 900 ms of an edit drops it, and a document without an
  identity is only written to the browser's storage. `EditsAreSent` names all
  four.
* A save whose release fails is reported as failed although it is committed.
  "Save as copy" of a project the server does not know is refused at the lease
  and leaves an identity that no autosave can save.

Schedules:

* The gate is asked with the entry's `project_id`, which entries need not
  carry, so such an entry's service is called during a rehearsal
  (`__init__.py:1141`).
* `save_schedule` and `delete_schedule` change `data["projects"]` in memory.
  `async_save` writes `_legacy_projects` (`__init__.py:287`), a load takes the
  projects from the repository, and a commit replaces the document: an edit
  that was answered and audited is gone after the next commit or restart.
* A run under way iterates the list it began with, so an entry deleted while an
  earlier one is awaited is still run. Receipts and history are saved at the
  end of a tick: a crash loses the rows of calls already made, though
  `docs/wiki/Schedules.md:126` says every execution is recorded. After a reload
  the old runner goes on and saves its own manager's data over the new one's.
* Instants missed while Home Assistant is down are not caught up.

## Proofs

`ProjectTransactions_proofs` proves, for all values of the constants under
`SetsAssumption`, `BoundsAssumption` and `SentinelAssumption`:

* `TypeCorrect`: `Spec => []TypeOK`.
* `SnapshotStoreImmutable`: `Spec => []SnapshotsImmutable`, a content address
  never has two owners, through retries, crashes, faults, pruning and deletes.
* `Inductive`: the invariant behind both. Immutability alone is not inductive:
  `WriteBackup` adds a snapshot without looking for its address again, so the
  invariant also says that at stage "backup" no snapshot of that address
  exists, that the holder's `op` is well formed exactly while a stage is
  occupied, and that queue, requests and previews fit together.

The argument has one lemma per group of actions and one step per action.
TLC checks `TypeOK` and `SnapshotsImmutable` on the small instances too.

Three modules build on it under the same assumptions. `SentinelAssumption` says that `None` is no request, no journal and
no heads file, which in the code are dictionaries and never Python's `None`.

`TransactionHistory_proofs` is about failing writes and crashes in any pattern.
`HistoryHolds` proves the invariant `HistoryInv`; from it follow
`AuditIsFaithful` (`AuditFaithful`), `AbortedInvisible` (`AbortedLeaveNoTrace`),
`ReceiptsDurable` (`ReceiptsSurvive`) and `HeadsOnlyAdvance` (`HeadsAdvance`).
None of the four is inductive. `HistoryInv` adds what the holder of the lock and
its journal say of each other at every stage (`HolderInv`), that only the
holder writes the heads file and from what is on disk (`SavingInv`), that the
head does not move between the second look at it and its replacement
(`BaseInv`), that the verdict about to be written is the truth (`DecidedInv`)
and that what is in a journal stays true (`JournalInv`, `ToldInv`), and that
every head and snapshot comes from a journal. The case that needs care is a
recovery cut off after it marked its journal aborted: the next one must come to
the same verdict, so the journal's head and snapshots must not move before it
does (`Undone`). All of this speaks of the time until the first delete
(`deletes = 0`, which is part of the four properties), and has to: `delete_head`
takes neither the lock nor a journal (project_repository.py), a head that goes in
the middle of a commit makes recovery's verdict differ from what was audited, and
TLC finds `AuditFaithful` false as soon as a delete and a failing write meet. What
does hold after a delete is `HeadsKept`.

`TransactionRecovery_proofs` is about crashes alone. `RecoveryHolds` proves
`RecoveryInv`, from which follow `HeadAlwaysRestorable` (`HeadIsRestorable`) and
`RecoveryResolves` (`RecoveryNeverStuck`), for every retention of at least two.
`RecoveryInv` says that one journal is open at most (`OneOpen`), that its
project's head is the old or the new one (`Resolvable`), that only the snapshot
being committed is ahead of its head (`SnapshotsUpTo`) and that no revision has
two (`OnePerRevision`): pruning keeps the last versions of a project, so the
head's own is among them. It is guarded by `faults = 0 /\ deletes = 0`, because a
write that fails leaves its journal open while later commits go on; with one
failing audit write `RecoveryNeverStuck` is false, which `tx_audit_outage` shows. With
a delete between PREPARED and a crash it is false as well (see the divergences).

`CoordinatorRefines`, in the same module, is the refinement: in behaviours without
failing writes and deletes the coordinator implements `VersionedProjects`, the
property of `tx_crash`. The mapping takes a
transaction's outcome from its journal and, while that is undecided, from the
head; a commit then takes effect in the one step in which the heads file is
replaced (`LandHeads`), an abort when recovery marks the journal
(`MarkPending`), a client is told in `WriteFinal` and the audit gets its event in
`AppendAudit`. Every other step, crashes and both halves of recovery included,
is shown to leave heads, outcomes, audit and answers as they are. Two facts are
the substance of it: no step but those two changes an outcome (an outcome could
move with the head of another transaction's project, which `OneOpen` and
`Survives` exclude), and recovery's mark of a journal whose head is there
changes nothing.

`TransactionDeletes_proofs` is about all behaviours, with deletes, failing writes,
crashes and recoveries in any number and order. `VersionsTraced` proves
`HeadsInv`, and `HeadsKept` from it `Spec => HeadsNeverRegress`. The property
compares the file before and after a save lands; what that save carries was
decided when it was issued, when others were merged into it, or when an older
file was read back, so the invariant follows the copies of a head (`Copies`)
through the file, memory and every save in line. No step makes a copy but the
holder's own write (`CopiesKept`, `CopyAdded`). While no write failed there is one
version of a project beside that of the transaction at work (`OneVersion`); what
clients were told is committed is older than every other version, or of the time
before a delete (`AckedFirst`), with failed writes too; both rest on what the
second look at the head says of all its copies (`BaseInv`). The delicate part
is the head on its way (`OnItsWay`): saves of deletes may stand before it and
behind it, its own data may already be replaced by a later delete's, and the
older version must not be written again after it. That needs the shape of the
line (`LineInv`: only the first save and the last ones have data). While
recovery runs there is no delete and memory is the file (`QuietInv`). A heads
save that gets lost leaves no trace in a delete's caller, so these facts, but
not those about journals (`Traced`), are guarded by `NothingLost`. The attempt to
prove the property in an earlier form, without `StartedAnew`, failed at `BaseInv`,
and TLC then found the counterexample on an instance with two contents, a merged
delete (described under the transactions' divergences above).

`MutationAuthority_proofs` proves, under `LeaseAssumption`, `AccessAssumption`,
`AuthorityAssumption` and `RequestAssumption`:

* `GuardClearsUnbroken`: `Spec => []ClearedUnbroken`;
* `DeadBearers`: `Spec => BearersStayDead`;
* `LostRolesDisarm`: `Spec => []RoleLossDisarms`;
* `AuthorityTypes`: `Spec => []TypeOK`;
* `MembershipSurvives`: `Spec => []ConfirmedMembershipSurvives`;
* `AuthorityInductive`: the invariant behind the first four.

What a step may do is stated once, as three formulas proved of every action:
`LeaseChange` (a lease is kept but for its time, dropped, or new under a fresh
bearer and the present membership), `AclChange` (an access revision moves by
one, or a setup takes it back when no lease and no request is left) and
`WaitChange` (a waiting request stays as it is, is answered, or is cleared by
the guard). The invariants follow from these alone. `ClearedUnbroken` needs the
strengthening `WaitInv`: authority that a waiting request lost never returns,
because the revision it carries is at most the present one and its bearer is
one already issued; `RoleLossDisarms` needs that a lease's revision is at most
the present one (`LeaseInv`). `OwnerInv`, one waiting caller per ACL save, is
what types the end of a save. `MembershipSurvives` needs `SavesInv`: what
was read back from the file, the file, the saves in line and memory are, in this
order, each as late as the one before (`Precedes`). It survives the Store's
merging, where the next save takes the data of the last and the others none. For
the answers given from data that waited it needs `AnswersInv`: until a restart,
what was answered is no later than what memory holds, and, if no save was lost,
memory is the last data in line or already in the file (`LineInv`).

`ControlPath_proofs` proves, under `EvidenceAssumption` and `PathAssumption`:
`TypeCorrect`, `AcceptedFirst`, `HonestEvidence`, `SuccessRecorded` and
`AppendOnly`, that is every safety property of the run. The log, the
save being written and the rows in memory are three generations of one
sequence, each extending the one before by new rows at its top; append-only
follows from that, and with it that a row, once on disk, leaves only through
the retention. The other invariants relate a request's stage to its rows: past
"accepting" its accepted row is on disk unless a write failed, and a row other
than "accepted" exists only of a dispatched request. That a success is this
dialog's own needs `ShownInv` and `FreshInv`: what the dialog shows of a request it
sent after it was opened, and no answer for an earlier one is still awaited.

`EditorSaves_proofs` proves, under `EditorAssumption`: `TypeCorrect`,
`OverwritesNothing`, `ClaimsAreReached` and `LeasesComeBack`. `NothingOverwritten`
speaks of the server alone and is not inductive. `ClaimsInv` adds what every
document (`Based`), every save in flight with what it was told (`Sound`) and
every read on its way claims: the revision exists, and all revisions of that
project since the document's origin up to it are the document's own, unless that
document's origin is `stamped`. Claims
survive because versions only grow and origins stay (`Later`, `ClaimsStay`), so
each action has to account only for the documents, saves and revisions it adds.
`LeaseReturned` needs `LeaseInv`: a lease belongs to a save of its project.

`AlarmLifecycle_proofs` proves, under `AlarmAssumption`: `TypeCorrect`,
`OneNoticeHolds`, `ActsSurvive`, `PlantFollowed` and `TransientsSilent`, that is
every safety property of the run, for any number of alarms and coroutines. Two
invariants carry them. `RowsInv` orders the rows on disk, those being written,
those that wait and those in memory by `Before` (an occurrence only goes on, an
acknowledgement and a running shelf stay) and says of each suspended coroutine
that what it did is covered by the write it waits for, and that an occurrence
is raised by one coroutine and was not notified while that one has still to do
so. Every step of a coroutine is shown to be of one form (`Advances`) that
keeps this, however its save is merged with others. `PlantsInv` says that an
alarm whose last value was decided agrees with it or sleeps, unless a scan
under way has yet to reach it (`Pending`), which is what makes it inductive.

Every invariant and every action property a passing run checks is thus a theorem
too. Only model-checked are the properties of the runs that expect a violation
and liveness under fairness (`RequestsAnswered`, `RecoveryTerminates`, `RunSettles`,
`PersistentFaultsRing`, `SaveIsAnswered`, `EditsAreSent`), which is out of the
prover's reach together with `ENABLED`.

## Not modelled, and the plan

Next, in this order:

1. The guard composed with the commit's awaits (the gap between `Recheck` and
   PREPARED), and a reload with a mutation in flight.
2. Subscriptions and cursors with revocation in flight (`policy_sessions.py`).
3. `Schedules`: the minute tick, run keys, catch-up and the gate.
4. The browser's authority client, and view resync once something consumes it
   (`view-resync.mjs` and `view_stream.py` have no caller in the card).
5. Legacy import, fan-out to sites.
6. The pure algorithms (merge, diff, periods, version migrations) as functions
   over bounded documents, checked against reference definitions.

Not planned, for lack of state or because it is I/O or layout: recorder
queries, reports and energy arithmetic, document schemas and archives,
diagnostics, the config flow's forms, rendering and translations, generated
and packaged files. Most of the repository's JavaScript is of this kind: the
bundle `www/glt-flow-card.js` and the validators under
`src/src/v100/generated` are build products, and what they do is modelled, if
at all, at the files they are built from. The rest of the state is kept by the
Python integration.
