--------------------------- MODULE ProjectAccess ---------------------------
(***************************************************************************)
(* Project membership (project_access.py) and what a role is allowed to do *)
(* (policy.py).  The memory copy decides; _persist saves the whole of it   *)
(* and compares the store's read-back with memory before it answers.       *)
(***************************************************************************)
EXTENDS Companion, Integers, Sequences

CONSTANTS
    HAAdmins,   \* the Home Assistant administrators among Users
    Assignable, \* bound: the roles that are assigned, "none" to remove a member
    Callers,    \* who may have a membership change in flight
    Nothing     \* the data of a save an earlier write already covered

VARIABLES
    access,   \* ProjectAccessRepository._data
    stored,   \* the file
    saves     \* saves issued and not yet over; the first is being written

accessVars == <<access, stored, saves>>

\* "viewer" stands for operator too: none of the capabilities below tells
\* them apart.  "none" is a user without an assignment.
Roles   == {"none", "viewer", "engineer", "admin"}
Members == Roles \ {"none"}

Entry   == [revision : Nat, roles : [Users -> Roles], seeded : BOOLEAN]
Acl     == [Projects -> Entry]
AclSave == [by : Callers, acl : Acl \cup {Nothing}]

ASSUME AccessAssumption ==
    /\ HAAdmins \subseteq Users
    /\ Assignable \subseteq Roles
    /\ Nothing \notin Acl

-----------------------------------------------------------------------------
\* the capabilities the routes below ask for
Engineering == {"project.write", "lease.engineering"}
RoleCapabilities ==
    [none |-> {}, viewer |-> {}, engineer |-> Engineering,
     admin |-> Engineering \cup {"project.delete", "project.access.write"}]

HAAdminCapabilities == {"project.access.write", "lease.administration"}

RoleOf(u, p) == access[p].roles[u]

\* capabilities_for, with the Home Assistant administrator ceiling
Capabilities(u, p) ==
    RoleCapabilities[RoleOf(u, p)] \cup (IF u \in HAAdmins THEN HAAdminCapabilities ELSE {})

Member(u, p) == RoleOf(u, p) # "none"
Assigned(p)  == \E u \in Users : Member(u, p)

\* async_initialize: nothing stored yet, or the membership that an earlier
\* run seeded and changed
FirstEntry == [revision |-> 0, roles |-> [u \in Users |-> "none"], seeded |-> FALSE]
KeptEntries ==
    [revision : {1}, roles : {m \in [Users -> Assignable] : \E u \in Users : m[u] = "admin"},
     seeded : {TRUE}]

AccessInit ==
    /\ stored \in [Projects -> {FirstEntry} \cup KeptEntries]
    /\ access = stored
    /\ saves = <<>>

-----------------------------------------------------------------------------
\* mutant: a change of role that does not move the access revision
WithRoleQuietly(p, u, r) == [access EXCEPT ![p].roles[u] = r]

\* async_assign and async_revoke on memory
WithRole(p, u, r) ==
    [access EXCEPT ![p] = [revision |-> @.revision + 1,
                           roles    |-> [@.roles EXCEPT ![u] = r],
                           seeded   |-> @.seeded]]

\* async_revoke refuses the last admin; async_assign overwrites any role
LastAdmin(p, u) ==
    /\ RoleOf(u, p) = "admin"
    /\ \A v \in Users \ {u} : RoleOf(v, p) # "admin"

\* async_seed_first_admin on memory
WithFirstAdmin(p, u) ==
    [access EXCEPT ![p] = [revision |-> @.revision + 1,
                           roles    |-> [v \in Users |-> IF v = u THEN "admin" ELSE "none"],
                           seeded   |-> TRUE]]

\* _persist, up to the read-back: memory has changed, its copy is to be saved
Change(by, acl) ==
    /\ access' = acl
    /\ saves' = Append(saves, [by |-> by, acl |-> acl])
    /\ UNCHANGED stored

\* Store.async_save: the next in line takes the data of the last
NextSaves ==
    LET rest == Tail(saves) IN
    [i \in DOMAIN rest |->
        [rest[i] EXCEPT !.acl = IF i = 1 THEN rest[Len(rest)].acl ELSE Nothing]]

\* the save being written reaches the file
Land ==
    /\ saves # <<>>
    /\ stored' = IF Head(saves).acl = Nothing THEN stored ELSE Head(saves).acl
    /\ saves' = NextSaves
    /\ UNCHANGED access

\* it is lost: the Store logs a failed write and raises nothing
Lose ==
    /\ saves # <<>>
    /\ saves' = NextSaves
    /\ UNCHANGED <<access, stored>>

\* data waits for the file behind the save being written
DataWaits == Len(saves) > 1 /\ saves[Len(saves)].acl # Nothing

\* Store.async_load: the data that waits for the file, else the file
Reloaded == IF DataWaits THEN saves[Len(saves)].acl ELSE stored

\* mutant: the save is not read back
PersistedUnchecked(p) == TRUE

\* _persist's read-back agrees with memory
Persisted(p) == Reloaded[p] = access[p]

\* async_initialize of the next setup
ReloadAcl == access' = stored /\ saves' = <<>> /\ UNCHANGED stored

-----------------------------------------------------------------------------
AccessTypeOK ==
    /\ access \in Acl /\ stored \in Acl
    /\ saves \in Seq(AclSave)
=============================================================================
