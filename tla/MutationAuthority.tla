------------------------- MODULE MutationAuthority -------------------------
(***************************************************************************)
(* Who may change what: the WebSocket boundary (_guard_command), the lease *)
(* and membership commands, and the mutation guard that authorizes a save  *)
(* once more inside the coordinator's lock (recheck_before_commit).        *)
(*                                                                         *)
(* A handler runs without interruption up to its first await, so a lease   *)
(* command is one step with its policy decision; a save, a create and a    *)
(* membership change are requests in flight with a step per stretch        *)
(* between awaits.  What a save does to the stores is ProjectTransactions; *)
(* here it is one commit after the guard.                                  *)
(***************************************************************************)
EXTENDS LeaseRegistry, ProjectAccess

CONSTANTS
    Conns,         \* WebSocket connections, one mutation in flight on each
    UserOf,        \* the user of a connection
    SessionOf,     \* its session: the refresh token, shared by a user's tabs
    None,          \* no request
    MaxRevision,   \* bound: access revisions
    MaxLosses,     \* bound: ACL saves that are lost
    MaxRestarts    \* bound: process restarts and reloads

ASSUME AuthorityAssumption ==
    /\ UserOf \in [Conns -> Users] /\ SessionOf \in [Conns -> Sessions]
    /\ Callers = Conns
    /\ MaxRevision \in Nat /\ MaxLosses \in Nat /\ MaxRestarts \in Nat

VARIABLES
    open,      \* connections established
    request,   \* each connection's mutation in flight
    exists,    \* projects that have a head
    lapsed,    \* history: requests whose authority lapsed while they waited
    told,      \* history: per project the last membership answered to a caller,
               \* and the last one whose read-back came from the file
    losses, restarts

authorityVars == <<leaseVars, accessVars, open, request, exists, lapsed, told,
                   losses, restarts>>

Kinds  == {"save", "create", "set"}
Stages == {"queued",     \* save, create: waits for the coordinator's lock
           "cleared",    \* the guard permitted; the commit is being written
           "eligible",   \* set: awaits Home Assistant's user list
           "saving",     \* set, create: awaits the save of the ACL
           "readback"}   \* set, create: awaits its read-back
Request == [kind : Kinds, stage : Stages, project : Projects, revision : Nat,
            token : 0..MaxTokens, target : Users, role : Roles]

Promise == [answered : Entry \cup {None}, verified : Entry \cup {None}]

ASSUME RequestAssumption == None \notin Request /\ None \notin Entry

\* the binding a lease is issued and validated against (_lease_context)
Binding(c, p, purpose, revision) ==
    [project |-> p, user |-> UserOf[c], session |-> SessionOf[c],
     purpose |-> purpose, revision |-> revision]
Here(c, p, purpose) == Binding(c, p, purpose, access[p].revision)

\* _lease_purpose
PurposeCapability ==
    [engineering |-> "lease.engineering", membership_admin |-> "lease.administration"]
MayHold(u, p, purpose) == PurposeCapability[purpose] \in Capabilities(u, p)

May(c, p, capability) == c \in open /\ capability \in Capabilities(UserOf[c], p)

\* mutant: the membership is not looked at again
PermitsByLeaseAlone(c) ==
    LET r == request[c] IN
    Matches(r.token, Binding(c, r.project, "engineering", r.revision))

\* recheck_before_commit: nothing the boundary decided on has moved; the Home
\* Assistant administrator's ceiling is not applied
Permits(c) ==
    LET r == request[c] IN
    /\ access[r.project].revision = r.revision
    /\ "project.write" \in RoleCapabilities[RoleOf(UserOf[c], r.project)]
    /\ Matches(r.token, Binding(c, r.project, "engineering", r.revision))

\* What the boundary granted a waiting mutation: this membership, in which the
\* user may write, and the lease whose bearer it presented.
Entitled(c) ==
    LET r == request[c] IN
    /\ access[r.project].revision = r.revision
    /\ RoleOf(UserOf[c], r.project) \in {"engineer", "admin"}
    /\ leases[r.project] # NoLease /\ leases[r.project].digest = r.token

\* history: which requests were not, at some moment of their wait
Watched ==
    lapsed' = {c \in Conns : /\ request'[c] # None
                             /\ \/ c \in lapsed
                                \/ request'[c].stage = "queued" /\ ~Entitled(c)'}

Answered(c) == request' = [request EXCEPT ![c] = None]
MoveTo(c, stage) == request' = [request EXCEPT ![c].stage = stage]

Init ==
    /\ LeaseInit
    /\ AccessInit
    /\ open = {}
    /\ request = [c \in Conns |-> None]
    /\ exists \in [Projects -> BOOLEAN]
    /\ lapsed = {}
    /\ told = [p \in Projects |-> [answered |-> None, verified |-> None]]
    /\ losses = 0 /\ restarts = 0

-----------------------------------------------------------------------------
(* Connections, and commands that answer in one step *)

Connect(c) ==
    /\ c \notin open
    /\ open' = open \cup {c}
    /\ UNCHANGED <<leaseVars, accessVars, request, exists, told, losses, restarts>>
    /\ Watched

\* nothing in the Companion is told; what is in flight goes on
Disconnect(c) ==
    /\ c \in open
    /\ open' = open \ {c}
    /\ UNCHANGED <<leaseVars, accessVars, request, exists, told, losses, restarts>>
    /\ Watched

LeaseStep ==
    /\ UNCHANGED <<accessVars, open, request, exists, told, losses, restarts>>
    /\ Watched

LeaseCommand(c, p, purpose) ==
    /\ May(c, p, PurposeCapability[purpose])
    /\ \/ \E ttl \in Ttls : Acquire(Here(c, p, purpose), ttl)
       \/ AcquireHeld(Here(c, p, purpose))
       \/ \E t \in DOMAIN issued :
             \/ \E ttl \in Ttls : Renew(t, Here(c, p, purpose), ttl)
             \/ Free(t, Here(c, p, purpose))
    /\ LeaseStep

TimePasses == Tick /\ LeaseStep

\* projects/delete is checked and takes effect without an await in between
Delete(c, p) ==
    /\ May(c, p, "project.delete")
    /\ exists[p]
    /\ \E t \in DOMAIN issued : Matches(t, Here(c, p, "engineering"))
    /\ exists' = [exists EXCEPT ![p] = FALSE]
    /\ UNCHANGED <<leaseVars, accessVars, open, request, told, losses, restarts>>
    /\ Watched

-----------------------------------------------------------------------------
(* Saves: projects/save, apply and rollback share the boundary and the guard *)

Submit(c, r) ==
    /\ request[c] = None
    /\ request' = [request EXCEPT ![c] = r]

RequestSave(c, p) ==
    /\ May(c, p, "project.write")
    /\ \E t \in DOMAIN issued :
          /\ Matches(t, Here(c, p, "engineering"))
          /\ Submit(c, [kind |-> "save", stage |-> "queued", project |-> p,
                        revision |-> access[p].revision, token |-> t,
                        target |-> UserOf[c], role |-> "none"])
    /\ UNCHANGED <<leaseVars, accessVars, open, exists, told, losses, restarts>>
    /\ Watched

At(c, kinds, stage) ==
    request[c] # None /\ request[c].kind \in kinds /\ request[c].stage = stage

LockFree == \A c \in Conns : ~At(c, {"save", "create"}, "cleared")

\* the coordinator's lock is taken, the candidate computed, the guard asked
Recheck(c) ==
    /\ At(c, {"save", "create"}, "queued")
    /\ LockFree
    /\ Permits(c)
    /\ MoveTo(c, "cleared")
    /\ UNCHANGED <<leaseVars, accessVars, open, exists, told, losses, restarts>>
    /\ Watched

\* the `finally` of projects/create; LeaseInvalid when it has expired
GiveBack(c) ==
    LET r == request[c]
        x == Binding(c, r.project, "engineering", r.revision) IN
    IF r.kind = "create" /\ Matches(r.token, x)
    THEN Free(r.token, x) ELSE UNCHANGED leaseVars

\* MutationDenied; a conflict or a write that fails ends the same way
Fail(c) ==
    /\ \/ At(c, {"save", "create"}, "queued") /\ LockFree
       \/ At(c, {"save", "create"}, "cleared")
    /\ GiveBack(c)
    /\ Answered(c)
    /\ UNCHANGED <<accessVars, open, exists, told, losses, restarts>>
    /\ Watched

Commit(c) ==
    /\ At(c, {"save", "create"}, "cleared")
    /\ exists' = [exists EXCEPT ![request[c].project] = TRUE]
    /\ GiveBack(c)
    /\ Answered(c)
    /\ UNCHANGED <<accessVars, open, told, losses, restarts>>
    /\ Watched

-----------------------------------------------------------------------------
(* Membership: access/set, and the first admin seeded by projects/create *)

\* The membership_admin lease is validated and a self-grant refused; the role
\* changes after the await.  A client sends the revision it read; an older one
\* than the boundary's has no effect and is left out.
RequestSet(c, p, u, role) ==
    /\ May(c, p, "project.access.write")
    /\ u = UserOf[c] => role = "none"
    /\ \E t \in DOMAIN issued :
          /\ Matches(t, Here(c, p, "membership_admin"))
          /\ Submit(c, [kind |-> "set", stage |-> "eligible", project |-> p,
                        revision |-> access[p].revision, token |-> t,
                        target |-> u, role |-> role])
    /\ UNCHANGED <<leaseVars, accessVars, open, exists, told, losses, restarts>>
    /\ Watched

Exact(r)   == access[r.project].revision = r.revision
Removes(r) == r.role = "none"

ApplySet(c) ==
    LET r == request[c] IN
    /\ At(c, {"set"}, "eligible")
    /\ Exact(r) /\ r.revision < MaxRevision
    /\ Removes(r) => Member(r.target, r.project) /\ ~LastAdmin(r.project, r.target)
    /\ Change(c, WithRole(r.project, r.target, r.role))
    /\ MoveTo(c, "saving")
    /\ UNCHANGED <<leaseVars, open, exists, told, losses, restarts>>
    /\ Watched

\* AccessConflict
RefuseSet(c) ==
    LET r == request[c] IN
    /\ At(c, {"set"}, "eligible")
    /\ ~Exact(r) \/ (Removes(r) /\ LastAdmin(r.project, r.target))
    /\ Answered(c)
    /\ UNCHANGED <<leaseVars, accessVars, open, exists, told, losses, restarts>>
    /\ Watched

\* the removal of a user who is not a member succeeds without a save
RemoveNobody(c) ==
    LET r == request[c] IN
    /\ At(c, {"set"}, "eligible")
    /\ Exact(r) /\ Removes(r) /\ ~Member(r.target, r.project)
    /\ leases' = WithoutStale(r.project, r.revision)
    /\ Answered(c)
    /\ UNCHANGED <<operations, generation, issued, accessVars, open, exists, told,
                   losses, restarts>>
    /\ Watched

\* a Home Assistant administrator creates an unused project
RequestCreate(c, p) ==
    /\ c \in open /\ UserOf[c] \in HAAdmins
    /\ ~exists[p] /\ ~Assigned(p) /\ ~access[p].seeded
    /\ access[p].revision < MaxRevision
    /\ Submit(c, [kind |-> "create", stage |-> "saving", project |-> p,
                  revision |-> 0, token |-> 0, target |-> UserOf[c], role |-> "admin"])
    /\ Change(c, WithFirstAdmin(p, UserOf[c]))
    /\ UNCHANGED <<leaseVars, open, exists, told, losses, restarts>>
    /\ Watched

AclSaveEnds(by) == MoveTo(by, "readback")

SaveAcl ==
    /\ Land
    /\ AclSaveEnds(Head(saves).by)
    /\ UNCHANGED <<leaseVars, open, exists, told, losses, restarts>>
    /\ Watched

LoseAcl ==
    /\ losses < MaxLosses
    /\ losses' = losses + 1
    /\ Lose
    /\ AclSaveEnds(Head(saves).by)
    /\ UNCHANGED <<leaseVars, open, exists, told, restarts>>
    /\ Watched

\* The caller is told of the membership in memory.  While other changes wait
\* for the file the read-back is of their data, which no file holds yet.
Confirm(p) ==
    told' = [told EXCEPT ![p] =
        [answered |-> access[p],
         verified |-> IF DataWaits THEN @.verified ELSE access[p]]]

\* the change is confirmed, leases of older access revisions are dropped
FinishSet(c) ==
    LET p == request[c].project IN
    /\ At(c, {"set"}, "readback")
    /\ Persisted(p)
    /\ leases' = WithoutStale(p, access[p].revision)
    /\ Confirm(p)
    /\ Answered(c)
    /\ UNCHANGED <<operations, generation, issued, accessVars, open, exists,
                   losses, restarts>>
    /\ Watched

\* create goes on as its own first engineer, with a lease of its own
LeaseForCreate(c) ==
    LET r == request[c]
        p == r.project IN
    /\ At(c, {"create"}, "readback")
    /\ Persisted(p)
    /\ "project.write" \in Capabilities(UserOf[c], p)
    /\ \E ttl \in Ttls : Acquire(Here(c, p, "engineering"), ttl)
    /\ request' = [request EXCEPT ![c] = [r EXCEPT
            !.stage = "queued", !.revision = access[p].revision, !.token = Fresh]]
    /\ Confirm(p)
    /\ UNCHANGED <<accessVars, open, exists, losses, restarts>>
    /\ Watched

\* PolicyDenied, or LeaseDenied: the project is leased or the rate limit
\* reached; the first admin stays
DeniedForCreate(c) ==
    LET p == request[c].project IN
    /\ At(c, {"create"}, "readback")
    /\ Persisted(p)
    /\ \/ /\ "project.write" \in Capabilities(UserOf[c], p)
          /\ AcquireHeld(Here(c, p, "engineering"))
       \/ /\ \/ "project.write" \notin Capabilities(UserOf[c], p)
             \/ ~RateAllows(UserOf[c], p)
          /\ UNCHANGED leaseVars
    /\ Confirm(p)
    /\ Answered(c)
    /\ UNCHANGED <<accessVars, open, exists, losses, restarts>>
    /\ Watched

\* the read-back differs: an error, though memory keeps the change
PersistFails(c) ==
    /\ At(c, {"set", "create"}, "readback")
    /\ ~Persisted(request[c].project)
    /\ Answered(c)
    /\ UNCHANGED <<leaseVars, accessVars, open, exists, told, losses, restarts>>
    /\ Watched

-----------------------------------------------------------------------------
(* Restarts *)

\* The process ends: leases, requests and what was not saved are gone; a
\* commit under way has reached the heads file or not.
Restart ==
    /\ restarts < MaxRestarts
    /\ restarts' = restarts + 1
    /\ NewGeneration(1)
    /\ ReloadAcl
    /\ open' = {}
    /\ request' = [c \in Conns |-> None]
    /\ \E done \in SUBSET {c \in Conns : At(c, {"save", "create"}, "cleared")} :
          exists' = [p \in Projects |-> exists[p] \/ \E c \in done : request[c].project = p]
    /\ UNCHANGED <<told, losses>>
    /\ Watched

\* unload and setup in the same process, with no mutation in flight
Reload ==
    /\ restarts < MaxRestarts
    /\ restarts' = restarts + 1
    /\ \A c \in Conns : request[c] = None
    /\ NewGeneration(generation + 1)
    /\ ReloadAcl
    /\ UNCHANGED <<open, request, exists, told, losses>>
    /\ Watched

-----------------------------------------------------------------------------
CommandNext ==
    \E c \in Conns :
        \/ Connect(c) \/ Disconnect(c)
        \/ \E p \in Projects :
              \/ \E purpose \in Purposes : LeaseCommand(c, p, purpose)
              \/ Delete(c, p) \/ RequestSave(c, p) \/ RequestCreate(c, p)
              \/ \E u \in Users, role \in Assignable : RequestSet(c, p, u, role)

HandlerNext ==
    \/ \E c \in Conns :
          \/ Recheck(c) \/ Fail(c) \/ Commit(c)
          \/ ApplySet(c) \/ RefuseSet(c) \/ RemoveNobody(c) \/ FinishSet(c)
          \/ LeaseForCreate(c) \/ DeniedForCreate(c) \/ PersistFails(c)
    \/ SaveAcl \/ LoseAcl

Next == CommandNext \/ HandlerNext \/ TimePasses \/ Restart \/ Reload

Spec == Init /\ [][Next]_authorityVars

-----------------------------------------------------------------------------
TypeOK ==
    /\ LeaseTypeOK /\ AccessTypeOK
    /\ open \subseteq Conns
    /\ request \in [Conns -> Request \cup {None}]
    /\ exists \in [Projects -> BOOLEAN]
    /\ lapsed \subseteq Conns
    /\ told \in [Projects -> Promise]
    /\ losses \in 0..MaxLosses /\ restarts \in 0..MaxRestarts

\* Losing a role disarms: a lease that would validate at the membership of
\* this instant is held by a user who may still hold it, although nothing looks
\* at leases when a change of membership is made, only when it is confirmed.
RoleLossDisarms ==
    \A p \in Projects :
        leases[p] # NoLease /\ leases[p].revision = access[p].revision =>
            MayHold(leases[p].user, p, leases[p].purpose)

\* No mutation commits on authority that lapsed while it waited for the lock,
\* not even if the role was given back, the lease acquired again or the same
\* user came back in another tab: between the decision of the boundary and the
\* recheck under the lock it held without interruption.
ClearedUnbroken ==
    \A c \in Conns : At(c, {"save", "create"}, "cleared") => c \notin lapsed

\* The file holds of a project the entry e, or a later one.
Keeps(p, e) ==
    /\ stored[p].revision >= e.revision
    /\ stored[p].revision = e.revision => stored[p] = e

\* Whatever a caller was answered is in the file once no save is on its way:
\* _persist returns after it verified the read-back.
AnsweredIsStored ==
    \A p \in Projects :
        saves = <<>> /\ told[p].answered # None => Keeps(p, told[p].answered)

\* A membership change whose read-back came from the file survives: the file
\* never falls behind it, whatever saves are merged, lost or cut off by a
\* restart, and memory is never behind the file.  A read-back of data that
\* waits may promise too much, but no more than a later save still writes: if
\* none is lost and the process goes on, all that was answered is stored.
ConfirmedMembershipSurvives ==
    /\ \A p \in Projects :
          /\ told[p].verified # None => Keeps(p, told[p].verified)
          /\ access[p].revision >= stored[p].revision
    /\ losses = 0 /\ restarts = 0 => AnsweredIsStored
=============================================================================
