---------------------- MODULE MutationAuthority_proofs ----------------------
(***************************************************************************)
(* Theorems about leases, membership and the mutation guard, for all       *)
(* users, sessions, connections and projects.  What a step may do to the   *)
(* leases and to the membership is stated once (LeaseChange, AclChange)    *)
(* and proved for every action; the invariants follow from that alone.     *)
(***************************************************************************)
EXTENDS MutationAuthority, SequenceTheorems, TLAPS

InFlight(c, stage) == request[c] # None /\ request[c].stage = stage

\* A lease carries a bearer that was issued and a membership that was.
LeaseInv ==
    \A p \in Projects : leases[p] # NoLease =>
        /\ leases[p].digest \in DOMAIN issued
        /\ leases[p].revision <= access[p].revision

\* A waiting mutation was authorized by a bearer and a membership of the past,
\* and once it lost what it was granted it has lost it for good.
WaitInv ==
    /\ \A c \in Conns : InFlight(c, "queued") =>
          /\ request[c].revision <= access[request[c].project].revision
          /\ request[c].token \in DOMAIN issued
    /\ \A c \in lapsed : InFlight(c, "queued") /\ ~Entitled(c)

\* Whoever has an ACL save on its way waits for it, and has only one.
OwnerInv ==
    /\ \A i \in DOMAIN saves : InFlight(saves[i].by, "saving")
    /\ \A i, j \in DOMAIN saves : saves[i].by = saves[j].by => i = j

IndInv == TypeOK /\ LeaseInv /\ WaitInv /\ OwnerInv /\ RoleLossDisarms

\* f is the entry e or a later one
Precedes(e, f) == e.revision <= f.revision /\ (e.revision = f.revision => e = f)

\* What callers were told, the file, the saves in line and memory are ordered:
\* each holds of every project what the one before it holds, or later.
SavesInv ==
    \A p \in Projects :
        /\ told[p].verified # None => Precedes(told[p].verified, stored[p])
        /\ Precedes(stored[p], access[p])
        /\ \A i \in DOMAIN saves : saves[i].acl # Nothing =>
              /\ Precedes(stored[p], saves[i].acl[p])
              /\ Precedes(saves[i].acl[p], access[p])
              /\ \A j \in DOMAIN saves : i <= j /\ saves[j].acl # Nothing =>
                    Precedes(saves[i].acl[p], saves[j].acl[p])

\* What memory holds is the last data in line, or it is in the file and no
\* data is on its way.
LineInv ==
    \/ saves # <<>> /\ saves[Len(saves)].acl = access
    \/ /\ saves # <<>> /\ saves[1].acl = access
       /\ \A i \in DOMAIN saves : i > 1 => saves[i].acl = Nothing
    \/ stored = access /\ \A i \in DOMAIN saves : saves[i].acl = Nothing

\* What callers were answered is in memory until a restart, and memory is on
\* its way unless a save was lost.
AnswersInv ==
    /\ restarts = 0 => \A p \in Projects : told[p].answered # None =>
                          Precedes(told[p].answered, access[p])
    /\ losses = 0 => LineInv

-----------------------------------------------------------------------------
(* What a step may do *)

\* the same lease, but for the time it has left
KeptLease(p) ==
    /\ leases[p] # NoLease
    /\ leases'[p].digest = leases[p].digest
    /\ leases'[p].user = leases[p].user /\ leases'[p].session = leases[p].session
    /\ leases'[p].purpose = leases[p].purpose
    /\ leases'[p].revision = leases[p].revision
    /\ leases'[p].generation = leases[p].generation

\* a lease under a new bearer, for the present membership
NewLease(p) ==
    /\ access' = access
    /\ leases'[p].digest = Fresh /\ Len(issued') = Fresh
    /\ leases'[p].revision = access[p].revision
    /\ MayHold(leases'[p].user, p, leases'[p].purpose)

LeaseChange ==
    /\ \A p \in Projects : leases'[p] = NoLease \/ KeptLease(p) \/ NewLease(p)
    /\ Len(issued') >= Len(issued)
    /\ \A t \in 1..Len(issued) : issued'[t] = issued[t]
    /\ generation' = generation \/ \A p \in Projects : leases'[p] = NoLease

\* membership stands still or moves on by one revision; a setup takes it back
\* to the file, when no lease is left and no mutation in flight
AclChange ==
    \/ \A p \in Projects : access'[p] = access[p]
                           \/ access'[p].revision = access[p].revision + 1
    \/ /\ \A p \in Projects : leases'[p] = NoLease
       /\ \A c \in Conns : request'[c] = None

\* a mutation waits on as it was asked for, is answered, or is cleared by the
\* guard; a new one was authorized by what holds now
WaitChange ==
    \A c \in Conns :
        /\ InFlight(c, "queued") =>
              request'[c] = None \/ request'[c] = request[c] \/ Permits(c)
        /\ InFlight(c, "queued")' =>
              \/ request'[c] = request[c]
              \/ /\ request'[c].revision = access'[request'[c].project].revision
                 /\ request'[c].token \in 1..Len(issued')

-----------------------------------------------------------------------------
(* Lemmas about the operators of the registry *)

LEMMA IssueLemma ==
  ASSUME TypeOK, NEW x \in Context, NEW ttl \in Ttls, Issue(x, ttl),
         x.revision = access[x.project].revision, access' = access,
         MayHold(x.user, x.project, x.purpose), generation' = generation
  PROVE  LeaseChange /\ leases' \in [Projects -> Held \cup {NoLease}]
         /\ issued' \in Seq(Context) /\ Len(issued') <= MaxTokens
         /\ Len(issued') = Fresh
<1>1. issued \in Seq(Context) /\ Len(issued) \in Nat /\ Len(issued) <= MaxTokens
  BY LenProperties DEF TypeOK, LeaseTypeOK
<1>2. /\ issued' \in Seq(Context) /\ Len(issued') = Len(issued) + 1
      /\ \A t \in 1..Len(issued) : issued'[t] = issued[t]
  BY <1>1, AppendProperties DEF Issue
<1>3. Len(issued) < MaxTokens /\ MaxTokens \in Nat
  BY LeaseAssumption DEF Issue
<1> DEFINE h == [digest |-> Fresh, user |-> x.user, session |-> x.session,
                 purpose |-> x.purpose, revision |-> x.revision,
                 generation |-> generation, left |-> ttl]
<1>4. h \in Held /\ h # NoLease
  BY <1>1, <1>3, LeaseAssumption DEF Held, Context, Fresh, TypeOK, LeaseTypeOK
<1>5. leases' = [leases EXCEPT ![x.project] = h] /\ x.project \in Projects
  BY DEF Issue, Context
<1>6. \A p \in Projects : p # x.project => leases'[p] = leases[p]
  BY <1>5 DEF TypeOK, LeaseTypeOK
<1>7. leases'[x.project] = h
  BY <1>5 DEF TypeOK, LeaseTypeOK
<1>8. \A p \in Projects : leases'[p] = NoLease \/ KeptLease(p) \/ NewLease(p)
  <2> TAKE p \in Projects
  <2>1. CASE p # x.project
    BY <1>6, <2>1 DEF KeptLease
  <2>2. CASE p = x.project
    BY <1>2, <1>7, <2>2 DEF NewLease, Fresh
  <2> QED BY <2>1, <2>2
<1>9. leases' \in [Projects -> Held \cup {NoLease}]
  BY <1>4, <1>5 DEF TypeOK, LeaseTypeOK
<1> QED BY <1>1, <1>2, <1>3, <1>8, <1>9 DEF LeaseChange, Fresh

LEMMA CountType ==
  ASSUME TypeOK, NEW u \in Users, NEW p \in Projects, Count(u, p)
  PROVE  operations' \in [Users -> [Projects -> [1..MaxOperations -> 0..Window]]]
<1> DEFINE old == operations[u][p]
           new == [i \in 1..MaxOperations |-> IF i = 1 THEN 0 ELSE old[i - 1]]
<1>1. old \in [1..MaxOperations -> 0..Window]
  BY DEF TypeOK, LeaseTypeOK
<1>2. new \in [1..MaxOperations -> 0..Window]
  <2>1. ASSUME NEW i \in 1..MaxOperations
        PROVE  (IF i = 1 THEN 0 ELSE old[i - 1]) \in 0..Window
    <3>1. CASE i = 1
      BY <3>1, LeaseAssumption
    <3>2. CASE i # 1
      <4>1. i - 1 \in 1..MaxOperations
        BY <3>2, LeaseAssumption
      <4> QED BY <1>1, <4>1, <3>2
    <3> QED BY <3>1, <3>2
  <2> QED BY <2>1
<1>3. operations' = [operations EXCEPT ![u][p] = new]
  BY DEF Count
<1> QED BY <1>2, <1>3 DEF TypeOK, LeaseTypeOK

\* dropping leases, or leaving them
LEMMA DropLemma ==
  ASSUME TypeOK, issued' = issued, generation' = generation,
         NEW p \in Projects, leases' = leases \/ leases' = Dropped(p)
  PROVE  LeaseChange /\ leases' \in [Projects -> Held \cup {NoLease}]
<1>1. Len(issued) \in Nat
  BY LenProperties DEF TypeOK, LeaseTypeOK
<1>2. \A q \in Projects : leases'[q] = leases[q] \/ leases'[q] = NoLease
  BY DEF Dropped, TypeOK, LeaseTypeOK
<1>3. leases' \in [Projects -> Held \cup {NoLease}]
  BY DEF Dropped, TypeOK, LeaseTypeOK
<1>4. \A q \in Projects : leases'[q] = NoLease \/ KeptLease(q)
  BY <1>2 DEF KeptLease
<1> QED BY <1>1, <1>3, <1>4 DEF LeaseChange

LEMMA SameLeases ==
  ASSUME TypeOK, UNCHANGED leaseVars
  PROVE  LeaseChange /\ LeaseTypeOK'
<1>1. Len(issued) \in Nat
  BY LenProperties DEF TypeOK, LeaseTypeOK
<1>2. \A q \in Projects : leases'[q] = NoLease \/ KeptLease(q)
  BY DEF KeptLease, leaseVars
<1>3. LeaseTypeOK'
  BY DEF TypeOK, LeaseTypeOK, leaseVars
<1> QED BY <1>1, <1>2, <1>3 DEF LeaseChange, leaseVars

\* the clock
LEMMA TickLemma ==
  ASSUME TypeOK, Tick
  PROVE  LeaseChange /\ LeaseTypeOK'
<1>1. Len(issued) \in Nat /\ issued' = issued /\ generation' = generation
  BY LenProperties DEF TypeOK, LeaseTypeOK, Tick
<1>2. \A p \in Projects :
         \/ leases'[p] = NoLease
         \/ KeptLease(p) /\ leases'[p] \in Held
  <2> TAKE p \in Projects
  <2>1. leases'[p] = IF leases[p] # NoLease /\ leases[p].left > 1
                     THEN [leases[p] EXCEPT !.left = @ - 1] ELSE NoLease
    BY DEF Tick
  <2>2. CASE leases[p] # NoLease /\ leases[p].left > 1
    <3>1. leases[p] \in Held
      BY <2>2 DEF TypeOK, LeaseTypeOK
    <3> QED BY <2>1, <2>2, <3>1 DEF KeptLease, Held
  <2> QED BY <2>1, <2>2
<1>3. leases' \in [Projects -> Held \cup {NoLease}]
  <2>1. leases' = [p \in Projects |-> leases'[p]]
    BY DEF Tick
  <2> QED BY <1>2, <2>1
<1>4. operations' \in [Users -> [Projects -> [1..MaxOperations -> 0..Window]]]
  <2>1. ASSUME NEW u \in Users, NEW p \in Projects, NEW i \in 1..MaxOperations
        PROVE  (IF operations[u][p][i] < Window
                THEN operations[u][p][i] + 1 ELSE Window) \in 0..Window
    <3>1. operations[u] \in [Projects -> [1..MaxOperations -> 0..Window]]
      BY DEF TypeOK, LeaseTypeOK
    <3>2. operations[u][p] \in [1..MaxOperations -> 0..Window]
      BY <3>1
    <3>3. operations[u][p][i] \in 0..Window
      BY <3>2
    <3> QED BY <3>3, LeaseAssumption
  <2> QED BY <2>1 DEF Tick, Aged
<1>5. LeaseTypeOK'
  BY <1>1, <1>3, <1>4 DEF LeaseTypeOK, TypeOK
<1> QED BY <1>1, <1>2, <1>5 DEF LeaseChange

-----------------------------------------------------------------------------
(* The steps of the composition *)

\* the user of a connection, and the binding of its commands
LEMMA HereType ==
  ASSUME TypeOK, NEW c \in Conns, NEW p \in Projects, NEW purpose \in Purposes
  PROVE  /\ Here(c, p, purpose) \in Context
         /\ Here(c, p, purpose).project = p
         /\ Here(c, p, purpose).user = UserOf[c] /\ UserOf[c] \in Users
         /\ Here(c, p, purpose).purpose = purpose
         /\ Here(c, p, purpose).revision = access[p].revision
         /\ access[p] \in Entry
BY AuthorityAssumption DEF Here, Binding, Context, TypeOK, AccessTypeOK, Acl, Entry

\* every lease command, on a lease the caller may hold
LEMMA CommandLemma ==
  ASSUME TypeOK, NEW c \in Conns, NEW p \in Projects, NEW purpose \in Purposes,
         MayHold(UserOf[c], p, purpose), access' = access,
         NEW x, x = Here(c, p, purpose),
         \/ \E ttl \in Ttls : Acquire(x, ttl)
         \/ AcquireHeld(x)
         \/ \E t \in DOMAIN issued :
               \/ \E ttl \in Ttls : Renew(t, x, ttl)
               \/ Free(t, x)
  PROVE  LeaseChange /\ LeaseTypeOK'
<1>1. /\ x \in Context /\ x.project = p /\ x.user = UserOf[c] /\ x.user \in Users
      /\ x.purpose = purpose /\ x.revision = access[p].revision
  BY HereType
<1>2. ASSUME NEW ttl \in Ttls, Issue(x, ttl), Count(x.user, x.project),
             UNCHANGED generation
      PROVE  LeaseChange /\ LeaseTypeOK'
  <2>1. LeaseChange /\ leases' \in [Projects -> Held \cup {NoLease}]
        /\ issued' \in Seq(Context) /\ Len(issued') <= MaxTokens
    BY <1>1, <1>2, IssueLemma
  <2>2. operations' \in [Users -> [Projects -> [1..MaxOperations -> 0..Window]]]
    BY <1>1, <1>2, CountType
  <2> QED BY <2>1, <2>2, <1>2 DEF LeaseTypeOK, TypeOK
<1>3. ASSUME NEW ttl \in Ttls, Acquire(x, ttl)
      PROVE  LeaseChange /\ LeaseTypeOK'
  BY <1>2, <1>3 DEF Acquire
<1>4. ASSUME NEW t \in DOMAIN issued, NEW ttl \in Ttls, Renew(t, x, ttl)
      PROVE  LeaseChange /\ LeaseTypeOK'
  BY <1>2, <1>4 DEF Renew
<1>5. ASSUME AcquireHeld(x)
      PROVE  LeaseChange /\ LeaseTypeOK'
  <2>1. operations' \in [Users -> [Projects -> [1..MaxOperations -> 0..Window]]]
    BY <1>1, <1>5, CountType DEF AcquireHeld
  <2>2. LeaseChange
    BY <1>1, <1>5, DropLemma DEF AcquireHeld
  <2> QED BY <2>1, <2>2, <1>5 DEF AcquireHeld, LeaseTypeOK, TypeOK
<1>6. ASSUME NEW t \in DOMAIN issued, Free(t, x)
      PROVE  LeaseChange /\ LeaseTypeOK'
  <2>1. LeaseChange /\ leases' \in [Projects -> Held \cup {NoLease}]
    BY <1>1, <1>6, DropLemma DEF Free
  <2> QED BY <2>1, <1>6 DEF Free, LeaseTypeOK, TypeOK
<1> QED BY <1>3, <1>4, <1>5, <1>6

\* the lease of a create is given back, or nothing happens to the leases
LEMMA GiveBackLemma ==
  ASSUME TypeOK, NEW c \in Conns, GiveBack(c), request[c] \in Request
  PROVE  LeaseChange /\ LeaseTypeOK'
<1>1. CASE UNCHANGED leaseVars
  BY <1>1, SameLeases
<1>2. CASE ~UNCHANGED leaseVars
  <2>1. PICK x : x.project = request[c].project /\ Free(request[c].token, x)
    BY <1>2 DEF GiveBack, Binding
  <2>2. leases' = Dropped(request[c].project) /\ UNCHANGED <<operations, generation, issued>>
    BY <2>1 DEF Free
  <2>3. LeaseChange /\ leases' \in [Projects -> Held \cup {NoLease}]
    BY <2>2, DropLemma DEF Request
  <2> QED BY <2>2, <2>3 DEF LeaseTypeOK, TypeOK
<1> QED BY <1>1, <1>2

\* a setup starts without leases
LEMMA NewGenerationLemma ==
  ASSUME TypeOK, NEW g \in Nat \ {0}, NewGeneration(g)
  PROVE  LeaseChange /\ LeaseTypeOK' /\ \A p \in Projects : leases'[p] = NoLease
<1>1. Len(issued) \in Nat
  BY LenProperties DEF TypeOK, LeaseTypeOK
<1>2. Idle \in [Users -> [Projects -> [1..MaxOperations -> 0..Window]]]
  BY LeaseAssumption DEF Idle
<1>3. /\ \A p \in Projects : leases'[p] = NoLease
      /\ leases' \in [Projects -> Held \cup {NoLease}]
  BY DEF NewGeneration
<1>4. LeaseTypeOK'
  BY <1>2, <1>3 DEF NewGeneration, LeaseTypeOK, TypeOK
<1> QED BY <1>1, <1>3, <1>4 DEF LeaseChange, NewGeneration

\* who may write may hold an engineering lease
LEMMA WriterMayHold ==
  ASSUME TypeOK, NEW u \in Users, NEW p \in Projects,
         "project.write" \in Capabilities(u, p)
  PROVE  MayHold(u, p, "engineering") /\ RoleOf(u, p) \in {"engineer", "admin"}
<1>1. RoleOf(u, p) \in Roles
  BY DEF RoleOf, TypeOK, AccessTypeOK, Acl, Entry
<1>2. RoleOf(u, p) \in {"engineer", "admin"}
  BY <1>1 DEF Capabilities, RoleCapabilities, HAAdminCapabilities, Roles
<1>3. "lease.engineering" \in RoleCapabilities[RoleOf(u, p)]
  BY <1>2 DEF RoleCapabilities, Engineering
<1> QED BY <1>2, <1>3 DEF MayHold, PurposeCapability, Capabilities

\* every action changes the leases as LeaseChange allows
LEMMA LeaseStepLemma ==
  ASSUME TypeOK, Next
  PROVE  LeaseChange /\ LeaseTypeOK'
<1> USE DEF At
<1>1. ASSUME NEW c \in Conns, NEW p \in Projects, NEW purpose \in Purposes,
             LeaseCommand(c, p, purpose)
      PROVE  LeaseChange /\ LeaseTypeOK'
  <2>1. MayHold(UserOf[c], p, purpose) /\ access' = access
    BY <1>1 DEF LeaseCommand, May, MayHold, LeaseStep, accessVars
  <2> QED BY <1>1, <2>1, CommandLemma DEF LeaseCommand
<1>2. CASE TimePasses
  BY <1>2, TickLemma DEF TimePasses
<1>3. ASSUME NEW c \in Conns, Fail(c) \/ Commit(c)
      PROVE  LeaseChange /\ LeaseTypeOK'
  <2>1. request[c] \in Request
    BY <1>3 DEF Fail, Commit, TypeOK
  <2> QED BY <1>3, <2>1, GiveBackLemma DEF Fail, Commit
<1>4. ASSUME NEW c \in Conns, RemoveNobody(c) \/ FinishSet(c)
      PROVE  LeaseChange /\ LeaseTypeOK'
  <2> DEFINE p == request[c].project
  <2>1. p \in Projects
    BY <1>4 DEF RemoveNobody, FinishSet, TypeOK, Request
  <2>2. /\ leases' = leases \/ leases' = Dropped(p)
        /\ UNCHANGED <<operations, generation, issued>>
    BY <1>4 DEF RemoveNobody, FinishSet, WithoutStale
  <2>3. LeaseChange /\ leases' \in [Projects -> Held \cup {NoLease}]
    BY <2>1, <2>2, DropLemma
  <2> QED BY <2>2, <2>3 DEF LeaseTypeOK, TypeOK
<1>5. ASSUME NEW c \in Conns, LeaseForCreate(c) \/ DeniedForCreate(c)
      PROVE  LeaseChange /\ LeaseTypeOK'
  <2> DEFINE p == request[c].project
             x == Here(c, p, "engineering")
  <2>1. p \in Projects /\ UserOf[c] \in Users /\ access' = access
    BY <1>5, AuthorityAssumption
       DEF LeaseForCreate, DeniedForCreate, TypeOK, Request, accessVars
  <2>2. CASE UNCHANGED leaseVars
    BY <2>2, SameLeases
  <2>3. CASE ~UNCHANGED leaseVars
    <3>1. /\ "project.write" \in Capabilities(UserOf[c], p)
          /\ (\E ttl \in Ttls : Acquire(x, ttl)) \/ AcquireHeld(x)
      BY <1>5, <2>3 DEF LeaseForCreate, DeniedForCreate
    <3>2. MayHold(UserOf[c], p, "engineering") /\ "engineering" \in Purposes
      BY <2>1, <3>1, WriterMayHold DEF Purposes
    <3> HIDE DEF p, x
    <3>3. x = Here(c, p, "engineering")
      BY DEF x
    <3> QED BY <2>1, <3>1, <3>2, <3>3, CommandLemma
  <2> QED BY <2>2, <2>3
<1>6. CASE Restart \/ Reload
  <2>1. PICK g \in Nat \ {0} : NewGeneration(g)
    BY <1>6 DEF Restart, Reload, TypeOK, LeaseTypeOK
  <2> QED BY <2>1, NewGenerationLemma
<1>7. ASSUME NEW c \in Conns,
             \/ Connect(c) \/ Disconnect(c)
             \/ Recheck(c) \/ ApplySet(c) \/ RefuseSet(c) \/ PersistFails(c)
             \/ \E p \in Projects :
                   \/ Delete(c, p) \/ RequestSave(c, p) \/ RequestCreate(c, p)
                   \/ \E u \in Users, role \in Assignable : RequestSet(c, p, u, role)
      PROVE  LeaseChange /\ LeaseTypeOK'
  <2>1. UNCHANGED leaseVars
    BY <1>7 DEF Connect, Disconnect, Recheck, ApplySet, RefuseSet, PersistFails,
                Delete, RequestSave, RequestCreate, RequestSet
  <2> QED BY <2>1, SameLeases
<1>8. CASE SaveAcl \/ LoseAcl
  <2>1. UNCHANGED leaseVars
    BY <1>8 DEF SaveAcl, LoseAcl
  <2> QED BY <2>1, SameLeases
<1> QED
  BY <1>1, <1>2, <1>3, <1>4, <1>5, <1>6, <1>7, <1>8 DEF Next, CommandNext, HandlerNext

\* a change of the ACL keeps its type and moves one project by one revision
LEMMA ChangeType ==
  ASSUME TypeOK, NEW by \in Conns, NEW acl \in Acl, Change(by, acl)
  PROVE  AccessTypeOK'
<1>1. [by |-> by, acl |-> acl] \in AclSave
  BY AuthorityAssumption DEF AclSave
<1>2. saves' \in Seq(AclSave)
  BY <1>1, AppendProperties DEF Change, TypeOK, AccessTypeOK
<1> QED BY <1>2 DEF Change, TypeOK, AccessTypeOK

LEMMA WithRoleType ==
  ASSUME TypeOK, NEW p \in Projects, NEW u \in Users, NEW r \in Roles
  PROVE  /\ WithRole(p, u, r) \in Acl
         /\ \A q \in Projects : \/ WithRole(p, u, r)[q] = access[q]
                               \/ WithRole(p, u, r)[q].revision = access[q].revision + 1
<1>1. access[p] \in Entry /\ access \in [Projects -> Entry]
  BY DEF TypeOK, AccessTypeOK, Acl
<1> DEFINE new == [revision |-> access[p].revision + 1,
                   roles |-> [access[p].roles EXCEPT ![u] = r],
                   seeded |-> access[p].seeded]
<1>2. WithRole(p, u, r) = [access EXCEPT ![p] = new]
  BY DEF WithRole
<1>3. new \in Entry /\ new.revision = access[p].revision + 1
  <2>1. access[p].roles \in [Users -> Roles] /\ access[p].revision \in Nat
        /\ access[p].seeded \in BOOLEAN
    BY <1>1 DEF Entry
  <2>2. [access[p].roles EXCEPT ![u] = r] \in [Users -> Roles]
    BY <2>1
  <2> QED BY <2>1, <2>2 DEF Entry
<1> HIDE DEF new
<1>4. WithRole(p, u, r) \in [Projects -> Entry]
  BY <1>1, <1>2, <1>3
<1> QED BY <1>1, <1>2, <1>3, <1>4 DEF Acl

LEMMA WithFirstAdminType ==
  ASSUME TypeOK, NEW p \in Projects, NEW u \in Users
  PROVE  /\ WithFirstAdmin(p, u) \in Acl
         /\ \A q \in Projects :
               \/ WithFirstAdmin(p, u)[q] = access[q]
               \/ WithFirstAdmin(p, u)[q].revision = access[q].revision + 1
<1>1. access[p] \in Entry /\ access \in [Projects -> Entry]
  BY DEF TypeOK, AccessTypeOK, Acl
<1> QED BY <1>1 DEF WithFirstAdmin, Entry, Acl, Roles

\* The save that ends leaves the others in line, under their callers' names.
LEMMA NextSavesType ==
  ASSUME TypeOK, saves # <<>>
  PROVE  /\ NextSaves \in Seq(AclSave)
         /\ DOMAIN NextSaves = 1..(Len(saves) - 1)
         /\ \A i \in 1..(Len(saves) - 1) : NextSaves[i].by = saves[i + 1].by
         /\ Head(saves) = saves[1] /\ saves[1] \in AclSave
         /\ Len(saves) \in Nat \ {0} /\ DOMAIN saves = 1..Len(saves)
<1> DEFINE r == Tail(saves)
<1>1. saves \in Seq(AclSave)
  BY DEF TypeOK, AccessTypeOK
<1>2. /\ r \in Seq(AclSave) /\ Len(r) = Len(saves) - 1 /\ Len(saves) \in Nat \ {0}
      /\ DOMAIN saves = 1..Len(saves) /\ DOMAIN r = 1..Len(r)
      /\ \A i \in 1..Len(r) : r[i] = saves[i + 1]
      /\ Head(saves) = saves[1]
  BY <1>1, HeadTailProperties, LenProperties, EmptySeq
<1>3. \A i \in 1..Len(r) : r[i] \in AclSave
  BY <1>2, ElementOfSeq
<1>4. \A i \in 1..Len(r) : NextSaves[i] \in AclSave /\ NextSaves[i].by = r[i].by
  <2> TAKE i \in 1..Len(r)
  <2>1. NextSaves[i] = [r[i] EXCEPT !.acl = IF i = 1 THEN r[Len(r)].acl ELSE Nothing]
    BY <1>2 DEF NextSaves
  <2>2. r[i] \in AclSave /\ r[Len(r)] \in AclSave
    BY <1>2, <1>3
  <2> QED BY <2>1, <2>2 DEF AclSave
<1>5. NextSaves \in [1..Len(r) -> AclSave]
  <2>1. NextSaves = [i \in 1..Len(r) |-> NextSaves[i]]
    BY <1>2 DEF NextSaves
  <2> QED BY <1>4, <2>1
<1>6. NextSaves \in Seq(AclSave)
  BY <1>2, <1>5, SeqDef
<1>7. saves[1] \in AclSave
  BY <1>1, <1>2, ElementOfSeq
<1> QED BY <1>2, <1>4, <1>5, <1>6, <1>7

\* every action changes the membership as AclChange allows
LEMMA AclStepLemma ==
  ASSUME TypeOK, Next
  PROVE  AclChange /\ AccessTypeOK'
<1> USE DEF At
<1>1. CASE UNCHANGED accessVars
  BY <1>1 DEF AclChange, accessVars, AccessTypeOK, TypeOK
<1>2. ASSUME NEW c \in Conns, ApplySet(c)
      PROVE  AclChange /\ AccessTypeOK'
  <2> DEFINE r == request[c]
  <2>1. r \in Request
    BY <1>2 DEF ApplySet, TypeOK
  <2>2. Change(c, WithRole(r.project, r.target, r.role))
    BY <1>2 DEF ApplySet
  <2>3. r.project \in Projects /\ r.target \in Users /\ r.role \in Roles
    BY <2>1 DEF Request
  <2> QED BY <2>2, <2>3, WithRoleType, ChangeType DEF AclChange, Change
<1>3. ASSUME NEW c \in Conns, NEW p \in Projects, RequestCreate(c, p)
      PROVE  AclChange /\ AccessTypeOK'
  <2>1. Change(c, WithFirstAdmin(p, UserOf[c])) /\ UserOf[c] \in Users
    BY <1>3, AuthorityAssumption DEF RequestCreate
  <2> QED BY <2>1, WithFirstAdminType, ChangeType DEF AclChange, Change
<1>4. CASE SaveAcl \/ LoseAcl
  <2>1. /\ saves # <<>> /\ saves' = NextSaves /\ access' = access
        /\ stored' \in {stored, Head(saves).acl}
        /\ stored' # Nothing \/ stored' = stored
    BY <1>4 DEF SaveAcl, LoseAcl, Land, Lose
  <2>2. stored' \in Acl
    BY <2>1, NextSavesType DEF AclSave, TypeOK, AccessTypeOK
  <2> QED BY <2>1, <2>2, NextSavesType DEF AclChange, AccessTypeOK, TypeOK
<1>5. CASE Restart \/ Reload
  <2>1. /\ access' = stored /\ saves' = <<>> /\ stored' = stored
        /\ \A c \in Conns : request'[c] = None
        /\ \A p \in Projects : leases'[p] = NoLease
    BY <1>5 DEF Restart, Reload, ReloadAcl, NewGeneration
  <2>2. <<>> \in Seq(AclSave)
    BY EmptySeq
  <2> QED BY <2>1, <2>2 DEF AclChange, AccessTypeOK, TypeOK
<1>6. ASSUME NEW c \in Conns,
             \/ Connect(c) \/ Disconnect(c) \/ Recheck(c) \/ Fail(c) \/ Commit(c)
             \/ RefuseSet(c) \/ RemoveNobody(c) \/ FinishSet(c)
             \/ LeaseForCreate(c) \/ DeniedForCreate(c) \/ PersistFails(c)
             \/ \E p \in Projects :
                   \/ \E purpose \in Purposes : LeaseCommand(c, p, purpose)
                   \/ Delete(c, p) \/ RequestSave(c, p)
                   \/ \E u \in Users, role \in Assignable : RequestSet(c, p, u, role)
      PROVE  UNCHANGED accessVars
  BY <1>6 DEF Connect, Disconnect, Recheck, Fail, Commit, RefuseSet, RemoveNobody,
              FinishSet, LeaseForCreate, DeniedForCreate, PersistFails, LeaseCommand,
              LeaseStep, Delete, RequestSave, RequestSet
<1>7. CASE TimePasses
  BY <1>1, <1>7 DEF TimePasses, LeaseStep
<1> QED
  BY <1>1, <1>2, <1>3, <1>4, <1>5, <1>6, <1>7 DEF Next, CommandNext, HandlerNext

-----------------------------------------------------------------------------
(* The requests in flight *)

\* One request is made, answered or goes on.
LEMMA OneRequest ==
  ASSUME TypeOK, NEW c \in Conns, NEW v \in Request \cup {None},
         request' = [request EXCEPT ![c] = v],
         InFlight(c, "queued") => v = None \/ Permits(c),
         v # None /\ v.stage = "queued" =>
            /\ v.revision = access'[v.project].revision
            /\ v.token \in 1..Len(issued')
  PROVE  request' \in [Conns -> Request \cup {None}] /\ WaitChange
<1>1. /\ request'[c] = v
      /\ \A d \in Conns : d # c => request'[d] = request[d]
      /\ request' \in [Conns -> Request \cup {None}]
  BY DEF TypeOK
<1>2. WaitChange
  <2> SUFFICES ASSUME NEW d \in Conns
               PROVE  /\ InFlight(d, "queued") =>
                            \/ request'[d] = None \/ request'[d] = request[d]
                            \/ Permits(d)
                      /\ InFlight(d, "queued")' =>
                            \/ request'[d] = request[d]
                            \/ /\ request'[d].revision
                                     = access'[request'[d].project].revision
                               /\ request'[d].token \in 1..Len(issued')
    BY DEF WaitChange
  <2>1. CASE d # c
    BY <1>1, <2>1
  <2>2. CASE d = c
    BY <1>1, <2>2 DEF InFlight
  <2> QED BY <2>1, <2>2
<1> QED BY <1>1, <1>2

\* The savers stay the savers when the request of another one moves.
LEMMA OwnersKept ==
  ASSUME TypeOK, OwnerInv, NEW c \in Conns, NEW v, saves' = saves,
         request' = [request EXCEPT ![c] = v], ~InFlight(c, "saving")
  PROVE  OwnerInv'
<1>1. \A i \in DOMAIN saves : saves[i].by # c
  BY DEF OwnerInv
<1>2. \A i \in DOMAIN saves : saves[i].by \in Conns
  <2>1. saves \in Seq(AclSave)
    BY DEF TypeOK, AccessTypeOK
  <2>2. \A i \in DOMAIN saves : saves[i] \in AclSave
    BY <2>1, ElementOfSeq, LenProperties
  <2> QED BY <2>2, AuthorityAssumption DEF AclSave
<1>3. \A i \in DOMAIN saves : request'[saves[i].by] = request[saves[i].by]
  BY <1>1, <1>2 DEF TypeOK
<1> QED BY <1>3 DEF OwnerInv, InFlight

\* One who changes the membership becomes a saver.
LEMMA OwnerJoins ==
  ASSUME TypeOK, OwnerInv, NEW c \in Conns, NEW v, NEW acl,
         Change(c, acl), v # None, v.stage = "saving",
         request' = [request EXCEPT ![c] = v], ~InFlight(c, "saving")
  PROVE  OwnerInv'
<1> DEFINE n == Len(saves)
<1>1. /\ saves \in Seq(AclSave) /\ n \in Nat /\ DOMAIN saves = 1..n
      /\ \A i \in 1..n : saves[i] \in AclSave
  BY ElementOfSeq, LenProperties DEF TypeOK, AccessTypeOK
<1>2. \A i \in 1..n : saves[i].by \in Conns /\ saves[i].by # c
  BY <1>1, AuthorityAssumption DEF OwnerInv, AclSave
<1>3. /\ DOMAIN saves' = 1..(n + 1)
      /\ \A i \in 1..n : saves'[i] = saves[i]
      /\ saves'[n + 1].by = c
  <2> DEFINE new == [by |-> c, acl |-> acl]
  <2>1. saves' = Append(saves, new)
    BY DEF Change
  <2>2. DOMAIN saves' = 1..(n + 1) /\ saves'[n + 1] = new
        /\ \A i \in 1..n : saves'[i] = saves[i]
    BY <1>1, <2>1
  <2> QED BY <2>2
<1>4. /\ request'[c] = v
      /\ \A i \in 1..n : request'[saves[i].by] = request[saves[i].by]
  BY <1>2 DEF TypeOK
<1>5. \A i \in 1..(n + 1) : i \in 1..n \/ i = n + 1
  BY <1>1
<1>6. ASSUME NEW i \in DOMAIN saves'
      PROVE  /\ request'[saves'[i].by] # None
             /\ request'[saves'[i].by].stage = "saving"
  <2>1. CASE i \in 1..n
    <3>1. saves'[i].by = saves[i].by /\ InFlight(saves[i].by, "saving")
      BY <1>1, <1>3, <2>1 DEF OwnerInv
    <3> QED BY <1>4, <2>1, <3>1 DEF InFlight
  <2>2. CASE i = n + 1
    <3>1. saves'[i].by = c
      BY <1>3, <2>2
    <3> QED BY <1>4, <3>1 DEF InFlight
  <2> QED BY <1>3, <1>5, <2>1, <2>2
<1>7. ASSUME NEW i \in DOMAIN saves', NEW j \in DOMAIN saves',
             saves'[i].by = saves'[j].by
      PROVE  i = j
  <2>1. /\ i \in 1..n \/ i = n + 1
        /\ j \in 1..n \/ j = n + 1
    BY <1>3, <1>5
  <2>2. CASE i \in 1..n /\ j \in 1..n
    BY <1>1, <1>3, <1>7, <2>2 DEF OwnerInv
  <2>3. CASE i = n + 1 /\ j \in 1..n
    BY <1>2, <1>3, <1>7, <2>3
  <2>4. CASE i \in 1..n /\ j = n + 1
    BY <1>2, <1>3, <1>7, <2>4
  <2> QED BY <2>1, <2>2, <2>3, <2>4
<1> QED BY <1>6, <1>7 DEF OwnerInv, InFlight

\* The save that ends releases its owner, and only it.
LEMMA OwnerLeaves ==
  ASSUME TypeOK, OwnerInv, saves # <<>>, saves' = NextSaves,
         AclSaveEnds(Head(saves).by)
  PROVE  /\ OwnerInv'
         /\ request' \in [Conns -> Request \cup {None}] /\ WaitChange
<1> DEFINE c == Head(saves).by
           v == [request[c] EXCEPT !.stage = "readback"]
           n == Len(saves)
<1>1. /\ n \in Nat \ {0} /\ DOMAIN saves = 1..n
      /\ DOMAIN NextSaves = 1..(n - 1)
      /\ \A i \in 1..(n - 1) : NextSaves[i].by = saves[i + 1].by
      /\ Head(saves) = saves[1] /\ saves[1] \in AclSave
  BY NextSavesType
<1>2. c \in Conns /\ InFlight(c, "saving") /\ c = saves[1].by
  BY <1>1, AuthorityAssumption DEF AclSave, OwnerInv
<1>3. v \in Request /\ v # None /\ v.stage = "readback"
  BY <1>2, RequestAssumption DEF InFlight, TypeOK, Request, Stages
<1>4. request' = [request EXCEPT ![c] = v]
  BY DEF AclSaveEnds, MoveTo
<1>5. request' \in [Conns -> Request \cup {None}] /\ WaitChange
  <2>1. ~InFlight(c, "queued")
    BY <1>2 DEF InFlight
  <2> HIDE DEF v, c
  <2> QED BY <1>2, <1>3, <1>4, <2>1, OneRequest
<1>6. \A i \in 1..(n - 1) : /\ i + 1 \in 1..n /\ i + 1 # 1
                            /\ NextSaves[i].by = saves[i + 1].by
                            /\ saves[i + 1].by # c
  <2> TAKE i \in 1..(n - 1)
  <2>1. i + 1 \in 1..n /\ 1 \in 1..n /\ i + 1 # 1
    BY <1>1
  <2> QED BY <1>1, <1>2, <2>1 DEF OwnerInv
<1>7. \A i \in 1..(n - 1) : request'[NextSaves[i].by] = request[NextSaves[i].by]
  <2>1. \A i \in 1..n : saves[i] \in AclSave
    BY ElementOfSeq DEF TypeOK, AccessTypeOK
  <2>2. \A i \in 1..n : saves[i].by \in Conns
    BY <2>1, AuthorityAssumption DEF AclSave
  <2> HIDE DEF c, v
  <2> QED BY <1>4, <1>6, <2>2 DEF TypeOK
<1>8. ASSUME NEW i \in 1..(n - 1)
      PROVE  /\ request'[NextSaves[i].by] # None
             /\ request'[NextSaves[i].by].stage = "saving"
  <2>1. InFlight(saves[i + 1].by, "saving")
    BY <1>1, <1>6 DEF OwnerInv
  <2> QED BY <1>6, <1>7, <2>1 DEF InFlight
<1>9. ASSUME NEW i \in 1..(n - 1), NEW j \in 1..(n - 1),
             NextSaves[i].by = NextSaves[j].by
      PROVE  i = j
  <2>1. i + 1 = j + 1
    BY <1>1, <1>6, <1>9 DEF OwnerInv
  <2> QED BY <1>1, <2>1
<1> QED BY <1>1, <1>5, <1>8, <1>9 DEF OwnerInv, InFlight

LEMMA SameRequests ==
  ASSUME TypeOK, OwnerInv, request' = request, saves' = saves
  PROVE  /\ OwnerInv'
         /\ request' \in [Conns -> Request \cup {None}] /\ WaitChange
<1>1. OwnerInv'
  BY DEF OwnerInv, InFlight
<1> QED BY <1>1 DEF WaitChange, TypeOK

\* a handler answers, with no save of its own on its way
LEMMA AnsweredLemma ==
  ASSUME TypeOK, OwnerInv, NEW c \in Conns, Answered(c), saves' = saves,
         ~InFlight(c, "saving")
  PROVE  /\ OwnerInv'
         /\ request' \in [Conns -> Request \cup {None}] /\ WaitChange
<1>1. request' = [request EXCEPT ![c] = None]
  BY DEF Answered
<1> QED BY <1>1, OwnersKept, OneRequest

\* a request goes on to a stage after the guard, or waits for a save
LEMMA MovedLemma ==
  ASSUME TypeOK, NEW c \in Conns, NEW stage \in Stages, MoveTo(c, stage),
         request[c] # None, stage # "queued",
         InFlight(c, "queued") => Permits(c)
  PROVE  /\ request' = [request EXCEPT ![c] = [request[c] EXCEPT !.stage = stage]]
         /\ [request[c] EXCEPT !.stage = stage] \in Request
         /\ [request[c] EXCEPT !.stage = stage] # None
         /\ [request[c] EXCEPT !.stage = stage].stage = stage
         /\ request' \in [Conns -> Request \cup {None}] /\ WaitChange
<1> DEFINE v == [request[c] EXCEPT !.stage = stage]
<1>1. request[c] \in Request
  BY DEF TypeOK
<1>2. v \in Request /\ v.stage = stage
  BY <1>1 DEF Request
<1>3. v # None
  BY <1>2, RequestAssumption
<1>4. request' = [request EXCEPT ![c] = v]
  BY DEF MoveTo
<1>5. request' \in [Conns -> Request \cup {None}] /\ WaitChange
  <2> HIDE DEF v
  <2> QED BY <1>2, <1>3, <1>4, OneRequest
<1> QED BY <1>2, <1>3, <1>4, <1>5

LEMMA RequestStepLemma ==
  ASSUME TypeOK, OwnerInv, Next
  PROVE  /\ OwnerInv'
         /\ request' \in [Conns -> Request \cup {None}] /\ WaitChange
<1> DEFINE Goal == /\ OwnerInv'
                   /\ request' \in [Conns -> Request \cup {None}] /\ WaitChange
<1>1. ASSUME NEW c \in Conns,
             \/ Connect(c) \/ Disconnect(c)
             \/ \E p \in Projects :
                   \/ \E purpose \in Purposes : LeaseCommand(c, p, purpose)
                   \/ Delete(c, p)
      PROVE  Goal
  <2>1. request' = request /\ saves' = saves
    BY <1>1 DEF Connect, Disconnect, LeaseCommand, LeaseStep, Delete, accessVars
  <2> QED BY <2>1, SameRequests
<1>2. CASE TimePasses
  <2>1. request' = request /\ saves' = saves
    BY <1>2 DEF TimePasses, LeaseStep, accessVars
  <2> QED BY <2>1, SameRequests
<1>3. ASSUME NEW c \in Conns,
             \/ Fail(c) \/ Commit(c) \/ RefuseSet(c) \/ RemoveNobody(c)
             \/ FinishSet(c) \/ DeniedForCreate(c) \/ PersistFails(c)
      PROVE  Goal
  <2>1. Answered(c) /\ saves' = saves /\ ~InFlight(c, "saving")
    BY <1>3 DEF Fail, Commit, RefuseSet, RemoveNobody, FinishSet, DeniedForCreate,
                PersistFails, accessVars, At, InFlight
  <2> QED BY <2>1, AnsweredLemma
<1>4. ASSUME NEW c \in Conns, Recheck(c)
      PROVE  Goal
  <2>1. /\ MoveTo(c, "cleared") /\ saves' = saves /\ Permits(c)
        /\ request[c] # None /\ ~InFlight(c, "saving") /\ "cleared" \in Stages
    BY <1>4 DEF Recheck, accessVars, At, InFlight, Stages
  <2> QED BY <2>1, MovedLemma, OwnersKept
<1>5. ASSUME NEW c \in Conns, ApplySet(c)
      PROVE  Goal
  <2>1. /\ MoveTo(c, "saving") /\ request[c] # None
        /\ ~InFlight(c, "saving") /\ ~InFlight(c, "queued") /\ "saving" \in Stages
    BY <1>5 DEF ApplySet, At, InFlight, Stages
  <2>2. PICK acl : Change(c, acl)
    BY <1>5 DEF ApplySet
  <2> DEFINE v == [request[c] EXCEPT !.stage = "saving"]
  <2>3. /\ request' = [request EXCEPT ![c] = v] /\ v # None /\ v.stage = "saving"
        /\ request' \in [Conns -> Request \cup {None}] /\ WaitChange
    BY <2>1, MovedLemma
  <2> HIDE DEF v
  <2> QED BY <2>1, <2>2, <2>3, OwnerJoins
<1>6. ASSUME NEW c \in Conns, NEW p \in Projects, RequestSave(c, p)
      PROVE  Goal
  <2>1. PICK t \in DOMAIN issued :
           Submit(c, [kind |-> "save", stage |-> "queued", project |-> p,
                      revision |-> access[p].revision, token |-> t,
                      target |-> UserOf[c], role |-> "none"])
    BY <1>6 DEF RequestSave
  <2> DEFINE v == [kind |-> "save", stage |-> "queued", project |-> p,
                   revision |-> access[p].revision, token |-> t,
                   target |-> UserOf[c], role |-> "none"]
  <2>2. /\ issued' = issued /\ access' = access /\ saves' = saves
    BY <1>6 DEF RequestSave, leaseVars, accessVars
  <2>3. t \in 1..Len(issued) /\ t \in 0..MaxTokens
    BY <2>1, LenProperties, LeaseAssumption DEF TypeOK, LeaseTypeOK
  <2>4. v \in Request
    <3>1. access[p].revision \in Nat
      BY DEF TypeOK, AccessTypeOK, Acl, Entry
    <3> QED BY <2>3, <3>1, AuthorityAssumption DEF Request, Kinds, Stages, Roles
  <2>5. /\ v.project = p /\ v.revision = access[p].revision /\ v.token = t
    OBVIOUS
  <2> HIDE DEF v
  <2>6. request[c] = None /\ request' = [request EXCEPT ![c] = v]
    BY <2>1 DEF Submit, v
  <2> QED BY <2>2, <2>3, <2>4, <2>5, <2>6, OneRequest, OwnersKept DEF InFlight
<1>7. ASSUME NEW c \in Conns, NEW p \in Projects, NEW u \in Users,
             NEW role \in Assignable, RequestSet(c, p, u, role)
      PROVE  Goal
  <2>1. PICK t \in DOMAIN issued :
           Submit(c, [kind |-> "set", stage |-> "eligible", project |-> p,
                      revision |-> access[p].revision, token |-> t,
                      target |-> u, role |-> role])
    BY <1>7 DEF RequestSet
  <2> DEFINE v == [kind |-> "set", stage |-> "eligible", project |-> p,
                   revision |-> access[p].revision, token |-> t,
                   target |-> u, role |-> role]
  <2>2. t \in 0..MaxTokens
    BY <2>1, LenProperties, LeaseAssumption DEF TypeOK, LeaseTypeOK
  <2>3. v \in Request /\ v.stage # "queued"
    <3>1. access[p].revision \in Nat
      BY DEF TypeOK, AccessTypeOK, Acl, Entry
    <3> QED BY <2>2, <3>1, AccessAssumption DEF Request, Kinds, Stages
  <2> HIDE DEF v
  <2>4. request[c] = None /\ request' = [request EXCEPT ![c] = v] /\ saves' = saves
    BY <1>7, <2>1 DEF Submit, v, RequestSet, accessVars
  <2> QED BY <2>3, <2>4, OneRequest, OwnersKept DEF InFlight
<1>8. ASSUME NEW c \in Conns, NEW p \in Projects, RequestCreate(c, p)
      PROVE  Goal
  <2> DEFINE v == [kind |-> "create", stage |-> "saving", project |-> p,
                   revision |-> 0, token |-> 0, target |-> UserOf[c],
                   role |-> "admin"]
  <2>1. v \in Request /\ v.stage = "saving"
    BY AuthorityAssumption, LeaseAssumption DEF Request, Kinds, Stages, Roles
  <2>2. request[c] = None /\ request' = [request EXCEPT ![c] = v]
    BY <1>8 DEF RequestCreate, Submit
  <2> HIDE DEF v
  <2>3. v # None
    BY <2>1, RequestAssumption
  <2>4. PICK acl : Change(c, acl)
    BY <1>8 DEF RequestCreate
  <2> QED BY <2>1, <2>2, <2>3, <2>4, OneRequest, OwnerJoins DEF InFlight
<1>9. CASE SaveAcl \/ LoseAcl
  <2>1. saves # <<>> /\ saves' = NextSaves /\ AclSaveEnds(Head(saves).by)
    BY <1>9 DEF SaveAcl, LoseAcl, Land, Lose
  <2> QED BY <2>1, OwnerLeaves
<1>10. ASSUME NEW c \in Conns, LeaseForCreate(c)
      PROVE  Goal
  <2> DEFINE r == request[c]
             p == r.project
             v == [r EXCEPT !.stage = "queued", !.revision = access[p].revision,
                            !.token = Fresh]
  <2>1. /\ r \in Request /\ r.stage = "readback" /\ p \in Projects
    BY <1>10 DEF LeaseForCreate, At, TypeOK, Request
  <2>2. access' = access /\ saves' = saves
    BY <1>10 DEF LeaseForCreate, accessVars
  <2>3. \E x, ttl : Issue(x, ttl)
    BY <1>10 DEF LeaseForCreate, Acquire
  <2>4. /\ Len(issued) \in Nat /\ Len(issued) < MaxTokens
        /\ Len(issued') = Len(issued) + 1
    <3>1. issued \in Seq(Context)
      BY DEF TypeOK, LeaseTypeOK
    <3> QED BY <2>3, <3>1, LenProperties DEF Issue
  <2>5. Fresh \in 1..Len(issued') /\ Fresh \in 0..MaxTokens
    BY <2>4, LeaseAssumption DEF Fresh
  <2>6. access[p].revision \in Nat
    BY <2>1 DEF TypeOK, AccessTypeOK, Acl, Entry
  <2>7. /\ v \in Request /\ v.project = p /\ v.revision = access[p].revision
        /\ v.token = Fresh
    BY <2>1, <2>5, <2>6 DEF Request, Stages
  <2>8. request' = [request EXCEPT ![c] = v]
    BY <1>10 DEF LeaseForCreate
  <2>9. ~InFlight(c, "saving") /\ ~InFlight(c, "queued")
    BY <2>1 DEF InFlight
  <2> HIDE DEF v, p, r
  <2> QED BY <2>2, <2>5, <2>7, <2>8, <2>9, OneRequest, OwnersKept
<1>11. CASE Restart \/ Reload
  <2>1. saves' = <<>> /\ request' = [c \in Conns |-> None]
    <3>1. CASE Restart
      BY <3>1 DEF Restart, ReloadAcl
    <3>2. CASE Reload
      <4>1. request \in [Conns -> Request \cup {None}]
        BY DEF TypeOK
      <4> QED BY <3>2, <4>1 DEF Reload, ReloadAcl
    <3> QED BY <1>11, <3>1, <3>2
  <2>2. DOMAIN saves' = {}
    BY <2>1
  <2> QED BY <2>1, <2>2 DEF OwnerInv, WaitChange, InFlight
<1> QED
  BY <1>1, <1>2, <1>3, <1>4, <1>5, <1>6, <1>7, <1>8, <1>9, <1>10, <1>11
     DEF Next, CommandNext, HandlerNext

-----------------------------------------------------------------------------
(* The rest of the state *)

LEMMA ConfirmType ==
  ASSUME TypeOK, NEW p \in Projects, Confirm(p)
  PROVE  told' \in [Projects -> Promise]
BY DEF Confirm, TypeOK, AccessTypeOK, Acl, Promise

\* every step keeps the history of lapsed authority
LEMMA WatchedLemma ==
  ASSUME Next
  PROVE  Watched
<1>1. ASSUME NEW c \in Conns,
             \/ Connect(c) \/ Disconnect(c)
             \/ \E p \in Projects :
                   \/ \E purpose \in Purposes : LeaseCommand(c, p, purpose)
                   \/ Delete(c, p) \/ RequestSave(c, p) \/ RequestCreate(c, p)
                   \/ \E u \in Users, role \in Assignable : RequestSet(c, p, u, role)
      PROVE  Watched
  BY <1>1 DEF Connect, Disconnect, LeaseCommand, LeaseStep, Delete, RequestSave,
              RequestCreate, RequestSet
<1>2. ASSUME NEW c \in Conns,
             \/ Recheck(c) \/ Fail(c) \/ Commit(c)
             \/ ApplySet(c) \/ RefuseSet(c) \/ RemoveNobody(c) \/ FinishSet(c)
             \/ LeaseForCreate(c) \/ DeniedForCreate(c) \/ PersistFails(c)
      PROVE  Watched
  BY <1>2 DEF Recheck, Fail, Commit, ApplySet, RefuseSet, RemoveNobody, FinishSet,
              LeaseForCreate, DeniedForCreate, PersistFails
<1>3. CASE SaveAcl \/ LoseAcl \/ TimePasses \/ Restart \/ Reload
  BY <1>3 DEF SaveAcl, LoseAcl, TimePasses, LeaseStep, Restart, Reload
<1> QED BY <1>1, <1>2, <1>3 DEF Next, CommandNext, HandlerNext

LEMMA RestType ==
  ASSUME TypeOK, Next
  PROVE  /\ open' \subseteq Conns /\ exists' \in [Projects -> BOOLEAN]
         /\ lapsed' \subseteq Conns /\ told' \in [Projects -> Promise]
         /\ losses' \in 0..MaxLosses /\ restarts' \in 0..MaxRestarts
<1> DEFINE Rest == /\ open' \subseteq Conns /\ exists' \in [Projects -> BOOLEAN]
                   /\ told' \in [Projects -> Promise]
                   /\ losses' \in 0..MaxLosses /\ restarts' \in 0..MaxRestarts
<1>1. lapsed' \subseteq Conns
  BY WatchedLemma DEF Watched
<1>2. ASSUME UNCHANGED <<exists, told, losses, restarts>>, open' \subseteq Conns
      PROVE  Rest
  BY <1>2 DEF TypeOK
<1>3. ASSUME NEW c \in Conns,
             \/ Connect(c) \/ Disconnect(c)
             \/ Recheck(c) \/ Fail(c) \/ ApplySet(c) \/ RefuseSet(c)
             \/ RemoveNobody(c) \/ PersistFails(c)
             \/ \E p \in Projects :
                   \/ \E purpose \in Purposes : LeaseCommand(c, p, purpose)
                   \/ RequestSave(c, p) \/ RequestCreate(c, p)
                   \/ \E u \in Users, role \in Assignable : RequestSet(c, p, u, role)
      PROVE  Rest
  <2>1. UNCHANGED <<exists, told, losses, restarts>>
    BY <1>3 DEF Connect, Disconnect, Recheck, Fail, ApplySet, RefuseSet, RemoveNobody,
                PersistFails, LeaseCommand, LeaseStep, RequestSave, RequestCreate,
                RequestSet
  <2>2. open' \subseteq Conns
    BY <1>3 DEF Connect, Disconnect, Recheck, Fail, ApplySet, RefuseSet, RemoveNobody,
                PersistFails, LeaseCommand, LeaseStep, RequestSave, RequestCreate,
                RequestSet, TypeOK
  <2> QED BY <1>2, <2>1, <2>2
<1>4. ASSUME TimePasses
      PROVE  Rest
  BY <1>2, <1>4 DEF TimePasses, LeaseStep, TypeOK
<1>5. ASSUME NEW c \in Conns, \/ \E p \in Projects : Delete(c, p)
                              \/ Commit(c)
      PROVE  Rest
  BY <1>5 DEF Delete, Commit, TypeOK
<1>6. ASSUME NEW c \in Conns, FinishSet(c) \/ LeaseForCreate(c) \/ DeniedForCreate(c)
      PROVE  Rest
  <2>1. request[c].project \in Projects /\ Confirm(request[c].project)
    BY <1>6 DEF FinishSet, LeaseForCreate, DeniedForCreate, At, TypeOK, Request
  <2>2. told' \in [Projects -> Promise]
    BY <2>1, ConfirmType
  <2> QED BY <1>6, <2>2 DEF FinishSet, LeaseForCreate, DeniedForCreate, TypeOK
<1>7. ASSUME SaveAcl \/ LoseAcl
      PROVE  Rest
  BY <1>7, AuthorityAssumption DEF SaveAcl, LoseAcl, TypeOK
<1>8. ASSUME Restart \/ Reload
      PROVE  Rest
  <2>1. CASE Restart
    <3>1. exists' \in [Projects -> BOOLEAN]
      BY <2>1 DEF Restart
    <3>2. restarts' \in 0..MaxRestarts
      BY <2>1, AuthorityAssumption DEF Restart, TypeOK
    <3> QED BY <2>1, <3>1, <3>2 DEF Restart, TypeOK
  <2>2. CASE Reload
    BY <2>2, AuthorityAssumption DEF Reload, TypeOK
  <2> QED BY <1>8, <2>1, <2>2
<1> QED
  BY <1>1, <1>3, <1>4, <1>5, <1>6, <1>7, <1>8 DEF Next, CommandNext, HandlerNext

-----------------------------------------------------------------------------
(* The invariants follow from what a step may do *)

LEMMA LeaseInvStep ==
  ASSUME TypeOK, LeaseInv, LeaseChange, AclChange, AccessTypeOK', LeaseTypeOK'
  PROVE  LeaseInv'
<1>1. /\ Len(issued) \in Nat /\ Len(issued') \in Nat
      /\ DOMAIN issued = 1..Len(issued) /\ DOMAIN issued' = 1..Len(issued')
  BY LenProperties DEF TypeOK, LeaseTypeOK
<1> SUFFICES ASSUME NEW p \in Projects, leases'[p] # NoLease
             PROVE  /\ leases'[p].digest \in DOMAIN issued'
                    /\ leases'[p].revision <= access'[p].revision
  BY DEF LeaseInv
<1>2. access[p].revision \in Nat /\ access'[p].revision \in Nat
  BY DEF TypeOK, AccessTypeOK, Acl, Entry
<1>3. access'[p].revision >= access[p].revision
  BY <1>2 DEF AclChange
<1>4. CASE KeptLease(p)
  <2>1. /\ leases[p] \in Held /\ leases[p].digest \in DOMAIN issued
        /\ leases[p].revision <= access[p].revision
        /\ leases'[p].digest = leases[p].digest
        /\ leases'[p].revision = leases[p].revision
    BY <1>4 DEF KeptLease, LeaseInv, TypeOK, LeaseTypeOK
  <2>2. leases[p].revision \in Nat /\ Len(issued') >= Len(issued)
    BY <2>1 DEF Held, LeaseChange
  <2> QED BY <1>1, <1>2, <1>3, <2>1, <2>2
<1>5. CASE NewLease(p)
  BY <1>1, <1>2, <1>3, <1>5 DEF NewLease, Fresh
<1> QED BY <1>4, <1>5 DEF LeaseChange

\* A role lost is a revision gained, and the leases of older ones are not good.
LEMMA RoleLossStep ==
  ASSUME TypeOK, LeaseInv, RoleLossDisarms, LeaseChange, AclChange, AccessTypeOK'
  PROVE  RoleLossDisarms'
<1> SUFFICES ASSUME NEW p \in Projects, leases'[p] # NoLease,
                    leases'[p].revision = access'[p].revision
             PROVE  MayHold(leases[p].user, p, leases[p].purpose)'
  BY DEF RoleLossDisarms
<1>1. access[p].revision \in Nat
  BY DEF TypeOK, AccessTypeOK, Acl, Entry
<1>2. CASE KeptLease(p)
  <2>1. /\ leases[p] # NoLease /\ leases[p] \in Held
        /\ leases'[p].user = leases[p].user /\ leases'[p].purpose = leases[p].purpose
        /\ leases'[p].revision = leases[p].revision
        /\ leases[p].revision <= access[p].revision
    BY <1>2 DEF KeptLease, LeaseInv, TypeOK, LeaseTypeOK
  <2>2. access'[p] = access[p]
    <3>1. \/ access'[p] = access[p]
          \/ access'[p].revision = access[p].revision + 1
      BY DEF AclChange
    <3>2. leases[p].revision \in Nat
      BY <2>1 DEF Held
    <3> QED BY <1>1, <2>1, <3>1, <3>2
  <2>3. MayHold(leases[p].user, p, leases[p].purpose)
    BY <2>1, <2>2 DEF RoleLossDisarms
  <2> QED BY <2>1, <2>2, <2>3 DEF MayHold, Capabilities, RoleOf
<1>3. CASE NewLease(p)
  BY <1>3 DEF NewLease, MayHold, Capabilities, RoleOf
<1> QED BY <1>2, <1>3 DEF LeaseChange

\* What was granted and lost does not come back: the membership it named is of
\* the past, and its bearer was rotated or dropped.
LEMMA LostForGood ==
  ASSUME TypeOK, LeaseInv, WaitInv, LeaseChange, AclChange, AccessTypeOK',
         NEW c \in Conns, InFlight(c, "queued"), ~Entitled(c),
         request'[c] = request[c]
  PROVE  ~Entitled(c)'
<1> DEFINE r == request[c]
           p == r.project
<1>1. /\ r # None /\ r \in Request /\ p \in Projects /\ r.revision \in Nat
      /\ r.revision <= access[p].revision /\ r.token \in DOMAIN issued
  BY DEF InFlight, TypeOK, Request, WaitInv
<1>2. access[p].revision \in Nat /\ access[p] \in Entry /\ DOMAIN issued = 1..Len(issued)
      /\ Len(issued) \in Nat
  BY <1>1, LenProperties DEF TypeOK, AccessTypeOK, Acl, Entry, LeaseTypeOK
<1> SUFFICES ASSUME Entitled(c)'
             PROVE  FALSE
  OBVIOUS
<1>3. /\ access'[p].revision = r.revision
      /\ access'[p].roles[UserOf[c]] \in {"engineer", "admin"}
      /\ leases'[p] # NoLease /\ leases'[p].digest = r.token
  BY DEF Entitled, RoleOf
<1>4. access'[p] = access[p]
  <2>1. \/ access'[p] = access[p]
        \/ access'[p].revision = access[p].revision + 1
        \/ request'[c] = None
    BY <1>1 DEF AclChange
  <2> QED BY <1>1, <1>2, <1>3, <2>1
<1>5. CASE KeptLease(p)
  <2>1. leases[p] # NoLease /\ leases[p].digest = r.token
    BY <1>3, <1>5 DEF KeptLease
  <2> QED BY <1>3, <1>4, <2>1 DEF Entitled, RoleOf
<1>6. CASE NewLease(p)
  BY <1>1, <1>2, <1>3, <1>6 DEF NewLease, Fresh
<1> QED BY <1>1, <1>3, <1>5, <1>6 DEF LeaseChange

LEMMA WaitInvStep ==
  ASSUME TypeOK, LeaseInv, WaitInv, LeaseChange, AclChange, WaitChange, Watched,
         AccessTypeOK', LeaseTypeOK', request' \in [Conns -> Request \cup {None}]
  PROVE  WaitInv'
<1>1. /\ Len(issued) \in Nat /\ Len(issued') \in Nat /\ Len(issued') >= Len(issued)
      /\ DOMAIN issued = 1..Len(issued) /\ DOMAIN issued' = 1..Len(issued')
  BY LenProperties DEF TypeOK, LeaseTypeOK, LeaseChange
<1>2. ASSUME NEW c \in Conns, InFlight(c, "queued")'
      PROVE  /\ request'[c].revision <= access'[request'[c].project].revision
             /\ request'[c].token \in DOMAIN issued'
  <2>1. request'[c] # None /\ request'[c] \in Request
    BY <1>2 DEF InFlight
  <2> DEFINE p == request'[c].project
  <2>2. p \in Projects /\ request'[c].revision \in Nat
    BY <2>1 DEF Request
  <2>3. access[p].revision \in Nat /\ access'[p].revision \in Nat
    BY <2>2 DEF TypeOK, AccessTypeOK, Acl, Entry
  <2>4. CASE request'[c] = request[c]
    <3>1. request[c].revision <= access[p].revision /\ request[c].token \in DOMAIN issued
      BY <1>2, <2>4 DEF InFlight, WaitInv
    <3>2. access'[p].revision >= access[p].revision
      BY <2>1, <2>2, <2>3 DEF AclChange
    <3> QED BY <1>1, <2>2, <2>3, <2>4, <3>1, <3>2
  <2>5. CASE /\ request'[c].revision = access'[p].revision
             /\ request'[c].token \in 1..Len(issued')
    BY <1>1, <2>3, <2>5
  <2> QED BY <1>2, <2>4, <2>5 DEF WaitChange
<1>3. ASSUME NEW c \in lapsed'
      PROVE  InFlight(c, "queued")' /\ ~Entitled(c)'
  <2>1. /\ c \in Conns /\ request'[c] # None
        /\ c \in lapsed \/ (request'[c].stage = "queued" /\ ~Entitled(c)')
    BY <1>3 DEF Watched
  <2>2. CASE c \in lapsed
    <3>1. InFlight(c, "queued") /\ ~Entitled(c)
      BY <2>2 DEF WaitInv
    <3>2. ~Permits(c)
      <4>1. /\ request[c] \in Request /\ request[c] # None
            /\ UserOf[c] \in Users
        BY <2>1, <3>1, AuthorityAssumption DEF InFlight, TypeOK
      <4>2. RoleOf(UserOf[c], request[c].project) \in Roles
        BY <4>1 DEF RoleOf, TypeOK, AccessTypeOK, Acl, Entry, Request
      <4>3. Permits(c) => Entitled(c)
        BY <4>2 DEF Permits, Entitled, Matches, Binding, RoleCapabilities, Roles
      <4> QED BY <3>1, <4>3
    <3>3. request'[c] = request[c]
      BY <2>1, <3>1, <3>2 DEF WaitChange
    <3>4. ~Entitled(c)'
      BY <2>1, <3>1, <3>3, LostForGood
    <3> QED BY <2>1, <3>1, <3>3, <3>4 DEF InFlight
  <2> QED BY <2>1, <2>2 DEF InFlight
<1> QED BY <1>2, <1>3 DEF WaitInv

-----------------------------------------------------------------------------
(* Membership in memory, on its way and on disk *)

LEMMA PrecedesOrder ==
  ASSUME NEW e \in Entry, NEW f \in Entry, NEW g \in Entry
  PROVE  Precedes(e, e) /\ (Precedes(e, f) /\ Precedes(f, g) => Precedes(e, g))
BY DEF Precedes, Entry

LEMMA EntriesOf ==
  ASSUME TypeOK, NEW p \in Projects
  PROVE  /\ access[p] \in Entry /\ stored[p] \in Entry
         /\ Len(saves) \in Nat /\ DOMAIN saves = 1..Len(saves)
         /\ \A i \in DOMAIN saves : saves[i].acl # Nothing => saves[i].acl[p] \in Entry
<1>1. saves \in Seq(AclSave) /\ access \in Acl /\ stored \in Acl
  BY DEF TypeOK, AccessTypeOK
<1>2. \A i \in DOMAIN saves : saves[i] \in AclSave
  BY <1>1, ElementOfSeq, LenProperties
<1> QED BY <1>1, <1>2, LenProperties DEF AclSave, Acl

\* A change in memory joins the line behind everything it builds on.
LEMMA ChangeOrders ==
  ASSUME TypeOK, SavesInv, NEW by \in Conns, NEW acl \in Acl, Change(by, acl), told' = told,
         \A q \in Projects : acl[q] = access[q] \/ acl[q].revision = access[q].revision + 1
  PROVE  SavesInv'
<1> DEFINE n == Len(saves)
           new == [by |-> by, acl |-> acl]
<1>1. saves \in Seq(AclSave) /\ new \in AclSave
  BY AuthorityAssumption DEF AclSave, TypeOK, AccessTypeOK
<1>2. /\ access' = acl /\ stored' = stored /\ saves' = Append(saves, new)
      /\ n \in Nat /\ DOMAIN saves = 1..n /\ DOMAIN saves' = 1..(n + 1)
      /\ \A i \in 1..n : saves'[i] = saves[i]
      /\ saves'[n + 1].acl = acl
  BY <1>1, AppendProperties, LenProperties DEF Change
<1> SUFFICES ASSUME NEW p \in Projects
             PROVE  /\ told[p].verified # None => Precedes(told[p].verified, stored[p])
                    /\ Precedes(stored[p], acl[p])
                    /\ \A i \in 1..(n + 1) : saves'[i].acl # Nothing =>
                          /\ Precedes(stored[p], saves'[i].acl[p])
                          /\ Precedes(saves'[i].acl[p], acl[p])
                          /\ \A j \in 1..(n + 1) : i <= j /\ saves'[j].acl # Nothing =>
                                Precedes(saves'[i].acl[p], saves'[j].acl[p])
  BY <1>2 DEF SavesInv
<1>3. /\ access[p] \in Entry /\ stored[p] \in Entry /\ acl[p] \in Entry
      /\ \A i \in 1..n : saves[i].acl # Nothing => saves[i].acl[p] \in Entry
  BY <1>2, EntriesOf DEF Acl
<1>4. Precedes(access[p], acl[p])
  BY <1>3 DEF Precedes, Entry
<1>5. /\ told[p].verified # None => Precedes(told[p].verified, stored[p])
      /\ Precedes(stored[p], access[p])
      /\ \A i \in 1..n : saves[i].acl # Nothing =>
            /\ Precedes(stored[p], saves[i].acl[p])
            /\ Precedes(saves[i].acl[p], access[p])
            /\ \A j \in 1..n : i <= j /\ saves[j].acl # Nothing =>
                  Precedes(saves[i].acl[p], saves[j].acl[p])
  BY <1>2 DEF SavesInv
<1>6. /\ Precedes(stored[p], acl[p]) /\ Precedes(acl[p], acl[p])
      /\ \A i \in 1..n : saves[i].acl # Nothing => Precedes(saves[i].acl[p], acl[p])
  BY <1>3, <1>4, <1>5, PrecedesOrder
<1> HIDE DEF n, new
<1>7. ASSUME NEW i \in 1..(n + 1), saves'[i].acl # Nothing
      PROVE  /\ Precedes(stored[p], saves'[i].acl[p])
             /\ Precedes(saves'[i].acl[p], acl[p])
             /\ \A j \in 1..(n + 1) : i <= j /\ saves'[j].acl # Nothing =>
                   Precedes(saves'[i].acl[p], saves'[j].acl[p])
  <2>1. CASE i = n + 1
    BY <1>2, <1>6, <2>1
  <2>2. CASE i \in 1..n
    BY <1>2, <1>5, <1>6, <1>7, <2>2
  <2> QED BY <1>2, <2>1, <2>2
<1> QED BY <1>5, <1>6, <1>7

\* When a save ends, whether it reached the file or was lost, the next one is
\* of the last data in line, which is later than all that was skipped.
LEMMA EndOrders ==
  ASSUME TypeOK, SavesInv, saves # <<>>, saves' = NextSaves, access' = access, told' = told,
         stored' = stored \/ (Head(saves).acl # Nothing /\ stored' = Head(saves).acl)
  PROVE  SavesInv'
<1> DEFINE n == Len(saves)
           r == Tail(saves)
<1>1. saves \in Seq(AclSave)
  BY DEF TypeOK, AccessTypeOK
<1>2. /\ n \in Nat \ {0} /\ DOMAIN saves = 1..n /\ Head(saves) = saves[1]
      /\ Len(r) = n - 1 /\ DOMAIN r = 1..(n - 1) /\ r \in Seq(AclSave)
      /\ \A i \in 1..(n - 1) : r[i] = saves[i + 1]
  BY <1>1, HeadTailProperties, LenProperties, EmptySeq
<1>3. \A i \in 1..(n - 1) : r[i] \in AclSave
  BY <1>2, ElementOfSeq
<1>4. /\ DOMAIN saves' = 1..(n - 1)
      /\ \A i \in 1..(n - 1) : saves'[i].acl # Nothing => i = 1 /\ saves'[i].acl = saves[n].acl
  <2>1. \A i \in 1..(n - 1) : saves'[i] = [r[i] EXCEPT !.acl = IF i = 1 THEN r[n - 1].acl ELSE Nothing]
    BY <1>2 DEF NextSaves
  <2>2. \A i \in 1..(n - 1) : saves'[i].acl = IF i = 1 THEN r[n - 1].acl ELSE Nothing
    BY <1>3, <2>1 DEF AclSave
  <2>3. n - 1 \in 1..(n - 1) => r[n - 1] = saves[n]
    BY <1>2
  <2>4. DOMAIN saves' = 1..(n - 1)
    BY <1>2 DEF NextSaves
  <2> QED BY <1>2, <2>2, <2>3, <2>4
<1> SUFFICES ASSUME NEW p \in Projects
             PROVE  /\ told[p].verified # None => Precedes(told[p].verified, stored'[p])
                    /\ Precedes(stored'[p], access[p])
                    /\ \A i \in 1..(n - 1) : saves'[i].acl # Nothing =>
                          /\ Precedes(stored'[p], saves'[i].acl[p])
                          /\ Precedes(saves'[i].acl[p], access[p])
                          /\ \A j \in 1..(n - 1) : i <= j /\ saves'[j].acl # Nothing =>
                                Precedes(saves'[i].acl[p], saves'[j].acl[p])
  BY <1>4 DEF SavesInv
<1>5. /\ access[p] \in Entry /\ stored[p] \in Entry
      /\ \A i \in 1..n : saves[i].acl # Nothing => saves[i].acl[p] \in Entry
      /\ told[p].verified # None => told[p].verified \in Entry
  BY <1>2, EntriesOf DEF TypeOK, Promise
<1>6. /\ told[p].verified # None => Precedes(told[p].verified, stored[p])
      /\ Precedes(stored[p], access[p])
      /\ \A i \in 1..n : saves[i].acl # Nothing =>
            /\ Precedes(stored[p], saves[i].acl[p])
            /\ Precedes(saves[i].acl[p], access[p])
            /\ \A j \in 1..n : i <= j /\ saves[j].acl # Nothing =>
                  Precedes(saves[i].acl[p], saves[j].acl[p])
  BY <1>2 DEF SavesInv
<1>7. 1 \in 1..n /\ n \in 1..n /\ 1 <= n
  BY <1>2
<1> HIDE DEF n, r
<1>8. /\ told[p].verified # None => Precedes(told[p].verified, stored'[p])
      /\ Precedes(stored'[p], access[p])
      /\ saves[n].acl # Nothing => Precedes(stored'[p], saves[n].acl[p])
  <2>1. CASE stored' = stored
    BY <1>6, <1>7, <2>1
  <2>2. CASE saves[1].acl # Nothing /\ stored' = saves[1].acl
    BY <1>5, <1>6, <1>7, <2>2, PrecedesOrder
  <2> QED BY <1>2, <2>1, <2>2
<1>9. saves[n].acl # Nothing => /\ Precedes(saves[n].acl[p], access[p])
                                /\ Precedes(saves[n].acl[p], saves[n].acl[p])
  BY <1>5, <1>6, <1>7, PrecedesOrder
<1> QED BY <1>4, <1>8, <1>9

\* A confirmation that counts was read back from the file.
LEMMA ConfirmOrders ==
  ASSUME TypeOK, SavesInv, UNCHANGED accessVars, NEW q \in Projects, Persisted(q), Confirm(q)
  PROVE  SavesInv'
<1>1. access' = access /\ stored' = stored /\ saves' = saves
  BY DEF accessVars
<1>2. ASSUME NEW p \in Projects, told'[p].verified # None
      PROVE  Precedes(told'[p].verified, stored[p])
  <2>1. CASE told'[p].verified = told[p].verified
    BY <1>2, <2>1 DEF SavesInv
  <2>2. CASE told'[p].verified # told[p].verified
    <3>1. ~DataWaits /\ p = q /\ told'[p].verified = access[p]
      BY <2>2 DEF Confirm, TypeOK, Promise
    <3>2. stored[p] = access[p]
      BY <3>1 DEF Persisted, Reloaded
    <3> QED BY <3>1, <3>2, EntriesOf, PrecedesOrder
  <2> QED BY <2>1, <2>2
<1> QED BY <1>1, <1>2 DEF SavesInv

LEMMA SavesStep ==
  ASSUME TypeOK, SavesInv, Next
  PROVE  SavesInv'
<1>1. CASE UNCHANGED <<accessVars, told>>
  BY <1>1 DEF SavesInv, accessVars
<1>2. ASSUME NEW c \in Conns,
             \/ Connect(c) \/ Disconnect(c) \/ Recheck(c) \/ Fail(c) \/ Commit(c)
             \/ RefuseSet(c) \/ RemoveNobody(c) \/ PersistFails(c)
             \/ \E p \in Projects :
                   \/ \E purpose \in Purposes : LeaseCommand(c, p, purpose)
                   \/ Delete(c, p) \/ RequestSave(c, p)
                   \/ \E u \in Users, role \in Assignable : RequestSet(c, p, u, role)
      PROVE  UNCHANGED <<accessVars, told>>
  BY <1>2 DEF Connect, Disconnect, Recheck, Fail, Commit, RefuseSet, RemoveNobody,
              PersistFails, LeaseCommand, LeaseStep, Delete, RequestSave, RequestSet
<1>3. ASSUME NEW c \in Conns, FinishSet(c) \/ LeaseForCreate(c) \/ DeniedForCreate(c)
      PROVE  SavesInv'
  <2>1. /\ request[c].project \in Projects /\ UNCHANGED accessVars
        /\ Persisted(request[c].project) /\ Confirm(request[c].project)
    BY <1>3 DEF FinishSet, LeaseForCreate, DeniedForCreate, At, TypeOK, Request
  <2> QED BY <2>1, ConfirmOrders
<1>4. ASSUME NEW c \in Conns, ApplySet(c)
      PROVE  SavesInv'
  <2> DEFINE r == request[c]
  <2>1. r \in Request
    BY <1>4 DEF ApplySet, At, TypeOK
  <2>2. r.project \in Projects /\ r.target \in Users /\ r.role \in Roles
    BY <2>1 DEF Request
  <2>3. Change(c, WithRole(r.project, r.target, r.role)) /\ told' = told
    BY <1>4 DEF ApplySet
  <2> QED BY <2>2, <2>3, WithRoleType, ChangeOrders
<1>5. ASSUME NEW c \in Conns, NEW p \in Projects, RequestCreate(c, p)
      PROVE  SavesInv'
  <2>1. /\ Change(c, WithFirstAdmin(p, UserOf[c])) /\ UserOf[c] \in Users /\ told' = told
    BY <1>5, AuthorityAssumption DEF RequestCreate
  <2> QED BY <2>1, WithFirstAdminType, ChangeOrders
<1>6. CASE SaveAcl \/ LoseAcl
  BY <1>6, EndOrders DEF SaveAcl, LoseAcl, Land, Lose
<1>7. CASE Restart \/ Reload
  <2>1. access' = stored /\ saves' = <<>> /\ stored' = stored /\ told' = told
    BY <1>7 DEF Restart, Reload, ReloadAcl
  <2>2. DOMAIN saves' = {}
    BY <2>1, EmptySeq, LenProperties
  <2>3. \A p \in Projects : Precedes(stored[p], stored[p])
    BY EntriesOf, PrecedesOrder
  <2> QED BY <2>1, <2>2, <2>3 DEF SavesInv
<1>8. CASE TimePasses
  BY <1>1, <1>8 DEF TimePasses, LeaseStep
<1> QED
  BY <1>1, <1>2, <1>3, <1>4, <1>5, <1>6, <1>7, <1>8 DEF Next, CommandNext, HandlerNext

\* A change in memory goes to the end of the line.
LEMMA ChangeWaits ==
  ASSUME TypeOK, AnswersInv, NEW by \in Conns, NEW acl \in Acl, Change(by, acl),
         UNCHANGED <<told, losses, restarts>>,
         \A q \in Projects : acl[q] = access[q] \/ acl[q].revision = access[q].revision + 1
  PROVE  AnswersInv'
<1> DEFINE n == Len(saves)
           new == [by |-> by, acl |-> acl]
<1>1. saves \in Seq(AclSave) /\ new \in AclSave
  BY AuthorityAssumption DEF AclSave, TypeOK, AccessTypeOK
<1>2. /\ access' = acl /\ saves' = Append(saves, new)
      /\ Len(saves') = n + 1 /\ saves' # <<>> /\ saves'[n + 1].acl = acl
  BY <1>1, AppendProperties, LenProperties DEF Change
<1>3. LineInv'
  BY <1>2 DEF LineInv
<1>4. ASSUME NEW p \in Projects, restarts = 0, told[p].answered # None
      PROVE  Precedes(told[p].answered, acl[p])
  <2>1. told[p].answered \in Entry /\ access[p] \in Entry /\ acl[p] \in Entry
    BY <1>4, EntriesOf DEF TypeOK, Promise, Acl
  <2>2. Precedes(told[p].answered, access[p]) /\ Precedes(access[p], acl[p])
    BY <1>4, <2>1 DEF AnswersInv, Precedes, Entry
  <2> QED BY <2>1, <2>2, PrecedesOrder
<1> QED BY <1>2, <1>3, <1>4 DEF AnswersInv

\* The file takes what is at the head of the line, and the next save the last.
LEMMA LineLands ==
  ASSUME TypeOK, LineInv, Land
  PROVE  LineInv'
<1> DEFINE n == Len(saves)
           r == Tail(saves)
<1>1. saves \in Seq(AclSave) /\ saves # <<>> /\ access \in Acl /\ Nothing \notin Acl
  BY AccessAssumption DEF Land, TypeOK, AccessTypeOK
<1>2. /\ n \in Nat \ {0} /\ DOMAIN saves = 1..n /\ Head(saves) = saves[1]
      /\ DOMAIN r = 1..(n - 1) /\ Len(r) = n - 1 /\ r \in Seq(AclSave)
      /\ \A i \in 1..(n - 1) : r[i] = saves[i + 1]
  BY <1>1, HeadTailProperties, LenProperties, EmptySeq
<1>3. \A i \in 1..(n - 1) : r[i] \in AclSave
  BY <1>2, ElementOfSeq
<1>4. /\ access' = access /\ DOMAIN saves' = 1..(n - 1)
      /\ \A i \in 1..(n - 1) :
            saves'[i].acl = IF i = 1 THEN saves[n].acl ELSE Nothing
      /\ stored' = IF saves[1].acl = Nothing THEN stored ELSE saves[1].acl
  <2>1. saves' = [i \in 1..(n - 1) |->
                     [r[i] EXCEPT !.acl = IF i = 1 THEN r[n - 1].acl ELSE Nothing]]
    BY <1>2 DEF Land, NextSaves
  <2>2. \A i \in 1..(n - 1) :
           saves'[i].acl = IF i = 1 THEN r[n - 1].acl ELSE Nothing
    BY <1>3, <2>1 DEF AclSave
  <2>3. n - 1 \in 1..(n - 1) => r[n - 1] = saves[n]
    BY <1>2
  <2> QED BY <1>2, <2>1, <2>2, <2>3 DEF Land
<1>5. n > 1 => saves' # <<>>
  BY <1>2, <1>4, EmptySeq
<1> HIDE DEF n, r
<1>6. CASE saves[n].acl = access
  <2>1. CASE n = 1
    BY <1>1, <1>2, <1>4, <1>6, <2>1 DEF LineInv
  <2>2. CASE n > 1
    BY <1>2, <1>4, <1>5, <1>6, <2>2 DEF LineInv
  <2> QED BY <1>2, <2>1, <2>2
<1>7. CASE saves[1].acl = access /\ \A i \in DOMAIN saves : i > 1 => saves[i].acl = Nothing
  BY <1>1, <1>2, <1>4, <1>7 DEF LineInv
<1>8. CASE stored = access /\ \A i \in DOMAIN saves : saves[i].acl = Nothing
  BY <1>2, <1>4, <1>8 DEF LineInv
<1> QED BY <1>6, <1>7, <1>8 DEF LineInv, n

LEMMA AnswersStep ==
  ASSUME TypeOK, AnswersInv, Next
  PROVE  AnswersInv'
<1>1. CASE UNCHANGED <<accessVars, told, losses, restarts>>
  BY <1>1 DEF AnswersInv, LineInv, accessVars
<1>2. ASSUME NEW c \in Conns,
             \/ Connect(c) \/ Disconnect(c) \/ Recheck(c) \/ Fail(c) \/ Commit(c)
             \/ RefuseSet(c) \/ RemoveNobody(c) \/ PersistFails(c)
             \/ \E p \in Projects :
                   \/ \E purpose \in Purposes : LeaseCommand(c, p, purpose)
                   \/ Delete(c, p) \/ RequestSave(c, p)
                   \/ \E u \in Users, role \in Assignable : RequestSet(c, p, u, role)
      PROVE  UNCHANGED <<accessVars, told, losses, restarts>>
  BY <1>2 DEF Connect, Disconnect, Recheck, Fail, Commit, RefuseSet, RemoveNobody,
              PersistFails, LeaseCommand, LeaseStep, Delete, RequestSave, RequestSet
<1>3. ASSUME NEW c \in Conns, FinishSet(c) \/ LeaseForCreate(c) \/ DeniedForCreate(c)
      PROVE  AnswersInv'
  <2>1. /\ request[c].project \in Projects /\ Confirm(request[c].project)
        /\ UNCHANGED <<accessVars, losses, restarts>>
    BY <1>3 DEF FinishSet, LeaseForCreate, DeniedForCreate, At, TypeOK, Request
  <2>2. \A p \in Projects : told'[p].answered \in {told[p].answered, access[p]}
    BY <2>1 DEF Confirm, TypeOK, Promise
  <2>3. \A p \in Projects : Precedes(access[p], access[p])
    BY EntriesOf, PrecedesOrder
  <2>4. LineInv => LineInv'
    BY <2>1 DEF LineInv, accessVars
  <2> QED BY <2>1, <2>2, <2>3, <2>4 DEF AnswersInv, accessVars
<1>4. ASSUME NEW c \in Conns, ApplySet(c)
      PROVE  AnswersInv'
  <2> DEFINE r == request[c]
  <2>1. r \in Request
    BY <1>4 DEF ApplySet, At, TypeOK
  <2>2. r.project \in Projects /\ r.target \in Users /\ r.role \in Roles
    BY <2>1 DEF Request
  <2>3. /\ Change(c, WithRole(r.project, r.target, r.role))
        /\ UNCHANGED <<told, losses, restarts>>
    BY <1>4 DEF ApplySet
  <2> QED BY <2>2, <2>3, WithRoleType, ChangeWaits
<1>5. ASSUME NEW c \in Conns, NEW p \in Projects, RequestCreate(c, p)
      PROVE  AnswersInv'
  <2>1. /\ Change(c, WithFirstAdmin(p, UserOf[c])) /\ UserOf[c] \in Users
        /\ UNCHANGED <<told, losses, restarts>>
    BY <1>5, AuthorityAssumption DEF RequestCreate
  <2> QED BY <2>1, WithFirstAdminType, ChangeWaits
<1>6. CASE SaveAcl
  <2>1. Land /\ UNCHANGED <<access, told, losses, restarts>>
    BY <1>6 DEF SaveAcl, Land
  <2> QED BY <2>1, LineLands DEF AnswersInv
<1>7. CASE LoseAcl
  <2>1. losses' # 0 /\ UNCHANGED <<access, told, restarts>>
    BY <1>7 DEF LoseAcl, Lose, TypeOK
  <2> QED BY <2>1 DEF AnswersInv
<1>8. CASE Restart \/ Reload
  <2>1. restarts' # 0 /\ access' = stored' /\ saves' = <<>>
    BY <1>8 DEF Restart, Reload, ReloadAcl, TypeOK
  <2>2. DOMAIN saves' = {}
    BY <2>1, EmptySeq, LenProperties
  <2> QED BY <2>1, <2>2 DEF AnswersInv, LineInv
<1>9. CASE TimePasses
  BY <1>1, <1>9 DEF TimePasses, LeaseStep
<1> QED
  BY <1>1, <1>2, <1>3, <1>4, <1>5, <1>6, <1>7, <1>8, <1>9 DEF Next, CommandNext, HandlerNext

-----------------------------------------------------------------------------
LEMMA InitLemma ==
  ASSUME Init
  PROVE  IndInv
<1>1. /\ leases = [p \in Projects |-> NoLease] /\ issued = <<>> /\ generation = 1
      /\ operations = Idle /\ saves = <<>> /\ lapsed = {} /\ open = {}
      /\ request = [c \in Conns |-> None] /\ told = [p \in Projects |-> [answered |-> None, verified |-> None]]
      /\ losses = 0 /\ restarts = 0 /\ exists \in [Projects -> BOOLEAN]
      /\ access = stored /\ stored \in [Projects -> {FirstEntry} \cup KeptEntries]
  BY DEF Init, LeaseInit, AccessInit
<1>2. LeaseTypeOK
  <2>1. Idle \in [Users -> [Projects -> [1..MaxOperations -> 0..Window]]]
    BY LeaseAssumption DEF Idle
  <2>2. <<>> \in Seq(Context) /\ Len(<<>>) <= MaxTokens
    BY EmptySeq, LeaseAssumption
  <2> QED BY <1>1, <2>1, <2>2 DEF LeaseTypeOK
<1>3. AccessTypeOK
  <2>1. FirstEntry \in Entry
    BY DEF FirstEntry, Entry, Roles
  <2>2. KeptEntries \subseteq Entry
    <3>1. {1} \subseteq Nat /\ {TRUE} \subseteq BOOLEAN
      OBVIOUS
    <3>2. {m \in [Users -> Assignable] : \E u \in Users : m[u] = "admin"}
             \subseteq [Users -> Roles]
      BY AccessAssumption
    <3> QED BY <3>1, <3>2, Zenon DEF KeptEntries, Entry
  <2>3. stored \in Acl
    BY <1>1, <2>1, <2>2 DEF Acl
  <2> QED BY <1>1, <2>3, EmptySeq DEF AccessTypeOK
<1>4. TypeOK
  BY <1>1, <1>2, <1>3, AuthorityAssumption DEF TypeOK, Promise
<1>5. LeaseInv /\ RoleLossDisarms
  BY <1>1 DEF LeaseInv, RoleLossDisarms
<1>6. WaitInv
  BY <1>1 DEF WaitInv, InFlight
<1>7. OwnerInv
  BY <1>1 DEF OwnerInv
<1> QED BY <1>4, <1>5, <1>6, <1>7 DEF IndInv

LEMMA NextLemma ==
  ASSUME IndInv, Next
  PROVE  IndInv' /\ LeaseChange
<1>1. TypeOK /\ LeaseInv /\ WaitInv /\ OwnerInv /\ RoleLossDisarms /\ Watched
  BY WatchedLemma DEF IndInv
<1>2. LeaseChange /\ LeaseTypeOK' /\ AclChange /\ AccessTypeOK'
  BY <1>1, LeaseStepLemma, AclStepLemma
<1>3. OwnerInv' /\ request' \in [Conns -> Request \cup {None}] /\ WaitChange
  BY <1>1, RequestStepLemma
<1>4. TypeOK'
  BY <1>1, <1>2, <1>3, RestType DEF TypeOK
<1>5. LeaseInv' /\ RoleLossDisarms' /\ WaitInv'
  BY <1>1, <1>2, <1>3, LeaseInvStep, RoleLossStep, WaitInvStep
<1> QED BY <1>2, <1>3, <1>4, <1>5 DEF IndInv

LEMMA StutterLemma ==
  ASSUME IndInv, UNCHANGED authorityVars
  PROVE  IndInv'
<1> USE DEF authorityVars, leaseVars, accessVars
<1>1. TypeOK'
  BY DEF IndInv, TypeOK, LeaseTypeOK, AccessTypeOK
<1>2. LeaseInv' /\ RoleLossDisarms'
  BY DEF IndInv, LeaseInv, RoleLossDisarms, MayHold, Capabilities, RoleOf
<1>3. WaitInv'
  BY DEF IndInv, WaitInv, InFlight, Entitled, RoleOf
<1>4. OwnerInv'
  BY DEF IndInv, OwnerInv, InFlight
<1> QED BY <1>1, <1>2, <1>3, <1>4 DEF IndInv

\* The invariant behind the theorems below: leases carry issued bearers and
\* past memberships, waiting mutations were granted by them, a loss is for
\* good, and every ACL save on its way has one caller that waits for it.
THEOREM AuthorityInductive == Spec => []IndInv
<1>1. Init => IndInv
  BY InitLemma
<1>2. IndInv /\ [Next]_authorityVars => IndInv'
  BY NextLemma, StutterLemma
<1> QED BY <1>1, <1>2, PTL DEF Spec

\* Every variable keeps its type, whatever connections, clients and restarts do.
THEOREM AuthorityTypes == Spec => []TypeOK
<1>1. IndInv => TypeOK
  BY DEF IndInv
<1> QED BY <1>1, AuthorityInductive, PTL

\* No lease validates for a user who has lost the role it needs, from the
\* instant the membership changes in memory, for any roles and any schedule.
THEOREM LostRolesDisarm == Spec => []RoleLossDisarms
<1>1. IndInv => RoleLossDisarms
  BY DEF IndInv
<1> QED BY <1>1, AuthorityInductive, PTL

\* The guard inside the coordinator's lock clears only mutations whose
\* membership and lease held without interruption since the boundary.
THEOREM GuardClearsUnbroken == Spec => []ClearedUnbroken
<1>1. IndInv => ClearedUnbroken
  BY DEF IndInv, WaitInv, InFlight, ClearedUnbroken, At
<1> QED BY <1>1, AuthorityInductive, PTL

\* A bearer token that stopped validating stays dead: an acquisition or a
\* renewal issues a new one, and nothing restores a binding.
THEOREM DeadBearers == Spec => BearersStayDead
<1> DEFINE Step == \A t \in DOMAIN issued : ~Usable(t) => ~Usable(t)'
<1>1. IndInv /\ [Next]_authorityVars => [Step]_leaseVars
  <2> SUFFICES ASSUME IndInv, Next
               PROVE  Step
    BY DEF authorityVars
  <2>1. LeaseChange /\ LeaseTypeOK' /\ LeaseTypeOK
    BY NextLemma DEF IndInv, TypeOK
  <2>2. /\ Len(issued) \in Nat /\ DOMAIN issued = 1..Len(issued)
        /\ \A t \in DOMAIN issued : issued[t] \in Context /\ issued'[t] = issued[t]
    BY <2>1, LenProperties, ElementOfSeq DEF LeaseTypeOK, LeaseChange
  <2> SUFFICES ASSUME NEW t \in DOMAIN issued, Usable(t)'
               PROVE  Usable(t)
    OBVIOUS
  <2> DEFINE x == issued[t]
             p == x.project
  <2>3. p \in Projects /\ issued'[t] = x
    BY <2>2 DEF Context
  <2>4. /\ leases'[p] # NoLease /\ leases'[p].digest = t
        /\ leases'[p].user = x.user /\ leases'[p].session = x.session
        /\ leases'[p].purpose = x.purpose /\ leases'[p].revision = x.revision
        /\ leases'[p].generation = generation'
    BY <2>3 DEF Usable, Matches
  <2>5. CASE KeptLease(p)
    <3>1. generation' = generation
      BY <2>1, <2>3, <2>4 DEF LeaseChange
    <3> QED BY <2>4, <2>5, <3>1 DEF KeptLease, Usable, Matches
  <2>6. CASE NewLease(p)
    BY <2>2, <2>4, <2>6 DEF NewLease, Fresh
  <2> QED BY <2>1, <2>3, <2>4, <2>5, <2>6 DEF LeaseChange
<1> QED BY <1>1, AuthorityInductive, PTL DEF Spec, BearersStayDead
\* A membership change that was read back from the file is in it from then on,
\* or a later one is, through merged saves, lost saves and restarts at any
\* moment; and every answer is in the file once no save is on its way, unless
\* a save was lost or the process ended.
THEOREM MembershipSurvives == Spec => []ConfirmedMembershipSurvives
<1>1. Init => SavesInv /\ AnswersInv
  <2> SUFFICES ASSUME Init PROVE SavesInv /\ AnswersInv
    OBVIOUS
  <2>1. /\ TypeOK /\ DOMAIN saves = {} /\ access = stored
        /\ told = [p \in Projects |-> [answered |-> None, verified |-> None]]
    BY InitLemma, EmptySeq, LenProperties DEF IndInv, Init, AccessInit
  <2>2. AnswersInv
    BY <2>1 DEF AnswersInv, LineInv
  <2> QED BY <2>1, <2>2, EntriesOf, PrecedesOrder DEF SavesInv
<1>2. IndInv /\ SavesInv /\ AnswersInv /\ [Next]_authorityVars => SavesInv' /\ AnswersInv'
  <2>1. UNCHANGED authorityVars /\ SavesInv => SavesInv'
    BY DEF authorityVars, accessVars, SavesInv
  <2>2. UNCHANGED authorityVars /\ AnswersInv => AnswersInv'
    BY DEF authorityVars, accessVars, AnswersInv, LineInv
  <2> QED BY <2>1, <2>2, SavesStep, AnswersStep DEF IndInv
<1>3. IndInv /\ SavesInv /\ AnswersInv => ConfirmedMembershipSurvives
  <2> SUFFICES ASSUME IndInv, SavesInv, AnswersInv PROVE ConfirmedMembershipSurvives
    OBVIOUS
  <2>1. \A p \in Projects :
           /\ access[p] \in Entry /\ stored[p] \in Entry
           /\ told[p].verified # None => told[p].verified \in Entry
           /\ told[p].answered # None => told[p].answered \in Entry
    BY EntriesOf DEF IndInv, TypeOK, Promise
  <2>2. \A p \in Projects :
           /\ told[p].verified # None => Keeps(p, told[p].verified)
           /\ access[p].revision >= stored[p].revision
    BY <2>1 DEF SavesInv, Precedes, Keeps, Entry
  <2>3. losses = 0 /\ saves = <<>> => access = stored
    BY DEF AnswersInv, LineInv
  <2>4. losses = 0 /\ restarts = 0 => AnsweredIsStored
    BY <2>1, <2>3 DEF AnswersInv, AnsweredIsStored, Precedes, Keeps, Entry
  <2> QED BY <2>2, <2>4 DEF ConfirmedMembershipSurvives
<1> QED BY <1>1, <1>2, <1>3, AuthorityInductive, PTL DEF Spec
=============================================================================
