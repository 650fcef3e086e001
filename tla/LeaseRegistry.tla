--------------------------- MODULE LeaseRegistry ---------------------------
(***************************************************************************)
(* The registry of exclusive editing leases (project_leases.py).           *)
(*                                                                         *)
(* A bearer token is 32 random bytes, modelled as the next number; the     *)
(* registry keeps its digest, here the number itself.  The clock is        *)
(* relative: a lease carries the time it has left, an operation counted by *)
(* the rate limit carries its age.  Every operation prunes what expired    *)
(* before it looks, so Tick drops a lease in the instant it expires.       *)
(*                                                                         *)
(* release_session, release_user and release_all exist in the code and     *)
(* have no caller outside its tests; they are not actions here.            *)
(***************************************************************************)
EXTENDS Companion, Integers, Sequences

CONSTANTS
    Sessions,       \* refresh tokens: what a connection is bound to
    Ttls,           \* lease lifetimes a client may ask for
    MaxOperations,  \* lease operations per user and project in one window
    Window,         \* the rate limit's window
    MaxTokens,      \* bound: bearer tokens issued
    NoLease

VARIABLES
    leases,      \* per project the lease held, or NoLease
    operations,  \* per user and project the ages of the last MaxOperations
                 \* counted operations, newest first; Window = none
    generation,  \* the runtime generation leases are issued under
    issued       \* history: the context each bearer token was issued in

leaseVars == <<leases, operations, generation, issued>>

Purposes == {"engineering", "membership_admin"}

Context == [project : Projects, user : Users, session : Sessions,
            purpose : Purposes, revision : Nat]
Held    == [digest : 1..MaxTokens, user : Users, session : Sessions,
            purpose : Purposes, revision : Nat, generation : Nat \ {0},
            left : Nat \ {0}]

ASSUME LeaseAssumption ==
    /\ Ttls \subseteq Nat \ {0}
    /\ MaxOperations \in Nat \ {0}
    /\ Window \in Nat \ {0}
    /\ MaxTokens \in Nat
    /\ NoLease \notin Held

Idle == [u \in Users |-> [p \in Projects |-> [i \in 1..MaxOperations |-> Window]]]

LeaseInit ==
    /\ leases = [p \in Projects |-> NoLease]
    /\ operations = Idle
    /\ generation = 1
    /\ issued = <<>>

-----------------------------------------------------------------------------
\* _rate_check: refused while the oldest of the last MaxOperations counted
\* operations is still inside the window; a refusal is not counted.
RateAllows(u, p) == operations[u][p][MaxOperations] = Window

Count(u, p) ==
    /\ RateAllows(u, p)
    /\ operations' = [operations EXCEPT ![u][p] =
            [i \in 1..MaxOperations |-> IF i = 1 THEN 0 ELSE operations[u][p][i - 1]]]

\* mutant: the digest is not compared
MatchesAnyToken(t, x) ==
    LET held == leases[x.project] IN
    /\ held # NoLease
    /\ held.user = x.user /\ held.session = x.session
    /\ held.purpose = x.purpose /\ held.revision = x.revision
    /\ held.generation = generation

\* _match: every binding dimension of the lease held is the one presented
Matches(t, x) ==
    LET held == leases[x.project] IN
    /\ held # NoLease
    /\ held.digest = t
    /\ held.user = x.user /\ held.session = x.session
    /\ held.purpose = x.purpose /\ held.revision = x.revision
    /\ held.generation = generation

Fresh == Len(issued) + 1

\* the bearer handed to the client in context x, replacing any older one
Issue(x, ttl) ==
    /\ Len(issued) < MaxTokens
    /\ issued' = Append(issued, x)
    /\ leases' = [leases EXCEPT ![x.project] =
            [digest |-> Fresh, user |-> x.user, session |-> x.session,
             purpose |-> x.purpose, revision |-> x.revision,
             generation |-> generation, left |-> ttl]]

Acquire(x, ttl) ==
    /\ Count(x.user, x.project)
    /\ leases[x.project] = NoLease
    /\ Issue(x, ttl)
    /\ UNCHANGED generation

\* "lease_held": refused, and counted all the same
AcquireHeld(x) ==
    /\ Count(x.user, x.project)
    /\ leases[x.project] # NoLease
    /\ UNCHANGED <<leases, generation, issued>>

\* The token rotates and the time starts again; the lease stays bound to the
\* context it was acquired in.  A stale token is refused before it is counted.
Renew(t, x, ttl) ==
    /\ Matches(t, x)
    /\ Count(x.user, x.project)
    /\ Issue(x, ttl)
    /\ UNCHANGED generation

Dropped(p) == [leases EXCEPT ![p] = NoLease]

Free(t, x) ==
    /\ Matches(t, x)
    /\ leases' = Dropped(x.project)
    /\ UNCHANGED <<operations, generation, issued>>

\* invalidate_access_revision
WithoutStale(p, revision) ==
    IF leases[p] # NoLease /\ leases[p].revision # revision THEN Dropped(p) ELSE leases

\* invalidate_generation, and the registry the next setup creates
NewGeneration(g) ==
    /\ leases' = [p \in Projects |-> NoLease]
    /\ operations' = Idle
    /\ generation' = g
    /\ UNCHANGED issued

Aged == [u \in Users |-> [p \in Projects |-> [i \in 1..MaxOperations |->
            IF operations[u][p][i] < Window THEN operations[u][p][i] + 1 ELSE Window]]]

\* mutant: a lease is still good in the instant it expires
TickWithGrace ==
    /\ leases' = [p \in Projects |->
            IF leases[p] # NoLease /\ leases[p].left > 0
            THEN [leases[p] EXCEPT !.left = @ - 1] ELSE NoLease]
    /\ operations' = Aged
    /\ UNCHANGED <<generation, issued>>

\* The monotonic clock moves on; a lease lives strictly before expires_at and
\* an operation is counted strictly less than Window.
Tick ==
    /\ leases' = [p \in Projects |->
            IF leases[p] # NoLease /\ leases[p].left > 1
            THEN [leases[p] EXCEPT !.left = @ - 1] ELSE NoLease]
    /\ operations' = Aged
    /\ UNCHANGED <<generation, issued>>

-----------------------------------------------------------------------------
LeaseTypeOK ==
    /\ leases \in [Projects -> Held \cup {NoLease}]
    /\ operations \in [Users -> [Projects -> [1..MaxOperations -> 0..Window]]]
    /\ generation \in Nat \ {0}
    /\ issued \in Seq(Context) /\ Len(issued) <= MaxTokens

\* the token is good for what it was issued for
Usable(t) == t \in DOMAIN issued /\ Matches(t, issued[t])

\* A bearer that stopped validating -- expired, rotated, released, outrun by a
\* membership change or by a restart -- never validates again, in whatever
\* order clients acquire, renew and release in the same context afterwards.
BearersStayDead ==
    [][\A t \in DOMAIN issued : ~Usable(t) => ~Usable(t)']_leaseVars
=============================================================================
