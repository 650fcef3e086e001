------------------------ MODULE MCMutationAuthority ------------------------
(***************************************************************************)
(* Small instances of MutationAuthority for TLC: connections of a Home     *)
(* Assistant administrator, and one of a second user.                      *)
(***************************************************************************)
EXTENDS MutationAuthority, TLC

CONSTANTS boss, eng, tab, sDesk, sTab

MCUserOf    == [c \in Conns |-> IF c = tab THEN eng ELSE boss]
MCSessionOf == [c \in Conns |-> IF c = tab THEN sTab ELSE sDesk]

\* the administrator's connections are interchangeable
DesksAlike == Permutations(Conns \ {tab})
=============================================================================
