----------------------- MODULE MCProjectTransactions -----------------------
(***************************************************************************)
(* Small instances of ProjectTransactions for TLC.                         *)
(***************************************************************************)
EXTENDS ProjectTransactions, TLC

\* Users, projects and contents are interchangeable: no definition orders them.
Symmetric ==
    Permutations(Users) \cup Permutations(Projects) \cup Permutations(Contents)
============================================================================
