----------------------------- MODULE Companion -----------------------------
(***************************************************************************)
(* What the parts of the Companion have in common: the projects it keeps   *)
(* and the Home Assistant users that work on them.                         *)
(***************************************************************************)
CONSTANTS
    Projects,  \* project ids
    Users      \* authenticated Home Assistant users
=============================================================================
