------------------------------ MODULE MCSigProc ------------------------------
(* Three children: a middle one has a sibling in its copy of the list and    *)
(* one that is not.  A negative number, which strtol accepts, forks nothing. *)
EXTENDS SigProc

MCNumbers == {-1, 1, 2, 3}
=============================================================================
