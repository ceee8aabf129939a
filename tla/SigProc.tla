------------------------------- MODULE SigProc -------------------------------
(***************************************************************************)
(* lab3/partB_sigproc: a parent that forks children and waits for them, and *)
(* a user who sends SIGUSR1 to any of them at any moment.                   *)
(*                                                                          *)
(* Signals, fork and waitpid are the kernel's.  SIGUSR1 is not queued: it is*)
(* pending or not.  It is masked while its handler runs.  A child inherits  *)
(* the parent's handler and a copy of its memory and no pending signal.     *)
(* A child is known by its index in chld_list; process ids are not reused.  *)
(***************************************************************************)
EXTENDS Integers

CONSTANTS
  Numbers,       (* what the user gives as the number of children           *)
  MaxChildren    (* bound on them; two characters of input make 99          *)

ASSUME SigProcAssumption ==
  MaxChildren \in Nat \ {0} /\ Numbers \subseteq Int \ {0}
    /\ \A n \in Numbers : n <= MaxChildren

VARIABLES
  numChildren,
  pc,        (* where the parent is                                         *)
  masked,    (* the parent runs its signal handler                          *)
  i, j,      (* the loops of main and of cleanup                            *)
  chld_list, (* the entries of the list that are written                    *)
  pending,   (* the processes with a SIGUSR1 on its way                     *)
  child,     (* the children                                                *)
  asked      (* history: whom the user has signalled                        *)

vars == <<numChildren, pc, masked, i, j, chld_list, pending, child, asked>>

-----------------------------------------------------------------------------
Children == 0..(MaxChildren - 1)
Parent   == -1

(* i, j and list are the child's copies of the parent's variables.          *)
Unborn == [pc |-> "none", i |-> 0, j |-> 0, list |-> {}]

Created(c) == child[c].pc # "none"
Runs(c)    == child[c].pc \in {"born", "kill", "loop", "woken"}

(* kill() of a child that has ended does nothing.                           *)
Kill(c) == pending' = IF c \in Children /\ Runs(c) THEN pending \cup {c} ELSE pending

parentVars == <<numChildren, pc, masked, i, j, chld_list>>

-----------------------------------------------------------------------------
(* The parent *)

NextIteration(k) == IF k < numChildren THEN "fork" ELSE "wait"

SigAction ==
  /\ pc = "sigaction" /\ pc' = NextIteration(i)
  /\ UNCHANGED <<numChildren, masked, i, j, chld_list, pending, child, asked>>

(* A slip: i is counted before the fork.                                    *)
ForkCounted ==
  /\ pc = "fork" /\ pc' = "store"
  /\ child' = [child EXCEPT ![i] =
       [pc |-> "born", i |-> i + 1, j |-> 0, list |-> chld_list]]
  /\ UNCHANGED <<numChildren, masked, i, j, chld_list, pending, asked>>

Fork ==
  /\ pc = "fork" /\ pc' = "store"
  /\ child' = [child EXCEPT ![i] =
       [pc |-> "born", i |-> i, j |-> 0, list |-> chld_list]]
  /\ UNCHANGED <<numChildren, masked, i, j, chld_list, pending, asked>>

ForkFails ==
  /\ pc = "fork" /\ pc' = "kill" /\ j' = 0
  /\ UNCHANGED <<numChildren, masked, i, chld_list, pending, child, asked>>

Store ==
  /\ pc = "store" /\ pc' = "next" /\ chld_list' = chld_list \cup {i}
  /\ UNCHANGED <<numChildren, masked, i, j, pending, child, asked>>

Count ==
  /\ pc = "next" /\ i' = i + 1 /\ pc' = NextIteration(i')
  /\ UNCHANGED <<numChildren, masked, j, chld_list, pending, child, asked>>

(* prnt_sig_hndlr starts cleanup wherever the parent is, the cleanup after a*)
(* failed fork included.  Before sigaction the signal is fatal.             *)
Deliver ==
  /\ Parent \in pending /\ ~masked /\ pc \notin {"exited", "fatal"}
  /\ pending' = pending \ {Parent}
  /\ IF pc = "sigaction" THEN pc' = "fatal" /\ UNCHANGED <<masked, j>>
                         ELSE pc' = "kill" /\ masked' = TRUE /\ j' = 0
  /\ UNCHANGED <<numChildren, i, chld_list, child, asked>>

(* A slip: the first entry is left out.                                     *)
CleanupKillFromOne ==
  /\ pc = "kill"
  /\ IF j + 1 < i THEN Kill(j + 1) /\ j' = j + 1 /\ UNCHANGED pc
                  ELSE pc' = "reap" /\ UNCHANGED <<j, pending>>
  /\ UNCHANGED <<numChildren, masked, i, chld_list, child, asked>>

CleanupKill ==
  /\ pc = "kill"
  /\ IF j < i THEN Kill(j) /\ j' = j + 1 /\ UNCHANGED pc
              ELSE pc' = "reap" /\ UNCHANGED <<j, pending>>
  /\ UNCHANGED <<numChildren, masked, i, chld_list, child, asked>>

(* waitpid with WNOHANG: a child's id, 0 while children run, -1 if none is  *)
(* left.  The loops, in main and in cleanup, spin until it is -1.           *)
Reap ==
  /\ pc \in {"wait", "reap"}
  /\ \E c \in Children : child[c].pc = "zombie" /\ child' = [child EXCEPT ![c].pc = "reaped"]
  /\ UNCHANGED <<parentVars, pending, asked>>

(* A slip: the loop also ends when waitpid returns 0.                       *)
NoneToReap ==
  /\ pc \in {"wait", "reap"} /\ \A c \in Children : child[c].pc # "zombie"
  /\ pc' = "exited"
  /\ UNCHANGED <<numChildren, masked, i, j, chld_list, pending, child, asked>>

NoneLeft ==
  /\ pc \in {"wait", "reap"} /\ \A c \in Children : child[c].pc \in {"none", "reaped"}
  /\ pc' = "exited"
  /\ UNCHANGED <<numChildren, masked, i, j, chld_list, pending, child, asked>>

-----------------------------------------------------------------------------
(* The children *)

ChildSigAction(c) ==
  /\ child[c].pc = "born" /\ child' = [child EXCEPT ![c].pc = "loop"]
  /\ UNCHANGED <<parentVars, pending, asked>>

(* A slip: a signal that comes too early is thrown away.                    *)
ChildDeliverEarlyLost(c) ==
  /\ c \in pending /\ child[c].pc \in {"born", "loop"}
  /\ pending' = pending \ {c}
  /\ child' = IF child[c].pc = "born" THEN child ELSE [child EXCEPT ![c].pc = "woken"]
  /\ UNCHANGED <<parentVars, asked>>

(* A child without a handler of its own runs its parent's, cleanup.         *)
ChildDeliver(c) ==
  /\ c \in pending /\ child[c].pc \in {"born", "loop"}
  /\ pending' = pending \ {c}
  /\ child' = [child EXCEPT ![c].pc = IF @ = "born" THEN "kill" ELSE "woken"]
  /\ UNCHANGED <<parentVars, asked>>

(* cleanup in a child: it signals the siblings in its copy of the list, has *)
(* no children to wait for and exits.                                       *)
ChildCleanup(c) ==
  /\ child[c].pc = "kill"
  /\ IF child[c].j < child[c].i
     THEN Kill(child[c].j) /\ child' = [child EXCEPT ![c].j = @ + 1]
     ELSE child' = [child EXCEPT ![c].pc = "zombie"] /\ UNCHANGED pending
  /\ UNCHANGED <<parentVars, asked>>

(* The loop on usr1Happened ends.                                           *)
ChildExit(c) ==
  /\ child[c].pc = "woken" /\ child' = [child EXCEPT ![c].pc = "zombie"]
  /\ UNCHANGED <<parentVars, pending, asked>>

(* kill -s SIGUSR1 of the user.                                             *)
User(p) ==
  /\ IF p = Parent THEN pc \notin {"exited", "fatal"} ELSE Runs(p)
  /\ pending' = pending \cup {p} /\ asked' = asked \cup {p}
  /\ UNCHANGED <<parentVars, child>>

-----------------------------------------------------------------------------
Init ==
  /\ numChildren \in Numbers
  /\ pc = "sigaction" /\ masked = FALSE /\ i = 0 /\ j = 0
  /\ chld_list = {} /\ pending = {} /\ asked = {}
  /\ child = [c \in Children |-> Unborn]

ParentStep ==
  \/ SigAction \/ Fork \/ ForkFails \/ Store \/ Count
  \/ Deliver \/ CleanupKill \/ Reap \/ NoneLeft

ChildStep(c) == ChildSigAction(c) \/ ChildDeliver(c) \/ ChildCleanup(c) \/ ChildExit(c)

Next ==
  \/ ParentStep
  \/ \E c \in Children : ChildStep(c)
  \/ \E p \in Children \cup {Parent} : User(p)

Spec == Init /\ [][Next]_vars

(* Every process is scheduled; the user need not signal anyone.             *)
FairSpec == Spec /\ WF_vars(ParentStep) /\ \A c \in Children : WF_vars(ChildStep(c))

-----------------------------------------------------------------------------
TypeOK ==
  /\ numChildren \in Numbers
  /\ pc \in {"sigaction", "fork", "store", "next", "wait", "kill", "reap", "exited", "fatal"}
  /\ masked \in BOOLEAN /\ i \in 0..MaxChildren /\ j \in 0..MaxChildren
  /\ chld_list \in SUBSET Children
  /\ pending \in SUBSET (Children \cup {Parent}) /\ asked \in SUBSET (Children \cup {Parent})
  /\ child \in [Children ->
       [pc : {"none", "born", "kill", "loop", "woken", "zombie", "reaped"},
        i : 0..MaxChildren, j : 0..MaxChildren, list : SUBSET Children]]

(* cleanup, wherever the signal found main and in whichever process it runs,*)
(* signals only entries of chld_list that were written, never an            *)
(* uninitialised one: i is not ahead of the list, nor a child's copies.     *)
KillsOnlyChildren ==
  /\ pc = "kill" /\ j < i => j \in chld_list
  /\ \A c \in Children : child[c].pc = "kill" /\ child[c].j < child[c].i
                           => child[c].j \in child[c].list

(* When the parent is gone, no child is running or a zombie: "No zombie     *)
(* processes remain" (README.txt), whoever was signalled when.              *)
NoOrphans == pc \in {"exited", "fatal"} =>
               \A c \in Children : child[c].pc \in {"none", "reaped"}

(* A signal to every child ends them all, and then the parent, however      *)
(* early it comes and whether the parent is signalled as well.              *)
GroupEnds ==
  (numChildren > 0 /\ \A c \in 0..(numChildren - 1) : c \in asked) ~> pc = "exited"

(* A cleanup that finds every child in its list ends: its signals reach     *)
(* children before and after their sigaction, beside those of the user and  *)
(* of the siblings.                                                         *)
CleanupEnds ==
  (pc = "kill" /\ \A c \in Children : Created(c) => c < i) ~> pc = "exited"

(* A signal to the parent terminates the remaining children and the parent, *)
(* as the comments in cleanup say.  Fails between fork and i++.             *)
ParentEnds == pc = "kill" ~> pc = "exited"

(* A child ends because it was signalled, or its parent was, or a fork      *)
(* failed.  Fails when a sibling ran the parent's handler.                  *)
OnlySignalledEnd ==
  \A c \in Children : Created(c) /\ ~Runs(c) /\ Parent \notin asked /\ pc \notin {"kill", "reap", "exited"}
                        => c \in asked
=============================================================================
