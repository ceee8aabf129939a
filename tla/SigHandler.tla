------------------------------ MODULE SigHandler ------------------------------
(***************************************************************************)
(* lab3/partA_sighandler: a program that loops until SIGUSR1 has set a flag.*)
(* Several copies of it run, as on a lab machine, and a user signals any of *)
(* them once it has printed its pid.  SA_SIGINFO queues signals.            *)
(***************************************************************************)
EXTENDS Integers

CONSTANTS
  Procs,        (* the running copies                                       *)
  MaxSignals    (* bound: signals waiting for one of them                   *)

VARIABLES
  pc,             (* where main is                                          *)
  usr1Happened,
  pending         (* how many SIGUSR1 wait to be delivered                  *)

vars == <<pc, usr1Happened, pending>>

-----------------------------------------------------------------------------
At(p, from, to) == pc[p] = from /\ pc' = [pc EXCEPT ![p] = to]

(* The pid is on the screen before the handler is attached.                 *)
PrintPid(p)  == At(p, "start", "running") /\ UNCHANGED <<usr1Happened, pending>>
SigAction(p) == At(p, "running", "loop") /\ UNCHANGED <<usr1Happened, pending>>

Loop(p) ==
  /\ usr1Happened[p] /\ At(p, "loop", "received")
  /\ UNCHANGED <<usr1Happened, pending>>

Exit(p) == At(p, "received", "exited") /\ UNCHANGED <<usr1Happened, pending>>

(* Until sigaction has attached the handler SIGUSR1 is fatal.               *)
sig_hndlr(p) ==
  /\ pending[p] > 0 /\ pc[p] \notin {"exited", "fatal"}
  /\ pending' = [pending EXCEPT ![p] = @ - 1]
  /\ IF pc[p] = "running"
     THEN pc' = [pc EXCEPT ![p] = "fatal"] /\ UNCHANGED usr1Happened
     ELSE usr1Happened' = [usr1Happened EXCEPT ![p] = TRUE] /\ UNCHANGED pc

(* The user signals the pid that was printed.                               *)
User(p) ==
  /\ pc[p] \notin {"start", "exited", "fatal"} /\ pending[p] < MaxSignals
  /\ pending' = [pending EXCEPT ![p] = @ + 1] /\ UNCHANGED <<pc, usr1Happened>>

Init ==
  /\ pc = [p \in Procs |-> "start"]
  /\ usr1Happened = [p \in Procs |-> FALSE] /\ pending = [p \in Procs |-> 0]

Main(p) == PrintPid(p) \/ SigAction(p) \/ Loop(p) \/ Exit(p)

Next == \E p \in Procs : Main(p) \/ sig_hndlr(p) \/ User(p)

Spec == Init /\ [][Next]_vars

-----------------------------------------------------------------------------
(* A signal sent to a pid that was printed invokes the handler and the      *)
(* program exits by itself.  Fails before sigaction.                        *)
SignalCaught == \A p \in Procs : pc[p] # "fatal"
=============================================================================
