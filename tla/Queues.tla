-------------------------------- MODULE Queues --------------------------------
(***************************************************************************)
(* What waits on a QNX channel: messages of equal priority and pulses, in   *)
(* the order they came.  A client is blocked while its message waits, so it *)
(* is there once at most, and leaves when the client is killed.             *)
(***************************************************************************)
EXTENDS Integers, Sequences

In(q, x)   == \E i \in DOMAIN q : q[i] = x
Once(q, x) == \A i, j \in DOMAIN q : q[i] = x /\ q[j] = x => i = j

(* Where x is, behind all others if it is not in the queue.                 *)
Place(q, x) == IF In(q, x) THEN CHOOSE i \in DOMAIN q : q[i] = x ELSE Len(q) + 1

(* The queue without x, for the rest in order.                              *)
TakenBack(q, x) ==
  IF ~In(q, x) THEN q
  ELSE LET at == CHOOSE i \in DOMAIN q : q[i] = x
       IN [i \in 1..(Len(q) - 1) |-> IF i < at THEN q[i] ELSE q[i + 1]]
=============================================================================
