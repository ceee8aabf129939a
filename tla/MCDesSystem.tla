----------------------------- MODULE MCDesSystem -----------------------------
(* Crossings from left to left: enough to pass through every kind of handler *)
(* of the controller, which MCDesController checks for all commands.         *)
EXTENDS DesSystem

MCExtras == 0..1
MCTyped  == {"ls", "glu", "lo", "ws", "lc", "gll", "exit"}
MCScan   == {"ls", "glu", "exit"}
=============================================================================
