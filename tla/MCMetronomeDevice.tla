-------------------------- MODULE MCMetronomeDevice --------------------------
(* A short and a long status, so that a set leaves readers before, at and    *)
(* behind the end, and reads that do and do not divide them.                 *)
EXTENDS MetronomeDevice

MCSettings == {[id |-> "slow", len |-> 3], [id |-> "fast", len |-> 5]}
MCHelp     == [id |-> "usage", len |-> 4]
MCReaders  == {"r1", "r2"}
MCSizes    == {2, 3}
MCOffsets  == {0, 4, 7}
=============================================================================
