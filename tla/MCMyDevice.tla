------------------------------ MODULE MCMyDevice ------------------------------
(* Two words of different length and numbers at the ends of the range.       *)
EXTENDS MyDevice

MCWords   == {[word |-> "closed", len |-> 3], [word |-> "open", len |-> 2]}
MCNumbers == {0, 1, 99}
MCWriters == {"w1", "w2"}
MCSizes   == {2, 4}
=============================================================================
