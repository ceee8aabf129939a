---------------------------- MODULE MCCalcServer ----------------------------
(* Integers of five bits: INT_MAX has two digits, so that, as in C, a        *)
(* negative number may have as many and then is a character too long.        *)
EXTENDS CalcServer, TLC

Width(n) == (IF n < 0 THEN 1 ELSE 0) + (IF n \in -9..9 THEN 1 ELSE 2)
Text(n)  == [val |-> n, chars |-> Width(n)]

(* With INT_MAX = 3: its limit INT_MIN, and a number beyond the other.       *)
MCLimits      == {Text(n) : n \in {-4, 4}}

MCBoundary    == {Text(n) : n \in {-10, -9, 11, 12}}
MCOneOperand  == {Text(9)}
MCAllOperators == {"+", "-", "x", "/", "%"}
MCTwoOperators == {"/", "%"}
MCThreeOperators == {"x", "/", "%"}
MCOneServer == {"s1"}
MCOneClient == {"c1"}
MCClients   == {"c1", "c2"}
MCSymmetry  == Permutations(Servers) \cup Permutations(Clients)
=============================================================================
