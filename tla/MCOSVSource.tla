---------------------------- MODULE MCOSVSource ----------------------------
(* Instances of OSVSource for TLC: the first of four packages is of an     *)
(* ecosystem OSV does not know, and two batches hold the other three.      *)
EXTENDS OSVSource

FourPackages == [q \in 1..4 |-> IF q = 1 THEN {} ELSE IF q = 3 THEN {"b"} ELSE {"a"}]
=============================================================================
