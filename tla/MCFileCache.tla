---------------------------- MODULE MCFileCache ----------------------------
(* Two goroutines of one process and one of another share a directory.     *)
EXTENDS FileCache

CONSTANTS g1, g2, g3, p1, p2

ThreeClients == {g1, g2, g3}
TwoProcs == [g \in ThreeClients |-> IF g = g3 THEN p2 ELSE p1]
=============================================================================
