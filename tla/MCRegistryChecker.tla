------------------------- MODULE MCRegistryChecker -------------------------
(* Instances of RegistryChecker: two runs that share a checker and a name. *)
EXTENDS RegistryChecker

CONSTANTS c1, c2, reqests, flask

TwoNamesAndOne == [c \in Callers |-> IF c = c1 THEN <<reqests, flask>> ELSE <<reqests>>]
=============================================================================
