---------------------------- MODULE MCNegativeList ----------------------------
(* A small instance of NegativeList for TLC. *)
EXTENDS NegativeList, TLC

CONSTANTS n1, n2, n3

MCNode == {n1, n2, n3}

===============================================================================
