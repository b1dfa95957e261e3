---------------------------- MODULE MCFaultLocation ---------------------------
(* A small instance of FaultLocation for TLC. *)
EXTENDS FaultLocation

CONSTANTS n1, n2, n3

MCNode == {n1, n2, n3}

(* Two routes that share their upstream node and one that a cycle made visit *)
(* a node twice.                                                             *)
MCAvoidRoute == {<<n1, n2>>, <<n3, n2>>, <<n1, n3, n1>>}
===============================================================================
