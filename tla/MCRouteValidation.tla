--------------------------- MODULE MCRouteValidation --------------------------
(* A small instance of RouteValidation for TLC. *)
EXTENDS RouteValidation, TLC

CONSTANTS n1, n2, n3

MCNode == {n1, n2, n3}

MCSymmetry == Permutations(MCNode)
===============================================================================
