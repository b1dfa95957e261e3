-------------------------- MODULE MCParentSelection ---------------------------
(* A small instance of ParentSelection for TLC. *)
EXTENDS ParentSelection, TLC

CONSTANTS n1, n2, n3

MCNbr == {n1, n2, n3}

At(rank, etx, better) == [rank |-> rank, etx |-> etx, better |-> better]

(* Costs of which one is just outside the hysteresis of another (256 and      *)
(* 448), just inside (447), or close by (384), better for a long time or not;  *)
(* the highest cost and the highest metric that are acceptable; a link that is *)
(* unusable; a neighbour without a rank, whose cost would wrap.               *)
MCEntry ==
  { At(128, 128, "no"), At(128, 128, "long"), At(256, 128, "recently"),
    At(319, 128, "no"), At(319, 128, "long"), At(320, 128, "recently"),
    At(128, 512, "no"), At(128, 513, "long"), At(32640, 128, "no"),
    At(65535, 512, "long") }

Symmetry == Permutations(MCNbr)
===============================================================================
