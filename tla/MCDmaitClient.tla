---------------------------- MODULE MCDmaitClient -----------------------------
(* Small instances of DmaitClient for TLC. *)
EXTENDS DmaitClient, TLC

CONSTANTS p1, p2, r

(* Two candidate parents below the root: each reaches the root directly, or  *)
(* p1 through p2.                                                            *)
TwoParents == {p1, p2, r}
TwoParentRoutes == {<<>>, <<p1>>, <<p2>>, <<p1, p2>>}

(* One candidate besides the root. *)
OneParent == {p1, r}
OneParentRoutes == {<<>>, <<p1>>}
===============================================================================
