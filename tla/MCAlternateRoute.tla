--------------------------- MODULE MCAlternateRoute ---------------------------
(* A small instance of AlternateRoute for TLC. *)
EXTENDS AlternateRoute, TLC

CONSTANTS n1, n2, n3, n4

MCNode == {n1, n2, n3, n4}

(* n1 hears its parent n2 only; n4 gives n2 a way round n3. *)
MCLink ==
  n1 :> {n2} @@ n2 :> {n1, n3, n4} @@ n3 :> {n2, n4, Root} @@ n4 :> {n2, n3, Root}

(* Routes that lead through n3, which itself hears the root. *)
MCValidated ==
  n1 :> {<<n2, n3>>} @@ n2 :> {<<n3>>} @@ n3 :> {<<>>} @@ n4 :> {<<n3>>}
===============================================================================
