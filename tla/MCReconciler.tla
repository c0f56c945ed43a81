---------------------------- MODULE MCReconciler ----------------------------
(* Instances of Reconciler for TLC: two events of one source, and events of  *)
(* every route.                                                              *)
EXTENDS Reconciler

CONSTANTS e1, e2, e3, p1

\* e1 and e2 carry the same provenance; e3 has none.
TwoShareSource == [e \in Event |-> IF e \in {e1, e2} THEN p1 ELSE NoSource]

RoutesMixed == [e \in Event |-> IF e = e1 THEN "explicit" ELSE IF e = e2 THEN "review" ELSE "corrupt"]
=============================================================================
