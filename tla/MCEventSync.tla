---------------------------- MODULE MCEventSync -----------------------------
(* Instances of EventSync for TLC: which events there are, how their content *)
(* is treated and who submits them.                                          *)
EXTENDS EventSync, TLC

CONSTANTS e1, e2, a1, a2

\* One event of each successful route.
RoutesValid == [e \in Event |-> IF e = e1 THEN "explicit" ELSE "review"]

\* One valid event and one that the gateway refuses.
RoutesInvalid == [e \in Event |-> IF e = e1 THEN "explicit" ELSE "invalid"]

\* One valid event and one that the worker gives up.
RoutesUnsafe == [e \in Event |-> IF e = e1 THEN "review" ELSE "unsafe"]

\* No event has provenance; all events come from one agent, or each from its own.
SourceNone == [e \in Event |-> NoSource]
OneAuthor == [e \in Event |-> a1]
TwoAuthors == [e \in Event |-> IF e = e1 THEN a1 ELSE a2]

\* The slots of the gateway are alike.
SymmetricSlots == Permutations(Slot)
=============================================================================
