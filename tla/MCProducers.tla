---------------------------- MODULE MCProducers -----------------------------
(* Instances of Producers for TLC: a batch of two records, shares of which  *)
(* two have the same text, one of them as an imported record, and a local   *)
(* record that goes to review.                                              *)
EXTENDS Producers

CONSTANTS s1, s2, l1

RouteOf == [r \in Record |-> CASE r \in {2, l1} -> "review" [] r \in {3, s2} -> "unsafe" [] OTHER -> "explicit"]
TextOf == [r \in Record |-> IF r \in {1, s1} THEN "a" ELSE "b"]
Mixes == {{1, 2}, {1, 3}, {1, s1}, {s1, s2}, {l1, s1}}
=============================================================================
