----------------------------- MODULE MCGateway -----------------------------
(* Instance of Gateway for TLC: request threads as model values.           *)
EXTENDS Gateway, TLC

CONSTANTS q1, q2, q3

Requests == {q1, q2, q3}
Addresses == {1, 2}
Mixes == {(q1 :> "auth" @@ q2 :> "auth"),
          (q1 :> "review" @@ q2 :> "review" @@ q3 :> "query"),
          (q1 :> "plain" @@ q2 :> "review" @@ q3 :> "probe")}
=============================================================================
