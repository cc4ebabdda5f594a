--------------------------- MODULE MCRequestQueue ---------------------------
(* Instances of RequestQueue for TLC. *)
EXTENDS RequestQueue, TLC

CONSTANTS p1, p2, h1, n1, n2, n3, l1

TwoPoppers == {p1, p2}

(* One lane can overflow. *)
FiveRequests == {h1, n1, n2, n3, l1}

Lane == h1 :> "high" @@ n1 :> "normal" @@ n2 :> "normal" @@ n3 :> "normal" @@ l1 :> "low"
MCPriorityOf == [r \in Requests |-> Lane[r]]
=============================================================================
