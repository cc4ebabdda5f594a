--------------------------- MODULE MCControlPlane ---------------------------
(* Instances of ControlPlane for TLC. *)
EXTENDS ControlPlane, TLC

CONSTANTS w1, w2, h1

TwoWorkers == {w1, w2}
OneHandler == {h1}

(* One worker serves a second model. *)
MCModelsOf == w1 :> <<"llama">> @@ w2 :> <<"llama", "phi">>
Lists == {MCModelsOf[w] : w \in Workers}
=============================================================================
