------------------------------ MODULE MCRouter ------------------------------
(* Instances of Router for TLC. *)
EXTENDS Router, TLC

CONSTANTS w1, w2, w3, h1, h2, h3

TwoWorkers == {w1, w2}
ThreeWorkers == {w1, w2, w3}
TwoHandlers == {h1, h2}
ThreeHandlers == {h1, h2, h3}

(* One worker in the cloud, the others local. *)
MCCost == [w \in Workers |-> IF w = w3 THEN 1 ELSE 0]

(* Keep is SelectSeq.                                                      *)
ASSUME KeepIsSelectSeq ==
    \A s \in SeqOf(Workers, 3), S \in SUBSET Workers :
        Keep(s, {i \in DOMAIN s : s[i] \in S}) = SelectSeq(s, LAMBDA w : w \in S)

HandlerSymmetry == Permutations(Handlers)
=============================================================================
