----------------------------- MODULE MCRegistry -----------------------------
(* Instances of Registry for TLC. *)
EXTENDS Registry, TLC

CONSTANTS w1, t1, t2

OneId == {w1}
TwoTimers == {t1, t2}
Models == {<<"llama">>}
=============================================================================
