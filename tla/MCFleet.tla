------------------------------ MODULE MCFleet -------------------------------
(* Instances of Fleet for TLC. *)
EXTENDS Fleet

CONSTANTS w1, t1, t2

OneWorker == {w1}
TwoTimers == {t1, t2}
Models == {<<"llama">>}
=============================================================================
