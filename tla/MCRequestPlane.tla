--------------------------- MODULE MCRequestPlane ---------------------------
(* Instances of RequestPlane for TLC. *)
EXTENDS RequestPlane, TLC

CONSTANTS d1, d2, a, s

TwoDispatchers == {d1, d2}
OneDispatcher == {d1}

(* A buffered request and a stream, in the same lane. *)
OneOfEach == {a, s}
MCPriorityOf == [r \in Requests |-> "normal"]
=============================================================================
