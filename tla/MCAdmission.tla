---------------------------- MODULE MCAdmission -----------------------------
(* Instances of Admission for TLC. *)
EXTENDS Admission, TLC

CONSTANTS p1, h1, n1, n2, metered, open

OnePopper == {p1}
ThreeRequests == {h1, n1, n2}
MCPriorityOf == [r \in Requests |-> IF r = h1 THEN "high" ELSE "normal"]

(* One key with a budget, one without. *)
TwoKeys == {metered, open}
MCKeyOf == [r \in Requests |-> IF r # h1 THEN metered ELSE open]
MCRequestsPerMin == metered :> 1 @@ open :> 0

(* High and normal have thresholds, low has none. *)
MCMaxWait == "high" :> 0 @@ "normal" :> 2
=============================================================================
