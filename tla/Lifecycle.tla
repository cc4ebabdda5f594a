----------------------------- MODULE Lifecycle ------------------------------
(***************************************************************************)
(* What the registry, its abstraction and the router share: the worker     *)
(* ids, the life cycle of a worker (control-plane/registry/registry.go,    *)
(* proto/registry.proto), and Go maps as partial functions.                *)
(***************************************************************************)
EXTENDS Integers

CONSTANT Workers    \* worker ids

WorkerState == {"STARTING", "READY", "BUSY", "DRAINING", "DEAD"}

validTransition(from, to) ==
    \/ from = to
    \/ from = "STARTING" /\ to = "READY"
    \/ from = "READY"    /\ to \in {"BUSY", "DRAINING"}
    \/ from = "BUSY"     /\ to \in {"READY", "DRAINING"}

(* HealthyWorkersForModel's test of the state.                             *)
Healthy(e) == e.State \in {"READY", "BUSY"}

(* The map operations of the code.                                         *)
Put(f, k, v) == [x \in DOMAIN f \cup {k} |-> IF x = k THEN v ELSE f[x]]
Delete(f, k) == [x \in DOMAIN f \ {k} |-> f[x]]
Empty == [x \in {} |-> 0]

(* Ages stop growing at the limit they are compared with.                  *)
AtMost(n, limit) == IF n > limit THEN limit ELSE n
=============================================================================
