----------------------------- MODULE LaneQueue ------------------------------
(***************************************************************************)
(* What the request queue promises its users, the gateway (TryPush) and    *)
(* the dispatcher goroutines (Pop): three bounded FIFO lanes; every        *)
(* accepted request is handed to one popper, in lane order; a popper holds *)
(* one request at a time.  Which lane a Pop serves is left open: concurrent*)
(* Pops of RequestQueue do not keep the priority order at every moment     *)
(* (NoOvertakeOfEarlier there says what they keep), and RequestPlane and   *)
(* Admission do not rely on it.                                            *)
(***************************************************************************)
EXTENDS Integers, Sequences

CONSTANTS Requests, Poppers, PriorityOf, Capacity, None

Priorities == {"high", "normal", "low"}

ASSUME PriorityAssumption == PriorityOf \in [Requests -> Priorities]
ASSUME CapacityAssumption == Capacity \in Nat
ASSUME NoneAssumption == None \notin Requests

VARIABLES
    lanes,      \* priority -> the requests in its channel
    got         \* popper -> the request Pop returned to it last

queueVars == <<lanes, got>>

QueueInit ==
    /\ lanes = [l \in Priorities |-> <<>>]
    /\ got = [p \in Poppers |-> None]

Waiting(r) == \E i \in DOMAIN lanes[PriorityOf[r]] : lanes[PriorityOf[r]][i] = r

Held(r) == \E p \in Poppers : got[p] = r

(* Mutant of Full: one request too many.                                   *)
FullLate(l) == Len(lanes[l]) > Capacity

Full(l) == Len(lanes[l]) >= Capacity

AllEmpty == \A l \in Priorities : lanes[l] = <<>>

(* TryPush into the lane's buffer.                                         *)
Accept(r) ==
    /\ ~Waiting(r) /\ ~Held(r)
    /\ ~Full(PriorityOf[r])
    /\ lanes' = [lanes EXCEPT ![PriorityOf[r]] = Append(@, r)]
    /\ UNCHANGED got

(* TryPush straight to a popper that waits at empty lanes.                 *)
HandOver(r, p) ==
    /\ ~Waiting(r) /\ ~Held(r)
    /\ got[p] = None
    /\ AllEmpty
    /\ got' = [got EXCEPT ![p] = r]
    /\ UNCHANGED lanes

(* Pop returns the oldest request of a lane.                               *)
Take(p, l) ==
    /\ got[p] = None
    /\ lanes[l] # <<>>
    /\ got' = [got EXCEPT ![p] = Head(lanes[l])]
    /\ lanes' = [lanes EXCEPT ![l] = Tail(@)]

(* The popper is done with its request and calls Pop again.                *)
Release(p) ==
    /\ got[p] # None
    /\ got' = [got EXCEPT ![p] = None]
    /\ UNCHANGED lanes

QueueNext ==
    \/ \E r \in Requests : Accept(r)
    \/ \E r \in Requests, p \in Poppers : HandOver(r, p)
    \/ \E p \in Poppers, l \in Priorities : Take(p, l)
    \/ \E p \in Poppers : Release(p)

QueueSpec == QueueInit /\ [][QueueNext]_queueVars
=============================================================================
