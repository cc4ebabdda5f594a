---------------------------- MODULE RequestQueue ----------------------------
(***************************************************************************)
(* request-plane/queue/queue.go as it runs: each lane is a buffered Go     *)
(* channel; Pop polls the lanes one after the other and then blocks in a   *)
(* select over all of them.  Every channel operation is atomic, Pop as a   *)
(* whole is not: pushes and other Pops happen between its polls.           *)
(*                                                                         *)
(* A request that its popper has finished with may be pushed again: it     *)
(* stands for a new request of the same priority, so load never ends.      *)
(***************************************************************************)
EXTENDS LaneQueue

VARIABLES
    pc,         \* popper -> the lane it polls next, or where else it is
    cancelled,  \* ctx.Done() is closed
    ahead       \* popper -> requests that have waited since its Pop began

popVars == <<pc, cancelled, ahead>>
allVars == <<queueVars, popVars>>

(* Mutant of popOrder: low is polled before normal.                        *)
popOrderSwapped(l) == CASE l = "high" -> "low"
                        [] l = "low" -> "normal"
                        [] l = "normal" -> "select"

(* popOrder: the lane polled after l, and the select after the last one.   *)
popOrder(l) == CASE l = "high" -> "normal"
                 [] l = "normal" -> "low"
                 [] l = "low" -> "select"

PopperPlaces == Priorities \cup {"busy", "select", "parked", "stopped"}

Init ==
    /\ QueueInit
    /\ pc = [p \in Poppers |-> "busy"]
    /\ cancelled = FALSE
    /\ ahead = [p \in Poppers |-> {}]

(* Mutant of FirstLane: the high lane is not polled first.                 *)
FirstLaneNormal == "normal"

FirstLane == "high"

(* workerLoop calls Pop.                                                   *)
Pop(p) ==
    /\ pc[p] = "busy"
    /\ pc' = [pc EXCEPT ![p] = FirstLane]
    /\ got' = [got EXCEPT ![p] = None]
    /\ ahead' = [ahead EXCEPT ![p] = {r \in Requests : Waiting(r)}]
    /\ UNCHANGED <<lanes, cancelled>>

(* Receiving the head of lane l ends the Pop.                              *)
Receive(p, l) ==
    /\ Take(p, l)
    /\ pc' = [pc EXCEPT ![p] = "busy"]
    /\ ahead' = [q \in Poppers |-> ahead[q] \ {Head(lanes[l])}]
    /\ UNCHANGED cancelled

(* One iteration of tryPopHighestPriority.                                 *)
Poll(p) ==
    /\ pc[p] \in Priorities
    /\ IF lanes[pc[p]] # <<>>
       THEN Receive(p, pc[p])
       ELSE /\ pc' = [pc EXCEPT ![p] = popOrder(pc[p])]
            /\ UNCHANGED <<queueVars, cancelled, ahead>>

(* The blocking select with a lane ready: Go picks any ready case.         *)
SelectReady(p) ==
    /\ pc[p] = "select"
    /\ \E l \in Priorities : Receive(p, l)

(* Mutant of Park: the select has no case for the low lane.                *)
ParkBesideLow(p) ==
    /\ pc[p] = "select"
    /\ lanes["high"] = <<>> /\ lanes["normal"] = <<>>
    /\ ~cancelled
    /\ pc' = [pc EXCEPT ![p] = "parked"]
    /\ UNCHANGED <<queueVars, cancelled, ahead>>

(* The select with nothing ready: the goroutine is parked on all lanes.    *)
Park(p) ==
    /\ pc[p] = "select"
    /\ AllEmpty
    /\ ~cancelled
    /\ pc' = [pc EXCEPT ![p] = "parked"]
    /\ UNCHANGED <<queueVars, cancelled, ahead>>

(* The select's ctx.Done() case.                                           *)
Stop(p) ==
    /\ cancelled
    /\ pc[p] \in {"select", "parked"}
    /\ pc' = [pc EXCEPT ![p] = "stopped"]
    /\ UNCHANGED <<queueVars, cancelled, ahead>>

Parked == {p \in Poppers : pc[p] = "parked"}

(* TryPush: a channel send goes to a parked receiver if there is one, else *)
(* into the buffer.  A full lane makes it return false and changes nothing.*)
TryPush(r) ==
    \/ /\ Parked = {}
       /\ Accept(r)
       /\ UNCHANGED popVars
    \/ \E p \in Parked :
          /\ ~Waiting(r) /\ ~Held(r)
          /\ got' = [got EXCEPT ![p] = r]
          /\ pc' = [pc EXCEPT ![p] = "busy"]
          /\ UNCHANGED <<lanes, cancelled, ahead>>

Cancel ==
    /\ ~cancelled
    /\ cancelled' = TRUE
    /\ UNCHANGED <<queueVars, pc, ahead>>

Next ==
    \/ \E p \in Poppers : Pop(p)
    \/ \E p \in Poppers : Poll(p)
    \/ \E p \in Poppers : SelectReady(p)
    \/ \E p \in Poppers : Park(p)
    \/ \E p \in Poppers : Stop(p)
    \/ \E r \in Requests : TryPush(r)
    \/ Cancel

Spec == Init /\ [][Next]_allVars

(* A goroutine that can run does, and every dispatch ends.  Nobody is      *)
(* obliged to push or to shut down.                                        *)
FairSpec ==
    /\ Spec
    /\ \A p \in Poppers :
          WF_allVars(Pop(p) \/ Poll(p) \/ SelectReady(p) \/ Park(p) \/ Stop(p))

-----------------------------------------------------------------------------
(* Types; no lane outgrows its channel, and a popper inside Pop holds      *)
(* nothing.                                                                *)
TypeOK ==
    /\ lanes \in [Priorities -> Seq(Requests)]
    /\ \A l \in Priorities : Len(lanes[l]) <= Capacity
    /\ got \in [Poppers -> Requests \cup {None}]
    /\ pc \in [Poppers -> PopperPlaces]
    /\ \A p \in Poppers : pc[p] # "busy" => got[p] = None
    /\ cancelled \in BOOLEAN
    /\ ahead \in [Poppers -> SUBSET Requests]

Rank(l) == CASE l = "high" -> 1 [] l = "normal" -> 2 [] l = "low" -> 3

(* Popper p's Pop returns in this step.                                    *)
Returns(p) == pc[p] # "busy" /\ pc'[p] = "busy"

(* What Pop keeps of the priority order under concurrency (queue.go:       *)
(* 128-161): it does not return a request while one of a higher priority   *)
(* has been waiting since before this Pop began.  One pushed while the Pop *)
(* is past its lane may be overtaken.                                      *)
NoOvertakeOfEarlier ==
    [][\A p \in Poppers : Returns(p) =>
          \A r \in ahead'[p] :
              Rank(PriorityOf[r]) >= Rank(PriorityOf[got'[p]])]_allVars

(* The polling Pop and the channel sends implement the abstract queue: no  *)
(* request is lost, duplicated or reordered within its lane, and a request *)
(* goes straight to a parked popper only when nothing waits anywhere.      *)
ImplementsLaneQueue == QueueSpec

(* A waiting high-priority request is popped even if load of every         *)
(* priority never ends, until the dispatcher is shut down.                 *)
HighIsServed ==
    \A r \in Requests :
        PriorityOf[r] = "high" /\ Waiting(r) ~> ~Waiting(r) \/ cancelled
=============================================================================
