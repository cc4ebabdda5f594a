------------------------- MODULE RequestQueueProofs -------------------------
(***************************************************************************)
(* Proofs about RequestQueue, for any number of requests and poppers and   *)
(* any capacity: types, and what concurrent Pops keep of the priority      *)
(* order.                                                                  *)
(***************************************************************************)
EXTENDS RequestQueue, TLAPS

(* A lane holds requests of its own priority.                              *)
LanesSorted ==
    \A l \in Priorities : \A i \in DOMAIN lanes[l] : PriorityOf[lanes[l][i]] = l

(* The ghost: what waited when a Pop began and was not taken still waits.  *)
AheadWaits == \A p \in Poppers : \A r \in ahead[p] : Waiting(r)

(* Nothing that waited since a Pop began is in a lane this Pop has found   *)
(* empty.                                                                  *)
PolledIsEmpty ==
    \A p \in Poppers : \A r \in ahead[p] :
        /\ pc[p] = "normal" => PriorityOf[r] # "high"
        /\ pc[p] = "low" => PriorityOf[r] = "low"
        /\ pc[p] \notin {"select", "parked", "stopped"}

QueueInv == TypeOK /\ LanesSorted /\ AheadWaits /\ PolledIsEmpty

-----------------------------------------------------------------------------
(* Taking the head of a channel leaves the rest in order.                  *)
LEMMA TailFacts ==
    ASSUME NEW s \in Seq(Requests), s # <<>>
    PROVE  /\ Head(s) = s[1] /\ Head(s) \in Requests
           /\ 1 \in DOMAIN s
           /\ Tail(s) \in Seq(Requests)
           /\ Len(Tail(s)) = Len(s) - 1
           /\ \A i \in DOMAIN s : i # 1 => i - 1 \in DOMAIN Tail(s)
                                          /\ Tail(s)[i - 1] = s[i]
           /\ \A i \in DOMAIN Tail(s) : i + 1 \in DOMAIN s
                                         /\ Tail(s)[i] = s[i + 1]
  OBVIOUS

(* Sending to a channel adds at its end.                                   *)
LEMMA AppendFacts ==
    ASSUME NEW s \in Seq(Requests), NEW r \in Requests
    PROVE  /\ Append(s, r) \in Seq(Requests)
           /\ Len(Append(s, r)) = Len(s) + 1
           /\ \A i \in DOMAIN s : i \in DOMAIN Append(s, r)
                                   /\ Append(s, r)[i] = s[i]
           /\ \A i \in DOMAIN Append(s, r) :
                 Append(s, r)[i] = r \/ (i \in DOMAIN s /\ Append(s, r)[i] = s[i])
  OBVIOUS

(* The queue starts empty, with no Pop in progress.                        *)
LEMMA InitInv == Init => QueueInv
<1> SUFFICES ASSUME Init PROVE QueueInv
  OBVIOUS
<1>1. /\ lanes = [l \in Priorities |-> <<>>] /\ got = [p \in Poppers |-> None]
      /\ pc = [p \in Poppers |-> "busy"] /\ cancelled = FALSE
      /\ ahead = [p \in Poppers |-> {}]
  BY DEF Init, QueueInit
<1>2. <<>> \in Seq(Requests) /\ Len(<<>>) <= Capacity /\ DOMAIN <<>> = {}
  BY CapacityAssumption
<1>3. lanes \in [Priorities -> Seq(Requests)]
  BY <1>1, <1>2
<1>4. \A l \in Priorities : lanes[l] = <<>>
  BY <1>1
<1>5. \A l \in Priorities : Len(lanes[l]) <= Capacity
  BY <1>2, <1>4
<1>6. cancelled \in BOOLEAN
  BY <1>1
<1>7. TypeOK
  BY <1>1, <1>3, <1>5, <1>6 DEF TypeOK, PopperPlaces
<1>8. LanesSorted
  BY <1>2, <1>4 DEF LanesSorted
<1>9. AheadWaits /\ PolledIsEmpty
  BY <1>1 DEF AheadWaits, PolledIsEmpty
<1> QED
  BY <1>7, <1>8, <1>9 DEF QueueInv

(* Receiving from lane l, whoever does it, keeps types, lanes and ghosts.  *)
LEMMA ReceiveStep ==
    ASSUME QueueInv, NEW p \in Poppers, NEW l \in Priorities, Receive(p, l)
    PROVE  TypeOK' /\ LanesSorted' /\ AheadWaits'
<1> USE DEF QueueInv
<1> DEFINE s == lanes[l]
<1>1. /\ s \in Seq(Requests) /\ s # <<>> /\ Len(s) <= Capacity
      /\ lanes' = [lanes EXCEPT ![l] = Tail(s)]
      /\ got' = [got EXCEPT ![p] = Head(s)]
      /\ pc' = [pc EXCEPT ![p] = "busy"]
      /\ ahead' = [q \in Poppers |-> ahead[q] \ {Head(s)}]
      /\ cancelled' = cancelled
  BY DEF Receive, Take, TypeOK
<1>2. lanes'[l] = Tail(s) /\ \A k \in Priorities : k # l => lanes'[k] = lanes[k]
  BY <1>1 DEF TypeOK
<1>3. TypeOK'
  <2>1. lanes' \in [Priorities -> Seq(Requests)]
    BY <1>1, TailFacts DEF TypeOK
  <2>2. \A k \in Priorities : Len(lanes'[k]) <= Capacity
    <3>1. Len(Tail(s)) <= Capacity
      BY <1>1, TailFacts, CapacityAssumption
    <3> QED
      BY <1>2, <3>1 DEF TypeOK
  <2>3. Head(s) \in Requests
    BY <1>1, TailFacts
  <2> QED
    BY <1>1, <2>1, <2>2, <2>3 DEF TypeOK, PopperPlaces
<1>4. LanesSorted'
  <2>1. \A i \in DOMAIN Tail(s) : PriorityOf[Tail(s)[i]] = l
    BY <1>1, TailFacts DEF LanesSorted
  <2> QED
    BY <1>2, <2>1 DEF LanesSorted
<1>5. ASSUME NEW q \in Poppers, NEW r \in ahead'[q]
      PROVE  Waiting(r)'
  <2>1. r \in ahead[q] /\ r # Head(s) /\ r \in Requests
    BY <1>1, <1>5 DEF TypeOK
  <2>2. PICK i \in DOMAIN lanes[PriorityOf[r]] : lanes[PriorityOf[r]][i] = r
    BY <2>1 DEF AheadWaits, Waiting
  <2>3. PriorityOf[r] \in Priorities
    BY <2>1, PriorityAssumption
  <2>4. CASE PriorityOf[r] = l
    <3>1. i # 1
      BY <1>1, <2>1, <2>2, <2>4, TailFacts
    <3>2. i - 1 \in DOMAIN Tail(s) /\ Tail(s)[i - 1] = r
      BY <1>1, <2>2, <2>4, <3>1, TailFacts
    <3> QED
      BY <1>2, <2>4, <3>2 DEF Waiting
  <2>5. CASE PriorityOf[r] # l
    BY <1>2, <2>2, <2>3, <2>5 DEF Waiting
  <2> QED
    BY <2>4, <2>5
<1> QED
  BY <1>3, <1>4, <1>5 DEF AheadWaits

(* Every step keeps the invariant.                                         *)
LEMMA QueueStep == QueueInv /\ [Next]_allVars => QueueInv'
<1> SUFFICES ASSUME QueueInv, [Next]_allVars
             PROVE  QueueInv'
  OBVIOUS
<1> USE DEF QueueInv
<1>1. ASSUME NEW p \in Poppers, Pop(p)
      PROVE  QueueInv'
  <2>1. TypeOK'
    BY <1>1 DEF Pop, FirstLane, TypeOK, PopperPlaces, Priorities
  <2>2. LanesSorted' /\ AheadWaits'
    BY <1>1 DEF Pop, FirstLane, TypeOK, LanesSorted, AheadWaits, Waiting
  <2>3. PolledIsEmpty'
    BY <1>1 DEF Pop, FirstLane, TypeOK, PolledIsEmpty
  <2> QED
    BY <2>1, <2>2, <2>3
<1>2. ASSUME NEW p \in Poppers, NEW l \in Priorities, Receive(p, l)
      PROVE  QueueInv'
  <2>1. PolledIsEmpty'
    BY <1>2 DEF Receive, TypeOK, PolledIsEmpty
  <2> QED
    BY <1>2, <2>1, ReceiveStep
<1>3. ASSUME NEW p \in Poppers, pc[p] \in Priorities, lanes[pc[p]] = <<>>,
             pc' = [pc EXCEPT ![p] = popOrder(pc[p])],
             UNCHANGED <<queueVars, cancelled, ahead>>
      PROVE  QueueInv'
  <2>1. TypeOK'
    BY <1>3 DEF queueVars, TypeOK, PopperPlaces, popOrder, Priorities
  <2>2. LanesSorted' /\ AheadWaits'
    BY <1>3 DEF queueVars, LanesSorted, AheadWaits, Waiting
  <2>3. \A r \in ahead[p] : PriorityOf[r] # pc[p] /\ PriorityOf[r] \in Priorities
    BY <1>3, PriorityAssumption DEF AheadWaits, Waiting, TypeOK
  <2>4. PolledIsEmpty'
    BY <1>3, <2>3 DEF queueVars, TypeOK, PolledIsEmpty, popOrder, Priorities
  <2> QED
    BY <2>1, <2>2, <2>4
<1>4. ASSUME NEW p \in Poppers, Park(p) \/ Stop(p)
      PROVE  QueueInv'
  <2>1. TypeOK'
    BY <1>4 DEF Park, Stop, queueVars, TypeOK, PopperPlaces
  <2>2. LanesSorted' /\ AheadWaits'
    BY <1>4 DEF Park, Stop, queueVars, LanesSorted, AheadWaits, Waiting
  <2>3. PolledIsEmpty'
    BY <1>4 DEF Park, Stop, queueVars, TypeOK, PolledIsEmpty
  <2> QED
    BY <2>1, <2>2, <2>3
<1>5. ASSUME NEW r \in Requests, Accept(r), UNCHANGED popVars
      PROVE  QueueInv'
  <2> DEFINE l == PriorityOf[r]
             s == lanes[l]
  <2>1. /\ l \in Priorities /\ s \in Seq(Requests)
        /\ lanes' = [lanes EXCEPT ![l] = Append(s, r)]
        /\ Len(s) < Capacity
        /\ got' = got /\ pc' = pc /\ cancelled' = cancelled /\ ahead' = ahead
    BY <1>5, PriorityAssumption, CapacityAssumption
    DEF Accept, Full, popVars, TypeOK
  <2>2. lanes'[l] = Append(s, r)
        /\ \A k \in Priorities : k # l => lanes'[k] = lanes[k]
    BY <2>1 DEF TypeOK
  <2>3. TypeOK'
    <3>1. lanes' \in [Priorities -> Seq(Requests)]
      BY <2>1, AppendFacts DEF TypeOK
    <3>2. Len(Append(s, r)) <= Capacity
      BY <2>1, AppendFacts, CapacityAssumption
    <3> QED
      BY <2>1, <2>2, <3>1, <3>2 DEF TypeOK
  <2>4. LanesSorted'
    <3>1. \A i \in DOMAIN Append(s, r) : PriorityOf[Append(s, r)[i]] = l
      BY <2>1, AppendFacts DEF LanesSorted
    <3> QED
      BY <2>2, <3>1 DEF LanesSorted
  <2>5. \A x \in Requests : Waiting(x) => Waiting(x)'
    <3> SUFFICES ASSUME NEW x \in Requests, Waiting(x)
                 PROVE  Waiting(x)'
      OBVIOUS
    <3>1. PICK i \in DOMAIN lanes[PriorityOf[x]] : lanes[PriorityOf[x]][i] = x
      BY DEF Waiting
    <3>2. CASE PriorityOf[x] = l
      BY <2>1, <2>2, <3>1, <3>2, AppendFacts DEF Waiting
    <3>3. CASE PriorityOf[x] # l
      BY <2>2, <3>1, <3>3, PriorityAssumption DEF Waiting
    <3> QED
      BY <3>2, <3>3
  <2>6. AheadWaits'
    BY <2>1, <2>5 DEF AheadWaits, TypeOK
  <2>7. PolledIsEmpty'
    BY <2>1 DEF PolledIsEmpty
  <2> QED
    BY <2>3, <2>4, <2>6, <2>7
<1>6. ASSUME NEW r \in Requests, NEW p \in Parked,
             got' = [got EXCEPT ![p] = r],
             pc' = [pc EXCEPT ![p] = "busy"],
             UNCHANGED <<lanes, cancelled, ahead>>
      PROVE  QueueInv'
  <2>1. TypeOK'
    BY <1>6 DEF Parked, TypeOK, PopperPlaces
  <2>2. LanesSorted' /\ AheadWaits'
    BY <1>6 DEF LanesSorted, AheadWaits, Waiting
  <2>3. PolledIsEmpty'
    BY <1>6 DEF Parked, TypeOK, PolledIsEmpty
  <2> QED
    BY <2>1, <2>2, <2>3
<1>7. CASE Cancel
  BY <1>7
  DEF Cancel, queueVars, TypeOK, LanesSorted, AheadWaits, PolledIsEmpty, Waiting
<1>8. CASE UNCHANGED allVars
  BY <1>8
  DEF allVars, queueVars, popVars, TypeOK, LanesSorted, AheadWaits,
      PolledIsEmpty, Waiting
<1> QED
  BY <1>1, <1>2, <1>3, <1>4, <1>5, <1>6, <1>7, <1>8
  DEF Next, Poll, SelectReady, TryPush

(* Types and lane bounds hold for any number of concurrent poppers.        *)
THEOREM QueueTypes == Spec => []TypeOK
<1>1. Init => QueueInv
  BY InitInv
<1>2. QueueInv /\ [Next]_allVars => QueueInv'
  BY QueueStep
<1> QED
  BY <1>1, <1>2, PTL DEF Spec, QueueInv

(* One step: a Pop that returns leaves nothing of a higher priority behind *)
(* that has waited since before it began.                                  *)
LEMMA ReturnStep ==
    ASSUME QueueInv, [Next]_allVars, NEW p \in Poppers, Returns(p)
    PROVE  \A r \in ahead'[p] :
               Rank(PriorityOf[r]) >= Rank(PriorityOf[got'[p]])
<1> USE DEF QueueInv
<1>1. ASSUME NEW q \in Poppers, NEW l \in Priorities, Receive(q, l)
      PROVE  /\ q = p
             /\ PriorityOf[got'[p]] = l
             /\ \A r \in ahead'[p] : r \in ahead[p] /\ PriorityOf[r] \in Priorities
  <2>1. q = p
    BY <1>1 DEF Receive, TypeOK, Returns
  <2>2. got'[p] = Head(lanes[l]) /\ lanes[l] \in Seq(Requests) /\ lanes[l] # <<>>
    BY <1>1, <2>1 DEF Receive, Take, TypeOK
  <2>3. PriorityOf[Head(lanes[l])] = l
    BY <2>2, TailFacts DEF LanesSorted
  <2>4. \A r \in ahead'[p] : r \in ahead[p] /\ r \in Requests
    BY <1>1 DEF Receive, TypeOK
  <2> QED
    BY <2>1, <2>2, <2>3, <2>4, PriorityAssumption
<1>2. ASSUME NEW q \in Poppers, Poll(q)
      PROVE  \A r \in ahead'[p] :
                 Rank(PriorityOf[r]) >= Rank(PriorityOf[got'[p]])
  <2>1. CASE lanes[pc[q]] # <<>>
    <3>1. Receive(q, pc[q]) /\ pc[q] \in Priorities
      BY <1>2, <2>1 DEF Poll
    <3> QED
      BY <1>1, <3>1 DEF PolledIsEmpty, Rank, Priorities
  <2>2. CASE lanes[pc[q]] = <<>>
    BY <1>2, <2>2 DEF Poll, Returns, TypeOK, popOrder, Priorities
  <2> QED
    BY <2>1, <2>2
<1>3. ASSUME NEW q \in Poppers, SelectReady(q)
      PROVE  ahead'[p] = {}
  BY <1>1, <1>3 DEF SelectReady, PolledIsEmpty
<1>4. ASSUME NEW r \in Requests, TryPush(r)
      PROVE  ahead'[p] = {}
  BY <1>4 DEF TryPush, popVars, Returns, Parked, PolledIsEmpty, TypeOK
<1>5. ASSUME NEW q \in Poppers, Pop(q) \/ Park(q) \/ Stop(q)
      PROVE  FALSE
  BY <1>5 DEF Pop, FirstLane, Park, Stop, Returns, TypeOK
<1>6. ASSUME Cancel \/ UNCHANGED allVars
      PROVE  FALSE
  BY <1>6 DEF Cancel, allVars, popVars, Returns
<1> QED
  BY <1>2, <1>3, <1>4, <1>5, <1>6 DEF Next

(* Concurrent Pops never overtake a higher-priority request that was       *)
(* already waiting when they began (queue.go:128-161): the part of         *)
(* "higher priority is always served first" that holds with any number of  *)
(* dispatcher goroutines.                                                  *)
THEOREM NoOvertaking == Spec => NoOvertakeOfEarlier
<1>1. Init => QueueInv
  BY InitInv
<1>2. QueueInv /\ [Next]_allVars => QueueInv'
  BY QueueStep
<1>3. QueueInv /\ [Next]_allVars =>
        [\A p \in Poppers : Returns(p) =>
            \A r \in ahead'[p] :
                Rank(PriorityOf[r]) >= Rank(PriorityOf[got'[p]])]_allVars
  BY ReturnStep
<1> QED
  BY <1>1, <1>2, <1>3, PTL DEF Spec, NoOvertakeOfEarlier

-----------------------------------------------------------------------------
(* A popper is parked only while nothing waits: the select blocks on empty *)
(* lanes, and no send goes into a buffer past a parked receiver.           *)
ParkedMeansEmpty == Parked # {} => AllEmpty

RefinementInv == QueueInv /\ ParkedMeansEmpty

(* Parking, and what other poppers and pushes do meanwhile, keeps it.      *)
LEMMA ParkedStep == RefinementInv /\ [Next]_allVars => ParkedMeansEmpty'
<1> SUFFICES ASSUME RefinementInv, [Next]_allVars, Parked' # {}
             PROVE  AllEmpty'
  BY DEF ParkedMeansEmpty
<1> USE DEF RefinementInv, QueueInv
<1>1. ASSUME NEW p \in Poppers, NEW l \in Priorities, Receive(p, l)
      PROVE  FALSE
  <2>1. Parked # {}
    BY <1>1 DEF Receive, Parked, TypeOK
  <2> QED
    BY <1>1, <2>1 DEF ParkedMeansEmpty, AllEmpty, Receive, Take
<1>2. ASSUME NEW p \in Poppers, Pop(p) \/ Stop(p)
      PROVE  AllEmpty'
  <2>1. Parked # {}
    BY <1>2 DEF Pop, FirstLane, Stop, Parked, TypeOK
  <2> QED
    BY <1>2, <2>1 DEF ParkedMeansEmpty, AllEmpty, Pop, Stop, queueVars
<1>3. ASSUME NEW p \in Poppers, pc[p] \in Priorities,
             pc' = [pc EXCEPT ![p] = popOrder(pc[p])],
             UNCHANGED <<queueVars, cancelled, ahead>>
      PROVE  AllEmpty'
  <2>1. Parked # {}
    BY <1>3 DEF popOrder, Priorities, Parked, TypeOK
  <2> QED
    BY <1>3, <2>1 DEF ParkedMeansEmpty, AllEmpty, queueVars
<1>4. ASSUME NEW p \in Poppers, Park(p)
      PROVE  AllEmpty'
  BY <1>4 DEF Park, AllEmpty, queueVars
<1>5. ASSUME NEW r \in Requests, TryPush(r)
      PROVE  AllEmpty'
  <2>1. Parked # {} /\ UNCHANGED lanes
    BY <1>5 DEF TryPush, popVars, Parked, TypeOK
  <2> QED
    BY <2>1 DEF ParkedMeansEmpty, AllEmpty
<1>6. ASSUME Cancel \/ UNCHANGED allVars
      PROVE  AllEmpty'
  BY <1>6 DEF Cancel, allVars, popVars, queueVars, ParkedMeansEmpty, AllEmpty, Parked
<1> QED
  BY <1>1, <1>2, <1>3, <1>4, <1>5, <1>6 DEF Next, Poll, SelectReady

(* One step of the channels is one step of the abstract queue, or none.    *)
LEMMA RefinementStep == RefinementInv /\ [Next]_allVars => [QueueNext]_queueVars
<1> SUFFICES ASSUME RefinementInv, [Next]_allVars
             PROVE  [QueueNext]_queueVars
  OBVIOUS
<1> USE DEF RefinementInv, QueueInv
<1>1. ASSUME NEW p \in Poppers, Pop(p)
      PROVE  [QueueNext]_queueVars
  <2>1. CASE got[p] = None
    BY <1>1, <2>1 DEF Pop, TypeOK, queueVars
  <2>2. CASE got[p] # None
    BY <1>1, <2>2 DEF Pop, Release, QueueNext
  <2> QED
    BY <2>1, <2>2
<1>2. ASSUME NEW p \in Poppers, NEW l \in Priorities, Receive(p, l)
      PROVE  QueueNext
  BY <1>2 DEF Receive, QueueNext
<1>3. ASSUME NEW p \in Poppers, Park(p) \/ Stop(p)
      PROVE  UNCHANGED queueVars
  BY <1>3 DEF Park, Stop
<1>4. ASSUME NEW r \in Requests, TryPush(r)
      PROVE  QueueNext
  <2>1. CASE Parked = {}
    BY <1>4, <2>1 DEF TryPush, QueueNext
  <2>2. CASE Parked # {}
    <3>1. PICK p \in Parked : /\ ~Waiting(r) /\ ~Held(r)
                              /\ got' = [got EXCEPT ![p] = r]
                              /\ UNCHANGED lanes
      BY <1>4, <2>2 DEF TryPush
    <3>2. p \in Poppers /\ got[p] = None
      BY DEF Parked, TypeOK
    <3>3. HandOver(r, p)
      BY <2>2, <3>1, <3>2 DEF HandOver, ParkedMeansEmpty
    <3> QED
      BY <3>2, <3>3 DEF QueueNext
  <2> QED
    BY <2>1, <2>2
<1>5. ASSUME Cancel \/ UNCHANGED allVars
      PROVE  UNCHANGED queueVars
  BY <1>5 DEF Cancel, allVars
<1> QED
  BY <1>1, <1>2, <1>3, <1>4, <1>5 DEF Next, Poll, SelectReady

(* The polling Pops and the channel sends implement the abstract queue     *)
(* (queue.go:103-161), for any number of poppers and requests and any      *)
(* capacity: none lost, duplicated or reordered within its lane.           *)
THEOREM QueueRefinesLaneQueue == Spec => ImplementsLaneQueue
<1>1. Init => RefinementInv /\ QueueInit
  BY InitInv DEF Init, QueueInit, RefinementInv, ParkedMeansEmpty, AllEmpty
<1>2. RefinementInv /\ [Next]_allVars => RefinementInv'
  BY QueueStep, ParkedStep DEF RefinementInv
<1>3. RefinementInv /\ [Next]_allVars => [QueueNext]_queueVars
  BY RefinementStep
<1> QED
  BY <1>1, <1>2, <1>3, PTL DEF Spec, ImplementsLaneQueue, QueueSpec
=============================================================================
