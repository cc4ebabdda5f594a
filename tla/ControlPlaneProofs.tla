------------------------- MODULE ControlPlaneProofs -------------------------
(***************************************************************************)
(* Proofs about Routing and about ControlPlane, for every set of workers,  *)
(* any finite number of handlers, any cap on the attempts and any models:  *)
(* the counters, and what a report made while everything moves is worth.   *)
(***************************************************************************)
EXTENDS ControlPlane, FiniteSetTheorems, WellFoundedInduction, SequenceTheorems, TLAPS

Types ==
    /\ inFlight \in [Workers -> Int]
    /\ stage \in [Handlers -> {"idle", "choosing", "proxy"}]
    /\ target \in [Handlers -> Workers \cup {Nobody}]

(* A handler has a target exactly while it is inside proxy.                *)
TargetInProxy ==
    \A h \in Handlers : (target[h] \in Workers) <=> (stage[h] = "proxy")

RoutingInv == Types /\ TargetInProxy /\ CountersAccurate

At(w) == {h \in Handlers : target[h] = w}

-----------------------------------------------------------------------------
(* The requests at one worker are finitely many, and their number changes  *)
(* by one when a request comes or goes.                                    *)
LEMMA AtFinite ==
    ASSUME NEW S \in SUBSET Handlers, NEW h \in Handlers
    PROVE  /\ IsFiniteSet(S) /\ Cardinality(S) \in Nat
           /\ h \notin S => Cardinality(S \cup {h}) = Cardinality(S) + 1
           /\ h \in S => Cardinality(S \ {h}) = Cardinality(S) - 1
<1>1. IsFiniteSet(S)
  BY HandlersAssumption, FS_Subset
<1>2. Cardinality(S) \in Nat
  BY <1>1, FS_CardinalityType
<1>3. h \notin S => Cardinality(S \cup {h}) = Cardinality(S) + 1
  BY <1>1, FS_AddElement
<1>4. h \in S => Cardinality(S \ {h}) = Cardinality(S) - 1
  BY <1>1, FS_RemoveElement
<1> QED
  BY <1>1, <1>2, <1>3, <1>4

(* No request is anywhere at the start.                                    *)
LEMMA RoutingInvInit == RoutingInit => RoutingInv
<1> SUFFICES ASSUME RoutingInit
             PROVE  RoutingInv
  OBVIOUS
<1>1. Types /\ TargetInProxy
  BY NobodyAssumption DEF RoutingInit, Types, TargetInProxy
<1>2. \A w \in Workers : At(w) = {}
  BY NobodyAssumption DEF RoutingInit, At
<1>3. CountersAccurate
  BY <1>2, FS_EmptySet DEF RoutingInit, CountersAccurate, At
<1> QED
  BY <1>1, <1>3 DEF RoutingInv

(* inc: a request that was nowhere is now at w, and its counter knows.     *)
LEMMA ForwardStep ==
    ASSUME RoutingInv, NEW h \in Handlers, NEW w \in Workers, Forward(h, w)
    PROVE  RoutingInv'
<1>1. Types' /\ TargetInProxy'
  BY DEF RoutingInv, Types, TargetInProxy, Forward
<1>2. ASSUME NEW v \in Workers
      PROVE  inFlight'[v] = Cardinality(At(v)')
  <2>1. CASE v = w
    <3>1. h \notin At(v) /\ At(v)' = At(v) \cup {h}
      BY <2>1 DEF RoutingInv, Types, TargetInProxy, Forward, At
    <3>2. inFlight'[v] = inFlight[v] + 1
      BY <2>1 DEF RoutingInv, Types, Forward
    <3>3. inFlight[v] = Cardinality(At(v)) /\ At(v) \in SUBSET Handlers
      BY DEF RoutingInv, CountersAccurate, At
    <3> QED
      BY <3>1, <3>2, <3>3, AtFinite
  <2>2. CASE v # w
    <3>1. At(v)' = At(v)
      BY <2>2 DEF RoutingInv, Types, TargetInProxy, Forward, At
    <3>2. inFlight'[v] = inFlight[v]
      BY <2>2 DEF RoutingInv, Types, Forward
    <3> QED
      BY <3>1, <3>2 DEF RoutingInv, CountersAccurate, At
  <2> QED
    BY <2>1, <2>2
<1> QED
  BY <1>1, <1>2 DEF RoutingInv, CountersAccurate, At

(* dec: whichever way an attempt ends, the request is gone from its worker *)
(* and the worker's counter knows.                                         *)
LEMMA ReturnStep ==
    ASSUME RoutingInv, NEW h \in Handlers, stage[h] = "proxy",
           inFlight' = Returned(h),
           target' = [target EXCEPT ![h] = Nobody],
           NEW next \in {"idle", "choosing"},
           stage' = [stage EXCEPT ![h] = next]
    PROVE  RoutingInv'
<1>0. target[h] \in Workers
  BY DEF RoutingInv, TargetInProxy
<1>1. Types' /\ TargetInProxy'
  BY <1>0, NobodyAssumption DEF RoutingInv, Types, TargetInProxy, Returned
<1>2. ASSUME NEW v \in Workers
      PROVE  inFlight'[v] = Cardinality(At(v)')
  <2>1. CASE v = target[h]
    <3>1. h \in At(v) /\ At(v)' = At(v) \ {h}
      BY <2>1, NobodyAssumption DEF RoutingInv, Types, At
    <3>2. inFlight'[v] = inFlight[v] - 1
      BY <2>1 DEF RoutingInv, Types, Returned
    <3>3. inFlight[v] = Cardinality(At(v)) /\ At(v) \in SUBSET Handlers
      BY DEF RoutingInv, CountersAccurate, At
    <3> QED
      BY <3>1, <3>2, <3>3, AtFinite
  <2>2. CASE v # target[h]
    <3>1. At(v)' = At(v)
      BY <2>2, NobodyAssumption DEF RoutingInv, Types, At
    <3>2. inFlight'[v] = inFlight[v]
      BY <1>0, <2>2 DEF RoutingInv, Types, Returned
    <3> QED
      BY <3>1, <3>2 DEF RoutingInv, CountersAccurate, At
  <2> QED
    BY <2>1, <2>2
<1> QED
  BY <1>1, <1>2 DEF RoutingInv, CountersAccurate, At

(* Every step of the router keeps the counters accurate.                   *)
LEMMA RoutingStep == RoutingInv /\ [RoutingNext]_routingVars => RoutingInv'
<1> SUFFICES ASSUME RoutingInv, [RoutingNext]_routingVars
             PROVE  RoutingInv'
  OBVIOUS
<1>1. ASSUME NEW h \in Handlers, NEW snapshot \in SUBSET Workers,
             Arrive(h, snapshot)
      PROVE  RoutingInv'
  BY <1>1 DEF Arrive, RoutingInv, Types, TargetInProxy, CountersAccurate
<1>2. ASSUME NEW h \in Handlers, NEW w \in Workers, Forward(h, w)
      PROVE  RoutingInv'
  BY <1>2, ForwardStep
<1>3. ASSUME NEW h \in Handlers, GiveUp(h) \/ Drop(h)
      PROVE  RoutingInv'
  BY <1>3
  DEF GiveUp, Drop, Finish, RoutingInv, Types, TargetInProxy, CountersAccurate
<1>4. ASSUME NEW h \in Handlers, Answer(h) \/ Unreachable(h)
      PROVE  RoutingInv'
  BY <1>4, ReturnStep DEF Answer, Unreachable, Finish
<1>5. CASE UNCHANGED routingVars
  BY <1>5 DEF routingVars, RoutingInv, Types, TargetInProxy, CountersAccurate
<1> QED
  BY <1>1, <1>2, <1>3, <1>4, <1>5 DEF RoutingNext, Route

-----------------------------------------------------------------------------
(* f adds up c over the subsets of S, one chosen element after the other.  *)
SumIs(f, c, S) ==
    f = [s \in SUBSET S |-> IF s = {} THEN 0
                            ELSE LET x == CHOOSE x \in s : TRUE IN c[x] + f[s \ {x}]]

Sum(c, S) == (CHOOSE f : SumIs(f, c, S))[S]

(* Induction over the subsets of a finite set.                             *)
LEMMA SetInduction ==
    ASSUME NEW S, NEW G, IsFiniteSet(S),
           {} \in G,
           \A s \in SUBSET S : s # {} => \E x \in s : s \ {x} \in G => s \in G
    PROVE  SUBSET S \subseteq G
<1> SUFFICES ASSUME ~(SUBSET S \subseteq G)
             PROVE  FALSE
  OBVIOUS
<1> DEFINE B == {s \in SUBSET S : s \notin G}
<1>1. B # {} /\ B \subseteq FiniteSubsetsOf(S)
  BY FS_FiniteSubsetsOfFinite
<1>2. IsWellFoundedOn(StrictSubsetOrdering(S), FiniteSubsetsOf(S))
  BY FS_StrictSubsetOrderingWellFounded
<1>3. PICK s \in B : \A t \in B : ~(<<t, s>> \in StrictSubsetOrdering(S))
  <2> HIDE DEF B
  <2> QED
    BY <1>1, <1>2, WFMin
<1>4. PICK x \in s : s \ {x} \in G => s \in G
  <2>1. s \in SUBSET S /\ s \notin G
    OBVIOUS
  <2> HIDE DEF B
  <2>2. s # {}
    <3> SUFFICES ASSUME s = {} PROVE FALSE
      OBVIOUS
    <3> QED
      BY <2>1
  <2> QED
    BY <2>1, <2>2
<1>5. s \ {x} \notin B
  <2>1. s \ {x} \in SUBSET S /\ s \in SUBSET S /\ s \ {x} \subseteq s /\ s \ {x} # s
    OBVIOUS
  <2> DEFINE t == s \ {x}
  <2> HIDE DEF t
  <2>2. <<t, s>> \in StrictSubsetOrdering(S)
    BY <2>1 DEF StrictSubsetOrdering, t
  <2> QED
    BY <1>3, <2>2 DEF t
<1> QED
  BY <1>4, <1>5

(* As many tokens for each x in s as c says.                               *)
Units(c, S, s) == {p \in S \X Nat : p[1] \in s /\ p[2] \in 1..c[p[1]]}

(* The tokens of a set are those of x and those of the rest.               *)
LEMMA UnitsGrow ==
    ASSUME NEW S, NEW c, NEW s \in SUBSET S, NEW x \in s,
           \A y \in S : c[y] \in Nat, IsFiniteSet(Units(c, S, s \ {x}))
    PROVE  /\ IsFiniteSet(Units(c, S, s))
           /\ Cardinality(Units(c, S, s)) = c[x] + Cardinality(Units(c, S, s \ {x}))
<1> DEFINE U == Units(c, S, s \ {x})
           V == {x} \X (1..c[x])
<1>1. Units(c, S, s) = U \cup V
  BY DEF Units
<1>2. U \cap V = {}
  BY DEF Units
<1>3. IsFiniteSet(1..c[x]) /\ Cardinality(1..c[x]) = c[x]
  <2>1. c[x] \in Nat /\ 1 \in Int /\ c[x] \in Int
    OBVIOUS
  <2> QED
    BY <2>1, FS_Interval
<1>4. IsFiniteSet(V) /\ Cardinality(V) = c[x]
  <2>1. IsFiniteSet({x}) /\ Cardinality({x}) = 1
    BY FS_Singleton
  <2>2. IsFiniteSet(V) /\ Cardinality(V) = Cardinality({x}) * Cardinality(1..c[x])
    BY <2>1, <1>3, FS_Product
  <2> QED
    BY <2>1, <2>2, <1>3
<1>5. /\ IsFiniteSet(U \cup V)
      /\ Cardinality(U \cup V) = Cardinality(U) + Cardinality(V) - Cardinality(U \cap V)
  <2> HIDE DEF V
  <2> QED
    BY <1>4, FS_Union
<1>6. Cardinality(U) \in Nat /\ Cardinality(U \cap V) = 0
  BY <1>2, FS_CardinalityType, FS_EmptySet
<1> QED
  BY <1>1, <1>4, <1>5, <1>6

(* A sum of natural numbers over a finite set exists.                      *)
LEMMA SumExists ==
    ASSUME NEW S, NEW c, IsFiniteSet(S), \A x \in S : c[x] \in Nat
    PROVE  \E f : SumIs(f, c, S)
<1> DEFINE G == {s \in SUBSET S : IsFiniteSet(Units(c, S, s))}
           f == [s \in SUBSET S |-> Cardinality(Units(c, S, s))]
<1>1. Units(c, S, {}) = {}
  BY DEF Units
<1>2. {} \in G
  BY <1>1, FS_EmptySet
<1>3. ASSUME NEW s \in SUBSET S, s # {}
      PROVE  \E x \in s : s \ {x} \in G => s \in G
  <2>1. PICK x \in s : TRUE
    BY <1>3
  <2>2. s \ {x} \in G => s \in G
    BY UnitsGrow
  <2> QED
    BY <2>2
<1>4. SUBSET S \subseteq G
  <2> HIDE DEF G
  <2> QED
    BY <1>2, <1>3, SetInduction
<1>5. ASSUME NEW s \in SUBSET S
      PROVE  f[s] = IF s = {} THEN 0
                    ELSE LET x == CHOOSE x \in s : TRUE IN c[x] + f[s \ {x}]
  <2>1. CASE s = {}
    BY <1>1, <2>1, FS_EmptySet
  <2>2. CASE s # {}
    <3> DEFINE x == CHOOSE x \in s : TRUE
    <3>1. x \in s
      BY <2>2
    <3> HIDE DEF x
    <3>2. IsFiniteSet(Units(c, S, s \ {x}))
      BY <1>4
    <3>3. Cardinality(Units(c, S, s)) = c[x] + Cardinality(Units(c, S, s \ {x}))
      BY <3>1, <3>2, UnitsGrow
    <3>4. f[s] = c[x] + f[s \ {x}]
      BY <3>3
    <3> QED
      BY <2>2, <3>4 DEF x
  <2> QED
    BY <2>1, <2>2
<1>6. SumIs(f, c, S)
  BY <1>5 DEF SumIs
<1> QED
  BY <1>6

(* What f says of a set is one term more than what it says of the rest.    *)
AddsUp(f, c, S) ==
    /\ f[{}] = 0
    /\ \A s \in SUBSET S : s # {} => \E x \in s : f[s] = c[x] + f[s \ {x}]

(* What a sum adds up to: 0 for nothing, and one term after the other.     *)
LEMMA SumTerms ==
    ASSUME NEW S, NEW c, IsFiniteSet(S), \A x \in S : c[x] \in Nat
    PROVE  \E f : Sum(c, S) = f[S] /\ AddsUp(f, c, S)
<1> DEFINE f == CHOOSE f : SumIs(f, c, S)
<1>1. SumIs(f, c, S)
  BY SumExists
<1>2. Sum(c, S) = f[S]
  BY DEF Sum
<1> HIDE DEF f
<1>3. f[{}] = 0
  BY <1>1 DEF SumIs
<1>4. ASSUME NEW s \in SUBSET S, s # {}
      PROVE  \E x \in s : f[s] = c[x] + f[s \ {x}]
  <2> DEFINE x == CHOOSE x \in s : TRUE
  <2>1. x \in s
    BY <1>4
  <2>2. f[s] = c[x] + f[s \ {x}]
    BY <1>1, <1>4 DEF SumIs
  <2> QED
    BY <2>1, <2>2
<1> QED
  BY <1>2, <1>3, <1>4 DEF AddsUp

(* Those of V that are at x, and those within S.                           *)
Here(V, place, x) == {v \in V : place[v] = x}
Within(V, place, S) == {v \in V : place[v] \in S}

(* Things that are each at one place: if c bounds their number at each     *)
(* place of S, then the sum of c bounds their number at all of S.          *)
LEMMA SumCounts ==
    ASSUME NEW S, NEW c, NEW V, NEW place, IsFiniteSet(S), IsFiniteSet(V),
           \A x \in S : c[x] \in Nat
    PROVE  /\ (\A x \in S : Cardinality(Here(V, place, x)) <= c[x])
                 => Cardinality(Within(V, place, S)) <= Sum(c, S)
           /\ (\A x \in S : c[x] <= Cardinality(Here(V, place, x)))
                 => Sum(c, S) <= Cardinality(Within(V, place, S))
           /\ Sum(c, S) \in Nat
<1> DEFINE Present(x) == Here(V, place, x)
           In(s) == Within(V, place, s)
<1>1. PICK f : Sum(c, S) = f[S] /\ AddsUp(f, c, S)
  BY SumTerms
<1>2. ASSUME NEW s \in SUBSET S, NEW x \in s
      PROVE  /\ Cardinality(In(s)) = Cardinality(Present(x)) + Cardinality(In(s \ {x}))
             /\ Cardinality(Present(x)) \in Nat
             /\ Cardinality(In(s \ {x})) \in Nat
  <2>1. In(s) = Present(x) \cup In(s \ {x}) /\ Present(x) \cap In(s \ {x}) = {}
    BY DEF Here, Within
  <2>2. Present(x) \in SUBSET V /\ In(s \ {x}) \in SUBSET V
    BY DEF Here, Within
  <2> HIDE DEF Present, In
  <2>3. IsFiniteSet(Present(x)) /\ IsFiniteSet(In(s \ {x}))
    BY <2>2, FS_Subset
  <2>4. /\ Cardinality(Present(x)) \in Nat /\ Cardinality(In(s \ {x})) \in Nat
        /\ Cardinality(Present(x) \cap In(s \ {x})) = 0
    BY <2>1, <2>3, FS_CardinalityType, FS_EmptySet
  <2>5. Cardinality(In(s)) = Cardinality(Present(x)) + Cardinality(In(s \ {x}))
                                - Cardinality(Present(x) \cap In(s \ {x}))
    BY <2>1, <2>3, FS_Union
  <2> QED
    BY <2>4, <2>5
<1>3. In({}) = {} /\ Cardinality(In({})) = 0
  BY FS_EmptySet DEF Within
<1> DEFINE N == {s \in SUBSET S : f[s] \in Nat}
           Low == {s \in SUBSET S : f[s] \in Nat /\ Cardinality(In(s)) <= f[s]}
           High == {s \in SUBSET S : f[s] \in Nat /\ f[s] <= Cardinality(In(s))}
<1> HIDE DEF Present, In
<1>4. ASSUME NEW s \in SUBSET S, s # {}
      PROVE  \E x \in s : c[x] \in Nat /\ f[s] = c[x] + f[s \ {x}]
  BY <1>1, <1>4 DEF AddsUp
<1>5. S \in N
  <2>1. {} \in N
    BY <1>1 DEF AddsUp
  <2>2. ASSUME NEW s \in SUBSET S, s # {}
        PROVE  \E x \in s : s \ {x} \in N => s \in N
    BY <1>4, <2>2
  <2> HIDE DEF N
  <2> QED
    BY <2>1, <2>2, SetInduction
<1>6. ASSUME \A x \in S : Cardinality(Present(x)) <= c[x]
      PROVE  S \in Low
  <2>1. {} \in Low
    BY <1>1, <1>3 DEF AddsUp
  <2>2. ASSUME NEW s \in SUBSET S, s # {}
        PROVE  \E x \in s : s \ {x} \in Low => s \in Low
    <3>1. PICK x \in s : c[x] \in Nat /\ f[s] = c[x] + f[s \ {x}]
      BY <1>4, <2>2
    <3>2. s \ {x} \in Low => s \in Low
      BY <1>2, <1>6, <3>1
    <3> QED
      BY <3>2
  <2> HIDE DEF Low
  <2> QED
    BY <2>1, <2>2, SetInduction
<1>7. ASSUME \A x \in S : c[x] <= Cardinality(Present(x))
      PROVE  S \in High
  <2>1. {} \in High
    BY <1>1, <1>3 DEF AddsUp
  <2>2. ASSUME NEW s \in SUBSET S, s # {}
        PROVE  \E x \in s : s \ {x} \in High => s \in High
    <3>1. PICK x \in s : c[x] \in Nat /\ f[s] = c[x] + f[s \ {x}]
      BY <1>4, <2>2
    <3>2. s \ {x} \in High => s \in High
      BY <1>2, <1>7, <3>1
    <3> QED
      BY <3>2
  <2> HIDE DEF High
  <2> QED
    BY <2>1, <2>2, SetInduction
<1> QED
  BY <1>1, <1>5, <1>6, <1>7 DEF Present, In

-----------------------------------------------------------------------------
(* The invariants of ControlPlane: the kinds of reports and of snapshots.  *)
Names == {"workers", "worker", "stats", "models", "metrics", "warnings"}
Kinds == {"list", "get", "count", "catalogue", "counters"}

(* The workers of a request: those tried are of its snapshot, and an idle  *)
(* handler has tried none.                                                 *)
Pools ==
    /\ pool \in [Handlers -> SUBSET Workers]
    /\ tried \in [Handlers -> SUBSET Workers]
    /\ \A h \in Handlers : tried[h] \subseteq pool[h]
    /\ \A h \in Handlers : stage[h] = "idle" => tried[h] = {}

(* The registry's map: finitely many members.                              *)
FleetTypes ==
    /\ members = [id \in DOMAIN members |-> members[id]]
    /\ DOMAIN members \subseteq Workers
    /\ IsFiniteSet(DOMAIN members)
    /\ \A id \in DOMAIN members : members[id] \in Member

(* The report is a record of these fields.                                 *)
Shape(r) ==
    r = [endpoint |-> r.endpoint, id |-> r.id, todo |-> r.todo, listed |-> r.listed,
         tally |-> r.tally, counters |-> r.counters, catalogue |-> r.catalogue]

(* Kind is among the snapshots s; among those still to be taken.           *)
Holds(s, kind) == \E i \in DOMAIN s : s[i] = kind
Awaited(kind) == Holds(report.todo, kind)

(* The fields of the report.                                               *)
ReportTypes ==
    /\ Shape(report)
    /\ report.endpoint \in Names \cup {"none"}
    /\ report.todo \in Seq(Kinds)
    /\ DOMAIN report.listed \subseteq Workers
    /\ IsFiniteSet(DOMAIN report.listed)
    /\ DOMAIN report.counters \subseteq Workers
    /\ \A w \in DOMAIN report.counters : report.counters[w] \in Nat
    /\ DOMAIN report.catalogue \subseteq Models

(* What is no longer awaited has been taken.                               *)
CountersTaken ==
    report.endpoint \in Names \ {"warnings"} /\ ~Awaited("counters") =>
        DOMAIN report.counters = Workers

(* The history is finite, and kept only for reports of the load.           *)
HistoryTypes ==
    /\ stayed \subseteq visited
    /\ IsFiniteSet(visited)
    /\ Reporting /\ ~OfLoad(report.endpoint) => stayed = {}

(* Only GET /admin/workers/{id} asks for one worker.                       *)
GetsWorker == Awaited("get") => report.endpoint = "worker"

ControlInv ==
    /\ RoutingInv /\ Pools /\ FleetTypes /\ ReportTypes /\ CountersTaken
    /\ GetsWorker /\ HistoryTypes

(* The pairs of a handler and worker w.                                    *)
Visits(V, w) == {v \in V : v[2] = w}

(* What is known of the load while it is read: each counter lies between   *)
(* the requests that stayed at its worker and those that were there.       *)
HistoryInv ==
    OfLoad(report.endpoint) =>
        /\ Reporting => stayed \subseteq Underway /\ Underway \subseteq visited
        /\ \A w \in DOMAIN report.counters :
              /\ Cardinality(Visits(stayed, w)) <= report.counters[w]
              /\ report.counters[w] <= Cardinality(Visits(visited, w))

(* While nothing moves, what a report has taken is what is there.          *)
QuietInv ==
    calm =>
        /\ \A w \in DOMAIN report.counters : report.counters[w] = inFlight[w]
        /\ report.endpoint \in {"workers", "stats", "models", "metrics"}
              /\ ~Awaited("list") =>
                  report.listed = ListWorkers /\ report.tally = Tally(report.endpoint)
        /\ report.endpoint = "warnings" /\ ~Awaited("count") =>
              report.tally = Tally("warnings")
        /\ report.endpoint \in {"models", "metrics", "warnings"}
              /\ ~Awaited("catalogue") =>
                  report.catalogue = ModelsServed

-----------------------------------------------------------------------------
(* A report that was taken back, or never begun, is empty.                 *)
LEMMA NoReportFacts ==
    /\ Shape(NoReport) /\ NoReport.endpoint = "none" /\ NoReport.todo = <<>>
    /\ DOMAIN NoReport.listed = {} /\ DOMAIN NoReport.counters = {}
    /\ DOMAIN NoReport.catalogue = {}
  BY DEF NoReport, Shape, Empty

(* What each kind of report is going to take.                              *)
LEMMA SnapshotsFacts ==
    ASSUME NEW endpoint \in Names
    PROVE  /\ Snapshots(endpoint) \in Seq(Kinds)
           /\ Snapshots(endpoint) # <<>>
           /\ endpoint # "warnings" => Holds(Snapshots(endpoint), "counters")
           /\ endpoint \in {"workers", "stats", "models", "metrics"} =>
                  Holds(Snapshots(endpoint), "list")
           /\ endpoint \in {"models", "metrics", "warnings"} =>
                  Holds(Snapshots(endpoint), "catalogue")
           /\ endpoint = "warnings" => Holds(Snapshots(endpoint), "count")
           /\ Holds(Snapshots(endpoint), "get") => endpoint = "worker"
<1>1. CASE endpoint = "workers"
  BY <1>1 DEF Snapshots, Kinds, Holds
<1>2. CASE endpoint = "worker"
  BY <1>2 DEF Snapshots, Kinds, Holds
<1>3. CASE endpoint = "stats"
  BY <1>3 DEF Snapshots, Kinds, Holds
<1>4. CASE endpoint = "models"
  BY <1>4 DEF Snapshots, Kinds, Holds
<1>5. CASE endpoint = "metrics"
  BY <1>5 DEF Snapshots, Kinds, Holds
<1>6. CASE endpoint = "warnings"
  BY <1>6 DEF Snapshots, Kinds, Holds
<1> QED
  BY <1>1, <1>2, <1>3, <1>4, <1>5, <1>6 DEF Names

(* A snapshot that is taken is the one that is awaited no longer.          *)
LEMMA TailFacts ==
    ASSUME NEW s \in Seq(Kinds), s # <<>>
    PROVE  /\ Tail(s) \in Seq(Kinds)
           /\ Holds(s, Head(s))
           /\ \A k \in Kinds : Holds(Tail(s), k) => Holds(s, k)
           /\ \A k \in Kinds : k # Head(s) /\ Holds(s, k) => Holds(Tail(s), k)
<1>1. /\ Tail(s) \in Seq(Kinds) /\ Len(s) \in Nat \ {0} /\ Len(Tail(s)) = Len(s) - 1
      /\ DOMAIN s = 1..Len(s) /\ DOMAIN Tail(s) = 1..Len(Tail(s)) /\ Head(s) = s[1]
      /\ \A i \in 1..Len(Tail(s)) : Tail(s)[i] = s[i + 1]
  OBVIOUS
<1>2. ASSUME NEW k \in Kinds, Holds(Tail(s), k)
      PROVE  Holds(s, k)
  <2>1. PICK i \in 1..Len(Tail(s)) : Tail(s)[i] = k
    BY <1>1, <1>2 DEF Holds
  <2>2. i + 1 \in DOMAIN s /\ s[i + 1] = k
    BY <1>1, <2>1
  <2> QED
    BY <2>2 DEF Holds
<1>3. ASSUME NEW k \in Kinds, k # Head(s), Holds(s, k)
      PROVE  Holds(Tail(s), k)
  <2>1. PICK i \in 1..Len(s) : s[i] = k
    BY <1>1, <1>3 DEF Holds
  <2>2. i # 1
    BY <1>1, <1>3, <2>1
  <2>3. i - 1 \in DOMAIN Tail(s) /\ Tail(s)[i - 1] = k
    BY <1>1, <2>1, <2>2
  <2> QED
    BY <2>3 DEF Holds
<1>4. Holds(s, Head(s))
  BY <1>1 DEF Holds
<1> QED
  BY <1>1, <1>2, <1>3, <1>4

(* The steps of a report, field by field: it begins empty.                 *)
LEMMA BeginFacts ==
    ASSUME NEW endpoint \in Names, NEW id, BeginReport(endpoint, id)
    PROVE  /\ Shape(report') /\ report'.endpoint = endpoint
           /\ report'.todo = Snapshots(endpoint)
           /\ DOMAIN report'.listed = {} /\ DOMAIN report'.counters = {}
           /\ DOMAIN report'.catalogue = {}
  BY DEF BeginReport, NoReport, Shape, Empty

(* ListWorkers is listed and the states of its workers are counted.        *)
LEMMA TakeListFacts ==
    ASSUME Shape(report), TakeList
    PROVE  /\ Shape(report') /\ report'.endpoint = report.endpoint
           /\ report.todo # <<>> /\ Head(report.todo) = "list"
           /\ report'.todo = Tail(report.todo)
           /\ report'.listed = ListWorkers /\ report'.tally = Tally(report.endpoint)
           /\ report'.counters = report.counters /\ report'.catalogue = report.catalogue
<1> DEFINE L == ListWorkers
           H == Tally(report.endpoint)
<1>1. report' = [report EXCEPT !.listed = L, !.todo = Tail(@), !.tally = H]
  BY DEF TakeList
<1> HIDE DEF L, H
<1>2. /\ Shape(report') /\ report'.endpoint = report.endpoint
      /\ report'.todo = Tail(report.todo)
      /\ report'.listed = L /\ report'.tally = H
      /\ report'.counters = report.counters /\ report'.catalogue = report.catalogue
  BY <1>1 DEF Shape
<1> QED
  BY <1>2 DEF TakeList, Take, Reporting, L, H

(* GetWorker finds the worker, or the report is over.                      *)
LEMMA TakeWorkerFacts ==
    ASSUME Shape(report), TakeWorker
    PROVE  /\ report.todo # <<>> /\ Head(report.todo) = "get"
           /\ \/ report' = NoReport
              \/ /\ Shape(report') /\ report'.endpoint = report.endpoint
                 /\ report'.todo = Tail(report.todo)
                 /\ report.id \in DOMAIN members /\ DOMAIN report'.listed = {report.id}
                 /\ report'.counters = report.counters
                 /\ report'.catalogue = report.catalogue
<1>1. CASE report.id \in DOMAIN members
  <2> DEFINE L == GetWorker(report.id)
  <2>1. report' = [report EXCEPT !.listed = L, !.todo = Tail(@)]
    BY <1>1 DEF TakeWorker
  <2>2. DOMAIN L = {report.id}
    BY DEF GetWorker
  <2> HIDE DEF L
  <2>3. /\ Shape(report') /\ report'.endpoint = report.endpoint
        /\ report'.todo = Tail(report.todo) /\ report'.listed = L
        /\ report'.counters = report.counters /\ report'.catalogue = report.catalogue
    BY <2>1 DEF Shape
  <2> QED
    BY <1>1, <2>2, <2>3 DEF TakeWorker, Take, Reporting
<1>2. CASE report.id \notin DOMAIN members
  BY <1>2 DEF TakeWorker, Take, Reporting
<1> QED
  BY <1>1, <1>2

(* WorkerCount is taken.                                                   *)
LEMMA TakeCountFacts ==
    ASSUME Shape(report), TakeCount
    PROVE  /\ Shape(report') /\ report'.endpoint = report.endpoint
           /\ report.todo # <<>> /\ Head(report.todo) = "count"
           /\ report'.todo = Tail(report.todo)
           /\ report'.listed = report.listed /\ report'.tally = Tally(report.endpoint)
           /\ report'.counters = report.counters /\ report'.catalogue = report.catalogue
<1> DEFINE H == Tally(report.endpoint)
<1>1. report' = [report EXCEPT !.tally = H, !.todo = Tail(@)]
  BY DEF TakeCount
<1> HIDE DEF H
<1>2. /\ Shape(report') /\ report'.endpoint = report.endpoint
      /\ report'.todo = Tail(report.todo)
      /\ report'.listed = report.listed /\ report'.tally = H
      /\ report'.counters = report.counters /\ report'.catalogue = report.catalogue
  BY <1>1 DEF Shape
<1> QED
  BY <1>2 DEF TakeCount, Take, Reporting, H

(* ModelsServed is taken.                                                  *)
LEMMA TakeCatalogueFacts ==
    ASSUME Shape(report), TakeCatalogue
    PROVE  /\ Shape(report') /\ report'.endpoint = report.endpoint
           /\ report.todo # <<>> /\ Head(report.todo) = "catalogue"
           /\ report'.todo = Tail(report.todo)
           /\ report'.listed = report.listed /\ report'.tally = report.tally
           /\ report'.counters = report.counters /\ report'.catalogue = ModelsServed
<1> DEFINE C == ModelsServed
<1>1. report' = [report EXCEPT !.catalogue = C, !.todo = Tail(@)]
  BY DEF TakeCatalogue
<1> HIDE DEF C
<1>2. /\ Shape(report') /\ report'.endpoint = report.endpoint
      /\ report'.todo = Tail(report.todo)
      /\ report'.listed = report.listed /\ report'.tally = report.tally
      /\ report'.counters = report.counters /\ report'.catalogue = C
  BY <1>1 DEF Shape
<1> QED
  BY <1>2 DEF TakeCatalogue, Take, Reporting, C

(* One counter is loaded; with the last one InFlightSnapshot returns.      *)
LEMMA LoadCounterFacts ==
    ASSUME Shape(report), NEW w \in Workers, LoadCounter(w)
    PROVE  /\ Shape(report') /\ report'.endpoint = report.endpoint
           /\ report.todo # <<>> /\ Head(report.todo) = "counters"
           /\ \/ report'.todo = report.todo
              \/ report'.todo = Tail(report.todo) /\ DOMAIN report'.counters = Workers
           /\ report'.listed = report.listed /\ report'.tally = report.tally
           /\ report'.catalogue = report.catalogue
           /\ w \notin DOMAIN report.counters
           /\ DOMAIN report'.counters = DOMAIN report.counters \cup {w}
           /\ report'.counters[w] = inFlight[w]
           /\ \A v \in DOMAIN report.counters : report'.counters[v] = report.counters[v]
<1> DEFINE C == Put(report.counters, w, inFlight[w])
<1>1. report' = [report EXCEPT !.counters = C,
                               !.todo = IF DOMAIN C = Workers THEN Tail(@) ELSE @]
  BY DEF LoadCounter
<1>2. w \notin DOMAIN report.counters
  BY DEF LoadCounter
<1>3. /\ DOMAIN C = DOMAIN report.counters \cup {w}
      /\ C[w] = inFlight[w]
      /\ \A v \in DOMAIN report.counters : C[v] = report.counters[v]
  BY <1>2 DEF Put
<1> HIDE DEF C
<1>4. /\ Shape(report') /\ report'.endpoint = report.endpoint
      /\ report'.todo = IF DOMAIN C = Workers THEN Tail(report.todo) ELSE report.todo
      /\ report'.listed = report.listed /\ report'.tally = report.tally
      /\ report'.counters = C /\ report'.catalogue = report.catalogue
  BY <1>1 DEF Shape
<1> QED
  BY <1>2, <1>3, <1>4 DEF LoadCounter, Take, Reporting

-----------------------------------------------------------------------------
(* The steps, sorted by what they change.                                  *)
Reported ==
    \/ \E endpoint \in Names, id \in Workers \cup {Nobody} : BeginReport(endpoint, id)
    \/ TakeList \/ TakeWorker \/ TakeCount \/ TakeCatalogue
    \/ \E w \in Workers : LoadCounter(w)

(* Every step is one of the fleet, of the router or of a report.           *)
LEMMA StepKinds ==
    ASSUME [Next]_controlVars
    PROVE  \/ FleetChanges
           \/ \E h \in Handlers : Request(h) \/ Routed(h)
           \/ Reported
           \/ UNCHANGED controlVars
<1>1. ASSUME NEW endpoint \in Endpoints \ {"worker"}, BeginReport(endpoint, Nobody)
      PROVE  Reported
  <2>1. endpoint \in Names
    BY EndpointsAssumption DEF Names
  <2> QED
    BY <1>1, <2>1 DEF Reported
<1>2. ASSUME NEW id \in Workers, BeginReport("worker", id)
      PROVE  Reported
  BY <1>2 DEF Reported, Names
<1> QED
  BY <1>1, <1>2 DEF Next, Reported

(* Reports change neither the fleet nor the requests, nor the history      *)
(* other than at their beginning.                                          *)
LEMMA ReportedFacts ==
    ASSUME Reported
    PROVE  UNCHANGED <<members, routingVars>>
  BY DEF Reported, BeginReport, TakeList, TakeWorker, TakeCount, TakeCatalogue,
         LoadCounter

(* The registry's map keeps finitely many well-typed members.              *)
LEMMA FleetStep == FleetTypes /\ [Next]_controlVars => FleetTypes'
<1> SUFFICES ASSUME FleetTypes, [Next]_controlVars
             PROVE  FleetTypes'
  OBVIOUS
<1>1. ASSUME NEW id \in Workers, NEW age \in 0..DeadTimeout, Join(id, ModelsOf[id], age)
      PROVE  FleetTypes'
  <2> DEFINE e == [ModelsLoaded |-> ModelsOf[id], State |-> "STARTING",
                   silence |-> age, DrainRequested |-> FALSE]
  <2>1. e \in Member
    BY ModelsOfAssumption DEF Member, WorkerState
  <2>2. members' = Put(members, id, e)
    BY <1>1 DEF Join
  <2> HIDE DEF e
  <2>3. DOMAIN members' = DOMAIN members \cup {id}
    BY <2>2 DEF Put
  <2>4. IsFiniteSet(DOMAIN members')
    BY <2>3, FS_AddElement DEF FleetTypes
  <2>5. \A x \in DOMAIN members' : members'[x] \in Member
    BY <2>1, <2>2 DEF FleetTypes, Put
  <2>6. members' = [x \in DOMAIN members' |-> members'[x]]
    BY <2>2 DEF Put
  <2> QED
    BY <2>3, <2>4, <2>5, <2>6 DEF FleetTypes
<1>2. ASSUME NEW id \in Workers, NEW s \in WorkerState, Beat(id, s)
      PROVE  FleetTypes'
  <2>1. /\ id \in DOMAIN members
        /\ members' = [members EXCEPT ![id].State = s, ![id].silence = 0]
    BY <1>2 DEF Beat
  <2>2. DOMAIN members' = DOMAIN members /\ members' = [x \in DOMAIN members' |-> members'[x]]
    BY <2>1 DEF FleetTypes
  <2>3. 0 \in 0..DeadTimeout
    BY TimeoutAssumption
  <2>4. \A x \in DOMAIN members : members'[x] \in Member
    BY <2>1, <2>3 DEF FleetTypes, Member
  <2> QED
    BY <2>2, <2>4 DEF FleetTypes
<1>3. ASSUME NEW id \in Workers, Suspect(id)
      PROVE  FleetTypes'
  <2>1. id \in DOMAIN members /\ members' = [members EXCEPT ![id].State = "DEAD"]
    BY <1>3 DEF Suspect
  <2>2. DOMAIN members' = DOMAIN members /\ members' = [x \in DOMAIN members' |-> members'[x]]
    BY <2>1 DEF FleetTypes
  <2>3. \A x \in DOMAIN members : members'[x] \in Member
    BY <2>1 DEF FleetTypes, Member, WorkerState
  <2> QED
    BY <2>2, <2>3 DEF FleetTypes
<1>4. ASSUME NEW id \in Workers, Leave(id)
      PROVE  FleetTypes'
  <2>1. members' = Delete(members, id)
    BY <1>4 DEF Leave
  <2>2. DOMAIN members' = DOMAIN members \ {id}
    BY <2>1 DEF Delete
  <2>3. IsFiniteSet(DOMAIN members')
    BY <2>2, FS_RemoveElement DEF FleetTypes
  <2>4. /\ \A x \in DOMAIN members' : members'[x] \in Member
        /\ members' = [x \in DOMAIN members' |-> members'[x]]
    BY <2>1 DEF FleetTypes, Delete
  <2> QED
    BY <2>2, <2>3, <2>4 DEF FleetTypes
<1>5. ASSUME Pass
      PROVE  FleetTypes'
  <2>1. members' = [id \in DOMAIN members |->
                      [members[id] EXCEPT !.silence = AtMost(@ + 1, DeadTimeout)]]
    BY <1>5 DEF Pass
  <2>2. DOMAIN members' = DOMAIN members /\ members' = [x \in DOMAIN members' |-> members'[x]]
    BY <2>1
  <2>3. ASSUME NEW x \in DOMAIN members
        PROVE  members'[x] \in Member
    <3>1. members[x] \in Member /\ members[x].silence \in 0..DeadTimeout
      BY DEF FleetTypes, Member
    <3>2. AtMost(members[x].silence + 1, DeadTimeout) \in 0..DeadTimeout
      BY <3>1, TimeoutAssumption DEF AtMost
    <3>3. members'[x] = [members[x] EXCEPT !.silence = AtMost(members[x].silence + 1, DeadTimeout)]
      BY <2>1
    <3> QED
      BY <3>1, <3>2, <3>3 DEF Member
  <2> QED
    BY <2>2, <2>3 DEF FleetTypes
<1>6. CASE FleetChanges
  BY <1>1, <1>2, <1>3, <1>4, <1>5, <1>6 DEF FleetChanges
<1>7. CASE UNCHANGED members
  BY <1>7 DEF FleetTypes
<1> QED
  BY <1>6, <1>7, StepKinds, ReportedFacts DEF Request, Routed, controlVars

(* Whatever the fleet and the reports do, the router does what Routing     *)
(* says.                                                                   *)
LEMMA ControlUsesRouting ==
    ASSUME FleetTypes, [Next]_controlVars
    PROVE  [RoutingNext]_routingVars
<1>1. ASSUME NEW h \in Handlers, Request(h)
      PROVE  RoutingNext
  <2>1. PICK m \in Models : Arrive(h, HealthyWorkersForModel(m))
    BY <1>1 DEF Request
  <2>2. HealthyWorkersForModel(m) \in SUBSET Workers
    BY DEF HealthyWorkersForModel, FleetTypes
  <2> QED
    BY <2>1, <2>2 DEF RoutingNext
<1>2. ASSUME NEW h \in Handlers, Routed(h)
      PROVE  RoutingNext
  BY <1>2 DEF Routed, RoutingNext
<1> QED
  BY <1>1, <1>2, StepKinds, ReportedFacts DEF FleetChanges, controlVars

(* A request is sent only to workers of its snapshot.                      *)
LEMMA PoolsStep == Types /\ Pools /\ [RoutingNext]_routingVars => Pools'
<1> SUFFICES ASSUME Types, Pools, [RoutingNext]_routingVars
             PROVE  Pools'
  OBVIOUS
<1>1. ASSUME NEW h \in Handlers, NEW snapshot \in SUBSET Workers, Arrive(h, snapshot)
      PROVE  Pools'
  BY <1>1 DEF Arrive, Pools, Types
<1>2. ASSUME NEW h \in Handlers, NEW w \in Workers, Forward(h, w)
      PROVE  Pools'
  BY <1>2 DEF Forward, Candidates, Pools, Types
<1>3. ASSUME NEW h \in Handlers, Finish(h)
      PROVE  Pools'
  BY <1>3 DEF Finish, Pools, Types
<1>4. ASSUME NEW h \in Handlers, Unreachable(h)
      PROVE  Pools'
  BY <1>4 DEF Unreachable, Pools, Types
<1>5. CASE UNCHANGED routingVars
  BY <1>5 DEF routingVars, Pools
<1> QED
  BY <1>1, <1>2, <1>3, <1>4, <1>5 DEF RoutingNext, Route, GiveUp, Drop, Answer

-----------------------------------------------------------------------------
(* The requests at the workers, as pairs.                                  *)
LEMMA UnderwayFacts ==
    ASSUME RoutingInv
    PROVE  /\ IsFiniteSet(Underway)
           /\ \A w \in Workers : Cardinality(Visits(Underway, w)) = inFlight[w]
<1> DEFINE G == {g \in Handlers : target[g] # Nobody}
           f == [h \in G |-> <<h, target[h]>>]
<1>1. IsFiniteSet(G)
  BY HandlersAssumption, FS_Subset
<1>2. f \in Surjection(G, Underway)
  BY DEF Surjection, Underway
<1>3. IsFiniteSet(Underway)
  <2> HIDE DEF G, f
  <2> QED
    BY <1>1, <1>2, FS_Surjection
<1>4. ASSUME NEW w \in Workers
      PROVE  Cardinality(Visits(Underway, w)) = inFlight[w]
  <2> DEFINE U == Visits(Underway, w)
             b == [h \in At(w) |-> <<h, w>>]
  <2>1. b \in Bijection(At(w), U)
    <3>1. /\ b \in [At(w) -> U]
          /\ \A g, h \in At(w) : b[g] = b[h] => g = h
          /\ \A v \in U : \E h \in At(w) : b[h] = v
      BY NobodyAssumption DEF Underway, At, Visits
    <3> HIDE DEF b, U
    <3> QED
      BY <3>1 DEF Bijection, Injection, Surjection, IsInjective
  <2>2. IsFiniteSet(At(w)) /\ Cardinality(At(w)) = inFlight[w]
    <3>1. At(w) \in SUBSET Handlers
      BY DEF At
    <3> QED
      BY <3>1, HandlersAssumption, FS_Subset DEF RoutingInv, CountersAccurate, At
  <2>3. ExistsBijection(At(w), U)
    <3> HIDE DEF b, U
    <3> QED
      BY <2>1 DEF ExistsBijection
  <2> HIDE DEF U
  <2>4. Cardinality(U) = Cardinality(At(w))
    BY <2>2, <2>3, FS_Bijection
  <2> QED
    BY <2>2, <2>4 DEF U
<1> QED
  BY <1>3, <1>4

(* The models of a catalogue are models.                                   *)
LEMMA CatalogueModels == DOMAIN ModelsServed \subseteq Models
<1> QED
  BY DEF ModelsServed

(* A report keeps the types of its fields, and what it does not await any  *)
(* more it has.                                                            *)
LEMMA ReportTypesStep ==
    ASSUME ControlInv, [Next]_controlVars
    PROVE  ReportTypes' /\ CountersTaken' /\ GetsWorker'
<1>0. /\ ReportTypes /\ CountersTaken /\ GetsWorker /\ FleetTypes
      /\ Shape(report) /\ report.todo \in Seq(Kinds)
  BY DEF ControlInv, ReportTypes
<1>1. ASSUME report' = report
      PROVE  ReportTypes' /\ CountersTaken' /\ GetsWorker'
  BY <1>0, <1>1 DEF ReportTypes, CountersTaken, GetsWorker, Awaited
<1>2. ASSUME report' = NoReport
      PROVE  ReportTypes' /\ CountersTaken' /\ GetsWorker'
  BY <1>2, NoReportFacts, FS_EmptySet
  DEF ReportTypes, CountersTaken, GetsWorker, Awaited, Holds, Names
<1>3. ASSUME NEW endpoint \in Names, NEW id \in Workers \cup {Nobody},
             BeginReport(endpoint, id)
      PROVE  ReportTypes' /\ CountersTaken' /\ GetsWorker'
  BY <1>3, BeginFacts, SnapshotsFacts, FS_EmptySet
  DEF ReportTypes, CountersTaken, GetsWorker, Awaited, Names
<1>4. ASSUME TakeList
      PROVE  ReportTypes' /\ CountersTaken' /\ GetsWorker'
  <2>1. DOMAIN ListWorkers = DOMAIN members
    BY DEF ListWorkers
  <2>2. ReportTypes'
    BY <1>0, <1>4, <2>1, TakeListFacts, TailFacts DEF ReportTypes, FleetTypes
  <2>3. CountersTaken' /\ GetsWorker'
    BY <1>0, <1>4, TakeListFacts, TailFacts
    DEF CountersTaken, GetsWorker, Awaited, Kinds
  <2> QED
    BY <2>2, <2>3
<1>5. ASSUME TakeWorker, report' # NoReport
      PROVE  ReportTypes' /\ CountersTaken' /\ GetsWorker'
  <2>0. /\ Shape(report') /\ report'.endpoint = report.endpoint
        /\ report.todo # <<>> /\ report'.todo = Tail(report.todo)
        /\ report.id \in DOMAIN members /\ DOMAIN report'.listed = {report.id}
        /\ report'.counters = report.counters /\ report'.catalogue = report.catalogue
    BY <1>0, <1>5, TakeWorkerFacts
  <2>3. DOMAIN report'.listed \subseteq Workers /\ IsFiniteSet(DOMAIN report'.listed)
    <3>1. IsFiniteSet({report.id})
      BY FS_Singleton
    <3> QED
      BY <1>0, <2>0, <3>1 DEF FleetTypes
  <2>1. ReportTypes'
    BY <1>0, <2>0, <2>3, TailFacts DEF ReportTypes
  <2>2. CountersTaken' /\ GetsWorker'
    BY <1>0, <1>5, TakeWorkerFacts, TailFacts
    DEF CountersTaken, GetsWorker, Awaited, Kinds
  <2> QED
    BY <2>1, <2>2
<1>6. ASSUME TakeCount
      PROVE  ReportTypes' /\ CountersTaken' /\ GetsWorker'
  <2>1. ReportTypes'
    BY <1>0, <1>6, TakeCountFacts, TailFacts DEF ReportTypes
  <2>2. CountersTaken' /\ GetsWorker'
    BY <1>0, <1>6, TakeCountFacts, TailFacts
    DEF CountersTaken, GetsWorker, Awaited, Kinds
  <2> QED
    BY <2>1, <2>2
<1>7. ASSUME TakeCatalogue
      PROVE  ReportTypes' /\ CountersTaken' /\ GetsWorker'
  <2>1. ReportTypes'
    BY <1>0, <1>7, TakeCatalogueFacts, TailFacts, CatalogueModels DEF ReportTypes
  <2>2. CountersTaken' /\ GetsWorker'
    BY <1>0, <1>7, TakeCatalogueFacts, TailFacts
    DEF CountersTaken, GetsWorker, Awaited, Kinds
  <2> QED
    BY <2>1, <2>2
<1>8. ASSUME NEW w \in Workers, LoadCounter(w)
      PROVE  ReportTypes' /\ CountersTaken' /\ GetsWorker'
  <2>0. inFlight[w] \in Nat
    <3>1. At(w) \in SUBSET Handlers /\ inFlight[w] = Cardinality(At(w))
      BY DEF At, ControlInv, RoutingInv, CountersAccurate
    <3> QED
      BY <3>1, HandlersAssumption, FS_Subset, FS_CardinalityType
  <2>1. ReportTypes'
    BY <1>0, <1>8, <2>0, LoadCounterFacts, TailFacts DEF ReportTypes
  <2>2. CountersTaken' /\ GetsWorker'
    BY <1>0, <1>8, LoadCounterFacts, TailFacts
    DEF CountersTaken, GetsWorker, Awaited, Kinds
  <2> QED
    BY <2>1, <2>2
<1>9. Watch => report' = report \/ report' = NoReport
  BY DEF Watch
<1> QED
  BY <1>1, <1>2, <1>3, <1>4, <1>5, <1>6, <1>7, <1>8, <1>9, StepKinds
  DEF Reported, FleetChanges, Request, Routed, controlVars, reportVars

(* The history is finite, and what stayed was there.                       *)
LEMMA HistoryTypesStep ==
    ASSUME ControlInv, RoutingInv', [Next]_controlVars
    PROVE  HistoryTypes'
<1>0. /\ HistoryTypes /\ IsFiniteSet(Underway) /\ IsFiniteSet(Underway') /\ Shape(report)
  <2>1. IsFiniteSet(Underway)'
    BY UnderwayFacts, PTL
  <2> QED
    BY <2>1, UnderwayFacts DEF ControlInv, ReportTypes
<1>1. ASSUME Watch
      PROVE  HistoryTypes'
  <2>1. IsFiniteSet(visited \cup Underway') /\ IsFiniteSet({})
    BY <1>0, FS_Union, FS_EmptySet DEF HistoryTypes
  <2>2. IsFiniteSet(visited') /\ stayed' \subseteq visited'
    BY <1>0, <1>1, <2>1 DEF Watch, HistoryTypes
  <2>3. (Reporting /\ ~OfLoad(report.endpoint) => stayed = {})'
    BY <1>0, <1>1, NoReportFacts DEF Watch, HistoryTypes, Reporting
  <2> QED
    BY <2>2, <2>3 DEF HistoryTypes
<1>2. ASSUME NEW endpoint \in Names, NEW id \in Workers \cup {Nobody},
             BeginReport(endpoint, id)
      PROVE  HistoryTypes'
  <2>1. /\ stayed' = IF OfLoad(endpoint) THEN Underway ELSE {}
        /\ visited' = stayed' /\ report'.endpoint = endpoint
    BY <1>2, BeginFacts DEF BeginReport
  <2> QED
    BY <1>0, <2>1, FS_EmptySet DEF HistoryTypes, OfLoad
<1>3. ASSUME UNCHANGED <<stayed, visited>>, Reporting' => Reporting,
             report'.endpoint = report.endpoint \/ report' = NoReport
      PROVE  HistoryTypes'
  BY <1>0, <1>3, NoReportFacts DEF HistoryTypes, OfLoad, Reporting
<1>4. ASSUME TakeList \/ TakeWorker \/ TakeCount \/ TakeCatalogue
                \/ \E w \in Workers : LoadCounter(w)
      PROVE  HistoryTypes'
  <2>1. UNCHANGED <<stayed, visited>> /\ Reporting
    BY <1>4 DEF TakeList, TakeWorker, TakeCount, TakeCatalogue, LoadCounter, Take
  <2>2. report'.endpoint = report.endpoint \/ report' = NoReport
    BY <1>0, <1>4, TakeListFacts, TakeWorkerFacts, TakeCountFacts, TakeCatalogueFacts,
       LoadCounterFacts
  <2> QED
    BY <1>3, <2>1, <2>2
<1>5. CASE UNCHANGED controlVars
  BY <1>3, <1>5 DEF controlVars, reportVars, Reporting
<1> QED
  BY <1>1, <1>2, <1>4, <1>5, StepKinds DEF Reported, FleetChanges, Request, Routed

(* What the invariants rest on.                                            *)
LEMMA ControlInit == Init => ControlInv
<1> SUFFICES ASSUME Init
             PROVE  ControlInv
  OBVIOUS
<1>1. RoutingInv
  BY RoutingInvInit DEF Init
<1>2. Pools
  BY DEF Init, RoutingInit, Pools
<1>3. FleetTypes
  BY FS_EmptySet DEF Init, MembersInit, Empty, FleetTypes
<1>4. ReportTypes /\ CountersTaken /\ GetsWorker /\ HistoryTypes
  BY NoReportFacts, FS_EmptySet
  DEF Init, ReportTypes, CountersTaken, GetsWorker, HistoryTypes, Awaited, Holds, Names,
      Reporting
<1> QED
  BY <1>1, <1>2, <1>3, <1>4 DEF ControlInv

(* Every step keeps them.                                                  *)
LEMMA ControlStep == ControlInv /\ [Next]_controlVars => ControlInv'
<1> SUFFICES ASSUME ControlInv, [Next]_controlVars
             PROVE  ControlInv'
  OBVIOUS
<1>1. [RoutingNext]_routingVars
  BY ControlUsesRouting DEF ControlInv
<1>2. RoutingInv' /\ Pools'
  BY <1>1, RoutingStep, PoolsStep DEF ControlInv, RoutingInv
<1>3. FleetTypes'
  BY FleetStep DEF ControlInv
<1>4. ReportTypes' /\ CountersTaken' /\ GetsWorker'
  BY ReportTypesStep
<1>5. HistoryTypes'
  BY <1>2, HistoryTypesStep
<1> QED
  BY <1>2, <1>3, <1>4, <1>5 DEF ControlInv

(* So they always hold.                                                    *)
LEMMA ControlInvariant == Spec => []ControlInv
  BY ControlInit, ControlStep, PTL DEF Spec

(* The members, the requests and the report are well typed, and no counter *)
(* exceeds the number of handlers (registry.go, router.go, admin.go).      *)
THEOREM ControlTypeCorrect == Spec => []TypeOK
<1>1. ASSUME ControlInv
      PROVE  TypeOK
  <2>1. ASSUME NEW w \in Workers
        PROVE  inFlight[w] \in 0..Cardinality(Handlers)
    <3>1. At(w) \in SUBSET Handlers /\ inFlight[w] = Cardinality(At(w))
      BY <1>1 DEF At, ControlInv, RoutingInv, CountersAccurate
    <3>2. /\ Cardinality(At(w)) \in Nat /\ Cardinality(Handlers) \in Nat
          /\ Cardinality(At(w)) <= Cardinality(Handlers)
      BY <3>1, HandlersAssumption, FS_Subset, FS_CardinalityType
    <3> QED
      BY <3>1, <3>2
  <2>2. inFlight \in [Workers -> 0..Cardinality(Handlers)]
    BY <1>1, <2>1 DEF ControlInv, RoutingInv, Types
  <2> QED
    BY <1>1, <2>2 DEF ControlInv, RoutingInv, Types, Pools, FleetTypes, ReportTypes, TypeOK
<1> QED
  BY <1>1, ControlInvariant, PTL

-----------------------------------------------------------------------------
(* What there is of a finite set at one place, against a larger one.       *)
LEMMA PlaceCounts ==
    ASSUME NEW A, NEW B, NEW w, A \subseteq B, IsFiniteSet(B)
    PROVE  /\ Cardinality(Visits(A, w)) \in Nat
           /\ Cardinality(Visits(B, w)) \in Nat
           /\ Cardinality(Visits(A, w)) <= Cardinality(Visits(B, w))
<1> DEFINE S == Visits(A, w)
           T == Visits(B, w)
<1>1. S \in SUBSET T /\ T \in SUBSET B
  BY DEF Visits
<1> HIDE DEF S, T
<1>2. IsFiniteSet(T)
  BY <1>1, FS_Subset
<1>3. IsFiniteSet(S) /\ Cardinality(S) <= Cardinality(T)
  BY <1>1, <1>2, FS_Subset
<1>4. Cardinality(S) \in Nat /\ Cardinality(T) \in Nat
  BY <1>2, <1>3, FS_CardinalityType
<1> QED
  BY <1>3, <1>4 DEF S, T

(* Each counter that was read lies between those that stayed and those     *)
(* that came by, although requests move on while the others are read.      *)
LEMMA HistoryStep ==
    ASSUME ControlInv, ControlInv', HistoryInv, [Next]_controlVars
    PROVE  HistoryInv'
<1>0. /\ HistoryTypes /\ HistoryTypes' /\ Shape(report)
      /\ \A w \in DOMAIN report.counters : report.counters[w] \in Nat
  BY DEF ControlInv, ReportTypes
<1>1. ASSUME Watch
      PROVE  HistoryInv'
  <2>1. CASE Reporting /\ OfLoad(report.endpoint)
    <3>1. /\ report' = report /\ stayed' = stayed \cap Underway'
          /\ visited' = visited \cup Underway'
      BY <1>1, <2>1 DEF Watch
    <3>2. (Reporting => stayed \subseteq Underway /\ Underway \subseteq visited)'
      BY <3>1
    <3>3. ASSUME NEW w \in DOMAIN report.counters
          PROVE  /\ Cardinality(Visits(stayed', w)) <= report.counters[w]
                 /\ report.counters[w] <= Cardinality(Visits(visited', w))
      <4>1. /\ Cardinality(Visits(stayed, w)) <= report.counters[w]
            /\ report.counters[w] <= Cardinality(Visits(visited, w))
            /\ report.counters[w] \in Nat
        BY <1>0, <2>1 DEF HistoryInv
      <4>2. /\ stayed' \subseteq stayed /\ stayed \subseteq visited
            /\ visited \subseteq visited' /\ IsFiniteSet(visited) /\ IsFiniteSet(visited')
        BY <1>0, <3>1 DEF HistoryTypes
      <4>3. IsFiniteSet(stayed)
        BY <4>2, FS_Subset
      <4>4. /\ Cardinality(Visits(stayed', w)) \in Nat
            /\ Cardinality(Visits(stayed, w)) \in Nat
            /\ Cardinality(Visits(stayed', w)) <= Cardinality(Visits(stayed, w))
        BY <4>2, <4>3, PlaceCounts
      <4>5. /\ Cardinality(Visits(visited, w)) \in Nat
            /\ Cardinality(Visits(visited', w)) \in Nat
            /\ Cardinality(Visits(visited, w)) <= Cardinality(Visits(visited', w))
        BY <4>2, PlaceCounts
      <4> QED
        BY <4>1, <4>4, <4>5
    <3> QED
      BY <3>1, <3>2, <3>3 DEF HistoryInv
  <2>2. CASE Reporting /\ ~OfLoad(report.endpoint)
    BY <1>1, <2>2 DEF Watch, HistoryInv, OfLoad
  <2>3. CASE ~Reporting
    BY <1>1, <2>3, NoReportFacts DEF Watch, HistoryInv, OfLoad
  <2> QED
    BY <2>1, <2>2, <2>3
<1>2. ASSUME NEW endpoint \in Names, NEW id \in Workers \cup {Nobody},
             BeginReport(endpoint, id)
      PROVE  HistoryInv'
  <2>1. /\ stayed' = IF OfLoad(endpoint) THEN Underway ELSE {}
        /\ visited' = stayed' /\ report'.endpoint = endpoint
        /\ DOMAIN report'.counters = {} /\ target' = target
    BY <1>2, BeginFacts DEF BeginReport, routingVars
  <2>2. Underway' = Underway
    BY <2>1 DEF Underway
  <2> QED
    BY <2>1, <2>2 DEF HistoryInv, OfLoad
<1>3. ASSUME UNCHANGED <<stayed, visited, target>>, Reporting' => Reporting,
             report'.endpoint = report.endpoint, report'.counters = report.counters
      PROVE  HistoryInv'
  <2>1. Underway' = Underway
    BY <1>3 DEF Underway
  <2> QED
    BY <1>3, <2>1 DEF HistoryInv, OfLoad
<1>4. ASSUME report' = NoReport
      PROVE  HistoryInv'
  BY <1>4, NoReportFacts DEF HistoryInv, OfLoad
<1>5. ASSUME TakeList \/ TakeWorker \/ TakeCount \/ TakeCatalogue
      PROVE  HistoryInv'
  <2>1. UNCHANGED <<stayed, visited, target>> /\ Reporting
    BY <1>5 DEF TakeList, TakeWorker, TakeCount, TakeCatalogue, Take, routingVars
  <2>2. \/ report'.endpoint = report.endpoint /\ report'.counters = report.counters
        \/ report' = NoReport
    BY <1>0, <1>5, TakeListFacts, TakeWorkerFacts, TakeCountFacts, TakeCatalogueFacts
  <2> QED
    BY <1>3, <1>4, <2>1, <2>2
<1>6. ASSUME NEW w \in Workers, LoadCounter(w), OfLoad(report.endpoint)
      PROVE  HistoryInv'
  <2>1. /\ UNCHANGED <<stayed, visited, target>> /\ Reporting
        /\ report'.endpoint = report.endpoint
        /\ DOMAIN report'.counters = DOMAIN report.counters \cup {w}
        /\ report'.counters[w] = inFlight[w]
        /\ \A v \in DOMAIN report.counters : report'.counters[v] = report.counters[v]
    BY <1>0, <1>6, LoadCounterFacts DEF LoadCounter, Take, routingVars
  <2>2. Underway' = Underway
    BY <2>1 DEF Underway
  <2>3. stayed \subseteq Underway /\ Underway \subseteq visited
    BY <1>6, <2>1 DEF HistoryInv
  <2>4. IsFiniteSet(Underway) /\ Cardinality(Visits(Underway, w)) = inFlight[w]
    BY UnderwayFacts DEF ControlInv
  <2>5. /\ Cardinality(Visits(stayed, w)) <= inFlight[w]
        /\ inFlight[w] <= Cardinality(Visits(visited, w))
    BY <1>0, <2>3, <2>4, PlaceCounts DEF HistoryTypes
  <2>6. ASSUME NEW x \in DOMAIN report'.counters
        PROVE  /\ Cardinality(Visits(stayed, x)) <= report'.counters[x]
               /\ report'.counters[x] <= Cardinality(Visits(visited, x))
    BY <1>6, <2>1, <2>5 DEF HistoryInv
  <2> QED
    BY <2>1, <2>2, <2>3, <2>6 DEF HistoryInv
<1>7. ASSUME NEW w \in Workers, LoadCounter(w), ~OfLoad(report.endpoint)
      PROVE  HistoryInv'
  BY <1>0, <1>7, LoadCounterFacts DEF HistoryInv, OfLoad
<1>8. CASE UNCHANGED controlVars
  BY <1>3, <1>8 DEF controlVars, reportVars, routingVars, Reporting
<1> QED
  BY <1>1, <1>2, <1>5, <1>6, <1>7, <1>8, StepKinds
  DEF Reported, FleetChanges, Request, Routed

(* The code's sum of counters is a sum.                                    *)
LEMMA TotalIsSum == TotalInFlight = Sum(report.counters, DOMAIN report.listed)
  BY DEF TotalInFlight, MapThenSumSet, MapThenFoldSet, SumIs, Sum

(* However requests are retried, workers come and go and counters move     *)
(* while a report is made, its total counts every request that stayed at a *)
(* listed worker, and none that was at no listed worker (router.go:249-259,*)
(* admin.go:84-136).                                                       *)
THEOREM ReportAlwaysPlausible == Spec => []ReportIsPlausible
<1>1. Init => HistoryInv
  BY NoReportFacts DEF Init, HistoryInv, OfLoad
<1>2. ASSUME ControlInv, HistoryInv
      PROVE  ReportIsPlausible
  <2> SUFFICES ASSUME OfLoad(report.endpoint), ~Reporting
               PROVE  /\ Cardinality({v \in stayed : v[2] \in DOMAIN report.listed})
                            <= TotalInFlight
                      /\ TotalInFlight
                            <= Cardinality({v \in visited : v[2] \in DOMAIN report.listed})
    BY DEF ReportIsPlausible
  <2> DEFINE S == DOMAIN report.listed
             c == report.counters
             there == [v \in visited |-> v[2]]
  <2>1. DOMAIN c = Workers
    <3>1. report.endpoint \in Names \ {"warnings"}
      BY DEF OfLoad, Names
    <3>2. report.todo = <<>>
      BY DEF Reporting
    <3>3. ~Awaited("counters")
      BY <3>2 DEF Awaited, Holds
    <3> QED
      BY <1>2, <3>1, <3>3 DEF ControlInv, CountersTaken
  <2>2. /\ IsFiniteSet(S) /\ S \subseteq DOMAIN c /\ \A x \in S : c[x] \in Nat
        /\ stayed \subseteq visited /\ IsFiniteSet(visited)
    BY <1>2, <2>1 DEF ControlInv, ReportTypes, HistoryTypes
  <2>3. IsFiniteSet(stayed)
    BY <2>2, FS_Subset
  <2>4. \A x \in S : /\ Cardinality(Visits(stayed, x)) <= c[x]
                     /\ c[x] <= Cardinality(Visits(visited, x))
    BY <1>2, <2>2 DEF HistoryInv
  <2>5. ASSUME NEW x
        PROVE  /\ Here(stayed, there, x) = Visits(stayed, x)
               /\ Here(visited, there, x) = Visits(visited, x)
    BY <2>2 DEF Here, Visits
  <2>6. /\ Within(stayed, there, S) = {v \in stayed : v[2] \in S}
        /\ Within(visited, there, S) = {v \in visited : v[2] \in S}
    BY <2>2 DEF Within
  <2>7. TotalInFlight = Sum(c, S)
    BY TotalIsSum
  <2> HIDE DEF S, c, there
  <2>8. Cardinality(Within(stayed, there, S)) <= Sum(c, S)
    BY <2>2, <2>3, <2>4, <2>5, SumCounts
  <2>9. Sum(c, S) <= Cardinality(Within(visited, there, S))
    BY <2>2, <2>4, <2>5, SumCounts
  <2> QED
    BY <2>6, <2>7, <2>8, <2>9 DEF S
<1>3. ControlInv /\ ControlInv' /\ HistoryInv /\ [Next]_controlVars => HistoryInv'
  BY HistoryStep
<1> QED
  BY <1>1, <1>2, <1>3, ControlInvariant, PTL DEF Spec

-----------------------------------------------------------------------------
(* What the registry's read methods return depends on its map alone.       *)
LEMMA ReadMethods ==
    ASSUME members' = members
    PROVE  /\ ListWorkers' = ListWorkers /\ ModelsServed' = ModelsServed
           /\ \A endpoint : Tally(endpoint)' = Tally(endpoint)
<1>1. ListWorkers' = ListWorkers
  BY DEF ListWorkers
<1>2. /\ StatsTally' = StatsTally /\ CollectTally' = CollectTally
      /\ WorkerCount' = WorkerCount
  BY DEF StatsTally, CollectTally, WorkerCount, InState
<1>3. \A endpoint : Tally(endpoint)' = Tally(endpoint)
  BY <1>2 DEF Tally, Empty
<1>4. ModelsServed' = ModelsServed
  BY DEF ModelsServed, ListWorkers, ServingNow, Times, Serves, Models,
         MapThenSumSet, MapThenFoldSet
<1> QED
  BY <1>1, <1>3, <1>4

(* While nothing moves, what was taken stays true.                         *)
LEMMA QuietStep ==
    ASSUME ControlInv, QuietInv, [Next]_controlVars
    PROVE  QuietInv'
<1>0. /\ Shape(report) /\ report.todo \in Seq(Kinds) /\ GetsWorker
  BY DEF ControlInv, ReportTypes
<1>1. ASSUME report' = NoReport
      PROVE  QuietInv'
  BY <1>1, NoReportFacts DEF QuietInv
<1>2. ASSUME report' = report, calm' => calm /\ members' = members /\ inFlight' = inFlight
      PROVE  QuietInv'
  BY <1>2, ReadMethods DEF QuietInv, Awaited
<1>3. ASSUME Watch
      PROVE  QuietInv'
  <2>1. CASE Reporting
    BY <1>2, <1>3, <2>1 DEF Watch
  <2>2. CASE ~Reporting
    BY <1>1, <1>3, <2>2 DEF Watch
  <2> QED
    BY <2>1, <2>2
<1>4. ASSUME NEW endpoint \in Names, NEW id \in Workers \cup {Nobody},
             BeginReport(endpoint, id)
      PROVE  QuietInv'
  BY <1>4, BeginFacts, SnapshotsFacts DEF QuietInv, Awaited
<1>5. ASSUME UNCHANGED <<members, inFlight, calm>>
      PROVE  /\ ListWorkers' = ListWorkers /\ ModelsServed' = ModelsServed
             /\ \A endpoint : Tally(endpoint)' = Tally(endpoint)
  BY <1>5, ReadMethods
<1>6. ASSUME TakeList
      PROVE  QuietInv'
  <2>1. UNCHANGED <<members, inFlight, calm>>
    BY <1>6 DEF TakeList, routingVars
  <2> QED
    BY <1>0, <1>5, <1>6, <2>1, TakeListFacts, TailFacts DEF QuietInv, Awaited, Kinds
<1>7. ASSUME TakeWorker, report' # NoReport
      PROVE  QuietInv'
  <2>1. UNCHANGED <<members, inFlight, calm>>
    BY <1>7 DEF TakeWorker, routingVars
  <2>2. report.endpoint = "worker"
    BY <1>0, <1>7, TakeWorkerFacts, TailFacts DEF GetsWorker, Awaited
  <2> QED
    BY <1>0, <1>7, <2>1, <2>2, TakeWorkerFacts DEF QuietInv
<1>8. ASSUME TakeCount
      PROVE  QuietInv'
  <2>1. UNCHANGED <<members, inFlight, calm>>
    BY <1>8 DEF TakeCount, routingVars
  <2> QED
    BY <1>0, <1>5, <1>8, <2>1, TakeCountFacts, TailFacts DEF QuietInv, Awaited, Kinds
<1>9. ASSUME TakeCatalogue
      PROVE  QuietInv'
  <2>1. UNCHANGED <<members, inFlight, calm>>
    BY <1>9 DEF TakeCatalogue, routingVars
  <2> QED
    BY <1>0, <1>5, <1>9, <2>1, TakeCatalogueFacts, TailFacts DEF QuietInv, Awaited, Kinds
<1>10. ASSUME NEW w \in Workers, LoadCounter(w)
      PROVE  QuietInv'
  <2>1. UNCHANGED <<members, inFlight, calm>>
    BY <1>10 DEF LoadCounter, routingVars
  <2> QED
    BY <1>0, <1>5, <1>10, <2>1, LoadCounterFacts, TailFacts DEF QuietInv, Awaited, Kinds
<1>11. CASE UNCHANGED controlVars
  BY <1>2, <1>11 DEF controlVars, reportVars, routingVars
<1> QED
  BY <1>1, <1>3, <1>4, <1>6, <1>7, <1>8, <1>9, <1>10, <1>11, StepKinds
  DEF Reported, FleetChanges, Request, Routed

(* The total of a model is a sum of the terms the code adds.               *)
LEMMA ModelTotalIsSum ==
    ASSUME NEW m, NEW S, S = DOMAIN report.listed, NEW c,
           c = [id \in S |-> Times(report.listed[id], m) * report.counters[id]]
    PROVE  ModelInFlight(m) = Sum(c, S)
<1> DEFINE P(f) == f = [s \in SUBSET S |-> IF s = {} THEN 0
                          ELSE LET x == CHOOSE x \in s : TRUE
                               IN  Times(report.listed[x], m) * report.counters[x] + f[s \ {x}]]
<1>1. ModelInFlight(m) = (CHOOSE f : P(f))[S]
  BY DEF ModelInFlight, MapThenSumSet, MapThenFoldSet
<1>2. ASSUME NEW f
      PROVE  P(f) <=> SumIs(f, c, S)
  <2>1. ASSUME NEW s \in SUBSET S, s # {}
        PROVE  LET x == CHOOSE x \in s : TRUE
               IN  c[x] = Times(report.listed[x], m) * report.counters[x]
    <3> DEFINE x == CHOOSE x \in s : TRUE
    <3>1. x \in S
      BY <2>1
    <3> HIDE DEF x
    <3>2. c[x] = Times(report.listed[x], m) * report.counters[x]
      BY <3>1
    <3> QED
      BY <3>2 DEF x
  <2> QED
    BY <2>1 DEF SumIs
<1>3. (CHOOSE f : P(f)) = (CHOOSE f : SumIs(f, c, S))
  <2> HIDE DEF P
  <2> QED
    BY <1>2
<1> QED
  BY <1>1, <1>3 DEF Sum

(* The catalogue's count of healthy workers is a sum.                      *)
LEMMA HealthyIsSum ==
    ASSUME NEW m, NEW S, S = DOMAIN members, NEW c,
           c = [id \in S |-> IF ServingNow(id) THEN Times(ListWorkers[id], m) ELSE 0],
           m \in DOMAIN ModelsServed
    PROVE  ModelsServed[m].HealthyWorkers = Sum(c, S)
<1> DEFINE e(id) == IF ServingNow(id) THEN Times(ListWorkers[id], m) ELSE 0
           P(f) == f = [s \in SUBSET S |-> IF s = {} THEN 0
                          ELSE LET x == CHOOSE x \in s : TRUE IN e(x) + f[s \ {x}]]
<1>1. ModelsServed[m].HealthyWorkers = (CHOOSE f : P(f))[S]
  BY DEF ModelsServed, MapThenSumSet, MapThenFoldSet
<1>2. ASSUME NEW f
      PROVE  P(f) <=> SumIs(f, c, S)
  <2>1. ASSUME NEW s \in SUBSET S, s # {}
        PROVE  LET x == CHOOSE x \in s : TRUE IN c[x] = e(x)
    <3> DEFINE x == CHOOSE x \in s : TRUE
    <3>1. x \in S
      BY <2>1
    <3> HIDE DEF x
    <3>2. c[x] = e(x)
      BY <3>1
    <3> QED
      BY <3>2 DEF x
  <2> HIDE DEF e
  <2> QED
    BY <2>1 DEF SumIs
<1>3. (CHOOSE f : P(f)) = (CHOOSE f : SumIs(f, c, S))
  <2> HIDE DEF P
  <2> QED
    BY <1>2
<1> QED
  BY <1>1, <1>3 DEF Sum

(* No worker is started with a model listed twice.                         *)
NoRepetition ==
    \A list \in ModelLists : \A i, j \in DOMAIN list : list[i] = list[j] => i = j

(* Without repetition a worker counts once for a model it serves.          *)
LEMMA TimesFacts ==
    ASSUME NoRepetition, NEW list \in ModelLists, NEW m
    PROVE  Times(list, m) = IF Serves(list, m) THEN 1 ELSE 0
<1>1. CASE Serves(list, m)
  <2>1. PICK i \in DOMAIN list : list[i] = m
    BY <1>1 DEF Serves
  <2>2. {j \in DOMAIN list : list[j] = m} = {i}
    BY <2>1 DEF NoRepetition
  <2> QED
    BY <1>1, <2>2, FS_Singleton DEF Times
<1>2. CASE ~Serves(list, m)
  <2>1. {j \in DOMAIN list : list[j] = m} = {}
    BY <1>2 DEF Serves
  <2> QED
    BY <1>2, <2>1, FS_EmptySet DEF Times
<1> QED
  BY <1>1, <1>2

(* The sum over the places in S, when each is counted exactly.             *)
LEMMA SumIsCount ==
    ASSUME NEW S, NEW c, NEW V, NEW place, IsFiniteSet(S), IsFiniteSet(V),
           \A x \in S : c[x] = Cardinality(Here(V, place, x))
    PROVE  Sum(c, S) = Cardinality(Within(V, place, S))
<1>1. ASSUME NEW x \in S
      PROVE  c[x] \in Nat
  <2>1. Here(V, place, x) \in SUBSET V
    BY DEF Here
  <2> QED
    BY <2>1, FS_Subset, FS_CardinalityType
<1>2. Cardinality(Within(V, place, S)) \in Nat
  <2>1. Within(V, place, S) \in SUBSET V
    BY DEF Within
  <2> QED
    BY <2>1, FS_Subset, FS_CardinalityType
<1>3. /\ \A x \in S : c[x] \in Nat
      /\ \A x \in S : Cardinality(Here(V, place, x)) <= c[x]
      /\ \A x \in S : c[x] <= Cardinality(Here(V, place, x))
  BY <1>1
<1>4. /\ Cardinality(Within(V, place, S)) <= Sum(c, S)
      /\ Sum(c, S) <= Cardinality(Within(V, place, S))
      /\ Sum(c, S) \in Nat
  BY <1>3, SumCounts
<1> QED
  BY <1>2, <1>4

(* The handlers at the members, counted by the loads of a quiet report.    *)
LEMMA QuietCounters ==
    ASSUME ControlInv, QuietInv, calm, ~Reporting,
           report.endpoint \in {"stats", "models", "metrics"}
    PROVE  /\ report.listed = ListWorkers /\ DOMAIN report.listed = DOMAIN members
           /\ report.tally = Tally(report.endpoint)
           /\ \A w \in Workers : report.counters[w] = Cardinality(At(w))
<1>1. report.todo = <<>>
  BY DEF Reporting
<1>2. ~Awaited("list") /\ ~Awaited("counters")
  BY <1>1 DEF Awaited, Holds
<1>3. DOMAIN report.counters = Workers
  BY <1>2 DEF ControlInv, CountersTaken, Names
<1>4. \A w \in Workers : report.counters[w] = Cardinality(At(w))
  BY <1>3 DEF QuietInv, ControlInv, RoutingInv, CountersAccurate, At
<1>5. report.listed = ListWorkers /\ report.tally = Tally(report.endpoint)
  BY <1>2 DEF QuietInv
<1> QED
  BY <1>4, <1>5 DEF ListWorkers

(* The members in one of these states.                                     *)
Those(states) == {id \in DOMAIN members : members[id].State \in states}

(* Workers in states of two kinds are counted apart.                       *)
LEMMA CountedApart ==
    ASSUME NEW A, NEW B, NEW C, C = A \cup B, A \cap B = {}, IsFiniteSet(DOMAIN members)
    PROVE  /\ InState(A) \in Nat /\ InState(B) \in Nat
           /\ InState(C) = InState(A) + InState(B)
<1>1. /\ Those(C) = Those(A) \cup Those(B) /\ Those(A) \cap Those(B) = {}
      /\ Those(A) \in SUBSET (DOMAIN members) /\ Those(B) \in SUBSET (DOMAIN members)
  BY DEF Those
<1>2. IsFiniteSet(Those(A)) /\ IsFiniteSet(Those(B))
  BY <1>1, FS_Subset
<1>3. /\ Cardinality(Those(A)) \in Nat /\ Cardinality(Those(B)) \in Nat
      /\ Cardinality(Those(A) \cap Those(B)) = 0
  BY <1>1, <1>2, FS_CardinalityType, FS_EmptySet
<1>4. Cardinality(Those(C)) = Cardinality(Those(A)) + Cardinality(Those(B))
                              - Cardinality(Those(A) \cap Those(B))
  BY <1>1, <1>2, FS_Union
<1>5. Cardinality(Those(C)) = Cardinality(Those(A)) + Cardinality(Those(B))
  BY <1>3, <1>4
<1> QED
  BY <1>3, <1>5 DEF Those, InState

(* The tests of stats and of Collect count what the router is offered, and *)
(* the counts of stats cover every member (admin.go:117-131, metrics.go:   *)
(* 72-87).                                                                 *)
LEMMA TallyFacts ==
    ASSUME FleetTypes
    PROVE  /\ InState({"READY", "BUSY"}) = Cardinality(Routable)
           /\ InState({"READY"}) + InState({"BUSY"}) = Cardinality(Routable)
           /\ Cardinality(DOMAIN members) =
                 InState({"READY", "BUSY"}) + InState({"STARTING"})
                 + InState({"DRAINING"}) + InState({"DEAD"})
<1> DEFINE H == {"READY", "BUSY"}
           S == H \cup {"STARTING"}
           D == S \cup {"DRAINING"}
           All == D \cup {"DEAD"}
<1>0. IsFiniteSet(DOMAIN members)
  BY DEF FleetTypes
<1>1. Those(H) = Routable
  BY DEF Those, Routable, Healthy
<1>2. Those(All) = DOMAIN members
  <2>1. \A id \in DOMAIN members : members[id].State \in WorkerState
    BY DEF FleetTypes, Member
  <2> QED
    BY <2>1 DEF Those, WorkerState
<1>3. InState(H) = InState({"READY"}) + InState({"BUSY"})
  <2>1. H = {"READY"} \cup {"BUSY"} /\ {"READY"} \cap {"BUSY"} = {}
    OBVIOUS
  <2> QED
    BY <1>0, <2>1, CountedApart
<1>4. /\ H \cap {"STARTING"} = {} /\ S \cap {"DRAINING"} = {} /\ D \cap {"DEAD"} = {}
  OBVIOUS
<1>5. InState(S) = InState(H) + InState({"STARTING"})
  BY <1>0, <1>4, CountedApart
<1>6. InState(D) = InState(S) + InState({"DRAINING"})
  BY <1>0, <1>4, CountedApart
<1>7. InState(All) = InState(D) + InState({"DEAD"})
  BY <1>0, <1>4, CountedApart
<1> QED
  BY <1>1, <1>2, <1>3, <1>5, <1>6, <1>7 DEF InState, Those

(* A report during which nothing moved tells the truth, for any fleet, any *)
(* models and any number of requests, if no worker lists a model twice     *)
(* (admin.go:84-164, metrics.go:63-103, scaler.go:95-109).                 *)
THEOREM QuietReportAlwaysExact ==
    ASSUME NoRepetition
    PROVE  Spec => []QuietReportIsExact
<1>1. Init => QuietInv
  BY DEF Init, QuietInv
<1>2. ControlInv /\ QuietInv /\ [Next]_controlVars => QuietInv'
  BY QuietStep
<1>3. ASSUME ControlInv, QuietInv
      PROVE  QuietReportIsExact
  <2> SUFFICES ASSUME calm
               PROVE  QuietReportIsExact
    BY DEF QuietReportIsExact
  <2>0. /\ IsFiniteSet(DOMAIN members) /\ DOMAIN members \subseteq Workers
        /\ \A id \in DOMAIN members : members[id].ModelsLoaded \in ModelLists
        /\ IsFiniteSet(Handlers)
    BY <1>3, HandlersAssumption DEF ControlInv, FleetTypes, Member
  <2>1. ASSUME Complete("stats")
        PROVE  /\ report.tally.Healthy = Cardinality(Routable)
               /\ report.tally.Total = report.tally.Healthy + report.tally.Starting
                                       + report.tally.Draining + report.tally.Dead
               /\ TotalInFlight =
                     Cardinality({h \in Handlers : target[h] \in DOMAIN members})
    <3>1. /\ DOMAIN report.listed = DOMAIN members /\ report.tally = StatsTally
          /\ \A w \in Workers : report.counters[w] = Cardinality(At(w))
      BY <1>3, <2>1, QuietCounters DEF Complete, Tally
    <3>2. \A w : Here(Handlers, target, w) = At(w)
      BY DEF Here, At
    <3>3. Sum(report.counters, DOMAIN members) =
              Cardinality(Within(Handlers, target, DOMAIN members))
      BY <2>0, <3>1, <3>2, SumIsCount
    <3>4. TotalInFlight = Cardinality({h \in Handlers : target[h] \in DOMAIN members})
      BY <3>1, <3>3, TotalIsSum DEF Within
    <3>5. /\ report.tally.Healthy = InState({"READY", "BUSY"})
          /\ report.tally.Total = Cardinality(DOMAIN members)
          /\ report.tally.Starting = InState({"STARTING"})
          /\ report.tally.Draining = InState({"DRAINING"})
          /\ report.tally.Dead = InState({"DEAD"})
      BY <3>1 DEF StatsTally
    <3> QED
      BY <1>3, <3>4, <3>5, TallyFacts DEF ControlInv
  <2>4. ASSUME Complete("metrics")
        PROVE  /\ report.tally["READY"] + report.tally["BUSY"] = Cardinality(Routable)
               /\ \A w \in Workers :
                     report.counters[w] = Cardinality({h \in Handlers : target[h] = w})
    <3>1. /\ report.tally = CollectTally
          /\ \A w \in Workers : report.counters[w] = Cardinality(At(w))
      BY <1>3, <2>4, QuietCounters DEF Complete, Tally
    <3>2. /\ report.tally["READY"] = InState({"READY"})
          /\ report.tally["BUSY"] = InState({"BUSY"})
      BY <3>1 DEF CollectTally, WorkerState
    <3> QED
      BY <1>3, <3>1, <3>2, TallyFacts DEF ControlInv, At
  <2>5. ASSUME Complete("warnings")
        PROVE  report.tally.healthy = Cardinality(Routable)
    <3>1. report.todo = <<>>
      BY <2>5 DEF Complete, Reporting
    <3>2. ~Awaited("count")
      BY <3>1 DEF Awaited, Holds
    <3>3. report.tally = WorkerCount
      BY <1>3, <2>5, <3>2 DEF QuietInv, Complete, Tally
    <3>4. {id \in DOMAIN members : members[id].State = "READY" \/ members[id].State = "BUSY"}
             = Routable
      BY DEF Routable, Healthy
    <3> QED
      BY <3>3, <3>4 DEF WorkerCount
  <2>2. ASSUME Complete("models"), NEW m \in Models
        PROVE  ModelInFlight(m) = Cardinality({h \in Handlers :
                  target[h] \in DOMAIN members /\ Serves(members[target[h]].ModelsLoaded, m)})
    <3> DEFINE S == DOMAIN members
               V == {h \in Handlers :
                       target[h] \in S /\ Serves(members[target[h]].ModelsLoaded, m)}
               c == [id \in S |-> Times(report.listed[id], m) * report.counters[id]]
    <3>1. /\ report.listed = ListWorkers /\ DOMAIN report.listed = S
          /\ \A w \in Workers : report.counters[w] = Cardinality(At(w))
      BY <1>3, <2>2, QuietCounters DEF Complete
    <3>2. IsFiniteSet(V)
      BY <2>0, FS_Subset
    <3>3. ASSUME NEW x \in S
          PROVE  c[x] = Cardinality(Here(V, target, x))
      <4> DEFINE list == members[x].ModelsLoaded
      <4>1. report.listed[x] = list /\ list \in ModelLists
        BY <2>0, <3>1 DEF ListWorkers
      <4>2. Times(report.listed[x], m) = IF Serves(list, m) THEN 1 ELSE 0
        BY <4>1, TimesFacts
      <4>3. report.counters[x] = Cardinality(At(x)) /\ Cardinality(At(x)) \in Nat
        <5>1. At(x) \in SUBSET Handlers
          BY DEF At
        <5> QED
          BY <2>0, <3>1, <5>1, FS_Subset, FS_CardinalityType
      <4>4. c[x] = IF Serves(list, m) THEN Cardinality(At(x)) ELSE 0
        BY <4>2, <4>3
      <4>5. Here(V, target, x) = IF Serves(list, m) THEN At(x) ELSE {}
        BY DEF Here, At
      <4> QED
        BY <4>4, <4>5, FS_EmptySet
    <3>4. Within(V, target, S) = V
      BY DEF Within
    <3>5. ModelInFlight(m) = Sum(c, S)
      BY <3>1, ModelTotalIsSum
    <3> HIDE DEF S, V, c
    <3>6. Sum(c, S) = Cardinality(Within(V, target, S))
      BY <2>0, <3>2, <3>3, SumIsCount DEF S
    <3> QED
      BY <3>4, <3>5, <3>6 DEF V, S
  <2>3. ASSUME Complete("models") \/ Complete("metrics") \/ Complete("warnings"),
               NEW m \in Models, HealthyWorkersForModel(m) # {}
        PROVE  /\ m \in DOMAIN report.catalogue
               /\ report.catalogue[m].HealthyWorkers =
                     Cardinality(HealthyWorkersForModel(m))
    <3> DEFINE S == DOMAIN members
               V == HealthyWorkersForModel(m)
               self == [id \in S |-> id]
               c == [id \in S |-> IF ServingNow(id) THEN Times(ListWorkers[id], m) ELSE 0]
    <3>1. report.catalogue = ModelsServed
      <4>1. report.todo = <<>>
        BY <2>3 DEF Complete, Reporting
      <4>2. ~Awaited("catalogue")
        BY <4>1 DEF Awaited, Holds
      <4> QED
        BY <1>3, <2>3, <4>2 DEF QuietInv, Complete
    <3>2. V \in SUBSET S
      BY DEF HealthyWorkersForModel
    <3>3. m \in DOMAIN ModelsServed
      BY <2>3 DEF ModelsServed, HealthyWorkersForModel, ListWorkers
    <3>4. ASSUME NEW x \in S
          PROVE  c[x] = Cardinality(Here(V, self, x))
      <4> DEFINE list == members[x].ModelsLoaded
      <4>1. ListWorkers[x] = list /\ list \in ModelLists
        BY <2>0 DEF ListWorkers
      <4>2. Times(ListWorkers[x], m) = IF Serves(list, m) THEN 1 ELSE 0
        BY <4>1, TimesFacts
      <4>3. c[x] = IF Healthy(members[x]) /\ Serves(list, m) THEN 1 ELSE 0
        BY <4>2 DEF ServingNow, Healthy
      <4>4. Here(V, self, x) = IF Healthy(members[x]) /\ Serves(list, m) THEN {x} ELSE {}
        BY DEF Here, HealthyWorkersForModel
      <4> QED
        BY <4>3, <4>4, FS_EmptySet, FS_Singleton
    <3>5. Within(V, self, S) = V
      BY <3>2 DEF Within
    <3>6. ModelsServed[m].HealthyWorkers = Sum(c, S)
      BY <3>3, HealthyIsSum
    <3> HIDE DEF V, self, c
    <3>7. IsFiniteSet(V)
      BY <2>0, <3>2, FS_Subset
    <3>8. Sum(c, S) = Cardinality(Within(V, self, S))
      BY <2>0, <3>4, <3>7, SumIsCount
    <3> QED
      BY <3>1, <3>3, <3>5, <3>6, <3>8 DEF V
  <2> QED
    BY <2>1, <2>2, <2>3, <2>4, <2>5 DEF QuietReportIsExact
<1> QED
  BY <1>1, <1>2, <1>3, ControlInvariant, PTL DEF Spec
=============================================================================
