---------------------------- MODULE ControlPlane ----------------------------
(***************************************************************************)
(* The control plane put together: requests routed over a fleet that       *)
(* changes under them, and the reports an operator gets of it meanwhile    *)
(* (control-plane/api/admin.go, control-plane/metrics/metrics.go, the      *)
(* warnings of control-plane/scaler/scaler.go).  Registry and router are   *)
(* the abstract Membership and Routing.                                    *)
(*                                                                         *)
(* A report is made of several snapshots, each consistent in itself except *)
(* InFlightSnapshot, which loads one counter after the other; anything may *)
(* happen between them.  The counters of all workers exist from the start; *)
(* one that the code has not made yet is reported as 0.                    *)
(*                                                                         *)
(* Drain requests are left out: only a worker reacts to them (Fleet).      *)
(***************************************************************************)
EXTENDS Membership, Routing, Sequences, FiniteSetsExt

CONSTANTS
    Endpoints,  \* the reports that are asked for
    ModelsOf,   \* worker -> the models it is started with
    Hanging     \* workers that may keep a request without answering or breaking

ASSUME ModelsOfAssumption == ModelsOf \in [Workers -> ModelLists]
ASSUME TimeoutAssumption == DeadTimeout \in Nat
ASSUME HangingAssumption == Hanging \subseteq Workers
ASSUME EndpointsAssumption ==
    Endpoints \subseteq {"workers", "worker", "stats", "models", "metrics", "warnings"}

VARIABLES
    report,     \* the report being made, or the last one made
    stayed,     \* history: <<handler, worker>>, its request there ever since
    visited,    \* history: <<handler, worker>>, its request there at some time
    calm        \* history: no worker or counter changed since the report began

reportVars == <<report, stayed, visited, calm>>
controlVars == <<members, routingVars, reportVars>>

Models == UNION {{list[i] : i \in DOMAIN list} : list \in ModelLists}

-----------------------------------------------------------------------------
(* The registry's read methods.                                            *)
(* The states of the listed workers are tallied at once, so of the entries *)
(* ListWorkers and GetWorker return the report keeps the models.           *)
ListWorkers == [id \in DOMAIN members |-> members[id].ModelsLoaded]

GetWorker(id) == [x \in {id} |-> members[x].ModelsLoaded]

Serves(list, m) == \E i \in DOMAIN list : list[i] = m

HealthyWorkersForModel(m) ==
    {id \in DOMAIN members : Healthy(members[id]) /\ Serves(members[id].ModelsLoaded, m)}

(* Four places count the workers that serve, each with a test of its own.  *)
InState(states) == Cardinality({id \in DOMAIN members : members[id].State \in states})

(* Mutant of StatsTally: a busy worker does not count as healthy.          *)
StatsTallyReady ==
    [Total |-> Cardinality(DOMAIN members), Healthy |-> InState({"READY"}),
     Starting |-> InState({"STARTING"}), Draining |-> InState({"DRAINING"}),
     Dead |-> InState({"DEAD"})]

(* The switch of stats.                                                    *)
StatsTally ==
    [Total |-> Cardinality(DOMAIN members), Healthy |-> InState({"READY", "BUSY"}),
     Starting |-> InState({"STARTING"}), Draining |-> InState({"DRAINING"}),
     Dead |-> InState({"DEAD"})]

(* The switch of Collect: a gauge per state.                               *)
CollectTally == [s \in WorkerState |-> InState({s})]

WorkerCount ==
    [total |-> Cardinality(DOMAIN members),
     healthy |-> Cardinality({id \in DOMAIN members :
                     members[id].State = "READY" \/ members[id].State = "BUSY"})]

(* What a report counts of the workers' states.                            *)
Tally(endpoint) ==
    CASE endpoint = "stats"    -> StatsTally
      [] endpoint = "metrics"  -> CollectTally
      [] endpoint = "warnings" -> WorkerCount
      [] OTHER                 -> Empty

(* How often a worker lists a model.                                       *)
Times(list, m) == Cardinality({i \in DOMAIN list : list[i] = m})

(* The test of ModelsServed.                                               *)
ServingNow(id) == members[id].State = "READY" \/ members[id].State = "BUSY"

ModelsServed ==
    [m \in {x \in Models : \E id \in DOMAIN members : Serves(ListWorkers[id], x)} |->
        [TotalWorkers |->
            MapThenSumSet(LAMBDA id : Times(ListWorkers[id], m), DOMAIN members),
         HealthyWorkers |->
            MapThenSumSet(LAMBDA id : IF ServingNow(id) THEN Times(ListWorkers[id], m)
                                      ELSE 0, DOMAIN members)]]

-----------------------------------------------------------------------------
(* The snapshots each report takes, in its order.  "warnings" is the end   *)
(* of the scaler's Sweep.                                                  *)
Snapshots(endpoint) ==
    CASE endpoint = "workers"  -> <<"counters", "list">>
      [] endpoint = "worker"   -> <<"get", "counters">>
      [] endpoint = "stats"    -> <<"list", "counters">>
      [] endpoint = "models"   -> <<"catalogue", "counters", "list">>
      [] endpoint = "metrics"  -> <<"list", "counters", "catalogue">>
      [] endpoint = "warnings" -> <<"count", "catalogue">>

NoReport ==
    [endpoint |-> "none", id |-> Nobody, todo |-> <<>>,
     listed |-> Empty, tally |-> Empty, counters |-> Empty, catalogue |-> Empty]

Init ==
    /\ MembersInit
    /\ RoutingInit
    /\ report = NoReport
    /\ stayed = {} /\ visited = {}
    /\ calm = FALSE

Underway == {<<h, target[h]>> : h \in {g \in Handlers : target[g] # Nobody}}

Reporting == report.todo # <<>>

(* Reports of the load at the workers; for these the history tells where   *)
(* the requests were meanwhile.                                            *)
OfLoad(endpoint) == endpoint \in {"workers", "worker", "stats"}

(* The history, kept by every step of the fleet and of the router.         *)
Watch ==
    /\ stayed' = IF Reporting THEN stayed \cap Underway' ELSE {}
    /\ visited' = IF Reporting /\ OfLoad(report.endpoint) THEN visited \cup Underway'
                                                          ELSE {}
    /\ calm' = (calm /\ Reporting /\ UNCHANGED <<members, inFlight>>)
    /\ report' = IF Reporting THEN report ELSE NoReport

(* GET /admin/..., a scrape of /metrics, or a sweep.                       *)
BeginReport(endpoint, id) ==
    /\ ~Reporting
    /\ report' = [NoReport EXCEPT !.endpoint = endpoint, !.id = id,
                                  !.todo = Snapshots(endpoint)]
    /\ stayed' = IF OfLoad(endpoint) THEN Underway ELSE {}
    /\ visited' = stayed'
    /\ calm' = TRUE
    /\ UNCHANGED <<members, routingVars>>

Take(snapshot) == Reporting /\ Head(report.todo) = snapshot

TakeList ==
    /\ Take("list")
    /\ report' = [report EXCEPT !.listed = ListWorkers, !.todo = Tail(@),
                                !.tally = Tally(report.endpoint)]
    /\ UNCHANGED <<members, routingVars, stayed, visited, calm>>

(* An unknown worker is 404, and that is all.                              *)
TakeWorker ==
    /\ Take("get")
    /\ report' = IF report.id \in DOMAIN members
                 THEN [report EXCEPT !.listed = GetWorker(report.id), !.todo = Tail(@)]
                 ELSE NoReport
    /\ UNCHANGED <<members, routingVars, stayed, visited, calm>>

TakeCount ==
    /\ Take("count")
    /\ report' = [report EXCEPT !.tally = Tally(report.endpoint), !.todo = Tail(@)]
    /\ UNCHANGED <<members, routingVars, stayed, visited, calm>>

TakeCatalogue ==
    /\ Take("catalogue")
    /\ report' = [report EXCEPT !.catalogue = ModelsServed, !.todo = Tail(@)]
    /\ UNCHANGED <<members, routingVars, stayed, visited, calm>>

(* InFlightSnapshot loads the counter of w.                                *)
LoadCounter(w) ==
    /\ Take("counters")
    /\ w \notin DOMAIN report.counters
    /\ LET loaded == Put(report.counters, w, inFlight[w]) IN
       report' = [report EXCEPT !.counters = loaded,
                                !.todo = IF DOMAIN loaded = Workers THEN Tail(@) ELSE @]
    /\ UNCHANGED <<members, routingVars, stayed, visited, calm>>

(* TotalInFlight of stats.                                                 *)
TotalInFlight ==
    MapThenSumSet(LAMBDA id : report.counters[id], DOMAIN report.listed)

(* TotalInFlight of a model: workersByModel and its sum.                   *)
ModelInFlight(m) ==
    MapThenSumSet(LAMBDA id : Times(report.listed[id], m) * report.counters[id],
                  DOMAIN report.listed)

-----------------------------------------------------------------------------
(* The fleet changes: the registry's operations.                           *)
FleetChanges ==
    /\ \/ \E id \in Workers, age \in 0..DeadTimeout : Join(id, ModelsOf[id], age)
       \/ \E id \in Workers, s \in WorkerState : Beat(id, s)
       \/ \E id \in Workers : Suspect(id)
       \/ \E id \in Workers : Leave(id)
       \/ Pass
    /\ UNCHANGED routingVars
    /\ Watch

(* A request for a model arrives.                                          *)
Request(h) ==
    /\ \E m \in Models : Arrive(h, HealthyWorkersForModel(m))
    /\ UNCHANGED members
    /\ Watch

Routed(h) == Route(h) /\ UNCHANGED members /\ Watch

Next ==
    \/ FleetChanges
    \/ \E h \in Handlers : Request(h)
    \/ \E h \in Handlers : Routed(h)
    \/ \E endpoint \in Endpoints \ {"worker"} : BeginReport(endpoint, Nobody)
    \/ \E id \in Workers : BeginReport("worker", id)
    \/ TakeList \/ TakeWorker \/ TakeCount \/ TakeCatalogue
    \/ \E w \in Workers : LoadCounter(w)

Spec == Init /\ [][Next]_controlVars

(* A handler runs, and an attempt at a worker ends: the worker answers or  *)
(* the connection breaks.  The router's client has no timeout, so nothing  *)
(* is owed of an attempt at a worker that hangs.                           *)
FairSpec ==
    /\ Spec
    /\ \A h \in Handlers : WF_controlVars(target[h] \notin Hanging /\ Routed(h))

-----------------------------------------------------------------------------
(* Types of the members, the requests and the report.                      *)
TypeOK ==
    /\ members = [id \in DOMAIN members |-> members[id]]
    /\ DOMAIN members \subseteq Workers
    /\ \A id \in DOMAIN members : members[id] \in Member
    /\ inFlight \in [Workers -> 0..Cardinality(Handlers)]
    /\ stage \in [Handlers -> {"idle", "choosing", "proxy"}]
    /\ target \in [Handlers -> Workers \cup {Nobody}]
    /\ \A h \in Handlers : tried[h] \subseteq pool[h] /\ pool[h] \subseteq Workers
    /\ DOMAIN report.listed \subseteq Workers
    /\ DOMAIN report.counters \subseteq Workers
    /\ DOMAIN report.catalogue \subseteq Models

Complete(endpoint) == report.endpoint = endpoint /\ ~Reporting

Routable == {id \in DOMAIN members : Healthy(members[id])}

(* A report in whose making nothing moved tells the truth (admin.go:84-164,*)
(* metrics.go:63-103, scaler.go:95-109): the four countings of healthy     *)
(* workers agree with what the router would be offered, every listed       *)
(* worker is in one of the counts of stats, and the counters and their     *)
(* sums are the requests really at the workers, listed or not.             *)
QuietReportIsExact ==
    calm =>
        /\ Complete("stats") =>
              /\ report.tally.Healthy = Cardinality(Routable)
              /\ report.tally.Total = report.tally.Healthy + report.tally.Starting
                                      + report.tally.Draining + report.tally.Dead
              /\ TotalInFlight =
                    Cardinality({h \in Handlers : target[h] \in DOMAIN members})
        /\ Complete("metrics") =>
              /\ report.tally["READY"] + report.tally["BUSY"] = Cardinality(Routable)
              /\ \A w \in Workers :
                    report.counters[w] = Cardinality({h \in Handlers : target[h] = w})
        /\ Complete("warnings") => report.tally.healthy = Cardinality(Routable)
        /\ Complete("models") =>
              \A m \in Models :
                  ModelInFlight(m) = Cardinality({h \in Handlers :
                      target[h] \in DOMAIN members /\ Serves(members[target[h]].ModelsLoaded, m)})
        /\ Complete("models") \/ Complete("metrics") \/ Complete("warnings") =>
              \A m \in Models :
                  HealthyWorkersForModel(m) # {} =>
                      /\ m \in DOMAIN report.catalogue
                      /\ report.catalogue[m].HealthyWorkers =
                            Cardinality(HealthyWorkersForModel(m))

(* A report made while everything moves is still within bounds (router.go: *)
(* 249-259, admin.go:84-136): the in-flight total counts every request     *)
(* that stayed at a listed worker, and no more than were there at some     *)
(* time; a request that was retried meanwhile may count twice.             *)
ReportIsPlausible ==
    OfLoad(report.endpoint) /\ ~Reporting =>
        /\ Cardinality({v \in stayed : v[2] \in DOMAIN report.listed}) <= TotalInFlight
        /\ TotalInFlight <= Cardinality({v \in visited : v[2] \in DOMAIN report.listed})

(* A worker that has left for good is left alone (router.go:92, 106-117):  *)
(* snapshots taken before, and retries from them, send requests to it only *)
(* for a while, however long other workers keep the requests they came     *)
(* from; and unless it hangs the requests it had come off it.              *)
GoneIsLeftAlone ==
    /\ \A w \in Workers :
          <>[](w \notin DOMAIN members) => <>[][inFlight'[w] <= inFlight[w]]_controlVars
    /\ \A w \in Workers \ Hanging :
          <>[](w \notin DOMAIN members) => <>[](inFlight[w] = 0)
=============================================================================
