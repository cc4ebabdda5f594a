------------------------------ MODULE Routing -------------------------------
(***************************************************************************)
(* What the router promises: a request is sent to healthy workers of one   *)
(* snapshot, one after the other, to none twice and to at most maxRetries, *)
(* until one answers; and the counters say how many requests each worker   *)
(* has.  Which worker is picked is left open.  The router (module Router)  *)
(* is shown to implement this.                                             *)
(***************************************************************************)
EXTENDS Lifecycle, FiniteSets

CONSTANTS
    Handlers,       \* HTTP handler goroutines, each serving request after request
    maxRetries,     \* cap on the attempts of one request (3 in the code)
    Nobody          \* no worker

ASSUME HandlersAssumption == IsFiniteSet(Handlers)
ASSUME RetriesAssumption == maxRetries \in Nat \ {0}
ASSUME NobodyAssumption == Nobody \notin Workers

VARIABLES
    inFlight,   \* worker -> its counter
    stage,      \* handler -> "idle", "choosing" or "proxy"
    pool,       \* handler -> the workers of its snapshot
    tried,      \* handler -> the workers its request was sent to
    target      \* handler -> the worker its request is at

routingVars == <<inFlight, stage, pool, tried, target>>

RoutingInit ==
    /\ inFlight = [w \in Workers |-> 0]
    /\ stage = [h \in Handlers |-> "idle"]
    /\ pool = [h \in Handlers |-> {}]
    /\ tried = [h \in Handlers |-> {}]
    /\ target = [h \in Handlers |-> Nobody]

Attempts(h) == AtMost(Cardinality(pool[h]), maxRetries)

(* Mutant of Candidates: a worker that failed is a candidate again.        *)
CandidatesAll(h) == pool[h]

Candidates(h) == pool[h] \ tried[h]

(* A request arrives and finds workers.  Without any it is refused, which  *)
(* changes nothing.                                                        *)
Arrive(h, snapshot) ==
    /\ stage[h] = "idle"
    /\ snapshot # {}
    /\ stage' = [stage EXCEPT ![h] = "choosing"]
    /\ pool' = [pool EXCEPT ![h] = snapshot]
    /\ UNCHANGED <<inFlight, tried, target>>

Forward(h, w) ==
    /\ stage[h] = "choosing"
    /\ Cardinality(tried[h]) < Attempts(h)
    /\ w \in Candidates(h)
    /\ stage' = [stage EXCEPT ![h] = "proxy"]
    /\ tried' = [tried EXCEPT ![h] = @ \cup {w}]
    /\ target' = [target EXCEPT ![h] = w]
    /\ inFlight' = [inFlight EXCEPT ![w] = @ + 1]
    /\ UNCHANGED pool

(* The handler is done with its request.                                   *)
Finish(h) ==
    /\ stage' = [stage EXCEPT ![h] = "idle"]
    /\ pool' = [pool EXCEPT ![h] = {}]
    /\ tried' = [tried EXCEPT ![h] = {}]

(* 502: the attempts are used up.                                          *)
GiveUp(h) ==
    /\ stage[h] = "choosing"
    /\ Cardinality(tried[h]) >= Attempts(h)
    /\ Finish(h)
    /\ UNCHANGED <<inFlight, target>>

(* A choice among several workers may fail: pickWorker panics.             *)
Drop(h) ==
    /\ stage[h] = "choosing"
    /\ Cardinality(Candidates(h)) > 1
    /\ Finish(h)
    /\ UNCHANGED <<inFlight, target>>

(* Mutant of Returned: the counter of an unreachable worker stays.         *)
ReturnedUncounted(h) == inFlight

Returned(h) == [inFlight EXCEPT ![target[h]] = @ - 1]

(* The worker answered, in full or not.                                    *)
Answer(h) ==
    /\ stage[h] = "proxy"
    /\ Finish(h)
    /\ inFlight' = Returned(h)
    /\ target' = [target EXCEPT ![h] = Nobody]

(* The worker was unreachable; the next one may be tried.                  *)
Unreachable(h) ==
    /\ stage[h] = "proxy"
    /\ stage' = [stage EXCEPT ![h] = "choosing"]
    /\ inFlight' = Returned(h)
    /\ target' = [target EXCEPT ![h] = Nobody]
    /\ UNCHANGED <<pool, tried>>

Route(h) ==
    \/ \E w \in Workers : Forward(h, w)
    \/ GiveUp(h) \/ Drop(h) \/ Answer(h) \/ Unreachable(h)

RoutingNext ==
    \E h \in Handlers : Route(h) \/ \E snapshot \in SUBSET Workers : Arrive(h, snapshot)

RoutingSpec == RoutingInit /\ [][RoutingNext]_routingVars

-----------------------------------------------------------------------------
(* What the reports of the load rest on (router.go:116-155, 230-231): each *)
(* counter is the number of requests at that worker.                       *)
CountersAccurate ==
    \A w \in Workers :
        inFlight[w] = Cardinality({h \in Handlers : target[h] = w})
=============================================================================
