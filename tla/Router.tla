------------------------------- MODULE Router -------------------------------
(***************************************************************************)
(* The control plane's router (control-plane/router/router.go): concurrent *)
(* handleInference calls for one model.  Each takes one snapshot of the    *)
(* healthy workers, picks the least loaded one by reading the in-flight    *)
(* counters one after the other, forwards the request, and on a failure    *)
(* before the first response byte tries another worker.                    *)
(*                                                                         *)
(* Every read of a counter is a step of its own: other handlers increment  *)
(* and decrement between two reads.  What HealthyWorkersForModel returns   *)
(* is the registry's business (module Registry) and here any set; how an   *)
(* attempt at a worker ends is up to the worker.                           *)
(***************************************************************************)
EXTENDS Integers, Sequences, FiniteSets, SequencesExt

CONSTANTS
    Workers,        \* worker ids
    Handlers,       \* HTTP handler goroutines, each serving request after request
    CostPerHour,    \* worker -> its price
    maxRetries,     \* cap on the attempts of one request (3 in the code)
    CounterPeriod   \* the round-robin counter is kept modulo this, a multiple
                    \* of the number of workers that can be tied

ASSUME FleetAssumption == IsFiniteSet(Workers) /\ IsFiniteSet(Handlers)
ASSUME CostAssumption == CostPerHour \in [Workers -> Nat]
ASSUME RetriesAssumption == maxRetries \in Nat \ {0}
ASSUME PeriodAssumption ==
    /\ CounterPeriod \in Nat \ {0}
    /\ \A S \in SUBSET Workers :
          S # {} /\ (\A v, w \in S : CostPerHour[v] = CostPerHour[w]) =>
              CounterPeriod % Cardinality(S) = 0

VARIABLES
    inFlight,   \* worker -> its counter (0 while it has none)
    counter,    \* the round-robin counter
    at,         \* handler -> where it is
    workers,    \* handler -> the HealthyWorkersForModel snapshot, in its order
    tried,      \* handler -> the workers this request was sent to
    scan,       \* handler -> pickWorker's progress
    chosen,     \* handler -> the worker picked last
    failed,     \* handler -> workers that failed it before the first byte
    quiet       \* handler -> no counter moved since its pickWorker began

vars == <<inFlight, counter, at, workers, tried, scan, chosen, failed, quiet>>

Places == {"idle", "start", "min pass", "flight pass", "choose", "chosen", "proxy",
           "served", "interrupted", "no workers", "bad gateway", "panicked"}

(* Where a handler has written its response, or died, and is about to take *)
(* the next request.                                                       *)
Ended == {"served", "interrupted", "no workers", "bad gateway", "panicked"}

maxAttempts(h) ==
    IF Len(workers[h]) < maxRetries THEN Len(workers[h]) ELSE maxRetries

(* The elements of s at the positions I, in their order: SelectSeq without *)
(* recursion, so that it can be reasoned about.                            *)
Nth(I, k) == CHOOSE i \in I : Cardinality({j \in I : j <= i}) = k
Keep(s, I) == [k \in 1..Cardinality(I) |-> s[Nth(I, k)]]

candidates(h) ==
    Keep(workers[h], {i \in DOMAIN workers[h] : workers[h][i] \notin tried[h]})

Nobody == "no worker"

ASSUME NobodyAssumption == Nobody \notin Workers

NoScan == [next |-> 1, minFlight |-> 0, flight |-> <<>>]

Init ==
    /\ inFlight = [w \in Workers |-> 0]
    /\ counter = 0
    /\ at = [h \in Handlers |-> "idle"]
    /\ workers = [h \in Handlers |-> <<>>]
    /\ tried = [h \in Handlers |-> {}]
    /\ scan = [h \in Handlers |-> NoScan]
    /\ chosen = [h \in Handlers |-> Nobody]
    /\ failed = [h \in Handlers |-> {}]
    /\ quiet = [h \in Handlers |-> TRUE]

(* A request arrives: the snapshot, and 503 if it is empty.  Requests      *)
(* refused earlier (method, body) touch nothing.                           *)
Arrive(h, snapshot) ==
    /\ at[h] \in {"idle"} \cup Ended
    /\ at' = [at EXCEPT ![h] = IF snapshot = <<>> THEN "no workers" ELSE "start"]
    /\ workers' = [workers EXCEPT ![h] = snapshot]
    /\ tried' = [tried EXCEPT ![h] = {}]
    /\ failed' = [failed EXCEPT ![h] = {}]
    /\ scan' = [scan EXCEPT ![h] = NoScan]
    /\ UNCHANGED <<inFlight, counter, chosen, quiet>>

(* Mutant of Exhausted: one attempt too few.                               *)
ExhaustedEarly(h) == Cardinality(tried[h]) + 1 >= maxAttempts(h)

(* The retry loop is over.                                                 *)
Exhausted(h) == Cardinality(tried[h]) >= maxAttempts(h) \/ candidates(h) = <<>>

(* The top of the retry loop: 502 when the attempts are used up, else      *)
(* pickWorker begins.  A single candidate is returned unread.              *)
StartAttempt(h) ==
    /\ at[h] = "start"
    /\ quiet' = [quiet EXCEPT ![h] = TRUE]
    /\ scan' = [scan EXCEPT ![h] = NoScan]
    /\ IF Exhausted(h)
       THEN at' = [at EXCEPT ![h] = "bad gateway"] /\ UNCHANGED chosen
       ELSE IF Len(candidates(h)) = 1
       THEN /\ at' = [at EXCEPT ![h] = "chosen"]
            /\ chosen' = [chosen EXCEPT ![h] = candidates(h)[1]]
       ELSE at' = [at EXCEPT ![h] = "min pass"] /\ UNCHANGED chosen
    /\ UNCHANGED <<inFlight, counter, workers, tried, failed>>

(* One pass over the candidates ends after its last read.                  *)
Advance(h, s, pass, after) ==
    LET last == s.next = Len(candidates(h)) IN
    /\ scan' = [scan EXCEPT ![h] = [s EXCEPT !.next = IF last THEN 1 ELSE @ + 1]]
    /\ at' = [at EXCEPT ![h] = IF last THEN after ELSE pass]

(* pickWorker, level 1, first pass: one getInFlight.                       *)
ReadMin(h) ==
    LET s == scan[h]
        f == inFlight[candidates(h)[s.next]]
    IN  /\ at[h] = "min pass"
        /\ Advance(h, [s EXCEPT !.minFlight = IF s.next = 1 \/ f < @ THEN f ELSE @],
                   "min pass", "flight pass")
        /\ UNCHANGED <<inFlight, counter, workers, tried, chosen, failed, quiet>>

(* pickWorker, level 1, second pass: another getInFlight.                  *)
ReadFlight(h) ==
    LET s == scan[h]
        w == candidates(h)[s.next]
    IN  /\ at[h] = "flight pass"
        /\ Advance(h, [s EXCEPT !.flight = IF inFlight[w] = s.minFlight
                                           THEN Append(@, w) ELSE @],
                   "flight pass", "choose")
        /\ UNCHANGED <<inFlight, counter, workers, tried, chosen, failed, quiet>>

(* Mutant of cheapest: the price is not looked at.                         *)
cheapestIgnored(flight) == flight

(* Level 2: the workers of the lowest price.                               *)
cheapest(flight) ==
    Keep(flight, {i \in DOMAIN flight : \A j \in DOMAIN flight :
                      CostPerHour[flight[i]] <= CostPerHour[flight[j]]})

(* The rest of pickWorker.  flight[0] of an empty slice panics; net/http   *)
(* recovers and drops the connection.  Level 3 is the round-robin.         *)
Choose(h) ==
    LET flight == scan[h].flight
        tie == (counter + 1) % CounterPeriod
    IN  /\ at[h] = "choose"
        /\ at' = [at EXCEPT ![h] = IF flight = <<>> THEN "panicked" ELSE "chosen"]
        /\ IF flight = <<>>
           THEN UNCHANGED <<chosen, counter>>
           ELSE IF Len(flight) = 1
           THEN chosen' = [chosen EXCEPT ![h] = flight[1]] /\ UNCHANGED counter
           ELSE LET best == cheapest(flight) IN
                /\ counter' = tie
                /\ chosen' = [chosen EXCEPT ![h] = best[(tie % Len(best)) + 1]]
        /\ scan' = [scan EXCEPT ![h] = NoScan]
        /\ UNCHANGED <<inFlight, workers, tried, failed, quiet>>

(* A counter moved: the picks under way are no longer quiet.               *)
Disturb(h) ==
    [g \in Handlers |-> IF g # h /\ at[g] \in {"min pass", "flight pass",
                                                "choose", "chosen"}
                        THEN FALSE ELSE quiet[g]]

(* tried[...] = true, r.inc, and the request leaves.                       *)
Forward(h) ==
    /\ at[h] = "chosen"
    /\ at' = [at EXCEPT ![h] = "proxy"]
    /\ tried' = [tried EXCEPT ![h] = @ \cup {chosen[h]}]
    /\ inFlight' = [inFlight EXCEPT ![chosen[h]] = @ + 1]
    /\ quiet' = [Disturb(h) EXCEPT ![h] = TRUE]
    /\ UNCHANGED <<counter, workers, scan, chosen, failed>>

(* Mutants of dec: the counter stays, or is decremented twice.             *)
decNothing(w) == inFlight
decTwice(w) == [inFlight EXCEPT ![w] = @ - 2]

dec(w) == [inFlight EXCEPT ![w] = @ - 1]

(* r.dec when proxy returns.                                               *)
Return(h) ==
    /\ at[h] = "proxy"
    /\ inFlight' = dec(chosen[h])
    /\ chosen' = [chosen EXCEPT ![h] = Nobody]
    /\ quiet' = Disturb(h)
    /\ UNCHANGED <<counter, scan>>

(* err == nil, or a stream that broke after the response was committed:    *)
(* the handler returns and its local variables are gone.                   *)
ProxyEnds(h) ==
    /\ Return(h)
    /\ \E end \in {"served", "interrupted"} : at' = [at EXCEPT ![h] = end]
    /\ workers' = [workers EXCEPT ![h] = <<>>]
    /\ tried' = [tried EXCEPT ![h] = {}]
    /\ failed' = [failed EXCEPT ![h] = {}]

(* The worker was unreachable before any response byte: next attempt.      *)
ProxyUnreachable(h) ==
    /\ Return(h)
    /\ at' = [at EXCEPT ![h] = "start"]
    /\ failed' = [failed EXCEPT ![h] = @ \cup {chosen[h]}]
    /\ UNCHANGED <<workers, tried>>

(* The snapshots HealthyWorkersForModel can return: Go iterates over a map *)
(* in any order.                                                           *)
Snapshots == UNION {SetToSeqs(S) : S \in SUBSET Workers}

Next ==
    \/ \E h \in Handlers, snapshot \in Snapshots : Arrive(h, snapshot)
    \/ \E h \in Handlers : StartAttempt(h)
    \/ \E h \in Handlers : ReadMin(h)
    \/ \E h \in Handlers : ReadFlight(h)
    \/ \E h \in Handlers : Choose(h)
    \/ \E h \in Handlers : Forward(h)
    \/ \E h \in Handlers : ProxyEnds(h)
    \/ \E h \in Handlers : ProxyUnreachable(h)

Spec == Init /\ [][Next]_vars

-----------------------------------------------------------------------------
(* Types of the counters and of the handlers' local variables.             *)
TypeOK ==
    /\ inFlight \in [Workers -> 0..Cardinality(Handlers)]
    /\ counter \in 0..(CounterPeriod - 1)
    /\ at \in [Handlers -> Places]
    /\ \A h \in Handlers : workers[h] \in Seq(Workers)
    /\ tried \in [Handlers -> SUBSET Workers]
    /\ \A h \in Handlers :
          /\ scan[h].next \in 1..(Len(workers[h]) + 1)
          /\ scan[h].minFlight \in 0..Cardinality(Handlers)
          /\ scan[h].flight \in Seq(Workers)
    /\ chosen \in [Handlers -> Workers \cup {Nobody}]
    /\ failed \in [Handlers -> SUBSET Workers]
    /\ quiet \in [Handlers -> BOOLEAN]

(* "in-flight request count per worker - always accurate" (router.go:18):  *)
(* each counter is the number of requests at that worker, over every way   *)
(* an attempt can end.                                                     *)
InFlightAccurate ==
    \A w \in Workers :
        inFlight[w] =
            Cardinality({h \in Handlers : at[h] = "proxy" /\ chosen[h] = w})

(* The least loaded, and among those the cheapest, candidates.             *)
Best(h) ==
    LET all == ToSet(candidates(h))
        least == {w \in all : \A v \in all : inFlight[w] <= inFlight[v]}
    IN  {w \in least : \A v \in least : CostPerHour[w] <= CostPerHour[v]}

(* A pick during which no counter moved finds a best worker                *)
(* (pickWorker, router.go:157-209): the two passes, the price and the      *)
(* round-robin index together compute the documented order.                *)
QuietPickIsBest ==
    \A h \in Handlers :
        quiet[h] =>
            /\ at[h] = "chosen" => chosen[h] \in Best(h)
            /\ at[h] # "panicked"

(* "The client never sees a 502 unless all retry attempts fail" and a      *)
(* worker is tried once (router.go:20-24): behind a 502 there are          *)
(* min(len(workers), maxRetries) different workers that failed.            *)
BadGatewayIsEarned ==
    \A h \in Handlers : at[h] = "bad gateway" =>
        /\ Cardinality(failed[h]) = maxAttempts(h)
        /\ failed[h] = tried[h]

(* A request that is routed ends in a response (router.go:20-24): picking  *)
(* a worker never fails.                                                   *)
NeverPanics == \A h \in Handlers : at[h] # "panicked"

Over(h) == at[h] \in {"idle"} \cup Ended

Abstract ==
    INSTANCE Routing
        WITH stage <- [h \in Handlers |-> IF Over(h) THEN "idle"
                                          ELSE IF at[h] = "proxy" THEN "proxy"
                                          ELSE "choosing"],
             pool <- [h \in Handlers |-> IF Over(h) THEN {} ELSE ToSet(workers[h])],
             tried <- [h \in Handlers |-> IF Over(h) THEN {} ELSE tried[h]],
             target <- [h \in Handlers |-> IF at[h] = "proxy" THEN chosen[h]
                                           ELSE Nobody]

(* The retry loop, the two passes of pickWorker and the counters implement *)
(* Routing (router.go:71-155): concurrent picks on moving counters still   *)
(* yield an untried worker of the handler's own snapshot, and every count  *)
(* taken is given back once.                                               *)
ImplementsRouting == Abstract!RoutingSpec
=============================================================================
