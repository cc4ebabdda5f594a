----------------------------- MODULE Admission ------------------------------
(***************************************************************************)
(* How the gateway decides which requests to take                          *)
(* (request-plane/gateway/gateway.go, handleInference up to TryPush): the  *)
(* API key and its rate limit (auth), the wait estimate from the queue     *)
(* depth and the average latency (slo), the backpressure policy, and the   *)
(* counters behind /admin/stats.  The queue is the abstract LaneQueue, the *)
(* limiter RateLimiter.                                                    *)
(*                                                                         *)
(* AheadOf reads the lengths of the lanes one after the other, Stats.Hook  *)
(* adds to two counters and Stats.Snapshot reads three: each of these is a *)
(* step of its own, with other handlers and dispatchers in between.  What  *)
(* happens to an accepted request is RequestPlane's business; here it is   *)
(* answered, well or badly, or times out.                                  *)
(***************************************************************************)
EXTENDS LaneQueue, RateLimiter, FiniteSets

CONSTANTS
    KeyOf,          \* request -> its key, None without an Authorization header
    RequestsPerMin, \* the key store: registered key -> its budget
    MaxWait,        \* the policy: priority -> threshold, for those that have one
    Concurrency,    \* dispatcher goroutines the estimator reckons with
    Latencies,      \* latencies a sample may have
    Fallback        \* the tracker's average before the first sample

ASSUME KeyOfAssumption == KeyOf \in [Requests -> Keys \cup {None}]
ASSUME KeyStoreAssumption ==
    /\ DOMAIN RequestsPerMin \subseteq Keys
    /\ RequestsPerMin \in [DOMAIN RequestsPerMin -> Budgets]
ASSUME MaxWaitAssumption ==
    DOMAIN MaxWait \subseteq Priorities /\ MaxWait \in [DOMAIN MaxWait -> Nat]
ASSUME ConcurrencyAssumption == Concurrency \in Nat \ {0}
ASSUME LatencyAssumption == Latencies \subseteq Nat /\ Fallback \in Nat

VARIABLES
    at,         \* request -> where its handler is; a lane: AheadOf reads it next
    ahead,      \* request -> AheadOf's sum so far
    stayed,     \* history: requests ahead of it ever since AheadOf began
    seen,       \* history: requests ahead of it at some moment since then
    average,    \* the tracker's average; None before the first sample
    stats,      \* admin.Stats: total, success, errors
    snapshot    \* a Stats.Snapshot in progress, or its result

admissionVars == <<queueVars, limiterVars, at, ahead, stayed, seen, average, stats,
                   snapshot>>

Places == {"new", "start", "estimate", "push", "waiting",
           "succeeded", "failed", "shed", "done"} \cup Priorities

NoSnapshot == [at |-> "begin", total |-> 0, success |-> 0, errors |-> 0,
               between |-> 0]

Init ==
    /\ QueueInit
    /\ LimiterInit
    /\ at = [r \in Requests |-> "new"]
    /\ ahead = [r \in Requests |-> 0]
    /\ stayed = [r \in Requests |-> {}]
    /\ seen = [r \in Requests |-> {}]
    /\ average = None
    /\ stats = [total |-> 0, success |-> 0, errors |-> 0]
    /\ snapshot = NoSnapshot

Move(r, place) == at' = [at EXCEPT ![r] = place]

(* The handler returns and the hook it deferred starts: total.Add(1).      *)
Return(r, outcome) ==
    /\ Move(r, outcome)
    /\ stats' = [stats EXCEPT !.total = @ + 1]

Counting(r) == at[r] \in {"succeeded", "failed", "shed"}

(* Mutant of Counted: a request shed by the policy is in the total alone.  *)
CountedUnlessShed(outcome) ==
    CASE outcome = "succeeded" -> [stats EXCEPT !.success = @ + 1]
      [] outcome = "failed" -> [stats EXCEPT !.errors = @ + 1]
      [] OTHER -> stats

Counted(outcome) ==
    IF outcome = "succeeded" THEN [stats EXCEPT !.success = @ + 1]
                             ELSE [stats EXCEPT !.errors = @ + 1]

(* The rest of the hook.                                                   *)
Hook(r) ==
    /\ Counting(r)
    /\ Move(r, "done")
    /\ stats' = Counted(at[r])
    /\ UNCHANGED <<queueVars, limiterVars, ahead, stayed, seen, average, snapshot>>

(* Method and key: 405, or 401 for a missing or unknown key.               *)
Reject(r) ==
    /\ at[r] = "new"
    /\ Return(r, "failed")
    /\ UNCHANGED <<queueVars, limiterVars, ahead, stayed, seen, average, snapshot>>

(* A known key and its budget: 429, or the request goes on.  A body that   *)
(* cannot be read or names no model is refused (400) after its token is    *)
(* spent.                                                                  *)
Authenticate(r) ==
    LET k == KeyOf[r] IN
    /\ at[r] = "new"
    /\ k \in DOMAIN RequestsPerMin
    /\ Allow(k, RequestsPerMin[k])
    /\ \/ Permits(k, RequestsPerMin[k]) /\ Move(r, "start") /\ UNCHANGED stats
       \/ Return(r, "failed")
    /\ UNCHANGED <<queueVars, ahead, stayed, seen, average, snapshot>>

-----------------------------------------------------------------------------
(* The lanes served before or with those of priority p, in popOrder.       *)
Lanes(p) == CASE p = "high"   -> <<"high">>
              [] p = "normal" -> <<"high", "normal">>
              [] p = "low"    -> <<"high", "normal", "low">>

(* Mutant of LastLane: AheadOf stops before the request's own lane.        *)
LastLaneAbove(p) == IF p = "low" THEN "normal" ELSE "high"

LastLane(p) == p

(* The requests that would now be served before a new one of priority p.   *)
Before(p) ==
    {r \in Requests : Waiting(r) /\ \E i \in DOMAIN Lanes(p) : Lanes(p)[i] = PriorityOf[r]}

(* History for the handlers inside AheadOf, kept by every step that may    *)
(* change the lanes.                                                       *)
Reading(r) == at[r] \in Priorities \cup {"estimate"}
Watch ==
    /\ stayed' = [r \in Requests |-> IF Reading(r) THEN stayed[r] \cap Before(PriorityOf[r])'
                                                   ELSE stayed[r]]
    /\ seen' = [r \in Requests |-> IF Reading(r) THEN seen[r] \cup Before(PriorityOf[r])'
                                                 ELSE seen[r]]

(* AheadOf begins.                                                         *)
BeginAheadOf(r) ==
    /\ at[r] = "start"
    /\ Move(r, "high")
    /\ stayed' = [stayed EXCEPT ![r] = Before(PriorityOf[r])]
    /\ seen' = [seen EXCEPT ![r] = Before(PriorityOf[r])]
    /\ UNCHANGED <<queueVars, limiterVars, ahead, average, stats, snapshot>>

(* One iteration of AheadOf's loop.                                        *)
AheadOf(r) ==
    /\ at[r] \in Priorities
    /\ ahead' = [ahead EXCEPT ![r] = @ + Len(lanes[at[r]])]
    /\ Move(r, IF at[r] = LastLane(PriorityOf[r]) THEN "estimate"
               ELSE IF at[r] = "high" THEN "normal" ELSE "low")
    /\ UNCHANGED <<queueVars, limiterVars, stayed, seen, average, stats, snapshot>>

Average == IF average = None THEN Fallback ELSE average

Estimate(n) == (n * Average) \div Concurrency

Admit(p, wait) == p \in DOMAIN MaxWait => wait <= MaxWait[p]

(* Estimate and the policy's verdict: 503, or on to TryPush.               *)
Decide(r) ==
    /\ at[r] = "estimate"
    /\ IF Admit(PriorityOf[r], Estimate(ahead[r]))
       THEN Move(r, "push") /\ UNCHANGED stats
       ELSE Return(r, "shed")
    /\ ahead' = [ahead EXCEPT ![r] = 0]
    /\ stayed' = [stayed EXCEPT ![r] = {}]
    /\ seen' = [seen EXCEPT ![r] = {}]
    /\ UNCHANGED <<queueVars, limiterVars, average, snapshot>>

(* TryPush: into the lane, to a waiting dispatcher, or 503 at a full lane. *)
Push(r) ==
    /\ at[r] = "push"
    /\ \/ /\ Accept(r) \/ \E p \in Poppers : HandOver(r, p)
          /\ Move(r, "waiting")
          /\ UNCHANGED stats
       \/ /\ Full(PriorityOf[r])
          /\ Return(r, "failed")
          /\ UNCHANGED queueVars
    /\ Watch
    /\ UNCHANGED <<limiterVars, ahead, average, snapshot>>

-----------------------------------------------------------------------------
PopRequest(p) ==
    /\ \E l \in Priorities : Take(p, l)
    /\ Watch
    /\ UNCHANGED <<limiterVars, at, ahead, average, stats, snapshot>>

(* Record: the first sample is the average; afterwards the average moves   *)
(* towards the sample by a fixed share, hence to some value between them.  *)
Recorded(d) ==
    IF average = None THEN {d}
    ELSE {v \in Latencies : v \in average..d \cup d..average}

(* A dispatch ends.  If its handler still waits it records the latency and *)
(* answers; the result of a request that timed out goes nowhere.           *)
FinishRequest(p) ==
    LET r == got[p] IN
    /\ Release(p)
    /\ IF at[r] = "waiting"
       THEN /\ \E d \in Latencies : average' \in Recorded(d)
            /\ \E outcome \in {"succeeded", "failed"} : Return(r, outcome)
       ELSE UNCHANGED <<at, average, stats>>
    /\ UNCHANGED <<limiterVars, ahead, stayed, seen, snapshot>>

(* 504 after waitTimeout; the tracker hears nothing of it.                 *)
Timeout(r) ==
    /\ at[r] = "waiting"
    /\ Return(r, "failed")
    /\ UNCHANGED <<queueVars, limiterVars, ahead, stayed, seen, average, snapshot>>

-----------------------------------------------------------------------------
(* GET /admin/stats: Stats.Snapshot loads the counters one by one.         *)
Load(field, next) ==
    /\ snapshot' = [snapshot EXCEPT ![field] = stats[field], !.at = next]
    /\ UNCHANGED <<queueVars, limiterVars, at, ahead, stayed, seen, average, stats>>

BeginSnapshot ==
    /\ snapshot.at = "begin"
    /\ snapshot' = [snapshot EXCEPT !.at = "success", !.total = stats.total,
                       !.between = Cardinality({r \in Requests : Counting(r)})]
    /\ UNCHANGED <<queueVars, limiterVars, at, ahead, stayed, seen, average, stats>>

LoadSuccess == snapshot.at = "success" /\ Load("success", "errors")

LoadErrors == snapshot.at = "errors" /\ Load("errors", "end")

(* A minute's worth of ticks or a new window for the limiter's observer.   *)
Clock ==
    /\ Elapse \/ \E k \in Keys : OpenWindow(k)
    /\ UNCHANGED <<queueVars, at, ahead, stayed, seen, average, stats, snapshot>>

Next ==
    \/ \E r \in Requests : Reject(r)
    \/ \E r \in Requests : Authenticate(r)
    \/ \E r \in Requests : BeginAheadOf(r)
    \/ \E r \in Requests : AheadOf(r)
    \/ \E r \in Requests : Decide(r)
    \/ \E r \in Requests : Push(r)
    \/ \E r \in Requests : Timeout(r)
    \/ \E r \in Requests : Hook(r)
    \/ \E p \in Poppers : PopRequest(p)
    \/ \E p \in Poppers : FinishRequest(p)
    \/ BeginSnapshot \/ LoadSuccess \/ LoadErrors
    \/ Clock

Spec == Init /\ [][Next]_admissionVars

-----------------------------------------------------------------------------
(* Types of the handlers' progress, the tracker and the counters.          *)
TypeOK ==
    /\ LimiterTypeOK
    /\ lanes \in [Priorities -> Seq(Requests)]
    /\ got \in [Poppers -> Requests \cup {None}]
    /\ at \in [Requests -> Places]
    /\ ahead \in [Requests -> 0..(3 * Capacity)]
    /\ average \in Latencies \cup {None}
    /\ stats.total = Cardinality({r \in Requests : at[r] = "done" \/ Counting(r)})
    /\ stats.success + stats.errors = Cardinality({r \in Requests : at[r] = "done"})

(* What an admission decision taken on a moving queue is worth (gateway.go *)
(* 163-183, queue.go:182-191): a request is admitted only if the requests  *)
(* that stayed ahead of it all through AheadOf keep it within its          *)
(* threshold, and shed only if those it can have seen exceed it.  So one   *)
(* that meets empty lanes is never shed, however bad the average is.       *)
AdmissionIsSound ==
    [][\A r \in Requests : at[r] = "estimate" =>
          /\ at'[r] = "push" =>
                Admit(PriorityOf[r], Estimate(Cardinality(stayed[r])))
          /\ at'[r] = "shed" =>
                ~Admit(PriorityOf[r], Estimate(Cardinality(seen[r])))]_admissionVars

(* A snapshot of the counters (stats.go:35-37) invents no finished request *)
(* and is short of its own total by no more than the hooks that were half  *)
(* done when it began, although its loads are not atomic.                  *)
SnapshotIsCurrent ==
    snapshot.at = "end" =>
        LET finished == snapshot.success + snapshot.errors IN
        /\ snapshot.total <= finished + snapshot.between
        /\ finished <= Cardinality({r \in Requests : at[r] = "done"})
=============================================================================
