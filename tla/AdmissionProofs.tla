-------------------------- MODULE AdmissionProofs ---------------------------
(***************************************************************************)
(* Proofs about Admission, for any requests, keys, budgets, lanes,         *)
(* thresholds and latencies: what a decision taken on a moving queue is    *)
(* worth, what a snapshot of moving counters is worth, and the budgets.    *)
(***************************************************************************)
EXTENDS Admission, RateLimiterProofs, FiniteSetTheorems, SequenceTheorems

Counters == [total : Nat, success : Nat, errors : Nat]
Snapshots ==
    [at : {"begin", "success", "errors", "end"}, total : Nat, success : Nat,
     errors : Nat, between : Nat]

Types ==
    /\ lanes \in [Priorities -> Seq(Requests)]
    /\ got \in [Poppers -> Requests \cup {None}]
    /\ at \in [Requests -> Places]
    /\ ahead \in [Requests -> Nat]
    /\ stayed \in [Requests -> SUBSET Requests]
    /\ seen \in [Requests -> SUBSET Requests]
    /\ average \in Latencies \cup {None}
    /\ stats \in Counters
    /\ snapshot \in Snapshots

(* The requests whose handler has returned, and those whose hook is done.  *)
Returned == {r \in Requests : at[r] = "done" \/ Counting(r)}
Finished == {r \in Requests : at[r] = "done"}
Between == {r \in Requests : Counting(r)}

CountInv ==
    /\ IsFiniteSet(Returned)
    /\ stats.total = Cardinality(Returned)
    /\ stats.success + stats.errors = Cardinality(Finished)

(* What a snapshot has loaded, against the counters that moved on since.   *)
LoadInv ==
    /\ snapshot.at = "success" =>
          snapshot.total <= (stats.success + stats.errors) + snapshot.between
    /\ snapshot.at = "errors" =>
          /\ snapshot.success <= stats.success
          /\ snapshot.total <= (snapshot.success + stats.errors) + snapshot.between
    /\ snapshot.at = "end" =>
          /\ snapshot.total <= (snapshot.success + snapshot.errors) + snapshot.between
          /\ snapshot.success + snapshot.errors <= stats.success + stats.errors

(* Lanes within their capacity, sorted, without duplicates.                *)
Room(s) == Len(s) <= Capacity
Sorted(l, s) == \A i \in DOMAIN s : PriorityOf[s[i]] = l
Once(s) == \A i, j \in DOMAIN s : s[i] = s[j] => i = j
LanesInv ==
    /\ \A l \in Priorities : Room(lanes[l])
    /\ \A l \in Priorities : Sorted(l, lanes[l])
    /\ \A l \in Priorities : Once(lanes[l])

(* The lanes AheadOf has read when it is at the given place.               *)
ReadAt(place) ==
    CASE place = "high" -> {}
      [] place = "normal" -> {"high"}
      [] place = "low" -> {"high", "normal"}
      [] OTHER -> Priorities

(* The lanes AheadOf reads for a request of priority p.                    *)
LanesOf(p) ==
    CASE p = "high" -> {"high"}
      [] p = "normal" -> {"high", "normal"}
      [] OTHER -> Priorities

(* Those of S that AheadOf, at the given place, has had a chance to count. *)
Of(S, place) == {x \in S : PriorityOf[x] \in ReadAt(place)}

(* AheadOf's sum lies between the requests that stayed ahead all the time  *)
(* and those that were ahead at some time.                                 *)
Reckoned(r) ==
    Reading(r) =>
        /\ at[r] \in Priorities => at[r] \in LanesOf(PriorityOf[r])
        /\ stayed[r] \subseteq Before(PriorityOf[r])
        /\ Before(PriorityOf[r]) \subseteq seen[r]
        /\ \A x \in seen[r] : PriorityOf[x] \in LanesOf(PriorityOf[r])
        /\ IsFiniteSet(seen[r])
        /\ Cardinality(Of(stayed[r], at[r])) <= ahead[r]
        /\ ahead[r] <= Cardinality(Of(seen[r], at[r]))

(* AheadOf's sum is at most a full lane per lane read.                     *)
AheadBound(r) ==
    /\ at[r] = "normal" => ahead[r] <= Capacity
    /\ at[r] = "low" => ahead[r] <= 2 * Capacity
    /\ at[r] = "estimate" => ahead[r] <= 3 * Capacity
    /\ at[r] \notin {"normal", "low", "estimate"} => ahead[r] = 0

QueueInv == Types /\ LanesInv

HookInv == QueueInv /\ CountInv /\ LoadInv

WaitInv == QueueInv /\ \A r \in Requests : Reckoned(r) /\ AheadBound(r)

-----------------------------------------------------------------------------
(* The gateway uses the limiter as it is meant to be used: with registered *)
(* keys and their budgets.                                                 *)
LEMMA AdmissionUsesLimiter == Spec => LimiterSpec
<1>1. Init => LimiterInit
  BY DEF Init
<1>2. ASSUME [Next]_admissionVars
      PROVE  [LimiterNext]_limiterVars
  <2>1. ASSUME NEW r \in Requests, Authenticate(r)
        PROVE  LimiterNext
    <3>1. KeyOf[r] \in Keys /\ RequestsPerMin[KeyOf[r]] \in Budgets
      BY <2>1, KeyStoreAssumption DEF Authenticate
    <3> QED
      BY <2>1, <3>1 DEF Authenticate, LimiterNext
  <2>2. CASE Clock
    BY <2>2 DEF Clock, LimiterNext
  <2>3. CASE UNCHANGED limiterVars
    BY <2>3
  <2>4. \/ \E r \in Requests : Authenticate(r)
        \/ Clock
        \/ UNCHANGED limiterVars
    BY <1>2 DEF Next, Reject, BeginAheadOf, AheadOf, Decide, Push, Timeout, Hook, PopRequest,
            FinishRequest, BeginSnapshot, LoadSuccess, LoadErrors, Load, admissionVars
  <2> QED
    BY <2>1, <2>2, <2>3, <2>4
<1> QED
  BY <1>1, <1>2, PTL DEF Spec, LimiterSpec

(* With the keys, budgets and handlers of the gateway around the limiter,  *)
(* a key is admitted through any window at most a full bucket plus the     *)
(* window's refill (auth/ratelimiter.go Allow, gateway.go                  *)
(* handleInference): requests refused later have spent their token too.    *)
THEOREM AdmissionKeepsBudgets == Spec => []BudgetKept
  BY AdmissionUsesLimiter, LimiterKeepsBudgets, PTL

-----------------------------------------------------------------------------
(* A handler moves on.                                                     *)
LEMMA MoveFacts ==
    ASSUME at \in [Requests -> Places], NEW r \in Requests, NEW place \in Places,
           Move(r, place)
    PROVE  /\ at' \in [Requests -> Places] /\ at'[r] = place
           /\ \A x \in Requests : x # r => at'[x] = at[x]
  BY DEF Move

(* The two halves of Stats.Hook.                                           *)
LEMMA HookFacts ==
    ASSUME NEW s \in Counters
    PROVE  /\ [s EXCEPT !.total = s.total + 1] \in Counters
           /\ [s EXCEPT !.total = s.total + 1].total = s.total + 1
           /\ [s EXCEPT !.total = s.total + 1].success = s.success
           /\ [s EXCEPT !.total = s.total + 1].errors = s.errors
           /\ [s EXCEPT !.success = s.success + 1] \in Counters
           /\ [s EXCEPT !.success = s.success + 1].total = s.total
           /\ [s EXCEPT !.success = s.success + 1].success = s.success + 1
           /\ [s EXCEPT !.success = s.success + 1].errors = s.errors
           /\ [s EXCEPT !.errors = s.errors + 1] \in Counters
           /\ [s EXCEPT !.errors = s.errors + 1].total = s.total
           /\ [s EXCEPT !.errors = s.errors + 1].success = s.success
           /\ [s EXCEPT !.errors = s.errors + 1].errors = s.errors + 1
<1> DEFINE a == s.total + 1
           b == s.success + 1
           c == s.errors + 1
<1>1. a \in Nat /\ b \in Nat /\ c \in Nat
  BY DEF Counters
<1> HIDE DEF a, b, c
<1>2. /\ [s EXCEPT !.total = a] \in Counters
      /\ [s EXCEPT !.total = a].total = a
      /\ [s EXCEPT !.total = a].success = s.success
      /\ [s EXCEPT !.total = a].errors = s.errors
  BY <1>1 DEF Counters
<1>3. /\ [s EXCEPT !.success = b] \in Counters
      /\ [s EXCEPT !.success = b].total = s.total
      /\ [s EXCEPT !.success = b].success = b
      /\ [s EXCEPT !.success = b].errors = s.errors
  BY <1>1 DEF Counters
<1>4. /\ [s EXCEPT !.errors = c] \in Counters
      /\ [s EXCEPT !.errors = c].total = s.total
      /\ [s EXCEPT !.errors = c].success = s.success
      /\ [s EXCEPT !.errors = c].errors = c
  BY <1>1 DEF Counters
<1> QED
  BY <1>2, <1>3, <1>4, Zenon DEF a, b, c

Over == {"succeeded", "failed", "shed", "done"}
Outcomes == {"succeeded", "failed", "shed"}

(* What a step does to handlers and counters: nothing; a handler moves on; *)
(* it returns, which counts it in the total; or its hook ends.             *)
CountShape ==
    \/ at' = at /\ stats' = stats
    \/ \E r \in Requests, place \in Places \ Over :
          at[r] \notin Over /\ Move(r, place) /\ stats' = stats
    \/ \E r \in Requests, o \in Outcomes : at[r] \notin Over /\ Return(r, o)
    \/ \E r \in Requests : Counting(r) /\ Move(r, "done") /\ stats' = Counted(at[r])

(* Every step of the gateway is one of these.                              *)
LEMMA StepCounts ==
    ASSUME Types, [Next]_admissionVars
    PROVE  CountShape
<1> USE DEF Types, CountShape, Over, Outcomes
<1>1. ASSUME NEW r \in Requests, Reject(r) \/ Timeout(r)
      PROVE  CountShape
  BY <1>1 DEF Reject, Timeout
<1>2. ASSUME NEW r \in Requests, Authenticate(r)
      PROVE  CountShape
  <2>1. at[r] = "new" /\ ((Move(r, "start") /\ stats' = stats) \/ Return(r, "failed"))
    BY <1>2 DEF Authenticate
  <2> QED
    BY <2>1 DEF Places
<1>3. ASSUME NEW r \in Requests, BeginAheadOf(r)
      PROVE  CountShape
  BY <1>3 DEF BeginAheadOf, Places, Priorities
<1>4. ASSUME NEW r \in Requests, AheadOf(r)
      PROVE  CountShape
  <2> DEFINE place == IF at[r] = LastLane(PriorityOf[r]) THEN "estimate"
                      ELSE IF at[r] = "high" THEN "normal" ELSE "low"
  <2>1. at[r] \in Priorities /\ Move(r, place) /\ stats' = stats
    BY <1>4 DEF AheadOf
  <2>2. place \in {"estimate", "normal", "low"}
    OBVIOUS
  <2> HIDE DEF place
  <2>3. place \in Places \ Over /\ at[r] \notin Over
    BY <2>1, <2>2 DEF Places, Priorities
  <2> QED
    BY <2>1, <2>3
<1>5. ASSUME NEW r \in Requests, Decide(r)
      PROVE  CountShape
  <2>1. at[r] = "estimate" /\ ((Move(r, "push") /\ stats' = stats) \/ Return(r, "shed"))
    BY <1>5 DEF Decide
  <2> QED
    BY <2>1 DEF Places
<1>6. ASSUME NEW r \in Requests, Push(r)
      PROVE  CountShape
  <2>1. at[r] = "push" /\ ((Move(r, "waiting") /\ stats' = stats) \/ Return(r, "failed"))
    BY <1>6 DEF Push
  <2> QED
    BY <2>1 DEF Places
<1>7. ASSUME NEW r \in Requests, Hook(r)
      PROVE  CountShape
  BY <1>7 DEF Hook
<1>8. ASSUME NEW p \in Poppers, FinishRequest(p)
      PROVE  CountShape
  <2>1. got[p] \in Requests
    BY <1>8 DEF FinishRequest, Release
  <2>2. CASE at[got[p]] = "waiting"
    <3>1. PICK o \in {"succeeded", "failed"} : Return(got[p], o)
      BY <1>8, <2>2 DEF FinishRequest
    <3> QED
      BY <2>1, <2>2, <3>1
  <2>3. CASE at[got[p]] # "waiting"
    BY <1>8, <2>3 DEF FinishRequest
  <2> QED
    BY <2>2, <2>3
<1>9. ASSUME NEW p \in Poppers, PopRequest(p)
      PROVE  CountShape
  BY <1>9 DEF PopRequest
<1>10. CASE BeginSnapshot \/ LoadSuccess \/ LoadErrors \/ Clock
  BY <1>10 DEF BeginSnapshot, LoadSuccess, LoadErrors, Load, Clock
<1>11. CASE UNCHANGED admissionVars
  BY <1>11 DEF admissionVars
<1> QED
  BY <1>1, <1>2, <1>3, <1>4, <1>5, <1>6, <1>7, <1>8, <1>9, <1>10, <1>11 DEF Next

(* The counters through a step.                                            *)
LEMMA CountStep ==
    ASSUME Types, CountInv, CountShape
    PROVE  /\ CountInv' /\ stats' \in Counters /\ at' \in [Requests -> Places]
           /\ stats.success <= stats'.success /\ stats.errors <= stats'.errors
<1>0. /\ at \in [Requests -> Places] /\ stats \in Counters
      /\ stats.total \in Nat /\ stats.success \in Nat /\ stats.errors \in Nat
  BY DEF Types, Counters
<1>1. /\ IsFiniteSet(Returned) /\ stats.total = Cardinality(Returned)
      /\ stats.success + stats.errors = Cardinality(Finished)
  BY DEF CountInv
<1>2. Finished \subseteq Returned
  BY DEF Finished, Returned
<1>3. IsFiniteSet(Finished)
  BY <1>1, <1>2, FS_Subset
<1>4. CASE at' = at /\ stats' = stats
  <2>1. Returned' = Returned /\ Finished' = Finished
    BY <1>4 DEF Returned, Finished, Counting
  <2> QED
    BY <1>0, <1>1, <1>4, <2>1 DEF CountInv
<1>5. ASSUME NEW r \in Requests, NEW place \in Places \ Over,
             at[r] \notin Over, Move(r, place), stats' = stats
      PROVE  /\ CountInv' /\ stats' \in Counters /\ at' \in [Requests -> Places]
             /\ stats.success <= stats'.success /\ stats.errors <= stats'.errors
  <2>1. /\ at' \in [Requests -> Places] /\ at'[r] = place
        /\ \A x \in Requests : x # r => at'[x] = at[x]
    BY <1>0, <1>5, MoveFacts
  <2>2. Returned' = Returned /\ Finished' = Finished
    BY <1>5, <2>1 DEF Returned, Finished, Counting, Over
  <2> QED
    BY <1>0, <1>1, <1>5, <2>1, <2>2 DEF CountInv
<1>6. ASSUME NEW r \in Requests, NEW o \in Outcomes, at[r] \notin Over, Return(r, o)
      PROVE  /\ CountInv' /\ stats' \in Counters /\ at' \in [Requests -> Places]
             /\ stats.success <= stats'.success /\ stats.errors <= stats'.errors
  <2>1. Move(r, o) /\ stats' = [stats EXCEPT !.total = stats.total + 1] /\ o \in Places
    BY <1>6 DEF Return, Outcomes, Places
  <2>2. /\ at' \in [Requests -> Places] /\ at'[r] = o
        /\ \A x \in Requests : x # r => at'[x] = at[x]
    BY <1>0, <2>1, MoveFacts
  <2>3. /\ stats' \in Counters /\ stats'.total = stats.total + 1
        /\ stats'.success = stats.success /\ stats'.errors = stats.errors
    BY <1>0, <2>1, HookFacts
  <2>4. Returned' = Returned \cup {r} /\ Finished' = Finished /\ r \notin Returned
    BY <1>6, <2>2 DEF Returned, Finished, Counting, Over, Outcomes
  <2>5. IsFiniteSet(Returned') /\ Cardinality(Returned') = Cardinality(Returned) + 1
    BY <1>1, <2>4, FS_AddElement
  <2>6. CountInv'
    BY <1>1, <2>3, <2>4, <2>5 DEF CountInv
  <2> QED
    BY <1>0, <2>2, <2>3, <2>6
<1>7. ASSUME NEW r \in Requests, Counting(r), Move(r, "done"), stats' = Counted(at[r])
      PROVE  /\ CountInv' /\ stats' \in Counters /\ at' \in [Requests -> Places]
             /\ stats.success <= stats'.success /\ stats.errors <= stats'.errors
  <2>1. /\ at' \in [Requests -> Places] /\ at'[r] = "done"
        /\ \A x \in Requests : x # r => at'[x] = at[x]
    BY <1>0, <1>7, MoveFacts DEF Places
  <2>2. Returned' = Returned /\ Finished' = Finished \cup {r} /\ r \notin Finished
    BY <1>7, <2>1 DEF Returned, Finished, Counting
  <2>3. Cardinality(Finished') = Cardinality(Finished) + 1
    BY <1>3, <2>2, FS_AddElement
  <2>4. /\ stats' \in Counters /\ stats'.total = stats.total
        /\ \/ stats'.success = stats.success + 1 /\ stats'.errors = stats.errors
           \/ stats'.success = stats.success /\ stats'.errors = stats.errors + 1
    BY <1>0, <1>7, HookFacts DEF Counted
  <2>5. stats'.success + stats'.errors = (stats.success + stats.errors) + 1
    BY <1>0, <2>4
  <2>6. CountInv'
    BY <1>1, <2>2, <2>3, <2>4, <2>5 DEF CountInv
  <2> QED
    BY <1>0, <2>1, <2>4, <2>6
<1> QED
  BY <1>4, <1>5, <1>6, <1>7 DEF CountShape

(* The requests between total.Add and the second half of their hooks are   *)
(* what the total is ahead of the other two counters.                      *)
LEMMA BetweenCounts ==
    ASSUME CountInv
    PROVE  /\ Cardinality(Between) \in Nat
           /\ stats.total = (stats.success + stats.errors) + Cardinality(Between)
<1>1. Returned = Finished \cup Between /\ Finished \cap Between = {}
  BY DEF Returned, Finished, Between, Counting
<1>2. IsFiniteSet(Finished) /\ IsFiniteSet(Between)
  <2>1. Finished \in SUBSET Returned /\ Between \in SUBSET Returned
    BY <1>1
  <2> QED
    BY <2>1, FS_Subset DEF CountInv
<1>3. Cardinality(Finished) \in Nat /\ Cardinality(Between) \in Nat
  BY <1>2, FS_CardinalityType
<1>4. Cardinality(Returned) =
          Cardinality(Finished) + Cardinality(Between) - Cardinality({})
  BY <1>1, <1>2, FS_Union
<1>5. Cardinality(Returned) = Cardinality(Finished) + Cardinality(Between)
  BY <1>3, <1>4, FS_EmptySet
<1> QED
  BY <1>3, <1>5 DEF CountInv

(* Counters that only grow, and sums of them.                              *)
LEMMA SumFacts ==
    /\ \A t, s, e, b, u, f \in Nat :
          t <= (s + e) + b /\ s <= u /\ e <= f => t <= (u + f) + b
    /\ \A a, b, u, f \in Nat : a <= u /\ b <= f => a + b <= u + f
    /\ \A a, b, c \in Nat : a <= b /\ b <= c => a <= c
    /\ \A a \in Nat : a <= a
  OBVIOUS

(* A snapshot goes on, or the counters move on under it.                   *)
LEMMA LoadStep ==
    ASSUME Types, CountInv, LoadInv, [Next]_admissionVars
    PROVE  LoadInv' /\ snapshot' \in Snapshots
<1> DEFINE s == snapshot
<1>0. /\ s \in Snapshots /\ stats \in Counters
      /\ stats.total \in Nat /\ stats.success \in Nat /\ stats.errors \in Nat
      /\ s.total \in Nat /\ s.success \in Nat /\ s.errors \in Nat /\ s.between \in Nat
  BY DEF Types, Counters, Snapshots
<1>1. CASE snapshot' = snapshot
  <2>1. /\ stats' \in Counters
        /\ stats.success <= stats'.success /\ stats.errors <= stats'.errors
    BY StepCounts, CountStep
  <2>2. stats'.success \in Nat /\ stats'.errors \in Nat
    BY <2>1 DEF Counters
  <2>3. snapshot.at = "success" =>
            snapshot.total <= (stats'.success + stats'.errors) + snapshot.between
    BY <1>0, <2>1, <2>2, SumFacts, Zenon DEF LoadInv
  <2>4. snapshot.at = "errors" =>
            /\ snapshot.success <= stats'.success
            /\ snapshot.total <= (snapshot.success + stats'.errors) + snapshot.between
    <3> SUFFICES ASSUME snapshot.at = "errors"
                 PROVE  /\ snapshot.success <= stats'.success
                        /\ snapshot.total <= (snapshot.success + stats'.errors) + snapshot.between
      OBVIOUS
    <3>1. /\ snapshot.success <= stats.success
          /\ snapshot.total <= (snapshot.success + stats.errors) + snapshot.between
      BY DEF LoadInv
    <3>2. snapshot.success <= stats'.success
      BY <1>0, <2>1, <2>2, <3>1, SumFacts, Zenon
    <3>3. snapshot.success <= snapshot.success
      BY <1>0, SumFacts
    <3>4. snapshot.total <= (snapshot.success + stats'.errors) + snapshot.between
      BY <1>0, <2>1, <2>2, <3>1, <3>3, SumFacts, Zenon
    <3> QED
      BY <3>2, <3>4
  <2>5. snapshot.at = "end" => snapshot.success + snapshot.errors <= stats'.success + stats'.errors
    <3>1. /\ snapshot.success + snapshot.errors \in Nat
          /\ stats.success + stats.errors \in Nat /\ stats'.success + stats'.errors \in Nat
      BY <1>0, <2>2
    <3>2. stats.success + stats.errors <= stats'.success + stats'.errors
      BY <1>0, <2>1, <2>2, SumFacts, Zenon
    <3> SUFFICES ASSUME snapshot.at = "end"
                 PROVE  snapshot.success + snapshot.errors <= stats'.success + stats'.errors
      OBVIOUS
    <3>3. snapshot.success + snapshot.errors <= stats.success + stats.errors
      BY DEF LoadInv
    <3> QED
      BY <3>1, <3>2, <3>3
  <2>6. LoadInv'
    BY <1>1, <2>3, <2>4, <2>5, Zenon DEF LoadInv
  <2> QED
    BY <1>0, <1>1, <2>6
<1>2. CASE BeginSnapshot
  <2>1. /\ snapshot' = [s EXCEPT !.at = "success", !.total = stats.total,
                                 !.between = Cardinality(Between)]
        /\ stats' = stats
    BY <1>2 DEF BeginSnapshot, Between
  <2>2. /\ Cardinality(Between) \in Nat
        /\ stats.total = (stats.success + stats.errors) + Cardinality(Between)
    BY BetweenCounts
  <2>3. /\ snapshot' \in Snapshots /\ snapshot'.at = "success"
        /\ snapshot'.total = stats.total /\ snapshot'.between = Cardinality(Between)
    <3> DEFINE a == stats.total
               b == Cardinality(Between)
               v == snapshot'
    <3>1. /\ s \in Snapshots /\ a \in Nat /\ b \in Nat
          /\ v = [s EXCEPT !.at = "success", !.total = a, !.between = b]
      BY <1>0, <2>1, <2>2
    <3> HIDE DEF s, a, b, v
    <3>2. v \in Snapshots /\ v.at = "success" /\ v.total = a /\ v.between = b
      BY <3>1 DEF Snapshots
    <3> QED
      BY <3>2 DEF a, b, v
  <2>4. snapshot'.total <= (stats'.success + stats'.errors) + snapshot'.between
    <3>1. stats.total <= stats.total
      BY <1>0, SumFacts
    <3> QED
      BY <2>1, <2>2, <2>3, <3>1, Zenon
  <2> QED
    BY <2>3, <2>4, Zenon DEF LoadInv
<1>3. CASE LoadSuccess
  <2>1. /\ s.at = "success" /\ stats' = stats
        /\ snapshot' = [s EXCEPT !.success = stats.success, !.at = "errors"]
    BY <1>3 DEF LoadSuccess, Load
  <2>2. /\ snapshot' \in Snapshots /\ snapshot'.at = "errors"
        /\ snapshot'.success = stats.success
        /\ snapshot'.total = s.total /\ snapshot'.between = s.between
    <3> DEFINE a == stats.success
               v == snapshot'
    <3>1. /\ s \in Snapshots /\ a \in Nat
          /\ v = [s EXCEPT !.success = a, !.at = "errors"]
      BY <1>0, <2>1
    <3> HIDE DEF s, a, v
    <3>2. /\ v \in Snapshots /\ v.at = "errors" /\ v.success = a
          /\ v.total = s.total /\ v.between = s.between
      BY <3>1 DEF Snapshots
    <3> QED
      BY <3>2 DEF a, v
  <2>3. s.total <= (stats.success + stats.errors) + s.between
    BY <2>1 DEF LoadInv
  <2>4. stats.success <= stats.success
    BY <1>0, SumFacts
  <2> QED
    BY <2>1, <2>2, <2>3, <2>4, Zenon DEF LoadInv
<1>4. CASE LoadErrors
  <2>1. /\ s.at = "errors" /\ stats' = stats
        /\ snapshot' = [s EXCEPT !.errors = stats.errors, !.at = "end"]
    BY <1>4 DEF LoadErrors, Load
  <2>2. /\ snapshot' \in Snapshots /\ snapshot'.at = "end"
        /\ snapshot'.errors = stats.errors /\ snapshot'.success = s.success
        /\ snapshot'.total = s.total /\ snapshot'.between = s.between
    <3> DEFINE a == stats.errors
               v == snapshot'
    <3>1. s \in Snapshots /\ a \in Nat /\ v = [s EXCEPT !.errors = a, !.at = "end"]
      BY <1>0, <2>1
    <3> HIDE DEF s, a, v
    <3>2. /\ v \in Snapshots /\ v.at = "end" /\ v.errors = a /\ v.success = s.success
          /\ v.total = s.total /\ v.between = s.between
      BY <3>1 DEF Snapshots
    <3> QED
      BY <3>2 DEF a, v
  <2>3. s.success <= stats.success /\ s.total <= (s.success + stats.errors) + s.between
    BY <2>1 DEF LoadInv
  <2>4. s.success + stats.errors <= stats.success + stats.errors
    BY <1>0, <2>3, SumFacts
  <2> QED
    BY <2>1, <2>2, <2>3, <2>4, Zenon DEF LoadInv
<1>5. snapshot' = snapshot \/ BeginSnapshot \/ LoadSuccess \/ LoadErrors
  BY DEF Next, Reject, Authenticate, BeginAheadOf, AheadOf, Decide, Push, Timeout, Hook,
         PopRequest, FinishRequest, Clock, admissionVars
<1> QED
  BY <1>1, <1>2, <1>3, <1>4, <1>5

-----------------------------------------------------------------------------
(* Taking the head of a lane leaves the rest in order.                     *)
LEMMA LaneTail ==
    ASSUME NEW l, NEW s \in Seq(Requests), s # <<>>, Room(s), Sorted(l, s), Once(s)
    PROVE  /\ Head(s) \in Requests /\ Tail(s) \in Seq(Requests)
           /\ Room(Tail(s)) /\ Sorted(l, Tail(s)) /\ Once(Tail(s))
<1>1. /\ Head(s) \in Requests /\ Tail(s) \in Seq(Requests)
      /\ Len(Tail(s)) = Len(s) - 1 /\ Len(s) \in Nat
      /\ \A i \in DOMAIN Tail(s) : i \in Nat /\ i + 1 \in DOMAIN s /\ Tail(s)[i] = s[i + 1]
  OBVIOUS
<1>2. Room(Tail(s))
  BY <1>1, CapacityAssumption DEF Room
<1>3. \A i, j \in DOMAIN Tail(s) : i + 1 = j + 1 => i = j
  BY <1>1
<1>4. Sorted(l, Tail(s)) /\ Once(Tail(s))
  BY <1>1, <1>3 DEF Sorted, Once
<1> QED
  BY <1>1, <1>2, <1>4

(* A request that is pushed into a lane with room.                         *)
LEMMA LaneAppend ==
    ASSUME NEW l, NEW s \in Seq(Requests), NEW r \in Requests, PriorityOf[r] = l,
           Len(s) < Capacity, Sorted(l, s), Once(s), \A i \in DOMAIN s : s[i] # r
    PROVE  /\ Append(s, r) \in Seq(Requests)
           /\ Room(Append(s, r)) /\ Sorted(l, Append(s, r)) /\ Once(Append(s, r))
<1>1. /\ Append(s, r) \in Seq(Requests) /\ Len(Append(s, r)) = Len(s) + 1
      /\ \A i \in DOMAIN Append(s, r) :
            \/ i = Len(s) + 1 /\ Append(s, r)[i] = r
            \/ i \in DOMAIN s /\ Append(s, r)[i] = s[i]
  OBVIOUS
<1>2. Room(Append(s, r))
  <2>1. Len(s) \in Nat
    OBVIOUS
  <2> QED
    BY <1>1, <2>1, CapacityAssumption DEF Room
<1>3. Sorted(l, Append(s, r)) /\ Once(Append(s, r))
  BY <1>1, Zenon DEF Sorted, Once
<1> QED
  BY <1>1, <1>2, <1>3

(* The queue through a step.                                               *)
LEMMA LanesStep ==
    ASSUME Types, LanesInv, [Next]_admissionVars
    PROVE  /\ LanesInv' /\ lanes' \in [Priorities -> Seq(Requests)]
           /\ got' \in [Poppers -> Requests \cup {None}]
<1>0. /\ lanes \in [Priorities -> Seq(Requests)] /\ got \in [Poppers -> Requests \cup {None}]
  BY DEF Types
<1>1. ASSUME NEW l \in Priorities, NEW s \in Seq(Requests), Room(s), Sorted(l, s), Once(s),
             lanes' = [lanes EXCEPT ![l] = s]
      PROVE  LanesInv' /\ lanes' \in [Priorities -> Seq(Requests)]
  <2>1. lanes'[l] = s /\ \A k \in Priorities : k # l => lanes'[k] = lanes[k]
    BY <1>0, <1>1
  <2>2. \A k \in Priorities : Room(lanes'[k]) /\ Sorted(k, lanes'[k]) /\ Once(lanes'[k])
    BY <1>1, <2>1 DEF LanesInv
  <2>3. LanesInv'
    BY <2>2 DEF LanesInv
  <2> QED
    BY <1>0, <1>1, <2>3
<1>2. ASSUME NEW p \in Poppers, PopRequest(p)
      PROVE  /\ LanesInv' /\ lanes' \in [Priorities -> Seq(Requests)]
             /\ got' \in [Poppers -> Requests \cup {None}]
  <2>1. PICK l \in Priorities : Take(p, l)
    BY <1>2 DEF PopRequest
  <2> DEFINE s == lanes[l]
  <2>2. /\ s # <<>> /\ got' = [got EXCEPT ![p] = Head(s)]
        /\ lanes' = [lanes EXCEPT ![l] = Tail(s)]
    BY <2>1 DEF Take
  <2>3. s \in Seq(Requests) /\ Room(s) /\ Sorted(l, s) /\ Once(s)
    BY <1>0 DEF LanesInv
  <2> HIDE DEF s
  <2>4. /\ Head(s) \in Requests /\ Tail(s) \in Seq(Requests)
        /\ Room(Tail(s)) /\ Sorted(l, Tail(s)) /\ Once(Tail(s))
    BY <2>2, <2>3, LaneTail
  <2> QED
    BY <1>0, <1>1, <2>2, <2>4
<1>3. ASSUME NEW r \in Requests, Accept(r)
      PROVE  /\ LanesInv' /\ lanes' \in [Priorities -> Seq(Requests)]
             /\ got' \in [Poppers -> Requests \cup {None}]
  <2> DEFINE l == PriorityOf[r]
             s == lanes[l]
  <2>1. l \in Priorities
    BY PriorityAssumption
  <2>2. /\ s \in Seq(Requests) /\ Sorted(l, s) /\ Once(s) /\ Len(s) \in Nat
    BY <1>0, <2>1 DEF LanesInv
  <2>3. /\ lanes' = [lanes EXCEPT ![l] = Append(s, r)] /\ got' = got
        /\ Len(s) < Capacity /\ \A i \in DOMAIN s : s[i] # r
    BY <1>3, <2>2, CapacityAssumption DEF Accept, Full, Waiting
  <2> HIDE DEF s
  <2>4. /\ Append(s, r) \in Seq(Requests)
        /\ Room(Append(s, r)) /\ Sorted(l, Append(s, r)) /\ Once(Append(s, r))
    BY <2>2, <2>3, LaneAppend
  <2> QED
    BY <1>0, <1>1, <2>1, <2>3, <2>4
<1>4. CASE lanes' = lanes /\ got' \in [Poppers -> Requests \cup {None}]
  BY <1>0, <1>4 DEF LanesInv
<1>5. ASSUME NEW r \in Requests, Push(r)
      PROVE  /\ LanesInv' /\ lanes' \in [Priorities -> Seq(Requests)]
             /\ got' \in [Poppers -> Requests \cup {None}]
  <2>1. CASE \E p \in Poppers : HandOver(r, p)
    BY <1>0, <1>4, <2>1 DEF HandOver
  <2>2. CASE UNCHANGED queueVars
    BY <1>0, <1>4, <2>2 DEF queueVars
  <2> QED
    BY <1>3, <1>5, <2>1, <2>2 DEF Push
<1>6. ASSUME NEW p \in Poppers, FinishRequest(p)
      PROVE  /\ LanesInv' /\ lanes' \in [Priorities -> Seq(Requests)]
             /\ got' \in [Poppers -> Requests \cup {None}]
  <2>1. lanes' = lanes /\ got' = [got EXCEPT ![p] = None]
    BY <1>6 DEF FinishRequest, Release
  <2> QED
    BY <1>0, <1>4, <2>1
<1>7. CASE UNCHANGED queueVars
  BY <1>0, <1>4, <1>7 DEF queueVars
<1>8. \/ \E r \in Requests : Push(r)
      \/ \E p \in Poppers : PopRequest(p) \/ FinishRequest(p)
      \/ UNCHANGED queueVars
  BY DEF Next, Reject, Authenticate, BeginAheadOf, AheadOf, Decide, Timeout, Hook,
         BeginSnapshot, LoadSuccess, LoadErrors, Load, Clock, admissionVars
<1> QED
  BY <1>2, <1>5, <1>6, <1>7, <1>8

-----------------------------------------------------------------------------
(* The history of the handlers inside AheadOf stays about requests.        *)
LEMMA WatchTypes ==
    ASSUME Types, Watch
    PROVE  stayed' \in [Requests -> SUBSET Requests] /\ seen' \in [Requests -> SUBSET Requests]
<1>1. \A p : Before(p)' \subseteq Requests
  BY DEF Before
<1>2. \A r \in Requests : stayed[r] \subseteq Requests /\ seen[r] \subseteq Requests
  BY DEF Types
<1>3. ASSUME NEW r \in Requests
      PROVE  /\ (IF Reading(r) THEN stayed[r] \cap Before(PriorityOf[r])' ELSE stayed[r])
                    \in SUBSET Requests
             /\ (IF Reading(r) THEN seen[r] \cup Before(PriorityOf[r])' ELSE seen[r])
                    \in SUBSET Requests
  BY <1>1, <1>2
<1> QED
  BY <1>3 DEF Watch

(* The handlers' sums and histories through a step.                        *)
LEMMA AheadTypes ==
    ASSUME Types, [Next]_admissionVars
    PROVE  /\ ahead' \in [Requests -> Nat]
           /\ stayed' \in [Requests -> SUBSET Requests]
           /\ seen' \in [Requests -> SUBSET Requests]
<1>0. /\ ahead \in [Requests -> Nat] /\ stayed \in [Requests -> SUBSET Requests]
      /\ seen \in [Requests -> SUBSET Requests]
      /\ lanes \in [Priorities -> Seq(Requests)]
  BY DEF Types
<1>1. ASSUME NEW r \in Requests, BeginAheadOf(r)
      PROVE  /\ ahead' \in [Requests -> Nat]
             /\ stayed' \in [Requests -> SUBSET Requests]
             /\ seen' \in [Requests -> SUBSET Requests]
  <2>1. Before(PriorityOf[r]) \in SUBSET Requests
    BY DEF Before
  <2> QED
    BY <1>0, <1>1, <2>1 DEF BeginAheadOf
<1>2. ASSUME NEW r \in Requests, AheadOf(r)
      PROVE  /\ ahead' \in [Requests -> Nat]
             /\ stayed' \in [Requests -> SUBSET Requests]
             /\ seen' \in [Requests -> SUBSET Requests]
  <2> DEFINE n == Len(lanes[at[r]])
  <2>1. n \in Nat
    BY <1>0, <1>2 DEF AheadOf
  <2>2. ahead' = [ahead EXCEPT ![r] = ahead[r] + n] /\ stayed' = stayed /\ seen' = seen
    BY <1>2 DEF AheadOf
  <2> HIDE DEF n
  <2> QED
    BY <1>0, <2>1, <2>2
<1>3. ASSUME NEW r \in Requests, Decide(r)
      PROVE  /\ ahead' \in [Requests -> Nat]
             /\ stayed' \in [Requests -> SUBSET Requests]
             /\ seen' \in [Requests -> SUBSET Requests]
  BY <1>0, <1>3 DEF Decide
<1>4. CASE Watch /\ ahead' = ahead
  BY <1>0, <1>4, WatchTypes
<1>5. CASE UNCHANGED <<ahead, stayed, seen>>
  BY <1>0, <1>5
<1>6. \/ \E r \in Requests : BeginAheadOf(r) \/ AheadOf(r) \/ Decide(r)
      \/ Watch /\ ahead' = ahead
      \/ UNCHANGED <<ahead, stayed, seen>>
  BY DEF Next, Reject, Authenticate, Push, Timeout, Hook, PopRequest, FinishRequest,
         BeginSnapshot, LoadSuccess, LoadErrors, Load, Clock, admissionVars
<1> QED
  BY <1>1, <1>2, <1>3, <1>4, <1>5, <1>6

(* The tracker's average stays an average of samples.                      *)
LEMMA AverageType ==
    ASSUME Types, [Next]_admissionVars
    PROVE  average' \in Latencies \cup {None}
<1>0. average \in Latencies \cup {None}
  BY DEF Types
<1>1. \A d \in Latencies : Recorded(d) \subseteq Latencies
  BY DEF Recorded
<1>2. ASSUME NEW p \in Poppers, FinishRequest(p)
      PROVE  average' \in Latencies \cup {None}
  BY <1>0, <1>1, <1>2 DEF FinishRequest
<1>3. (\E p \in Poppers : FinishRequest(p)) \/ average' = average
  BY DEF Next, Reject, Authenticate, BeginAheadOf, AheadOf, Decide, Push, Timeout, Hook,
         PopRequest, BeginSnapshot, LoadSuccess, LoadErrors, Load, Clock, admissionVars
<1> QED
  BY <1>0, <1>2, <1>3

(* No handler, lane or counter to begin with.                              *)
LEMMA AdmissionInit == Init => HookInv
<1> SUFFICES ASSUME Init PROVE HookInv
  OBVIOUS
<1>1. Types
  <2>1. lanes \in [Priorities -> Seq(Requests)] /\ got \in [Poppers -> Requests \cup {None}]
    BY DEF Init, QueueInit
  <2>2. at \in [Requests -> Places] /\ ahead \in [Requests -> Nat]
    BY DEF Init, Places
  <2>3. /\ stayed \in [Requests -> SUBSET Requests] /\ seen \in [Requests -> SUBSET Requests]
        /\ average \in Latencies \cup {None}
    BY DEF Init
  <2>4. stats \in Counters
    BY DEF Init, Counters
  <2>5. snapshot \in Snapshots
    BY DEF Init, NoSnapshot, Snapshots
  <2> QED
    BY <2>1, <2>2, <2>3, <2>4, <2>5 DEF Types
<1>2. LanesInv
  <2>1. \A l \in Priorities : lanes[l] = <<>>
    BY DEF Init, QueueInit
  <2> QED
    BY <2>1, CapacityAssumption DEF LanesInv, Room, Sorted, Once
<1>3. CountInv
  <2>1. Returned = {} /\ Finished = {}
    BY DEF Init, Returned, Finished, Counting
  <2>2. stats.total = 0 /\ stats.success = 0 /\ stats.errors = 0
    BY DEF Init
  <2> QED
    BY <2>1, <2>2, FS_EmptySet DEF CountInv
<1>4. LoadInv
  BY DEF Init, NoSnapshot, LoadInv
<1> QED
  BY <1>1, <1>2, <1>3, <1>4 DEF HookInv, QueueInv

(* Types, lanes, counters and snapshot through a step.                     *)
LEMMA HookStep == HookInv /\ [Next]_admissionVars => HookInv'
<1> SUFFICES ASSUME HookInv, [Next]_admissionVars
             PROVE  HookInv'
  OBVIOUS
<1>0. Types /\ LanesInv /\ CountInv /\ LoadInv
  BY DEF HookInv, QueueInv
<1>1. CountInv' /\ stats' \in Counters /\ at' \in [Requests -> Places]
  BY <1>0, StepCounts, CountStep
<1>2. LoadInv' /\ snapshot' \in Snapshots
  BY <1>0, LoadStep
<1>3. /\ LanesInv' /\ lanes' \in [Priorities -> Seq(Requests)]
      /\ got' \in [Poppers -> Requests \cup {None}]
  BY <1>0, LanesStep
<1>4. /\ ahead' \in [Requests -> Nat] /\ stayed' \in [Requests -> SUBSET Requests]
      /\ seen' \in [Requests -> SUBSET Requests]
  BY <1>0, AheadTypes
<1>5. average' \in Latencies \cup {None}
  BY <1>0, AverageType
<1>6. Types'
  BY <1>1, <1>2, <1>3, <1>4, <1>5, Zenon DEF Types
<1> QED
  BY <1>1, <1>2, <1>3, <1>6 DEF HookInv, QueueInv

(* HookInv is inductive.                                                   *)
LEMMA HookInvariant == Spec => []HookInv
  BY AdmissionInit, HookStep, PTL DEF Spec

(* A snapshot of the counters, whose three loads are not atomic, invents   *)
(* no finished request and is short of its own total by no more than the   *)
(* hooks half done when it began (stats.go Hook and Snapshot).             *)
THEOREM SnapshotAlwaysCurrent == Spec => []SnapshotIsCurrent
<1>1. HookInv => SnapshotIsCurrent
  <2> SUFFICES ASSUME HookInv, snapshot.at = "end"
               PROVE  /\ snapshot.total <= (snapshot.success + snapshot.errors) + snapshot.between
                      /\ snapshot.success + snapshot.errors <= Cardinality(Finished)
    BY DEF SnapshotIsCurrent, Finished
  <2> QED
    BY DEF HookInv, LoadInv, CountInv
<1> QED
  BY <1>1, HookInvariant, PTL

-----------------------------------------------------------------------------
(* The requests in a lane without duplicates are as many as it is long.    *)
LEMMA LaneCount ==
    ASSUME NEW S, NEW s \in Seq(S), Once(s), NEW T, T = {s[i] : i \in DOMAIN s}
    PROVE  IsFiniteSet(T) /\ Cardinality(T) = Len(s)
<1>1. Len(s) \in Nat /\ DOMAIN s = 1..Len(s)
  OBVIOUS
<1> DEFINE f == [i \in 1..Len(s) |-> s[i]]
<1>2. f \in Bijection(1..Len(s), T)
  <2>1. f \in [1..Len(s) -> T]
    BY <1>1
  <2>2. \A i, j \in 1..Len(s) : f[i] = f[j] => i = j
    BY <1>1 DEF Once
  <2>3. \A t \in T : \E i \in 1..Len(s) : f[i] = t
    BY <1>1
  <2> QED
    BY <2>1, <2>2, <2>3 DEF Bijection, Injection, Surjection, IsInjective
<1> HIDE DEF f
<1>3. IsFiniteSet(1..Len(s)) /\ Cardinality(1..Len(s)) = Len(s)
  <2>1. Cardinality(1..Len(s)) = IF 1 > Len(s) THEN 0 ELSE Len(s) - 1 + 1
    BY <1>1, FS_Interval
  <2>2. IsFiniteSet(1..Len(s))
    BY <1>1, FS_Interval
  <2> QED
    BY <1>1, <2>1, <2>2
<1>4. ExistsBijection(1..Len(s), T)
  BY <1>2 DEF ExistsBijection
<1> QED
  BY <1>3, <1>4, FS_Bijection

(* However the lanes are filled, finitely many requests wait in them.      *)
LEMMA WaitingFinite ==
    ASSUME NEW L \in [Priorities -> Seq(Requests)], \A l \in Priorities : Once(L[l]),
           NEW B \in SUBSET Requests,
           \A r \in B : \E i \in DOMAIN L[PriorityOf[r]] : L[PriorityOf[r]][i] = r
    PROVE  IsFiniteSet(B)
<1> DEFINE T(l) == {L[l][i] : i \in DOMAIN L[l]}
<1>1. \A l \in Priorities : IsFiniteSet(T(l))
  <2> SUFFICES ASSUME NEW l \in Priorities PROVE IsFiniteSet(T(l))
    OBVIOUS
  <2>1. L[l] \in Seq(Requests) /\ Once(L[l])
    OBVIOUS
  <2> QED
    BY <2>1, LaneCount
<1>2. B \subseteq (T("high") \cup T("normal")) \cup T("low")
  BY PriorityAssumption DEF Priorities
<1>3. IsFiniteSet(T("high")) /\ IsFiniteSet(T("normal")) /\ IsFiniteSet(T("low"))
  BY <1>1 DEF Priorities
<1> HIDE DEF T
<1>4. IsFiniteSet((T("high") \cup T("normal")) \cup T("low"))
  BY <1>3, FS_Union
<1> QED
  BY <1>2, <1>4, FS_Subset

(* The lanes AheadOf walks are those it is meant to walk.                  *)
LEMMA BeforeLanes ==
    ASSUME NEW p \in Priorities, NEW q, NEW i \in DOMAIN Lanes(p), Lanes(p)[i] = q
    PROVE  q \in LanesOf(p)
<1>1. CASE p = "high"
  BY <1>1 DEF Lanes, LanesOf
<1>2. CASE p = "normal"
  BY <1>2 DEF Lanes, LanesOf
<1>3. CASE p = "low"
  BY <1>3 DEF Lanes, LanesOf, Priorities
<1> QED
  BY <1>1, <1>2, <1>3 DEF Priorities

(* Conversely, each of them is among those.                                *)
LEMMA LanesBefore ==
    ASSUME NEW p \in Priorities, NEW q \in LanesOf(p)
    PROVE  \E i \in DOMAIN Lanes(p) : Lanes(p)[i] = q
<1>1. CASE p = "high"
  <2>1. 1 \in DOMAIN Lanes(p) /\ Lanes(p)[1] = q
    BY <1>1 DEF Lanes, LanesOf
  <2> QED
    BY <2>1
<1>2. CASE p = "normal"
  <2>1. \/ 1 \in DOMAIN Lanes(p) /\ Lanes(p)[1] = q
        \/ 2 \in DOMAIN Lanes(p) /\ Lanes(p)[2] = q
    BY <1>2 DEF Lanes, LanesOf
  <2> QED
    BY <2>1
<1>3. CASE p = "low"
  <2>1. \/ 1 \in DOMAIN Lanes(p) /\ Lanes(p)[1] = q
        \/ 2 \in DOMAIN Lanes(p) /\ Lanes(p)[2] = q
        \/ 3 \in DOMAIN Lanes(p) /\ Lanes(p)[3] = q
    BY <1>3 DEF Lanes, LanesOf, Priorities
  <2> QED
    BY <2>1
<1> QED
  BY <1>1, <1>2, <1>3 DEF Priorities

(* Smaller sets count less.                                                *)
LEMMA SubsetCounts ==
    ASSUME NEW T, IsFiniteSet(T), NEW S \in SUBSET T
    PROVE  /\ IsFiniteSet(S) /\ Cardinality(S) \in Nat /\ Cardinality(T) \in Nat
           /\ Cardinality(S) <= Cardinality(T)
  BY FS_Subset, FS_CardinalityType

(* A handler that neither enters nor leaves AheadOf.                       *)
Quiet == \A x \in Requests : at'[x] = at[x] \/ (~Reading(x) /\ ~Reading(x)')

(* Only AheadOf and what surrounds it touch the sums; only steps that      *)
(* Watch touch the lanes.                                                  *)
LEMMA ReadingStep ==
    ASSUME Types, [Next]_admissionVars
    PROVE  \/ \E r \in Requests : BeginAheadOf(r) \/ AheadOf(r) \/ Decide(r)
           \/ /\ ahead' = ahead /\ Quiet
              /\ Watch \/ UNCHANGED <<lanes, stayed, seen>>
<1>0. at \in [Requests -> Places]
  BY DEF Types
<1>1. ASSUME NEW r \in Requests, NEW place \in Places, ~Reading(r),
             place \notin Priorities \cup {"estimate"}, Move(r, place)
      PROVE  Quiet
  <2>1. at'[r] = place /\ \A x \in Requests : x # r => at'[x] = at[x]
    BY <1>0, <1>1, MoveFacts
  <2> QED
    BY <1>1, <2>1 DEF Quiet, Reading
<1>2. ASSUME at' = at PROVE Quiet
  BY <1>2 DEF Quiet
<1>3. ASSUME NEW r \in Requests, Reject(r) \/ Timeout(r)
      PROVE  ahead' = ahead /\ Quiet /\ UNCHANGED <<lanes, stayed, seen>>
  <2>1. (at[r] = "new" \/ at[r] = "waiting") /\ Move(r, "failed")
    BY <1>3 DEF Reject, Timeout, Return
  <2>2. Quiet
    BY <1>1, <2>1 DEF Reading, Priorities, Places
  <2> QED
    BY <1>3, <2>2 DEF Reject, Timeout, queueVars
<1>4. ASSUME NEW r \in Requests, Authenticate(r)
      PROVE  ahead' = ahead /\ Quiet /\ UNCHANGED <<lanes, stayed, seen>>
  <2>1. at[r] = "new" /\ (Move(r, "start") \/ Move(r, "failed"))
    BY <1>4 DEF Authenticate, Return
  <2>2. Quiet
    BY <1>1, <2>1 DEF Reading, Priorities, Places
  <2> QED
    BY <1>4, <2>2 DEF Authenticate, queueVars
<1>5. ASSUME NEW r \in Requests, Push(r)
      PROVE  ahead' = ahead /\ Quiet /\ Watch
  <2>1. at[r] = "push" /\ (Move(r, "waiting") \/ Move(r, "failed"))
    BY <1>5 DEF Push, Return
  <2>2. Quiet
    BY <1>1, <2>1 DEF Reading, Priorities, Places
  <2> QED
    BY <1>5, <2>2 DEF Push
<1>6. ASSUME NEW r \in Requests, Hook(r)
      PROVE  ahead' = ahead /\ Quiet /\ UNCHANGED <<lanes, stayed, seen>>
  <2>1. at[r] \in {"succeeded", "failed", "shed"} /\ Move(r, "done")
    BY <1>6 DEF Hook, Counting
  <2>2. Quiet
    BY <1>1, <2>1 DEF Reading, Priorities, Places
  <2> QED
    BY <1>6, <2>2 DEF Hook, queueVars
<1>7. ASSUME NEW p \in Poppers, FinishRequest(p)
      PROVE  ahead' = ahead /\ Quiet /\ UNCHANGED <<lanes, stayed, seen>>
  <2>1. got[p] \in Requests
    BY <1>7 DEF FinishRequest, Release, Types
  <2>2. ASSUME at[got[p]] = "waiting" PROVE Quiet
    <3>1. Move(got[p], "succeeded") \/ Move(got[p], "failed")
      BY <1>7, <2>2 DEF FinishRequest, Return
    <3> QED
      BY <1>1, <2>1, <2>2, <3>1 DEF Reading, Priorities, Places
  <2>3. ASSUME at[got[p]] # "waiting" PROVE Quiet
    BY <1>2, <1>7, <2>3 DEF FinishRequest
  <2>4. Quiet
    BY <2>2, <2>3
  <2> QED
    BY <1>7, <2>4 DEF FinishRequest, Release
<1>8. ASSUME NEW p \in Poppers, PopRequest(p)
      PROVE  ahead' = ahead /\ Quiet /\ Watch
  BY <1>2, <1>8 DEF PopRequest
<1>9. CASE BeginSnapshot \/ LoadSuccess \/ LoadErrors \/ Clock \/ UNCHANGED admissionVars
  <2>1. at' = at /\ ahead' = ahead /\ UNCHANGED <<lanes, stayed, seen>>
    BY <1>9 DEF BeginSnapshot, LoadSuccess, LoadErrors, Load, Clock, admissionVars, queueVars
  <2> QED
    BY <1>2, <2>1
<1> QED
  BY <1>3, <1>4, <1>5, <1>6, <1>7, <1>8, <1>9 DEF Next

-----------------------------------------------------------------------------
(* A handler whose sum and history, and the lanes, stay as they are.       *)
LEMMA ReckonedKept ==
    ASSUME NEW x \in Requests, Reckoned(x), lanes' = lanes, at'[x] = at[x],
           ahead'[x] = ahead[x], stayed'[x] = stayed[x], seen'[x] = seen[x]
    PROVE  Reckoned(x)'
<1>1. Before(PriorityOf[x])' = Before(PriorityOf[x])
  BY DEF Before, Waiting
<1>2. Reading(x)' = Reading(x)
  BY DEF Reading
<1> QED
  BY <1>1, <1>2 DEF Reckoned

(* A handler outside AheadOf has no sum to account for.                    *)
LEMMA ReckonedOutside ==
    ASSUME NEW x \in Requests, ~Reading(x)'
    PROVE  Reckoned(x)'
  BY DEF Reckoned

(* The lanes change under a handler in the middle of AheadOf: those that   *)
(* stayed ahead get fewer and those it may have seen more.                 *)
LEMMA ReckonedWatched ==
    ASSUME Types, Types', LanesInv', NEW x \in Requests, Reckoned(x), Reading(x),
           at'[x] = at[x], ahead' = ahead, Watch
    PROVE  Reckoned(x)'
<1> DEFINE p == PriorityOf[x]
           B == Before(p)'
<1>1. p \in Priorities
  BY PriorityAssumption
<1>2. /\ B \in SUBSET Requests
      /\ \A y \in B : /\ \E i \in DOMAIN lanes'[PriorityOf[y]] : lanes'[PriorityOf[y]][i] = y
                      /\ \E i \in DOMAIN Lanes(p) : Lanes(p)[i] = PriorityOf[y]
  BY DEF Before, Waiting
<1>3. \A y \in B : PriorityOf[y] \in LanesOf(p)
  BY <1>1, <1>2, BeforeLanes
<1>4. IsFiniteSet(B)
  <2>1. lanes' \in [Priorities -> Seq(Requests)] /\ \A l \in Priorities : Once(lanes'[l])
    BY DEF Types, LanesInv
  <2> HIDE DEF B
  <2> QED
    BY <1>2, <2>1, WaitingFinite
<1>5. stayed'[x] = stayed[x] \cap B /\ seen'[x] = seen[x] \cup B
  BY DEF Watch
<1>6. Reading(x)'
  BY DEF Reading
<1> HIDE DEF B
<1>7. /\ at[x] \in Priorities => at[x] \in LanesOf(p)
      /\ stayed[x] \subseteq seen[x]
      /\ \A y \in seen[x] : PriorityOf[y] \in LanesOf(p)
      /\ IsFiniteSet(seen[x])
      /\ Cardinality(Of(stayed[x], at[x])) <= ahead[x]
      /\ ahead[x] <= Cardinality(Of(seen[x], at[x]))
  BY DEF Reckoned
<1>8. IsFiniteSet(seen'[x])
  BY <1>4, <1>5, <1>7, FS_Union
<1>9. ahead[x] \in Nat
  BY DEF Types
<1>10. Cardinality(Of(stayed'[x], at[x])) <= ahead[x]
  <2>1. Of(stayed[x], at[x]) \in SUBSET seen[x]
    BY <1>7 DEF Of
  <2>2. IsFiniteSet(Of(stayed[x], at[x]))
    BY <1>7, <2>1, SubsetCounts
  <2>3. Of(stayed'[x], at[x]) \in SUBSET Of(stayed[x], at[x])
    BY <1>5 DEF Of
  <2>4. /\ Cardinality(Of(stayed'[x], at[x])) \in Nat /\ Cardinality(Of(stayed[x], at[x])) \in Nat
        /\ Cardinality(Of(stayed'[x], at[x])) <= Cardinality(Of(stayed[x], at[x]))
    BY <2>2, <2>3, SubsetCounts
  <2> QED
    BY <1>7, <1>9, <2>4
<1>11. ahead[x] <= Cardinality(Of(seen'[x], at[x]))
  <2>1. Of(seen'[x], at[x]) \in SUBSET seen'[x]
    BY DEF Of
  <2>2. IsFiniteSet(Of(seen'[x], at[x]))
    BY <1>8, <2>1, SubsetCounts
  <2>3. Of(seen[x], at[x]) \in SUBSET Of(seen'[x], at[x])
    BY <1>5 DEF Of
  <2>4. /\ Cardinality(Of(seen'[x], at[x])) \in Nat /\ Cardinality(Of(seen[x], at[x])) \in Nat
        /\ Cardinality(Of(seen[x], at[x])) <= Cardinality(Of(seen'[x], at[x]))
    BY <2>2, <2>3, SubsetCounts
  <2> QED
    BY <1>7, <1>9, <2>4
<1>12. \A y \in seen'[x] : PriorityOf[y] \in LanesOf(p)
  BY <1>3, <1>5, <1>7
<1>13. stayed'[x] \subseteq Before(p)' /\ Before(p)' \subseteq seen'[x]
  BY <1>5 DEF B
<1> QED
  BY <1>7, <1>8, <1>10, <1>11, <1>12, <1>13, Zenon DEF Reckoned

(* AheadOf begins: nothing is counted yet.                                 *)
LEMMA ReckonedBegin ==
    ASSUME Types, LanesInv, NEW r \in Requests, AheadBound(r), BeginAheadOf(r)
    PROVE  Reckoned(r)'
<1> DEFINE p == PriorityOf[r]
           B == Before(p)
<1>1. p \in Priorities
  BY PriorityAssumption
<1>2. /\ B \in SUBSET Requests
      /\ \A y \in B : /\ \E i \in DOMAIN lanes[PriorityOf[y]] : lanes[PriorityOf[y]][i] = y
                      /\ \E i \in DOMAIN Lanes(p) : Lanes(p)[i] = PriorityOf[y]
  BY DEF Before, Waiting
<1>3. \A y \in B : PriorityOf[y] \in LanesOf(p)
  BY <1>1, <1>2, BeforeLanes
<1>4. IsFiniteSet(B)
  <2>1. lanes \in [Priorities -> Seq(Requests)] /\ \A l \in Priorities : Once(lanes[l])
    BY DEF Types, LanesInv
  <2> HIDE DEF B
  <2> QED
    BY <1>2, <2>1, WaitingFinite
<1>5. /\ at'[r] = "high" /\ stayed'[r] = B /\ seen'[r] = B /\ lanes' = lanes
      /\ ahead'[r] = 0
  BY DEF BeginAheadOf, Types, Move, AheadBound, queueVars
<1>6. B = Before(p)'
  BY <1>5 DEF Before, Waiting
<1> HIDE DEF B
<1>7. Of(B, "high") = {}
  BY DEF Of, ReadAt
<1>8. "high" \in LanesOf(p)
  BY <1>1 DEF LanesOf, Priorities
<1>9. Cardinality(Of(B, "high")) = 0
  BY <1>7, FS_EmptySet
<1> QED
  BY <1>3, <1>4, <1>5, <1>6, <1>8, <1>9 DEF Reckoned

(* Where AheadOf goes from a place.                                        *)
NextPlace(place, p) ==
    IF place = LastLane(p) THEN "estimate"
    ELSE IF place = "high" THEN "normal" ELSE "low"

(* The lane that AheadOf reads next is one of those it is meant to read,   *)
(* and afterwards it has read that one too.                                *)
LEMMA WalkFacts ==
    ASSUME NEW p \in Priorities, NEW l \in LanesOf(p)
    PROVE  /\ l \in Priorities
           /\ NextPlace(l, p) \in Priorities => NextPlace(l, p) \in LanesOf(p)
           /\ \A q \in LanesOf(p) :
                 q \in ReadAt(NextPlace(l, p)) <=> (q \in ReadAt(l) \/ q = l)
           /\ l \notin ReadAt(l)
           /\ NextPlace(l, p) \in {"normal", "low", "estimate"}
<1> USE DEF NextPlace, LastLane, LanesOf, ReadAt, Priorities
<1>1. CASE p = "high"
  BY <1>1
<1>2. CASE p = "normal"
  <2>1. CASE l = "high"
    BY <1>2, <2>1
  <2>2. CASE l = "normal"
    BY <1>2, <2>2
  <2> QED
    BY <1>2, <2>1, <2>2
<1>3. CASE p = "low"
  <2>1. CASE l = "high"
    BY <1>3, <2>1
  <2>2. CASE l = "normal"
    BY <1>3, <2>2
  <2>3. CASE l = "low"
    BY <1>3, <2>3
  <2> QED
    BY <1>3, <2>1, <2>2, <2>3
<1> QED
  BY <1>1, <1>2, <1>3

(* Reading one lane more: a set S of requests of the walk's lanes splits   *)
(* into those counted before and those of the lane l.                      *)
LEMMA OneLaneMore ==
    ASSUME NEW p \in Priorities, NEW l \in LanesOf(p), NEW S, IsFiniteSet(S),
           \A x \in S : PriorityOf[x] \in LanesOf(p)
    PROVE  LET T == {x \in S : PriorityOf[x] = l} IN
           /\ IsFiniteSet(T) /\ Cardinality(T) \in Nat
           /\ Cardinality(Of(S, l)) \in Nat
           /\ Cardinality(Of(S, NextPlace(l, p))) = Cardinality(Of(S, l)) + Cardinality(T)
<1> DEFINE T == {x \in S : PriorityOf[x] = l}
           U == Of(S, l)
           V == Of(S, NextPlace(l, p))
<1>1. V = U \cup T /\ U \cap T = {}
  BY WalkFacts DEF Of
<1>2. T \in SUBSET S /\ U \in SUBSET S
  BY DEF Of
<1> HIDE DEF T, U, V
<1>3. IsFiniteSet(T) /\ IsFiniteSet(U) /\ Cardinality(T) \in Nat /\ Cardinality(U) \in Nat
  BY <1>2, SubsetCounts
<1>4. Cardinality(U \cup T) = Cardinality(U) + Cardinality(T) - Cardinality({})
  BY <1>1, <1>3, FS_Union
<1>5. Cardinality(V) = Cardinality(U) + Cardinality(T)
  BY <1>1, <1>3, <1>4, FS_EmptySet
<1> QED
  BY <1>3, <1>5 DEF T, U, V

(* AheadOf reads a lane: it counts all of the lane that stayed and none    *)
(* that was not seen.                                                      *)
LEMMA ReckonedRead ==
    ASSUME Types, LanesInv, NEW r \in Requests, Reckoned(r), AheadOf(r)
    PROVE  Reckoned(r)'
<1> DEFINE p == PriorityOf[r]
           l == at[r]
           n == Len(lanes[l])
           m == NextPlace(l, p)
           B == Before(p)
           L == {x \in B : PriorityOf[x] = l}
<1>1. p \in Priorities /\ l \in Priorities
  BY PriorityAssumption DEF AheadOf
<1>2. Reading(r)
  BY <1>1 DEF Reading
<1>3. /\ l \in LanesOf(p)
      /\ stayed[r] \subseteq B /\ B \subseteq seen[r]
      /\ \A y \in seen[r] : PriorityOf[y] \in LanesOf(p)
      /\ IsFiniteSet(seen[r])
      /\ Cardinality(Of(stayed[r], l)) <= ahead[r]
      /\ ahead[r] <= Cardinality(Of(seen[r], l))
  BY <1>1, <1>2, Zenon DEF Reckoned
<1>4. lanes[l] \in Seq(Requests) /\ Once(lanes[l]) /\ Sorted(l, lanes[l]) /\ n \in Nat
  BY <1>1 DEF Types, LanesInv
<1>5. L = {lanes[l][i] : i \in DOMAIN lanes[l]}
  <2>1. ASSUME NEW x \in L PROVE x \in {lanes[l][i] : i \in DOMAIN lanes[l]}
    BY DEF Before, Waiting
  <2>2. ASSUME NEW i \in DOMAIN lanes[l] PROVE lanes[l][i] \in L
    <3>1. lanes[l][i] \in Requests /\ PriorityOf[lanes[l][i]] = l
      BY <1>4 DEF Sorted
    <3>2. Waiting(lanes[l][i])
      BY <3>1 DEF Waiting
    <3>3. \E j \in DOMAIN Lanes(p) : Lanes(p)[j] = PriorityOf[lanes[l][i]]
      BY <1>1, <1>3, <3>1, LanesBefore
    <3> QED
      BY <3>1, <3>2, <3>3 DEF Before
  <2> QED
    BY <2>1, <2>2
<1>6. IsFiniteSet(L) /\ Cardinality(L) = n
  BY <1>4, <1>5, LaneCount
<1>7. /\ at'[r] = m /\ ahead'[r] = ahead[r] + n
      /\ stayed'[r] = stayed[r] /\ seen'[r] = seen[r] /\ lanes' = lanes
  <2>1. Move(r, m) /\ ahead' = [ahead EXCEPT ![r] = ahead[r] + n]
    BY DEF AheadOf, NextPlace
  <2> HIDE DEF m, n
  <2>2. at'[r] = m
    BY <2>1 DEF Move, Types
  <2>3. ahead'[r] = ahead[r] + n
    BY <2>1 DEF Types
  <2> QED
    BY <2>2, <2>3 DEF AheadOf, queueVars
<1>8. Before(p)' = B
  BY <1>7 DEF Before, Waiting
<1>9. m \in Priorities => m \in LanesOf(p)
  BY <1>1, <1>3, WalkFacts
<1>10. ahead[r] \in Nat /\ ahead'[r] \in Nat
  BY <1>4, <1>7 DEF Types
<1> DEFINE Ts == {x \in stayed[r] : PriorityOf[x] = l}
           Tn == {x \in seen[r] : PriorityOf[x] = l}
<1>11. /\ Cardinality(Ts) \in Nat /\ Cardinality(Of(stayed[r], l)) \in Nat
       /\ Cardinality(Of(stayed[r], m)) = Cardinality(Of(stayed[r], l)) + Cardinality(Ts)
  <2>1. stayed[r] \in SUBSET seen[r] /\ \A y \in stayed[r] : PriorityOf[y] \in LanesOf(p)
    BY <1>3
  <2>2. IsFiniteSet(stayed[r])
    BY <1>3, <2>1, SubsetCounts
  <2> QED
    BY <1>1, <1>3, <2>1, <2>2, OneLaneMore
<1>12. /\ IsFiniteSet(Tn) /\ Cardinality(Tn) \in Nat /\ Cardinality(Of(seen[r], l)) \in Nat
       /\ Cardinality(Of(seen[r], m)) = Cardinality(Of(seen[r], l)) + Cardinality(Tn)
  BY <1>1, <1>3, OneLaneMore
<1>13. Ts \in SUBSET L /\ L \in SUBSET Tn
  BY <1>3
<1> HIDE DEF Ts, Tn, L, B, m, n
<1>14. Cardinality(Ts) <= n /\ n <= Cardinality(Tn)
  BY <1>6, <1>12, <1>13, SubsetCounts
<1>15. /\ Cardinality(Of(stayed[r], m)) <= ahead'[r]
       /\ ahead'[r] <= Cardinality(Of(seen[r], m))
  <2>1. \A a, b, c, d \in Nat : a <= b /\ c <= d => a + c <= b + d
    OBVIOUS
  <2>2. Cardinality(Of(stayed[r], l)) + Cardinality(Ts) <= ahead[r] + n
    BY <1>3, <1>4, <1>10, <1>11, <1>14, <2>1 DEF n
  <2>3. ahead[r] + n <= Cardinality(Of(seen[r], l)) + Cardinality(Tn)
    BY <1>3, <1>4, <1>10, <1>12, <1>14, <2>1 DEF n
  <2> QED
    BY <1>7, <1>11, <1>12, <2>2, <2>3
<1>16. stayed[r] \subseteq B /\ B \subseteq seen[r]
  BY <1>3
<1> QED
  BY <1>3, <1>7, <1>8, <1>9, <1>15, <1>16, Zenon DEF Reckoned

(* The bound on AheadOf's sum through a step.                              *)
LEMMA BoundStep ==
    ASSUME Types, LanesInv, NEW r \in Requests, Reckoned(r), AheadBound(r),
           [Next]_admissionVars
    PROVE  AheadBound(r)'
<1>0. /\ at \in [Requests -> Places] /\ ahead \in [Requests -> Nat]
      /\ Capacity \in Nat
  BY CapacityAssumption DEF Types
<1>1. CASE at'[r] = at[r] /\ ahead'[r] = ahead[r]
  BY <1>1 DEF AheadBound
<1>2. CASE at'[r] \notin {"normal", "low", "estimate"} /\ ahead'[r] = 0
  BY <1>2 DEF AheadBound
<1>3. CASE BeginAheadOf(r)
  <2>1. at'[r] = "high" /\ ahead'[r] = 0
    BY <1>0, <1>3 DEF BeginAheadOf, Move, AheadBound
  <2> QED
    BY <1>2, <2>1
<1>4. CASE Decide(r)
  <2>1. at'[r] \in {"push", "shed"} /\ ahead'[r] = 0
    BY <1>0, <1>4 DEF Decide, Return, Move
  <2> QED
    BY <1>2, <2>1
<1>5. CASE AheadOf(r)
  <2> DEFINE p == PriorityOf[r]
             l == at[r]
             n == Len(lanes[l])
             m == NextPlace(l, p)
  <2>1. p \in Priorities /\ l \in Priorities
    BY <1>5, PriorityAssumption DEF AheadOf
  <2>2. l \in LanesOf(p)
    BY <2>1 DEF Reckoned, Reading
  <2>3. n \in Nat /\ n <= Capacity
    BY <2>1 DEF Types, LanesInv, Room
  <2>4. Move(r, m) /\ ahead' = [ahead EXCEPT ![r] = ahead[r] + n]
    BY <1>5 DEF AheadOf, NextPlace
  <2> HIDE DEF m, n
  <2>5. at'[r] = m /\ ahead'[r] = ahead[r] + n
    BY <1>0, <2>4 DEF Move
  <2>6. \/ l = "high" /\ m \in {"normal", "estimate"}
        \/ l = "normal" /\ m \in {"low", "estimate"}
        \/ l = "low" /\ m = "estimate"
    BY <2>1, <2>2 DEF m, NextPlace, LastLane, LanesOf, Priorities
  <2>7. \/ l = "high" /\ ahead[r] = 0
        \/ l = "normal" /\ ahead[r] <= Capacity
        \/ l = "low" /\ ahead[r] <= 2 * Capacity
    BY <2>6 DEF AheadBound
  <2>8. ahead[r] \in Nat
    BY <1>0
  <2>9. \A a \in Nat : /\ a = 0 => a + n <= Capacity
                       /\ a <= Capacity => a + n <= 2 * Capacity
                       /\ a <= 2 * Capacity => a + n <= 3 * Capacity
                       /\ a + n <= Capacity => a + n <= 3 * Capacity
                       /\ a + n <= 2 * Capacity => a + n <= 3 * Capacity
    BY <1>0, <2>3
  <2>10. \/ m = "normal" /\ ahead[r] + n <= Capacity
         \/ m = "low" /\ ahead[r] + n <= 2 * Capacity
         \/ m = "estimate" /\ ahead[r] + n <= 3 * Capacity
    BY <2>6, <2>7, <2>8, <2>9, Zenon
  <2> QED
    BY <2>5, <2>10, Zenon DEF AheadBound
<1>6. ASSUME NEW q \in Requests, q # r, BeginAheadOf(q) \/ AheadOf(q) \/ Decide(q)
      PROVE  at'[r] = at[r] /\ ahead'[r] = ahead[r]
  BY <1>0, <1>6 DEF BeginAheadOf, AheadOf, Decide, Return, Move
<1>7. CASE ahead' = ahead /\ Quiet
  <2>1. CASE ~Reading(r) /\ ~Reading(r)'
    <3>1. at[r] \notin {"normal", "low", "estimate"} /\ at'[r] \notin {"normal", "low", "estimate"}
      BY <2>1 DEF Reading, Priorities
    <3> QED
      BY <1>2, <1>7, <3>1 DEF AheadBound
  <2> QED
    BY <1>1, <1>7, <2>1 DEF Quiet
<1> QED
  BY <1>1, <1>3, <1>4, <1>5, <1>6, <1>7, ReadingStep

(* AheadOf's sums through a step.                                          *)
LEMMA ReckonedStep ==
    ASSUME Types, Types', LanesInv, LanesInv', NEW r \in Requests, Reckoned(r), AheadBound(r),
           [Next]_admissionVars
    PROVE  Reckoned(r)'
<1>0. /\ at \in [Requests -> Places] /\ ahead \in [Requests -> Nat]
      /\ stayed \in [Requests -> SUBSET Requests] /\ seen \in [Requests -> SUBSET Requests]
  BY DEF Types
<1>1. CASE Decide(r)
  <2>1. at'[r] \in {"push", "shed"}
    BY <1>0, <1>1 DEF Decide, Return, Move
  <2>2. ~Reading(r)'
    BY <2>1 DEF Reading, Priorities
  <2> QED
    BY <2>2, ReckonedOutside
<1>2. ASSUME NEW q \in Requests, q # r, BeginAheadOf(q) \/ AheadOf(q) \/ Decide(q)
      PROVE  /\ at'[r] = at[r] /\ ahead'[r] = ahead[r] /\ stayed'[r] = stayed[r]
             /\ seen'[r] = seen[r] /\ lanes' = lanes
  BY <1>0, <1>2 DEF BeginAheadOf, AheadOf, Decide, Return, Move, queueVars
<1>3. CASE ahead' = ahead /\ Quiet /\ Watch
  <2>1. CASE ~Reading(r)'
    BY <2>1, ReckonedOutside
  <2>2. CASE Reading(r) /\ at'[r] = at[r]
    BY <1>3, <2>2, ReckonedWatched
  <2>3. at'[r] = at[r] => (Reading(r) <=> Reading(r)')
    BY DEF Reading
  <2> QED
    BY <1>3, <2>1, <2>2, <2>3 DEF Quiet
<1>4. CASE ahead' = ahead /\ Quiet /\ UNCHANGED <<lanes, stayed, seen>>
  <2>1. CASE ~Reading(r)'
    BY <2>1, ReckonedOutside
  <2>2. CASE at'[r] = at[r]
    BY <1>4, <2>2, ReckonedKept
  <2> QED
    BY <1>4, <2>1, <2>2 DEF Quiet
<1>5. CASE BeginAheadOf(r)
  BY <1>5, ReckonedBegin
<1>6. CASE AheadOf(r)
  BY <1>6, ReckonedRead
<1>7. CASE \E q \in Requests : q # r /\ (BeginAheadOf(q) \/ AheadOf(q) \/ Decide(q))
  BY <1>2, <1>7, ReckonedKept
<1> QED
  BY <1>1, <1>3, <1>4, <1>5, <1>6, <1>7, ReadingStep

(* No handler is inside AheadOf to begin with.                             *)
LEMMA WaitInit == Init => WaitInv
<1> SUFFICES ASSUME Init PROVE WaitInv
  OBVIOUS
<1>1. QueueInv
  BY AdmissionInit DEF HookInv
<1>2. ASSUME NEW r \in Requests PROVE Reckoned(r) /\ AheadBound(r)
  <2>1. at[r] = "new" /\ ahead[r] = 0
    BY DEF Init
  <2> QED
    BY <2>1 DEF Reckoned, Reading, AheadBound, Priorities
<1> QED
  BY <1>1, <1>2 DEF WaitInv

(* WaitInv is kept by every step that keeps types and lanes.               *)
LEMMA WaitStep == WaitInv /\ HookInv /\ [Next]_admissionVars => WaitInv'
<1> SUFFICES ASSUME WaitInv, HookInv, [Next]_admissionVars
             PROVE  WaitInv'
  OBVIOUS
<1>1. QueueInv /\ QueueInv'
  BY HookStep DEF HookInv
<1>2. Types /\ LanesInv /\ Types' /\ LanesInv'
  BY <1>1 DEF QueueInv
<1>3. ASSUME NEW r \in Requests PROVE Reckoned(r)' /\ AheadBound(r)'
  BY <1>2, ReckonedStep, BoundStep DEF WaitInv
<1> QED
  BY <1>1, <1>3 DEF WaitInv

(* WaitInv is inductive.                                                   *)
LEMMA WaitInvariant == Spec => []WaitInv
  BY HookInvariant, WaitInit, WaitStep, PTL DEF Spec

-----------------------------------------------------------------------------
(* A longer queue is a longer wait.                                        *)
LEMMA EstimateGrows ==
    ASSUME average \in Latencies \cup {None}, NEW m \in Nat, NEW n \in Nat, m <= n
    PROVE  /\ Estimate(m) \in Nat /\ Estimate(n) \in Nat /\ Estimate(m) <= Estimate(n)
<1> DEFINE a == Average
           c == Concurrency
<1>1. a \in Nat /\ c \in Nat \ {0}
  BY LatencyAssumption, ConcurrencyAssumption DEF Average
<1> HIDE DEF a, c
<1>2. PICK k \in Nat : n = m + k
  <2>1. n - m \in Nat /\ n = m + (n - m)
    OBVIOUS
  <2> QED
    BY <2>1
<1>3. m * a \in Nat /\ n * a \in Nat /\ k * a \in Nat /\ n * a = m * a + k * a
  BY <1>1, <1>2
<1> DEFINE x == m * a
           y == n * a
<1>4. x \in Nat /\ y \in Nat /\ x <= y
  BY <1>3
<1> HIDE DEF x, y
<1>5. x \div c \in Nat /\ y \div c \in Nat /\ x \div c <= y \div c
  BY <1>1, <1>4
<1> QED
  BY <1>5 DEF x, y, a, c, Estimate

(* A threshold that admits a longer wait admits a shorter one.             *)
LEMMA AdmitShrinks ==
    ASSUME NEW p, NEW u \in Nat, NEW v \in Nat, u <= v, Admit(p, v)
    PROVE  Admit(p, u)
<1>1. ASSUME p \in DOMAIN MaxWait PROVE u <= MaxWait[p]
  <2>1. MaxWait[p] \in Nat /\ v <= MaxWait[p]
    BY <1>1, MaxWaitAssumption DEF Admit
  <2> QED
    BY <2>1
<1> QED
  BY <1>1 DEF Admit

(* A request is admitted only if the requests that stayed ahead of it all  *)
(* through AheadOf keep it within its threshold, and shed only if those it *)
(* can have seen exceed it, whatever other handlers and dispatchers did    *)
(* to the lanes between AheadOf's reads (gateway.go handleInference,       *)
(* queue.go AheadOf, slo/estimator.go, slo/policy.go).                     *)
THEOREM AdmissionAlwaysSound == Spec => AdmissionIsSound
<1>1. ASSUME WaitInv, [Next]_admissionVars, NEW r \in Requests, at[r] = "estimate"
      PROVE  /\ at'[r] = "push" => Admit(PriorityOf[r], Estimate(Cardinality(stayed[r])))
             /\ at'[r] = "shed" => ~Admit(PriorityOf[r], Estimate(Cardinality(seen[r])))
  <2>0. Types /\ at \in [Requests -> Places]
    BY <1>1 DEF WaitInv, QueueInv, Types
  <2>1. CASE at'[r] = at[r]
    BY <1>1, <2>1
  <2>2. CASE Decide(r)
    <3> DEFINE a == ahead[r]
               u == Cardinality(stayed[r])
               v == Cardinality(seen[r])
    <3>1. Reckoned(r) /\ Reading(r)
      BY <1>1 DEF WaitInv, Reading
    <3>2. Of(stayed[r], at[r]) = stayed[r] /\ Of(seen[r], at[r]) = seen[r]
      <4>1. \A x \in Requests : PriorityOf[x] \in ReadAt("estimate")
        BY PriorityAssumption DEF ReadAt
      <4>2. stayed[r] \subseteq Requests /\ seen[r] \subseteq Requests
        BY <2>0 DEF Types
      <4> QED
        BY <1>1, <4>1, <4>2 DEF Of
    <3>3. u <= a /\ a <= v /\ IsFiniteSet(seen[r]) /\ stayed[r] \in SUBSET seen[r]
      BY <3>1, <3>2 DEF Reckoned
    <3>4. a \in Nat /\ u \in Nat /\ v \in Nat
      BY <2>0, <3>3, SubsetCounts DEF Types
    <3>5. average \in Latencies \cup {None}
      BY <2>0 DEF Types
    <3> HIDE DEF a, u, v
    <3>6. /\ Estimate(u) \in Nat /\ Estimate(a) \in Nat /\ Estimate(v) \in Nat
          /\ Estimate(u) <= Estimate(a) /\ Estimate(a) <= Estimate(v)
      BY <3>3, <3>4, <3>5, EstimateGrows
    <3>7. /\ at'[r] = "push" => Admit(PriorityOf[r], Estimate(a))
          /\ at'[r] = "shed" => ~Admit(PriorityOf[r], Estimate(a))
      BY <2>0, <2>2 DEF Decide, Return, Move, a
    <3>8. /\ Admit(PriorityOf[r], Estimate(a)) => Admit(PriorityOf[r], Estimate(u))
          /\ Admit(PriorityOf[r], Estimate(v)) => Admit(PriorityOf[r], Estimate(a))
      BY <3>6, AdmitShrinks
    <3> QED
      BY <3>7, <3>8 DEF u, v
  <2>3. CASE \E q \in Requests : q # r /\ (BeginAheadOf(q) \/ AheadOf(q) \/ Decide(q))
    <3>1. at'[r] = at[r]
      BY <2>0, <2>3 DEF BeginAheadOf, AheadOf, Decide, Return, Move
    <3> QED
      BY <2>1, <3>1
  <2>4. CASE Quiet
    <3>1. at'[r] = at[r]
      BY <1>1, <2>4 DEF Quiet, Reading
    <3> QED
      BY <2>1, <3>1
  <2>5. ~BeginAheadOf(r) /\ ~AheadOf(r)
    BY <1>1 DEF BeginAheadOf, AheadOf, Priorities
  <2> QED
    BY <1>1, <2>0, <2>2, <2>3, <2>4, <2>5, ReadingStep
<1>2. WaitInv /\ [Next]_admissionVars =>
        [\A r \in Requests : at[r] = "estimate" =>
          /\ at'[r] = "push" =>
                Admit(PriorityOf[r], Estimate(Cardinality(stayed[r])))
          /\ at'[r] = "shed" =>
                ~Admit(PriorityOf[r], Estimate(Cardinality(seen[r])))]_admissionVars
  BY <1>1
<1> QED
  BY <1>2, WaitInvariant, PTL DEF Spec, AdmissionIsSound

(* Types of the gateway's state: no sum of AheadOf beyond three full lanes,*)
(* no overdrawn bucket, and counters that agree with the handlers that     *)
(* returned and the hooks that ended (gateway.go, queue.go, stats.go,      *)
(* ratelimiter.go).                                                        *)
THEOREM AdmissionTypeCorrect == Spec => []TypeOK
<1>1. HookInv /\ WaitInv /\ LimiterTypeOK => TypeOK
  <2> SUFFICES ASSUME HookInv, WaitInv, LimiterTypeOK
               PROVE  TypeOK
    OBVIOUS
  <2>1. Types /\ CountInv
    BY DEF HookInv, QueueInv
  <2>2. ahead \in [Requests -> 0..(3 * Capacity)]
    <3>1. ASSUME NEW r \in Requests PROVE ahead[r] \in 0..(3 * Capacity)
      <4>1. ahead[r] \in Nat /\ Capacity \in Nat
        BY <2>1, CapacityAssumption DEF Types
      <4>2. AheadBound(r)
        BY DEF WaitInv
      <4>3. \/ ahead[r] <= Capacity \/ ahead[r] <= 2 * Capacity
            \/ ahead[r] <= 3 * Capacity \/ ahead[r] = 0
        BY <4>2, Zenon DEF AheadBound
      <4> QED
        BY <4>1, <4>3
    <3> QED
      BY <2>1, <3>1 DEF Types
  <2>3. /\ stats.total = Cardinality({r \in Requests : at[r] = "done" \/ Counting(r)})
        /\ stats.success + stats.errors = Cardinality({r \in Requests : at[r] = "done"})
    BY <2>1, Zenon DEF CountInv, Returned, Finished
  <2> QED
    BY <2>1, <2>2, <2>3, Zenon DEF TypeOK, Types
<1> QED
  BY <1>1, LimiterKeepsBudgets, HookInvariant, WaitInvariant, AdmissionUsesLimiter, PTL
=============================================================================
