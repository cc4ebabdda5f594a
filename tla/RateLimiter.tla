---------------------------- MODULE RateLimiter -----------------------------
(***************************************************************************)
(* The per-key token buckets of request-plane/auth/ratelimiter.go.  Allow  *)
(* and Tokens hold the mutex from beginning to end and are atomic.         *)
(*                                                                         *)
(* The code counts tokens in floating point and refills a bucket of        *)
(* requestsPerMin tokens at requestsPerMin/60 tokens per second.  Here a   *)
(* token is cut into Minute units, Minute being the ticks of a minute, so  *)
(* that a bucket gains exactly requestsPerMin units per tick.  lastRefill  *)
(* is kept as its age, which stops at a minute: every bucket is full then. *)
(***************************************************************************)
EXTENDS Integers

CONSTANTS
    Keys,       \* key ids
    Budgets,    \* values of RequestsPerMin; zero and less mean unlimited
    Minute,     \* ticks in a minute, and units in a token
    MaxAccrued  \* bound: units a window may accrue

ASSUME BudgetsAssumption == Budgets \subseteq Int
ASSUME MinuteAssumption == Minute \in Nat \ {0}
ASSUME AccruedAssumption == MaxAccrued \in Nat

VARIABLES
    buckets,    \* key -> its bucket, for the keys that have one
    window      \* history: key -> an arbitrary stretch of calls with one budget

limiterVars == <<buckets, window>>

BucketSize(rpm) == rpm * Minute

Least(a, b) == IF a <= b THEN a ELSE b

LimiterInit ==
    /\ buckets = [k \in {} |-> [tokens |-> 0, age |-> 0]]
    /\ window = [k \in Keys |-> [rate |-> 0, spent |-> 0, accrued |-> 0]]

Topped(tokens, age, rpm) == Least(BucketSize(rpm), tokens + age * rpm)

(* Tokens: a key without a bucket has a full one.                          *)
Tokens(k, rpm) ==
    IF k \in DOMAIN buckets THEN Topped(buckets[k].tokens, buckets[k].age, rpm)
                            ELSE BucketSize(rpm)

(* Mutant of Permits: any fraction of a token will do.                     *)
PermitsFraction(k, rpm) == rpm <= 0 \/ Tokens(k, rpm) > 0

Permits(k, rpm) == rpm <= 0 \/ Tokens(k, rpm) >= Minute

(* What Allow leaves of the key's bucket: refilled, less one token for an  *)
(* admitted request.                                                       *)
Spend(k, rpm) ==
    [tokens |-> Tokens(k, rpm) - IF Permits(k, rpm) THEN Minute ELSE 0, age |-> 0]

(* The history of a window goes on while the budget stays the same.        *)
Charge(w, k, rpm) ==
    LET cost == IF Permits(k, rpm) THEN Minute ELSE 0 IN
    IF w.rate = rpm THEN [w EXCEPT !.spent = @ + cost]
                    ELSE [rate |-> rpm, spent |-> cost, accrued |-> 0]

(* Allow; the caller reads the verdict, Permits, in the same step.         *)
Allow(k, rpm) ==
    IF rpm <= 0
    THEN UNCHANGED limiterVars
    ELSE /\ buckets' = [x \in DOMAIN buckets \cup {k} |->
                            IF x = k THEN Spend(k, rpm) ELSE buckets[x]]
         /\ window' = [window EXCEPT ![k] = Charge(@, k, rpm)]

(* The clock.                                                              *)
Elapse ==
    /\ \A k \in Keys : window[k].accrued + window[k].rate <= MaxAccrued
    /\ buckets' = [k \in DOMAIN buckets |->
                      [buckets[k] EXCEPT !.age = Least(@ + 1, Minute)]]
    /\ window' = [k \in Keys |-> [window[k] EXCEPT !.accrued = @ + window[k].rate]]

(* The observer starts counting afresh.                                    *)
OpenWindow(k) ==
    /\ window' = [window EXCEPT ![k].spent = 0, ![k].accrued = 0]
    /\ UNCHANGED buckets

LimiterNext ==
    \/ \E k \in Keys, rpm \in Budgets : Allow(k, rpm)
    \/ Elapse
    \/ \E k \in Keys : OpenWindow(k)

LimiterSpec == LimiterInit /\ [][LimiterNext]_limiterVars

-----------------------------------------------------------------------------
(* Types of the buckets and windows; no bucket is overdrawn.               *)
LimiterTypeOK ==
    /\ buckets = [k \in DOMAIN buckets |-> buckets[k]]
    /\ DOMAIN buckets \subseteq Keys
    /\ \A k \in DOMAIN buckets : buckets[k] \in [tokens : Nat, age : 0..Minute]
    /\ window \in [Keys -> [rate : Nat, spent : Nat, accrued : Nat]]

(* "bursts up to the full budget are allowed, sustained traffic is capped  *)
(* at the average rate" (ratelimiter.go:8-13): through any window, begun   *)
(* at any moment, in which a key's budget is the same, it is admitted at   *)
(* most a full bucket plus what the window's time refills.                 *)
BudgetKept ==
    \A k \in Keys :
        window[k].rate > 0 =>
            window[k].spent <= BucketSize(window[k].rate) + window[k].accrued
=============================================================================
