-------------------------- MODULE RateLimiterProofs -------------------------
(***************************************************************************)
(* The rate limiter keeps every key to its budget, for any set of keys,    *)
(* any budgets and any resolution of the clock.                            *)
(***************************************************************************)
EXTENDS RateLimiter, TLAPS

(* A window's bound is not inductive: it says nothing of what is still in  *)
(* the bucket.  What the window has spent and what the bucket now holds    *)
(* never exceed a full bucket and the accrued refill together.             *)
Balance ==
    \A k \in Keys :
        window[k].rate > 0 =>
            Tokens(k, window[k].rate) + window[k].spent
                <= BucketSize(window[k].rate) + window[k].accrued

IInv == LimiterTypeOK /\ Balance

(* A bucket of a positive budget holds at least one whole token, a refill  *)
(* of one tick adds at most the budget, and nothing exceeds the size.      *)
LEMMA BucketArithmetic ==
    ASSUME NEW rpm \in Nat, NEW tokens \in Nat, NEW age \in 0..Minute
    PROVE  /\ BucketSize(rpm) \in Nat
           /\ rpm > 0 => BucketSize(rpm) >= Minute
           /\ Topped(tokens, age, rpm) \in 0..BucketSize(rpm)
           /\ Topped(tokens, Least(age + 1, Minute), rpm)
                <= Topped(tokens, age, rpm) + rpm
           /\ tokens <= BucketSize(rpm) => Topped(tokens, 0, rpm) = tokens
<1> USE MinuteAssumption
<1>1. rpm * Minute \in Nat /\ age * rpm \in Nat
  OBVIOUS
<1>2. rpm > 0 => rpm * Minute >= Minute
  OBVIOUS
<1>3. (age + 1) * rpm = age * rpm + rpm
  OBVIOUS
<1>4. 0 * rpm = 0
  OBVIOUS
<1> QED
  BY <1>1, <1>2, <1>3, <1>4 DEF BucketSize, Topped, Least

(* What Tokens reports is between zero and the capacity.                   *)
LEMMA TokensInRange ==
    ASSUME LimiterTypeOK, NEW k \in Keys, NEW rpm \in Nat
    PROVE  Tokens(k, rpm) \in 0..BucketSize(rpm) /\ BucketSize(rpm) \in Nat
<1>1. BucketSize(rpm) \in Nat
  BY MinuteAssumption DEF BucketSize
<1>2. CASE k \in DOMAIN buckets
  <2>1. buckets[k].tokens \in Nat /\ buckets[k].age \in 0..Minute
    BY <1>2 DEF LimiterTypeOK
  <2>2. Topped(buckets[k].tokens, buckets[k].age, rpm) \in 0..BucketSize(rpm)
    BY <2>1, BucketArithmetic
  <2> QED
    BY <1>1, <1>2, <2>2 DEF Tokens
<1>3. CASE k \notin DOMAIN buckets
  BY <1>1, <1>3 DEF Tokens
<1> QED
  BY <1>2, <1>3

(* No bucket and no window at the start: nothing is owed.                  *)
LEMMA LimiterInitially == LimiterInit => IInv
  BY DEF LimiterInit, IInv, LimiterTypeOK, Balance

(* Allow: the token an admitted request takes moves from the bucket to the *)
(* window's account, or a window of the new budget begins.                 *)
LEMMA AllowKeepsBalance ==
    ASSUME IInv, NEW k \in Keys, NEW rpm \in Budgets, Allow(k, rpm)
    PROVE  IInv'
<1> DEFINE cost == IF Permits(k, rpm) THEN Minute ELSE 0
<1>1. CASE rpm <= 0
  BY <1>1 DEF Allow, IInv, LimiterTypeOK, Balance, Tokens, limiterVars
<1>2. CASE ~(rpm <= 0)
  <2>1. rpm \in Nat /\ rpm > 0
    BY <1>2, BudgetsAssumption
  <2>2. Tokens(k, rpm) \in 0..BucketSize(rpm) /\ BucketSize(rpm) \in Nat
    BY <2>1, TokensInRange DEF IInv
  <2>3. cost \in 0..Tokens(k, rpm) /\ cost \in Nat
    BY <2>1, <2>2, MinuteAssumption DEF Permits
  <2>4. /\ buckets' = [x \in DOMAIN buckets \cup {k} |->
                          IF x = k THEN Spend(k, rpm) ELSE buckets[x]]
        /\ window' = [window EXCEPT ![k] = Charge(@, k, rpm)]
    BY <1>2 DEF Allow
  <2>5. Spend(k, rpm) = [tokens |-> Tokens(k, rpm) - cost, age |-> 0]
    BY DEF Spend
  <2>6. /\ Tokens(k, rpm) - cost \in Nat
        /\ Tokens(k, rpm) - cost <= BucketSize(rpm)
        /\ 0 \in 0..Minute
    BY <2>2, <2>3, MinuteAssumption
  <2>7. window[k] \in [rate : Nat, spent : Nat, accrued : Nat]
    BY DEF IInv, LimiterTypeOK
  <2>8. Charge(window[k], k, rpm) \in [rate : Nat, spent : Nat, accrued : Nat]
    BY <2>1, <2>3, <2>7 DEF Charge
  <2>9. LimiterTypeOK'
    <3>1. DOMAIN buckets' = DOMAIN buckets \cup {k}
      BY <2>4
    <3>2. \A x \in DOMAIN buckets' : buckets'[x] \in [tokens : Nat, age : 0..Minute]
      BY <2>4, <2>5, <2>6 DEF IInv, LimiterTypeOK
    <3> QED
      BY <2>4, <2>8, <3>1, <3>2 DEF IInv, LimiterTypeOK
  <2>10. ASSUME NEW x \in Keys, x # k, (window[x].rate > 0)'
         PROVE  (Tokens(x, window[x].rate) + window[x].spent
                    <= BucketSize(window[x].rate) + window[x].accrued)'
    <3>1. window'[x] = window[x]
      BY <2>4, <2>10 DEF IInv, LimiterTypeOK
    <3>2. /\ (x \in DOMAIN buckets') = (x \in DOMAIN buckets)
          /\ x \in DOMAIN buckets => buckets'[x] = buckets[x]
      BY <2>4, <2>10
    <3>3. Tokens(x, window[x].rate)' = Tokens(x, window[x].rate)
      BY <3>1, <3>2 DEF Tokens
    <3>4. Tokens(x, window[x].rate) + window[x].spent
              <= BucketSize(window[x].rate) + window[x].accrued
      BY <2>10, <3>1 DEF IInv, Balance
    <3> QED
      BY <3>1, <3>3, <3>4
  <2>11. (Tokens(k, window[k].rate) + window[k].spent
              <= BucketSize(window[k].rate) + window[k].accrued)'
    <3>1. window'[k] = Charge(window[k], k, rpm)
      BY <2>4 DEF IInv, LimiterTypeOK
    <3>2. window'[k].rate = rpm
      BY <3>1, <2>7 DEF Charge
    <3>3. /\ k \in DOMAIN buckets'
          /\ buckets'[k] = [tokens |-> Tokens(k, rpm) - cost, age |-> 0]
      BY <2>4, <2>5
    <3>4. Topped(Tokens(k, rpm) - cost, 0, rpm) = Tokens(k, rpm) - cost
      BY <2>6, <2>1, BucketArithmetic
    <3>5. Tokens(k, window[k].rate)' = Tokens(k, rpm) - cost
      BY <3>2, <3>3, <3>4 DEF Tokens
    <3>6. window'[k].spent - window'[k].accrued + Tokens(k, rpm) - cost
              <= BucketSize(rpm)
      <4>1. CASE window[k].rate = rpm
        <5>1. /\ window'[k].spent = window[k].spent + cost
              /\ window'[k].accrued = window[k].accrued
          BY <3>1, <4>1, <2>7 DEF Charge
        <5>2. Tokens(k, rpm) + window[k].spent
                  <= BucketSize(rpm) + window[k].accrued
          BY <4>1, <2>1 DEF IInv, Balance
        <5> HIDE DEF cost
        <5> QED
          BY <5>1, <5>2, <2>2, <2>3, <2>7
      <4>2. CASE window[k].rate # rpm
        <5>1. window'[k].spent = cost /\ window'[k].accrued = 0
          BY <3>1, <4>2 DEF Charge
        <5> HIDE DEF cost
        <5> QED
          BY <5>1, <2>2, <2>3
      <4> QED
        BY <4>1, <4>2
    <3>7. window'[k].spent \in Nat /\ window'[k].accrued \in Nat
      BY <2>8, <3>1
    <3> HIDE DEF cost
    <3> QED
      BY <3>2, <3>5, <3>6, <3>7, <2>2, <2>3
  <2> QED
    BY <2>9, <2>10, <2>11 DEF IInv, Balance
<1> QED
  BY <1>1, <1>2

(* The clock: one tick refills a bucket by at most what the window of that *)
(* key accrues.                                                            *)
LEMMA ElapseKeepsBalance ==
    ASSUME IInv, Elapse
    PROVE  IInv'
<1>1. ASSUME NEW k \in Keys
      PROVE  /\ window'[k] = [window[k] EXCEPT !.accrued = @ + window[k].rate]
             /\ window[k] \in [rate : Nat, spent : Nat, accrued : Nat]
  BY DEF IInv, LimiterTypeOK, Elapse
<1>2. ASSUME NEW k \in DOMAIN buckets
      PROVE  /\ buckets[k] \in [tokens : Nat, age : 0..Minute]
             /\ buckets'[k] = [buckets[k] EXCEPT !.age = Least(@ + 1, Minute)]
             /\ Least(buckets[k].age + 1, Minute) \in 0..Minute
  <2>1. buckets[k] \in [tokens : Nat, age : 0..Minute]
    BY DEF IInv, LimiterTypeOK
  <2>2. Least(buckets[k].age + 1, Minute) \in 0..Minute
    BY <2>1, MinuteAssumption DEF Least
  <2> QED
    BY <2>1, <2>2 DEF Elapse
<1>3. LimiterTypeOK'
  <2>1. DOMAIN buckets' = DOMAIN buckets
    BY DEF Elapse
  <2>2. \A k \in DOMAIN buckets' : buckets'[k] \in [tokens : Nat, age : 0..Minute]
    BY <2>1, <1>2
  <2>3. window' \in [Keys -> [rate : Nat, spent : Nat, accrued : Nat]]
    BY <1>1 DEF Elapse
  <2> QED
    BY <2>1, <2>2, <2>3 DEF Elapse, IInv, LimiterTypeOK
<1>4. ASSUME NEW k \in Keys, (window[k].rate > 0)'
      PROVE  (Tokens(k, window[k].rate) + window[k].spent
                 <= BucketSize(window[k].rate) + window[k].accrued)'
  <2> PICK rpm \in Nat : rpm = window[k].rate
    BY <1>1
  <2>1. /\ window'[k].rate = rpm
        /\ window'[k].spent = window[k].spent
        /\ window'[k].accrued = window[k].accrued + rpm
        /\ window[k].spent \in Nat /\ window[k].accrued \in Nat
    BY <1>1
  <2>2. Tokens(k, rpm) \in Int /\ BucketSize(rpm) \in Nat
    BY TokensInRange DEF IInv
  <2>3. Tokens(k, rpm) + window[k].spent <= BucketSize(rpm) + window[k].accrued
    BY <1>4, <2>1 DEF IInv, Balance
  <2>4. /\ Tokens(k, window[k].rate)' \in Int
        /\ Tokens(k, window[k].rate)' <= Tokens(k, rpm) + rpm
    <3>1. CASE k \in DOMAIN buckets
      <4> PICK t \in Nat, a \in 0..Minute : t = buckets[k].tokens /\ a = buckets[k].age
        BY <3>1, <1>2
      <4>1. /\ buckets'[k].tokens = t
            /\ buckets'[k].age = Least(a + 1, Minute)
            /\ Least(a + 1, Minute) \in 0..Minute
        BY <3>1, <1>2
      <4>2. Topped(t, Least(a + 1, Minute), rpm) \in 0..BucketSize(rpm)
        BY <4>1, BucketArithmetic
      <4>3. Topped(t, Least(a + 1, Minute), rpm) <= Topped(t, a, rpm) + rpm
        BY BucketArithmetic
      <4>4. k \in DOMAIN buckets'
        BY <3>1 DEF Elapse
      <4>5. Tokens(k, rpm) = Topped(t, a, rpm)
        BY <3>1 DEF Tokens
      <4>6. Tokens(k, window[k].rate)' = Topped(t, Least(a + 1, Minute), rpm)
        BY <4>1, <4>4, <2>1 DEF Tokens
      <4> QED
        BY <4>2, <4>3, <4>5, <4>6, <2>2
    <3>2. CASE k \notin DOMAIN buckets
      <4>1. k \notin DOMAIN buckets'
        BY <3>2 DEF Elapse
      <4>2. Tokens(k, window[k].rate)' = BucketSize(rpm) /\ Tokens(k, rpm) = BucketSize(rpm)
        BY <3>2, <4>1, <2>1 DEF Tokens
      <4> QED
        BY <4>2, <2>2
    <3> QED
      BY <3>1, <3>2
  <2> QED
    BY <2>1, <2>2, <2>3, <2>4
<1> QED
  BY <1>3, <1>4 DEF IInv, Balance

(* A window that opens has spent nothing and the bucket is at most full.   *)
LEMMA OpenWindowKeepsBalance ==
    ASSUME IInv, NEW k \in Keys, OpenWindow(k)
    PROVE  IInv'
<1>1. LimiterTypeOK'
  BY DEF IInv, LimiterTypeOK, OpenWindow
<1>2. ASSUME NEW x \in Keys, (window[x].rate > 0)'
      PROVE  (Tokens(x, window[x].rate) + window[x].spent
                 <= BucketSize(window[x].rate) + window[x].accrued)'
  <2>1. window[x] \in [rate : Nat, spent : Nat, accrued : Nat]
    BY DEF IInv, LimiterTypeOK
  <2>2. window'[x].rate = window[x].rate
    BY <2>1 DEF OpenWindow, IInv, LimiterTypeOK
  <2>3. Tokens(x, window[x].rate)' = Tokens(x, window[x].rate)
    BY <2>2 DEF OpenWindow, Tokens
  <2>4. Tokens(x, window[x].rate) \in 0..BucketSize(window[x].rate)
        /\ BucketSize(window[x].rate) \in Nat
    BY <2>1, TokensInRange DEF IInv
  <2>5. CASE x = k
    <3>1. window'[x].spent = 0 /\ window'[x].accrued = 0
      BY <2>1, <2>5 DEF OpenWindow, IInv, LimiterTypeOK
    <3> QED
      BY <2>2, <2>3, <2>4, <3>1
  <2>6. CASE x # k
    <3>1. window'[x] = window[x]
      BY <2>6 DEF OpenWindow, IInv, LimiterTypeOK
    <3>2. Tokens(x, window[x].rate) + window[x].spent
              <= BucketSize(window[x].rate) + window[x].accrued
      BY <1>2, <2>2 DEF IInv, Balance
    <3> QED
      BY <2>3, <3>1, <3>2
  <2> QED
    BY <2>5, <2>6
<1> QED
  BY <1>1, <1>2 DEF IInv, Balance

(* The rate limiter's types hold and no bucket is overdrawn, and through   *)
(* any window of an unchanged budget a key is admitted at most a full      *)
(* bucket plus the refill of the window's time (ratelimiter.go:33-62).     *)
THEOREM LimiterKeepsBudgets == LimiterSpec => [](LimiterTypeOK /\ BudgetKept)
<1>1. IInv /\ [LimiterNext]_limiterVars => IInv'
  <2> SUFFICES ASSUME IInv, [LimiterNext]_limiterVars PROVE IInv'
    OBVIOUS
  <2>1. CASE \E k \in Keys, rpm \in Budgets : Allow(k, rpm)
    BY <2>1, AllowKeepsBalance
  <2>2. CASE Elapse
    BY <2>2, ElapseKeepsBalance
  <2>3. CASE \E k \in Keys : OpenWindow(k)
    BY <2>3, OpenWindowKeepsBalance
  <2>4. CASE UNCHANGED limiterVars
    BY <2>4 DEF limiterVars, IInv, LimiterTypeOK, Balance, Tokens
  <2> QED
    BY <2>1, <2>2, <2>3, <2>4 DEF LimiterNext
<1>2. IInv => LimiterTypeOK /\ BudgetKept
  <2> SUFFICES ASSUME IInv, NEW k \in Keys, window[k].rate > 0
               PROVE  window[k].spent
                         <= BucketSize(window[k].rate) + window[k].accrued
    BY DEF IInv, BudgetKept
  <2>1. window[k] \in [rate : Nat, spent : Nat, accrued : Nat]
    BY DEF IInv, LimiterTypeOK
  <2>2. Tokens(k, window[k].rate) \in 0..BucketSize(window[k].rate)
        /\ BucketSize(window[k].rate) \in Nat
    BY <2>1, TokensInRange DEF IInv
  <2> QED
    BY <2>1, <2>2 DEF IInv, Balance
<1> QED
  BY <1>1, <1>2, LimiterInitially, PTL DEF LimiterSpec
=============================================================================
