---------------------------- MODULE RouterProofs ----------------------------
(***************************************************************************)
(* Proofs about Router, for every finite fleet, any finite number of       *)
(* concurrent handlers and any cap on the attempts: the counters, what a   *)
(* 502 means, what an undisturbed pick finds, and that the router          *)
(* implements Routing.                                                     *)
(***************************************************************************)
EXTENDS Router, FiniteSetTheorems, WellFoundedInduction, TLAPS

Passes == {"min pass", "flight pass"}
Reading == Passes \cup {"choose"}
Picking == Reading \cup {"chosen"}

Scans == [next : Nat \ {0}, minFlight : Nat, flight : Seq(Workers)]

Types ==
    /\ inFlight \in [Workers -> Int]
    /\ counter \in 0..(CounterPeriod - 1)
    /\ at \in [Handlers -> Places]
    /\ workers \in [Handlers -> Seq(Workers)]
    /\ tried \in [Handlers -> SUBSET Workers]
    /\ scan \in [Handlers -> Scans]
    /\ chosen \in [Handlers -> Workers \cup {Nobody}]
    /\ failed \in [Handlers -> SUBSET Workers]
    /\ quiet \in [Handlers -> BOOLEAN]

(* A snapshot names no worker twice.                                       *)
Distinct(s) == \A i, j \in DOMAIN s : s[i] = s[j] => i = j

(* Where handler h is in its retry loop, and what it has tried by then.    *)
Attempting(h) ==
    /\ Distinct(workers[h])
    /\ at[h] \in Picking \cup {"start", "proxy", "bad gateway"} =>
          /\ tried[h] \subseteq ToSet(workers[h])
          /\ Cardinality(tried[h]) <= maxAttempts(h)
    /\ at[h] \in Picking \cup {"start", "bad gateway"} => failed[h] = tried[h]
    /\ at[h] \in Picking => Cardinality(tried[h]) < maxAttempts(h)
    /\ at[h] = "proxy" => chosen[h] \in Workers /\ tried[h] = failed[h] \cup {chosen[h]}
    /\ at[h] = "bad gateway" => Cardinality(tried[h]) >= maxAttempts(h)

(* Where pickWorker is on its slice of candidates.                         *)
Scanning(h) ==
    /\ at[h] \in Passes => scan[h].next \in 1..Len(candidates(h))
    /\ at[h] \in Reading =>
          /\ Len(candidates(h)) > 1
          /\ ToSet(scan[h].flight) \subseteq ToSet(candidates(h))
    /\ at[h] = "chosen" => chosen[h] \in ToSet(candidates(h))

(* m is the least counter f of the first n candidates c.                   *)
LeastOf(m, c, f, n) ==
    /\ \A i \in 1..n : m <= f[c[i]]
    /\ \E i \in 1..n : m = f[c[i]]

(* S is the set of those of the first n candidates whose counter is m.     *)
LevelOf(S, m, c, f, n) ==
    \A w \in Workers : w \in S <=> f[w] = m /\ \E i \in 1..n : c[i] = w

(* What a pick has found so far while no counter moved.                    *)
Undisturbed(h) ==
    LET c == candidates(h)
        s == scan[h]
    IN  quiet[h] =>
        /\ at[h] = "min pass" =>
              /\ ToSet(s.flight) = {}
              /\ s.next > 1 => LeastOf(s.minFlight, c, inFlight, s.next - 1)
        /\ at[h] = "flight pass" =>
              /\ LeastOf(s.minFlight, c, inFlight, Len(c))
              /\ LevelOf(ToSet(s.flight), s.minFlight, c, inFlight, s.next - 1)
        /\ at[h] = "choose" =>
              /\ LeastOf(s.minFlight, c, inFlight, Len(c))
              /\ LevelOf(ToSet(s.flight), s.minFlight, c, inFlight, Len(c))
        /\ at[h] = "chosen" => chosen[h] \in Best(h)
        /\ at[h] # "panicked"

(* A counter seen by a pass is no larger than the number of handlers, and  *)
(* the index is back at the start when no pass is under way.               *)
Bounded(h) ==
    /\ scan[h].minFlight <= Cardinality(Handlers)
    /\ at[h] \notin Passes => scan[h].next = 1

RetryInv ==
    Types /\ InFlightAccurate /\ \A h \in Handlers : Attempting(h) /\ Scanning(h)

PickInv == RetryInv /\ \A h \in Handlers : Undisturbed(h)

SizeInv == RetryInv /\ \A h \in Handlers : Bounded(h)

-----------------------------------------------------------------------------
(* A nonempty set of counters or prices has a least element.               *)
LEMMA Least ==
    ASSUME NEW S \in SUBSET Nat, S # {}
    PROVE  \E m \in S : \A n \in S : m <= n
<1>1. PICK m \in S : \A n \in S : ~(<<n, m>> \in OpToRel(<, Nat))
  BY WFMin, NatLessThanWellFounded
<1>2. \A n \in S : ~(n < m)
  BY <1>1 DEF OpToRel
<1> QED
  BY <1>2

(* The k-th position of I exists for every k up to their number, and every *)
(* position is the k-th for some k.                                        *)
LEMMA NthFacts ==
    ASSUME NEW n \in Nat, NEW I \in SUBSET (1..n)
    PROVE  /\ Cardinality(I) \in Nat
           /\ \A k \in 1..Cardinality(I) : Nth(I, k) \in I
           /\ \A i \in I : \E k \in 1..Cardinality(I) : Nth(I, k) = i
           /\ \A k, l \in 1..Cardinality(I) : Nth(I, k) = Nth(I, l) => k = l
<1> DEFINE Rank(i) == {j \in I : j <= i}
           rank == [i \in I |-> Cardinality(Rank(i))]
           m == Cardinality(I)
<1>0. I \in SUBSET Int
  OBVIOUS
<1>1. IsFiniteSet(I) /\ m \in Nat
  <2>1. IsFiniteSet(1..n)
    BY FS_Interval
  <2>2. IsFiniteSet(I)
    BY <2>1, FS_Subset
  <2> QED
    BY <2>2, FS_CardinalityType
<1>2. \A i \in I : IsFiniteSet(Rank(i)) /\ Rank(i) \in SUBSET I
  BY <1>1, FS_Subset
<1>3. \A i \in I : Cardinality(Rank(i)) \in 1..m
  <2> SUFFICES ASSUME NEW i \in I PROVE Cardinality(Rank(i)) \in 1..m
    OBVIOUS
  <2>1. Cardinality(Rank(i)) \in Nat /\ Cardinality(Rank(i)) <= m
    BY <1>1, <1>2, FS_Subset, FS_CardinalityType
  <2>2. i \in Rank(i)
    OBVIOUS
  <2>3. Cardinality(Rank(i)) # 0
    BY <1>2, <2>2, FS_EmptySet
  <2> QED
    BY <1>1, <2>1, <2>3
<1>4. \A i, j \in I : i < j => Cardinality(Rank(i)) < Cardinality(Rank(j))
  <2> SUFFICES ASSUME NEW i \in I, NEW j \in I, i < j
               PROVE  Cardinality(Rank(i)) < Cardinality(Rank(j))
    OBVIOUS
  <2>0. i \in Int /\ j \in Int
    BY <1>0
  <2>1. Rank(i) \in SUBSET Rank(j) /\ j \in Rank(j) /\ j \notin Rank(i)
    <3>1. \A x \in Rank(i) : x \in Rank(j)
      BY <1>0, <2>0
    <3>2. j \in Rank(j) /\ j \notin Rank(i)
      BY <2>0
    <3> QED
      BY <3>1, <3>2
  <2>2. Rank(i) # Rank(j)
    BY <2>1
  <2>3. IsFiniteSet(Rank(j)) /\ IsFiniteSet(Rank(i))
    BY <1>2
  <2> HIDE DEF Rank
  <2>4. Cardinality(Rank(i)) <= Cardinality(Rank(j))
        /\ Cardinality(Rank(i)) # Cardinality(Rank(j))
    BY <2>1, <2>2, <2>3, FS_Subset
  <2> QED
    BY <2>3, <2>4, FS_CardinalityType
<1>5. rank \in Injection(I, 1..m)
  <2>1. rank \in [I -> 1..m]
    BY <1>3
  <2>2. \A i, j \in I : rank[i] = rank[j] => i = j
    <3>1. \A i \in I : Cardinality(Rank(i)) \in Int /\ i \in Int
      BY <1>3
    <3> HIDE DEF Rank
    <3> QED
      BY <1>4, <3>1
  <2> QED
    BY <2>1, <2>2 DEF Injection, IsInjective
<1>6. rank \in Surjection(I, 1..m)
  <2>1. IsFiniteSet(1..m) /\ Cardinality(1..m) = m
    BY <1>1, FS_Interval
  <2> QED
    BY <1>5, <2>1, FS_Injection
<1>7. \A k \in 1..m : \E i \in I : Cardinality(Rank(i)) = k
  BY <1>6 DEF Surjection
<1>8. \A k \in 1..m : Nth(I, k) \in I /\ Cardinality(Rank(Nth(I, k))) = k
  BY <1>7 DEF Nth
<1>9. \A i \in I : Nth(I, Cardinality(Rank(i))) = i
  <2> SUFFICES ASSUME NEW i \in I PROVE Nth(I, Cardinality(Rank(i))) = i
    OBVIOUS
  <2> DEFINE x == Nth(I, Cardinality(Rank(i)))
  <2>1. x \in I /\ Cardinality(Rank(x)) = Cardinality(Rank(i))
    BY <1>3, <1>8
  <2>2. rank[x] = rank[i]
    BY <2>1
  <2> QED
    BY <2>1, <2>2, <1>5 DEF Injection, IsInjective
<1> HIDE DEF Rank
<1> QED
  BY <1>1, <1>3, <1>8, <1>9

(* Filtering a slice keeps exactly the elements at the chosen positions.   *)
LEMMA KeepFacts ==
    ASSUME NEW S, NEW s \in Seq(S), NEW I \in SUBSET DOMAIN s
    PROVE  /\ Keep(s, I) \in Seq(S)
           /\ Len(Keep(s, I)) = Cardinality(I) /\ Cardinality(I) <= Len(s)
           /\ \A k \in DOMAIN Keep(s, I) : \E i \in I : Keep(s, I)[k] = s[i]
           /\ \A i \in I : \E k \in DOMAIN Keep(s, I) : Keep(s, I)[k] = s[i]
<1> DEFINE m == Cardinality(I)
           n == Len(s)
<1>1. n \in Nat /\ DOMAIN s = 1..n /\ I \in SUBSET (1..n)
  OBVIOUS
<1> HIDE DEF n
<1>2. /\ m \in Nat
      /\ \A k \in 1..m : Nth(I, k) \in I
      /\ \A i \in I : \E k \in 1..m : Nth(I, k) = i
  BY <1>1, NthFacts
<1>3. m <= n
  <2>1. IsFiniteSet(1..n) /\ Cardinality(1..n) = IF 1 > n THEN 0 ELSE n - 1 + 1
    BY <1>1, FS_Interval
  <2> QED
    BY <1>1, <2>1, FS_Subset
<1> HIDE DEF m
<1>4. Keep(s, I) = [k \in 1..m |-> s[Nth(I, k)]]
  BY DEF Keep, m
<1>5. Keep(s, I) \in Seq(S) /\ Len(Keep(s, I)) = m /\ DOMAIN Keep(s, I) = 1..m
  BY <1>1, <1>2, <1>4
<1> QED
  BY <1>2, <1>3, <1>4, <1>5 DEF m, n

(* A slice without duplicates has as many elements as positions.           *)
LEMMA ImageSize ==
    ASSUME NEW s, NEW I, IsFiniteSet(I), \A i, j \in I : s[i] = s[j] => i = j
    PROVE  Cardinality({s[i] : i \in I}) = Cardinality(I)
<1> DEFINE f == [i \in I |-> s[i]]
           T == {s[i] : i \in I}
<1>1. f \in [I -> T] /\ (\A i, j \in I : f[i] = f[j] => i = j) /\ \A t \in T : \E i \in I : f[i] = t
  OBVIOUS
<1>2. f \in Bijection(I, T)
  BY <1>1 DEF Bijection, Injection, Surjection, IsInjective
<1>3. ExistsBijection(I, T)
  BY <1>2 DEF ExistsBijection
<1> QED
  BY <1>3, FS_Bijection

(* The round-robin index is within the slice.                              *)
LEMMA ModFacts == \A a \in Nat, b \in Nat \ {0} : a % b \in 0..(b - 1)
  OBVIOUS

-----------------------------------------------------------------------------
(* A slice is empty, or has a first element.                               *)
LEMMA SliceFacts ==
    ASSUME NEW S, NEW s \in Seq(S)
    PROVE  /\ Len(s) \in Nat /\ DOMAIN s = 1..Len(s)
           /\ s # <<>> => Len(s) >= 1
           /\ ToSet(s) \subseteq S
           /\ \A i \in 1..Len(s) : s[i] \in ToSet(s)
  BY DEF ToSet

(* Appending to a slice adds one element to its set.                       *)
LEMMA AppendSet ==
    ASSUME NEW S, NEW s \in Seq(S), NEW x \in S
    PROVE  /\ Append(s, x) \in Seq(S)
           /\ \A v : v \in ToSet(Append(s, x)) <=> v \in ToSet(s) \/ v = x
<1>1. /\ Append(s, x) \in Seq(S) /\ Len(Append(s, x)) = Len(s) + 1
      /\ Append(s, x)[Len(s) + 1] = x
      /\ \A i \in 1..Len(s) : Append(s, x)[i] = s[i]
  OBVIOUS
<1>2. DOMAIN s = 1..Len(s) /\ DOMAIN Append(s, x) = 1..(Len(s) + 1) /\ Len(s) \in Nat
  BY <1>1
<1>3. \A i \in 1..(Len(s) + 1) : i \in 1..Len(s) \/ i = Len(s) + 1
  BY <1>2
<1>4. 1..Len(s) \subseteq 1..(Len(s) + 1) /\ Len(s) + 1 \in 1..(Len(s) + 1)
  BY <1>2
<1>5. ASSUME NEW v, v \in ToSet(Append(s, x))
      PROVE  v \in ToSet(s) \/ v = x
  <2>1. PICK i \in 1..(Len(s) + 1) : v = Append(s, x)[i]
    BY <1>2, <1>5 DEF ToSet
  <2> QED
    BY <1>1, <1>2, <1>3, <2>1 DEF ToSet
<1>6. ASSUME NEW v, v \in ToSet(s) \/ v = x
      PROVE  v \in ToSet(Append(s, x))
  BY <1>1, <1>2, <1>4, <1>6 DEF ToSet
<1> QED
  BY <1>1, <1>5, <1>6

(* The candidates are the untried workers of the snapshot.                 *)
LEMMA CandidateFacts ==
    ASSUME NEW h \in Handlers, workers[h] \in Seq(Workers)
    PROVE  /\ candidates(h) \in Seq(Workers)
           /\ Len(candidates(h)) <= Len(workers[h])
           /\ \A w : w \in ToSet(candidates(h)) <=>
                       w \in ToSet(workers[h]) /\ w \notin tried[h]
<1> DEFINE s == workers[h]
           I == {i \in DOMAIN s : s[i] \notin tried[h]}
<1>1. I \in SUBSET DOMAIN s
  OBVIOUS
<1>2. candidates(h) = Keep(s, I)
  BY DEF candidates
<1> HIDE DEF I
<1>3. /\ candidates(h) \in Seq(Workers)
      /\ Len(candidates(h)) <= Len(s)
      /\ \A k \in DOMAIN candidates(h) : \E i \in I : candidates(h)[k] = s[i]
      /\ \A i \in I : \E k \in DOMAIN candidates(h) : candidates(h)[k] = s[i]
  BY <1>1, <1>2, KeepFacts
<1>4. ASSUME NEW w, w \in ToSet(candidates(h))
      PROVE  w \in ToSet(s) /\ w \notin tried[h]
  BY <1>3, <1>4 DEF ToSet, I
<1>5. ASSUME NEW w, w \in ToSet(s), w \notin tried[h]
      PROVE  w \in ToSet(candidates(h))
  <2>1. PICK i \in I : s[i] = w
    BY <1>5 DEF ToSet, I
  <2> QED
    BY <1>3, <2>1 DEF ToSet
<1> QED
  BY <1>3, <1>4, <1>5

(* Without duplicates, positions and workers are as many.                  *)
LEMMA CandidateCount ==
    ASSUME NEW h \in Handlers, workers[h] \in Seq(Workers), Distinct(workers[h])
    PROVE  /\ Cardinality(ToSet(workers[h])) = Len(workers[h])
           /\ Cardinality(ToSet(workers[h]) \ tried[h]) = Len(candidates(h))
<1> DEFINE s == workers[h]
           n == Len(s)
           I == {i \in DOMAIN s : s[i] \notin tried[h]}
<1>1. n \in Nat /\ DOMAIN s = 1..n /\ I \in SUBSET DOMAIN s
  OBVIOUS
<1> HIDE DEF n, I
<1>2. IsFiniteSet(1..n) /\ Cardinality(1..n) = IF 1 > n THEN 0 ELSE n - 1 + 1
  BY <1>1, FS_Interval
<1>3. IsFiniteSet(I)
  BY <1>1, <1>2, FS_Subset
<1>4. Cardinality({s[i] : i \in 1..n}) = Cardinality(1..n)
  BY <1>1, <1>2, ImageSize DEF Distinct
<1>5. Cardinality({s[i] : i \in I}) = Cardinality(I)
  BY <1>1, <1>3, ImageSize DEF Distinct
<1>6. ToSet(s) = {s[i] : i \in 1..n}
  BY <1>1 DEF ToSet
<1>7. ToSet(s) \ tried[h] = {s[i] : i \in I}
  BY DEF ToSet, I
<1>8. Len(candidates(h)) = Cardinality(I)
  BY <1>1, KeepFacts DEF candidates, I
<1>9. Cardinality(ToSet(s)) = Cardinality(1..n)
  BY <1>4, <1>6, Zenon
<1>10. Cardinality(1..n) = Len(s)
  BY <1>1, <1>2 DEF n
<1> QED
  BY <1>5, <1>7, <1>8, <1>9, <1>10, Zenon

(* The cap on the attempts, and what it means once they are used up.       *)
LEMMA AttemptFacts ==
    ASSUME NEW h \in Handlers, Types, Distinct(workers[h])
    PROVE  /\ maxAttempts(h) \in Nat
           /\ maxAttempts(h) <= Len(workers[h]) /\ maxAttempts(h) <= maxRetries
           /\ IsFiniteSet(tried[h]) /\ Cardinality(tried[h]) \in Nat
           /\ candidates(h) = <<>> /\ tried[h] \subseteq ToSet(workers[h]) =>
                  Cardinality(tried[h]) >= maxAttempts(h)
<1>1. workers[h] \in Seq(Workers) /\ tried[h] \in SUBSET Workers
  BY DEF Types
<1>2. maxAttempts(h) \in Nat /\ maxAttempts(h) <= Len(workers[h])
      /\ maxAttempts(h) <= maxRetries
  BY <1>1, RetriesAssumption DEF maxAttempts
<1>3. IsFiniteSet(tried[h]) /\ Cardinality(tried[h]) \in Nat
  BY <1>1, FleetAssumption, FS_Subset, FS_CardinalityType
<1>4. ASSUME candidates(h) = <<>>, tried[h] \subseteq ToSet(workers[h])
      PROVE  Cardinality(tried[h]) >= maxAttempts(h)
  <2>1. ToSet(candidates(h)) = {}
    BY <1>4 DEF ToSet
  <2>2. tried[h] = ToSet(workers[h])
    BY <1>1, <1>4, <2>1, CandidateFacts
  <2>3. Cardinality(tried[h]) = Len(workers[h])
    BY <1>1, <2>2, CandidateCount
  <2> QED
    BY <1>1, <1>2, <2>3
<1> QED
  BY <1>2, <1>3, <1>4

(* What one handler does leaves the local variables of the others alone.   *)
LEMMA FrameCandidates ==
    ASSUME NEW g \in Handlers, workers'[g] = workers[g], tried'[g] = tried[g]
    PROVE  candidates(g)' = candidates(g) /\ maxAttempts(g)' = maxAttempts(g)
  BY DEF candidates, maxAttempts

(* So does its own part of the invariant.                                  *)
LEMMA FrameHandler ==
    ASSUME NEW g \in Handlers, Attempting(g), Scanning(g),
           at'[g] = at[g], workers'[g] = workers[g], tried'[g] = tried[g],
           scan'[g] = scan[g], chosen'[g] = chosen[g], failed'[g] = failed[g]
    PROVE  Attempting(g)' /\ Scanning(g)'
<1>1. candidates(g)' = candidates(g) /\ maxAttempts(g)' = maxAttempts(g)
  BY FrameCandidates
<1>2. Attempting(g)'
  BY <1>1 DEF Attempting, Distinct, Picking, Reading, Passes
<1>3. Scanning(g)'
  BY <1>1 DEF Scanning, Picking, Reading, Passes
<1> QED
  BY <1>2, <1>3

-----------------------------------------------------------------------------
(* A step of h that neither sends its request nor gets it back.            *)
LEMMA CountSame ==
    ASSUME NEW h \in Handlers, InFlightAccurate, inFlight' = inFlight,
           at[h] # "proxy", at'[h] # "proxy",
           \A g \in Handlers : g # h => at'[g] = at[g] /\ chosen'[g] = chosen[g]
    PROVE  InFlightAccurate'
<1> DEFINE At(w) == {g \in Handlers : at[g] = "proxy" /\ chosen[g] = w}
<1>1. \A w : At(w)' = At(w)
  OBVIOUS
<1>2. \A w \in Workers : inFlight[w] = Cardinality(At(w))
  BY DEF InFlightAccurate
<1>3. \A w \in Workers : inFlight'[w] = Cardinality(At(w)')
  BY <1>1, <1>2
<1> QED
  BY <1>3 DEF InFlightAccurate

(* inc: a request that was at no worker is now at the chosen one.          *)
LEMMA CountForward ==
    ASSUME NEW h \in Handlers, Types, InFlightAccurate, Forward(h),
           chosen[h] \in Workers
    PROVE  InFlightAccurate'
<1> DEFINE At(w) == {g \in Handlers : at[g] = "proxy" /\ chosen[g] = w}
<1>1. ASSUME NEW w \in Workers
      PROVE  inFlight'[w] = Cardinality(At(w)')
  <2>0. inFlight[w] = Cardinality(At(w)) /\ IsFiniteSet(At(w))
    BY FleetAssumption, FS_Subset DEF InFlightAccurate
  <2>1. CASE w = chosen[h]
    <3>1. h \notin At(w) /\ At(w)' = At(w) \cup {h}
      BY <2>1 DEF Forward, Types
    <3>2. inFlight'[w] = inFlight[w] + 1
      BY <2>1 DEF Forward, Types
    <3> QED
      BY <2>0, <3>1, <3>2, FS_AddElement
  <2>2. CASE w # chosen[h]
    <3>1. At(w)' = At(w)
      BY <2>2 DEF Forward, Types
    <3>2. inFlight'[w] = inFlight[w]
      BY <2>2 DEF Forward, Types
    <3> QED
      BY <2>0, <3>1, <3>2
  <2> QED
    BY <2>1, <2>2
<1> QED
  BY <1>1 DEF InFlightAccurate

(* dec: however the attempt ends, the request is gone from its worker.     *)
LEMMA CountReturn ==
    ASSUME NEW h \in Handlers, Types, InFlightAccurate, Return(h),
           chosen[h] \in Workers,
           NEW end \in Places \ {"proxy"}, at' = [at EXCEPT ![h] = end]
    PROVE  InFlightAccurate'
<1> DEFINE At(w) == {g \in Handlers : at[g] = "proxy" /\ chosen[g] = w}
<1>1. ASSUME NEW w \in Workers
      PROVE  inFlight'[w] = Cardinality(At(w)')
  <2>0. inFlight[w] = Cardinality(At(w)) /\ IsFiniteSet(At(w))
    BY FleetAssumption, FS_Subset DEF InFlightAccurate
  <2>1. CASE w = chosen[h]
    <3>1. h \in At(w) /\ At(w)' = At(w) \ {h}
      BY <2>1 DEF Return, Types
    <3>2. inFlight'[w] = inFlight[w] - 1
      BY <2>1 DEF Return, dec, Types
    <3> QED
      BY <2>0, <3>1, <3>2, FS_RemoveElement
  <2>2. CASE w # chosen[h]
    <3>1. At(w)' = At(w)
      BY <2>2 DEF Return, Types
    <3>2. inFlight'[w] = inFlight[w]
      BY <2>2 DEF Return, dec, Types
    <3> QED
      BY <2>0, <3>1, <3>2
  <2> QED
    BY <2>1, <2>2
<1> QED
  BY <1>1 DEF InFlightAccurate

(* No handler has a request at the start.                                  *)
LEMMA RetryInit == Init => RetryInv
<1> SUFFICES ASSUME Init
             PROVE  RetryInv
  OBVIOUS
<1>0. <<>> \in Seq(Workers) /\ DOMAIN <<>> = {}
  OBVIOUS
<1>1. Types
  <2>1. NoScan \in Scans
    BY <1>0 DEF NoScan, Scans
  <2>2. 0 \in 0..(CounterPeriod - 1)
    BY PeriodAssumption
  <2> QED
    BY <1>0, <2>1, <2>2 DEF Init, Types, Places
<1>2. InFlightAccurate
  <2>1. \A w \in Workers : {h \in Handlers : at[h] = "proxy" /\ chosen[h] = w} = {}
    BY NobodyAssumption DEF Init
  <2> QED
    BY <2>1, FS_EmptySet DEF Init, InFlightAccurate
<1>3. \A h \in Handlers : Attempting(h) /\ Scanning(h)
  BY <1>0 DEF Init, Attempting, Scanning, Distinct, Picking, Reading, Passes
<1> QED
  BY <1>1, <1>2, <1>3 DEF RetryInv

(* What HealthyWorkersForModel returns.                                    *)
LEMMA SnapshotFacts ==
    ASSUME NEW snapshot \in Snapshots
    PROVE  snapshot \in Seq(Workers) /\ Distinct(snapshot)
<1>1. PICK S \in SUBSET Workers : snapshot \in SetToSeqs(S)
  BY DEF Snapshots
<1> DEFINE n == Cardinality(S)
<1>2. n \in Nat
  BY FleetAssumption, FS_Subset, FS_CardinalityType
<1>3. /\ snapshot \in [1..n -> S]
      /\ \A i, j \in 1..n : i # j => snapshot[i] # snapshot[j]
  BY <1>1 DEF SetToSeqs
<1> HIDE DEF n
<1> QED
  BY <1>2, <1>3 DEF Distinct

(* A request arrives.                                                      *)
LEMMA ArriveStep ==
    ASSUME RetryInv, NEW h \in Handlers, NEW snapshot \in Snapshots,
           Arrive(h, snapshot)
    PROVE  RetryInv'
<1> USE DEF RetryInv
<1>1. snapshot \in Seq(Workers) /\ Distinct(snapshot)
  BY SnapshotFacts
<1>2. Types'
  <2>1. NoScan \in Scans
    BY DEF NoScan, Scans
  <2> QED
    BY <1>1, <2>1 DEF Arrive, Types, Places, Ended
<1>3. \A g \in Handlers : g # h => Attempting(g)' /\ Scanning(g)'
  BY FrameHandler DEF Arrive, Types
<1>4. Attempting(h)' /\ Scanning(h)'
  <2>1. /\ at'[h] \in {"no workers", "start"} /\ workers'[h] = snapshot
        /\ tried'[h] = {} /\ failed'[h] = {}
    BY DEF Arrive, Types
  <2>2. Cardinality({}) = 0
    BY FS_EmptySet
  <2>3. maxAttempts(h)' \in Nat
    <3>1. Len(snapshot) \in Nat /\ maxRetries \in Nat
      BY <1>1, RetriesAssumption
    <3>2. maxAttempts(h)' = IF Len(snapshot) < maxRetries
                            THEN Len(snapshot) ELSE maxRetries
      BY <2>1 DEF maxAttempts
    <3> QED
      BY <3>1, <3>2
  <2>4. Attempting(h)'
    <3>1. Distinct(workers[h])'
      BY <1>1, <2>1 DEF Distinct
    <3>2. Cardinality(tried[h])' = 0
      BY <2>1, <2>2
    <3>3. tried'[h] \subseteq ToSet(workers[h])'
      BY <2>1
    <3>4. Cardinality(tried[h])' <= maxAttempts(h)'
      BY <2>3, <3>2
    <3>5. failed'[h] = tried'[h]
      BY <2>1
    <3>6. at'[h] \notin Picking \cup {"proxy", "bad gateway"}
      BY <2>1 DEF Picking, Reading, Passes
    <3> QED
      BY <3>1, <3>3, <3>4, <3>5, <3>6 DEF Attempting
  <2>5. Scanning(h)'
    BY <2>1 DEF Scanning, Reading, Passes
  <2> QED
    BY <2>4, <2>5
<1>5. InFlightAccurate'
  BY CountSame DEF Arrive, Types, Ended
<1> QED
  BY <1>2, <1>3, <1>4, <1>5

(* The top of the retry loop: a 502 is written only when the attempts are  *)
(* used up.                                                                *)
LEMMA StartStep ==
    ASSUME RetryInv, NEW h \in Handlers, StartAttempt(h)
    PROVE  RetryInv'
<1>0. Types /\ InFlightAccurate /\ \A g \in Handlers : Attempting(g) /\ Scanning(g)
  BY DEF RetryInv
<1>1. /\ at[h] = "start" /\ workers' = workers /\ tried' = tried
      /\ failed' = failed /\ inFlight' = inFlight /\ counter' = counter
      /\ scan' = [scan EXCEPT ![h] = NoScan]
      /\ quiet' = [quiet EXCEPT ![h] = TRUE]
  BY DEF StartAttempt
<1>2. candidates(h)' = candidates(h) /\ maxAttempts(h)' = maxAttempts(h)
  BY <1>1, FrameCandidates
<1>3. /\ candidates(h) \in Seq(Workers)
      /\ Distinct(workers[h]) /\ tried[h] \subseteq ToSet(workers[h])
      /\ Cardinality(tried[h]) <= maxAttempts(h) /\ failed[h] = tried[h]
  BY <1>0, <1>1, CandidateFacts DEF Types, Attempting
<1>4. /\ maxAttempts(h) \in Nat /\ Cardinality(tried[h]) \in Nat
      /\ candidates(h) = <<>> => Cardinality(tried[h]) >= maxAttempts(h)
  BY <1>0, <1>3, AttemptFacts
<1>5. \/ /\ Cardinality(tried[h]) >= maxAttempts(h)
         /\ at' = [at EXCEPT ![h] = "bad gateway"] /\ chosen' = chosen
      \/ /\ Cardinality(tried[h]) < maxAttempts(h)
         /\ candidates(h) # <<>>
         /\ Len(candidates(h)) = 1
         /\ at' = [at EXCEPT ![h] = "chosen"]
         /\ chosen' = [chosen EXCEPT ![h] = candidates(h)[1]]
      \/ /\ Cardinality(tried[h]) < maxAttempts(h)
         /\ candidates(h) # <<>>
         /\ Len(candidates(h)) # 1
         /\ at' = [at EXCEPT ![h] = "min pass"] /\ chosen' = chosen
  <2>1. /\ Exhausted(h) => Cardinality(tried[h]) >= maxAttempts(h)
        /\ ~Exhausted(h) => /\ Cardinality(tried[h]) < maxAttempts(h)
                             /\ candidates(h) # <<>>
    BY <1>4 DEF Exhausted
  <2>2. CASE Exhausted(h)
    BY <2>1, <2>2 DEF StartAttempt
  <2>3. CASE ~Exhausted(h) /\ Len(candidates(h)) = 1
    BY <2>1, <2>3 DEF StartAttempt
  <2>4. CASE ~Exhausted(h) /\ Len(candidates(h)) # 1
    BY <2>1, <2>4 DEF StartAttempt
  <2> QED
    BY <2>2, <2>3, <2>4
<1>6. scan'[h].next = 1 /\ scan'[h].flight = <<>> /\ scan'[h] \in Scans
  BY <1>0, <1>1 DEF Types, NoScan, Scans
<1>7. Len(candidates(h)) = 1 => candidates(h)[1] \in ToSet(candidates(h))
  BY <1>3 DEF ToSet
<1>8. ToSet(candidates(h)) \subseteq Workers
  BY <1>3 DEF ToSet
<1>9. Types'
  <2>1. chosen' \in [Handlers -> Workers \cup {Nobody}]
    BY <1>0, <1>5, <1>7, <1>8 DEF Types
  <2>2. at' \in [Handlers -> Places]
    BY <1>0, <1>5 DEF Types, Places
  <2>3. scan' \in [Handlers -> Scans]
    BY <1>0, <1>1, <1>6 DEF Types
  <2> QED
    BY <1>0, <1>1, <2>1, <2>2, <2>3 DEF Types
<1>10. \A g \in Handlers : g # h => Attempting(g)' /\ Scanning(g)'
  BY <1>0, <1>1, <1>5, FrameHandler DEF Types
<1>11. at'[h] \in {"bad gateway", "chosen", "min pass"}
  BY <1>0, <1>5 DEF Types
<1>12. Attempting(h)'
  <2>1. Distinct(workers[h])' /\ tried'[h] \subseteq ToSet(workers[h])'
        /\ Cardinality(tried[h])' <= maxAttempts(h)' /\ failed'[h] = tried'[h]
    BY <1>1, <1>2, <1>3
  <2>2. at'[h] = "bad gateway" => Cardinality(tried[h])' >= maxAttempts(h)'
    BY <1>0, <1>1, <1>2, <1>5 DEF Types
  <2>3. at'[h] # "bad gateway" => Cardinality(tried[h])' < maxAttempts(h)'
    BY <1>0, <1>1, <1>2, <1>5 DEF Types
  <2>4. at'[h] # "proxy" /\ (at'[h] \in Picking => at'[h] # "bad gateway")
    BY <1>11 DEF Picking, Reading, Passes
  <2> QED
    BY <2>1, <2>2, <2>3, <2>4 DEF Attempting
<1>13. Scanning(h)'
  <2>1. ToSet(scan[h].flight)' \subseteq ToSet(candidates(h))'
    BY <1>6 DEF ToSet
  <2> DEFINE n == Len(candidates(h))
  <2>2. n \in Nat /\ (candidates(h) # <<>> => n >= 1)
    BY <1>3, SliceFacts
  <2>3. at'[h] = "min pass" => candidates(h) # <<>> /\ n # 1
    BY <1>0, <1>5 DEF Types
  <2>4. at'[h] = "chosen" => chosen'[h] \in ToSet(candidates(h))
    BY <1>0, <1>5, <1>7 DEF Types
  <2>5. at'[h] \in Reading => at'[h] = "min pass"
    BY <1>11 DEF Reading, Passes
  <2>6. Len(candidates(h))' = n /\ ToSet(candidates(h))' = ToSet(candidates(h))
    BY <1>2
  <2> HIDE DEF n
  <2>7. at'[h] \in Reading => n > 1 /\ 1 \in 1..n
    <3>1. n \in Nat
      BY <2>2
    <3>2. at'[h] \in Reading => n >= 1 /\ n # 1
      BY <2>2, <2>3, <2>5, Zenon
    <3> QED
      BY <3>1, <3>2
  <2> QED
    BY <1>6, <2>1, <2>4, <2>6, <2>7 DEF Scanning, Reading
<1>14. InFlightAccurate'
  BY <1>0, <1>1, <1>5, <1>11, CountSame DEF Types
<1> QED
  BY <1>9, <1>10, <1>12, <1>13, <1>14 DEF RetryInv

(* A counter is at most the number of handlers.                            *)
LEMMA CounterBounds ==
    ASSUME InFlightAccurate, NEW w \in Workers
    PROVE  inFlight[w] \in 0..Cardinality(Handlers)
<1> DEFINE At == {h \in Handlers : at[h] = "proxy" /\ chosen[h] = w}
           c == Cardinality(At)
           m == Cardinality(Handlers)
<1>1. inFlight[w] = c
  BY DEF InFlightAccurate
<1>2. At \in SUBSET Handlers /\ IsFiniteSet(Handlers)
  BY FleetAssumption
<1> HIDE DEF At
<1>3. IsFiniteSet(At) /\ c <= m
  BY <1>2, FS_Subset
<1>4. c \in Nat /\ m \in Nat
  BY <1>2, <1>3, FS_CardinalityType
<1> HIDE DEF c, m
<1>5. c \in 0..m
  BY <1>3, <1>4
<1> QED
  BY <1>1, <1>5 DEF m

(* One read of either pass.                                                *)
LEMMA PassStep ==
    ASSUME RetryInv, NEW h \in Handlers, at[h] \in Passes,
           NEW s \in Scans, s.next = scan[h].next,
           ToSet(s.flight) \subseteq ToSet(candidates(h)),
           NEW after \in Reading,
           Advance(h, s, at[h], after),
           UNCHANGED <<inFlight, counter, workers, tried, chosen, failed, quiet>>
    PROVE  /\ RetryInv'
           /\ candidates(h)' = candidates(h) /\ Len(candidates(h)) \in Nat
           /\ scan'[h].minFlight = s.minFlight /\ scan'[h].flight = s.flight
           /\ scan[h].next \in 1..Len(candidates(h))
           /\ \/ /\ scan[h].next = Len(candidates(h))
                 /\ scan'[h].next = 1 /\ at'[h] = after
              \/ /\ scan[h].next < Len(candidates(h))
                 /\ scan'[h].next = scan[h].next + 1 /\ at'[h] = at[h]
<1> DEFINE n == Len(candidates(h))
           k == scan[h].next
<1>0. Types /\ InFlightAccurate /\ \A g \in Handlers : Attempting(g) /\ Scanning(g)
  BY DEF RetryInv
<1>1. n \in Nat /\ n > 1 /\ k \in 1..n
  <2>1. candidates(h) \in Seq(Workers)
    BY <1>0, CandidateFacts DEF Types
  <2>2. n \in Nat
    BY <2>1, SliceFacts
  <2>3. Scanning(h)
    BY <1>0
  <2>4. n > 1 /\ k \in 1..n
    BY <2>3 DEF Scanning, Reading
  <2> QED
    BY <2>2, <2>4
<1>2. candidates(h)' = candidates(h) /\ maxAttempts(h)' = maxAttempts(h)
  BY FrameCandidates
<1>3. /\ scan' = [scan EXCEPT ![h] = [s EXCEPT !.next = IF k = n THEN 1 ELSE k + 1]]
      /\ at' = [at EXCEPT ![h] = IF k = n THEN after ELSE at[h]]
  BY DEF Advance
<1> HIDE DEF n, k
<1> DEFINE x == IF k = n THEN 1 ELSE k + 1
           t == [s EXCEPT !.next = x]
<1>31. x \in 1..n /\ x \in Nat \ {0}
  BY <1>1
<1>32. /\ t.next = x /\ t.minFlight = s.minFlight /\ t.flight = s.flight
      /\ t \in Scans
  <2> HIDE DEF x
  <2> QED
    BY <1>31 DEF Scans
<1>33. scan' = [scan EXCEPT ![h] = t]
  BY <1>3
<1> HIDE DEF t
<1>34. scan'[h] = t /\ at'[h] = IF k = n THEN after ELSE at[h]
  BY <1>0, <1>3, <1>33 DEF Types
<1>4. /\ scan'[h].minFlight = s.minFlight /\ scan'[h].flight = s.flight
      /\ \/ k = n /\ scan'[h].next = 1 /\ at'[h] = after
         \/ k < n /\ scan'[h].next = k + 1 /\ at'[h] = at[h]
  BY <1>1, <1>32, <1>34
<1>5. Types'
  <2>1. scan' \in [Handlers -> Scans]
    BY <1>0, <1>32, <1>33 DEF Types
  <2>2. at' \in [Handlers -> Places]
    BY <1>0, <1>3 DEF Types, Places, Reading, Passes
  <2> QED
    BY <1>0, <2>1, <2>2 DEF Types
<1>6. \A g \in Handlers : g # h => Attempting(g)' /\ Scanning(g)'
  BY <1>0, <1>3, FrameHandler DEF Types
<1>7. at'[h] \in Reading /\ at'[h] # "proxy" /\ at[h] # "proxy"
  BY <1>4 DEF Reading, Passes
<1>8. Attempting(h)'
  <2>1. at'[h] \in Picking /\ at[h] \in Picking
    BY <1>7 DEF Picking, Reading, Passes
  <2>2. at'[h] # "bad gateway"
    BY <1>7 DEF Reading, Passes
  <2>3. /\ Distinct(workers[h]) /\ tried[h] \subseteq ToSet(workers[h])
        /\ failed[h] = tried[h] /\ Cardinality(tried[h]) < maxAttempts(h)
        /\ Cardinality(tried[h]) <= maxAttempts(h)
    BY <1>0, <2>1 DEF Attempting
  <2>4. /\ Distinct(workers[h])' /\ tried'[h] \subseteq ToSet(workers[h])'
        /\ failed'[h] = tried'[h] /\ Cardinality(tried[h])' < maxAttempts(h)'
        /\ Cardinality(tried[h])' <= maxAttempts(h)'
    BY <1>2, <2>3
  <2> QED
    BY <1>7, <2>1, <2>2, <2>4 DEF Attempting
<1>9. Scanning(h)'
  <2>1. ToSet(scan[h].flight)' \subseteq ToSet(candidates(h))'
    BY <1>2, <1>4
  <2>2. Len(candidates(h))' = n
    BY <1>2 DEF n
  <2>3. scan'[h].next \in 1..n /\ n > 1
    BY <1>1, <1>31, <1>32, <1>34
  <2>4. at'[h] # "chosen"
    BY <1>7 DEF Reading, Passes
  <2> QED
    BY <2>1, <2>2, <2>3, <2>4 DEF Scanning
<1>10. InFlightAccurate'
  BY <1>0, <1>3, <1>7, CountSame DEF Types
<1> QED
  BY <1>1, <1>2, <1>4, <1>5, <1>6, <1>8, <1>9, <1>10 DEF RetryInv, n, k

(* pickWorker's first pass.                                                *)
LEMMA ReadMinStep ==
    ASSUME RetryInv, NEW h \in Handlers, ReadMin(h)
    PROVE  \E s \in Scans :
              /\ s.next = scan[h].next /\ s.flight = scan[h].flight
              /\ s.minFlight = LET f == inFlight[candidates(h)[s.next]] IN
                               IF s.next = 1 \/ f < scan[h].minFlight
                               THEN f ELSE scan[h].minFlight
              /\ Advance(h, s, at[h], "flight pass")
<1> DEFINE s == scan[h]
           f == inFlight[candidates(h)[s.next]]
           m == IF s.next = 1 \/ f < s.minFlight THEN f ELSE s.minFlight
           t == [s EXCEPT !.minFlight = m]
<1>0. Types /\ InFlightAccurate /\ \A g \in Handlers : Attempting(g) /\ Scanning(g)
  BY DEF RetryInv
<1>1. at[h] = "min pass" /\ Advance(h, t, at[h], "flight pass")
  BY DEF ReadMin
<1>2. s.next \in 1..Len(candidates(h)) /\ s \in Scans
  BY <1>0, <1>1 DEF Scanning, Passes, Types
<1>3. candidates(h)[s.next] \in Workers
  <2>1. candidates(h) \in Seq(Workers)
    BY <1>0, CandidateFacts DEF Types
  <2> QED
    BY <1>2, <2>1
<1>4. f \in Nat
  BY <1>0, <1>3, CounterBounds
<1>5. m \in Nat
  BY <1>2, <1>4 DEF Scans
<1>6. /\ t \in Scans /\ t.next = s.next /\ t.flight = s.flight /\ t.minFlight = m
  <2> HIDE DEF m, s
  <2> QED
    BY <1>2, <1>5 DEF Scans
<1> QED
  BY <1>1, <1>6, Zenon

(* pickWorker's second pass.                                               *)
LEMMA ReadFlightStep ==
    ASSUME RetryInv, NEW h \in Handlers, ReadFlight(h)
    PROVE  \E s \in Scans :
              /\ s.next = scan[h].next /\ s.minFlight = scan[h].minFlight
              /\ LET w == candidates(h)[s.next] IN
                 /\ w \in Workers
                 /\ w \in ToSet(candidates(h))
                 /\ \A v : v \in ToSet(s.flight) <=>
                        \/ v \in ToSet(scan[h].flight)
                        \/ v = w /\ inFlight[w] = s.minFlight
              /\ Advance(h, s, at[h], "choose")
<1> DEFINE s == scan[h]
           w == candidates(h)[s.next]
           fl == IF inFlight[w] = s.minFlight THEN Append(s.flight, w) ELSE s.flight
           t == [s EXCEPT !.flight = fl]
<1>0. Types /\ InFlightAccurate /\ \A g \in Handlers : Attempting(g) /\ Scanning(g)
  BY DEF RetryInv
<1>1. at[h] = "flight pass" /\ Advance(h, t, at[h], "choose")
  BY DEF ReadFlight
<1>2. s.next \in 1..Len(candidates(h)) /\ s \in Scans
  BY <1>0, <1>1 DEF Scanning, Passes, Types
<1>3. w \in Workers /\ w \in ToSet(candidates(h))
  <2>1. candidates(h) \in Seq(Workers)
    BY <1>0, CandidateFacts DEF Types
  <2> QED
    BY <1>2, <2>1, SliceFacts
<1>4. s.flight \in Seq(Workers)
  BY <1>2 DEF Scans
<1> HIDE DEF s, w
<1>5. /\ fl \in Seq(Workers)
      /\ \A v : v \in ToSet(fl) <=>
             v \in ToSet(s.flight) \/ (v = w /\ inFlight[w] = s.minFlight)
  <2>1. /\ Append(s.flight, w) \in Seq(Workers)
        /\ \A v : v \in ToSet(Append(s.flight, w)) <=> v \in ToSet(s.flight) \/ v = w
    BY <1>3, <1>4, AppendSet
  <2> QED
    BY <1>4, <2>1
<1>6. t \in Scans /\ t.next = s.next /\ t.minFlight = s.minFlight /\ t.flight = fl
  <2> HIDE DEF fl
  <2> QED
    BY <1>2, <1>5 DEF Scans
<1> HIDE DEF fl, t
<1>7. /\ t.next = s.next /\ t.minFlight = s.minFlight
      /\ w \in Workers /\ w \in ToSet(candidates(h))
      /\ \A v : v \in ToSet(t.flight) <=>
             v \in ToSet(s.flight) \/ (v = w /\ inFlight[w] = t.minFlight)
  BY <1>3, <1>5, <1>6
<1> QED
  BY <1>1, <1>6, <1>7, Zenon DEF s, w

(* Level 2 finds the cheapest workers of the slice, and there is one.      *)
LEMMA CheapestFacts ==
    ASSUME NEW flight \in Seq(Workers), flight # <<>>
    PROVE  /\ cheapest(flight) \in Seq(Workers) /\ Len(cheapest(flight)) >= 1
           /\ \A w \in ToSet(cheapest(flight)) :
                 /\ w \in ToSet(flight)
                 /\ \A v \in ToSet(flight) : CostPerHour[w] <= CostPerHour[v]
<1> DEFINE cost(i) == CostPerHour[flight[i]]
           I == {i \in DOMAIN flight : \A j \in DOMAIN flight : cost(i) <= cost(j)}
           C == {cost(i) : i \in DOMAIN flight}
<1>1. /\ Len(flight) \in Nat /\ DOMAIN flight = 1..Len(flight)
      /\ Len(flight) >= 1 /\ 1 \in DOMAIN flight
  BY SliceFacts
<1>2. \A i \in DOMAIN flight : flight[i] \in Workers /\ cost(i) \in Nat
  BY CostAssumption
<1>3. C \in SUBSET Nat /\ C # {}
  BY <1>1, <1>2
<1>4. PICK m \in C : \A n \in C : m <= n
  BY <1>3, Least
<1>5. PICK i \in DOMAIN flight : cost(i) = m
  BY <1>4
<1>6. i \in I
  BY <1>4, <1>5
<1>7. I \in SUBSET DOMAIN flight
  OBVIOUS
<1>8. cheapest(flight) = Keep(flight, I)
  BY DEF cheapest
<1>9. /\ cheapest(flight) \in Seq(Workers)
      /\ \A k \in DOMAIN cheapest(flight) : \E j \in I : cheapest(flight)[k] = flight[j]
      /\ \A j \in I : \E k \in DOMAIN cheapest(flight) : cheapest(flight)[k] = flight[j]
  <2> HIDE DEF I
  <2> QED
    BY <1>7, <1>8, KeepFacts
<1>10. PICK k \in DOMAIN cheapest(flight) : TRUE
  BY <1>6, <1>9
<1>11. Len(cheapest(flight)) >= 1
  BY <1>9, <1>10
<1>12. ASSUME NEW w \in ToSet(cheapest(flight))
       PROVE  /\ w \in ToSet(flight)
              /\ \A v \in ToSet(flight) : CostPerHour[w] <= CostPerHour[v]
  <2>1. PICK j \in I : w = flight[j]
    BY <1>9, <1>12 DEF ToSet
  <2>2. j \in DOMAIN flight /\ \A x \in DOMAIN flight : CostPerHour[w] <= cost(x)
    BY <2>1
  <2> QED
    BY <2>1, <2>2 DEF ToSet
<1> QED
  BY <1>9, <1>11, <1>12

(* What the rest of pickWorker picks, or a panic on an empty slice.        *)
LEMMA ChooseFacts ==
    ASSUME Types, NEW h \in Handlers, Choose(h)
    PROVE  LET flight == scan[h].flight IN
           /\ at[h] = "choose"
           /\ counter' \in 0..(CounterPeriod - 1)
           /\ scan' = [scan EXCEPT ![h] = NoScan]
           /\ UNCHANGED <<inFlight, workers, tried, failed, quiet>>
           /\ \/ /\ ToSet(flight) = {}
                 /\ at' = [at EXCEPT ![h] = "panicked"] /\ chosen' = chosen
              \/ \E w \in ToSet(flight) :
                    /\ w \in Workers
                    /\ \A v \in ToSet(flight) : CostPerHour[w] <= CostPerHour[v]
                    /\ at' = [at EXCEPT ![h] = "chosen"]
                    /\ chosen' = [chosen EXCEPT ![h] = w]
<1> DEFINE flight == scan[h].flight
           tie == (counter + 1) % CounterPeriod
           best == cheapest(flight)
<1>1. /\ at[h] = "choose" /\ scan' = [scan EXCEPT ![h] = NoScan]
      /\ UNCHANGED <<inFlight, workers, tried, failed, quiet>>
      /\ at' = [at EXCEPT ![h] = IF flight = <<>> THEN "panicked" ELSE "chosen"]
  BY DEF Choose
<1>2. scan[h] \in Scans /\ counter \in 0..(CounterPeriod - 1)
  BY DEF Types
<1>3. flight \in Seq(Workers)
  BY <1>2 DEF Scans
<1>4. CounterPeriod \in Nat \ {0} /\ counter \in Nat
  BY <1>2, PeriodAssumption
<1>5. tie \in 0..(CounterPeriod - 1)
  BY <1>4, ModFacts
<1>6. CASE flight = <<>>
  <2>1. chosen' = chosen /\ counter' = counter
    BY <1>6 DEF Choose
  <2>2. ToSet(flight) = {}
    BY <1>6 DEF ToSet
  <2> QED
    BY <1>1, <1>2, <1>6, <2>1, <2>2
<1>7. CASE flight # <<>> /\ Len(flight) = 1
  <2> DEFINE w == flight[1]
  <2>1. chosen' = [chosen EXCEPT ![h] = w] /\ counter' = counter
    BY <1>7 DEF Choose
  <2>2. DOMAIN flight = {1}
    BY <1>3, <1>7
  <2>3. ToSet(flight) = {w} /\ w \in Workers
    BY <1>3, <2>2 DEF ToSet
  <2>4. CostPerHour[w] <= CostPerHour[w]
    BY <2>3, CostAssumption
  <2> QED
    BY <1>1, <1>2, <1>7, <2>1, <2>3, <2>4
<1>8. CASE flight # <<>> /\ Len(flight) # 1
  <2> DEFINE i == (tie % Len(best)) + 1
             w == best[i]
  <2>1. counter' = tie /\ chosen' = [chosen EXCEPT ![h] = w]
    BY <1>8 DEF Choose
  <2>2. /\ best \in Seq(Workers) /\ Len(best) >= 1
        /\ \A x \in ToSet(best) :
              /\ x \in ToSet(flight)
              /\ \A v \in ToSet(flight) : CostPerHour[x] <= CostPerHour[v]
    BY <1>3, <1>8, CheapestFacts
  <2>3. Len(best) \in Nat \ {0} /\ tie \in Nat
    BY <1>5, <2>2
  <2>4. tie % Len(best) \in 0..(Len(best) - 1)
    BY <2>3, ModFacts
  <2>5. i \in 1..Len(best)
    BY <2>3, <2>4
  <2>6. w \in Workers /\ w \in ToSet(best)
    BY <2>2, <2>5, SliceFacts
  <2>7. at' = [at EXCEPT ![h] = "chosen"]
    BY <1>1, <1>8
  <2> QED
    BY <1>1, <1>5, <2>1, <2>2, <2>6, <2>7
<1> QED
  BY <1>6, <1>7, <1>8

(* The rest of pickWorker keeps the retry loop's invariant: what it picks  *)
(* is a candidate.                                                         *)
LEMMA ChooseStep ==
    ASSUME RetryInv, NEW h \in Handlers, Choose(h)
    PROVE  RetryInv'
<1>0. Types /\ InFlightAccurate /\ \A g \in Handlers : Attempting(g) /\ Scanning(g)
  BY DEF RetryInv
<1>1. /\ at[h] = "choose" /\ counter' \in 0..(CounterPeriod - 1)
      /\ scan' = [scan EXCEPT ![h] = NoScan]
      /\ inFlight' = inFlight /\ workers' = workers /\ tried' = tried
      /\ failed' = failed /\ quiet' = quiet
      /\ \/ at' = [at EXCEPT ![h] = "panicked"] /\ chosen' = chosen
         \/ \E w \in ToSet(scan[h].flight) :
               /\ w \in Workers
               /\ at' = [at EXCEPT ![h] = "chosen"]
               /\ chosen' = [chosen EXCEPT ![h] = w]
  BY <1>0, ChooseFacts
<1>2. candidates(h)' = candidates(h) /\ maxAttempts(h)' = maxAttempts(h)
  BY <1>1, FrameCandidates
<1>3. Types'
  <2>1. NoScan \in Scans
    BY DEF NoScan, Scans
  <2> QED
    BY <1>0, <1>1, <2>1 DEF Types, Places
<1>4. \A g \in Handlers : g # h => Attempting(g)' /\ Scanning(g)'
  BY <1>0, <1>1, FrameHandler DEF Types
<1>5. /\ at'[h] \in {"panicked", "chosen"}
      /\ at'[h] = "chosen" => chosen'[h] \in ToSet(scan[h].flight)
  BY <1>0, <1>1 DEF Types
<1>6. Attempting(h)'
  <2>1. at[h] \in Picking
    BY <1>1 DEF Picking, Reading
  <2>2. /\ Distinct(workers[h]) /\ tried[h] \subseteq ToSet(workers[h])
        /\ failed[h] = tried[h] /\ Cardinality(tried[h]) < maxAttempts(h)
        /\ Cardinality(tried[h]) <= maxAttempts(h)
    BY <1>0, <2>1 DEF Attempting
  <2>3. /\ Distinct(workers[h])' /\ tried'[h] \subseteq ToSet(workers[h])'
        /\ failed'[h] = tried'[h] /\ Cardinality(tried[h])' < maxAttempts(h)'
        /\ Cardinality(tried[h])' <= maxAttempts(h)'
    BY <1>1, <1>2, <2>2
  <2>4. at'[h] # "proxy" /\ at'[h] # "bad gateway"
    BY <1>5
  <2> QED
    BY <2>3, <2>4 DEF Attempting
<1>7. Scanning(h)'
  <2>1. ToSet(scan[h].flight) \subseteq ToSet(candidates(h))
    BY <1>0, <1>1 DEF Scanning, Reading
  <2>2. ToSet(candidates(h))' = ToSet(candidates(h))
    BY <1>2
  <2>3. at'[h] \notin Passes /\ at'[h] \notin Reading
    BY <1>5 DEF Reading, Passes
  <2> QED
    BY <1>5, <2>1, <2>2, <2>3 DEF Scanning
<1>8. InFlightAccurate'
  BY <1>0, <1>1, <1>5, CountSame DEF Types
<1> QED
  BY <1>3, <1>4, <1>6, <1>7, <1>8 DEF RetryInv

(* The request leaves for an untried worker: one attempt more, within the  *)
(* cap.                                                                    *)
LEMMA ForwardStep ==
    ASSUME RetryInv, NEW h \in Handlers, Forward(h)
    PROVE  /\ RetryInv'
           /\ chosen[h] \in ToSet(workers[h]) \ tried[h]
           /\ Cardinality(tried[h]) < maxAttempts(h)
<1> DEFINE w == chosen[h]
<1>0. Types /\ InFlightAccurate /\ \A g \in Handlers : Attempting(g) /\ Scanning(g)
  BY DEF RetryInv
<1>1. /\ at[h] = "chosen" /\ at' = [at EXCEPT ![h] = "proxy"]
      /\ tried' = [tried EXCEPT ![h] = @ \cup {w}]
      /\ inFlight' = [inFlight EXCEPT ![w] = @ + 1]
      /\ counter' = counter /\ workers' = workers /\ scan' = scan
      /\ chosen' = chosen /\ failed' = failed
  BY DEF Forward
<1>2. w \in ToSet(workers[h]) /\ w \notin tried[h]
  BY <1>0, <1>1, CandidateFacts DEF Scanning, Types
<1>3. workers[h] \in Seq(Workers) /\ w \in Workers
  BY <1>0, <1>2, SliceFacts DEF Types
<1>4. /\ Distinct(workers[h]) /\ tried[h] \subseteq ToSet(workers[h])
      /\ failed[h] = tried[h] /\ Cardinality(tried[h]) < maxAttempts(h)
  <2>1. at[h] \in Picking
    BY <1>1 DEF Picking
  <2> QED
    BY <1>0, <2>1 DEF Attempting
<1>5. Types'
  <2>1. quiet' \in [Handlers -> BOOLEAN]
    BY <1>0 DEF Forward, Disturb, Types
  <2>2. inFlight' \in [Workers -> Int]
    BY <1>0, <1>1, <1>3 DEF Types
  <2>3. tried' \in [Handlers -> SUBSET Workers] /\ at' \in [Handlers -> Places]
    BY <1>0, <1>1, <1>3 DEF Types, Places
  <2> QED
    BY <1>0, <1>1, <2>1, <2>2, <2>3 DEF Types
<1>6. \A g \in Handlers : g # h => Attempting(g)' /\ Scanning(g)'
  BY <1>0, <1>1, FrameHandler DEF Types
<1>7. at'[h] = "proxy" /\ tried'[h] = tried[h] \cup {w}
  BY <1>0, <1>1 DEF Types
<1>8. Cardinality(tried[h] \cup {w}) <= maxAttempts(h)
  <2> DEFINE c == Cardinality(tried[h])
             m == maxAttempts(h)
  <2>1. IsFiniteSet(tried[h]) /\ c \in Nat /\ m \in Nat /\ c < m
    BY <1>0, <1>4, AttemptFacts
  <2>2. Cardinality(tried[h] \cup {w}) = c + 1
    BY <1>2, <2>1, FS_AddElement
  <2> HIDE DEF c, m
  <2>3. c + 1 <= m
    BY <2>1
  <2> QED
    BY <2>2, <2>3 DEF m
<1>9. Attempting(h)'
  <2>1. maxAttempts(h)' = maxAttempts(h)
    BY <1>1 DEF maxAttempts
  <2>2. tried'[h] \subseteq ToSet(workers[h])' /\ Distinct(workers[h])'
    BY <1>1, <1>2, <1>4, <1>7
  <2>3. Cardinality(tried[h])' <= maxAttempts(h)'
    BY <1>7, <1>8, <2>1
  <2>4. chosen'[h] \in Workers /\ tried'[h] = failed'[h] \cup {chosen'[h]}
    BY <1>1, <1>3, <1>4, <1>7
  <2>5. at'[h] \notin Picking \cup {"start", "bad gateway"}
    BY <1>7 DEF Picking, Reading, Passes
  <2>6. at'[h] \notin Picking /\ at'[h] # "bad gateway"
    BY <1>7 DEF Picking, Reading, Passes
  <2> QED
    BY <2>2, <2>3, <2>4, <2>5, <2>6 DEF Attempting
<1>10. Scanning(h)'
  BY <1>7 DEF Scanning, Reading, Passes
<1>11. InFlightAccurate'
  BY <1>0, <1>3, CountForward
<1> QED
  BY <1>2, <1>4, <1>5, <1>6, <1>9, <1>10, <1>11 DEF RetryInv

(* proxy returns, with the response or without.                            *)
LEMMA ProxyStep ==
    ASSUME RetryInv, NEW h \in Handlers, ProxyEnds(h) \/ ProxyUnreachable(h)
    PROVE  RetryInv' /\ chosen[h] \in Workers /\ at[h] = "proxy"
<1> DEFINE w == chosen[h]
<1>0. Types /\ InFlightAccurate /\ \A g \in Handlers : Attempting(g) /\ Scanning(g)
  BY DEF RetryInv
<1>1. /\ Return(h) /\ at[h] = "proxy" /\ inFlight' = dec(w)
      /\ chosen' = [chosen EXCEPT ![h] = Nobody] /\ quiet' = Disturb(h)
      /\ counter' = counter /\ scan' = scan
  BY DEF ProxyEnds, ProxyUnreachable, Return
<1>2. /\ w \in Workers /\ tried[h] = failed[h] \cup {w} /\ Distinct(workers[h])
      /\ tried[h] \subseteq ToSet(workers[h])
      /\ Cardinality(tried[h]) <= maxAttempts(h)
  BY <1>0, <1>1 DEF Attempting
<1>3. \/ /\ at' = [at EXCEPT ![h] = "served"] \/ at' = [at EXCEPT ![h] = "interrupted"]
         /\ workers' = [workers EXCEPT ![h] = <<>>]
         /\ tried' = [tried EXCEPT ![h] = {}] /\ failed' = [failed EXCEPT ![h] = {}]
      \/ /\ at' = [at EXCEPT ![h] = "start"]
         /\ failed' = [failed EXCEPT ![h] = @ \cup {w}]
         /\ workers' = workers /\ tried' = tried
  BY DEF ProxyEnds, ProxyUnreachable
<1>4. Types'
  <2>1. quiet' \in [Handlers -> BOOLEAN]
    BY <1>0, <1>1 DEF Disturb, Types
  <2>2. inFlight' \in [Workers -> Int]
    BY <1>0, <1>1, <1>2 DEF dec, Types
  <2>3. at' \in [Handlers -> Places]
    BY <1>0, <1>3 DEF Types, Places
  <2>4. workers' \in [Handlers -> Seq(Workers)]
    <3>1. <<>> \in Seq(Workers)
      OBVIOUS
    <3> QED
      BY <1>0, <1>3, <3>1 DEF Types
  <2>5. tried' \in [Handlers -> SUBSET Workers] /\ failed' \in [Handlers -> SUBSET Workers]
    BY <1>0, <1>2, <1>3 DEF Types
  <2>6. chosen' \in [Handlers -> Workers \cup {Nobody}]
    BY <1>0, <1>1 DEF Types
  <2> QED
    BY <1>0, <1>1, <2>1, <2>2, <2>3, <2>4, <2>5, <2>6 DEF Types
<1>5. \A g \in Handlers : g # h => Attempting(g)' /\ Scanning(g)'
  BY <1>0, <1>1, <1>3, FrameHandler DEF Types
<1>6. \/ at'[h] \in {"served", "interrupted"} /\ workers'[h] = <<>>
      \/ /\ at'[h] = "start" /\ workers'[h] = workers[h] /\ tried'[h] = tried[h]
         /\ failed'[h] = failed[h] \cup {w}
  BY <1>0, <1>3 DEF Types
<1>7. Attempting(h)' /\ Scanning(h)'
  <2>1. CASE at'[h] \in {"served", "interrupted"} /\ workers'[h] = <<>>
    <3>1. Distinct(workers[h])'
      BY <2>1 DEF Distinct
    <3> QED
      BY <2>1, <3>1 DEF Attempting, Scanning, Picking, Reading, Passes
  <2>2. CASE /\ at'[h] = "start" /\ workers'[h] = workers[h] /\ tried'[h] = tried[h]
             /\ failed'[h] = failed[h] \cup {w}
    <3>1. maxAttempts(h)' = maxAttempts(h)
      BY <2>2, FrameCandidates
    <3>2. /\ Distinct(workers[h])' /\ tried'[h] \subseteq ToSet(workers[h])'
          /\ Cardinality(tried[h])' <= maxAttempts(h)' /\ failed'[h] = tried'[h]
      BY <1>2, <2>2, <3>1
    <3>3. at'[h] \notin Picking /\ at'[h] # "proxy" /\ at'[h] # "bad gateway"
      BY <2>2 DEF Picking, Reading, Passes
    <3>4. Attempting(h)'
      BY <3>2, <3>3 DEF Attempting
    <3>5. Scanning(h)'
      BY <2>2 DEF Scanning, Reading, Passes
    <3> QED
      BY <3>4, <3>5
  <2> QED
    BY <1>6, <2>1, <2>2
<1>8. InFlightAccurate'
  <2>1. PICK end \in Places \ {"proxy"} : at' = [at EXCEPT ![h] = end]
    BY <1>3 DEF Places
  <2> QED
    BY <1>0, <1>1, <1>2, <2>1, CountReturn
<1> QED
  BY <1>1, <1>2, <1>4, <1>5, <1>7, <1>8 DEF RetryInv

(* A read of either pass.                                                  *)
LEMMA ReadStep ==
    ASSUME RetryInv, NEW h \in Handlers, ReadMin(h) \/ ReadFlight(h)
    PROVE  RetryInv'
<1>0. Types /\ InFlightAccurate /\ \A g \in Handlers : Attempting(g) /\ Scanning(g)
  BY DEF RetryInv
<1>1. at[h] \in Passes /\ ToSet(scan[h].flight) \subseteq ToSet(candidates(h))
  BY <1>0 DEF ReadMin, ReadFlight, Scanning, Reading, Passes
<1>2. UNCHANGED <<inFlight, counter, workers, tried, chosen, failed, quiet>>
  BY DEF ReadMin, ReadFlight
<1>3. "flight pass" \in Reading /\ "choose" \in Reading
  BY DEF Reading, Passes
<1>4. ASSUME ReadMin(h)
      PROVE  RetryInv'
  <2>1. PICK s \in Scans : /\ s.next = scan[h].next /\ s.flight = scan[h].flight
                           /\ Advance(h, s, at[h], "flight pass")
    BY <1>4, ReadMinStep
  <2>2. ToSet(s.flight) \subseteq ToSet(candidates(h))
    BY <1>1, <2>1
  <2> QED
    BY <1>1, <1>2, <1>3, <2>1, <2>2, PassStep
<1>5. ASSUME ReadFlight(h)
      PROVE  RetryInv'
  <2>1. PICK s \in Scans :
            /\ s.next = scan[h].next
            /\ candidates(h)[s.next] \in ToSet(candidates(h))
            /\ \A v : v \in ToSet(s.flight) =>
                   v \in ToSet(scan[h].flight) \/ v = candidates(h)[s.next]
            /\ Advance(h, s, at[h], "choose")
    BY <1>5, ReadFlightStep
  <2>2. ToSet(s.flight) \subseteq ToSet(candidates(h))
    BY <1>1, <2>1
  <2> QED
    BY <1>1, <1>2, <1>3, <2>1, <2>2, PassStep
<1> QED
  BY <1>4, <1>5

(* Every step keeps the counters and the retry loop right.                 *)
LEMMA RetryStep == RetryInv /\ [Next]_vars => RetryInv'
<1> SUFFICES ASSUME RetryInv, [Next]_vars
             PROVE  RetryInv'
  OBVIOUS
<1>1. ASSUME NEW h \in Handlers, NEW snapshot \in Snapshots, Arrive(h, snapshot)
      PROVE  RetryInv'
  BY <1>1, ArriveStep
<1>2. ASSUME NEW h \in Handlers, StartAttempt(h)
      PROVE  RetryInv'
  BY <1>2, StartStep
<1>3. ASSUME NEW h \in Handlers, ReadMin(h) \/ ReadFlight(h)
      PROVE  RetryInv'
  BY <1>3, ReadStep
<1>4. ASSUME NEW h \in Handlers, Choose(h)
      PROVE  RetryInv'
  BY <1>4, ChooseStep
<1>5. ASSUME NEW h \in Handlers, Forward(h)
      PROVE  RetryInv'
  BY <1>5, ForwardStep
<1>6. ASSUME NEW h \in Handlers, ProxyEnds(h) \/ ProxyUnreachable(h)
      PROVE  RetryInv'
  BY <1>6, ProxyStep
<1>7. ASSUME UNCHANGED vars
      PROVE  RetryInv'
  <2>1. Types /\ InFlightAccurate /\ \A g \in Handlers : Attempting(g) /\ Scanning(g)
    BY DEF RetryInv
  <2>2. /\ inFlight' = inFlight /\ counter' = counter /\ at' = at
        /\ workers' = workers /\ tried' = tried /\ scan' = scan
        /\ chosen' = chosen /\ failed' = failed /\ quiet' = quiet
    BY <1>7 DEF vars
  <2>3. Types' /\ InFlightAccurate'
    BY <2>1, <2>2 DEF Types, InFlightAccurate
  <2>4. \A g \in Handlers : Attempting(g)' /\ Scanning(g)'
    BY <2>1, <2>2, FrameHandler
  <2> QED
    BY <2>3, <2>4 DEF RetryInv
<1> QED
  BY <1>1, <1>2, <1>3, <1>4, <1>5, <1>6, <1>7 DEF Next

(* "in-flight request count per worker - always accurate" (router.go:18),  *)
(* for every finite fleet, any number of handlers, and every way an        *)
(* attempt can end.                                                        *)
THEOREM CountersStayAccurate == Spec => []InFlightAccurate
<1>1. Init => RetryInv
  BY RetryInit
<1>2. RetryInv /\ [Next]_vars => RetryInv'
  BY RetryStep
<1>3. RetryInv => InFlightAccurate
  BY DEF RetryInv
<1> QED
  BY <1>1, <1>2, <1>3, PTL DEF Spec

(* "The client never sees a 502 unless all retry attempts fail"            *)
(* (router.go:20-24): behind every 502 there are min(len(workers),         *)
(* maxRetries) different workers, each of which failed.                    *)
THEOREM BadGatewayAlwaysEarned == Spec => []BadGatewayIsEarned
<1>1. Init => RetryInv
  BY RetryInit
<1>2. RetryInv /\ [Next]_vars => RetryInv'
  BY RetryStep
<1>3. \A a, b \in Nat : a <= b /\ a >= b => a = b
  OBVIOUS
<1>4. RetryInv => BadGatewayIsEarned
  <2> SUFFICES ASSUME RetryInv, NEW h \in Handlers, at[h] = "bad gateway"
               PROVE  Cardinality(failed[h]) = maxAttempts(h) /\ failed[h] = tried[h]
    BY DEF BadGatewayIsEarned
  <2> DEFINE c == Cardinality(tried[h])
             m == maxAttempts(h)
  <2>1. Types /\ Attempting(h)
    BY DEF RetryInv
  <2>2. failed[h] = tried[h] /\ Distinct(workers[h])
    BY <2>1 DEF Attempting
  <2>3. c <= m /\ c >= m
    BY <2>1 DEF Attempting
  <2>4. c \in Nat /\ m \in Nat
    BY <2>1, <2>2, AttemptFacts
  <2> HIDE DEF c, m
  <2>5. c = m
    BY <1>3, <2>3, <2>4, Zenon
  <2> QED
    BY <2>2, <2>5 DEF c, m
<1> QED
  BY <1>1, <1>2, <1>4, PTL DEF Spec

-----------------------------------------------------------------------------
(* One more read keeps the least counter right.                            *)
LEMMA LeastStep ==
    ASSUME NEW c \in Seq(Workers), NEW f \in [Workers -> Int], NEW k \in 1..Len(c),
           NEW m \in Int, k > 1 => LeastOf(m, c, f, k - 1)
    PROVE  LeastOf(IF k = 1 \/ f[c[k]] < m THEN f[c[k]] ELSE m, c, f, k)
<1> DEFINE x == IF k = 1 \/ f[c[k]] < m THEN f[c[k]] ELSE m
<1>1. k \in Nat /\ k >= 1 /\ \A i \in 1..k : c[i] \in Workers /\ f[c[i]] \in Int
  OBVIOUS
<1>2. CASE k = 1
  <2>1. x = f[c[1]] /\ 1..k = {1}
    BY <1>1, <1>2
  <2> QED
    BY <1>1, <1>2, <2>1 DEF LeastOf
<1>3. CASE k # 1
  <2>1. /\ \A i \in 1..(k - 1) : m <= f[c[i]]
        /\ \E i \in 1..(k - 1) : m = f[c[i]]
    BY <1>1, <1>3 DEF LeastOf
  <2>2. \A i \in 1..k : i \in 1..(k - 1) \/ i = k
    BY <1>1
  <2>3. \A i \in 1..k : x <= f[c[i]]
    BY <1>1, <1>3, <2>1, <2>2
  <2>4. \E i \in 1..k : x = f[c[i]]
    <3>1. CASE f[c[k]] < m
      BY <1>1, <1>3, <3>1
    <3>2. CASE ~(f[c[k]] < m)
      <4>1. PICK i \in 1..(k - 1) : m = f[c[i]]
        BY <2>1
      <4>2. i \in 1..k
        BY <1>1
      <4> QED
        BY <1>3, <3>2, <4>1, <4>2
    <3> QED
      BY <3>1, <3>2
  <2> QED
    BY <2>3, <2>4 DEF LeastOf
<1> QED
  BY <1>2, <1>3

(* One more read keeps the slice of least loaded workers right.            *)
LEMMA LevelStep ==
    ASSUME NEW c \in Seq(Workers), NEW f, NEW k \in 1..Len(c), NEW m, NEW S, NEW T,
           LevelOf(S, m, c, f, k - 1),
           \A v : v \in T <=> v \in S \/ (v = c[k] /\ f[c[k]] = m)
    PROVE  LevelOf(T, m, c, f, k)
<1>1. \A i : i \in 1..k <=> i \in 1..(k - 1) \/ i = k
  OBVIOUS
<1>2. \A w \in Workers : w \in S <=> f[w] = m /\ \E i \in 1..(k - 1) : c[i] = w
  BY DEF LevelOf
<1>3. ASSUME NEW w \in Workers
      PROVE  w \in T <=> f[w] = m /\ \E i \in 1..k : c[i] = w
  <2>1. (\E i \in 1..k : c[i] = w) <=> (\E i \in 1..(k - 1) : c[i] = w) \/ c[k] = w
    BY <1>1
  <2>2. w \in T <=> w \in S \/ (w = c[k] /\ f[w] = m)
    OBVIOUS
  <2> QED
    BY <1>2, <2>1, <2>2
<1> QED
  BY <1>3 DEF LevelOf

(* Nobody else's step disturbs a pick, unless a counter moves.             *)
LEMMA FrameQuiet ==
    ASSUME NEW g \in Handlers, Undisturbed(g),
           at'[g] = at[g], workers'[g] = workers[g], tried'[g] = tried[g],
           scan'[g] = scan[g], chosen'[g] = chosen[g],
           quiet'[g] => quiet[g],
           quiet'[g] /\ at[g] \in Picking => inFlight' = inFlight
    PROVE  Undisturbed(g)'
<1>1. candidates(g)' = candidates(g)
  BY FrameCandidates
<1>2. CASE ~quiet'[g]
  BY <1>2 DEF Undisturbed
<1>3. CASE quiet'[g] /\ at[g] \notin Picking
  <2>1. at'[g] \notin {"min pass", "flight pass", "choose", "chosen"}
    BY <1>3 DEF Picking, Reading, Passes
  <2>2. at[g] # "panicked"
    BY <1>3 DEF Undisturbed
  <2> QED
    BY <2>1, <2>2 DEF Undisturbed
<1>4. CASE quiet'[g] /\ at[g] \in Picking
  <2>1. inFlight' = inFlight /\ quiet[g]
    BY <1>4
  <2>2. Best(g)' = Best(g)
    BY <1>1, <2>1 DEF Best
  <2> QED
    BY <1>1, <2>1, <2>2 DEF Undisturbed
<1> QED
  BY <1>2, <1>3, <1>4

(* An empty slice is the level of a pass that has read nothing.            *)
LEMMA LevelInit ==
    ASSUME NEW m, NEW c, NEW f, NEW S, S = {}
    PROVE  LevelOf(S, m, c, f, 1 - 1)
<1>1. 1..(1 - 1) = {}
  OBVIOUS
<1> QED
  BY <1>1, Zenon DEF LevelOf

(* The first pass knows the least counter of what it has read.             *)
LEMMA QuietReadMin ==
    ASSUME PickInv, NEW h \in Handlers, ReadMin(h)
    PROVE  Undisturbed(h)'
<1> DEFINE c == candidates(h)
           n == Len(c)
           k == scan[h].next
<1>0. RetryInv /\ Types /\ Scanning(h) /\ Undisturbed(h)
  BY DEF PickInv, RetryInv
<1>1. /\ at[h] = "min pass" /\ at[h] \in Passes /\ quiet' = quiet /\ inFlight' = inFlight
      /\ UNCHANGED <<inFlight, counter, workers, tried, chosen, failed, quiet>>
  BY DEF ReadMin, Passes
<1>2. PICK s \in Scans :
          /\ s.next = k /\ s.flight = scan[h].flight
          /\ s.minFlight = IF k = 1 \/ inFlight[c[k]] < scan[h].minFlight
                           THEN inFlight[c[k]] ELSE scan[h].minFlight
          /\ Advance(h, s, at[h], "flight pass")
  BY <1>0, ReadMinStep
<1>3. ToSet(s.flight) \subseteq ToSet(c)
  BY <1>0, <1>1, <1>2 DEF Scanning, Reading
<1>4. "flight pass" \in Reading
  BY DEF Reading, Passes
<1>5. /\ c' = c /\ n \in Nat /\ k \in 1..n
      /\ scan'[h].minFlight = s.minFlight /\ scan'[h].flight = s.flight
      /\ \/ k = n /\ scan'[h].next = 1 /\ at'[h] = "flight pass"
         \/ k < n /\ scan'[h].next = k + 1 /\ at'[h] = at[h]
  BY <1>0, <1>1, <1>2, <1>3, <1>4, PassStep
<1> SUFFICES ASSUME quiet'[h]
             PROVE  Undisturbed(h)'
  BY DEF Undisturbed
<1>6. /\ ToSet(scan[h].flight) = {}
      /\ k > 1 => LeastOf(scan[h].minFlight, c, inFlight, k - 1)
  BY <1>0, <1>1 DEF Undisturbed
<1>7. /\ c \in Seq(Workers) /\ inFlight \in [Workers -> Int]
      /\ scan[h].minFlight \in Int
  BY <1>0, CandidateFacts DEF Types, Scans
<1>8. LeastOf(s.minFlight, c, inFlight, k)
  BY <1>2, <1>5, <1>6, <1>7, LeastStep
<1>9. ToSet(scan[h].flight)' = {}
  BY <1>2, <1>5, <1>6
<1>10. CASE k = n /\ scan'[h].next = 1 /\ at'[h] = "flight pass"
  <2>1. LeastOf(scan[h].minFlight, c, inFlight, n)'
    BY <1>1, <1>5, <1>8, <1>10
  <2>2. LevelOf(ToSet(scan[h].flight), scan[h].minFlight, c, inFlight, 1 - 1)'
    BY <1>9, LevelInit
  <2> HIDE DEF c, n, k
  <2> QED
    BY <1>10, <2>1, <2>2 DEF Undisturbed, c, n
<1>11. CASE k < n /\ scan'[h].next = k + 1 /\ at'[h] = at[h]
  <2>0. k \in Nat /\ scan'[h].next = k + 1
    <3>1. k \in 1..n /\ n \in Nat
      BY <1>5
    <3>2. scan'[h].next = k + 1
      BY <1>11
    <3> HIDE DEF k, n
    <3> QED
      BY <3>1, <3>2
  <2>1. scan'[h].next - 1 = k
    <3> HIDE DEF k
    <3> QED
      BY <2>0
  <2>2. LeastOf(scan[h].minFlight, c, inFlight, scan[h].next - 1)'
    BY <1>1, <1>5, <1>8, <2>1
  <2>3. at'[h] = "min pass"
    BY <1>1, <1>11
  <2> HIDE DEF k
  <2> QED
    BY <1>9, <2>2, <2>3 DEF Undisturbed
<1> QED
  BY <1>5, <1>10, <1>11

(* The second pass knows which of what it has read is least loaded.        *)
LEMMA QuietReadFlight ==
    ASSUME PickInv, NEW h \in Handlers, ReadFlight(h)
    PROVE  Undisturbed(h)'
<1> DEFINE c == candidates(h)
           n == Len(c)
           k == scan[h].next
           m == scan[h].minFlight
<1>0. RetryInv /\ Types /\ Scanning(h) /\ Undisturbed(h)
  BY DEF PickInv, RetryInv
<1>1. /\ at[h] = "flight pass" /\ at[h] \in Passes /\ quiet' = quiet /\ inFlight' = inFlight
      /\ UNCHANGED <<inFlight, counter, workers, tried, chosen, failed, quiet>>
  BY DEF ReadFlight, Passes
<1>2. PICK s \in Scans :
          /\ s.next = k /\ s.minFlight = m
          /\ c[k] \in ToSet(c)
          /\ \A v : v \in ToSet(s.flight) <=>
                 v \in ToSet(scan[h].flight) \/ (v = c[k] /\ inFlight[c[k]] = m)
          /\ Advance(h, s, at[h], "choose")
  BY <1>0, ReadFlightStep
<1>3. ToSet(s.flight) \subseteq ToSet(c)
  BY <1>0, <1>1, <1>2 DEF Scanning, Reading
<1>4. "choose" \in Reading
  BY DEF Reading
<1>5. /\ c' = c /\ n \in Nat /\ k \in 1..n
      /\ scan'[h].minFlight = s.minFlight /\ scan'[h].flight = s.flight
      /\ \/ k = n /\ scan'[h].next = 1 /\ at'[h] = "choose"
         \/ k < n /\ scan'[h].next = k + 1 /\ at'[h] = at[h]
  BY <1>0, <1>1, <1>2, <1>3, <1>4, PassStep
<1> SUFFICES ASSUME quiet'[h]
             PROVE  Undisturbed(h)'
  BY DEF Undisturbed
<1>6. /\ LeastOf(m, c, inFlight, n)
      /\ LevelOf(ToSet(scan[h].flight), m, c, inFlight, k - 1)
  BY <1>0, <1>1 DEF Undisturbed
<1>7. c \in Seq(Workers)
  BY <1>0, CandidateFacts DEF Types
<1>8. LevelOf(ToSet(s.flight), m, c, inFlight, k)
  <2> DEFINE S == ToSet(scan[h].flight)
             T == ToSet(s.flight)
  <2>1. \A v : v \in T <=> v \in S \/ (v = c[k] /\ inFlight[c[k]] = m)
    BY <1>2
  <2>2. LevelOf(S, m, c, inFlight, k - 1) /\ k \in 1..Len(c)
    BY <1>5, <1>6
  <2> HIDE DEF S, T, m, c, k
  <2>3. LevelOf(T, m, c, inFlight, k)
    BY <1>7, <2>1, <2>2, LevelStep
  <2> QED
    BY <2>3 DEF T
<1>9. LeastOf(scan[h].minFlight, c, inFlight, n)'
  BY <1>1, <1>2, <1>5, <1>6
<1>10. CASE k = n /\ scan'[h].next = 1 /\ at'[h] = "choose"
  <2>1. LevelOf(ToSet(scan[h].flight), scan[h].minFlight, c, inFlight, n)'
    BY <1>1, <1>2, <1>5, <1>8, <1>10
  <2> HIDE DEF c, n, k, m
  <2> QED
    BY <1>9, <1>10, <2>1 DEF Undisturbed, c, n
<1>11. CASE k < n /\ scan'[h].next = k + 1 /\ at'[h] = at[h]
  <2>0. k \in Nat /\ scan'[h].next = k + 1
    <3>1. k \in 1..n /\ n \in Nat
      BY <1>5
    <3>2. scan'[h].next = k + 1
      BY <1>11
    <3> HIDE DEF k, n
    <3> QED
      BY <3>1, <3>2
  <2>1. scan'[h].next - 1 = k
    <3> HIDE DEF k
    <3> QED
      BY <2>0
  <2>2. LevelOf(ToSet(scan[h].flight), scan[h].minFlight, c, inFlight, scan[h].next - 1)'
    BY <1>1, <1>2, <1>5, <1>8, <2>1
  <2>3. at'[h] = "flight pass"
    BY <1>1, <1>11
  <2> HIDE DEF c, n, k, m
  <2> QED
    BY <1>9, <2>2, <2>3 DEF Undisturbed, c, n
<1> QED
  BY <1>5, <1>10, <1>11

(* An undisturbed pick has a least loaded worker to choose from, and takes *)
(* a cheapest of those.                                                    *)
LEMMA QuietChoose ==
    ASSUME PickInv, NEW h \in Handlers, Choose(h)
    PROVE  Undisturbed(h)'
<1> DEFINE c == candidates(h)
           n == Len(c)
           m == scan[h].minFlight
           F == ToSet(scan[h].flight)
           all == ToSet(c)
           least == {w \in all : \A v \in all : inFlight[w] <= inFlight[v]}
<1>0. RetryInv /\ Types /\ Scanning(h) /\ Undisturbed(h)
  BY DEF PickInv, RetryInv
<1>1. /\ at[h] = "choose" /\ quiet' = quiet /\ inFlight' = inFlight
      /\ workers' = workers /\ tried' = tried
      /\ \/ F = {}
         \/ \E w \in F :
               /\ \A v \in F : CostPerHour[w] <= CostPerHour[v]
               /\ at' = [at EXCEPT ![h] = "chosen"]
               /\ chosen' = [chosen EXCEPT ![h] = w]
  BY <1>0, ChooseFacts
<1> SUFFICES ASSUME quiet'[h]
             PROVE  Undisturbed(h)'
  BY DEF Undisturbed
<1>2. /\ LeastOf(m, c, inFlight, n) /\ LevelOf(F, m, c, inFlight, n)
  BY <1>0, <1>1 DEF Undisturbed
<1>3. /\ c \in Seq(Workers) /\ inFlight \in [Workers -> Int] /\ n \in Nat
      /\ DOMAIN c = 1..n
  BY <1>0, CandidateFacts, SliceFacts DEF Types
<1>4. F \subseteq all
  BY <1>0, <1>1 DEF Scanning, Reading
<1>5. all = {c[i] : i \in 1..n} /\ all \subseteq Workers
  BY <1>3 DEF ToSet
<1>6. \A w \in Workers : w \in F <=> inFlight[w] = m /\ \E i \in 1..n : c[i] = w
  BY <1>2 DEF LevelOf
<1>7. PICK i \in 1..n : m = inFlight[c[i]]
  BY <1>2 DEF LeastOf
<1>8. \A j \in 1..n : m <= inFlight[c[j]]
  BY <1>2 DEF LeastOf
<1>9. c[i] \in F
  BY <1>5, <1>6, <1>7
<1> HIDE DEF c, n, m, F, all
<1>10. \A w \in all : m <= inFlight[w] /\ inFlight[w] \in Int
  BY <1>3, <1>5, <1>8
<1>11. m \in Int
  BY <1>3, <1>5, <1>7
<1>12. F = least
  <2>1. ASSUME NEW w \in F
        PROVE  w \in least
    BY <1>4, <1>5, <1>6, <1>10, <2>1
  <2>2. ASSUME NEW w \in least
        PROVE  w \in F
    <3>1. w \in all /\ w \in Workers /\ inFlight[w] <= m
      BY <1>4, <1>5, <1>7, <1>9, <2>2
    <3>2. inFlight[w] = m
      BY <1>10, <1>11, <3>1
    <3> QED
      BY <1>5, <1>6, <3>1, <3>2
  <2> QED
    BY <2>1, <2>2
<1> HIDE DEF least
<1>13. PICK w \in F : /\ \A v \in F : CostPerHour[w] <= CostPerHour[v]
                      /\ at' = [at EXCEPT ![h] = "chosen"]
                      /\ chosen' = [chosen EXCEPT ![h] = w]
  BY <1>1, <1>9
<1>14. at'[h] = "chosen" /\ chosen'[h] = w
  BY <1>0, <1>13 DEF Types
<1>15. c' = c
  BY <1>1, FrameCandidates DEF c
<1>16. w \in Best(h)
  BY <1>12, <1>13 DEF Best, least, all, c
<1>17. Best(h)' = Best(h)
  BY <1>1, <1>15 DEF Best, c
<1> QED
  BY <1>14, <1>16, <1>17 DEF Undisturbed

(* A single candidate is the best one; otherwise the passes begin.         *)
LEMMA QuietStart ==
    ASSUME PickInv, NEW h \in Handlers, StartAttempt(h)
    PROVE  Undisturbed(h)'
<1> DEFINE c == candidates(h)
<1>0. Types /\ Undisturbed(h)
  BY DEF PickInv, RetryInv
<1>1. /\ at[h] = "start" /\ scan' = [scan EXCEPT ![h] = NoScan]
      /\ inFlight' = inFlight /\ workers' = workers /\ tried' = tried
      /\ \/ at' = [at EXCEPT ![h] = "bad gateway"]
         \/ /\ Len(c) = 1 /\ at' = [at EXCEPT ![h] = "chosen"]
            /\ chosen' = [chosen EXCEPT ![h] = c[1]]
         \/ at' = [at EXCEPT ![h] = "min pass"]
  BY DEF StartAttempt
<1>2. c' = c /\ scan'[h] = NoScan
  BY <1>0, <1>1, FrameCandidates DEF Types
<1>3. CASE at' = [at EXCEPT ![h] = "bad gateway"]
  <2>1. at'[h] = "bad gateway"
    BY <1>0, <1>3 DEF Types
  <2> QED
    BY <2>1 DEF Undisturbed
<1>4. CASE at' = [at EXCEPT ![h] = "min pass"]
  <2>1. at'[h] = "min pass"
    BY <1>0, <1>4 DEF Types
  <2>2. ToSet(scan[h].flight)' = {} /\ ~(scan'[h].next > 1)
    BY <1>2 DEF NoScan, ToSet
  <2> QED
    BY <2>1, <2>2 DEF Undisturbed
<1>5. CASE /\ Len(c) = 1 /\ at' = [at EXCEPT ![h] = "chosen"]
           /\ chosen' = [chosen EXCEPT ![h] = c[1]]
  <2>1. at'[h] = "chosen" /\ chosen'[h] = c[1]
    BY <1>0, <1>5 DEF Types
  <2>2. c \in Seq(Workers) /\ inFlight \in [Workers -> Int]
    BY <1>0, CandidateFacts DEF Types
  <2> DEFINE w == c[1]
  <2>3. ToSet(c) = {w} /\ w \in Workers
    <3> HIDE DEF c
    <3>1. DOMAIN c = {1}
      BY <1>5, <2>2
    <3>2. ToSet(c) = {c[1]}
      BY <3>1 DEF ToSet
    <3>3. ToSet(c) \subseteq Workers
      BY <2>2, SliceFacts
    <3> QED
      BY <3>2, <3>3
  <2>4. inFlight[w] <= inFlight[w] /\ CostPerHour[w] <= CostPerHour[w]
    BY <2>2, <2>3, CostAssumption
  <2>5. w \in Best(h)
    BY <2>3, <2>4 DEF Best
  <2>6. Best(h)' = Best(h)
    BY <1>1, <1>2 DEF Best
  <2> QED
    BY <2>1, <2>5, <2>6 DEF Undisturbed
<1> QED
  BY <1>1, <1>3, <1>4, <1>5

(* What a moving counter does to the picks under way.                      *)
LEMMA DisturbFacts ==
    ASSUME Types, NEW h \in Handlers, NEW g \in Handlers, g # h
    PROVE  /\ at[g] \in Picking => ~Disturb(h)[g]
           /\ Disturb(h)[g] => quiet[g]
  BY DEF Types, Disturb, Picking, Reading, Passes

(* Every step keeps an undisturbed pick on its way to a best worker.       *)
LEMMA PickStep == PickInv /\ [Next]_vars => PickInv'
<1> SUFFICES ASSUME PickInv, [Next]_vars
             PROVE  \A h \in Handlers : Undisturbed(h)'
  BY RetryStep DEF PickInv
<1>0. RetryInv /\ Types /\ \A h \in Handlers : Undisturbed(h)
  BY DEF PickInv, RetryInv
<1>1. ASSUME NEW h \in Handlers, NEW snapshot \in Snapshots, Arrive(h, snapshot)
      PROVE  \A g \in Handlers : Undisturbed(g)'
  <2>1. at'[h] \in {"no workers", "start"}
    BY <1>0, <1>1 DEF Arrive, Types
  <2>2. Undisturbed(h)'
    BY <2>1 DEF Undisturbed
  <2>3. ASSUME NEW g \in Handlers, g # h
        PROVE  Undisturbed(g)'
    BY <1>0, <1>1, <2>3, FrameQuiet DEF Arrive, Types
  <2> QED
    BY <2>2, <2>3
<1>2. ASSUME NEW h \in Handlers, StartAttempt(h)
      PROVE  \A g \in Handlers : Undisturbed(g)'
  <2>1. ASSUME NEW g \in Handlers, g # h
        PROVE  Undisturbed(g)'
    <3>1. /\ at'[g] = at[g] /\ workers' = workers /\ tried' = tried
          /\ scan'[g] = scan[g] /\ quiet'[g] = quiet[g] /\ inFlight' = inFlight
      BY <1>0, <1>2, <2>1 DEF StartAttempt, Types
    <3>2. chosen'[g] = chosen[g]
      BY <1>0, <1>2, <2>1 DEF StartAttempt, Types
    <3> QED
      BY <1>0, <3>1, <3>2, FrameQuiet
  <2> QED
    BY <1>2, <2>1, QuietStart
<1>3. ASSUME NEW h \in Handlers, ReadMin(h) \/ ReadFlight(h)
      PROVE  \A g \in Handlers : Undisturbed(g)'
  <2>1. ASSUME NEW g \in Handlers, g # h
        PROVE  Undisturbed(g)'
    <3>1. /\ UNCHANGED <<inFlight, counter, workers, tried, chosen, failed, quiet>>
          /\ at'[g] = at[g] /\ scan'[g] = scan[g]
      BY <1>0, <1>3, <2>1 DEF ReadMin, ReadFlight, Advance, Types
    <3> QED
      BY <1>0, <3>1, FrameQuiet
  <2> QED
    BY <1>3, <2>1, QuietReadMin, QuietReadFlight
<1>4. ASSUME NEW h \in Handlers, Choose(h)
      PROVE  \A g \in Handlers : Undisturbed(g)'
  <2>1. ASSUME NEW g \in Handlers, g # h
        PROVE  Undisturbed(g)'
    <3>1. /\ UNCHANGED <<inFlight, workers, tried, failed, quiet>>
          /\ at'[g] = at[g] /\ scan'[g] = scan[g] /\ chosen'[g] = chosen[g]
      <4>1. /\ UNCHANGED <<inFlight, workers, tried, failed, quiet>>
            /\ scan' = [scan EXCEPT ![h] = NoScan]
            /\ \/ at' = [at EXCEPT ![h] = "panicked"] /\ chosen' = chosen
               \/ \E w : /\ at' = [at EXCEPT ![h] = "chosen"]
                         /\ chosen' = [chosen EXCEPT ![h] = w]
        BY <1>0, <1>4, ChooseFacts, Zenon
      <4> QED
        BY <1>0, <2>1, <4>1 DEF Types
    <3> QED
      BY <1>0, <3>1, FrameQuiet
  <2> QED
    BY <1>4, <2>1, QuietChoose
<1>5. ASSUME NEW h \in Handlers, Forward(h)
      PROVE  \A g \in Handlers : Undisturbed(g)'
  <2>1. at'[h] = "proxy"
    BY <1>0, <1>5 DEF Forward, Types
  <2>2. Undisturbed(h)'
    BY <2>1 DEF Undisturbed
  <2>3. ASSUME NEW g \in Handlers, g # h
        PROVE  Undisturbed(g)'
    <3>1. /\ at'[g] = at[g] /\ workers' = workers /\ tried'[g] = tried[g]
          /\ scan' = scan /\ chosen' = chosen
      BY <1>0, <1>5, <2>3 DEF Forward, Types
    <3>2. quiet'[g] = Disturb(h)[g]
      BY <1>5, <2>3 DEF Forward, Disturb
    <3> QED
      BY <1>0, <2>3, <3>1, <3>2, DisturbFacts, FrameQuiet
  <2> QED
    BY <2>2, <2>3
<1>6. ASSUME NEW h \in Handlers, ProxyEnds(h) \/ ProxyUnreachable(h)
      PROVE  \A g \in Handlers : Undisturbed(g)'
  <2>1. at'[h] \in {"served", "interrupted", "start"}
    BY <1>0, <1>6 DEF ProxyEnds, ProxyUnreachable, Types
  <2>2. Undisturbed(h)'
    BY <2>1 DEF Undisturbed
  <2>3. ASSUME NEW g \in Handlers, g # h
        PROVE  Undisturbed(g)'
    <3>1. /\ at'[g] = at[g] /\ workers'[g] = workers[g] /\ tried'[g] = tried[g]
          /\ scan' = scan /\ chosen'[g] = chosen[g]
      BY <1>0, <1>6, <2>3 DEF ProxyEnds, ProxyUnreachable, Return, Types
    <3>2. quiet' = Disturb(h)
      BY <1>6 DEF ProxyEnds, ProxyUnreachable, Return
    <3> QED
      BY <1>0, <2>3, <3>1, <3>2, DisturbFacts, FrameQuiet
  <2> QED
    BY <2>2, <2>3
<1>7. ASSUME UNCHANGED vars
      PROVE  \A g \in Handlers : Undisturbed(g)'
  BY <1>0, <1>7, FrameQuiet DEF vars
<1> QED
  BY <1>1, <1>2, <1>3, <1>4, <1>5, <1>6, <1>7 DEF Next

(* A pick during which no counter moved finds a least loaded worker and a  *)
(* cheapest of those, and never panics (pickWorker, router.go:157-209),    *)
(* whatever the fleet, the prices and the round-robin counter.             *)
THEOREM QuietPickAlwaysBest == Spec => []QuietPickIsBest
<1>1. Init => PickInv
  <2> SUFFICES ASSUME Init
               PROVE  PickInv
    OBVIOUS
  <2>1. \A h \in Handlers : at[h] = "idle"
    BY DEF Init
  <2>2. \A h \in Handlers : Undisturbed(h)
    BY <2>1 DEF Undisturbed
  <2> QED
    BY <2>2, RetryInit DEF PickInv
<1>2. PickInv /\ [Next]_vars => PickInv'
  BY PickStep
<1>3. PickInv => QuietPickIsBest
  BY DEF PickInv, Undisturbed, QuietPickIsBest
<1> QED
  BY <1>1, <1>2, <1>3, PTL DEF Spec

-----------------------------------------------------------------------------
(* Every step keeps pickWorker's local variables in their bounds.          *)
LEMMA SizeStep == SizeInv /\ [Next]_vars => SizeInv'
<1> SUFFICES ASSUME SizeInv, [Next]_vars
             PROVE  \A h \in Handlers : Bounded(h)'
  BY RetryStep DEF SizeInv
<1> DEFINE N == Cardinality(Handlers)
<1>0. RetryInv /\ Types /\ InFlightAccurate /\ \A h \in Handlers : Bounded(h) /\ Scanning(h)
  BY DEF SizeInv, RetryInv
<1>1. N \in Nat
  BY FleetAssumption, FS_CardinalityType
<1> HIDE DEF N
<1>2. ASSUME NEW g \in Handlers, at'[g] = at[g], scan'[g] = scan[g]
      PROVE  Bounded(g)'
  BY <1>0, <1>2 DEF Bounded
<1>3. ASSUME NEW g \in Handlers, scan'[g] = NoScan
      PROVE  Bounded(g)'
  <2>1. scan'[g].minFlight = 0 /\ scan'[g].next = 1
    BY <1>3 DEF NoScan
  <2> QED
    BY <1>1, <2>1 DEF Bounded, N
<1>4. ASSUME NEW g \in Handlers, scan'[g] = scan[g], at[g] \notin Passes
      PROVE  Bounded(g)'
  BY <1>0, <1>4 DEF Bounded
<1>5. ASSUME NEW h \in Handlers, NEW snapshot \in Snapshots, Arrive(h, snapshot)
      PROVE  \A g \in Handlers : Bounded(g)'
  <2>1. scan'[h] = NoScan
    BY <1>0, <1>5 DEF Arrive, Types
  <2>2. \A g \in Handlers : g # h => at'[g] = at[g] /\ scan'[g] = scan[g]
    BY <1>0, <1>5 DEF Arrive, Types
  <2> QED
    BY <1>2, <1>3, <2>1, <2>2
<1>6. ASSUME NEW h \in Handlers, StartAttempt(h)
      PROVE  \A g \in Handlers : Bounded(g)'
  <2>1. scan'[h] = NoScan
    BY <1>0, <1>6 DEF StartAttempt, Types
  <2>2. \A g \in Handlers : g # h => at'[g] = at[g] /\ scan'[g] = scan[g]
    BY <1>0, <1>6 DEF StartAttempt, Types
  <2> QED
    BY <1>2, <1>3, <2>1, <2>2
<1>7. ASSUME NEW h \in Handlers, Choose(h)
      PROVE  \A g \in Handlers : Bounded(g)'
  <2>1. scan'[h] = NoScan
    BY <1>0, <1>7 DEF Choose, Types
  <2>2. \A g \in Handlers : g # h => at'[g] = at[g] /\ scan'[g] = scan[g]
    BY <1>0, <1>7 DEF Choose, Types
  <2> QED
    BY <1>2, <1>3, <2>1, <2>2
<1>8. ASSUME NEW h \in Handlers, Forward(h) \/ ProxyEnds(h) \/ ProxyUnreachable(h)
      PROVE  \A g \in Handlers : Bounded(g)'
  <2>1. scan' = scan /\ at[h] \in {"chosen", "proxy"}
    BY <1>8 DEF Forward, ProxyEnds, ProxyUnreachable, Return
  <2>2. at[h] \notin Passes
    BY <2>1 DEF Passes
  <2>3. \A g \in Handlers : g # h => at'[g] = at[g]
    BY <1>0, <1>8 DEF Forward, ProxyEnds, ProxyUnreachable, Types
  <2> QED
    BY <1>2, <1>4, <2>1, <2>2, <2>3
<1>9. ASSUME NEW h \in Handlers, at[h] \in Passes, NEW s \in Scans, s.minFlight <= N,
             s.next = scan[h].next, ToSet(s.flight) \subseteq ToSet(candidates(h)),
             NEW after \in Reading, after # at[h], after # "min pass",
             at[h] = "flight pass" => after = "choose",
             Advance(h, s, at[h], after),
             UNCHANGED <<inFlight, counter, workers, tried, chosen, failed, quiet>>
      PROVE  \A g \in Handlers : Bounded(g)'
  <2>1. /\ scan'[h].minFlight = s.minFlight
        /\ \/ scan'[h].next = 1
           \/ at'[h] = at[h]
    BY <1>0, <1>9, PassStep
  <2>2. Bounded(h)'
    BY <1>9, <2>1 DEF Bounded, N
  <2>3. \A g \in Handlers : g # h => at'[g] = at[g] /\ scan'[g] = scan[g]
    BY <1>0, <1>9 DEF Advance, Types
  <2> QED
    BY <1>2, <2>2, <2>3
<1>10. ASSUME NEW h \in Handlers, ReadMin(h)
       PROVE  \A g \in Handlers : Bounded(g)'
  <2> DEFINE w == candidates(h)[scan[h].next]
  <2>1. /\ at[h] = "min pass" /\ at[h] \in Passes /\ "flight pass" \in Reading
        /\ UNCHANGED <<inFlight, counter, workers, tried, chosen, failed, quiet>>
    BY <1>10 DEF ReadMin, Reading, Passes
  <2>2. PICK s \in Scans :
            /\ s.next = scan[h].next /\ s.flight = scan[h].flight
            /\ s.minFlight = IF scan[h].next = 1 \/ inFlight[w] < scan[h].minFlight
                             THEN inFlight[w] ELSE scan[h].minFlight
            /\ Advance(h, s, at[h], "flight pass")
    BY <1>0, <1>10, ReadMinStep
  <2>3. /\ ToSet(s.flight) \subseteq ToSet(candidates(h))
        /\ scan[h].next \in 1..Len(candidates(h))
    BY <1>0, <2>1, <2>2 DEF Scanning, Reading
  <2>4. w \in Workers
    <3>1. candidates(h) \in Seq(Workers)
      BY <1>0, CandidateFacts DEF Types
    <3> QED
      BY <2>3, <3>1
  <2>5. inFlight[w] <= N /\ scan[h].minFlight <= N
    BY <1>0, <2>4, CounterBounds DEF Bounded, N
  <2>6. s.minFlight <= N
    BY <2>2, <2>5
  <2> QED
    BY <1>9, <1>10, <2>1, <2>2, <2>3, <2>6
<1>11. ASSUME NEW h \in Handlers, ReadFlight(h)
       PROVE  \A g \in Handlers : Bounded(g)'
  <2>1. /\ at[h] = "flight pass" /\ at[h] \in Passes /\ "choose" \in Reading
        /\ UNCHANGED <<inFlight, counter, workers, tried, chosen, failed, quiet>>
    BY <1>11 DEF ReadFlight, Reading, Passes
  <2>2. PICK s \in Scans :
            /\ s.next = scan[h].next /\ s.minFlight = scan[h].minFlight
            /\ candidates(h)[s.next] \in ToSet(candidates(h))
            /\ \A v : v \in ToSet(s.flight) =>
                   v \in ToSet(scan[h].flight) \/ v = candidates(h)[s.next]
            /\ Advance(h, s, at[h], "choose")
    BY <1>0, <1>11, ReadFlightStep
  <2>3. ToSet(scan[h].flight) \subseteq ToSet(candidates(h))
    BY <1>0, <2>1 DEF Scanning, Reading
  <2>4. ToSet(s.flight) \subseteq ToSet(candidates(h))
    BY <2>2, <2>3
  <2>5. s.minFlight <= N
    BY <1>0, <2>2 DEF Bounded, N
  <2> QED
    BY <1>9, <1>11, <2>1, <2>2, <2>4, <2>5
<1>12. ASSUME UNCHANGED vars
       PROVE  \A g \in Handlers : Bounded(g)'
  BY <1>2, <1>12 DEF vars
<1> QED
  BY <1>5, <1>6, <1>7, <1>8, <1>10, <1>11, <1>12 DEF Next

(* The counters stay between 0 and the number of handlers, and the indices *)
(* of pickWorker's passes within the slice they read (router.go:157-209),  *)
(* whatever the order of the handlers' steps.                              *)
THEOREM RouterTypeCorrect == Spec => []TypeOK
<1>1. Init => SizeInv
  <2> SUFFICES ASSUME Init
               PROVE  SizeInv
    OBVIOUS
  <2>1. \A h \in Handlers : scan[h].minFlight = 0 /\ scan[h].next = 1
    BY DEF Init, NoScan
  <2>2. Cardinality(Handlers) \in Nat
    BY FleetAssumption, FS_CardinalityType
  <2>3. \A h \in Handlers : Bounded(h)
    BY <2>1, <2>2 DEF Bounded
  <2> QED
    BY <2>3, RetryInit DEF SizeInv
<1>2. SizeInv /\ [Next]_vars => SizeInv'
  BY SizeStep
<1>3. SizeInv => TypeOK
  <2> SUFFICES ASSUME SizeInv
               PROVE  TypeOK
    OBVIOUS
  <2>0. Types /\ InFlightAccurate /\ \A h \in Handlers : Bounded(h) /\ Scanning(h)
    BY DEF SizeInv, RetryInv
  <2>1. inFlight \in [Workers -> 0..Cardinality(Handlers)]
    BY <2>0, CounterBounds DEF Types
  <2>2. ASSUME NEW h \in Handlers
        PROVE  /\ scan[h].next \in 1..(Len(workers[h]) + 1)
               /\ scan[h].minFlight \in 0..Cardinality(Handlers)
               /\ scan[h].flight \in Seq(Workers)
    <3> DEFINE k == scan[h].next
               m == scan[h].minFlight
               n == Len(workers[h])
               N == Cardinality(Handlers)
    <3>1. scan[h] \in Scans /\ workers[h] \in Seq(Workers)
      BY <2>0 DEF Types
    <3>2. k \in Nat \ {0} /\ m \in Nat /\ n \in Nat /\ scan[h].flight \in Seq(Workers)
      BY <3>1 DEF Scans
    <3>3. N \in Nat
      BY FleetAssumption, FS_CardinalityType
    <3>4. m <= N
      BY <2>0 DEF Bounded
    <3>5. k <= n \/ k = 1
      <4>1. CASE at[h] \notin Passes
        BY <2>0, <4>1 DEF Bounded
      <4>2. CASE at[h] \in Passes
        <5>1. k \in 1..Len(candidates(h))
          BY <2>0, <4>2 DEF Scanning
        <5>2. Len(candidates(h)) <= n /\ candidates(h) \in Seq(Workers)
          BY <3>1, CandidateFacts
        <5>3. Len(candidates(h)) \in Nat
          BY <5>2, SliceFacts
        <5> DEFINE c == Len(candidates(h))
        <5> HIDE DEF c, k, n
        <5>4. c \in Nat /\ k \in 1..c /\ c <= n
          BY <5>1, <5>2, <5>3 DEF c, k, n
        <5> QED
          BY <3>2, <5>4
      <4> QED
        BY <4>1, <4>2
    <3> HIDE DEF k, m, n, N
    <3>6. k \in 1..(n + 1) /\ m \in 0..N
      BY <3>2, <3>3, <3>4, <3>5
    <3> QED
      BY <3>2, <3>6 DEF k, m, n, N
  <2> QED
    BY <2>0, <2>1, <2>2 DEF TypeOK, Types
<1> QED
  BY <1>1, <1>2, <1>3, PTL DEF Spec

-----------------------------------------------------------------------------
(* Handler h in the abstract specification.                                *)
StageOf(h) == IF Over(h) THEN "idle" ELSE IF at[h] = "proxy" THEN "proxy" ELSE "choosing"
PoolOf(h) == IF Over(h) THEN {} ELSE ToSet(workers[h])
TriedOf(h) == IF Over(h) THEN {} ELSE tried[h]
TargetOf(h) == IF at[h] = "proxy" THEN chosen[h] ELSE Nobody

AbsStage == [h \in Handlers |-> StageOf(h)]
AbsPool == [h \in Handlers |-> PoolOf(h)]
AbsTried == [h \in Handlers |-> TriedOf(h)]
AbsTarget == [h \in Handlers |-> TargetOf(h)]

(* A step of handler h is seen at h only.                                  *)
LEMMA MappingStep ==
    ASSUME NEW h \in Handlers,
           \A g \in Handlers : g # h =>
               /\ at'[g] = at[g] /\ workers'[g] = workers[g]
               /\ tried'[g] = tried[g] /\ chosen'[g] = chosen[g]
    PROVE  /\ AbsStage' = [AbsStage EXCEPT ![h] = StageOf(h)']
           /\ AbsPool' = [AbsPool EXCEPT ![h] = PoolOf(h)']
           /\ AbsTried' = [AbsTried EXCEPT ![h] = TriedOf(h)']
           /\ AbsTarget' = [AbsTarget EXCEPT ![h] = TargetOf(h)']
<1>1. ASSUME NEW g \in Handlers, g # h
      PROVE  /\ StageOf(g)' = StageOf(g) /\ PoolOf(g)' = PoolOf(g)
             /\ TriedOf(g)' = TriedOf(g) /\ TargetOf(g)' = TargetOf(g)
  BY <1>1 DEF StageOf, PoolOf, TriedOf, TargetOf, Over
<1>2. AbsStage' = [AbsStage EXCEPT ![h] = StageOf(h)']
  BY <1>1 DEF AbsStage
<1>3. AbsPool' = [AbsPool EXCEPT ![h] = PoolOf(h)']
  BY <1>1 DEF AbsPool
<1>4. AbsTried' = [AbsTried EXCEPT ![h] = TriedOf(h)']
  BY <1>1 DEF AbsTried
<1>5. AbsTarget' = [AbsTarget EXCEPT ![h] = TargetOf(h)']
  BY <1>1 DEF AbsTarget
<1> QED
  BY <1>2, <1>3, <1>4, <1>5

(* Where a handler is at, seen in the abstract specification.              *)
LEMMA Seen ==
    ASSUME NEW h \in Handlers
    PROVE  /\ AbsStage[h] = StageOf(h) /\ AbsPool[h] = PoolOf(h)
           /\ AbsTried[h] = TriedOf(h) /\ AbsTarget[h] = TargetOf(h)
           /\ at[h] \in {"idle"} \cup Ended =>
                 /\ StageOf(h) = "idle" /\ PoolOf(h) = {} /\ TriedOf(h) = {}
                 /\ TargetOf(h) = Nobody
           /\ at[h] = "proxy" =>
                 /\ StageOf(h) = "proxy" /\ PoolOf(h) = ToSet(workers[h])
                 /\ TriedOf(h) = tried[h] /\ TargetOf(h) = chosen[h]
           /\ at[h] \in Picking \cup {"start"} =>
                 /\ StageOf(h) = "choosing" /\ PoolOf(h) = ToSet(workers[h])
                 /\ TriedOf(h) = tried[h] /\ TargetOf(h) = Nobody
  BY DEF AbsStage, AbsPool, AbsTried, AbsTarget, StageOf, PoolOf, TriedOf, TargetOf,
         Over, Ended, Picking, Reading, Passes

(* The abstract module counts with its own instance of Cardinality.        *)
LEMMA SameCardinality == \A S : Abstract!Cardinality(S) = Cardinality(S)
  BY Zenon DEF Abstract!Cardinality, Cardinality

(* The abstract actions on the mapped variables: a request finds workers.  *)
LEMMA AbstractArrive ==
    ASSUME NEW h \in Handlers, NEW S \in SUBSET Workers, S # {},
           AbsStage[h] = "idle", AbsStage' = [AbsStage EXCEPT ![h] = "choosing"],
           AbsPool' = [AbsPool EXCEPT ![h] = S],
           inFlight' = inFlight, AbsTried' = AbsTried, AbsTarget' = AbsTarget
    PROVE  Abstract!RoutingNext
<1>1. Abstract!Arrive(h, S)
  BY Zenon DEF Abstract!Arrive, AbsStage, AbsPool, AbsTried, AbsTarget,
               StageOf, PoolOf, TriedOf, TargetOf
<1> QED
  BY <1>1, Zenon DEF Abstract!RoutingNext

(* An attempt at an untried worker, within the cap.                        *)
LEMMA AbstractForward ==
    ASSUME NEW h \in Handlers, NEW w \in Workers,
           AbsStage[h] = "choosing",
           Cardinality(AbsTried[h]) <
               Abstract!AtMost(Cardinality(AbsPool[h]), maxRetries),
           w \in AbsPool[h] \ AbsTried[h],
           AbsStage' = [AbsStage EXCEPT ![h] = "proxy"],
           AbsTried' = [AbsTried EXCEPT ![h] = AbsTried[h] \cup {w}],
           AbsTarget' = [AbsTarget EXCEPT ![h] = w],
           inFlight' = [inFlight EXCEPT ![w] = inFlight[w] + 1],
           AbsPool' = AbsPool
    PROVE  Abstract!RoutingNext
<1>0. Abstract!Cardinality(AbsTried[h]) <
          Abstract!AtMost(Abstract!Cardinality(AbsPool[h]), maxRetries)
  BY SameCardinality, Zenon
<1>1. Abstract!Forward(h, w)
  BY <1>0, Zenon DEF Abstract!Forward, Abstract!Attempts, Abstract!Candidates,
               AbsStage, AbsPool, AbsTried, AbsTarget, StageOf, PoolOf, TriedOf,
               TargetOf
<1> QED
  BY <1>1, Zenon DEF Abstract!RoutingNext, Abstract!Route

(* The attempts are used up, or a choice among several workers failed.     *)
LEMMA AbstractFinish ==
    ASSUME NEW h \in Handlers, AbsStage[h] = "choosing",
           \/ Cardinality(AbsTried[h]) >=
                  Abstract!AtMost(Cardinality(AbsPool[h]), maxRetries)
           \/ Cardinality(AbsPool[h] \ AbsTried[h]) > 1,
           AbsStage' = [AbsStage EXCEPT ![h] = "idle"],
           AbsPool' = [AbsPool EXCEPT ![h] = {}],
           AbsTried' = [AbsTried EXCEPT ![h] = {}],
           inFlight' = inFlight, AbsTarget' = AbsTarget
    PROVE  Abstract!RoutingNext
<1>0. \/ Abstract!Cardinality(AbsTried[h]) >=
             Abstract!AtMost(Abstract!Cardinality(AbsPool[h]), maxRetries)
      \/ Abstract!Cardinality(AbsPool[h] \ AbsTried[h]) > 1
  BY SameCardinality, Zenon
<1>1. Abstract!GiveUp(h) \/ Abstract!Drop(h)
  BY <1>0, Zenon DEF Abstract!GiveUp, Abstract!Drop, Abstract!Finish, Abstract!Attempts,
               Abstract!Candidates, AbsStage, AbsPool, AbsTried, AbsTarget,
               StageOf, PoolOf, TriedOf, TargetOf
<1> QED
  BY <1>1, Zenon DEF Abstract!RoutingNext, Abstract!Route

(* A count is given back, and the request is over or tried again.          *)
LEMMA AbstractAnswer ==
    ASSUME NEW h \in Handlers, AbsStage[h] = "proxy",
           inFlight' = [inFlight EXCEPT ![AbsTarget[h]] = inFlight[AbsTarget[h]] - 1],
           AbsTarget' = [AbsTarget EXCEPT ![h] = Nobody],
           \/ /\ AbsStage' = [AbsStage EXCEPT ![h] = "idle"]
              /\ AbsPool' = [AbsPool EXCEPT ![h] = {}]
              /\ AbsTried' = [AbsTried EXCEPT ![h] = {}]
           \/ /\ AbsStage' = [AbsStage EXCEPT ![h] = "choosing"]
              /\ AbsPool' = AbsPool /\ AbsTried' = AbsTried
    PROVE  Abstract!RoutingNext
<1>1. Abstract!Answer(h) \/ Abstract!Unreachable(h)
  BY Zenon DEF Abstract!Answer, Abstract!Unreachable, Abstract!Finish,
               Abstract!Returned, AbsStage, AbsPool, AbsTried, AbsTarget,
               StageOf, PoolOf, TriedOf, TargetOf
<1> QED
  BY <1>1, Zenon DEF Abstract!RoutingNext, Abstract!Route

(* A visible step changes h's entries, or leaves them as they are.         *)
LEMMA SameEntry ==
    ASSUME NEW h \in Handlers
    PROVE  /\ [AbsStage EXCEPT ![h] = StageOf(h)] = AbsStage
           /\ [AbsPool EXCEPT ![h] = PoolOf(h)] = AbsPool
           /\ [AbsTried EXCEPT ![h] = TriedOf(h)] = AbsTried
           /\ [AbsTarget EXCEPT ![h] = TargetOf(h)] = AbsTarget
  BY DEF AbsStage, AbsPool, AbsTried, AbsTarget

(* Where a handler has got to, seen in the abstract specification.         *)
LEMMA SeenAfter ==
    ASSUME NEW h \in Handlers
    PROVE  /\ at'[h] \in {"idle"} \cup Ended =>
                 /\ StageOf(h)' = "idle" /\ PoolOf(h)' = {} /\ TriedOf(h)' = {}
                 /\ TargetOf(h)' = Nobody
           /\ at'[h] = "proxy" =>
                 /\ StageOf(h)' = "proxy" /\ PoolOf(h)' = ToSet(workers[h])'
                 /\ TriedOf(h)' = tried'[h] /\ TargetOf(h)' = chosen'[h]
           /\ at'[h] \in Picking \cup {"start"} =>
                 /\ StageOf(h)' = "choosing" /\ PoolOf(h)' = ToSet(workers[h])'
                 /\ TriedOf(h)' = tried'[h] /\ TargetOf(h)' = Nobody
  BY DEF StageOf, PoolOf, TriedOf, TargetOf, Over, Ended, Picking, Reading, Passes

(* Both specifications cap the attempts alike.                             *)
LEMMA SameCap ==
    ASSUME Types, NEW h \in Handlers, Distinct(workers[h])
    PROVE  Abstract!AtMost(Cardinality(ToSet(workers[h])), maxRetries) = maxAttempts(h)
<1>1. workers[h] \in Seq(Workers)
  BY DEF Types
<1>2. Cardinality(ToSet(workers[h])) = Len(workers[h])
  BY <1>1, CandidateCount
<1>3. Abstract!AtMost(Len(workers[h]), maxRetries) = maxAttempts(h)
  BY <1>1, RetriesAssumption DEF Abstract!AtMost, maxAttempts
<1> QED
  BY <1>2, <1>3

(* Every step of the router is a step of Routing, or is not seen there:    *)
(* the reads of pickWorker and its choice are internal.                    *)
LEMMA RoutingStep ==
    ASSUME RetryInv, [Next]_vars
    PROVE  \/ Abstract!RoutingNext
           \/ /\ inFlight' = inFlight /\ AbsStage' = AbsStage /\ AbsPool' = AbsPool
              /\ AbsTried' = AbsTried /\ AbsTarget' = AbsTarget
<1> DEFINE Unseen == /\ inFlight' = inFlight /\ AbsStage' = AbsStage
                     /\ AbsPool' = AbsPool /\ AbsTried' = AbsTried
                     /\ AbsTarget' = AbsTarget
<1>0. Types /\ \A h \in Handlers : Attempting(h) /\ Scanning(h)
  BY DEF RetryInv
<1> SUFFICES Abstract!RoutingNext \/ Unseen
  OBVIOUS
<1> HIDE DEF Unseen
<1>1. ASSUME NEW h \in Handlers, NEW snapshot \in Snapshots, Arrive(h, snapshot)
      PROVE  Abstract!RoutingNext \/ Unseen
  <2>1. /\ at[h] \in {"idle"} \cup Ended /\ inFlight' = inFlight
        /\ at'[h] = IF snapshot = <<>> THEN "no workers" ELSE "start"
        /\ workers'[h] = snapshot /\ tried'[h] = {}
        /\ \A g \in Handlers : g # h =>
               /\ at'[g] = at[g] /\ workers'[g] = workers[g]
               /\ tried'[g] = tried[g] /\ chosen'[g] = chosen[g]
    BY <1>0, <1>1 DEF Arrive, Types
  <2>2. /\ AbsStage' = [AbsStage EXCEPT ![h] = StageOf(h)']
        /\ AbsPool' = [AbsPool EXCEPT ![h] = PoolOf(h)']
        /\ AbsTried' = [AbsTried EXCEPT ![h] = TriedOf(h)']
        /\ AbsTarget' = [AbsTarget EXCEPT ![h] = TargetOf(h)']
    BY <2>1, MappingStep
  <2>3. /\ AbsStage[h] = StageOf(h) /\ StageOf(h) = "idle" /\ PoolOf(h) = {}
        /\ TriedOf(h) = {} /\ TargetOf(h) = Nobody
    BY <2>1, Seen
  <2>4. CASE snapshot = <<>>
    <3>1. at'[h] \in {"idle"} \cup Ended
      BY <2>1, <2>4 DEF Ended
    <3>2. /\ StageOf(h)' = "idle" /\ PoolOf(h)' = {} /\ TriedOf(h)' = {}
          /\ TargetOf(h)' = Nobody
      BY <3>1, SeenAfter
    <3> QED
      BY <2>1, <2>2, <2>3, <3>2, SameEntry DEF Unseen
  <2>5. CASE snapshot # <<>>
    <3> DEFINE S == ToSet(snapshot)
    <3>1. at'[h] = "start"
      BY <2>1, <2>5
    <3>2. snapshot \in Seq(Workers)
      BY SnapshotFacts
    <3>3. S \in SUBSET Workers /\ S # {}
      <4>1. 1 \in 1..Len(snapshot)
        BY <2>5, <3>2, SliceFacts
      <4> QED
        BY <3>2, <4>1, SliceFacts
    <3>4. /\ StageOf(h)' = "choosing" /\ PoolOf(h)' = ToSet(workers[h])'
          /\ TriedOf(h)' = tried'[h] /\ TargetOf(h)' = Nobody
      BY <3>1, SeenAfter
    <3>5. PoolOf(h)' = S
      BY <2>1, <3>4
    <3> HIDE DEF S
    <3>6. AbsTried' = AbsTried /\ AbsTarget' = AbsTarget
      BY <2>1, <2>2, <2>3, <3>4, SameEntry
    <3> QED
      BY <2>1, <2>2, <2>3, <3>3, <3>4, <3>5, <3>6, AbstractArrive
  <2> QED
    BY <2>4, <2>5
<1>2. ASSUME NEW h \in Handlers, at[h] \in Picking \cup {"start"},
             inFlight' = inFlight, workers' = workers, tried' = tried,
             \A g \in Handlers : g # h => at'[g] = at[g] /\ chosen'[g] = chosen[g],
             \/ at'[h] \in Picking
             \/ /\ at'[h] = "bad gateway"
                /\ Cardinality(tried[h]) >= maxAttempts(h)
             \/ at'[h] = "panicked" /\ Len(candidates(h)) > 1
      PROVE  Abstract!RoutingNext \/ Unseen
  <2>1. /\ AbsStage' = [AbsStage EXCEPT ![h] = StageOf(h)']
        /\ AbsPool' = [AbsPool EXCEPT ![h] = PoolOf(h)']
        /\ AbsTried' = [AbsTried EXCEPT ![h] = TriedOf(h)']
        /\ AbsTarget' = [AbsTarget EXCEPT ![h] = TargetOf(h)']
    BY <1>2, MappingStep
  <2>2. /\ StageOf(h) = "choosing" /\ PoolOf(h) = ToSet(workers[h])
        /\ TriedOf(h) = tried[h] /\ TargetOf(h) = Nobody
        /\ AbsStage[h] = StageOf(h) /\ AbsPool[h] = PoolOf(h)
        /\ AbsTried[h] = TriedOf(h)
    BY <1>2, Seen
  <2>3. CASE at'[h] \in Picking
    <3>1. /\ StageOf(h)' = "choosing" /\ PoolOf(h)' = ToSet(workers[h])'
          /\ TriedOf(h)' = tried'[h] /\ TargetOf(h)' = Nobody
      BY <2>3, SeenAfter
    <3>2. PoolOf(h)' = PoolOf(h) /\ TriedOf(h)' = TriedOf(h)
      BY <1>2, <2>2, <3>1
    <3> QED
      BY <1>2, <2>1, <2>2, <3>1, <3>2, SameEntry DEF Unseen
  <2>4. CASE \/ /\ at'[h] = "bad gateway"
                /\ Cardinality(tried[h]) >= maxAttempts(h)
             \/ at'[h] = "panicked" /\ Len(candidates(h)) > 1
    <3>1. at'[h] \in {"idle"} \cup Ended
      BY <2>4 DEF Ended
    <3>2. /\ StageOf(h)' = "idle" /\ PoolOf(h)' = {} /\ TriedOf(h)' = {}
          /\ TargetOf(h)' = Nobody
      BY <3>1, SeenAfter
    <3>3. workers[h] \in Seq(Workers) /\ Distinct(workers[h])
      BY <1>0 DEF Types, Attempting
    <3>4. /\ Abstract!AtMost(Cardinality(ToSet(workers[h])), maxRetries) = maxAttempts(h)
          /\ Cardinality(ToSet(workers[h]) \ tried[h]) = Len(candidates(h))
      BY <1>0, <3>3, SameCap, CandidateCount
    <3>5. \/ Cardinality(AbsTried[h]) >=
                 Abstract!AtMost(Cardinality(AbsPool[h]), maxRetries)
          \/ Cardinality(AbsPool[h] \ AbsTried[h]) > 1
      BY <2>2, <2>4, <3>4, Zenon
    <3>6. AbsTarget' = AbsTarget
      BY <2>1, <2>2, <3>2, SameEntry
    <3> QED
      BY <1>2, <2>1, <2>2, <3>2, <3>5, <3>6, AbstractFinish
  <2> QED
    BY <1>2, <2>3, <2>4
<1>3. ASSUME NEW h \in Handlers, StartAttempt(h)
      PROVE  Abstract!RoutingNext \/ Unseen
  <2>1. /\ at[h] = "start" /\ inFlight' = inFlight /\ workers' = workers
        /\ tried' = tried
        /\ \A g \in Handlers : g # h => at'[g] = at[g] /\ chosen'[g] = chosen[g]
    BY <1>0, <1>3 DEF StartAttempt, Types
  <2>2. \/ at'[h] \in {"min pass", "chosen"}
        \/ Exhausted(h) /\ at'[h] = "bad gateway"
    BY <1>0, <1>3 DEF StartAttempt, Types
  <2>3. Exhausted(h) => Cardinality(tried[h]) >= maxAttempts(h)
    <3>1. Distinct(workers[h]) /\ tried[h] \subseteq ToSet(workers[h])
      BY <1>0, <2>1 DEF Attempting
    <3>2. candidates(h) = <<>> => Cardinality(tried[h]) >= maxAttempts(h)
      BY <1>0, <3>1, AttemptFacts
    <3> QED
      BY <3>2 DEF Exhausted
  <2>4. at'[h] \in {"min pass", "chosen"} => at'[h] \in Picking
    BY DEF Picking, Reading, Passes
  <2> QED
    BY <1>2, <2>1, <2>2, <2>3, <2>4
<1>4. ASSUME NEW h \in Handlers, ReadMin(h) \/ ReadFlight(h)
      PROVE  Abstract!RoutingNext \/ Unseen
  <2>1. /\ at[h] \in Passes /\ inFlight' = inFlight /\ workers' = workers
        /\ tried' = tried
        /\ \A g \in Handlers : g # h => at'[g] = at[g] /\ chosen'[g] = chosen[g]
    BY <1>0, <1>4 DEF ReadMin, ReadFlight, Advance, Passes, Types
  <2>2. at'[h] \in Reading
    BY <1>0, <1>4 DEF ReadMin, ReadFlight, Advance, Reading, Passes, Types
  <2>3. at[h] \in Picking /\ at'[h] \in Picking
    BY <2>1, <2>2 DEF Picking, Reading
  <2> QED
    BY <1>2, <2>1, <2>3
<1>5. ASSUME NEW h \in Handlers, Choose(h)
      PROVE  Abstract!RoutingNext \/ Unseen
  <2>1. /\ at[h] = "choose" /\ inFlight' = inFlight /\ workers' = workers
        /\ tried' = tried
        /\ \/ at' = [at EXCEPT ![h] = "panicked"] /\ chosen' = chosen
           \/ \E w : /\ at' = [at EXCEPT ![h] = "chosen"]
                     /\ chosen' = [chosen EXCEPT ![h] = w]
    BY <1>0, <1>5, ChooseFacts, Zenon
  <2>2. /\ at'[h] \in {"panicked", "chosen"}
        /\ \A g \in Handlers : g # h => at'[g] = at[g] /\ chosen'[g] = chosen[g]
    BY <1>0, <2>1 DEF Types
  <2>3. at[h] \in Reading /\ at[h] \in Picking /\ "chosen" \in Picking
    BY <2>1 DEF Picking, Reading
  <2>4. Len(candidates(h)) > 1
    BY <1>0, <2>3 DEF Scanning
  <2> QED
    BY <1>2, <2>1, <2>2, <2>3, <2>4
<1>6. ASSUME NEW h \in Handlers, Forward(h)
      PROVE  Abstract!RoutingNext \/ Unseen
  <2> DEFINE w == chosen[h]
  <2>1. /\ at[h] = "chosen" /\ at'[h] = "proxy" /\ workers' = workers
        /\ tried'[h] = tried[h] \cup {w} /\ chosen' = chosen
        /\ inFlight' = [inFlight EXCEPT ![w] = inFlight[w] + 1]
        /\ \A g \in Handlers : g # h => at'[g] = at[g] /\ tried'[g] = tried[g]
    BY <1>0, <1>6 DEF Forward, Types
  <2>2. /\ w \in ToSet(workers[h]) \ tried[h] /\ Cardinality(tried[h]) < maxAttempts(h)
    BY <1>6, ForwardStep
  <2>3. workers[h] \in Seq(Workers) /\ Distinct(workers[h])
    BY <1>0 DEF Types, Attempting
  <2>4. w \in Workers
    BY <2>2, <2>3, SliceFacts
  <2>5. /\ AbsStage' = [AbsStage EXCEPT ![h] = StageOf(h)']
        /\ AbsPool' = [AbsPool EXCEPT ![h] = PoolOf(h)']
        /\ AbsTried' = [AbsTried EXCEPT ![h] = TriedOf(h)']
        /\ AbsTarget' = [AbsTarget EXCEPT ![h] = TargetOf(h)']
    BY <2>1, MappingStep
  <2>6. at[h] \in Picking
    BY <2>1 DEF Picking
  <2>7. /\ StageOf(h) = "choosing" /\ PoolOf(h) = ToSet(workers[h])
        /\ TriedOf(h) = tried[h]
        /\ AbsStage[h] = StageOf(h) /\ AbsPool[h] = PoolOf(h)
        /\ AbsTried[h] = TriedOf(h)
    BY <2>6, Seen
  <2>8. /\ StageOf(h)' = "proxy" /\ PoolOf(h)' = ToSet(workers[h])'
        /\ TriedOf(h)' = tried'[h] /\ TargetOf(h)' = chosen'[h]
    BY <2>1, SeenAfter
  <2>9. PoolOf(h)' = PoolOf(h) /\ TargetOf(h)' = w
    BY <2>1, <2>7, <2>8
  <2>10. Cardinality(AbsTried[h]) <
             Abstract!AtMost(Cardinality(AbsPool[h]), maxRetries)
    BY <1>0, <2>2, <2>3, <2>7, SameCap
  <2>11. w \in AbsPool[h] \ AbsTried[h]
    BY <2>2, <2>7
  <2>12. AbsPool' = AbsPool
    BY <2>5, <2>9, SameEntry
  <2> HIDE DEF w
  <2>13. /\ AbsStage[h] = "choosing" /\ AbsStage' = [AbsStage EXCEPT ![h] = "proxy"]
         /\ AbsTried' = [AbsTried EXCEPT ![h] = AbsTried[h] \cup {w}]
         /\ AbsTarget' = [AbsTarget EXCEPT ![h] = w]
    BY <2>1, <2>5, <2>7, <2>8, <2>9, Zenon
  <2> QED
    BY <2>1, <2>4, <2>10, <2>11, <2>12, <2>13, AbstractForward
<1>7. ASSUME NEW h \in Handlers, ProxyEnds(h) \/ ProxyUnreachable(h)
      PROVE  Abstract!RoutingNext \/ Unseen
  <2> DEFINE w == chosen[h]
  <2>1. /\ at[h] = "proxy" /\ inFlight' = [inFlight EXCEPT ![w] = inFlight[w] - 1]
        /\ \A g \in Handlers : g # h =>
               /\ at'[g] = at[g] /\ workers'[g] = workers[g]
               /\ tried'[g] = tried[g] /\ chosen'[g] = chosen[g]
    BY <1>0, <1>7 DEF ProxyEnds, ProxyUnreachable, Return, dec, Types
  <2>2. \/ at'[h] \in {"served", "interrupted"}
        \/ at'[h] = "start" /\ workers' = workers /\ tried' = tried
    BY <1>0, <1>7 DEF ProxyEnds, ProxyUnreachable, Types
  <2>3. /\ AbsStage' = [AbsStage EXCEPT ![h] = StageOf(h)']
        /\ AbsPool' = [AbsPool EXCEPT ![h] = PoolOf(h)']
        /\ AbsTried' = [AbsTried EXCEPT ![h] = TriedOf(h)']
        /\ AbsTarget' = [AbsTarget EXCEPT ![h] = TargetOf(h)']
    BY <2>1, MappingStep
  <2>4. /\ StageOf(h) = "proxy" /\ PoolOf(h) = ToSet(workers[h])
        /\ TriedOf(h) = tried[h] /\ TargetOf(h) = w
        /\ AbsStage[h] = StageOf(h) /\ AbsTarget[h] = TargetOf(h)
    BY <2>1, Seen
  <2>5. inFlight' = [inFlight EXCEPT ![AbsTarget[h]] = inFlight[AbsTarget[h]] - 1]
    BY <2>1, <2>4, Zenon
  <2>6. CASE at'[h] \in {"served", "interrupted"}
    <3>1. at'[h] \in {"idle"} \cup Ended
      BY <2>6 DEF Ended
    <3>2. /\ StageOf(h)' = "idle" /\ PoolOf(h)' = {} /\ TriedOf(h)' = {}
          /\ TargetOf(h)' = Nobody
      BY <3>1, SeenAfter
    <3>3. /\ AbsStage[h] = "proxy" /\ AbsTarget' = [AbsTarget EXCEPT ![h] = Nobody]
          /\ AbsStage' = [AbsStage EXCEPT ![h] = "idle"]
          /\ AbsPool' = [AbsPool EXCEPT ![h] = {}]
          /\ AbsTried' = [AbsTried EXCEPT ![h] = {}]
      BY <2>3, <2>4, <3>2, Zenon
    <3> QED
      BY <2>5, <3>3, AbstractAnswer
  <2>7. CASE at'[h] = "start" /\ workers' = workers /\ tried' = tried
    <3>1. /\ StageOf(h)' = "choosing" /\ PoolOf(h)' = ToSet(workers[h])'
          /\ TriedOf(h)' = tried'[h] /\ TargetOf(h)' = Nobody
      BY <2>7, SeenAfter
    <3>2. PoolOf(h)' = PoolOf(h) /\ TriedOf(h)' = TriedOf(h)
      BY <2>4, <2>7, <3>1
    <3>3. AbsPool' = AbsPool /\ AbsTried' = AbsTried
      BY <2>3, <3>2, SameEntry
    <3>4. /\ AbsStage[h] = "proxy" /\ AbsTarget' = [AbsTarget EXCEPT ![h] = Nobody]
          /\ AbsStage' = [AbsStage EXCEPT ![h] = "choosing"]
      BY <2>3, <2>4, <3>1, Zenon
    <3> QED
      BY <2>5, <3>3, <3>4, AbstractAnswer
  <2> QED
    BY <2>2, <2>6, <2>7
<1>8. ASSUME UNCHANGED vars
      PROVE  Abstract!RoutingNext \/ Unseen
  BY <1>8 DEF vars, Unseen, AbsStage, AbsPool, AbsTried, AbsTarget,
              StageOf, PoolOf, TriedOf, TargetOf, Over
<1> QED
  BY <1>1, <1>3, <1>4, <1>5, <1>6, <1>7, <1>8 DEF Next

(* The retry loop, the two passes of pickWorker and the counters implement *)
(* Routing (router.go:71-155), for every fleet and any number of handlers: *)
(* concurrent picks on moving counters only ever send a request to an      *)
(* untried worker of its own snapshot, within the cap, and every count     *)
(* taken is given back once.                                               *)
THEOREM RouterRefinesRouting == Spec => ImplementsRouting
<1>1. Init => RetryInv /\ Abstract!RoutingInit
  <2>1. Init => Abstract!RoutingInit
    BY DEF Init, Abstract!RoutingInit, Over, ToSet
  <2> QED
    BY <2>1, RetryInit
<1>2. RetryInv /\ [Next]_vars => RetryInv'
  BY RetryStep
<1>3. RetryInv /\ [Next]_vars => [Abstract!RoutingNext]_(Abstract!routingVars)
  BY RoutingStep, Zenon DEF Abstract!routingVars, AbsStage, AbsPool, AbsTried,
     AbsTarget, StageOf, PoolOf, TriedOf, TargetOf
<1> QED
  BY <1>1, <1>2, <1>3, PTL DEF Spec, ImplementsRouting, Abstract!RoutingSpec
=============================================================================
