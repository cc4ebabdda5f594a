------------------------- MODULE RequestPlaneProofs -------------------------
(***************************************************************************)
(* Proofs about RequestPlane, for any requests, dispatchers, lane capacity,*)
(* fallback chain and cap on the attempts: one result per request, what a  *)
(* fallback means, whole streams, and the counters.                        *)
(***************************************************************************)
EXTENDS RequestPlane, FiniteSetTheorems, SequenceTheorems, TLAPS

Results == [outcome : Outcomes, ServedModel : 1..ChainLength, Streaming : BOOLEAN]
WorkPlaces == {"pop", "try", "give up", "pump", "send", "last send", "stopped"}
Works == [at : WorkPlaces, model : 1..ChainLength, attempt : 1..maxAttempts]
Lives == {"running", "stopping", "exited"}
Counters == [total : Nat, success : Nat, errors : Nat]
Replies == Outcomes \cup {"none", "refused", "queue full", "timed out"}

Types ==
    /\ lanes \in [Priorities -> Seq(Requests)]
    /\ got \in [Poppers -> Requests \cup {None}]
    /\ handler \in [Requests -> {"new", "waiting", "streaming", "done", "cut off"}]
    /\ reply \in [Requests -> Replies]
    /\ resultCh \in [Requests -> Seq(Results)]
    /\ chunks \in [Requests -> Seq(Nat)]
    /\ closed \in [Requests -> BOOLEAN]
    /\ written \in [Requests -> Seq(Nat)]
    /\ stats \in Counters
    /\ work \in [Poppers -> Works]
    /\ read \in [Requests -> Nat]
    /\ tries \in [Requests -> Nat]
    /\ process \in Lives

(* Channels within their capacities.                                       *)
Roomy == \A r \in Requests : Len(resultCh[r]) <= 1 /\ Len(chunks[r]) <= ChunkBuffer

Sorted(l, s) == \A i \in DOMAIN s : PriorityOf[s[i]] = l
Once(s) == \A i, j \in DOMAIN s : s[i] = s[j] => i = j

(* A request is in its own lane, once, or in the hands of one dispatcher,  *)
(* which works on it exactly as long as it has it.                         *)
Placed ==
    /\ \A l \in Priorities : Sorted(l, lanes[l])
    /\ \A l \in Priorities : Once(lanes[l])
    /\ \A d, e \in Poppers : d # e /\ got[d] # None => got[d] # got[e]
    /\ \A d \in Poppers :
           /\ got[d] = None <=> work[d].at \in {"pop", "stopped"}
           /\ got[d] = None => work[d].model = 1 /\ work[d].attempt = 1

(* Counting one more for a request.                                        *)
LEMMA CountedUp ==
    ASSUME NEW f \in [Requests -> Nat], NEW r \in Requests, NEW g,
           g = [f EXCEPT ![r] = f[r] + 1]
    PROVE  /\ g \in [Requests -> Nat] /\ g[r] >= 1
           /\ \A x \in Requests : x # r => g[x] = f[x]
  OBVIOUS

(* No dispatcher has done anything for r yet.                              *)
Untouched(r) == resultCh[r] = <<>> /\ ~closed[r] /\ read[r] = 0 /\ tries[r] = 0

(* Request r on its way through the plane.                                 *)
Story(r) ==
    /\ Waiting(r) => ~Held(r) /\ Untouched(r) /\ handler[r] # "streaming"
    /\ handler[r] = "new" => ~Held(r) /\ ~Waiting(r) /\ Untouched(r)
    /\ closed[r] => ~Held(r)
    /\ r \in Streams /\ resultCh[r] # <<>> /\ ~Head(resultCh[r]).Streaming =>
           ~Held(r) /\ read[r] = 0
    /\ r \in Streams /\ handler[r] = "done" /\ reply[r] \in {"2xx", "other status"} =>
           ~Held(r) /\ ~Waiting(r)

(* Dispatcher d in its retry loop.                                         *)
Retrying(d) ==
    work[d].at \in {"try", "give up"} =>
        /\ resultCh[got[d]] = <<>> /\ handler[got[d]] # "streaming"
        /\ ~closed[got[d]] /\ read[got[d]] = 0

(* The attempts upstream has seen are those of the models before this one, *)
(* and those of this one.                                                  *)
Spent(m) == (m - 1) * maxAttempts
Attempts(d) ==
    /\ work[d].at = "try" => tries[got[d]] = Spent(work[d].model) + (work[d].attempt - 1)
    /\ work[d].at = "give up" =>
           work[d].model = ChainLength /\ tries[got[d]] = Spent(ChainLength) + maxAttempts

(* Dispatcher d pumping a stream.                                          *)
Pumping(d) ==
    /\ work[d].at \in {"pump", "send", "last send"} => got[d] \in Streams
    /\ work[d].at \in {"send", "last send"} => read[got[d]] >= 1

MaxTries == \A r \in Requests : tries[r] <= ChainLength * maxAttempts

(* The result of r names the model of the last attempt.                    *)
Honest(r) ==
    resultCh[r] # <<>> =>
        LET m == Head(resultCh[r]).ServedModel
        IN  Spent(m) < tries[r] /\ tries[r] <= Spent(m) + maxAttempts

CountInv ==
    /\ IsFiniteSet({r \in Requests : handler[r] = "done"})
    /\ CountedOnce

PlaneInv ==
    /\ Types /\ Roomy /\ Placed
    /\ \A r \in Requests : Story(r)
    /\ \A d \in Poppers : Retrying(d) /\ Pumping(d)

TriesInv ==
    /\ PlaneInv
    /\ \A d \in Poppers : Attempts(d)
    /\ MaxTries
    /\ \A r \in Requests : Honest(r)

(* The body up to its n-th chunk.                                          *)
Body(n) == [i \in 1..n |-> i]

(* A dispatcher has read a chunk of r's body and not sent it yet.          *)
InHand(r) == \E d \in Poppers : got[d] = r /\ work[d].at \in {"send", "last send"}

Whole(r) ==
    written[r] \o chunks[r] = Body(IF InHand(r) THEN read[r] - 1 ELSE read[r])

Complete(r) ==
    handler[r] = "done" /\ reply[r] \in {"2xx", "other status"} /\ r \in Streams =>
        Len(written[r]) = read[r]

StreamInv == PlaneInv /\ \A r \in Requests : Whole(r) /\ Complete(r)

-----------------------------------------------------------------------------
(* Taking the head of a channel leaves the rest in order.                  *)
LEMMA TailFacts ==
    ASSUME NEW S, NEW s \in Seq(S), s # <<>>
    PROVE  /\ Head(s) = s[1] /\ Head(s) \in S
           /\ 1 \in DOMAIN s
           /\ Tail(s) \in Seq(S)
           /\ Len(Tail(s)) = Len(s) - 1
           /\ \A i \in DOMAIN s : i # 1 => i - 1 \in DOMAIN Tail(s)
                                          /\ Tail(s)[i - 1] = s[i]
           /\ \A i \in DOMAIN Tail(s) : i + 1 \in DOMAIN s /\ i + 1 # 1
                                         /\ Tail(s)[i] = s[i + 1]
  OBVIOUS

(* Sending to a channel adds at its end.                                   *)
LEMMA AppendFacts ==
    ASSUME NEW S, NEW s \in Seq(S), NEW r \in S
    PROVE  /\ Append(s, r) \in Seq(S)
           /\ Len(Append(s, r)) = Len(s) + 1
           /\ Len(s) + 1 \in DOMAIN Append(s, r) /\ Append(s, r)[Len(s) + 1] = r
           /\ \A i \in DOMAIN s : i \in DOMAIN Append(s, r)
                                   /\ Append(s, r)[i] = s[i]
           /\ \A i \in DOMAIN Append(s, r) :
                 \/ i = Len(s) + 1 /\ Append(s, r)[i] = r
                 \/ i \in DOMAIN s /\ Append(s, r)[i] = s[i]
  OBVIOUS

(* A request in any lane waits in its own.                                 *)
LEMMA InLane ==
    ASSUME Types, Placed, NEW l \in Priorities, NEW i \in DOMAIN lanes[l]
    PROVE  lanes[l][i] \in Requests /\ Waiting(lanes[l][i])
<1>1. lanes[l] \in Seq(Requests)
  BY DEF Types
<1>2. lanes[l][i] \in Requests
  BY <1>1
<1>3. PriorityOf[lanes[l][i]] = l
  BY DEF Placed, Sorted
<1> QED
  BY <1>2, <1>3 DEF Waiting

(* The lanes after TryPush into a buffer.                                  *)
LEMMA AcceptFacts ==
    ASSUME Types, Placed, NEW r \in Requests, Accept(r), work' = work
    PROVE  /\ lanes' \in [Priorities -> Seq(Requests)] /\ got' = got /\ Placed'
           /\ ~Waiting(r) /\ ~Held(r)
           /\ \A x \in Requests : /\ Waiting(x)' => Waiting(x) \/ x = r
                                  /\ Held(x)' <=> Held(x)
<1> DEFINE l == PriorityOf[r]
           s == lanes[l]
<1>1. /\ l \in Priorities /\ s \in Seq(Requests)
      /\ lanes' = [lanes EXCEPT ![l] = Append(s, r)] /\ got' = got
      /\ ~Waiting(r) /\ ~Held(r)
  BY PriorityAssumption DEF Accept, Types
<1>2. /\ lanes'[l] = Append(s, r)
      /\ \A k \in Priorities : k # l => lanes'[k] = lanes[k]
  BY <1>1 DEF Types
<1>3. lanes' \in [Priorities -> Seq(Requests)]
  BY <1>1, AppendFacts DEF Types
<1>4. ASSUME NEW x \in Requests, Waiting(x)'
      PROVE  Waiting(x) \/ x = r
  <2>1. PICK i \in DOMAIN lanes'[PriorityOf[x]] : lanes'[PriorityOf[x]][i] = x
    BY <1>4 DEF Waiting
  <2>2. PriorityOf[x] \in Priorities
    BY PriorityAssumption
  <2>3. CASE PriorityOf[x] = l
    BY <1>1, <1>2, <2>1, <2>3, AppendFacts DEF Waiting
  <2>4. CASE PriorityOf[x] # l
    BY <1>2, <2>1, <2>2, <2>4 DEF Waiting
  <2> QED
    BY <2>3, <2>4
<1>5. \A x : Held(x)' <=> Held(x)
  BY <1>1 DEF Held
<1>6. \A i \in DOMAIN s : s[i] # r
  BY <1>1, InLane
<1>7. /\ Sorted(l, Append(s, r))
      /\ Once(Append(s, r))
  <2>1. /\ \A i \in DOMAIN s : PriorityOf[s[i]] = l
        /\ \A i, j \in DOMAIN s : s[i] = s[j] => i = j
    BY <1>1 DEF Placed, Once, Sorted
  <2> HIDE DEF s
  <2>2. \A i \in DOMAIN Append(s, r) :
              \/ i = Len(s) + 1 /\ Append(s, r)[i] = r
              \/ i \in DOMAIN s /\ Append(s, r)[i] = s[i]
    BY <1>1, AppendFacts
  <2> QED
    BY <1>6, <2>1, <2>2, Zenon DEF Once, Sorted
<1>8. Placed'
  <2>1. \A k \in Priorities : Sorted(k, lanes[k])'
    BY <1>2, <1>7 DEF Placed
  <2>2. \A k \in Priorities : Once(lanes[k])'
    BY <1>2, <1>7 DEF Placed
  <2> QED
    BY <1>1, <2>1, <2>2 DEF Placed
<1> QED
  BY <1>1, <1>3, <1>4, <1>5, <1>8

(* The lanes after Pop has received a request.                             *)
LEMMA TakeFacts ==
    ASSUME Types, Placed, NEW d \in Poppers, NEW l \in Priorities, Take(d, l),
           \A x \in Requests : Waiting(x) => ~Held(x),
           work[d].at = "pop", work' = [work EXCEPT ![d].at = "try"]
    PROVE  \E r \in Requests :
             /\ lanes' \in [Priorities -> Seq(Requests)]
             /\ got' = [got EXCEPT ![d] = r] /\ got[d] = None /\ Placed'
             /\ Waiting(r)
             /\ \A x \in Requests : /\ Waiting(x)' => Waiting(x) /\ x # r
                                    /\ Held(x)' => Held(x) \/ x = r
<1> DEFINE s == lanes[l]
           r == Head(s)
<1>1. /\ s \in Seq(Requests) /\ s # <<>> /\ got[d] = None
      /\ lanes' = [lanes EXCEPT ![l] = Tail(s)]
      /\ got' = [got EXCEPT ![d] = r]
  BY DEF Take, Types
<1>2. lanes'[l] = Tail(s) /\ \A k \in Priorities : k # l => lanes'[k] = lanes[k]
  BY <1>1 DEF Types
<1>3. lanes' \in [Priorities -> Seq(Requests)]
  BY <1>1, TailFacts DEF Types
<1>4. r = s[1] /\ 1 \in DOMAIN s /\ r \in Requests
  BY <1>1, TailFacts
<1>5. Waiting(r) /\ ~Held(r)
  BY <1>4, InLane
<1>6. PriorityOf[r] = l
  BY <1>4 DEF Placed, Sorted
<1>7. \A i \in DOMAIN Tail(s) : i + 1 \in DOMAIN s /\ i + 1 # 1 /\ Tail(s)[i] = s[i + 1]
  BY <1>1, TailFacts
<1>8. \A i \in DOMAIN Tail(s) : Tail(s)[i] # r
  BY <1>4, <1>7 DEF Placed, Once, Sorted
<1>9. ASSUME NEW x \in Requests, Waiting(x)'
      PROVE  Waiting(x) /\ x # r
  <2>1. PICK i \in DOMAIN lanes'[PriorityOf[x]] : lanes'[PriorityOf[x]][i] = x
    BY <1>9 DEF Waiting
  <2>2. PriorityOf[x] \in Priorities
    BY PriorityAssumption
  <2>3. CASE PriorityOf[x] = l
    <3>1. i \in DOMAIN Tail(s) /\ Tail(s)[i] = x
      BY <1>2, <2>1, <2>3
    <3>2. x # r /\ i + 1 \in DOMAIN s /\ s[i + 1] = x
      BY <1>7, <1>8, <3>1
    <3> QED
      BY <2>3, <3>2 DEF Waiting
  <2>4. CASE PriorityOf[x] # l
    BY <1>2, <1>6, <2>1, <2>2, <2>4 DEF Waiting
  <2> QED
    BY <2>3, <2>4
<1>10. \A x \in Requests : Held(x)' => Held(x) \/ x = r
  BY <1>1 DEF Held, Types
<1>11. /\ Sorted(l, Tail(s))
       /\ Once(Tail(s))
  <2>1. /\ \A i \in DOMAIN s : PriorityOf[s[i]] = l
        /\ \A i, j \in DOMAIN s : s[i] = s[j] => i = j
    BY DEF Placed, Once, Sorted
  <2>2. \A i \in DOMAIN Tail(s) : i \in Nat
    BY <1>1, TailFacts
  <2>3. \A i, j \in DOMAIN Tail(s) : i + 1 = j + 1 => i = j
    BY <2>2
  <2> QED
    BY <1>7, <2>1, <2>3 DEF Once, Sorted
<1>12. Placed'
  <2>1. \A k \in Priorities : Sorted(k, lanes[k])'
    BY <1>2, <1>11 DEF Placed
  <2>2. \A k \in Priorities : Once(lanes[k])'
    BY <1>2, <1>11 DEF Placed
  <2>3. \A e, f \in Poppers : e # f /\ got'[e] # None => got'[e] # got'[f]
    <3>1. \A e \in Poppers : got[e] # r
      BY <1>5 DEF Held
    <3>2. got'[d] = r /\ \A e \in Poppers : e # d => got'[e] = got[e]
      BY <1>1 DEF Types
    <3> QED
      BY <1>1, <3>1, <3>2 DEF Placed
  <2>4. ASSUME NEW e \in Poppers
        PROVE  /\ got'[e] = None <=> work'[e].at \in {"pop", "stopped"}
               /\ got'[e] = None => work'[e].model = 1 /\ work'[e].attempt = 1
    <3>1. CASE e = d
      <4>1. got'[e] = r /\ r # None
        BY <1>1, <1>4, <3>1, NoneAssumption DEF Types
      <4>2. work[d] \in Works /\ work'[e] = [work[d] EXCEPT !.at = "try"]
        BY <3>1 DEF Types
      <4>3. work'[e].at = "try"
        BY <4>2 DEF Works
      <4> QED
        BY <4>1, <4>3
    <3>2. CASE e # d
      <4>1. got'[e] = got[e] /\ work'[e] = work[e]
        BY <1>1, <3>2 DEF Types
      <4> QED
        BY <4>1 DEF Placed
    <3> QED
      BY <3>1, <3>2
  <2> QED
    BY <2>1, <2>2, <2>3, <2>4 DEF Placed
<1> QED
  BY <1>1, <1>3, <1>4, <1>5, <1>9, <1>10, <1>12

(* TryPush straight to a dispatcher that waits in Pop.                     *)
LEMMA HandOverFacts ==
    ASSUME Types, Placed, NEW r \in Requests, NEW d \in Poppers, HandOver(r, d),
           work[d].at = "pop", work' = [work EXCEPT ![d].at = "try"]
    PROVE  /\ lanes' = lanes /\ got' = [got EXCEPT ![d] = r] /\ got[d] = None
           /\ Placed' /\ ~Waiting(r) /\ ~Held(r)
           /\ \A x \in Requests : /\ Waiting(x)' <=> Waiting(x)
                                  /\ Held(x)' => Held(x) \/ x = r
<1>1. /\ lanes' = lanes /\ got' = [got EXCEPT ![d] = r] /\ got[d] = None
      /\ ~Waiting(r) /\ ~Held(r)
  BY DEF HandOver
<1>2. \A x : Waiting(x)' <=> Waiting(x)
  BY <1>1 DEF Waiting
<1>3. \A x \in Requests : Held(x)' => Held(x) \/ x = r
  BY <1>1 DEF Held, Types
<1>4. Placed'
  <2>1. \A k \in Priorities : Sorted(k, lanes[k])' /\ Once(lanes[k])'
    BY <1>1 DEF Placed, Sorted, Once
  <2>2. \A e, f \in Poppers : e # f /\ got'[e] # None => got'[e] # got'[f]
    <3>1. \A e \in Poppers : got[e] # r
      BY <1>1 DEF Held
    <3>2. got'[d] = r /\ \A e \in Poppers : e # d => got'[e] = got[e]
      BY <1>1 DEF Types
    <3> QED
      BY <1>1, <3>1, <3>2 DEF Placed
  <2>3. ASSUME NEW e \in Poppers
        PROVE  /\ got'[e] = None <=> work'[e].at \in {"pop", "stopped"}
               /\ got'[e] = None => work'[e].model = 1 /\ work'[e].attempt = 1
    <3>1. CASE e = d
      <4>1. got'[e] = r /\ r # None
        BY <1>1, <3>1, NoneAssumption DEF Types
      <4>2. work[d] \in Works /\ work'[e] = [work[d] EXCEPT !.at = "try"]
        BY <3>1 DEF Types
      <4>3. work'[e].at = "try"
        BY <4>2 DEF Works
      <4> QED
        BY <4>1, <4>3
    <3>2. CASE e # d
      <4>1. got'[e] = got[e] /\ work'[e] = work[e]
        BY <1>1, <3>2 DEF Types
      <4> QED
        BY <4>1 DEF Placed
    <3> QED
      BY <3>1, <3>2
  <2> QED
    BY <2>1, <2>2, <2>3 DEF Placed
<1> QED
  BY <1>1, <1>2, <1>3, <1>4

(* The dispatch of a request ends.                                         *)
LEMMA ReleaseFacts ==
    ASSUME Types, Placed, NEW d \in Poppers, Release(d), work' = [work EXCEPT ![d] = Idle]
    PROVE  /\ lanes' = lanes /\ got' = [got EXCEPT ![d] = None]
           /\ got[d] \in Requests /\ Placed'
           /\ \A x \in Requests : /\ Waiting(x)' <=> Waiting(x)
                                  /\ Held(x)' => Held(x) /\ x # got[d]
<1>1. lanes' = lanes /\ got' = [got EXCEPT ![d] = None] /\ got[d] # None
  BY DEF Release
<1>2. got[d] \in Requests
  BY <1>1 DEF Types
<1>3. \A x : Waiting(x)' <=> Waiting(x)
  BY <1>1 DEF Waiting
<1>4. \A x \in Requests : Held(x)' => Held(x) /\ x # got[d]
  <2> SUFFICES ASSUME NEW x \in Requests, NEW e \in Poppers, got'[e] = x
               PROVE  Held(x) /\ x # got[d]
    BY DEF Held
  <2>1. e # d /\ got[e] = x
    BY <1>1, NoneAssumption DEF Types
  <2> QED
    BY <1>1, <2>1 DEF Held, Placed
<1>5. Placed'
  <2>1. \A k \in Priorities : Sorted(k, lanes[k])' /\ Once(lanes[k])'
    BY <1>1 DEF Placed, Sorted, Once
  <2>2. \A e, f \in Poppers : e # f /\ got'[e] # None => got'[e] # got'[f]
    BY <1>1 DEF Placed, Types
  <2>3. ASSUME NEW e \in Poppers
        PROVE  /\ got'[e] = None <=> work'[e].at \in {"pop", "stopped"}
               /\ got'[e] = None => work'[e].model = 1 /\ work'[e].attempt = 1
    <3>1. CASE e = d
      <4>1. got'[e] = None /\ work'[e] = Idle
        BY <1>1, <3>1 DEF Types
      <4> QED
        BY <4>1 DEF Idle
    <3>2. CASE e # d
      <4>1. got'[e] = got[e] /\ work'[e] = work[e]
        BY <1>1, <3>2 DEF Types
      <4> QED
        BY <4>1 DEF Placed
    <3> QED
      BY <3>1, <3>2
  <2> QED
    BY <2>1, <2>2, <2>3 DEF Placed
<1> QED
  BY <1>1, <1>2, <1>3, <1>4, <1>5

Busy == {"try", "give up", "pump", "send", "last send"}

(* A dispatcher that works has a request.                                  *)
LEMMA BusyFacts ==
    ASSUME Types, Placed, NEW d \in Poppers, work[d].at \in Busy
    PROVE  /\ got[d] \in Requests /\ Held(got[d])
           /\ \A e \in Poppers : e # d => got[e] # got[d]
<1>1. got[d] # None
  BY DEF Placed, Busy
<1> QED
  BY <1>1 DEF Types, Held, Placed

(* A dispatcher goes on with its request.                                  *)
LEMMA WorkFacts ==
    ASSUME Types, Placed, NEW d \in Poppers, NEW w, lanes' = lanes, got' = got,
           work' = [work EXCEPT ![d] = w],
           \/ work[d].at \in Busy /\ w.at \in Busy
           \/ /\ work[d].at = "pop" /\ w.at = "stopped"
              /\ w.model = work[d].model /\ w.attempt = work[d].attempt
    PROVE  /\ Placed'
           /\ \A x \in Requests : (Waiting(x)' <=> Waiting(x)) /\ (Held(x)' <=> Held(x))
<1>1. \A x : (Waiting(x)' <=> Waiting(x)) /\ (Held(x)' <=> Held(x))
  BY DEF Waiting, Held
<1>2. \A k \in Priorities : Sorted(k, lanes[k])' /\ Once(lanes[k])'
  BY DEF Placed, Sorted, Once
<1>3. ASSUME NEW e \in Poppers
      PROVE  /\ got'[e] = None <=> work'[e].at \in {"pop", "stopped"}
             /\ got'[e] = None => work'[e].model = 1 /\ work'[e].attempt = 1
  <2>1. CASE e = d
    <3>1. work'[e] = w
      BY <2>1 DEF Types
    <3>2. /\ got[d] = None <=> work[d].at \in {"pop", "stopped"}
          /\ got[d] = None => work[d].model = 1 /\ work[d].attempt = 1
      BY DEF Placed
    <3> QED
      BY <2>1, <3>1, <3>2 DEF Busy
  <2>2. CASE e # d
    <3>1. work'[e] = work[e]
      BY <2>2 DEF Types
    <3> QED
      BY <3>1 DEF Placed
  <2> QED
    BY <2>1, <2>2
<1>4. Placed'
  BY <1>2, <1>3 DEF Placed
<1> QED
  BY <1>1, <1>4

(* What a step leaves alone of a request.                                  *)
LEMMA FrameStory ==
    ASSUME NEW x \in Requests, Story(x), Waiting(x)' => Waiting(x), Held(x)' => Held(x),
           handler'[x] = handler[x] \/ handler'[x] = "cut off",
           reply'[x] = reply[x], resultCh'[x] = resultCh[x],
           closed'[x] = closed[x], read'[x] = read[x], tries'[x] = tries[x]
    PROVE  Story(x)'
  BY DEF Story, Untouched

(* What a step leaves alone of a dispatcher.                               *)
LEMMA FrameDispatcher ==
    ASSUME NEW e \in Poppers, Placed, Retrying(e), Pumping(e),
           got'[e] = got[e], work'[e] = work[e],
           got[e] # None =>
               /\ resultCh'[got[e]] = resultCh[got[e]] \/ resultCh'[got[e]] = <<>>
               /\ handler'[got[e]] = "streaming" => handler[got[e]] = "streaming"
               /\ closed'[got[e]] = closed[got[e]] /\ read'[got[e]] = read[got[e]]
    PROVE  Retrying(e)' /\ Pumping(e)'
<1>1. CASE got[e] = None
  <2>1. work'[e].at \notin {"try", "give up", "pump", "send", "last send"}
    BY <1>1 DEF Placed
  <2> QED
    BY <2>1 DEF Retrying, Pumping
<1>2. CASE got[e] # None
  <2>1. Retrying(e)'
    BY <1>2 DEF Retrying
  <2>2. Pumping(e)'
    BY <1>2 DEF Pumping
  <2> QED
    BY <2>1, <2>2
<1> QED
  BY <1>1, <1>2

(* Nothing the gateway does moves a request.                               *)
LEMMA FrameQueue ==
    ASSUME Placed, lanes' = lanes, got' = got, work' = work
    PROVE  /\ Placed'
           /\ \A x : (Waiting(x)' <=> Waiting(x)) /\ (Held(x)' <=> Held(x))
<1>1. \A x : (Waiting(x)' <=> Waiting(x)) /\ (Held(x)' <=> Held(x))
  BY DEF Waiting, Held
<1>2. Placed'
  BY DEF Placed, Sorted, Once
<1> QED
  BY <1>1, <1>2

(* An empty channel.                                                       *)
LEMMA EmptyFacts == Len(<<>>) = 0 /\ Len(<<>>) <= 1 /\ \A S : <<>> \in Seq(S)
  OBVIOUS

(* Stats.Hook counts one request, as a success or as an error.             *)
LEMMA CountFacts ==
    ASSUME NEW s \in Counters, NEW ok \in BOOLEAN
    PROVE  /\ Count(s, ok) \in Counters
           /\ Count(s, ok).total = s.total + 1
           /\ ok => /\ Count(s, ok).success = s.success + 1
                         /\ Count(s, ok).errors = s.errors
           /\ ~ok => /\ Count(s, ok).success = s.success
                          /\ Count(s, ok).errors = s.errors + 1
<1> DEFINE a == IF ok THEN s.success + 1 ELSE s.success
           b == IF ok THEN s.errors ELSE s.errors + 1
<1>1. /\ s.total \in Nat /\ s.success \in Nat /\ s.errors \in Nat
      /\ s = [total |-> s.total, success |-> s.success, errors |-> s.errors]
  BY DEF Counters
<1>2. a \in Nat /\ b \in Nat
  <2>1. CASE ok
    BY <1>1, <2>1
  <2>2. CASE ~ok
    BY <1>1, <2>2
  <2> QED
    BY <2>1, <2>2
<1> DEFINE t == s.total + 1
           c == Count(s, ok)
<1>3. c = [s EXCEPT !.total = t, !.success = a, !.errors = b]
  BY Zenon DEF Count
<1>3a. t \in Nat
  BY <1>1
<1> HIDE DEF a, b, t, c
<1>4. c \in Counters /\ c.total = t /\ c.success = a /\ c.errors = b
  BY <1>2, <1>3, <1>3a DEF Counters
<1>5. CASE ok
  BY <1>4, <1>5, Zenon DEF a, b, c, t
<1>6. CASE ~ok
  BY <1>4, <1>6, Zenon DEF a, b, c, t
<1> QED
  BY <1>4, <1>5, <1>6 DEF c, t

(* The handler of r returns.                                               *)
LEMMA FinishStep ==
    ASSUME PlaneInv, NEW r \in Requests, NEW answer \in Replies, NEW success \in BOOLEAN,
           Finish(r, answer, success),
           UNCHANGED <<queueVars, chunks, closed, written, work, upstreamVars, process>>,
           \/ resultCh' = resultCh
           \/ resultCh' = [resultCh EXCEPT ![r] = <<>>],
           r \in Streams /\ answer \in {"2xx", "other status"} => ~Held(r) /\ ~Waiting(r)
    PROVE  PlaneInv'
<1>0. Types /\ Roomy /\ Placed /\ (\A x \in Requests : Story(x))
      /\ \A d \in Poppers : Retrying(d) /\ Pumping(d)
  BY DEF PlaneInv
<1>1. /\ handler' = [handler EXCEPT ![r] = "done"] /\ reply' = [reply EXCEPT ![r] = answer]
      /\ stats' = Count(stats, success)
      /\ lanes' = lanes /\ got' = got /\ chunks' = chunks /\ closed' = closed
      /\ written' = written /\ work' = work /\ read' = read /\ tries' = tries
      /\ process' = process
  BY DEF Finish, queueVars, upstreamVars
<1>2. Placed' /\ \A x : (Waiting(x)' <=> Waiting(x)) /\ (Held(x)' <=> Held(x))
  BY <1>0, <1>1, FrameQueue
<1>3. /\ resultCh' \in [Requests -> Seq(Results)]
      /\ \A x \in Requests : resultCh'[x] = resultCh[x] \/ resultCh'[x] = <<>>
      /\ \A x \in Requests : x # r => resultCh'[x] = resultCh[x]
  <2>1. <<>> \in Seq(Results)
    BY EmptyFacts
  <2> QED
    BY <1>0, <2>1 DEF Types
<1>4. Types'
  <2>1. stats' \in Counters
    BY <1>0, <1>1, CountFacts DEF Types
  <2> QED
    BY <1>0, <1>1, <1>3, <2>1 DEF Types
<1>5. Roomy'
  <2>1. Len(<<>>) <= 1
    BY EmptyFacts
  <2>2. \A x \in Requests : Len(resultCh'[x]) <= 1
    BY <1>0, <1>3, <2>1, Zenon DEF Roomy
  <2> QED
    BY <1>0, <1>1, <2>2 DEF Roomy
<1>6. ASSUME NEW x \in Requests
      PROVE  Story(x)'
  <2>1. CASE x # r
    <3>1. handler'[x] = handler[x] /\ reply'[x] = reply[x]
      BY <1>0, <1>1, <2>1 DEF Types
    <3> QED
      BY <1>0, <1>1, <1>2, <1>3, <2>1, <3>1, FrameStory
  <2>2. CASE x = r
    <3>1. handler'[r] = "done" /\ reply'[r] = answer
      BY <1>0, <1>1 DEF Types
    <3>2. resultCh'[r] = resultCh[r] \/ resultCh'[r] = <<>>
      BY <1>3
    <3> QED
      BY <1>0, <1>1, <1>2, <2>2, <3>1, <3>2 DEF Story, Untouched
  <2> QED
    BY <2>1, <2>2
<1>7. ASSUME NEW e \in Poppers
      PROVE  Retrying(e)' /\ Pumping(e)'
  <2>1. got[e] # None => got[e] \in Requests
    BY <1>0 DEF Types
  <2>2. \A x \in Requests : handler'[x] = "streaming" => handler[x] = "streaming"
    BY <1>0, <1>1 DEF Types
  <2> QED
    BY <1>0, <1>1, <1>3, <2>1, <2>2, FrameDispatcher
<1> QED
  BY <1>2, <1>4, <1>5, <1>6, <1>7 DEF PlaneInv

(* Refusals, the timeout and the end of a stream.                          *)
LEMMA ReturnStep ==
    ASSUME PlaneInv, NEW r \in Requests,
           Refuse(r) \/ QueueFull(r) \/ Timeout(r) \/ EndStream(r)
    PROVE  PlaneInv'
<1>1. CASE Refuse(r)
  BY <1>1, FinishStep DEF Refuse, Replies, channelVars
<1>2. CASE QueueFull(r)
  BY <1>2, FinishStep DEF QueueFull, Replies, channelVars
<1>3. CASE Timeout(r)
  BY <1>3, FinishStep DEF Timeout, Replies, channelVars
<1>4. CASE EndStream(r)
  <2>1. Story(r) /\ reply[r] \in Replies
    BY DEF PlaneInv, Types
  <2>2. handler[r] = "streaming" /\ closed[r]
    BY <1>4 DEF EndStream
  <2>3. ~Held(r) /\ ~Waiting(r)
    BY <2>1, <2>2 DEF Story
  <2>4. Finish(r, reply[r], reply[r] = "2xx")
    BY <1>4 DEF EndStream
  <2> QED
    BY <1>4, <2>1, <2>3, <2>4, FinishStep DEF EndStream, channelVars
<1> QED
  BY <1>1, <1>2, <1>3, <1>4

(* The result arrives: a whole answer, or the head of a stream.            *)
LEMMA TakeResultStep ==
    ASSUME PlaneInv, NEW r \in Requests, TakeResult(r)
    PROVE  PlaneInv'
<1> DEFINE s == resultCh[r]
           result == Head(s)
<1>0. Types /\ Roomy /\ Placed /\ (\A x \in Requests : Story(x))
      /\ \A d \in Poppers : Retrying(d) /\ Pumping(d)
  BY DEF PlaneInv
<1>1. /\ handler[r] = "waiting" /\ s # <<>> /\ s \in Seq(Results) /\ Len(s) <= 1
      /\ resultCh' = [resultCh EXCEPT ![r] = Tail(s)]
      /\ UNCHANGED <<queueVars, chunks, closed, written, work, upstreamVars, process>>
  BY <1>0 DEF TakeResult, Types, Roomy
<1>2. Tail(s) = <<>> /\ result \in Results
  <2> HIDE DEF s
  <2> QED
    BY <1>1, TailFacts
<1>3. resultCh' = [resultCh EXCEPT ![r] = <<>>]
  BY <1>1, <1>2
<1>4. ~Waiting(r)
  BY <1>0, <1>1 DEF Story, Untouched
<1>5. result.outcome \in Replies
  BY <1>2 DEF Results, Replies
<1>6. CASE ~result.Streaming
  <2>1. Finish(r, result.outcome, result.outcome = "2xx")
    BY <1>6 DEF TakeResult
  <2>2. r \in Streams => ~Held(r)
    BY <1>0, <1>1, <1>6 DEF Story
  <2> HIDE DEF s, result
  <2> QED
    BY <1>1, <1>3, <1>4, <1>5, <2>1, <2>2, FinishStep
<1>7. CASE result.Streaming
  <2>1. /\ handler' = [handler EXCEPT ![r] = "streaming"]
        /\ reply' = [reply EXCEPT ![r] = result.outcome] /\ stats' = stats
        /\ lanes' = lanes /\ got' = got /\ chunks' = chunks /\ closed' = closed
        /\ written' = written /\ work' = work /\ read' = read /\ tries' = tries
        /\ process' = process
    BY <1>7 DEF TakeResult, queueVars, upstreamVars
  <2> HIDE DEF s, result
  <2>2. Placed' /\ \A x : (Waiting(x)' <=> Waiting(x)) /\ (Held(x)' <=> Held(x))
    BY <1>0, <2>1, FrameQueue
  <2>3. /\ resultCh' \in [Requests -> Seq(Results)]
        /\ resultCh'[r] = <<>>
        /\ \A x \in Requests : x # r => resultCh'[x] = resultCh[x]
    <3>1. <<>> \in Seq(Results)
      BY EmptyFacts
    <3> QED
      BY <1>0, <1>3, <3>1 DEF Types
  <2>4. Types'
    BY <1>0, <1>5, <2>1, <2>3 DEF Types
  <2>5. Roomy'
    <3>1. \A x \in Requests : Len(resultCh'[x]) <= 1
      BY <1>0, <2>3, EmptyFacts, Zenon DEF Roomy
    <3> QED
      BY <1>0, <2>1, <3>1 DEF Roomy
  <2>6. ASSUME NEW x \in Requests
        PROVE  Story(x)'
    <3>1. CASE x # r
      <4>1. handler'[x] = handler[x] /\ reply'[x] = reply[x]
        BY <1>0, <2>1, <3>1 DEF Types
      <4> QED
        BY <1>0, <2>1, <2>2, <2>3, <3>1, <4>1, FrameStory
    <3>2. CASE x = r
      <4>1. handler'[r] = "streaming"
        BY <1>0, <2>1 DEF Types
      <4> QED
        BY <1>0, <1>4, <2>1, <2>2, <2>3, <3>2, <4>1 DEF Story
    <3> QED
      BY <3>1, <3>2
  <2>7. ASSUME NEW e \in Poppers
        PROVE  Retrying(e)' /\ Pumping(e)'
    <3>1. CASE got[e] = r
      <4>1. work[e].at \notin {"try", "give up"}
        BY <1>0, <1>1, <3>1 DEF Retrying, s
      <4>2. Retrying(e)'
        BY <2>1, <4>1 DEF Retrying
      <4>3. Pumping(e)'
        BY <1>0, <2>1 DEF Pumping
      <4> QED
        BY <4>2, <4>3
    <3>2. CASE got[e] # r
      <4>1. got[e] # None => got[e] \in Requests
        BY <1>0 DEF Types
      <4>2. \A x \in Requests : x # r => handler'[x] = handler[x]
        BY <1>0, <2>1 DEF Types
      <4> QED
        BY <1>0, <2>1, <2>3, <3>2, <4>1, <4>2, FrameDispatcher
    <3> QED
      BY <3>1, <3>2
  <2> QED
    BY <2>2, <2>4, <2>5, <2>6, <2>7 DEF PlaneInv
<1> QED
  BY <1>6, <1>7

(* A chunk goes to the client.                                             *)
LEMMA WriteChunkStep ==
    ASSUME PlaneInv, NEW r \in Requests, WriteChunk(r)
    PROVE  PlaneInv'
<1>0. Types /\ Roomy /\ Placed /\ (\A x \in Requests : Story(x))
      /\ \A d \in Poppers : Retrying(d) /\ Pumping(d)
  BY DEF PlaneInv
<1> DEFINE s == chunks[r]
<1>1. /\ s # <<>> /\ s \in Seq(Nat) /\ Len(s) <= ChunkBuffer
      /\ written' = [written EXCEPT ![r] = Append(written[r], Head(s))]
      /\ chunks' = [chunks EXCEPT ![r] = Tail(s)]
      /\ lanes' = lanes /\ got' = got /\ handler' = handler /\ reply' = reply
      /\ stats' = stats /\ resultCh' = resultCh /\ closed' = closed /\ work' = work
      /\ read' = read /\ tries' = tries /\ process' = process
  BY <1>0 DEF WriteChunk, Types, Roomy, queueVars, upstreamVars
<1> HIDE DEF s
<1>2. /\ Head(s) \in Nat /\ Tail(s) \in Seq(Nat) /\ Len(Tail(s)) <= ChunkBuffer
  <2>1. /\ Head(s) \in Nat /\ Tail(s) \in Seq(Nat) /\ Len(Tail(s)) = Len(s) - 1
    BY <1>1, TailFacts
  <2>2. Len(s) \in Nat
    BY <1>1
  <2> QED
    BY <1>1, <2>1, <2>2, ChunkAssumption
<1>3. Append(written[r], Head(s)) \in Seq(Nat)
  BY <1>0, <1>2, AppendFacts DEF Types
<1>4. Types'
  <2>1. written' \in [Requests -> Seq(Nat)] /\ chunks' \in [Requests -> Seq(Nat)]
    BY <1>0, <1>1, <1>2, <1>3 DEF Types
  <2> QED
    BY <1>0, <1>1, <2>1 DEF Types
<1>5. Roomy'
  BY <1>0, <1>1, <1>2 DEF Roomy, Types
<1>6. Placed' /\ \A x : (Waiting(x)' <=> Waiting(x)) /\ (Held(x)' <=> Held(x))
  BY <1>0, <1>1, FrameQueue
<1>7. \A x \in Requests : Story(x)'
  BY <1>0, <1>1, <1>6, FrameStory
<1>8. \A e \in Poppers : Retrying(e)' /\ Pumping(e)'
  BY <1>0, <1>1, FrameDispatcher
<1> QED
  BY <1>4, <1>5, <1>6, <1>7, <1>8 DEF PlaneInv

(* A request is queued.                                                    *)
LEMMA SubmitStep ==
    ASSUME PlaneInv, NEW r \in Requests, Submit(r)
    PROVE  PlaneInv'
<1>0. Types /\ Roomy /\ Placed /\ (\A x \in Requests : Story(x))
      /\ \A d \in Poppers : Retrying(d) /\ Pumping(d)
  BY DEF PlaneInv
<1>1. /\ handler[r] = "new" /\ handler' = [handler EXCEPT ![r] = "waiting"]
      /\ reply' = reply /\ written' = written /\ stats' = stats
      /\ resultCh' = resultCh /\ chunks' = chunks /\ closed' = closed
      /\ read' = read /\ tries' = tries /\ process' = process
  BY DEF Submit, channelVars, upstreamVars
<1>2. handler'[r] = "waiting" /\ \A x \in Requests : x # r => handler'[x] = handler[x]
  BY <1>0, <1>1 DEF Types
<1>3. ~Held(r) /\ ~Waiting(r) /\ Untouched(r)
  BY <1>0, <1>1 DEF Story
<1>4. Roomy'
  BY <1>0, <1>1 DEF Roomy
<1>5. CASE Accept(r) /\ work' = work
  <2>1. /\ lanes' \in [Priorities -> Seq(Requests)] /\ got' = got /\ Placed'
        /\ \A x \in Requests : /\ Waiting(x)' => Waiting(x) \/ x = r
                               /\ Held(x)' <=> Held(x)
    BY <1>0, <1>5, AcceptFacts
  <2>2. Types'
    BY <1>0, <1>1, <1>5, <2>1 DEF Types
  <2>3. ASSUME NEW x \in Requests
        PROVE  Story(x)'
    <3>1. CASE x # r
      BY <1>0, <1>1, <1>2, <2>1, <3>1, FrameStory
    <3>2. CASE x = r
      BY <1>1, <1>2, <1>3, <2>1, <3>2 DEF Story, Untouched
    <3> QED
      BY <3>1, <3>2
  <2>4. \A e \in Poppers : Retrying(e)' /\ Pumping(e)'
    <3>1. \A x \in Requests : handler'[x] = "streaming" => handler[x] = "streaming"
      BY <1>2
    <3>2. \A e \in Poppers : got[e] # None => got[e] \in Requests
      BY <1>0 DEF Types
    <3> QED
      BY <1>0, <1>1, <1>5, <2>1, <3>1, <3>2, FrameDispatcher
  <2> QED
    BY <1>4, <2>1, <2>2, <2>3, <2>4 DEF PlaneInv
<1>6. ASSUME NEW d \in Poppers, work[d].at = "pop", HandOver(r, d),
             work' = [work EXCEPT ![d].at = "try"]
      PROVE  PlaneInv'
  <2>1. /\ lanes' = lanes /\ got' = [got EXCEPT ![d] = r] /\ got[d] = None /\ Placed'
        /\ \A x \in Requests : /\ Waiting(x)' <=> Waiting(x)
                               /\ Held(x)' => Held(x) \/ x = r
    BY <1>0, <1>6, HandOverFacts
  <2>2. Types'
    <3>1. work' \in [Poppers -> Works]
      BY <1>0, <1>6 DEF Types, Works, WorkPlaces
    <3> QED
      BY <1>0, <1>1, <2>1, <3>1 DEF Types
  <2>3. ASSUME NEW x \in Requests
        PROVE  Story(x)'
    <3>1. CASE x # r
      BY <1>0, <1>1, <1>2, <2>1, <3>1, FrameStory
    <3>2. CASE x = r
      BY <1>1, <1>2, <1>3, <2>1, <3>2 DEF Story, Untouched
    <3> QED
      BY <3>1, <3>2
  <2>4. ASSUME NEW e \in Poppers
        PROVE  Retrying(e)' /\ Pumping(e)'
    <3>1. CASE e = d
      <4>1. got'[e] = r /\ work'[e].at = "try"
        BY <1>0, <1>6, <2>1, <3>1 DEF Types, Works
      <4>2. Retrying(e)'
        BY <1>1, <1>2, <1>3, <4>1 DEF Retrying, Untouched
      <4>3. Pumping(e)'
        BY <4>1 DEF Pumping
      <4> QED
        BY <4>2, <4>3
    <3>2. CASE e # d
      <4>1. got'[e] = got[e] /\ work'[e] = work[e]
        BY <1>0, <1>6, <2>1, <3>2 DEF Types
      <4>2. \A x \in Requests : handler'[x] = "streaming" => handler[x] = "streaming"
        BY <1>2
      <4>3. got[e] # None => got[e] \in Requests
        BY <1>0 DEF Types
      <4> QED
        BY <1>0, <1>1, <4>1, <4>2, <4>3, FrameDispatcher
    <3> QED
      BY <3>1, <3>2
  <2> QED
    BY <1>4, <2>1, <2>2, <2>3, <2>4 DEF PlaneInv
<1> QED
  BY <1>5, <1>6 DEF Submit

(* What only concerns the request a dispatcher has leaves the others alone.*)
Only(r) ==
    /\ tries' \in [Requests -> Nat] /\ read' \in [Requests -> Nat]
    /\ chunks' \in [Requests -> Seq(Nat)] /\ resultCh' \in [Requests -> Seq(Results)]
    /\ closed' \in [Requests -> BOOLEAN]
    /\ \A x \in Requests : Len(resultCh'[x]) <= 1 /\ Len(chunks'[x]) <= ChunkBuffer
    /\ \A x \in Requests : x # r =>
          /\ tries'[x] = tries[x] /\ read'[x] = read[x]
          /\ resultCh'[x] = resultCh[x] /\ closed'[x] = closed[x]

(* A dispatcher goes on with its request.                                  *)
LEMMA WorkStep ==
    ASSUME PlaneInv, NEW d \in Poppers, work[d].at \in Busy, Only(got[d]),
           NEW w \in Works, w.at \in Busy, work' = [work EXCEPT ![d] = w],
           lanes' = lanes, got' = got, UNCHANGED gatewayVars, process' = process,
           closed' = closed,
           resultCh'[got[d]] # <<>> =>
               resultCh' = resultCh \/ Head(resultCh'[got[d]]).Streaming,
           Retrying(d)', Pumping(d)'
    PROVE  PlaneInv'
<1> DEFINE r == got[d]
<1>0. Types /\ Roomy /\ Placed /\ (\A x \in Requests : Story(x))
      /\ \A e \in Poppers : Retrying(e) /\ Pumping(e)
  BY DEF PlaneInv
<1>1. r \in Requests /\ Held(r) /\ \A e \in Poppers : e # d => got[e] # r
  BY <1>0, BusyFacts
<1>2. handler' = handler /\ reply' = reply /\ written' = written /\ stats' = stats
  BY DEF gatewayVars
<1>3. Placed' /\ \A x \in Requests : (Waiting(x)' <=> Waiting(x)) /\ (Held(x)' <=> Held(x))
  BY <1>0, WorkFacts
<1>4. Types'
  <2>1. work' \in [Poppers -> Works]
    BY <1>0 DEF Types
  <2> QED
    BY <1>0, <1>2, <2>1 DEF Types, Only
<1>5. Roomy'
  BY DEF Roomy, Only
<1>6. ASSUME NEW x \in Requests
      PROVE  Story(x)'
  <2>1. CASE x # r
    BY <1>0, <1>2, <1>3, <2>1, FrameStory DEF Only
  <2>2. CASE x = r
    <3>1. Story(r)
      BY <1>0, <1>1
    <3> QED
      BY <1>1, <1>2, <1>3, <2>2, <3>1 DEF Story
  <2> QED
    BY <2>1, <2>2
<1>7. ASSUME NEW e \in Poppers
      PROVE  Retrying(e)' /\ Pumping(e)'
  <2>1. CASE e # d
    <3>1. work'[e] = work[e] /\ got[e] # r
      BY <1>0, <1>1, <2>1 DEF Types
    <3>2. got[e] # None => got[e] \in Requests
      BY <1>0 DEF Types
    <3> HIDE DEF r
    <3>3. \A x \in Requests : x # r =>
              resultCh'[x] = resultCh[x] /\ closed'[x] = closed[x] /\ read'[x] = read[x]
      BY DEF Only, r
    <3> QED
      BY <1>0, <1>2, <3>1, <3>2, <3>3, FrameDispatcher
  <2> QED
    BY <2>1
<1> QED
  BY <1>3, <1>4, <1>5, <1>6, <1>7 DEF PlaneInv

(* The dispatch of a request ends.                                         *)
LEMMA DoneStep ==
    ASSUME PlaneInv, NEW d \in Poppers, work[d].at \in Busy, Only(got[d]),
           work' = [work EXCEPT ![d] = Idle], Release(d),
           UNCHANGED gatewayVars, process' = process,
           \/ resultCh' = resultCh
           \/ got[d] \in Streams => read'[got[d]] = 0
    PROVE  PlaneInv'
<1> DEFINE r == got[d]
<1>0. Types /\ Roomy /\ Placed /\ (\A x \in Requests : Story(x))
      /\ \A e \in Poppers : Retrying(e) /\ Pumping(e)
  BY DEF PlaneInv
<1>1. r \in Requests /\ Held(r) /\ \A e \in Poppers : e # d => got[e] # r
  BY <1>0, BusyFacts
<1>2. handler' = handler /\ reply' = reply /\ written' = written /\ stats' = stats
  BY DEF gatewayVars
<1>3. /\ lanes' = lanes /\ got' = [got EXCEPT ![d] = None] /\ Placed'
      /\ \A x \in Requests : (Waiting(x)' <=> Waiting(x)) /\ (Held(x)' => Held(x) /\ x # r)
  BY <1>0, ReleaseFacts
<1>4. Types'
  <2>1. Idle \in Works
    BY ChainAssumption, AttemptsAssumption DEF Idle, Works, WorkPlaces
  <2>2. work' \in [Poppers -> Works]
    BY <1>0, <2>1 DEF Types
  <2> QED
    BY <1>0, <1>2, <1>3, <2>2 DEF Types, Only
<1>5. Roomy'
  BY DEF Roomy, Only
<1>6. ASSUME NEW x \in Requests
      PROVE  Story(x)'
  <2>1. CASE x # r
    BY <1>0, <1>2, <1>3, <2>1, FrameStory DEF Only
  <2>2. CASE x = r
    <3>1. Story(r)
      BY <1>0, <1>1
    <3>2. ~Held(x)' /\ ~Waiting(x) /\ ~Waiting(x)' /\ handler'[x] # "new"
      BY <1>1, <1>2, <1>3, <2>2, <3>1 DEF Story
    <3>3. /\ Held(x) /\ Story(x)
          /\ resultCh' = resultCh \/ (x \in Streams => read'[x] = 0)
      BY <1>1, <2>2, <3>1
    <3>4. x \in Streams /\ resultCh'[x] # <<>> /\ ~Head(resultCh'[x]).Streaming =>
              read'[x] = 0
      BY <3>3 DEF Story
    <3> QED
      BY <3>2, <3>4 DEF Story
  <2> QED
    BY <2>1, <2>2
<1>7. ASSUME NEW e \in Poppers
      PROVE  Retrying(e)' /\ Pumping(e)'
  <2>1. CASE e # d
    <3>1. work'[e] = work[e] /\ got'[e] = got[e] /\ got[e] # r
      BY <1>0, <1>1, <1>3, <2>1 DEF Types
    <3>2. got[e] # None => got[e] \in Requests
      BY <1>0 DEF Types
    <3> HIDE DEF r
    <3>3. \A x \in Requests : x # r =>
              resultCh'[x] = resultCh[x] /\ closed'[x] = closed[x] /\ read'[x] = read[x]
      BY DEF Only, r
    <3> QED
      BY <1>0, <1>2, <3>1, <3>2, <3>3, FrameDispatcher
  <2>2. CASE e = d
    <3>1. work'[e].at = "pop"
      BY <1>0, <2>2 DEF Types, Idle
    <3> QED
      BY <3>1 DEF Retrying, Pumping
  <2> QED
    BY <2>1, <2>2
<1> QED
  BY <1>3, <1>4, <1>5, <1>6, <1>7 DEF PlaneInv

(* A result is put into the empty ResultCh.                                *)
LEMMA SendFacts ==
    ASSUME Types, Roomy, NEW r \in Requests, resultCh[r] = <<>>, NEW res \in Results,
           Send(r, res)
    PROVE  /\ resultCh' \in [Requests -> Seq(Results)]
           /\ resultCh'[r] # <<>> /\ Head(resultCh'[r]) = res
           /\ \A x \in Requests : Len(resultCh'[x]) <= 1
           /\ \A x \in Requests : x # r => resultCh'[x] = resultCh[x]
<1> DEFINE s == Append(<<>>, res)
<1>1. /\ s \in Seq(Results) /\ s # <<>> /\ Head(s) = res /\ Len(s) <= 1
  <2>1. s = <<res>>
    OBVIOUS
  <2> QED
    BY <2>1
<1>2. resultCh' = [resultCh EXCEPT ![r] = s]
  BY DEF Send
<1> HIDE DEF s
<1>3. resultCh'[r] = s /\ \A x \in Requests : x # r => resultCh'[x] = resultCh[x]
  BY <1>2 DEF Types
<1> QED
  BY <1>1, <1>2, <1>3 DEF Types, Roomy

(* The loop over models and attempts goes on within its bounds.            *)
LEMMA AfterRetryableFacts ==
    ASSUME NEW w \in Works, w.at = "try"
    PROVE  LET v == AfterRetryable(w) IN
           /\ v \in Works
           /\ \/ /\ w.attempt < maxAttempts
                 /\ v.at = "try" /\ v.model = w.model /\ v.attempt = w.attempt + 1
              \/ /\ w.attempt = maxAttempts /\ w.model < ChainLength
                 /\ v.at = "try" /\ v.model = w.model + 1 /\ v.attempt = 1
              \/ /\ w.attempt = maxAttempts /\ w.model = ChainLength
                 /\ v.at = "give up" /\ v.model = w.model
<1>1. /\ w.model \in 1..ChainLength /\ w.attempt \in 1..maxAttempts
      /\ w = [at |-> w.at, model |-> w.model, attempt |-> w.attempt]
  BY DEF Works
<1> DEFINE a == w.attempt + 1
           m == w.model + 1
<1>2. CASE w.attempt < maxAttempts
  <2>1. AfterRetryable(w) = [w EXCEPT !.attempt = a]
    BY <1>2 DEF AfterRetryable
  <2>2. a \in 1..maxAttempts
    BY <1>1, <1>2, AttemptsAssumption
  <2> HIDE DEF a
  <2>3. [w EXCEPT !.attempt = a] \in Works
    BY <2>2 DEF Works
  <2>4. [w EXCEPT !.attempt = a].at = w.at /\ [w EXCEPT !.attempt = a].model = w.model
        /\ [w EXCEPT !.attempt = a].attempt = a
    BY DEF Works
  <2> QED
    BY <1>2, <2>1, <2>3, <2>4 DEF a
<1>3. CASE w.attempt >= maxAttempts /\ w.model < ChainLength
  <2>1. AfterRetryable(w) = [w EXCEPT !.model = m, !.attempt = 1]
    BY <1>1, <1>3, AttemptsAssumption DEF AfterRetryable
  <2>2. m \in 1..ChainLength /\ 1 \in 1..maxAttempts
    BY <1>1, <1>3, ChainAssumption, AttemptsAssumption
  <2>3. w.attempt = maxAttempts
    BY <1>1, <1>3, AttemptsAssumption
  <2> HIDE DEF m
  <2>4. [w EXCEPT !.model = m, !.attempt = 1] \in Works
    BY <2>2 DEF Works
  <2>5. /\ [w EXCEPT !.model = m, !.attempt = 1].at = w.at
        /\ [w EXCEPT !.model = m, !.attempt = 1].model = m
        /\ [w EXCEPT !.model = m, !.attempt = 1].attempt = 1
    BY DEF Works
  <2> QED
    BY <1>3, <2>1, <2>3, <2>4, <2>5 DEF m
<1>4. CASE w.attempt >= maxAttempts /\ w.model >= ChainLength
  <2>1. AfterRetryable(w) = [w EXCEPT !.at = "give up"]
    <3>1. ~(w.attempt < maxAttempts) /\ ~(w.model < ChainLength)
      BY <1>1, <1>4, AttemptsAssumption, ChainAssumption
    <3> QED
      BY <3>1, Zenon DEF AfterRetryable
  <2>2. w.attempt = maxAttempts /\ w.model = ChainLength
    BY <1>1, <1>4, AttemptsAssumption, ChainAssumption
  <2>3. [w EXCEPT !.at = "give up"] \in Works
    BY DEF Works, WorkPlaces
  <2>4. /\ [w EXCEPT !.at = "give up"].at = "give up"
        /\ [w EXCEPT !.at = "give up"].model = w.model
    BY DEF Works
  <2> QED
    BY <2>1, <2>2, <2>3, <2>4
<1>5. \/ w.attempt < maxAttempts
      \/ w.attempt >= maxAttempts /\ w.model < ChainLength
      \/ w.attempt >= maxAttempts /\ w.model >= ChainLength
  BY <1>1, AttemptsAssumption, ChainAssumption
<1> QED
  BY <1>2, <1>3, <1>4, <1>5

(* An attempt fails and the retry loop goes on.                            *)
LEMMA AttemptFailsStep ==
    ASSUME PlaneInv, NEW d \in Poppers, AttemptFails(d)
    PROVE  /\ PlaneInv' /\ got' = got /\ got[d] \in Requests /\ resultCh' = resultCh
           /\ work'[d] = AfterRetryable(work[d])
           /\ \A e \in Poppers : e # d => work'[e] = work[e] /\ got[e] # got[d]
<1> DEFINE r == got[d]
           w == AfterRetryable(work[d])
<1>0. Types /\ Roomy /\ Placed /\ Retrying(d)
  BY DEF PlaneInv
<1>1. /\ work[d].at = "try" /\ work[d] \in Works
      /\ tries' = [tries EXCEPT ![r] = tries[r] + 1]
      /\ work' = [work EXCEPT ![d] = w]
      /\ lanes' = lanes /\ got' = got /\ UNCHANGED gatewayVars
      /\ resultCh' = resultCh /\ chunks' = chunks /\ closed' = closed
      /\ read' = read /\ process' = process
  BY <1>0 DEF AttemptFails, Types, queueVars, channelVars
<1>2. work[d].at \in Busy
  BY <1>1 DEF Busy
<1>3. r \in Requests /\ \A e \in Poppers : e # d => got[e] # r
  BY <1>0, <1>2, BusyFacts
<1>4. w \in Works /\ w.at \in {"try", "give up"}
  BY <1>1, AfterRetryableFacts
<1>5. work'[d] = w /\ \A e \in Poppers : e # d => work'[e] = work[e]
  BY <1>0, <1>1 DEF Types
<1> HIDE DEF w
<1>6. Only(r)
  <2>0. tries \in [Requests -> Nat] /\ tries' = [tries EXCEPT ![r] = tries[r] + 1]
    BY <1>0, <1>1 DEF Types
  <2>1. tries' \in [Requests -> Nat] /\ \A x \in Requests : x # r => tries'[x] = tries[x]
    BY <1>3, <2>0, CountedUp
  <2> QED
    BY <1>0, <1>1, <2>1 DEF Only, Types, Roomy
<1>7. Retrying(d)'
  BY <1>0, <1>1 DEF Retrying, gatewayVars
<1>8. Pumping(d)'
  BY <1>4, <1>5 DEF Pumping
<1>9. w.at \in Busy
  BY <1>4 DEF Busy
<1>10. PlaneInv'
  BY <1>1, <1>2, <1>4, <1>6, <1>7, <1>8, <1>9, WorkStep
<1> QED
  BY <1>1, <1>3, <1>5, <1>10 DEF w

(* A counter of a request goes up.                                         *)
LEMMA BumpFacts ==
    ASSUME NEW f \in [Requests -> Nat], NEW r \in Requests, NEW g,
           g = f \/ g = [f EXCEPT ![r] = f[r] + 1]
    PROVE  g \in [Requests -> Nat] /\ \A x \in Requests : x # r => g[x] = f[x]
  OBVIOUS

(* The defer closes the Chunks of a stream.                                *)
LEMMA CloseFacts ==
    ASSUME NEW f \in [Requests -> BOOLEAN], NEW r \in Requests, NEW g,
           g = [f EXCEPT ![r] = r \in Streams]
    PROVE  g \in [Requests -> BOOLEAN] /\ \A x \in Requests : x # r => g[x] = f[x]
<1> DEFINE b == r \in Streams
<1>1. b \in BOOLEAN
  OBVIOUS
<1>2. g = [f EXCEPT ![r] = b]
  OBVIOUS
<1> HIDE DEF b
<1> QED
  BY <1>1, <1>2

(* A stream is committed to: its head is sent, the body follows.           *)
LEMMA AttemptCommitsStep ==
    ASSUME PlaneInv, NEW d \in Poppers, AttemptCommits(d)
    PROVE  PlaneInv'
<1> DEFINE r == got[d]
           w == Committed(work[d])
<1>0. Types /\ Roomy /\ Placed /\ Retrying(d)
  BY DEF PlaneInv
<1>1. /\ work[d].at = "try" /\ work[d] \in Works /\ r \in Streams
      /\ tries' = [tries EXCEPT ![r] = tries[r] + 1]
      /\ work' = [work EXCEPT ![d] = w]
      /\ lanes' = lanes /\ got' = got /\ UNCHANGED gatewayVars
      /\ chunks' = chunks /\ closed' = closed
      /\ read' = read /\ process' = process
  BY <1>0 DEF AttemptCommits, Types, queueVars
<1>2. work[d].at \in Busy
  BY <1>1 DEF Busy
<1>3. r \in Requests
  BY <1>0, <1>2, BusyFacts
<1>4. w \in Works /\ w.at = "pump" /\ w.at \in Busy
  BY <1>1 DEF Committed, Works, WorkPlaces, Busy
<1>5. work'[d] = w
  BY <1>0, <1>1 DEF Types
<1>6. PICK o \in {"2xx", "other status"} : Send(r, Result(o, work[d].model, TRUE))
  BY DEF AttemptCommits
<1>7. /\ Result(o, work[d].model, TRUE) \in Results
      /\ Result(o, work[d].model, TRUE).Streaming
  BY <1>1 DEF Result, Results, Outcomes, Works
<1>8. resultCh[r] = <<>>
  BY <1>0, <1>1 DEF Retrying
<1>9. /\ resultCh' \in [Requests -> Seq(Results)]
      /\ Head(resultCh'[r]).Streaming
      /\ \A x \in Requests : Len(resultCh'[x]) <= 1
      /\ \A x \in Requests : x # r => resultCh'[x] = resultCh[x]
  BY <1>0, <1>3, <1>6, <1>7, <1>8, SendFacts
<1> HIDE DEF w
<1>10. Only(r)
  <2>1. tries' \in [Requests -> Nat] /\ \A x \in Requests : x # r => tries'[x] = tries[x]
    <3>1. tries \in [Requests -> Nat] /\ tries' = [tries EXCEPT ![r] = tries[r] + 1]
      BY <1>0, <1>1 DEF Types
    <3> QED
      BY <1>3, <3>1, BumpFacts
  <2> QED
    BY <1>0, <1>1, <1>9, <2>1 DEF Only, Types, Roomy
<1>11. Retrying(d)' /\ Pumping(d)'
  BY <1>1, <1>4, <1>5 DEF Retrying, Pumping
<1> QED
  BY <1>1, <1>2, <1>4, <1>9, <1>10, <1>11, WorkStep

(* Reading the body and passing it on.                                     *)
LEMMA PumpStep ==
    ASSUME PlaneInv, NEW d \in Poppers,
           \/ \E eof \in BOOLEAN : ReadChunk(d, eof)
           \/ SendChunk(d)
           \/ EndOfBody(d)
    PROVE  PlaneInv'
<1> DEFINE r == got[d]
<1>0. Types /\ Roomy /\ Placed /\ Retrying(d) /\ Pumping(d)
  BY DEF PlaneInv
<1>1. /\ work[d].at \in {"pump", "send", "last send"} /\ work[d] \in Works
      /\ UNCHANGED gatewayVars /\ resultCh' = resultCh /\ tries' = tries
      /\ process' = process
  BY <1>0 DEF ReadChunk, SendChunk, EndOfBody, channelVars, upstreamVars, Types
<1>2. work[d].at \in Busy /\ r \in Streams
  BY <1>0, <1>1 DEF Busy, Pumping
<1>3. r \in Requests
  BY <1>0, <1>2, BusyFacts
<1>4. ASSUME NEW eof \in BOOLEAN, ReadChunk(d, eof)
      PROVE  PlaneInv'
  <2> DEFINE w == [work[d] EXCEPT !.at = AfterRead(eof)]
  <2>1. /\ read' = [read EXCEPT ![r] = read[r] + 1]
        /\ work' = [work EXCEPT ![d] = w]
        /\ lanes' = lanes /\ got' = got /\ chunks' = chunks /\ closed' = closed
    BY <1>4 DEF ReadChunk, queueVars, channelVars
  <2>2. w \in Works /\ w.at \in {"send", "last send"}
    BY <1>1 DEF AfterRead, Works, WorkPlaces
  <2>3. work'[d] = w /\ w.at \in Busy
    BY <1>0, <2>1, <2>2 DEF Types, Busy
  <2> HIDE DEF w
  <2>4. /\ read' \in [Requests -> Nat] /\ read'[r] >= 1
        /\ \A x \in Requests : x # r => read'[x] = read[x]
    <3>1. read \in [Requests -> Nat]
      BY <1>0 DEF Types
    <3> QED
      BY <1>3, <2>1, <3>1, CountedUp
  <2>5. Only(r)
    BY <1>0, <1>1, <2>1, <2>4 DEF Only, Types, Roomy
  <2>6. Retrying(d)' /\ Pumping(d)'
    BY <1>2, <2>1, <2>2, <2>3, <2>4 DEF Retrying, Pumping
  <2> QED
    BY <1>1, <1>2, <2>1, <2>2, <2>3, <2>5, <2>6, WorkStep
<1>5. CASE SendChunk(d)
  <2>1. /\ chunks' = [chunks EXCEPT ![r] = Append(chunks[r], read[r])]
        /\ Len(chunks[r]) < ChunkBuffer /\ read' = read
    BY <1>5 DEF SendChunk, upstreamVars
  <2>2. /\ chunks[r] \in Seq(Nat) /\ read[r] \in Nat
    BY <1>0, <1>3 DEF Types
  <2>3. /\ Append(chunks[r], read[r]) \in Seq(Nat)
        /\ Len(Append(chunks[r], read[r])) <= ChunkBuffer
    BY <2>1, <2>2, AppendFacts, ChunkAssumption
  <2>4. chunks' \in [Requests -> Seq(Nat)] /\ \A x \in Requests : Len(chunks'[x]) <= ChunkBuffer
    BY <1>0, <1>3, <2>1, <2>3 DEF Types, Roomy
  <2>5. CASE work[d].at = "last send"
    <3>1. /\ work' = [work EXCEPT ![d] = Idle] /\ Release(d)
          /\ closed' = [closed EXCEPT ![r] = r \in Streams]
      BY <1>5, <2>5 DEF SendChunk, Done
    <3>2. closed' \in [Requests -> BOOLEAN] /\ \A x \in Requests : x # r => closed'[x] = closed[x]
      <4>1. closed \in [Requests -> BOOLEAN] /\ closed' = [closed EXCEPT ![r] = r \in Streams]
        BY <1>0, <3>1 DEF Types
      <4> QED
        BY <1>3, <4>1, CloseFacts
    <3>3. Only(r)
      BY <1>0, <1>1, <2>1, <2>4, <3>2 DEF Only, Types, Roomy
    <3> QED
      BY <1>1, <1>2, <3>1, <3>3, DoneStep
  <2>6. CASE work[d].at # "last send"
    <3> DEFINE w == [work[d] EXCEPT !.at = "pump"]
    <3>1. work' = [work EXCEPT ![d] = w] /\ lanes' = lanes /\ got' = got /\ closed' = closed
      BY <1>5, <2>6 DEF SendChunk, queueVars
    <3>2. w \in Works /\ w.at = "pump" /\ w.at \in Busy
      BY <1>1 DEF Works, WorkPlaces, Busy
    <3>3. work'[d] = w
      BY <1>0, <3>1 DEF Types
    <3> HIDE DEF w
    <3>4. Only(r)
      BY <1>0, <1>1, <2>1, <2>4, <3>1 DEF Only, Types, Roomy
    <3>5. Retrying(d)' /\ Pumping(d)'
      BY <1>2, <3>1, <3>2, <3>3 DEF Retrying, Pumping
    <3> QED
      BY <1>1, <1>2, <3>1, <3>2, <3>4, <3>5, WorkStep
  <2> QED
    BY <2>5, <2>6
<1>6. CASE EndOfBody(d)
  <2>1. /\ work' = [work EXCEPT ![d] = Idle] /\ Release(d)
        /\ closed' = [closed EXCEPT ![r] = r \in Streams]
        /\ chunks' = chunks /\ read' = read
    BY <1>6 DEF EndOfBody, Done, upstreamVars
  <2>2. closed' \in [Requests -> BOOLEAN] /\ \A x \in Requests : x # r => closed'[x] = closed[x]
    <3>1. closed \in [Requests -> BOOLEAN] /\ closed' = [closed EXCEPT ![r] = r \in Streams]
      BY <1>0, <2>1 DEF Types
    <3> QED
      BY <1>3, <3>1, CloseFacts
  <2>3. Only(r)
    BY <1>0, <1>1, <2>1, <2>2 DEF Only, Types, Roomy
  <2> QED
    BY <1>1, <1>2, <2>1, <2>3, DoneStep
<1> QED
  BY <1>4, <1>5, <1>6

(* A dispatch ends with a result: the answer of an attempt, or the last    *)
(* failure.                                                                *)
LEMMA AnswerStep ==
    ASSUME PlaneInv, NEW d \in Poppers, AttemptAnswered(d) \/ GiveUp(d)
    PROVE  PlaneInv'
<1> DEFINE r == got[d]
<1>0. Types /\ Roomy /\ Placed /\ Retrying(d)
  BY DEF PlaneInv
<1>1. /\ work[d].at \in {"try", "give up"} /\ work[d] \in Works
      /\ work' = [work EXCEPT ![d] = Idle] /\ Release(d)
      /\ closed' = [closed EXCEPT ![r] = r \in Streams]
      /\ UNCHANGED gatewayVars /\ chunks' = chunks /\ read' = read
      /\ process' = process
      /\ tries' = tries \/ tries' = [tries EXCEPT ![r] = tries[r] + 1]
  BY <1>0 DEF AttemptAnswered, GiveUp, Done, upstreamVars, Types
<1>2. work[d].at \in Busy
  BY <1>1 DEF Busy
<1>3. r \in Requests
  BY <1>0, <1>2, BusyFacts
<1>4. resultCh[r] = <<>> /\ read[r] = 0
  BY <1>0, <1>1 DEF Retrying
<1>5. PICK o \in Outcomes : Send(r, Result(o, work[d].model, FALSE))
  BY DEF AttemptAnswered, GiveUp, Outcomes
<1>6. Result(o, work[d].model, FALSE) \in Results
  BY <1>1 DEF Result, Results, Works
<1>7. /\ resultCh' \in [Requests -> Seq(Results)]
      /\ \A x \in Requests : Len(resultCh'[x]) <= 1
      /\ \A x \in Requests : x # r => resultCh'[x] = resultCh[x]
  BY <1>0, <1>3, <1>4, <1>5, <1>6, SendFacts
<1>8. closed' \in [Requests -> BOOLEAN] /\ \A x \in Requests : x # r => closed'[x] = closed[x]
  <2>1. closed \in [Requests -> BOOLEAN] /\ closed' = [closed EXCEPT ![r] = r \in Streams]
    BY <1>0, <1>1 DEF Types
  <2> QED
    BY <1>3, <2>1, CloseFacts
<1>9. tries' \in [Requests -> Nat] /\ \A x \in Requests : x # r => tries'[x] = tries[x]
  <2>1. tries \in [Requests -> Nat]
    BY <1>0 DEF Types
  <2>2. tries' = tries \/ tries' = [tries EXCEPT ![r] = tries[r] + 1]
    BY <1>1
  <2> QED
    BY <1>3, <2>1, <2>2, BumpFacts
<1>10. Only(r)
  BY <1>0, <1>1, <1>7, <1>8, <1>9 DEF Only, Types, Roomy
<1> QED
  BY <1>1, <1>2, <1>4, <1>10, DoneStep

(* A dispatcher pops a request, or leaves.                                 *)
LEMMA PopStep ==
    ASSUME PlaneInv, NEW d \in Poppers, PopRequest(d) \/ StopWorker(d)
    PROVE  PlaneInv'
<1>0. Types /\ Roomy /\ Placed /\ (\A x \in Requests : Story(x))
      /\ \A e \in Poppers : Retrying(e) /\ Pumping(e)
  BY DEF PlaneInv
<1>1. /\ work[d].at = "pop" /\ work[d] \in Works
      /\ handler' = handler /\ reply' = reply /\ written' = written /\ stats' = stats
      /\ resultCh' = resultCh /\ chunks' = chunks /\ closed' = closed
      /\ read' = read /\ tries' = tries /\ process' = process
  BY <1>0 DEF PopRequest, StopWorker, gatewayVars, channelVars, upstreamVars, Types
<1>2. Roomy'
  BY <1>0, <1>1 DEF Roomy
<1>3. CASE PopRequest(d)
  <2>1. PICK l \in Priorities : Take(d, l)
    BY <1>3 DEF PopRequest
  <2>2. work' = [work EXCEPT ![d].at = "try"]
    BY <1>3 DEF PopRequest
  <2>3. \A x \in Requests : Waiting(x) => ~Held(x)
    BY <1>0 DEF Story
  <2>4. PICK r \in Requests :
             /\ lanes' \in [Priorities -> Seq(Requests)]
             /\ got' = [got EXCEPT ![d] = r] /\ got[d] = None /\ Placed'
             /\ Waiting(r)
             /\ \A x \in Requests : /\ Waiting(x)' => Waiting(x) /\ x # r
                                    /\ Held(x)' => Held(x) \/ x = r
    BY <1>0, <1>1, <2>1, <2>2, <2>3, TakeFacts
  <2>5. Untouched(r) /\ handler[r] # "streaming" /\ handler[r] # "new" /\ Story(r)
    BY <1>0, <2>4 DEF Story
  <2>6. Types'
    <3>1. work' \in [Poppers -> Works]
      BY <1>0, <2>2 DEF Types, Works, WorkPlaces
    <3> QED
      BY <1>0, <1>1, <2>4, <3>1 DEF Types
  <2>7. ASSUME NEW x \in Requests
        PROVE  Story(x)'
    <3>1. CASE x # r
      BY <1>0, <1>1, <2>4, <3>1, FrameStory
    <3>2. CASE x = r
      BY <1>1, <2>4, <2>5, <3>2 DEF Story, Untouched
    <3> QED
      BY <3>1, <3>2
  <2>8. ASSUME NEW e \in Poppers
        PROVE  Retrying(e)' /\ Pumping(e)'
    <3>1. CASE e = d
      <4>1. got'[e] = r /\ work'[e].at = "try"
        BY <1>0, <2>2, <2>4, <3>1 DEF Types, Works
      <4>2. Retrying(e)'
        BY <1>1, <2>5, <4>1 DEF Retrying, Untouched
      <4>3. Pumping(e)'
        BY <4>1 DEF Pumping
      <4> QED
        BY <4>2, <4>3
    <3>2. CASE e # d
      <4>1. got'[e] = got[e] /\ work'[e] = work[e]
        BY <1>0, <2>2, <2>4, <3>2 DEF Types
      <4> QED
        BY <1>0, <1>1, <4>1, FrameDispatcher
    <3> QED
      BY <3>1, <3>2
  <2> QED
    BY <1>2, <2>4, <2>6, <2>7, <2>8 DEF PlaneInv
<1>4. CASE StopWorker(d)
  <2> DEFINE w == [work[d] EXCEPT !.at = "stopped"]
  <2>1. work' = [work EXCEPT ![d] = w] /\ lanes' = lanes /\ got' = got
    BY <1>4 DEF StopWorker, queueVars
  <2>2. w \in Works /\ w.at = "stopped" /\ w.model = work[d].model /\ w.attempt = work[d].attempt
    BY <1>1 DEF Works, WorkPlaces
  <2>3. work'[d] = w /\ \A e \in Poppers : e # d => work'[e] = work[e]
    BY <1>0, <2>1 DEF Types
  <2> HIDE DEF w
  <2>4. Placed' /\ \A x \in Requests : (Waiting(x)' <=> Waiting(x)) /\ (Held(x)' <=> Held(x))
    BY <1>0, <1>1, <2>1, <2>2, WorkFacts
  <2>5. Types'
    BY <1>0, <1>1, <2>1, <2>2 DEF Types
  <2>6. \A x \in Requests : Story(x)'
    BY <1>0, <1>1, <2>4, FrameStory
  <2>7. ASSUME NEW e \in Poppers
        PROVE  Retrying(e)' /\ Pumping(e)'
    <3>1. CASE e = d
      BY <2>2, <2>3, <3>1 DEF Retrying, Pumping
    <3>2. CASE e # d
      BY <1>0, <1>1, <2>1, <2>3, <3>2, FrameDispatcher
    <3> QED
      BY <3>1, <3>2
  <2> QED
    BY <1>2, <2>4, <2>5, <2>6, <2>7 DEF PlaneInv
<1> QED
  BY <1>3, <1>4

-----------------------------------------------------------------------------
(* The initial states satisfy the invariant.                               *)
LEMMA InitPlane == Init => PlaneInv
<1> SUFFICES ASSUME Init
             PROVE  PlaneInv
  OBVIOUS
<1>0. /\ lanes = [l \in Priorities |-> <<>>] /\ got = [p \in Poppers |-> None]
      /\ handler = [r \in Requests |-> "new"] /\ reply = [r \in Requests |-> "none"]
      /\ resultCh = [r \in Requests |-> <<>>] /\ chunks = [r \in Requests |-> <<>>]
      /\ closed = [r \in Requests |-> FALSE] /\ written = [r \in Requests |-> <<>>]
      /\ stats = [total |-> 0, success |-> 0, errors |-> 0]
      /\ work = [d \in Poppers |-> Idle]
      /\ read = [r \in Requests |-> 0] /\ tries = [r \in Requests |-> 0]
      /\ process = "running"
  BY DEF Init, QueueInit
<1>1. Types
  <2>1. Idle \in Works
    BY ChainAssumption, AttemptsAssumption DEF Idle, Works, WorkPlaces
  <2>2. lanes \in [Priorities -> Seq(Requests)]
    BY <1>0, EmptyFacts
  <2>3. /\ resultCh \in [Requests -> Seq(Results)] /\ chunks \in [Requests -> Seq(Nat)]
        /\ written \in [Requests -> Seq(Nat)]
    BY <1>0, EmptyFacts
  <2>4. stats \in Counters
    BY <1>0 DEF Counters
  <2> QED
    BY <1>0, <2>1, <2>2, <2>3, <2>4 DEF Types, Replies, Lives
<1>2. Roomy
  <2>1. \A r \in Requests : resultCh[r] = <<>> /\ chunks[r] = <<>>
    BY <1>0
  <2>2. Len(<<>>) <= 1 /\ Len(<<>>) <= ChunkBuffer
    BY ChunkAssumption
  <2> QED
    BY <2>1, <2>2, Zenon DEF Roomy
<1>3. \A d \in Poppers : got[d] = None /\ work[d] = Idle
  BY <1>0
<1>4. Placed
  <2>1. \A l \in Priorities : lanes[l] = <<>>
    BY <1>0
  <2>2. \A l \in Priorities : Sorted(l, lanes[l]) /\ Once(lanes[l])
    BY <2>1 DEF Sorted, Once
  <2>3. \A d \in Poppers : work[d].at = "pop" /\ work[d].model = 1 /\ work[d].attempt = 1
    BY <1>3 DEF Idle
  <2> QED
    BY <1>3, <2>2, <2>3 DEF Placed
<1>5. \A r \in Requests : Story(r)
  <2> TAKE r \in Requests
  <2>1. PriorityOf[r] \in Priorities
    BY PriorityAssumption
  <2>2. lanes[PriorityOf[r]] = <<>>
    BY <1>0, <2>1
  <2>3. ~Waiting(r)
    BY <2>2 DEF Waiting
  <2>4. ~Held(r)
    BY <1>3, NoneAssumption DEF Held
  <2>5. Untouched(r) /\ handler[r] = "new"
    BY <1>0 DEF Untouched
  <2> QED
    BY <2>3, <2>4, <2>5 DEF Story, Untouched
<1>6. \A d \in Poppers : Retrying(d) /\ Pumping(d)
  <2>1. \A d \in Poppers : work[d].at = "pop"
    BY <1>3 DEF Idle
  <2> QED
    BY <2>1 DEF Retrying, Pumping
<1> QED
  BY <1>1, <1>2, <1>4, <1>5, <1>6 DEF PlaneInv

(* No step of a handler, of a dispatcher or of main breaks the invariant.  *)
LEMMA PlaneStep ==
    ASSUME PlaneInv, [Next]_planeVars
    PROVE  PlaneInv'
<1>1. ASSUME NEW r \in Requests, Handle(r)
      PROVE  PlaneInv'
  BY <1>1, ReturnStep, SubmitStep, TakeResultStep, WriteChunkStep DEF Handle
<1>2. ASSUME NEW d \in Poppers, Dispatch(d)
      PROVE  PlaneInv'
  BY <1>2, PopStep, AttemptFailsStep, AnswerStep, AttemptCommitsStep, PumpStep DEF Dispatch
<1>3. ASSUME UNCHANGED <<queueVars, reply, written, stats, channelVars, work,
                         upstreamVars>>,
             process' \in Lives,
             handler' \in [Requests -> {"new", "waiting", "streaming", "done", "cut off"}],
             \A x \in Requests : handler'[x] = handler[x] \/ handler'[x] = "cut off"
      PROVE  PlaneInv'
  <2>0. Types /\ Roomy /\ Placed /\ (\A x \in Requests : Story(x))
        /\ \A e \in Poppers : Retrying(e) /\ Pumping(e)
    BY DEF PlaneInv
  <2>1. /\ lanes' = lanes /\ got' = got /\ work' = work
        /\ reply' = reply /\ written' = written /\ stats' = stats
        /\ resultCh' = resultCh /\ chunks' = chunks /\ closed' = closed
        /\ read' = read /\ tries' = tries
    BY <1>3 DEF queueVars, channelVars, upstreamVars
  <2>2. Placed' /\ \A x : (Waiting(x)' <=> Waiting(x)) /\ (Held(x)' <=> Held(x))
    BY <2>0, <2>1, FrameQueue
  <2>3. Types' /\ Roomy'
    BY <1>3, <2>0, <2>1 DEF Types, Roomy
  <2>4. \A x \in Requests : Story(x)'
    BY <1>3, <2>0, <2>1, <2>2, FrameStory
  <2>5. \A e \in Poppers : Retrying(e)' /\ Pumping(e)'
    <3>1. \A e \in Poppers : got[e] \in Requests \cup {None}
      BY <2>0 DEF Types
    <3> QED
      BY <1>3, <2>0, <2>1, <3>1, FrameDispatcher
  <2> QED
    BY <2>2, <2>3, <2>4, <2>5 DEF PlaneInv
<1>4. CASE Shutdown
  BY <1>3, <1>4 DEF Shutdown, gatewayVars, PlaneInv, Types, Lives
<1>5. CASE Exit
  BY <1>3, <1>5 DEF Exit, PlaneInv, Types, Lives
<1>6. CASE UNCHANGED planeVars
  BY <1>3, <1>6 DEF planeVars, gatewayVars, PlaneInv, Types
<1> QED
  BY <1>1, <1>2, <1>4, <1>5, <1>6 DEF Next, Serve

(* The invariant holds throughout.                                         *)
LEMMA PlaneInvariant == Spec => []PlaneInv
  BY InitPlane, PlaneStep, PTL DEF Spec

(* A dispatcher that is about to send finds ResultCh empty, and no request *)
(* is with two dispatchers: neither a timeout nor the retry loop nor the   *)
(* queue makes dispatch send twice or block on the one-place channel       *)
(* (queue.go, dispatcher.go dispatch).                                     *)
THEOREM OneResultPerRequest == Spec => []ExactlyOneResult
<1>1. PlaneInv => ExactlyOneResult
  BY DEF PlaneInv, Retrying, Placed, ExactlyOneResult
<1> QED
  BY <1>1, PlaneInvariant, PTL

-----------------------------------------------------------------------------
(* Counting one more on either side keeps a sum.                           *)
LEMMA OneMore ==
    \A t, s, e \in Nat : t = s + e => t + 1 = (s + 1) + e /\ t + 1 = s + (e + 1)
  OBVIOUS

(* The hook runs once more and the request it runs for joins the finished  *)
(* ones.                                                                   *)
LEMMA CountFinish ==
    ASSUME Types, CountInv, NEW r \in Requests, handler[r] # "done",
           NEW answer, NEW success \in BOOLEAN, success <=> answer = "2xx",
           Finish(r, answer, success)
    PROVE  CountInv'
<1> DEFINE F == {x \in Requests : handler[x] = "done"}
           S == {x \in F : reply[x] = "2xx"}
           G == {x \in Requests : handler'[x] = "done"}
           T == {x \in G : reply'[x] = "2xx"}
<1>1. /\ handler' = [handler EXCEPT ![r] = "done"]
      /\ reply' = [reply EXCEPT ![r] = answer]
      /\ stats' = Count(stats, success)
  BY DEF Finish
<1>2. /\ handler'[r] = "done" /\ reply'[r] = answer
      /\ \A x \in Requests : x # r => handler'[x] = handler[x] /\ reply'[x] = reply[x]
  BY <1>1 DEF Types
<1>3. /\ IsFiniteSet(F) /\ stats.total = Cardinality(F)
      /\ stats.success = Cardinality(S) /\ stats.total = stats.success + stats.errors
  BY DEF CountInv, CountedOnce
<1>4. r \notin F /\ r \notin S /\ G = F \cup {r}
  BY <1>2
<1>5. T = IF success THEN S \cup {r} ELSE S
  <2>1. CASE success
    BY <1>2, <1>4, <2>1
  <2>2. CASE ~success
    BY <1>2, <1>4, <2>2
  <2> QED
    BY <2>1, <2>2
<1> HIDE DEF F, G, T
<1>6. IsFiniteSet(S)
  BY <1>3, FS_Subset
<1> HIDE DEF S
<1>7. /\ IsFiniteSet(G) /\ Cardinality(G) = Cardinality(F) + 1
      /\ Cardinality(S \cup {r}) = Cardinality(S) + 1
  BY <1>3, <1>4, <1>6, FS_AddElement
<1>8. stats \in Counters
  BY DEF Types
<1>9. /\ Count(stats, success).total = stats.total + 1
      /\ success => /\ Count(stats, success).success = stats.success + 1
                    /\ Count(stats, success).errors = stats.errors
      /\ ~success => /\ Count(stats, success).success = stats.success
                     /\ Count(stats, success).errors = stats.errors + 1
  BY <1>8, CountFacts
<1>10. stats.total \in Nat /\ stats.success \in Nat /\ stats.errors \in Nat
  BY <1>8 DEF Counters
<1>11. /\ stats'.total = Cardinality(G) /\ stats'.success = Cardinality(T)
       /\ stats'.total = stats'.success + stats'.errors
  <2>1. CASE success
    <3>1. T = S \cup {r}
      BY <1>5, <2>1
    <3>2. /\ stats'.total = stats.total + 1
          /\ stats'.success = stats.success + 1 /\ stats'.errors = stats.errors
      BY <1>1, <1>9, <2>1, Zenon
    <3>3. stats'.total = Cardinality(G) /\ stats'.success = Cardinality(T)
      BY <1>3, <1>7, <3>1, <3>2, Zenon
    <3>4. stats.total + 1 = (stats.success + 1) + stats.errors
      BY <1>3, <1>10, OneMore
    <3>5. stats'.total = stats'.success + stats'.errors
      BY <3>2, <3>4, Zenon
    <3> QED
      BY <3>3, <3>5
  <2>2. CASE ~success
    <3>1. T = S
      BY <1>5, <2>2
    <3>2. /\ stats'.total = stats.total + 1
          /\ stats'.success = stats.success /\ stats'.errors = stats.errors + 1
      BY <1>1, <1>9, <2>2, Zenon
    <3>3. stats'.total = Cardinality(G) /\ stats'.success = Cardinality(T)
      BY <1>3, <1>7, <3>1, <3>2, Zenon
    <3>4. stats.total + 1 = stats.success + (stats.errors + 1)
      BY <1>3, <1>10, OneMore
    <3>5. stats'.total = stats'.success + stats'.errors
      BY <3>2, <3>4, Zenon
    <3> QED
      BY <3>3, <3>5
  <2> QED
    BY <2>1, <2>2
<1> QED
  BY <1>7, <1>11 DEF CountInv, CountedOnce, G, T

(* A step in which no handler returns.                                     *)
LEMMA CountSame ==
    ASSUME CountInv, stats' = stats,
           \A x \in Requests : handler'[x] = "done" <=> handler[x] = "done",
           \A x \in Requests : handler[x] = "done" => reply'[x] = reply[x]
    PROVE  CountInv'
<1>1. {x \in Requests : handler'[x] = "done"} = {x \in Requests : handler[x] = "done"}
  OBVIOUS
<1>2. {x \in {y \in Requests : handler'[y] = "done"} : reply'[x] = "2xx"} =
          {x \in {y \in Requests : handler[y] = "done"} : reply[x] = "2xx"}
  OBVIOUS
<1> QED
  BY <1>1, <1>2, Zenon DEF CountInv, CountedOnce

(* The counters of Stats.Hook through every step.                          *)
LEMMA CountStep ==
    ASSUME PlaneInv, CountInv, [Next]_planeVars
    PROVE  CountInv'
<1>0. Types
  BY DEF PlaneInv
<1>1. ASSUME NEW r \in Requests, Handle(r)
      PROVE  CountInv'
  <2>1. CASE Refuse(r)
    BY <1>0, <2>1, CountFinish DEF Refuse
  <2>2. CASE QueueFull(r)
    BY <1>0, <2>2, CountFinish DEF QueueFull
  <2>3. CASE Timeout(r)
    BY <1>0, <2>3, CountFinish DEF Timeout
  <2>4. CASE EndStream(r)
    BY <1>0, <2>4, CountFinish DEF EndStream
  <2>5. CASE Submit(r)
    <3>1. handler[r] = "new" /\ handler' = [handler EXCEPT ![r] = "waiting"]
          /\ reply' = reply /\ stats' = stats
      BY <2>5 DEF Submit
    <3> QED
      BY <1>0, <3>1, CountSame DEF Types
  <2>6. CASE TakeResult(r)
    <3> DEFINE result == Head(resultCh[r])
    <3>1. CASE result.Streaming
      <4>1. handler[r] = "waiting" /\ handler' = [handler EXCEPT ![r] = "streaming"]
            /\ reply' = [reply EXCEPT ![r] = result.outcome] /\ stats' = stats
        BY <2>6, <3>1 DEF TakeResult
      <4> HIDE DEF result
      <4> QED
        BY <1>0, <4>1, CountSame DEF Types
    <3>2. CASE ~result.Streaming
      <4>1. handler[r] = "waiting" /\ Finish(r, result.outcome, result.outcome = "2xx")
        BY <2>6, <3>2 DEF TakeResult
      <4> HIDE DEF result
      <4> QED
        BY <1>0, <4>1, CountFinish
    <3> QED
      BY <3>1, <3>2
  <2>7. CASE WriteChunk(r)
    BY <2>7, CountSame DEF WriteChunk
  <2> QED
    BY <1>1, <2>1, <2>2, <2>3, <2>4, <2>5, <2>6, <2>7 DEF Handle
<1>2. ASSUME NEW d \in Poppers, Dispatch(d)
      PROVE  CountInv'
  <2>1. handler' = handler /\ reply' = reply /\ stats' = stats
    BY <1>2 DEF Dispatch, PopRequest, StopWorker, AttemptFails, AttemptAnswered,
                AttemptCommits, GiveUp, EndOfBody, SendChunk, ReadChunk, gatewayVars
  <2> QED
    BY <2>1, CountSame
<1>3. CASE Shutdown \/ UNCHANGED planeVars
  <2>1. handler' = handler /\ reply' = reply /\ stats' = stats
    BY <1>3 DEF Shutdown, planeVars, gatewayVars
  <2> QED
    BY <2>1, CountSame
<1>4. CASE Exit
  BY <1>4, CountSame DEF Exit
<1> QED
  BY <1>1, <1>2, <1>3, <1>4 DEF Next, Serve

(* The deferred hook counts a request when, and only when, its handler     *)
(* returns, once, and as a success exactly when the client was answered    *)
(* 2xx, through every early return, the timeout and the stream's end       *)
(* (gateway.go handleInference, admin/stats.go Hook).  That only finitely  *)
(* many requests have finished is part of the induction: nothing is        *)
(* assumed of the number of requests.                                      *)
THEOREM RequestsCountedOnce == Spec => []CountedOnce
<1>1. Init => CountInv
  <2> SUFFICES ASSUME Init
               PROVE  CountInv
    OBVIOUS
  <2> DEFINE F == {r \in Requests : handler[r] = "done"}
             S == {r \in F : reply[r] = "2xx"}
  <2>1. F = {} /\ S = {}
    BY DEF Init
  <2>2. stats.total = 0 /\ stats.success = 0 /\ stats.errors = 0
    BY DEF Init
  <2> HIDE DEF F, S
  <2>3. IsFiniteSet(F) /\ Cardinality(F) = 0 /\ Cardinality(S) = 0
    BY <2>1, FS_EmptySet
  <2>4. stats.total = Cardinality(F) /\ stats.success = Cardinality(S)
        /\ stats.total = stats.success + stats.errors
    BY <2>2, <2>3
  <2> QED
    BY <2>3, <2>4 DEF CountInv, CountedOnce, F, S
<1>2. CountInv => CountedOnce
  BY DEF CountInv
<1> QED
  BY <1>1, <1>2, CountStep, PlaneInvariant, PTL DEF Spec

-----------------------------------------------------------------------------
(* Attempts of the models before one, of the chain, and of its first.      *)
LEMMA SpentFacts ==
    /\ Spent(1) = 0 /\ Spent(1) + (1 - 1) = 0
    /\ ChainLength * maxAttempts \in Nat
    /\ \A m \in 1..ChainLength :
          /\ Spent(m) \in Nat
          /\ Spent(m) + maxAttempts = m * maxAttempts
          /\ Spent(m + 1) = Spent(m) + maxAttempts
          /\ Spent(m) + maxAttempts <= ChainLength * maxAttempts
<1>1. Spent(1) = 0 /\ Spent(1) + (1 - 1) = 0 /\ ChainLength * maxAttempts \in Nat
  BY ChainAssumption, AttemptsAssumption DEF Spent
<1>2. ASSUME NEW m \in 1..ChainLength
      PROVE  /\ Spent(m) \in Nat /\ Spent(m) + maxAttempts = m * maxAttempts
             /\ Spent(m + 1) = Spent(m) + maxAttempts
  BY ChainAssumption, AttemptsAssumption DEF Spent
<1>3. ASSUME NEW m \in 1..ChainLength
      PROVE  m * maxAttempts <= ChainLength * maxAttempts
  <2>1. PICK k \in Nat : ChainLength = m + k
    <3>1. ChainLength - m \in Nat /\ ChainLength = m + (ChainLength - m)
      BY ChainAssumption
    <3> QED
      BY <3>1
  <2>2. ChainLength * maxAttempts = m * maxAttempts + k * maxAttempts
    BY <2>1, AttemptsAssumption
  <2>3. k * maxAttempts \in Nat /\ m * maxAttempts \in Nat
    BY <2>1, AttemptsAssumption
  <2> QED
    BY <2>2, <2>3
<1> QED
  BY <1>1, <1>2, <1>3

(* A step that is no attempt and sends no result.                          *)
LEMMA TriesFrame ==
    ASSUME TriesInv, PlaneInv', tries' = tries,
           \A x \in Requests : resultCh'[x] = resultCh[x] \/ resultCh'[x] = <<>>,
           \A e \in Poppers : work'[e].at \in {"try", "give up"} =>
               \/ work'[e] = work[e] /\ got'[e] = got[e]
               \/ /\ work'[e].at = "try" /\ work'[e].model = 1 /\ work'[e].attempt = 1
                  /\ tries[got'[e]] = 0
    PROVE  TriesInv'
<1>1. MaxTries'
  BY DEF TriesInv, MaxTries
<1>2. \A x \in Requests : Honest(x)'
  BY DEF TriesInv, Honest
<1>3. ASSUME NEW e \in Poppers
      PROVE  Attempts(e)'
  <2>1. CASE work'[e] = work[e] /\ got'[e] = got[e]
    BY <2>1 DEF TriesInv, Attempts
  <2>2. CASE /\ work'[e].at = "try" /\ work'[e].model = 1 /\ work'[e].attempt = 1
             /\ tries[got'[e]] = 0
    <3>1. Spent(1) + (1 - 1) = 0
      BY SpentFacts, Zenon
    <3>2. Spent(work'[e].model) + (work'[e].attempt - 1) = 0
      BY <2>2, <3>1
    <3>3. tries'[got'[e]] = 0 /\ work'[e].at # "give up"
      BY <2>2
    <3> QED
      BY <3>2, <3>3, Zenon DEF Attempts
  <2>3. CASE work'[e].at \notin {"try", "give up"}
    BY <2>3 DEF Attempts
  <2> QED
    BY <2>1, <2>2, <2>3
<1> QED
  BY <1>1, <1>2, <1>3 DEF TriesInv

(* A step of dispatcher d for its request.                                 *)
LEMMA TriesOne ==
    ASSUME TriesInv, PlaneInv', NEW d \in Poppers, work[d].at \in {"try", "give up"},
           \A x \in Requests : x # got[d] =>
               tries'[x] = tries[x] /\ resultCh'[x] = resultCh[x],
           \A e \in Poppers : e # d => work'[e] = work[e] /\ got'[e] = got[e],
           tries'[got[d]] <= ChainLength * maxAttempts,
           Attempts(d)',
           resultCh'[got[d]] # <<>> =>
               LET m == Head(resultCh'[got[d]]).ServedModel
               IN  Spent(m) < tries'[got[d]] /\ tries'[got[d]] <= Spent(m) + maxAttempts
    PROVE  TriesInv'
<1>0. Types /\ Placed
  BY DEF TriesInv, PlaneInv
<1>1. work[d].at \in Busy
  BY DEF Busy
<1>2. \A e \in Poppers : e # d => got[e] # got[d]
  BY <1>0, <1>1, BusyFacts
<1>3. MaxTries'
  BY DEF TriesInv, MaxTries
<1>4. \A x \in Requests : Honest(x)'
  BY DEF TriesInv, Honest
<1>5. ASSUME NEW e \in Poppers, e # d
      PROVE  Attempts(e)'
  <2>1. CASE got[e] = None
    <3>1. work'[e].at \in {"pop", "stopped"}
      BY <1>0, <1>5, <2>1 DEF Placed
    <3> QED
      BY <3>1 DEF Attempts
  <2>2. CASE got[e] # None
    <3>1. got[e] \in Requests
      BY <1>0, <2>2 DEF Types
    <3>2. work'[e] = work[e] /\ got'[e] = got[e] /\ tries'[got[e]] = tries[got[e]]
      BY <1>2, <1>5, <3>1
    <3>3. Attempts(e)
      BY DEF TriesInv
    <3> QED
      BY <3>2, <3>3, Zenon DEF Attempts
  <2> QED
    BY <2>1, <2>2
<1> QED
  BY <1>3, <1>4, <1>5 DEF TriesInv

(* A sent result names the model whose attempts are not used up before it. *)
LEMMA SentModel ==
    ASSUME TriesInv, NEW d \in Poppers, work[d].at = "try",
           tries' = [tries EXCEPT ![got[d]] = tries[got[d]] + 1]
    PROVE  /\ got[d] \in Requests
           /\ Spent(work[d].model) < tries'[got[d]]
           /\ tries'[got[d]] <= Spent(work[d].model) + maxAttempts
           /\ tries'[got[d]] <= ChainLength * maxAttempts
           /\ tries'[got[d]] = Spent(work[d].model) + work[d].attempt
           /\ \A x \in Requests : x # got[d] => tries'[x] = tries[x]
<1>0. Types /\ Placed /\ Attempts(d)
  BY DEF TriesInv, PlaneInv
<1>1. work[d].at \in Busy
  BY DEF Busy
<1>2. got[d] \in Requests
  BY <1>0, <1>1, BusyFacts
<1> DEFINE r == got[d]
           m == work[d].model
           a == work[d].attempt
           s == Spent(m)
           c == ChainLength * maxAttempts
<1>3. m \in 1..ChainLength /\ a \in 1..maxAttempts
  BY <1>0 DEF Types, Works
<1>4. s \in Nat /\ s + maxAttempts <= c /\ c \in Nat
  BY <1>3, SpentFacts
<1>5. tries[r] = s + (a - 1)
  BY <1>0 DEF Attempts
<1>6. tries'[r] = tries[r] + 1 /\ \A x \in Requests : x # r => tries'[x] = tries[x]
  BY <1>0, <1>2 DEF Types
<1> HIDE DEF s, c, m, a
<1>7. tries'[r] = s + a /\ s < s + a /\ s + a <= s + maxAttempts /\ s + a <= c
  BY <1>3, <1>4, <1>5, <1>6, AttemptsAssumption
<1> QED
  BY <1>2, <1>6, <1>7 DEF s, c, m, a

(* An attempt that fails adds to the attempts of its model.                *)
LEMMA TriesFails ==
    ASSUME TriesInv, NEW d \in Poppers, AttemptFails(d)
    PROVE  TriesInv'
<1> DEFINE r == got[d]
           w == work[d]
           v == work'[d]
<1>0. PlaneInv /\ Types /\ Retrying(d)
  BY DEF TriesInv, PlaneInv
<1>1. /\ PlaneInv' /\ got' = got /\ r \in Requests /\ resultCh' = resultCh
      /\ v = AfterRetryable(w)
      /\ \A e \in Poppers : e # d => work'[e] = work[e] /\ got[e] # got[d]
  BY <1>0, AttemptFailsStep
<1>2. w.at = "try" /\ tries' = [tries EXCEPT ![r] = tries[r] + 1] /\ w \in Works
  BY <1>0 DEF AttemptFails, Types
<1>3. resultCh[r] = <<>>
  BY <1>0, <1>2 DEF Retrying
<1>4. /\ tries'[r] <= ChainLength * maxAttempts
      /\ tries'[r] = Spent(w.model) + w.attempt
      /\ \A x \in Requests : x # r => tries'[x] = tries[x]
  BY <1>2, SentModel
<1>5. /\ w.model \in 1..ChainLength /\ w.attempt \in 1..maxAttempts
  BY <1>2 DEF Works
<1>6. Attempts(d)'
  <2> DEFINE s == Spent(w.model)
  <2>1. s \in Nat /\ Spent(w.model + 1) = s + maxAttempts
    BY <1>5, SpentFacts
  <2>2. \/ /\ v.at = "try" /\ v.model = w.model /\ v.attempt = w.attempt + 1
        \/ /\ w.attempt = maxAttempts
           /\ v.at = "try" /\ v.model = w.model + 1 /\ v.attempt = 1
        \/ /\ w.attempt = maxAttempts /\ w.model = ChainLength
           /\ v.at = "give up" /\ v.model = w.model
    BY <1>1, <1>2, AfterRetryableFacts
  <2> HIDE DEF v
  <2>3. CASE v.at = "try" /\ v.model = w.model /\ v.attempt = w.attempt + 1
    <3>1. (w.attempt + 1) - 1 = w.attempt
      BY <1>5
    <3>2. tries'[r] = Spent(v.model) + (v.attempt - 1)
      BY <1>4, <2>3, <3>1
    <3> QED
      BY <1>1, <2>3, <3>2 DEF Attempts, v
  <2>4. CASE /\ w.attempt = maxAttempts
             /\ v.at = "try" /\ v.model = w.model + 1 /\ v.attempt = 1
    <3> HIDE DEF s
    <3>1. (s + maxAttempts) + (1 - 1) = s + maxAttempts
      BY <2>1, AttemptsAssumption
    <3>2. tries'[r] = Spent(v.model) + (v.attempt - 1)
      BY <1>4, <2>1, <2>4, <3>1, Zenon DEF s
    <3> QED
      BY <1>1, <2>4, <3>2 DEF Attempts, v
  <2>5. CASE /\ w.attempt = maxAttempts /\ w.model = ChainLength
             /\ v.at = "give up" /\ v.model = w.model
    BY <1>1, <1>4, <2>5 DEF Attempts, v
  <2> QED
    BY <2>2, <2>3, <2>4, <2>5
<1> QED
  BY <1>1, <1>2, <1>3, <1>4, <1>6, TriesOne

(* A result that is sent.                                                  *)
LEMMA TriesSend ==
    ASSUME TriesInv, NEW d \in Poppers,
           AttemptAnswered(d) \/ AttemptCommits(d) \/ GiveUp(d)
    PROVE  TriesInv'
<1> DEFINE r == got[d]
           m == work[d].model
<1>0. PlaneInv /\ Types /\ Roomy /\ Placed /\ Retrying(d) /\ Attempts(d)
  BY DEF TriesInv, PlaneInv
<1>1. PlaneInv'
  BY <1>0, AnswerStep, AttemptCommitsStep
<1>2. work[d].at \in {"try", "give up"}
  BY DEF AttemptAnswered, AttemptCommits, GiveUp
<1>3. work[d].at \in Busy
  BY <1>2 DEF Busy
<1>4. r \in Requests /\ m \in 1..ChainLength /\ resultCh[r] = <<>>
  BY <1>0, <1>2, <1>3, BusyFacts DEF Types, Works, Retrying
<1>5. PICK o \in Outcomes, b \in BOOLEAN : Send(r, Result(o, m, b))
  BY DEF AttemptAnswered, AttemptCommits, GiveUp, Outcomes
<1>6. Result(o, m, b) \in Results /\ Result(o, m, b).ServedModel = m
  BY <1>4 DEF Result, Results
<1>7. /\ Head(resultCh'[r]).ServedModel = m
      /\ \A x \in Requests : x # r => resultCh'[x] = resultCh[x]
  BY <1>0, <1>4, <1>5, <1>6, SendFacts
<1>8. /\ Spent(m) < tries'[r] /\ tries'[r] <= Spent(m) + maxAttempts
      /\ tries'[r] <= ChainLength * maxAttempts
      /\ \A x \in Requests : x # r => tries'[x] = tries[x]
  <2>1. CASE AttemptAnswered(d) \/ AttemptCommits(d)
    <3>1. work[d].at = "try" /\ tries' = [tries EXCEPT ![r] = tries[r] + 1]
      BY <2>1 DEF AttemptAnswered, AttemptCommits
    <3> QED
      BY <3>1, SentModel
  <2>2. CASE GiveUp(d)
    <3>1. work[d].at = "give up" /\ tries' = tries
      BY <2>2 DEF GiveUp, upstreamVars
    <3>2. m = ChainLength /\ tries[r] = Spent(m) + maxAttempts
      BY <1>0, <3>1 DEF Attempts
    <3>3. Spent(m) \in Nat /\ Spent(m) + maxAttempts <= ChainLength * maxAttempts
      BY <1>4, SpentFacts
    <3> DEFINE s == Spent(m)
    <3> HIDE DEF s
    <3>4. s < s + maxAttempts /\ s + maxAttempts <= s + maxAttempts
      BY <3>3, AttemptsAssumption DEF s
    <3> QED
      BY <3>1, <3>2, <3>3, <3>4 DEF s
  <2> QED
    BY <2>1, <2>2
<1>9. /\ work'[d].at \notin {"try", "give up"}
      /\ \A e \in Poppers : e # d => work'[e] = work[e] /\ got'[e] = got[e]
  <2>1. CASE AttemptAnswered(d) \/ GiveUp(d)
    <3>1. work' = [work EXCEPT ![d] = Idle] /\ got' = [got EXCEPT ![d] = None]
      BY <2>1 DEF AttemptAnswered, GiveUp, Done, Release
    <3> QED
      BY <1>0, <3>1 DEF Types, Idle
  <2>2. CASE AttemptCommits(d)
    <3>1. work' = [work EXCEPT ![d] = Committed(work[d])] /\ got' = got
      BY <2>2 DEF AttemptCommits, queueVars
    <3>2. Committed(work[d]).at = "pump"
      BY <1>0 DEF Committed, Types, Works
    <3>3. work'[d] = Committed(work[d]) /\ \A e \in Poppers : e # d => work'[e] = work[e]
      BY <1>0, <3>1 DEF Types
    <3> QED
      BY <3>1, <3>2, <3>3
  <2> QED
    BY <2>1, <2>2
<1>10. Attempts(d)'
  BY <1>9 DEF Attempts
<1> QED
  BY <1>1, <1>2, <1>7, <1>8, <1>9, <1>10, TriesOne

(* A request starts its first attempt with no attempt made.                *)
LEMMA TriesStart ==
    ASSUME TriesInv, NEW d \in Poppers, work[d].at = "pop", NEW r \in Requests,
           got' = [got EXCEPT ![d] = r], work' = [work EXCEPT ![d].at = "try"],
           Waiting(r) \/ handler[r] = "new"
    PROVE  \A e \in Poppers : work'[e].at \in {"try", "give up"} =>
               \/ work'[e] = work[e] /\ got'[e] = got[e]
               \/ /\ work'[e].at = "try" /\ work'[e].model = 1 /\ work'[e].attempt = 1
                  /\ tries[got'[e]] = 0
<1>0. Types /\ Placed /\ Story(r)
  BY DEF TriesInv, PlaneInv
<1>1. tries[r] = 0
  BY <1>0 DEF Story, Untouched
<1>2. work[d].model = 1 /\ work[d].attempt = 1
  BY <1>0 DEF Placed
<1>3. got'[d] = r /\ work'[d] = [work[d] EXCEPT !.at = "try"]
  BY <1>0 DEF Types
<1>4. work'[d].at = "try" /\ work'[d].model = 1 /\ work'[d].attempt = 1
  <2>1. work[d] \in Works
    BY <1>0 DEF Types
  <2> QED
    BY <1>2, <1>3, <2>1 DEF Works
<1>5. \A e \in Poppers : e # d => work'[e] = work[e] /\ got'[e] = got[e]
  BY <1>0 DEF Types
<1> QED
  BY <1>1, <1>3, <1>4, <1>5

(* The attempts through every step of a handler.                           *)
LEMMA TriesHandle ==
    ASSUME TriesInv, PlaneInv', NEW r \in Requests, Handle(r)
    PROVE  TriesInv'
<1>0. Types
  BY DEF TriesInv, PlaneInv
<1>1. tries' = tries
  BY DEF Handle, Refuse, QueueFull, Submit, TakeResult, Timeout, WriteChunk, EndStream,
         upstreamVars
<1>2. \A x \in Requests : resultCh'[x] = resultCh[x] \/ resultCh'[x] = <<>>
  <2>1. CASE TakeResult(r)
    <3> DEFINE s == resultCh[r]
    <3>1. s \in Seq(Results) /\ s # <<>> /\ Len(s) <= 1
      BY <2>1 DEF TakeResult, TriesInv, PlaneInv, Types, Roomy
    <3>2. Tail(s) = <<>>
      <4> HIDE DEF s
      <4> QED
        BY <3>1, TailFacts
    <3>3. resultCh' = [resultCh EXCEPT ![r] = Tail(s)]
      BY <2>1 DEF TakeResult
    <3> HIDE DEF s
    <3> QED
      BY <1>0, <3>2, <3>3 DEF Types
  <2>2. CASE ~TakeResult(r)
    <3>1. resultCh' = resultCh
      BY <2>2 DEF Handle, Refuse, QueueFull, Submit, Timeout, WriteChunk, EndStream, channelVars
    <3> QED
      BY <3>1
  <2> QED
    BY <2>1, <2>2
<1>3. CASE Submit(r)
  <2>1. CASE Accept(r) /\ work' = work
    <3>1. got' = got
      BY <2>1 DEF Accept
    <3> QED
      BY <1>1, <1>2, <2>1, <3>1, TriesFrame
  <2>2. ASSUME NEW d \in Poppers, work[d].at = "pop", HandOver(r, d),
               work' = [work EXCEPT ![d].at = "try"]
        PROVE  TriesInv'
    <3>1. got' = [got EXCEPT ![d] = r] /\ handler[r] = "new"
      BY <1>3, <2>2 DEF HandOver, Submit
    <3>2. \A e \in Poppers : work'[e].at \in {"try", "give up"} =>
               \/ work'[e] = work[e] /\ got'[e] = got[e]
               \/ /\ work'[e].at = "try" /\ work'[e].model = 1 /\ work'[e].attempt = 1
                  /\ tries[got'[e]] = 0
      BY <2>2, <3>1, TriesStart
    <3> QED
      BY <1>1, <1>2, <3>2, TriesFrame
  <2> QED
    BY <1>3, <2>1, <2>2 DEF Submit
<1>4. CASE ~Submit(r)
  <2>1. work' = work /\ got' = got
    BY <1>4 DEF Handle, Refuse, QueueFull, TakeResult, Timeout, WriteChunk, EndStream,
                queueVars
  <2> QED
    BY <1>1, <1>2, <2>1, TriesFrame
<1> QED
  BY <1>3, <1>4

(* The attempts through every step of a dispatcher.                        *)
LEMMA TriesDispatch ==
    ASSUME TriesInv, PlaneInv', NEW d \in Poppers, Dispatch(d)
    PROVE  TriesInv'
<1>0. Types /\ Placed /\ \A x \in Requests : Story(x)
  BY DEF TriesInv, PlaneInv
<1>1. CASE AttemptFails(d)
  BY <1>1, TriesFails
<1>2. CASE AttemptAnswered(d) \/ AttemptCommits(d) \/ GiveUp(d)
  BY <1>2, TriesSend
<1>3. CASE PopRequest(d)
  <2>1. PICK l \in Priorities : Take(d, l)
    BY <1>3 DEF PopRequest
  <2>2. /\ work[d].at = "pop" /\ work' = [work EXCEPT ![d].at = "try"]
        /\ tries' = tries /\ resultCh' = resultCh
    BY <1>3 DEF PopRequest, upstreamVars, channelVars
  <2>3. \A x \in Requests : Waiting(x) => ~Held(x)
    BY <1>0 DEF Story
  <2>4. PICK r \in Requests : got' = [got EXCEPT ![d] = r] /\ Waiting(r)
    BY <1>0, <2>1, <2>2, <2>3, TakeFacts
  <2>5. \A e \in Poppers : work'[e].at \in {"try", "give up"} =>
               \/ work'[e] = work[e] /\ got'[e] = got[e]
               \/ /\ work'[e].at = "try" /\ work'[e].model = 1 /\ work'[e].attempt = 1
                  /\ tries[got'[e]] = 0
    BY <2>2, <2>4, TriesStart
  <2> QED
    BY <2>2, <2>5, TriesFrame
<1>4. CASE \/ StopWorker(d) \/ EndOfBody(d) \/ SendChunk(d)
           \/ \E eof \in BOOLEAN : ReadChunk(d, eof)
  <2>1. tries' = tries /\ resultCh' = resultCh
    BY <1>4 DEF StopWorker, EndOfBody, SendChunk, ReadChunk, upstreamVars, channelVars
  <2>2. /\ work'[d].at \notin {"try", "give up"}
        /\ \A e \in Poppers : e # d => work'[e] = work[e] /\ got'[e] = got[e]
    <3>1. CASE /\ work' = [work EXCEPT ![d] = Idle]
               /\ got' = [got EXCEPT ![d] = None]
      BY <1>0, <3>1 DEF Types, Idle
    <3>2. ASSUME NEW a, a \in {"stopped", "pump", "send", "last send"},
                 work' = [work EXCEPT ![d].at = a], got' = got
          PROVE  /\ work'[d].at \notin {"try", "give up"}
                 /\ \A e \in Poppers : e # d => work'[e] = work[e] /\ got'[e] = got[e]
      BY <1>0, <3>2 DEF Types, Works
    <3>3. CASE StopWorker(d)
      BY <3>2, <3>3 DEF StopWorker, queueVars
    <3>4. CASE EndOfBody(d)
      BY <3>1, <3>4 DEF EndOfBody, Done, Release
    <3>5. CASE SendChunk(d)
      BY <3>1, <3>2, <3>5 DEF SendChunk, Done, Release, queueVars
    <3>6. ASSUME NEW eof \in BOOLEAN, ReadChunk(d, eof)
          PROVE  /\ work'[d].at \notin {"try", "give up"}
                 /\ \A e \in Poppers : e # d => work'[e] = work[e] /\ got'[e] = got[e]
      <4>1. AfterRead(eof) \in {"stopped", "pump", "send", "last send"}
        BY DEF AfterRead
      <4>2. work' = [work EXCEPT ![d].at = AfterRead(eof)] /\ got' = got
        BY <3>6 DEF ReadChunk, queueVars
      <4> QED
        BY <3>2, <4>1, <4>2
    <3> QED
      BY <1>4, <3>3, <3>4, <3>5, <3>6
  <2> QED
    BY <2>1, <2>2, TriesFrame
<1> QED
  BY <1>1, <1>2, <1>3, <1>4 DEF Dispatch

(* The attempts throughout.                                                *)
LEMMA TriesInvariant == Spec => []TriesInv
<1>1. Init => TriesInv
  <2> SUFFICES ASSUME Init
               PROVE  TriesInv
    OBVIOUS
  <2>1. PlaneInv
    BY InitPlane
  <2>2. \A d \in Poppers : work[d].at = "pop"
    BY DEF Init, Idle
  <2>3. \A d \in Poppers : Attempts(d)
    BY <2>2 DEF Attempts
  <2>4. \A r \in Requests : tries[r] = 0 /\ resultCh[r] = <<>>
    BY DEF Init
  <2>5. MaxTries
    <3>1. 0 <= ChainLength * maxAttempts
      BY SpentFacts
    <3> QED
      BY <2>4, <3>1 DEF MaxTries
  <2>6. \A r \in Requests : Honest(r)
    BY <2>4 DEF Honest
  <2> QED
    BY <2>1, <2>3, <2>5, <2>6 DEF TriesInv
<1>2. ASSUME TriesInv, [Next]_planeVars
      PROVE  TriesInv'
  <2>0. PlaneInv'
    BY <1>2, PlaneStep DEF TriesInv
  <2>1. ASSUME NEW r \in Requests, Handle(r)
        PROVE  TriesInv'
    BY <1>2, <2>0, <2>1, TriesHandle
  <2>2. ASSUME NEW d \in Poppers, Dispatch(d)
        PROVE  TriesInv'
    BY <1>2, <2>0, <2>2, TriesDispatch
  <2>3. CASE Shutdown \/ Exit \/ UNCHANGED planeVars
    <3>1. tries' = tries /\ resultCh' = resultCh /\ work' = work /\ got' = got
      BY <2>3 DEF Shutdown, Exit, planeVars, queueVars, upstreamVars, channelVars
    <3> QED
      BY <1>2, <2>0, <3>1, TriesFrame
  <2> QED
    BY <1>2, <2>1, <2>2, <2>3 DEF Next, Serve
<1> QED
  BY <1>1, <1>2, PTL DEF Spec

(* The result that the gateway receives names the model of the last        *)
(* attempt, and every model before it in the chain has been tried          *)
(* maxAttempts times (dispatcher.go dispatch): for every length of the     *)
(* chain, every cap on the attempts and every way the attempts end.        *)
THEOREM FallbackOnlyAfterExhaustion == Spec => []FallbackAfterExhaustion
<1>1. TriesInv => FallbackAfterExhaustion
  <2> SUFFICES ASSUME TriesInv, NEW r \in Requests, resultCh[r] # <<>>
               PROVE  LET m == Head(resultCh[r]).ServedModel
                      IN  (m - 1) * maxAttempts < tries[r] /\ tries[r] <= m * maxAttempts
    BY DEF FallbackAfterExhaustion
  <2> DEFINE s == resultCh[r]
             m == Head(s).ServedModel
  <2>1. s \in Seq(Results) /\ s # <<>>
    BY DEF TriesInv, PlaneInv, Types
  <2>2. Spent(m) < tries[r] /\ tries[r] <= Spent(m) + maxAttempts
    BY DEF TriesInv, Honest
  <2>3. Head(s) \in Results
    <3> HIDE DEF s
    <3> QED
      BY <2>1, TailFacts
  <2>4. m \in 1..ChainLength
    BY <2>3 DEF Results
  <2>5. Spent(m) + maxAttempts = m * maxAttempts
    BY <2>4, SpentFacts
  <2> QED
    BY <2>2, <2>5 DEF Spent
<1> QED
  BY <1>1, TriesInvariant, PTL

(* Every channel, handler and dispatcher stays within its type: in         *)
(* particular ResultCh and Chunks within their capacities, the loops of    *)
(* dispatch within the chain and the attempts, and no request is sent      *)
(* upstream more often than the two allow together.                        *)
THEOREM PlaneTypeCorrect == Spec => []TypeOK
<1>1. TriesInv => TypeOK
  <2> SUFFICES ASSUME TriesInv
               PROVE  TypeOK
    OBVIOUS
  <2>1. Types /\ Roomy /\ MaxTries
    BY DEF TriesInv, PlaneInv
  <2>2. tries \in [Requests -> 0..(ChainLength * maxAttempts)]
    <3> DEFINE c == ChainLength * maxAttempts
    <3>1. c \in Nat
      BY SpentFacts
    <3>2. tries \in [Requests -> Nat] /\ \A r \in Requests : tries[r] <= c
      BY <2>1 DEF Types, MaxTries
    <3> HIDE DEF c
    <3>3. tries \in [Requests -> 0..c]
      BY <3>1, <3>2
    <3> QED
      BY <3>3 DEF c
  <2> QED
    BY <2>1, <2>2 DEF Types, Roomy, TypeOK, Replies, Works, WorkPlaces, Lives
<1> QED
  BY <1>1, TriesInvariant, PTL

-----------------------------------------------------------------------------
(* A chunk that is written moves from the front of the buffer to the end   *)
(* of what was written.                                                    *)
LEMMA MoveHead ==
    ASSUME NEW s \in Seq(Nat), NEW t \in Seq(Nat), t # <<>>
    PROVE  Append(s, Head(t)) \o Tail(t) = s \o t
<1> DEFINE a == Append(s, Head(t)) \o Tail(t)
           b == s \o t
<1>1. /\ Head(t) = t[1] /\ Head(t) \in Nat /\ Tail(t) \in Seq(Nat)
      /\ Len(Tail(t)) = Len(t) - 1 /\ Len(t) \in Nat /\ Len(t) >= 1 /\ Len(s) \in Nat
      /\ \A i \in 1..(Len(t) - 1) : Tail(t)[i] = t[i + 1]
  OBVIOUS
<1>2. /\ Append(s, Head(t)) \in Seq(Nat) /\ Len(Append(s, Head(t))) = Len(s) + 1
      /\ \A i \in 1..Len(s) : Append(s, Head(t))[i] = s[i]
      /\ Append(s, Head(t))[Len(s) + 1] = t[1]
  BY <1>1
<1>3. /\ a \in Seq(Nat) /\ Len(a) = Len(s) + Len(t)
      /\ \A i \in 1..(Len(s) + Len(t)) :
            a[i] = IF i <= Len(s) + 1 THEN Append(s, Head(t))[i]
                   ELSE Tail(t)[i - (Len(s) + 1)]
  <2>1. /\ a \in Seq(Nat)
        /\ Len(a) = Len(Append(s, Head(t))) + Len(Tail(t))
        /\ \A i \in 1..(Len(Append(s, Head(t))) + Len(Tail(t))) :
              a[i] = IF i <= Len(Append(s, Head(t))) THEN Append(s, Head(t))[i]
                     ELSE Tail(t)[i - Len(Append(s, Head(t)))]
    BY <1>1, <1>2, ConcatProperties
  <2>2. Len(Append(s, Head(t))) + Len(Tail(t)) = Len(s) + Len(t)
    BY <1>1, <1>2
  <2> QED
    BY <1>2, <2>1, <2>2, Zenon
<1>4. /\ b \in Seq(Nat) /\ Len(b) = Len(s) + Len(t)
      /\ \A i \in 1..(Len(s) + Len(t)) :
            b[i] = IF i <= Len(s) THEN s[i] ELSE t[i - Len(s)]
  BY ConcatProperties
<1> HIDE DEF a, b
<1>5. ASSUME NEW i \in 1..(Len(s) + Len(t))
      PROVE  a[i] = b[i]
  <2>1. CASE i <= Len(s)
    <3>1. i <= Len(s) + 1 /\ i \in 1..Len(s)
      BY <1>1, <2>1
    <3> QED
      BY <1>2, <1>3, <1>4, <2>1, <3>1
  <2>2. CASE i = Len(s) + 1
    <3>1. ~(i <= Len(s)) /\ i - Len(s) = 1 /\ i <= Len(s) + 1
      BY <1>1, <2>2
    <3>2. a[i] = Append(s, Head(t))[i] /\ b[i] = t[i - Len(s)]
      BY <1>3, <1>4, <3>1
    <3> QED
      BY <1>2, <2>2, <3>1, <3>2
  <2>3. CASE i > Len(s) + 1
    <3>1. /\ ~(i <= Len(s)) /\ ~(i <= Len(s) + 1)
          /\ i - (Len(s) + 1) \in 1..(Len(t) - 1)
          /\ (i - (Len(s) + 1)) + 1 = i - Len(s)
      BY <1>1, <2>3
    <3>2. a[i] = Tail(t)[i - (Len(s) + 1)] /\ b[i] = t[i - Len(s)]
      BY <1>3, <1>4, <3>1
    <3> QED
      BY <1>1, <3>1, <3>2
  <2> QED
    BY <1>1, <2>1, <2>2, <2>3
<1>6. a = b
  BY <1>3, <1>4, <1>5, SeqEqual
<1> QED
  BY <1>6 DEF a, b

(* A chunk that is sent goes behind all that was written and buffered.     *)
LEMMA AppendBehind ==
    ASSUME NEW s \in Seq(Nat), NEW t \in Seq(Nat), NEW n \in Nat
    PROVE  s \o Append(t, n) = Append(s \o t, n)
<1>1. <<n>> \in Seq(Nat) /\ Append(t, n) = t \o <<n>>
  BY AppendIsConcat
<1>2. s \o t \in Seq(Nat)
  BY ConcatProperties
<1>3. Append(s \o t, n) = (s \o t) \o <<n>>
  BY <1>2, AppendIsConcat
<1> QED
  BY <1>1, <1>3, ConcatAssociative

(* The body grows by its next chunk.                                       *)
LEMMA BodyFacts ==
    ASSUME NEW n \in Nat
    PROVE  /\ Body(n) \in Seq(Nat) /\ Len(Body(n)) = n
           /\ Append(Body(n), n + 1) = Body(n + 1)
<1>1. \A k \in Nat : Body(k) \in Seq(Nat) /\ Len(Body(k)) = k /\ \A i \in 1..k : Body(k)[i] = i
  BY DEF Body
<1> DEFINE a == Append(Body(n), n + 1)
           b == Body(n + 1)
<1>2. /\ a \in Seq(Nat) /\ Len(a) = n + 1
      /\ a[n + 1] = n + 1 /\ \A i \in 1..n : a[i] = i
  <2> DEFINE s == Body(n)
  <2>1. s \in Seq(Nat) /\ Len(s) = n /\ \A i \in 1..n : s[i] = i
    BY <1>1
  <2> HIDE DEF s
  <2>2. /\ Append(s, n + 1) \in Seq(Nat) /\ Len(Append(s, n + 1)) = n + 1
        /\ Append(s, n + 1)[n + 1] = n + 1 /\ \A i \in 1..n : Append(s, n + 1)[i] = s[i]
    BY <2>1, AppendProperties
  <2> QED
    BY <2>1, <2>2 DEF s
<1>3. b \in Seq(Nat) /\ Len(b) = n + 1 /\ \A i \in 1..(n + 1) : b[i] = i
  BY <1>1
<1> HIDE DEF a, b
<1>4. \A i \in 1..(n + 1) : a[i] = b[i]
  <2>1. \A i \in 1..(n + 1) : i \in 1..n \/ i = n + 1
    OBVIOUS
  <2> QED
    BY <1>2, <1>3, <2>1
<1>5. a = b
  BY <1>2, <1>3, <1>4, SeqEqual
<1> QED
  BY <1>1, <1>5 DEF a, b

(* No chunk is taken in hand or given away.                                *)
LEMMA HandFrame ==
    ASSUME \A e \in Poppers :
               \/ /\ work'[e].at \notin {"send", "last send"}
                  /\ work[e].at \notin {"send", "last send"}
               \/ work'[e] = work[e] /\ got'[e] = got[e]
    PROVE  \A x : InHand(x)' <=> InHand(x)
  BY DEF InHand

(* A request whose stream a step leaves alone.                             *)
LEMMA WholeFrame ==
    ASSUME NEW x \in Requests, Whole(x), InHand(x)' <=> InHand(x),
           written'[x] = written[x], chunks'[x] = chunks[x], read'[x] = read[x]
    PROVE  Whole(x)'
  BY Zenon DEF Whole

(* An answered request whose answer a step leaves alone.                   *)
LEMMA CompleteFrame ==
    ASSUME NEW x \in Requests, Complete(x),
           handler'[x] = "done" /\ reply'[x] \in {"2xx", "other status"} =>
               /\ handler[x] = "done" /\ reply'[x] = reply[x]
               /\ written'[x] = written[x] /\ read'[x] = read[x]
    PROVE  Complete(x)'
  BY DEF Complete

(* A whole stream, once nothing is in hand or buffered any more.           *)
LEMMA WholeDrained ==
    ASSUME Types, NEW r \in Requests, Whole(r), ~InHand(r), chunks[r] = <<>> \/ read[r] = 0
    PROVE  Len(written[r]) = read[r]
<1>1. written[r] \in Seq(Nat) /\ chunks[r] \in Seq(Nat) /\ read[r] \in Nat
  BY DEF Types
<1>2. written[r] \o chunks[r] = Body(read[r])
  BY DEF Whole
<1>3. Len(Body(read[r])) = read[r]
  BY <1>1, BodyFacts
<1>4. Len(written[r]) + Len(chunks[r]) = read[r]
  <2> DEFINE a == written[r]
             b == chunks[r]
  <2>1. a \in Seq(Nat) /\ b \in Seq(Nat) /\ Len(a \o b) = read[r]
    BY <1>1, <1>2, <1>3
  <2> HIDE DEF a, b
  <2>2. Len(a \o b) = Len(a) + Len(b)
    BY <2>1, ConcatProperties
  <2> QED
    BY <2>1, <2>2 DEF a, b
<1>5. Len(written[r]) \in Nat /\ Len(chunks[r]) \in Nat
  BY <1>1
<1>6. CASE chunks[r] = <<>>
  <2>1. Len(chunks[r]) = 0
    BY <1>6, EmptyFacts
  <2> QED
    BY <1>4, <1>5, <2>1
<1>7. CASE read[r] = 0
  <2>1. \A a, b \in Nat : a + b = 0 => a = 0
    OBVIOUS
  <2>2. Len(written[r]) + Len(chunks[r]) = 0
    BY <1>4, <1>7
  <2>3. Len(written[r]) = 0
    BY <1>5, <2>1, <2>2, Zenon
  <2> QED
    BY <1>7, <2>3
<1> QED
  BY <1>6, <1>7

(* The streams when a handler returns.                                     *)
LEMMA StreamFinish ==
    ASSUME StreamInv, PlaneInv', NEW r \in Requests, NEW answer, NEW success,
           Finish(r, answer, success),
           UNCHANGED <<queueVars, chunks, closed, written, work, upstreamVars, process>>,
           answer \in {"2xx", "other status"} /\ r \in Streams => Len(written[r]) = read[r]
    PROVE  StreamInv'
<1>0. Types /\ \A x \in Requests : Whole(x) /\ Complete(x)
  BY DEF StreamInv, PlaneInv
<1>1. /\ handler' = [handler EXCEPT ![r] = "done"] /\ reply' = [reply EXCEPT ![r] = answer]
      /\ got' = got /\ chunks' = chunks /\ written' = written /\ work' = work /\ read' = read
  BY DEF Finish, queueVars, upstreamVars
<1>2. \A x : InHand(x)' <=> InHand(x)
  BY <1>1, HandFrame
<1>3. \A x \in Requests : Whole(x)'
  BY <1>0, <1>1, <1>2, WholeFrame
<1>4. /\ handler'[r] = "done" /\ reply'[r] = answer
      /\ \A x \in Requests : x # r => handler'[x] = handler[x] /\ reply'[x] = reply[x]
  BY <1>0, <1>1 DEF Types
<1>5. \A x \in Requests : x # r => Complete(x)'
  BY <1>0, <1>1, <1>4, CompleteFrame
<1>6. Complete(r)'
  BY <1>1, <1>4 DEF Complete
<1> QED
  BY <1>3, <1>5, <1>6 DEF StreamInv

(* A step that neither reads, sends or writes a chunk nor answers.         *)
LEMMA StreamFrame ==
    ASSUME StreamInv, PlaneInv', chunks' = chunks, written' = written, read' = read,
           \A e \in Poppers :
               \/ /\ work'[e].at \notin {"send", "last send"}
                  /\ work[e].at \notin {"send", "last send"}
               \/ work'[e] = work[e] /\ got'[e] = got[e],
           \A x \in Requests : handler'[x] = "done" =>
               handler[x] = "done" /\ reply'[x] = reply[x]
    PROVE  StreamInv'
<1>1. \A x : InHand(x)' <=> InHand(x)
  BY HandFrame
<1>2. \A x \in Requests : Whole(x)'
  BY <1>1, WholeFrame DEF StreamInv
<1>3. \A x \in Requests : Complete(x)'
  BY CompleteFrame DEF StreamInv
<1> QED
  BY <1>2, <1>3 DEF StreamInv

(* The streams through the steps of a handler.                             *)
LEMMA StreamHandle ==
    ASSUME StreamInv, PlaneInv', NEW r \in Requests, Handle(r)
    PROVE  StreamInv'
<1>0. Types /\ Roomy /\ Placed /\ Story(r) /\ Whole(r)
      /\ \A d \in Poppers : Retrying(d)
  BY DEF StreamInv, PlaneInv
<1>1. CASE Refuse(r)
  BY <1>1, StreamFinish DEF Refuse, channelVars
<1>2. CASE QueueFull(r)
  BY <1>2, StreamFinish DEF QueueFull, channelVars
<1>3. CASE Timeout(r)
  BY <1>3, StreamFinish DEF Timeout, channelVars
<1>4. CASE EndStream(r)
  <2>1. chunks[r] = <<>> /\ closed[r]
    BY <1>4 DEF EndStream
  <2>2. ~Held(r)
    BY <1>0, <2>1 DEF Story
  <2>3. ~InHand(r)
    BY <2>2 DEF InHand, Held
  <2>4. Len(written[r]) = read[r]
    BY <1>0, <2>1, <2>3, WholeDrained
  <2>5. Finish(r, reply[r], reply[r] = "2xx")
    BY <1>4 DEF EndStream
  <2> QED
    BY <1>4, <2>4, <2>5, StreamFinish DEF EndStream, channelVars
<1>5. CASE Submit(r)
  <2>1. /\ handler' = [handler EXCEPT ![r] = "waiting"] /\ reply' = reply
        /\ chunks' = chunks /\ written' = written /\ read' = read
    BY <1>5 DEF Submit, channelVars, upstreamVars
  <2>2. \A e \in Poppers :
            \/ /\ work'[e].at \notin {"send", "last send"}
               /\ work[e].at \notin {"send", "last send"}
            \/ work'[e] = work[e] /\ got'[e] = got[e]
    <3>1. CASE Accept(r) /\ work' = work
      BY <3>1 DEF Accept
    <3>2. ASSUME NEW d \in Poppers, work[d].at = "pop", HandOver(r, d),
                 work' = [work EXCEPT ![d].at = "try"]
          PROVE  \A e \in Poppers :
                     \/ /\ work'[e].at \notin {"send", "last send"}
                        /\ work[e].at \notin {"send", "last send"}
                     \/ work'[e] = work[e] /\ got'[e] = got[e]
      BY <1>0, <3>2 DEF HandOver, Types, Works
    <3> QED
      BY <1>5, <3>1, <3>2 DEF Submit
  <2>3. \A x \in Requests : handler'[x] = "done" =>
            handler[x] = "done" /\ reply'[x] = reply[x]
    BY <1>0, <2>1 DEF Types
  <2> QED
    BY <2>1, <2>2, <2>3, StreamFrame
<1>6. CASE TakeResult(r)
  <2> DEFINE result == Head(resultCh[r])
  <2>1. /\ handler[r] = "waiting" /\ resultCh[r] # <<>>
        /\ UNCHANGED <<queueVars, chunks, closed, written, work, upstreamVars, process>>
    BY <1>6 DEF TakeResult
  <2>2. CASE result.Streaming
    <3>1. /\ handler' = [handler EXCEPT ![r] = "streaming"]
          /\ reply' = [reply EXCEPT ![r] = result.outcome]
          /\ chunks' = chunks /\ written' = written /\ read' = read
          /\ work' = work /\ got' = got
      BY <1>6, <2>2 DEF TakeResult, queueVars, upstreamVars
    <3> HIDE DEF result
    <3>2. \A x \in Requests : handler'[x] = "done" =>
              handler[x] = "done" /\ reply'[x] = reply[x]
      BY <1>0, <3>1 DEF Types
    <3> QED
      BY <3>1, <3>2, StreamFrame
  <2>3. CASE ~result.Streaming
    <3>1. Finish(r, result.outcome, result.outcome = "2xx")
      BY <1>6, <2>3 DEF TakeResult
    <3>2. r \in Streams => Len(written[r]) = read[r]
      <4> SUFFICES ASSUME r \in Streams
                   PROVE  Len(written[r]) = read[r]
        OBVIOUS
      <4>1. ~Held(r) /\ read[r] = 0
        BY <1>0, <2>1, <2>3 DEF Story
      <4>2. ~InHand(r)
        BY <4>1 DEF InHand, Held
      <4> QED
        BY <1>0, <4>1, <4>2, WholeDrained
    <3> HIDE DEF result
    <3> QED
      BY <2>1, <3>1, <3>2, StreamFinish
  <2> QED
    BY <2>2, <2>3
<1>7. CASE WriteChunk(r)
  <2> DEFINE s == written[r]
             t == chunks[r]
  <2>1. /\ t # <<>> /\ handler[r] = "streaming"
        /\ written' = [written EXCEPT ![r] = Append(s, Head(t))]
        /\ chunks' = [chunks EXCEPT ![r] = Tail(t)]
        /\ handler' = handler /\ reply' = reply /\ work' = work /\ got' = got /\ read' = read
    BY <1>7 DEF WriteChunk, queueVars, upstreamVars
  <2>2. s \in Seq(Nat) /\ t \in Seq(Nat)
    BY <1>0 DEF Types
  <2>3. written'[r] = Append(s, Head(t)) /\ chunks'[r] = Tail(t)
        /\ \A x \in Requests : x # r => written'[x] = written[x] /\ chunks'[x] = chunks[x]
    BY <1>0, <2>1 DEF Types
  <2>4. written'[r] \o chunks'[r] = written[r] \o chunks[r]
    BY <2>1, <2>2, <2>3, MoveHead
  <2> HIDE DEF s, t
  <2>5. \A x : InHand(x)' <=> InHand(x)
    BY <2>1, HandFrame
  <2>6. Whole(r)'
    BY <1>0, <2>1, <2>4, <2>5, Zenon DEF Whole
  <2>7. \A x \in Requests : x # r => Whole(x)'
    BY <2>1, <2>3, <2>5, WholeFrame DEF StreamInv
  <2>8. \A x \in Requests : Complete(x)'
    <3>1. handler[r] # "done"
      BY <2>1
    <3> QED
      BY <2>1, <2>3, <3>1, CompleteFrame DEF StreamInv
  <2> QED
    BY <2>6, <2>7, <2>8 DEF StreamInv
<1> QED
  BY <1>1, <1>2, <1>3, <1>4, <1>5, <1>6, <1>7 DEF Handle

(* The streams through the steps of a dispatcher.                          *)
LEMMA StreamDispatch ==
    ASSUME StreamInv, PlaneInv', NEW d \in Poppers, Dispatch(d)
    PROVE  StreamInv'
<1> SUFFICES ASSUME NEW r, r = got[d]
             PROVE  StreamInv'
  OBVIOUS
<1>0. Types /\ Roomy /\ Placed /\ Pumping(d)
      /\ \A x \in Requests : Story(x) /\ Whole(x) /\ Complete(x)
  BY DEF StreamInv, PlaneInv
<1>1. handler' = handler /\ reply' = reply /\ written' = written
  BY DEF Dispatch, PopRequest, StopWorker, AttemptFails, AttemptAnswered,
         AttemptCommits, GiveUp, EndOfBody, SendChunk, ReadChunk, gatewayVars
<1>2. ASSUME chunks' = chunks, read' = read, NEW w, w.at \notin {"send", "last send"},
             work' = [work EXCEPT ![d] = w], work[d].at \notin {"send", "last send"},
             \A e \in Poppers : e # d => got'[e] = got[e]
      PROVE  StreamInv'
  <2>1. \A e \in Poppers :
            \/ /\ work'[e].at \notin {"send", "last send"}
               /\ work[e].at \notin {"send", "last send"}
            \/ work'[e] = work[e] /\ got'[e] = got[e]
    BY <1>0, <1>2 DEF Types
  <2> QED
    BY <1>1, <1>2, <2>1, StreamFrame
<1>3. CASE PopRequest(d)
  <2>1. PICK l \in Priorities : Take(d, l)
    BY <1>3 DEF PopRequest
  <2>2. /\ work[d].at = "pop" /\ work' = [work EXCEPT ![d] = [work[d] EXCEPT !.at = "try"]]
        /\ chunks' = chunks /\ read' = read
    BY <1>3 DEF PopRequest, upstreamVars, channelVars
  <2>3. \A e \in Poppers : e # d => got'[e] = got[e]
    BY <1>0, <2>1 DEF Take, Types
  <2>4. [work[d] EXCEPT !.at = "try"].at = "try"
    BY <1>0 DEF Types, Works
  <2> QED
    BY <1>2, <2>2, <2>3, <2>4
<1>4. CASE StopWorker(d)
  <2>1. /\ work[d].at = "pop" /\ work' = [work EXCEPT ![d] = [work[d] EXCEPT !.at = "stopped"]]
        /\ chunks' = chunks /\ read' = read /\ got' = got
    BY <1>4 DEF StopWorker, upstreamVars, channelVars, queueVars
  <2>2. [work[d] EXCEPT !.at = "stopped"].at = "stopped"
    BY <1>0 DEF Types, Works
  <2> QED
    BY <1>2, <2>1, <2>2
<1>5. CASE AttemptFails(d)
  <2>1. /\ work[d].at = "try" /\ work' = [work EXCEPT ![d] = AfterRetryable(work[d])]
        /\ chunks' = chunks /\ read' = read /\ got' = got
    BY <1>5 DEF AttemptFails, channelVars, queueVars
  <2>2. AfterRetryable(work[d]).at \in {"try", "give up"}
    <3>1. work[d] \in Works
      BY <1>0 DEF Types
    <3> QED
      BY <2>1, <3>1, AfterRetryableFacts
  <2> QED
    BY <1>2, <2>1, <2>2
<1>6. CASE AttemptCommits(d)
  <2>1. /\ work[d].at = "try" /\ work' = [work EXCEPT ![d] = Committed(work[d])]
        /\ chunks' = chunks /\ read' = read /\ got' = got
    BY <1>6 DEF AttemptCommits, queueVars
  <2>2. Committed(work[d]).at = "pump"
    BY <1>0 DEF Types, Works, Committed
  <2> QED
    BY <1>2, <2>1, <2>2
<1>7. CASE AttemptAnswered(d) \/ GiveUp(d) \/ EndOfBody(d)
  <2>1. /\ work[d].at \notin {"send", "last send"} /\ work' = [work EXCEPT ![d] = Idle]
        /\ chunks' = chunks /\ read' = read /\ got' = [got EXCEPT ![d] = None]
    BY <1>7 DEF AttemptAnswered, GiveUp, EndOfBody, Done, Release, upstreamVars
  <2>2. \A e \in Poppers : e # d => got'[e] = got[e]
    BY <1>0, <2>1 DEF Types
  <2>3. Idle.at = "pop"
    BY DEF Idle
  <2> QED
    BY <1>2, <2>1, <2>2, <2>3
<1>8. ASSUME work[d].at \in {"pump", "send", "last send"}
      PROVE  /\ r \in Requests /\ Held(r) /\ r \in Streams
             /\ \A e \in Poppers : e # d => got[e] # r
             /\ ~(handler[r] = "done" /\ reply[r] \in {"2xx", "other status"})
             /\ Whole(r) /\ read[r] \in Nat
             /\ written[r] \in Seq(Nat) /\ chunks[r] \in Seq(Nat)
  <2>1. work[d].at \in Busy
    BY <1>8 DEF Busy
  <2>2. r \in Requests /\ Held(r) /\ \A e \in Poppers : e # d => got[e] # r
    BY <1>0, <2>1, BusyFacts
  <2>3. r \in Streams
    BY <1>0, <1>8 DEF Pumping
  <2>4. ~(handler[r] = "done" /\ reply[r] \in {"2xx", "other status"})
    BY <1>0, <2>2, <2>3 DEF Story
  <2> QED
    BY <1>0, <2>2, <2>3, <2>4 DEF Types
<1>9. ASSUME NEW eof \in BOOLEAN, ReadChunk(d, eof)
      PROVE  StreamInv'
  <2>1. /\ work[d].at = "pump" /\ read' = [read EXCEPT ![r] = read[r] + 1]
        /\ work' = [work EXCEPT ![d] = [work[d] EXCEPT !.at = AfterRead(eof)]]
        /\ chunks' = chunks /\ got' = got
    BY <1>9 DEF ReadChunk, queueVars, channelVars
  <2>2. /\ r \in Requests /\ (\A e \in Poppers : e # d => got[e] # r)
        /\ ~(handler[r] = "done" /\ reply[r] \in {"2xx", "other status"})
        /\ Whole(r) /\ read[r] \in Nat
    BY <1>8, <2>1
  <2>3. work'[d].at \in {"send", "last send"} /\ \A e \in Poppers : e # d => work'[e] = work[e]
    BY <1>0, <2>1 DEF Types, Works, AfterRead
  <2>4. /\ read'[r] = read[r] + 1
        /\ \A x \in Requests : x # r => read'[x] = read[x]
    BY <1>0, <2>1, <2>2 DEF Types
  <2>5. ~InHand(r) /\ InHand(r)'
    BY <2>1, <2>2, <2>3 DEF InHand
  <2>6. \A x : x # r => (InHand(x)' <=> InHand(x))
    BY <2>1, <2>3 DEF InHand
  <2>7. Whole(r)'
    <3>1. read'[r] - 1 = read[r]
      <4>1. \A n \in Nat : (n + 1) - 1 = n
        OBVIOUS
      <4> QED
        BY <2>2, <2>4, <4>1, Zenon
    <3> QED
      BY <1>1, <2>1, <2>2, <2>5, <3>1, Zenon DEF Whole
  <2>8. \A x \in Requests : x # r => Whole(x)'
    BY <1>0, <1>1, <2>1, <2>4, <2>6, WholeFrame
  <2>9. \A x \in Requests : Complete(x)'
    BY <1>0, <1>1, <2>2, <2>4, CompleteFrame
  <2> QED
    BY <2>7, <2>8, <2>9 DEF StreamInv
<1>10. CASE SendChunk(d)
  <2>1. /\ work[d].at \in {"send", "last send"}
        /\ chunks' = [chunks EXCEPT ![r] = Append(chunks[r], read[r])]
        /\ read' = read
    BY <1>10 DEF SendChunk, upstreamVars
  <2>2. /\ r \in Requests /\ (\A e \in Poppers : e # d => got[e] # r)
        /\ Whole(r) /\ read[r] \in Nat
        /\ written[r] \in Seq(Nat) /\ chunks[r] \in Seq(Nat)
    BY <1>8, <2>1
  <2>3. read[r] >= 1
    BY <1>0, <2>1 DEF Pumping
  <2>4. /\ chunks'[r] = Append(chunks[r], read[r])
        /\ \A x \in Requests : x # r => chunks'[x] = chunks[x]
    BY <1>0, <2>1, <2>2 DEF Types
  <2>5. /\ work'[d].at \notin {"send", "last send"}
        /\ \A e \in Poppers : e # d => work'[e] = work[e] /\ got'[e] = got[e]
    <3>1. CASE work[d].at = "last send"
      <4>1. work' = [work EXCEPT ![d] = Idle] /\ got' = [got EXCEPT ![d] = None]
        BY <1>10, <3>1 DEF SendChunk, Done, Release
      <4> QED
        BY <1>0, <4>1 DEF Types, Idle
    <3>2. CASE work[d].at # "last send"
      <4>1. work' = [work EXCEPT ![d].at = "pump"] /\ got' = got
        BY <1>10, <3>2 DEF SendChunk, queueVars
      <4> QED
        BY <1>0, <4>1 DEF Types, Works
    <3> QED
      BY <3>1, <3>2
  <2>6. InHand(r)
    BY <2>1 DEF InHand
  <2>7. ~InHand(r)'
    <3> SUFFICES ASSUME NEW e \in Poppers, got'[e] = r, work'[e].at \in {"send", "last send"}
                 PROVE  FALSE
      BY DEF InHand
    <3> QED
      BY <2>2, <2>5
  <2>8. \A x : x # r => (InHand(x)' <=> InHand(x))
    <3> SUFFICES ASSUME NEW x, x # r
                 PROVE  InHand(x)' <=> InHand(x)
      OBVIOUS
    <3> QED
      BY <2>5 DEF InHand
  <2>9. Whole(r)'
    <3> DEFINE n == read[r] - 1
    <3>1. n \in Nat /\ n + 1 = read[r]
      BY <2>2, <2>3
    <3>2. written[r] \o chunks[r] = Body(n)
      BY <2>2, <2>6 DEF Whole
    <3> HIDE DEF n
    <3>3. written[r] \o Append(chunks[r], read[r]) = Append(written[r] \o chunks[r], read[r])
      BY <2>2, AppendBehind
    <3>4. Append(Body(n), n + 1) = Body(n + 1)
      BY <3>1, BodyFacts
    <3>5. written'[r] \o chunks'[r] = Body(read'[r])
      BY <1>1, <2>1, <2>4, <3>1, <3>2, <3>3, <3>4, Zenon
    <3> QED
      BY <2>7, <3>5, Zenon DEF Whole
  <2>10. \A x \in Requests : x # r => Whole(x)'
    BY <1>0, <1>1, <2>1, <2>4, <2>8, WholeFrame
  <2>11. \A x \in Requests : Complete(x)'
    BY <1>0, <1>1, <2>1, CompleteFrame
  <2> QED
    BY <2>9, <2>10, <2>11 DEF StreamInv
<1> QED
  BY <1>3, <1>4, <1>5, <1>6, <1>7, <1>9, <1>10 DEF Dispatch

(* A client that is streamed to gets the upstream body in order and whole, *)
(* up to the chunk in the dispatcher's hand, with nothing missing at the   *)
(* end (dispatcher.go streamBody, gateway.go streamResponse): for a body   *)
(* and a Chunks buffer of any length.  The induction needs that closing    *)
(* Chunks is the last thing a dispatcher does for a request (Story), and   *)
(* that a stream that ends in a plain result was never read from.          *)
THEOREM StreamAlwaysWhole == Spec => []StreamIsWhole
<1>1. Init => StreamInv
  <2> SUFFICES ASSUME Init
               PROVE  StreamInv
    OBVIOUS
  <2>1. PlaneInv
    BY InitPlane
  <2>2. \A d \in Poppers : work[d].at = "pop"
    BY DEF Init, Idle
  <2>3. \A r \in Requests : ~InHand(r)
    BY <2>2 DEF InHand
  <2>4. \A r \in Requests : /\ handler[r] = "new" /\ read[r] = 0
                            /\ written[r] = <<>> /\ chunks[r] = <<>>
    BY DEF Init
  <2>5. <<>> \o <<>> = Body(0)
    <3>1. <<>> \in Seq(Nat)
      BY EmptyFacts
    <3>2. <<>> \o <<>> = <<>>
      BY <3>1, ConcatEmptySeq
    <3>3. Body(0) \in Seq(Nat) /\ Len(Body(0)) = 0
      BY BodyFacts
    <3>4. Body(0) = <<>>
      BY <3>3
    <3> QED
      BY <3>2, <3>4
  <2>6. \A r \in Requests : Whole(r)
    BY <2>3, <2>4, <2>5, Zenon DEF Whole
  <2>7. \A r \in Requests : Complete(r)
    BY <2>4 DEF Complete
  <2> QED
    BY <2>1, <2>6, <2>7 DEF StreamInv
<1>2. ASSUME StreamInv, [Next]_planeVars
      PROVE  StreamInv'
  <2>0. PlaneInv'
    BY <1>2, PlaneStep DEF StreamInv
  <2>1. ASSUME NEW r \in Requests, Handle(r)
        PROVE  StreamInv'
    BY <1>2, <2>0, <2>1, StreamHandle
  <2>2. ASSUME NEW d \in Poppers, Dispatch(d)
        PROVE  StreamInv'
    BY <1>2, <2>0, <2>2, StreamDispatch
  <2>3. CASE Shutdown \/ Exit \/ UNCHANGED planeVars
    <3>1. /\ chunks' = chunks /\ written' = written /\ read' = read
          /\ work' = work /\ got' = got /\ reply' = reply
          /\ \A x \in Requests : handler'[x] = "done" => handler[x] = "done"
      BY <2>3 DEF Shutdown, Exit, planeVars, queueVars, upstreamVars, channelVars, gatewayVars
    <3> QED
      BY <1>2, <2>0, <3>1, StreamFrame
  <2> QED
    BY <1>2, <2>1, <2>2, <2>3 DEF Next, Serve
<1>3. StreamInv => StreamIsWhole
  BY Zenon DEF StreamInv, StreamIsWhole, Whole, Complete, InHand, Body
<1> QED
  BY <1>1, <1>2, <1>3, PTL DEF Spec
=============================================================================
