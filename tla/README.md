# A TLA+ model of the LLM inference control plane

This project models the control plane (worker registry, fleet scaler,
provisioner, inference router, admin API and metrics), the worker processes, and
the request plane (gateway with rate limits and admission control, priority
queue, dispatcher, counters). Each module is a translation of the Go code named
in `PROJECT.json` under `map`.

## The system

Clients send chat completions to the **gateway** of the request plane. It
authenticates, rate-limits, decides admission by an estimated wait, puts the
request into one of three priority lanes of the **queue** and waits for a result
or a timeout. A pool of **dispatcher** goroutines pops requests and forwards them
to the control plane's **router**, with retries and fallback models. The router
asks the **registry** for healthy workers of the model, picks the least loaded
one and proxies. **Workers** register over gRPC, heartbeat, report load, drain
and deregister. A deadline timer per worker marks silent ones DEAD; the
**scaler** evicts them after a grace period and the **provisioner** may start a
replacement container. Admin endpoints and metrics report on all of it.

### Inventory

| Component | State | Operations | Interacts with | What is hard | What makes it correct |
|---|---|---|---|---|---|
| Registry (`control-plane/registry`) | map id -> entry, one `time.Timer` per entry, `sync.RWMutex` | Register, Heartbeat, Deregister, ReportLoad, RequestDrain, Evict, markDead, read methods | workers (gRPC), scaler, router, admin | timers against handlers, re-registration, two clock reads | a live entry always has a detector; DEAD is terminal; prompt workers are not DEAD |
| Workers (`worker/cmd`) | lifecycle state, tickers | register, heartbeat, load model, drain, quit, crash | registry | lost and stray heartbeats, restart under the same id | a drain completes; an unknown worker comes back; routable means loaded (the last two fail) |
| Scaler (`control-plane/scaler`) | a snapshot per sweep | Sweep, handleDead, warnings | registry, provisioner | snapshot older than the eviction | evicts only what is DEAD, after the grace period (a worker that registered again meanwhile is not safe) |
| Provisioner | none | OnEvicted, Provision | docker | failing start, id collision | a replacement has a fresh id |
| Router (`control-plane/router`) | in-flight counters, round-robin counter | handleInference, pickWorker, inc, dec, proxy, InFlightSnapshot | registry, workers | counters read twice while they move, partial failure, workers that leave | counters exact, the pick is best, 502 only after all attempts, a worker that left is left alone |
| Admin API, metrics (`control-plane/api`, `metrics`) | none | listWorkers, getWorker, stats, listModels, Collect, drainWorker | registry, router | several snapshots per report | exact at rest, plausible in motion |
| Queue (`request-plane/queue`) | three buffered channels | TryPush, Pop, AheadOf | gateway, dispatcher | Pop and AheadOf are not atomic | nothing lost, duplicated or reordered in a lane; priority |
| Gateway (`request-plane/gateway`) | per-request handler | handleInference, streamResponse | limiter, estimator, queue, dispatcher | timeout against result, decision older than the push | a handler that timed out holds nobody up; every request counted once; admission justified |
| Rate limiter, key store (`request-plane/auth`) | token buckets | Lookup, Allow, Tokens | gateway | fractions of tokens, bursts | the rate is kept over every window |
| SLO tracker, estimator, policy | average per model | Record, Estimate, Admit | gateway, queue | queue depth summed while it moves | sheds and admits for a reason |
| Dispatcher (`request-plane/dispatcher`) | goroutine pool | dispatchBuffered, dispatchStream, streamBody | queue, router | retries over models, commit point, blocked stream | one result, fallback in order, body whole, streams end, goroutine released |
| Counters (`request-plane/admin`) | three atomic counters | Hook, Snapshot | gateway | separate additions and loads | a snapshot is current |

## Modules

| Module | Models | State and actions |
|---|---|---|
| `Lifecycle` | worker states, Go maps | no state |
| `Membership` | what the registry promises | `members`; Join, Beat, Drain, Suspect, Leave, Pass |
| `Registry` | `registry.go` | `workers` is the map, `left` and `callbacks` the timers and the goroutines they started, `joining` and `beating` the handlers inside Register and Heartbeat. One action per handler; Register is split at the lock, Heartbeat between its two clock reads. |
| `Fleet` (extends `Registry`) | both workers, scaler, provisioner, drain endpoint | processes (`phase`, `currentState`, `incarnation`), the heartbeat RPCs in flight (`calls`), the sweep's snapshot (`pending`). Registry actions are conjoined with what the caller does. |
| `Routing` | what the router promises | counters, and per handler the snapshot, the workers tried and the one the request is at |
| `Router` | `router.go` | one action per counter read; `inFlight`, the handlers' snapshots and picks |
| `ControlPlane` (extends `Membership`, `Routing`) | requests over a changing fleet; admin API, metrics, the scaler's warnings | `report`: the snapshots a report has taken so far; a counter is one load. The switch of stats, that of Collect, WorkerCount and ModelsServed are operators of their own, as in the code |
| `LaneQueue` | what the queue promises | `lanes` and what each popper holds |
| `RequestQueue` (extends `LaneQueue`) | `queue.go` | one action per channel operation of Pop and TryPush |
| `RateLimiter` | `ratelimiter.go` | `buckets`, tokens and age of each |
| `Admission` (extends `LaneQueue`, `RateLimiter`) | the gateway up to TryPush, key store, `slo`, `backpressure`, counters | `at` is where each handler is; one action per lane read, counter addition or load |
| `RequestPlane` (extends `LaneQueue`) | gateway from TryPush on, and dispatcher | a handler per request, a dispatch per goroutine, the channels between them, the counters; `process` for the signal that stops the dispatchers and the end of the process that cuts off the handlers |
| `*Proofs` | | proofs about the module they are named after; those about `Routing` are in `ControlPlaneProofs` |
| `MC*` | | instances for TLC |

How they fit together. Three abstract specifications say what a component
promises, and the detailed module is shown to implement each: `Registry`
implements `Membership` (run `registry`), `Router` implements `Routing` (run
`router`), `RequestQueue` implements `LaneQueue` (run `queue`); all three are
proved as well.
The compositions are built on the abstract ones: `ControlPlane` on `Membership`
and `Routing`, `Admission` and `RequestPlane` on `LaneQueue`. `Fleet` uses the
actions of `Registry` themselves. `Admission` and `RequestPlane` are two views of
the gateway that meet at TryPush: in `RequestPlane` a refusal is one action,
taken or not; in `Admission` an accepted request is answered or times out.

Time. The code compares ages with limits, so a `time.Time` is an age that stops
at the limit and a timer the time it has left. In `Registry` a due timer may fire
late and its goroutine may get the lock late. `Stalling` names the handlers
during which the clock may advance. In `Fleet` one tick is one heartbeat
interval. In `RateLimiter` a minute has `Minute` ticks and a token `Minute` units,
so that the refill per tick is a whole number.

History variables. `RateLimiter!window` is an observer that may start counting
at any moment; `Admission!stayed` and `seen` are the requests in front of one that
is being estimated, all the while or at some time; `ControlPlane!stayed`,
`visited` and `calm` say where requests were and whether anything moved while a
report was made. They appear in no guard (`window` only in the bound of the
clock).

Left out inside modelled code: log lines, HTTP headers, message texts, JSON
bodies, the load numbers, prices other than their order. Errors that change
nothing are stuttering steps. Definitions with a comment "Mutant of" are
plausible bugs; they are used by nothing in the specifications and serve to
show that each property can fail.

## Runs

Passing runs:

| Run | Instance | Shows |
|---|---|---|
| `registry` | 1 id, 2 timers, timeout 3, 2 pending callbacks per timer | refinement of `Membership`; `SilenceIsWatched`: no live entry loses its detector through re-registration, eviction or late callbacks; `NoResurrection`; `SilentIsDetected` (liveness) |
| `fleet` | 1 worker, 2 timers, timeout 3, 1 missed heartbeat | `PromptIsNeverDead`; `GraceIsKept`: the scaler's stale snapshot is harmless for the registration it saw; `CrashedIsForgotten`, `DrainCompletes` (liveness) |
| `router` | 3 workers (one dearer), 2 handlers, at most 2 attempts | refinement of `Routing`; `InFlightAccurate`, `QuietPickIsBest`, `BadGatewayIsEarned` |
| `control_plane` | 2 workers, one with a second model and one that may hang, 1 handler, every report | `QuietReportIsExact`: when nothing moves, the countings of healthy workers by stats, Collect, WorkerCount and ModelsServed agree with what the router is offered, and counters and their sums with the requests under way; `ReportIsPlausible` when everything does; `GoneIsLeftAlone` (liveness): a worker that left gets no more requests, and loses those it had unless it hangs |
| `queue` | 2 poppers, 5 requests, capacity 2 | refinement of `LaneQueue`; `NoOvertakeOfEarlier`; `HighIsServed` under endless load |
| `admission` | 3 requests, a key of one request per minute and an unlimited one, 1 popper, capacity 2 | `BudgetKept`; `AdmissionIsSound`: what AheadOf adds up lies between the requests that stayed and those that were there at some time; `SnapshotIsCurrent` |
| `plane` | 2 dispatchers, a buffered request and a stream in one lane of capacity 1, 2 models x 2 attempts | `ExactlyOneResult`, `FallbackAfterExhaustion`, `StreamIsWhole`, `CountedOnce`; `BufferedIsReleased` and, if upstream bodies end, `StreamEnds` (liveness) |

Runs that end in a counterexample, because the code does not do what a comment
or a message of it says (quoted under `findings`):

| Run | Statement | What happens |
|---|---|---|
| `registry_stalled` | a silent worker is marked DEAD | Heartbeat resets the timer before it stamps the time; if the clock moves in between, the only markDead comes too early and nothing detects the worker |
| `fleet_stray` | a worker is routable only after its own READY | a READY of the crashed process arrives after its successor registered; heartbeats carry no incarnation |
| `fleet_rejoin` | "re-register" | no worker does |
| `plane_stream` | the dispatcher closes Chunks when the body ends | a stream committed after the 504 blocks on a full buffer |
| `router_panic` | a request that can be served is | the two passes of pickWorker see different counters, `flight[0]` of an empty slice |

`PromptIsNeverDead` rests on assumptions about delivery that are parameters of
`Fleet`, because the code does not enforce them:

- `StrayBeats = FALSE`: no heartbeat of a process arrives after its successor under
  the same id has registered. With `TRUE` it fails as `RoutableIsLoaded` does in
  `fleet_stray`: after the stray READY the registry refuses the STARTING heartbeats
  of a worker that is loading, so that it seems silent. `FleetTypeCorrect` and
  `GraceAlwaysKept` are proved for both values; `CrashedIsForgotten` and
  `DrainCompletes` also hold in the instance of `fleet` with `TRUE`.
- It is checked for workers that miss at most one heartbeat in a row out of a
  timeout of three intervals, and proved for `MaxMissed + 1 < DeadTimeout`. With two
  out of three it fails: the third one is only due at the deadline ("Three missed
  heartbeats", registry.go:20).

Observations from modelling that no run states as a property:

- Evict goes by the id alone (scaler.go:123): a worker that registers again between
  the sweep's snapshot and Evict is removed although it is alive ("Evicts workers
  that have been DEAD for longer than deadGrace", scaler.go:21). `GraceIsKept` speaks
  of the registration the sweep saw.
- Pop may pass over a high-priority request pushed after it polled the high lane
  ("Pop never returns a normal or low request while a high-priority one is waiting",
  queue.go:94-95). `NoOvertakeOfEarlier` is what holds.
- The parts of `InFlightSnapshot` ("a point-in-time copy", router.go:249) and of
  `Stats.Snapshot` are of different moments: a request that fails over between two
  loads is counted at two workers, and success and errors may exceed the total.
  `ReportIsPlausible` and `SnapshotIsCurrent` bound by how much.
- A request at a worker that hangs stays there when the worker is declared DEAD
  and evicted: the router's client has no timeout (router.go:282), although worker
  failure during a request is to be handled by a retry (llm-serving-platform-
  plan.md:149).
- A drained worker deregisters after its last heartbeat with whatever requests it
  is serving (worker/cmd/mock/main.go:183), although RequestDrain's comment has it
  wait until its queue is empty (registry.go:283-284).
- At a shutdown of the request plane nobody is answered: `srv.Close` cuts the
  connections and main returns. Handlers that wait or stream end as "cut off".
- A worker started with a model listed twice is counted twice by `ModelsServed`
  and its requests twice by `listModels`; `QuietReportIsExact` is checked, and proved, for
  lists without repetition.
- The rate limiter's refusal does not stop the refill, and an admitted request
  whose body is bad has spent its token (gateway.go:140 before 157).

### Bounds, and why they are enough

- Two timer identities: a registration and a predecessor whose timer still runs
  or whose callback is late. Identities are reused once nothing refers to them,
  so the number of registrations is not bounded. `MaxCallbacks` = 2 in `registry`:
  a timer that fired, was reset and fired again before the first goroutine got the
  lock. What the proofs say holds for any number of both.
- `DeadTimeout` 2 or 3 ticks, `DeadGrace` 1: an age below, at and (capped) beyond
  each limit. With `MaxMissed` = 1 and `DeadTimeout` = 3 a worker may miss one
  heartbeat and be almost an interval late and still be in time. In
  `control_plane` it is 0: any member may be suspected at any moment, which is more
  than the registry allows, and time plays no other part there.
- One worker process in `fleet`: the registry treats ids independently, and what is
  hard happens between a process, its predecessors under the same id, their timers
  and the sweep. A replacement by the provisioner is one more worker (`Spares`, empty
  in the runs, where docker fails); the safety properties are proved for any number
  of both.
- Two poppers, three requests for a lane of capacity 2: a lane with room, full, and
  drained by the other popper between two polls. A request that was served may be
  pushed again, so load never ends.
- Two models with two attempts: first, last and next model. `ChunkBuffer` = 1 (16
  in the code) with `MaxChunks` = 3: the buffer full with a chunk in hand.
- Three workers, at most two attempts (3 in the code) and two handlers (three for
  the panic): ties of load, ties of price, more workers than attempts, and counters
  that move during a pick. The round-robin counter is kept modulo a common multiple
  of the sizes of groups of equal price, which is exact (up to the wrap of a 64-bit
  counter): only within such a group can the counter decide.
- One handler in `control_plane`, serving request after request: each request may
  be retried at the other worker, so a report can see it twice, and the worker it
  is at can die, leave or return under the report. More handlers multiply the
  histories; what its safety properties say is proved for any number of them.
  Of the two workers one may hang (`Hanging`), so that a request can be kept for
  ever at one worker while the other one leaves.
- Three requests in `admission`, so that two can be in front of the third in its
  own lane or the one above, with thresholds of 0 and 2 around averages of 1 to 3;
  a budget of one request and `MaxAccrued` = 2 units, a whole minute's refill.
- Symmetry is used only in runs without liveness properties.
- Deadlock is checked in the Registry, Fleet, Router and ControlPlane runs. The
  request plane may stop: poppers after Cancel, handlers when all are done
  or the process has exited.

### Fairness

- `Registry!FairSpec`: the Go runtime fires due timers and runs runnable
  goroutines; `sync.RWMutex` does not starve a waiter (strong fairness for
  markDead and for the second half of Register). No request is owed.
- `FleetFairSpec`: in addition the clock and the tickers advance, every heartbeat
  RPC is answered or lost, at most `MaxMissed` are lost in a row, and the scaler's
  loop runs. Nobody need start, stop, crash or drain a worker, or finish loading.
- `RequestQueue!FairSpec`: a goroutine that can run does; each dispatch ends.
- `RequestPlane!FairSpec`: as long as the process lives handlers run, the gateway's
  timer fires, a buffered attempt ends (the HTTP client has a timeout of 60 s). A
  stream owes nothing (its client has no timeout). `UpstreamEnds`
  says that upstream ends its streams; it is the premise of `StreamEnds`, and with a
  process that nobody stops (`UpstreamEndsSpec`) `StreamIsClosed` fails even so.
- `ControlPlane!FairSpec`: a handler runs, and an attempt ends unless its worker is
  one of `Hanging`: the worker answers, or the connection breaks, by the end of the
  worker's process or by TCP's keep-alive when its machine is gone. A process that
  is frozen with its connections open does neither, and the router's client has no
  timeout. `GoneIsLeftAlone` holds with such a worker, but not the stronger statement
  that every worker that left loses its requests. Callers that hang up are not
  counted on: the dispatcher does so after 60 s for a buffered request, and never
  for a stream. Requests, workers and reports owe nothing.

## Proofs

Checked by TLAPS for all values of the constants:

- `RegistrySafe`: `Spec => [](TypeOK /\ TimersOwned)`. `TypeOK` is not inductive
  alone: that a Heartbeat in progress works on an entry of the map needs the lock,
  and that a callback names its entry's id needs `TimersOwned`, timers being
  handed from `joining` to the map.
- `DetectorNeverLost`: `Spec => []SilenceIsWatched` under `Stalling = {}`. The
  inductive invariant `WatchInv` adds `JoiningFresh`: a timer between AfterFunc and
  the insertion of its entry has the whole timeout left. `TimersOwned` enters too:
  two entries never share a timer, or resetting one would disturb the other's
  detector. The assumption is needed: `registry_stalled` is the counterexample.
- `DeadIsTerminal`: `Spec => NoResurrection`. Between check and assignment of a
  state in Heartbeat nothing else may write the entry: `BeatsLegal`, part of
  `SafeInv`, says that the transition that was checked is still legal.
- `RegistryRefinesMembership`: `Spec => ImplementsMembership`, with `members` the
  map without loads, timers and times of death. Each step of the registry is one of
  `Membership` or none. The invariant adds to `SafeInv` that an entry still in
  `joining` is STARTING and undrained, so that its insertion is a Join; that a
  Heartbeat's second half is a legal Beat is `BeatsLegal` again.
- `QueueTypes`: `Spec => []TypeOK` of `RequestQueue`.
- `NoOvertaking`: `Spec => NoOvertakeOfEarlier`. The invariant says that each
  request that has waited since a Pop began is still in its own lane
  (`AheadWaits`, `LanesSorted`), and that none of them is in a lane this Pop has
  already found empty (`PolledIsEmpty`): nobody else can put it there.
- `QueueRefinesLaneQueue`: `Spec => ImplementsLaneQueue`. Of the steps of a Pop
  only the receive is visible, and what it receives is the head of a lane.
- `LimiterKeepsBudgets`: `LimiterSpec => [](LimiterTypeOK /\ BudgetKept)`. The
  invariant `Balance` says that what a window has spent and what the bucket would
  hold now are together at most a full bucket and the window's refill: a call moves
  from one to the other, a tick adds the same to both sides or, at a full bucket,
  to one.
`RouterProofs`, about the router counter read by counter read:

- `CountersStayAccurate` (`InFlightAccurate`) and `BadGatewayAlwaysEarned`
  (`BadGatewayIsEarned`) follow from `RetryInv`. Its part `Attempting` relates what
  a handler has tried, what failed and where it is in its loop, and says that a
  snapshot names no worker twice, so that as many attempts are as many workers;
  `Scanning` says that `pickWorker` stays within its candidates, so that what is
  chosen is a worker of the snapshot not tried before.
- `QuietPickAlwaysBest` (`QuietPickIsBest`) adds `Undisturbed`: while no counter
  moved, the first pass has found the least counter of the candidates it has seen
  and the second has collected exactly those that have it. A step of another
  handler that moves a counter clears the premise.
- `RouterTypeCorrect` (`TypeOK`) adds `Bounded`: a counter that was seen is no larger
  than the number of handlers.
- `RouterRefinesRouting` (`ImplementsRouting`): the reads are invisible, the increment
  is Forward, and a panic in `pickWorker` is Drop, which needs that there were at
  least two candidates (`Scanning`).

  The candidates, a filtered slice, are written by position (`Keep`) and not with
  the recursive `SelectSeq`, about which nothing can be proved here; `MCRouter`
  has TLC compare the two.

`RequestPlaneProofs`, about gateway and dispatcher:

- `OneResultPerRequest` (`ExactlyOneResult`) follows from `PlaneInv`: a request is in
  its own lane, once, or in the hands of one dispatcher (`Placed`); one that waits
  has no result, no chunk and no attempt yet, and a stream that was answered in
  one piece, or has ended, is nobody's (`Story`); a dispatcher in its retry loop
  has sent nothing (`Retrying`), although the handler may have left.
- `RequestsCountedOnce` (`CountedOnce`) needs nothing but finiteness: whoever is done
  was counted in the same step.
- `FallbackOnlyAfterExhaustion` (`FallbackAfterExhaustion`): `TriesInv` says how many
  attempts upstream has seen at each place of the loop over models and attempts
  (`Attempts`), and that a result names the model of the last one (`Honest`).
- `StreamAlwaysWhole` (`StreamIsWhole`) follows from `PlaneInv` and the property
  itself: only one dispatcher holds a request, so only one chunk can be in hand.
- `PlaneTypeCorrect` (`TypeOK`).

  The end of the process changes nothing but the handlers it cuts off, which is no
  way to be done: they are in no count, and what a dispatcher had for them stays.

`AdmissionProofs`, about the gateway up to TryPush:

- `AdmissionKeepsBudgets` (`BudgetKept`): each step of `Admission` is one of
  `RateLimiter` or leaves it alone, so that the limiter's theorem applies.
- `SnapshotAlwaysCurrent` (`SnapshotIsCurrent`): `LoadInv` says, for each place
  between the loads, what the numbers loaded so far are worth against counters
  that have moved on, and `CountInv` what the counters are worth against the
  requests.
- `AdmissionAlwaysSound` (`AdmissionIsSound`): `Reckoned` says that the sum so far lies
  between the number of requests that stayed ahead and of those that were ahead
  at some time, both restricted to the lanes read so far. It needs that a lane
  holds no request twice and only those of its priority (`LanesInv`). The estimate
  grows with the sum and the policy admits no longer waits than a shorter one.
- `AdmissionTypeCorrect` (`TypeOK`); `AheadBound` limits the sum by a full lane for
  each lane read.

`FleetProofs`, about the registry with workers and scaler around it. Each step of
the fleet is a step of the registry or leaves it alone (`FleetUsesRegistry`), so the
invariants of `RegistryProofs` hold here:

- `FleetTypeCorrect` (`FleetTypeOK`).
- `GraceAlwaysKept` (`GraceIsKept`): `Tracked` says that an entry with the timer the
  sweep saw is still DEAD and exactly as long dead as the copy says; `Unjoined` that
  the timer of a copy is not on its way into a new registration.
- `PromptNeverDead` (`PromptIsNeverDead`), for `StrayBeats = FALSE`, `Stalling = {}`
  and `MaxMissed + 1 < DeadTimeout`: `Accounted` says that the silence of an entry is
  at most the heartbeats missed in a row and one more, and not that one if none is
  due or under way; and that the registry will accept the heartbeat under way.
  `OneCall` gives that there is only one. A heartbeat that says READY comes from a
  process that is (`Truthful`), and the half-done Heartbeat in the registry is one of
  the calls under way (`Answering`).

`ControlPlaneProofs`, about `Routing` and about its composition with a fleet and the
reports:

- `ControlTypeCorrect` (`TypeOK`): the router's steps over a changing fleet are steps
  of `Routing` (`ControlUsesRouting`), because what the registry offers is a set of
  workers. `RoutingInv` says that each counter is the number of requests at its
  worker (`CountersAccurate`), which needs that a handler is at a worker exactly while
  it is in the proxy stage. `ControlInv` also follows the snapshots a report still
  has to take: once it awaits no counters it has those of all workers
  (`CountersTaken`).
- `ReportAlwaysPlausible` (`ReportIsPlausible`): `HistoryInv` says of each counter loaded
  so far that it lies between the requests that stayed at its worker and those that
  were there at some time, and of the moment of each load that the requests under
  way lie between the two as well.
- `QuietReportAlwaysExact` (`QuietReportIsExact`), if no worker lists a model twice
  (`NoRepetition`): `QuietInv` says that what was taken equals what is there as long
  as nothing has moved; `TallyFacts` that the separately written tests of stats,
  Collect and WorkerCount count the same workers, and that those of stats leave
  none out.

  Both speak of sums over the listed workers, which the model takes from the
  community modules as a recursive function. `SetInduction` is induction over the
  subsets of a finite set, for a set in place of a predicate; from it follow that
  such a sum exists (`SumExists`) and that it bounds, or counts, what is at the
  places summed over if each term does (`SumCounts`, `SumIsCount`).

The assumptions are the named ones of the modules: positive timeout and
attempts, natural capacities, priorities defined for every request, integer
budgets given for keys of the store, finitely many handlers and (in `Router`)
workers, reports among those the code has, and that "nobody" is not a worker.
Where a theorem needs more than its module assumes, it says so in its statement.

Only model-checked: the liveness properties `SilentIsDetected`,
`CrashedIsForgotten`, `DrainCompletes`, `HighIsServed`, `BufferedIsReleased`,
`StreamEnds` and `GoneIsLeftAlone`. Fairness is out of the
prover's reach. Every other property of a passing run is proved.

## Not modelled

- Generated gRPC code: the messages are parameters of the registry's actions.
- The float64 rounding of the token bucket and the exact factor of the moving
  average: there are no real numbers in TLC. The bucket is exact in units; the
  average moves to any value between the old one and the sample.
- Load numbers, prices other than their order, JSON, headers, flag parsing, TLS.
- The per-model request counter of the metrics and the registration of the
  collector; GET /admin/queue.
- How the provisioner forms an id from the clock, and docker.
- The Ollama worker's queries to its backend.
- A panic inside the router's proxy: net/http panics on a status below 100
  (router.go:290), which would skip the decrement at router.go:130, because it is
  not deferred.
- A restart of the control plane: it persists nothing, and comes back as `Init`
  with the workers' heartbeats unknown, which is what `fleet_rejoin` shows.

See `components` in `PROJECT.json` for each part.

## Plan

1. Proofs that the compositions use their parts as they are specified:
   `ControlPlane` moves its members as `Membership` says, `Admission` and
   `RequestPlane` their lanes as `LaneQueue` says.
2. The metrics request counter, with the requests that panic or find no worker
   and are in no count.
