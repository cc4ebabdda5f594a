------------------------------- MODULE Fleet --------------------------------
(***************************************************************************)
(* The fleet around the registry: worker processes (worker/cmd/mock,       *)
(* worker/cmd/ollama) that register, heartbeat, drain, quit and crash; the *)
(* scaler's sweep (control-plane/scaler/scaler.go) that evicts workers     *)
(* DEAD for longer than the grace period; the provisioner's replacement    *)
(* (control-plane/provisioner/provisioner.go); the admin drain endpoint.   *)
(*                                                                         *)
(* One tick is one heartbeat interval.  A worker's ticker fires once per   *)
(* tick, and a heartbeat that is not lost reaches the registry before the  *)
(* next tick; a lost request, a lost reply or a worker that was too slow   *)
(* is a missed heartbeat, and a worker misses at most MaxMissed in a row.  *)
(***************************************************************************)
EXTENDS Registry

CONSTANTS
    Boot,           \* states a worker starts in: STARTING (mock), READY (ollama)
    Spares,         \* worker ids only the provisioner may start
    MaxMissed,      \* bound: heartbeats in a row a running worker may miss
    StrayBeats      \* may a heartbeat outlive its process beyond a restart?

ASSUME BootAssumption == Boot \subseteq {"STARTING", "READY"} /\ Boot # {}
ASSUME SparesAssumption == Spares \subseteq Workers
ASSUME MissedAssumption == MaxMissed \in Nat
ASSUME StrayAssumption == StrayBeats \in BOOLEAN

VARIABLES
    phase,          \* worker -> where its process is
    currentState,   \* worker -> the state its heartbeat loop reports
    incarnation,    \* worker -> the timer its own Register call created
    due,            \* worker -> its heartbeat ticker has fired
    missed,         \* worker -> heartbeats missed in a row
    calls,          \* Heartbeat RPCs between client and reply
    pending         \* DEAD entries of the running sweep's ListWorkers snapshot

processes == <<phase, currentState, incarnation, due, missed>>
fleetVars == <<vars, processes, calls, pending>>

Phases == {"absent", "down", "registering", "up", "draining", "closing", "leaving"}

Running(w) == phase[w] \in {"up", "draining", "closing", "leaving"}

FleetInit ==
    /\ Init
    /\ phase = [w \in Workers |-> IF w \in Spares THEN "absent" ELSE "down"]
    /\ currentState = [w \in Workers |-> "STARTING"]
    /\ incarnation \in [Workers -> Timers]
    /\ due = [w \in Workers |-> FALSE]
    /\ missed = [w \in Workers |-> 0]
    /\ calls = {}
    /\ pending = {}

-----------------------------------------------------------------------------
(* Worker processes.                                                       *)

(* An identity still named by a process or a snapshot is not reused.       *)
Named(t) ==
    \/ \E w \in Workers : incarnation[w] = t /\ phase[w] \notin {"absent", "down"}
    \/ \E p \in pending : p.deadlineTimer = t
    \/ \E c \in calls : c.from = t

(* main up to client.Register.                                             *)
Start(w, models, state, t) ==
    /\ phase[w] = "down"
    /\ StrayBeats \/ \A c \in calls : c.id # w
    /\ ~Named(t)
    /\ RegisterStart(w, models, t)
    /\ phase' = [phase EXCEPT ![w] = "registering"]
    /\ currentState' = [currentState EXCEPT ![w] = state]
    /\ incarnation' = [incarnation EXCEPT ![w] = t]
    /\ due' = [due EXCEPT ![w] = FALSE]
    /\ missed' = [missed EXCEPT ![w] = 0]
    /\ UNCHANGED <<calls, pending>>

(* Register takes effect; the process that called it, if it is still       *)
(* there, starts its loops.                                                *)
Registration(t) ==
    LET w == closure[t] IN
    /\ RegisterInsert(t)
    /\ phase' = IF phase[w] = "registering" /\ incarnation[w] = t
                THEN [phase EXCEPT ![w] = "up"] ELSE phase
    /\ UNCHANGED <<currentState, incarnation, due, missed, calls, pending>>

(* The model-load goroutine.  It also sets READY in a draining worker,     *)
(* which nothing reads any more: the final heartbeat says DRAINING.        *)
LoadModel(w) ==
    /\ phase[w] = "up"
    /\ currentState[w] = "STARTING"
    /\ currentState' = [currentState EXCEPT ![w] = "READY"]
    /\ UNCHANGED <<vars, phase, incarnation, due, missed, calls, pending>>

Call(w, state) ==
    [id |-> w, State |-> state, from |-> incarnation[w], served |-> FALSE]

(* The heartbeat ticker's case: the request leaves the worker ...          *)
SendHeartbeat(w) ==
    /\ phase[w] = "up"
    /\ due[w]
    /\ due' = [due EXCEPT ![w] = FALSE]
    /\ calls' = calls \cup {Call(w, currentState[w])}
    /\ UNCHANGED <<vars, phase, currentState, incarnation, missed, pending>>

(* ... or is lost: an error is printed and the loop continues.             *)
LoseHeartbeat(w) ==
    /\ phase[w] = "up"
    /\ due[w]
    /\ missed[w] < MaxMissed
    /\ due' = [due EXCEPT ![w] = FALSE]
    /\ missed' = [missed EXCEPT ![w] = @ + 1]
    /\ UNCHANGED <<vars, phase, currentState, incarnation, calls, pending>>

(* After drain=true: one last heartbeat, DRAINING, whose outcome is        *)
(* ignored; when it has returned main deregisters, whatever inference      *)
(* requests the worker is serving.                                         *)
SendFinalHeartbeat(w) ==
    /\ phase[w] = "draining"
    /\ phase' = [phase EXCEPT ![w] = "closing"]
    /\ \/ calls' = calls \cup {Call(w, "DRAINING")}
       \/ calls' = calls
    /\ UNCHANGED <<vars, currentState, incarnation, due, missed, pending>>

(* The registry serves a heartbeat.                                        *)
ServeHeartbeat(c) ==
    /\ ~c.served
    /\ HeartbeatReset(c.id, c.State)
    /\ calls' = (calls \ {c}) \cup {[c EXCEPT !.served = TRUE]}
    /\ UNCHANGED <<processes, pending>>

(* The registry refuses a heartbeat (unknown id, illegal transition): the  *)
(* worker's loop prints the error and continues.                           *)
RefuseHeartbeat(c) ==
    /\ ~c.served
    /\ LockFree
    /\ c.id \in Registered => ~validTransition(workers[c.id].State, c.State)
    /\ calls' = calls \ {c}
    /\ UNCHANGED <<vars, processes, pending>>

(* Mutant of Delivered: the worker does not look at the drain flag.        *)
DeliveredWithoutDrain(c) ==
    /\ incarnation[c.id] = c.from /\ phase[c.id] = "up"
    /\ missed' = [missed EXCEPT ![c.id] = 0]
    /\ UNCHANGED <<phase, currentState>>

(* A reply reaches the process that asked.  Drain ends its loop.           *)
Delivered(c) ==
    /\ incarnation[c.id] = c.from /\ phase[c.id] = "up"
    /\ missed' = [missed EXCEPT ![c.id] = 0]
    /\ IF workers[c.id].DrainRequested
       THEN /\ phase' = [phase EXCEPT ![c.id] = "draining"]
            /\ currentState' = [currentState EXCEPT ![c.id] = "DRAINING"]
       ELSE UNCHANGED <<phase, currentState>>

(* A reply is lost, or nobody waits for it any more.                       *)
Undelivered(c) ==
    /\ IF incarnation[c.id] = c.from /\ phase[c.id] = "up"
       THEN /\ missed[c.id] < MaxMissed
            /\ missed' = [missed EXCEPT ![c.id] = @ + 1]
       ELSE UNCHANGED missed
    /\ UNCHANGED <<phase, currentState>>

ReplyHeartbeat(c) ==
    /\ c.served
    /\ HeartbeatStamp
    /\ calls' = calls \ {c}
    /\ Delivered(c) \/ Undelivered(c)
    /\ UNCHANGED <<incarnation, due, pending>>

(* SIGINT or SIGTERM.                                                      *)
Quit(w) ==
    /\ phase[w] \in {"up", "draining", "closing"}
    /\ phase' = [phase EXCEPT ![w] = "leaving"]
    /\ UNCHANGED <<vars, currentState, incarnation, due, missed, calls, pending>>

(* client.Deregister, then the process ends.  The call may fail or be      *)
(* lost ("non-fatal").                                                     *)
Leave(w) ==
    /\ \/ phase[w] = "leaving"
       \/ phase[w] = "closing" /\ \A c \in calls : c.from # incarnation[w]
    /\ phase' = [phase EXCEPT ![w] = "down"]
    /\ \/ Deregister(w)
       \/ UNCHANGED vars
    /\ UNCHANGED <<currentState, incarnation, due, missed, calls, pending>>

(* The process dies without a word (also --crash, also a Register call     *)
(* that fails: log.Fatalf).                                                *)
Crash(w) ==
    /\ phase[w] \notin {"absent", "down"}
    /\ phase' = [phase EXCEPT ![w] = "down"]
    /\ UNCHANGED <<vars, currentState, incarnation, due, missed, calls, pending>>

-----------------------------------------------------------------------------
(* Control plane.                                                          *)

(* POST /admin/workers/{id}/drain                                          *)
DrainWorker(w) ==
    /\ RequestDrain(w)
    /\ UNCHANGED <<processes, calls, pending>>

(* Sweep: the ListWorkers snapshot.  Only DEAD entries matter afterwards.  *)
SweepBegin ==
    /\ LockFree
    /\ pending = {}
    /\ pending' = {[id |-> id, deadFor |-> workers[id].deadFor,
                    deadlineTimer |-> workers[id].deadlineTimer] :
                       id \in {i \in Registered : workers[i].State = "DEAD"}}
    /\ pending' # {}
    /\ UNCHANGED <<vars, processes, calls>>

(* OnEvicted: docker starts a container under a fresh id, or fails.        *)
OnEvicted ==
    \/ \E n \in Workers : phase[n] = "absent" /\ phase' = [phase EXCEPT ![n] = "down"]
    \/ UNCHANGED phase

(* Mutant of InGrace: no grace period.                                     *)
NeverInGrace(p) == p.deadFor = Unset

(* handleDead leaves the entry alone: no stamp yet, or a recent one.       *)
InGrace(p) == p.deadFor = Unset \/ p.deadFor < DeadGrace

(* handleDead for one entry of the snapshot: skip it, or Evict its id.     *)
handleDead(p) ==
    /\ pending' = pending \ {p}
    /\ IF InGrace(p) \/ p.id \notin Registered
       THEN LockFree /\ UNCHANGED <<vars, phase>>
       ELSE Evict(p.id) /\ OnEvicted
    /\ UNCHANGED <<currentState, incarnation, due, missed, calls>>

RegistryFires(t) == Fire(t) /\ UNCHANGED <<processes, calls, pending>>

RegistryMarksDead(t) == markDead(t) /\ UNCHANGED <<processes, calls, pending>>

(* One heartbeat interval passes.  Running workers' tickers fire; sweeps,  *)
(* docker and shutting-down workers may take as long as they like.         *)
Interval ==
    /\ calls = {}
    /\ \A w \in Workers : phase[w] = "up" => ~due[w]
    /\ Tick
    /\ due' = [w \in Workers |-> phase[w] = "up"]
    /\ pending' = {[p EXCEPT !.deadFor = IF @ = Unset THEN Unset
                                         ELSE AtMost(@ + 1, DeadGrace)] :
                       p \in pending}
    /\ UNCHANGED <<phase, currentState, incarnation, missed, calls>>

FleetNext ==
    \/ \E w \in Workers, m \in ModelLists, s \in Boot, t \in Timers :
            Start(w, m, s, t)
    \/ \E t \in Timers : Registration(t)
    \/ \E w \in Workers : LoadModel(w)
    \/ \E w \in Workers : SendHeartbeat(w)
    \/ \E w \in Workers : LoseHeartbeat(w)
    \/ \E w \in Workers : SendFinalHeartbeat(w)
    \/ \E c \in calls : ServeHeartbeat(c)
    \/ \E c \in calls : RefuseHeartbeat(c)
    \/ \E c \in calls : ReplyHeartbeat(c)
    \/ \E w \in Workers : Quit(w)
    \/ \E w \in Workers : Leave(w)
    \/ \E w \in Workers : Crash(w)
    \/ \E w \in Workers : DrainWorker(w)
    \/ SweepBegin
    \/ \E p \in pending : handleDead(p)
    \/ \E t \in Timers : RegistryFires(t)
    \/ \E t \in Timers : RegistryMarksDead(t)
    \/ Interval

FleetSpec == FleetInit /\ [][FleetNext]_fleetVars

(* The clock advances, tickers and timers fire, goroutines run, every RPC  *)
(* is answered or lost, the scaler's loop runs.  Nothing obliges anybody   *)
(* to start, stop, crash or drain a worker or to finish loading a model.   *)
FleetFairness ==
    /\ WF_fleetVars(Interval)
    /\ WF_fleetVars(\E c \in calls : ServeHeartbeat(c))
    /\ WF_fleetVars(\E c \in calls : RefuseHeartbeat(c))
    /\ WF_fleetVars(\E c \in calls : ReplyHeartbeat(c))
    /\ SF_fleetVars(SweepBegin)
    /\ SF_fleetVars(\E p \in pending : handleDead(p))
    /\ \A t \in Timers : /\ WF_fleetVars(RegistryFires(t))
                         /\ SF_fleetVars(RegistryMarksDead(t))
                         /\ SF_fleetVars(Registration(t))
    /\ \A w \in Workers : /\ WF_fleetVars(SendHeartbeat(w) \/ LoseHeartbeat(w))
                          /\ WF_fleetVars(SendFinalHeartbeat(w))
                          /\ SF_fleetVars(Leave(w))

FleetFairSpec == FleetSpec /\ FleetFairness

-----------------------------------------------------------------------------
(* Types of the processes, the calls in flight and the sweep's snapshot.   *)
FleetTypeOK ==
    /\ TypeOK
    /\ phase \in [Workers -> Phases]
    /\ currentState \in [Workers -> {"STARTING", "READY", "DRAINING"}]
    /\ incarnation \in [Workers -> Timers]
    /\ due \in [Workers -> BOOLEAN]
    /\ missed \in [Workers -> 0..MaxMissed]
    /\ calls \subseteq [id : Workers, State : WorkerState, from : Timers,
                        served : BOOLEAN]
    /\ pending \subseteq [id : Workers, deadFor : {Unset} \cup 0..DeadGrace,
                          deadlineTimer : Timers]

OwnEntry(w) ==
    w \in Registered /\ workers[w].deadlineTimer = incarnation[w]

(* A running worker that misses fewer heartbeats in a row than the timeout *)
(* allows is never taken for dead, whatever timers of earlier              *)
(* registrations, late markDead goroutines (registry.go:215-235) and       *)
(* sweeps are about.                                                       *)
PromptIsNeverDead ==
    \A w \in Workers :
        phase[w] = "up" /\ OwnEntry(w) => workers[w].State # "DEAD"

(* "the router will not route here until the worker transitions to READY   *)
(* via a subsequent Heartbeat" (registry.go:71-72): the entry of a running *)
(* process is healthy only when that process has left STARTING.            *)
RoutableIsLoaded ==
    \A w \in Workers :
        OwnEntry(w) /\ Healthy(workers[w]) /\ Running(w) =>
            currentState[w] # "STARTING"

Evicts(p) ==
    /\ p \in pending /\ p \notin pending'
    /\ p.id \in Registered /\ p.id \notin DOMAIN workers'

(* A sweep that evicts the registration it saw evicts a worker that is     *)
(* still DEAD and has been so for the whole grace period (scaler.go:112-   *)
(* 125), although it decides on a snapshot taken earlier.  A registration  *)
(* that replaced the one it saw enjoys no such protection: Evict goes by   *)
(* the id alone.                                                           *)
GraceIsKept ==
    [][\A p \in pending :
          Evicts(p) /\ workers[p.id].deadlineTimer = p.deadlineTimer =>
              workers[p.id].State = "DEAD" /\ workers[p.id].deadFor >= DeadGrace
      ]_fleetVars

(* A crashed worker does not stay in the registry: it is marked DEAD and,  *)
(* after the grace period, evicted, unless it comes back.                  *)
CrashedIsForgotten ==
    \A w \in Workers :
        (phase[w] = "down" /\ w \in Registered) ~>
            ~(phase[w] = "down" /\ w \in Registered)

(* A drain request is carried out: the drained registration leaves the     *)
(* registry by Deregister or by eviction, or is replaced (registry.go:     *)
(* 282-296, worker/cmd/mock/main.go:117-187).                              *)
DrainCompletes ==
    \A w \in Workers :
        (w \in Registered /\ workers[w].DrainRequested) ~>
            (w \notin Registered \/ ~workers[w].DrainRequested)

(* A running worker that the registry does not know gets back into it      *)
(* ("not registered; re-register", registry.go:122).                       *)
UnknownReregisters ==
    \A w \in Workers :
        (phase[w] = "up" /\ w \notin Registered) ~>
            (phase[w] # "up" \/ w \in Registered)
=============================================================================
