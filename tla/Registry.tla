------------------------------ MODULE Registry ------------------------------
(***************************************************************************)
(* The worker registry of the control plane                                *)
(* (control-plane/registry/registry.go): the map of worker entries, the    *)
(* per-worker deadline timers created by time.AfterFunc, the markDead      *)
(* callbacks those timers start, and the gRPC handlers that touch them.    *)
(*                                                                         *)
(* Every handler that holds r.mu from its first to its last statement is   *)
(* one action.  Two handlers are split where the split is visible:         *)
(*   - Register starts the timer before it takes the lock (line 96 / 100); *)
(*   - Heartbeat reads the clock twice while it holds the lock: once       *)
(*     inside timer.Reset (136) and once for LastHeartbeat (137).          *)
(* Requests that the code answers with an error (unknown id, illegal       *)
(* transition, empty id or address) change nothing and are stuttering      *)
(* steps here.                                                             *)
(*                                                                         *)
(* The code never uses an absolute time, only time.Since(x) against a      *)
(* limit, so a time.Time is modelled by its age, which stops growing once  *)
(* the limit is reached, and a running timer by the time it has left.      *)
(***************************************************************************)
EXTENDS Lifecycle

CONSTANTS
    Timers,         \* identities for time.Timer objects: one per Register call
    ModelLists,     \* values of WorkerInfo.ModelsLoaded
    Loads,          \* values of a LoadReport other than the empty one
    DeadTimeout,    \* Registry.deadTimeout, in ticks
    DeadGrace,      \* age of a DEAD mark beyond which nobody looks at it
    MaxCallbacks,   \* bound: markDead goroutines one timer may have pending
    Stalling        \* the handlers inside which the clock may advance

ASSUME TimeoutAssumption == DeadTimeout \in Nat \ {0}
ASSUME GraceAssumption == DeadGrace \in Nat
ASSUME CallbacksAssumption == MaxCallbacks \in Nat \ {0}
ASSUME StallAssumption == Stalling \subseteq {"Register", "Heartbeat"}

VARIABLES
    workers,    \* r.workers: a function from the registered ids to entries
    left,       \* timer -> time left before it fires, Off if not running
    closure,    \* timer -> the workerID its callback closes over
    callbacks,  \* timer -> number of started markDead goroutines without the lock
    joining,    \* timer -> entry: Register handlers between AfterFunc and Lock
    beating     \* the Heartbeat handler that holds r.mu, if any

vars == <<workers, left, closure, callbacks, joining, beating>>

Off == -1       \* a timer that is stopped or has fired
Unset == -1     \* the zero time.Time

NoLoad == "empty LoadReport"

WorkerEntry ==
    [ModelsLoaded   : ModelLists,
     State          : WorkerState,
     silence        : 0..DeadTimeout,           \* age of LastHeartbeat
     Load           : Loads \cup {NoLoad},
     DrainRequested : BOOLEAN,
     deadFor        : {Unset} \cup 0..DeadGrace,  \* age of MarkedDeadAt
     deadlineTimer  : Timers]

Registered == DOMAIN workers

(* Mutant of LockFree: the handlers do not exclude each other.             *)
LockIgnored == TRUE

LockFree == beating = {}

-----------------------------------------------------------------------------
Init ==
    /\ workers = Empty
    /\ left = [t \in Timers |-> Off]
    /\ closure \in [Timers -> Workers]
    /\ callbacks = [t \in Timers |-> 0]
    /\ joining = Empty
    /\ beating = {}

(* A timer object nobody refers to any more can stand for a new one.       *)
Unused(t) ==
    /\ left[t] = Off
    /\ callbacks[t] = 0
    /\ t \notin DOMAIN joining
    /\ \A id \in Registered : workers[id].deadlineTimer # t

NewEntry(models, t) ==
    [ModelsLoaded |-> models, State |-> "STARTING", silence |-> 0,
     Load |-> NoLoad, DrainRequested |-> FALSE, deadFor |-> Unset,
     deadlineTimer |-> t]

(* Register, up to and including time.AfterFunc.  An entry the id already  *)
(* has is not looked at, so its timer keeps running.                       *)
RegisterStart(id, models, t) ==
    /\ Unused(t)
    /\ left' = [left EXCEPT ![t] = DeadTimeout]
    /\ closure' = [closure EXCEPT ![t] = id]
    /\ joining' = Put(joining, t, NewEntry(models, t))
    /\ UNCHANGED <<workers, callbacks, beating>>

(* Register, from r.mu.Lock() on.                                          *)
RegisterInsert(t) ==
    /\ LockFree
    /\ t \in DOMAIN joining
    /\ workers' = Put(workers, closure[t], joining[t])
    /\ joining' = Delete(joining, t)
    /\ UNCHANGED <<left, closure, callbacks, beating>>

(* Mutant of Reset: the timer runs on.                                     *)
ResetNothing(t) == left

(* What deadlineTimer.Reset makes of the timers.                           *)
Reset(t) == [left EXCEPT ![t] = DeadTimeout]

(* Heartbeat, up to and including deadlineTimer.Reset.                     *)
HeartbeatReset(id, state) ==
    /\ LockFree
    /\ id \in Registered
    /\ validTransition(workers[id].State, state)
    /\ left' = Reset(workers[id].deadlineTimer)
    /\ beating' = {[id |-> id, State |-> state]}
    /\ UNCHANGED <<workers, closure, callbacks, joining>>

(* The rest of Heartbeat: LastHeartbeat = time.Now(), the state change,    *)
(* the reply (entry.DrainRequested) and the unlock.                        *)
HeartbeatStamp ==
    \E b \in beating :
        /\ workers' = [workers EXCEPT ![b.id].silence = 0,
                                      ![b.id].State = b.State]
        /\ beating' = {}
        /\ UNCHANGED <<left, closure, callbacks, joining>>

Remove(id) ==
    /\ LockFree
    /\ id \in Registered
    /\ left' = [left EXCEPT ![workers[id].deadlineTimer] = Off]
    /\ workers' = Delete(workers, id)
    /\ UNCHANGED <<closure, callbacks, joining, beating>>

Deregister(id) == Remove(id)

Evict(id) == Remove(id)

ReportLoad(id, load) ==
    /\ LockFree
    /\ id \in Registered
    /\ workers' = [workers EXCEPT ![id].Load = load]
    /\ UNCHANGED <<left, closure, callbacks, joining, beating>>

RequestDrain(id) ==
    /\ LockFree
    /\ id \in Registered
    /\ workers' = [workers EXCEPT ![id].DrainRequested = TRUE]
    /\ UNCHANGED <<left, closure, callbacks, joining, beating>>

(* The Go runtime fires a timer some time after it is due and starts its   *)
(* callback in a goroutine of its own.                                     *)
Fire(t) ==
    /\ left[t] = 0
    /\ callbacks[t] < MaxCallbacks
    /\ left' = [left EXCEPT ![t] = Off]
    /\ callbacks' = [callbacks EXCEPT ![t] = @ + 1]
    /\ UNCHANGED <<workers, closure, joining, beating>>

(* Mutant of Expired: the age of the last heartbeat is not checked again.  *)
ExpiredUnchecked(id) ==
    /\ id \in Registered
    /\ workers[id].State # "DEAD"

(* markDead's conditions: the id is registered, not DEAD yet, and silent   *)
(* for at least deadTimeout at the moment the goroutine gets the lock.     *)
Expired(id) ==
    /\ id \in Registered
    /\ workers[id].State # "DEAD"
    /\ workers[id].silence >= DeadTimeout

(* Mutant of Dead: MarkedDeadAt stays zero.                                *)
DeadUnstamped(e) == [e EXCEPT !.State = "DEAD"]

Dead(e) == [e EXCEPT !.State = "DEAD", !.deadFor = 0]

markDead(t) ==
    /\ LockFree
    /\ callbacks[t] > 0
    /\ callbacks' = [callbacks EXCEPT ![t] = @ - 1]
    /\ workers' = IF Expired(closure[t])
                  THEN [workers EXCEPT ![closure[t]] = Dead(@)] ELSE workers
    /\ UNCHANGED <<left, closure, joining, beating>>

Aged(e) ==
    [e EXCEPT !.silence = AtMost(@ + 1, DeadTimeout),
              !.deadFor = IF @ = Unset THEN Unset ELSE AtMost(@ + 1, DeadGrace)]

(* The clock.  A due timer may stay unfired and a callback may stay        *)
(* without the lock while time passes; a handler is overtaken by the clock *)
(* only if it is one of the Stalling ones.                                 *)
Tick ==
    /\ "Heartbeat" \in Stalling \/ LockFree
    /\ "Register" \in Stalling \/ DOMAIN joining = {}
    /\ workers' = [id \in Registered |-> Aged(workers[id])]
    /\ joining' = [t \in DOMAIN joining |-> Aged(joining[t])]
    /\ left' = [t \in Timers |-> IF left[t] > 0 THEN left[t] - 1 ELSE left[t]]
    /\ UNCHANGED <<closure, callbacks, beating>>

Next ==
    \/ \E id \in Workers, models \in ModelLists, t \in Timers :
            RegisterStart(id, models, t)
    \/ \E t \in Timers : RegisterInsert(t)
    \/ \E id \in Workers, s \in WorkerState : HeartbeatReset(id, s)
    \/ HeartbeatStamp
    \/ \E id \in Workers : Deregister(id)
    \/ \E id \in Workers : Evict(id)
    \/ \E id \in Workers, l \in Loads : ReportLoad(id, l)
    \/ \E id \in Workers : RequestDrain(id)
    \/ \E t \in Timers : Fire(t)
    \/ \E t \in Timers : markDead(t)
    \/ Tick

Spec == Init /\ [][Next]_vars

(* The Go runtime eventually fires a due timer and runs every runnable     *)
(* goroutine; r.mu is released by every holder and handed on (sync.RWMutex *)
(* does not starve a writer, hence strong fairness for the two that wait   *)
(* for the lock in mid-operation).  Requests owe nothing.                  *)
Fairness ==
    /\ WF_vars(HeartbeatStamp)
    /\ \A t \in Timers : /\ WF_vars(Fire(t))
                         /\ SF_vars(markDead(t))
                         /\ SF_vars(RegisterInsert(t))

FairSpec == Spec /\ Fairness

-----------------------------------------------------------------------------
(* Types of the registry's map, timers and handlers in progress            *)
(* (WorkerEntry, registry.go:26-57): every entry is well formed, and a     *)
(* Heartbeat that holds the lock works on an entry that is in the map.     *)
TypeOK ==
    /\ workers = [id \in Registered |-> workers[id]]
    /\ Registered \subseteq Workers
    /\ \A id \in Registered : workers[id] \in WorkerEntry
    /\ left \in [Timers -> {Off} \cup 0..DeadTimeout]
    /\ closure \in [Timers -> Workers]
    /\ callbacks \in [Timers -> 0..MaxCallbacks]
    /\ joining = [t \in DOMAIN joining |-> joining[t]]
    /\ DOMAIN joining \subseteq Timers
    /\ \A t \in DOMAIN joining : joining[t] \in WorkerEntry
    /\ \/ beating = {}
       \/ \E id \in Registered, s \in WorkerState :
              beating = {[id |-> id, State |-> s]}

(* Each deadline timer belongs to one entry and its callback names that    *)
(* entry's id, whatever re-registrations happened (Register, line 84-98).  *)
TimersOwned ==
    /\ \A id \in Registered :
          /\ closure[workers[id].deadlineTimer] = id
          /\ workers[id].deadlineTimer \notin DOMAIN joining
    /\ \A t \in DOMAIN joining : joining[t].deadlineTimer = t

Beaten(id) == \E b \in beating : b.id = id

(* A deadline timer that watches an entry silent for the given time: it is *)
(* running and due exactly at the deadline, or it fired at the deadline    *)
(* and its markDead goroutine is still waiting for the lock.               *)
Watched(t, silence) ==
    \/ left[t] = DeadTimeout - silence
    \/ left[t] = Off /\ callbacks[t] > 0 /\ silence = DeadTimeout

(* No live entry is ever without a detector: whatever interleaving of      *)
(* re-registrations, heartbeats, evictions, timers and late callbacks led  *)
(* here, every entry that is not DEAD has its own timer running towards    *)
(* its own deadline, or a markDead on the way (Register 84-102, Heartbeat  *)
(* 133-137, markDead 215-235).  Losing the detector once loses it for      *)
(* good, because markDead never re-arms the timer.                         *)
SilenceIsWatched ==
    \A id \in Registered :
        workers[id].State # "DEAD" =>
            Watched(workers[id].deadlineTimer,
                    IF Beaten(id) THEN 0 ELSE workers[id].silence)

SameIncarnation(id) ==
    /\ id \in Registered
    /\ id \in DOMAIN workers'
    /\ workers'[id].deadlineTimer = workers[id].deadlineTimer

(* DEAD is terminal and DRAINING is left only towards DEAD as long as the  *)
(* entry is the same registration: a state checked by Heartbeat (127) is   *)
(* not overwritten between the check and the assignment (139-143), and a   *)
(* DEAD entry's timestamp is stamped with its state (231-232).             *)
NoResurrection ==
    [][\A id \in Workers : SameIncarnation(id) =>
          /\ workers[id].State = "DEAD" => workers'[id].State = "DEAD"
          /\ workers[id].State = "DRAINING" =>
                workers'[id].State \in {"DRAINING", "DEAD"}
          /\ workers[id].deadFor # Unset => workers'[id].deadFor # Unset]_vars

(* A worker that stops heartbeating is marked DEAD (registry.go:19-22 and  *)
(* 73): an entry that reached the deadline does not stay both silent and   *)
(* not DEAD.                                                               *)
SilentIsDetected ==
    \A id \in Workers : Expired(id) ~> ~Expired(id)

(* An entry as a member: without its timer, its load and its time of death.*)
AsMember(e) ==
    [ModelsLoaded |-> e.ModelsLoaded, State |-> e.State, silence |-> e.silence,
     DrainRequested |-> e.DrainRequested]

Abstract ==
    INSTANCE Membership
        WITH members <- [id \in Registered |-> AsMember(workers[id])]

(* The timers, callbacks and split handlers of registry.go together do     *)
(* what Membership says: whatever timer of whatever registration fires     *)
(* however late, only a worker that is silent for the whole timeout at     *)
(* that moment becomes DEAD, and every state change is one the life cycle  *)
(* allows.                                                                 *)
ImplementsMembership == Abstract!MembersSpec
=============================================================================
