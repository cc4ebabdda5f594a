---------------------------- MODULE FleetProofs -----------------------------
(***************************************************************************)
(* Proofs about Fleet, for any workers, timers, models and timeouts.  Every*)
(* step of the fleet is a step of the registry or leaves it alone, so that *)
(* what RegistryProofs shows holds here too.  GraceIsKept needs nothing    *)
(* else; PromptIsNeverDead needs that no heartbeat outlives its process    *)
(* beyond a restart (StrayBeats = FALSE), that handlers are not overtaken  *)
(* by the clock (Stalling = {}) and that MaxMissed heartbeats and the one  *)
(* that is due fit into the timeout.                                       *)
(***************************************************************************)
EXTENDS Fleet, RegistryProofs

Calls == [id : Workers, State : WorkerState, from : Timers, served : BOOLEAN]
Entries == [id : Workers, deadFor : {Unset} \cup 0..DeadGrace, deadlineTimer : Timers]

(* The sweep's snapshot: none of its timers belongs to a registration on   *)
(* its way, and the entry it shows, if still there, is still DEAD and as   *)
(* long dead as the copy says.                                             *)
Unjoined == \A p \in pending : p.deadlineTimer \notin DOMAIN joining
Tracked ==
    \A p \in pending :
        p.id \in Registered /\ workers[p.id].deadlineTimer = p.deadlineTimer =>
            workers[p.id].State = "DEAD" /\ workers[p.id].deadFor = p.deadFor

SweepInv == FleetTypeOK /\ RefineInv /\ Unjoined /\ Tracked

(* The call the registry is serving is the one that holds its lock.        *)
Answering ==
    /\ \A c \in calls : c.served => beating = {[id |-> c.id, State |-> c.State]}
    /\ \A c, d \in calls : c.served /\ d.served => c = d

(* A heartbeat says READY only if its worker is.                           *)
Truthful ==
    \A c \in calls :
        /\ c.State \in {"STARTING", "READY", "DRAINING"}
        /\ c.State = "READY" => currentState[c.id] # "STARTING"

Loaded ==
    \A w \in Workers :
        OwnEntry(w) /\ Healthy(workers[w]) => currentState[w] # "STARTING"

LoadedInv == FleetTypeOK /\ RefineInv /\ Answering /\ Truthful /\ Loaded

(* A worker on its way or in its heartbeat loop: no heartbeat but its own, *)
(* one at a time.                                                          *)
NoCall(w) == \A c \in calls : c.id # w
Booted(w) ==
    phase[w] \in {"registering", "up"} => currentState[w] \in {"STARTING", "READY"}
OneCall(w) ==
    /\ phase[w] = "registering" => NoCall(w)
    /\ phase[w] = "up" =>
          /\ due[w] => NoCall(w)
          /\ \A c, d \in calls : c.id = w /\ d.id = w => c = d
          /\ \A c \in calls : c.id = w => c.State \in {"STARTING", "READY"}

(* Its entry: the registry will accept the heartbeat on its way, and the   *)
(* silence is accounted for by the missed heartbeats and the one due.      *)
Accounted(w) ==
    phase[w] = "up" /\ OwnEntry(w) =>
        /\ workers[w].State \in {"STARTING", "READY"}
        /\ \A c \in calls :
              c.id = w /\ c.State = "STARTING" => workers[w].State = "STARTING"
        /\ workers[w].silence <= missed[w] + 1
        /\ ~due[w] /\ NoCall(w) => workers[w].silence <= missed[w]

PromptInv ==
    /\ LoadedInv /\ WatchInv
    /\ \A w \in Workers : Booted(w) /\ OneCall(w) /\ Accounted(w)

-----------------------------------------------------------------------------
(* Every step of the fleet is a step of the registry or leaves it alone.   *)
LEMMA FleetUsesRegistry ==
    ASSUME FleetTypeOK, [FleetNext]_fleetVars
    PROVE  [Next]_vars
<1>1. ASSUME NEW w \in Workers, NEW m \in ModelLists, NEW s \in Boot, NEW t \in Timers,
             Start(w, m, s, t)
      PROVE  Next
  BY <1>1 DEF Start, Next
<1>2. ASSUME NEW t \in Timers, Registration(t)
      PROVE  Next
  BY <1>2 DEF Registration, Next
<1>3. ASSUME NEW c \in calls, ServeHeartbeat(c)
      PROVE  Next
  <2>1. c.id \in Workers /\ c.State \in WorkerState
    BY DEF FleetTypeOK
  <2> QED
    BY <1>3, <2>1 DEF ServeHeartbeat, Next
<1>4. ASSUME NEW c \in calls, ReplyHeartbeat(c)
      PROVE  Next
  BY <1>4 DEF ReplyHeartbeat, Next
<1>5. ASSUME NEW w \in Workers, Leave(w)
      PROVE  [Next]_vars
  BY <1>5 DEF Leave, Next
<1>6. ASSUME NEW w \in Workers, DrainWorker(w)
      PROVE  Next
  BY <1>6 DEF DrainWorker, Next
<1>7. ASSUME NEW p \in pending, handleDead(p)
      PROVE  [Next]_vars
  <2>1. p.id \in Workers
    BY DEF FleetTypeOK
  <2> QED
    BY <1>7, <2>1 DEF handleDead, Next
<1>8. ASSUME NEW t \in Timers, RegistryFires(t) \/ RegistryMarksDead(t)
      PROVE  Next
  BY <1>8 DEF RegistryFires, RegistryMarksDead, Next
<1>9. CASE Interval
  BY <1>9 DEF Interval, Next
<1>10. CASE UNCHANGED vars
  BY <1>10
<1>11. ASSUME NEW w \in Workers,
              LoadModel(w) \/ SendHeartbeat(w) \/ LoseHeartbeat(w) \/ SendFinalHeartbeat(w)
                  \/ Quit(w) \/ Crash(w)
       PROVE  UNCHANGED vars
  BY <1>11 DEF LoadModel, SendHeartbeat, LoseHeartbeat, SendFinalHeartbeat, Quit, Crash
<1>12. ASSUME NEW c \in calls, RefuseHeartbeat(c)
       PROVE  UNCHANGED vars
  BY <1>12 DEF RefuseHeartbeat
<1>13. CASE SweepBegin \/ UNCHANGED fleetVars
  BY <1>13 DEF SweepBegin, fleetVars
<1> QED
  BY <1>1, <1>2, <1>3, <1>4, <1>5, <1>6, <1>7, <1>8, <1>9, <1>10, <1>11, <1>12, <1>13
  DEF FleetNext

-----------------------------------------------------------------------------
(* The registry's entries through each of its steps.                       *)

(* A registration takes effect.                                            *)
LEMMA InsertEntry ==
    ASSUME TypeOK, NEW t, RegisterInsert(t)
    PROVE  /\ t \in DOMAIN joining /\ closure[t] \in Workers
           /\ DOMAIN workers' = Registered \cup {closure[t]}
           /\ workers'[closure[t]] = joining[t]
           /\ \A w \in Registered : w # closure[t] => workers'[w] = workers[w]
           /\ DOMAIN joining' \subseteq DOMAIN joining
  BY DEF RegisterInsert, Put, Delete, Registered, TypeOK

(* Heartbeat ends.                                                         *)
LEMMA StampEntry ==
    ASSUME TypeOK, NEW id, NEW s, beating = {[id |-> id, State |-> s]}, HeartbeatStamp
    PROVE  /\ id \in Registered /\ s \in WorkerState /\ DOMAIN workers' = Registered
           /\ workers'[id].State = s /\ workers'[id].silence = 0
           /\ workers'[id].deadlineTimer = workers[id].deadlineTimer
           /\ workers'[id].deadFor = workers[id].deadFor
           /\ \A w \in Registered : w # id => workers'[w] = workers[w]
           /\ joining' = joining /\ beating' = {}
<1>1. PICK b \in beating :
          /\ workers' = [workers EXCEPT ![b.id].silence = 0, ![b.id].State = b.State]
          /\ beating' = {} /\ joining' = joining
  BY DEF HeartbeatStamp
<1>2. b.id = id /\ b.State = s
  BY <1>1
<1>3. id \in Registered /\ s \in WorkerState
  BY <1>1, <1>2, BeatingShape
<1>4. workers[id] \in WorkerEntry /\ workers = [x \in Registered |-> workers[x]]
  BY <1>3 DEF TypeOK
<1>5. /\ DOMAIN workers' = Registered
      /\ workers'[id] = [[workers[id] EXCEPT !.silence = 0] EXCEPT !.State = s]
      /\ \A w \in Registered : w # id => workers'[w] = workers[w]
  BY <1>1, <1>2, <1>3, <1>4 DEF Registered
<1> QED
  BY <1>1, <1>3, <1>4, <1>5 DEF WorkerEntry

(* An entry is removed.                                                    *)
LEMMA RemoveEntry ==
    ASSUME NEW id, Remove(id)
    PROVE  /\ id \in Registered /\ DOMAIN workers' = Registered \ {id}
           /\ \A w \in DOMAIN workers' : workers'[w] = workers[w]
           /\ joining' = joining /\ beating' = beating
  BY DEF Remove, Delete, Registered

(* A drain request changes nothing but its flag.                           *)
LEMMA DrainEntry ==
    ASSUME TypeOK, NEW id, RequestDrain(id)
    PROVE  /\ DOMAIN workers' = Registered /\ joining' = joining /\ beating' = beating
           /\ \A w \in Registered :
                 /\ workers'[w].State = workers[w].State
                 /\ workers'[w].silence = workers[w].silence
                 /\ workers'[w].deadFor = workers[w].deadFor
                 /\ workers'[w].deadlineTimer = workers[w].deadlineTimer
<1>1. /\ workers' = [workers EXCEPT ![id].DrainRequested = TRUE] /\ id \in Registered
      /\ workers = [x \in Registered |-> workers[x]]
      /\ joining' = joining /\ beating' = beating
  BY DEF RequestDrain, TypeOK
<1>2. ASSUME NEW w \in Registered
      PROVE  /\ workers'[w].State = workers[w].State
             /\ workers'[w].silence = workers[w].silence
             /\ workers'[w].deadFor = workers[w].deadFor
             /\ workers'[w].deadlineTimer = workers[w].deadlineTimer
  <2>1. workers[w] \in WorkerEntry
    BY DEF TypeOK
  <2>2. workers'[w] = workers[w] \/ workers'[w] = [workers[w] EXCEPT !.DrainRequested = TRUE]
    BY <1>1 DEF Registered
  <2> QED
    BY <2>1, <2>2 DEF WorkerEntry
<1> QED
  BY <1>1, <1>2 DEF Registered

(* markDead strikes nobody, or an entry silent for the whole timeout.      *)
LEMMA MarkEntry ==
    ASSUME TypeOK, NEW t \in Timers, markDead(t)
    PROVE  /\ DOMAIN workers' = Registered /\ joining' = joining /\ beating' = beating
           /\ \A w \in Registered :
                 \/ workers'[w] = workers[w]
                 \/ /\ workers[w].State # "DEAD" /\ workers[w].silence >= DeadTimeout
                    /\ workers'[w].State = "DEAD"
                    /\ workers'[w].deadlineTimer = workers[w].deadlineTimer
<1>1. CASE ~Expired(closure[t])
  BY <1>1 DEF markDead, Registered
<1>2. CASE Expired(closure[t])
  <2> DEFINE id == closure[t]
  <2>1. /\ id \in Registered /\ workers[id].State # "DEAD"
        /\ workers[id].silence >= DeadTimeout
    BY <1>2 DEF Expired
  <2>2. /\ workers' = [workers EXCEPT ![id] = Dead(workers[id])]
        /\ joining' = joining /\ beating' = beating
    BY <1>2 DEF markDead
  <2>3. workers[id] \in WorkerEntry /\ workers = [x \in Registered |-> workers[x]]
    BY <2>1 DEF TypeOK
  <2>4. /\ Dead(workers[id]).State = "DEAD"
        /\ Dead(workers[id]).deadlineTimer = workers[id].deadlineTimer
    BY <2>3, DeadEntry
  <2>5. /\ DOMAIN workers' = Registered /\ workers'[id] = Dead(workers[id])
        /\ \A w \in Registered : w # id => workers'[w] = workers[w]
    BY <2>1, <2>2, <2>3 DEF Registered
  <2> QED
    BY <2>1, <2>2, <2>4, <2>5
<1> QED
  BY <1>1, <1>2

(* Time passes for every entry alike.                                      *)
LEMMA TickEntry ==
    ASSUME TypeOK, Tick
    PROVE  /\ DOMAIN workers' = Registered /\ DOMAIN joining' = DOMAIN joining
           /\ beating' = beating
           /\ \A w \in Registered :
                 /\ workers'[w] = Aged(workers[w])
                 /\ workers'[w].State = workers[w].State
                 /\ workers'[w].deadlineTimer = workers[w].deadlineTimer
                 /\ workers'[w].silence = AtMost(workers[w].silence + 1, DeadTimeout)
                 /\ workers'[w].deadFor = IF workers[w].deadFor = Unset THEN Unset
                                          ELSE AtMost(workers[w].deadFor + 1, DeadGrace)
<1>1. /\ workers' = [id \in Registered |-> Aged(workers[id])]
      /\ joining' = [t \in DOMAIN joining |-> Aged(joining[t])] /\ beating' = beating
  BY DEF Tick
<1>2. ASSUME NEW w \in Registered
      PROVE  /\ workers'[w] = Aged(workers[w])
             /\ workers'[w].State = workers[w].State
             /\ workers'[w].deadlineTimer = workers[w].deadlineTimer
             /\ workers'[w].silence = AtMost(workers[w].silence + 1, DeadTimeout)
             /\ workers'[w].deadFor = IF workers[w].deadFor = Unset THEN Unset
                                      ELSE AtMost(workers[w].deadFor + 1, DeadGrace)
  <2>1. workers[w] \in WorkerEntry
    BY DEF TypeOK
  <2>2. workers'[w] = Aged(workers[w])
    BY <1>1
  <2>3. /\ Aged(workers[w]).State = workers[w].State
        /\ Aged(workers[w]).deadlineTimer = workers[w].deadlineTimer
        /\ Aged(workers[w]).silence = AtMost(workers[w].silence + 1, DeadTimeout)
    BY <2>1, AgedEntry
  <2>4. Aged(workers[w]).deadFor = IF workers[w].deadFor = Unset THEN Unset
                                   ELSE AtMost(workers[w].deadFor + 1, DeadGrace)
    <3> DEFINE e == workers[w]
               s == AtMost(e.silence + 1, DeadTimeout)
               d == IF e.deadFor = Unset THEN Unset ELSE AtMost(e.deadFor + 1, DeadGrace)
    <3>1. Aged(e) = [e EXCEPT !.silence = s, !.deadFor = d]
      BY DEF Aged
    <3> HIDE DEF e, s, d
    <3>2. Aged(e).deadFor = d
      BY <2>1, <3>1 DEF WorkerEntry, e
    <3> QED
      BY <3>2 DEF e, d
  <2> QED
    BY <2>2, <2>3, <2>4
<1> QED
  BY <1>1, <1>2

-----------------------------------------------------------------------------
(* The processes' part of the types.                                       *)
ProcessTypes ==
    /\ phase \in [Workers -> Phases]
    /\ currentState \in [Workers -> {"STARTING", "READY", "DRAINING"}]
    /\ incarnation \in [Workers -> Timers]
    /\ due \in [Workers -> BOOLEAN]
    /\ missed \in [Workers -> 0..MaxMissed]

(* The calls' and the sweep's part.                                        *)
MessageTypes == calls \subseteq Calls /\ pending \subseteq Entries

(* FleetTypeOK in three parts.                                             *)
LEMMA TypeParts == FleetTypeOK <=> TypeOK /\ ProcessTypes /\ MessageTypes
  BY DEF FleetTypeOK, ProcessTypes, MessageTypes, Calls, Entries

(* A heartbeat is a call.                                                  *)
LEMMA CallType ==
    ASSUME ProcessTypes, NEW w \in Workers, NEW s \in {"STARTING", "READY", "DRAINING"}
    PROVE  /\ Call(w, s) \in Calls /\ Call(w, s).id = w /\ Call(w, s).State = s
           /\ Call(w, s).served = FALSE
<1>1. incarnation[w] \in Timers /\ s \in WorkerState
  BY DEF ProcessTypes, WorkerState
<1> QED
  BY <1>1 DEF Call, Calls

(* A call that is being served is the same call.                           *)
LEMMA ServedType ==
    ASSUME NEW c \in Calls
    PROVE  /\ [c EXCEPT !.served = TRUE] \in Calls /\ [c EXCEPT !.served = TRUE].id = c.id
           /\ [c EXCEPT !.served = TRUE].State = c.State
           /\ [c EXCEPT !.served = TRUE].from = c.from
  BY DEF Calls

(* A copy of a DEAD entry, as it ages with it.                             *)
Older(p) ==
    [p EXCEPT !.deadFor = IF @ = Unset THEN Unset ELSE AtMost(@ + 1, DeadGrace)]

(* It stays a copy of the same entry.                                      *)
LEMMA OlderType ==
    ASSUME NEW p \in Entries
    PROVE  /\ Older(p) \in Entries /\ Older(p).id = p.id
           /\ Older(p).deadlineTimer = p.deadlineTimer
           /\ Older(p).deadFor = IF p.deadFor = Unset THEN Unset
                                 ELSE AtMost(p.deadFor + 1, DeadGrace)
<1> DEFINE d == IF p.deadFor = Unset THEN Unset ELSE AtMost(p.deadFor + 1, DeadGrace)
<1>1. d \in {Unset} \cup 0..DeadGrace
  BY GraceAssumption DEF Entries, AtMost, Unset
<1>2. Older(p) = [p EXCEPT !.deadFor = d]
  BY DEF Older
<1> HIDE DEF d
<1>3. /\ Older(p) \in Entries /\ Older(p).id = p.id
      /\ Older(p).deadlineTimer = p.deadlineTimer /\ Older(p).deadFor = d
  BY <1>1, <1>2 DEF Entries
<1> QED
  BY <1>3 DEF d

(* The processes through a step.                                           *)
LEMMA ProcessStep ==
    ASSUME TypeOK, ProcessTypes, MessageTypes, [FleetNext]_fleetVars
    PROVE  ProcessTypes'
<1> USE MissedAssumption
<1>0. /\ phase \in [Workers -> Phases]
      /\ currentState \in [Workers -> {"STARTING", "READY", "DRAINING"}]
      /\ incarnation \in [Workers -> Timers] /\ due \in [Workers -> BOOLEAN]
      /\ missed \in [Workers -> 0..MaxMissed]
  BY DEF ProcessTypes
<1>1. ASSUME NEW w \in Workers, NEW m \in ModelLists, NEW s \in Boot, NEW t \in Timers,
             Start(w, m, s, t)
      PROVE  ProcessTypes'
  <2>1. s \in {"STARTING", "READY", "DRAINING"} /\ 0 \in 0..MaxMissed
    BY BootAssumption
  <2>2. phase' \in [Workers -> Phases] /\ due' \in [Workers -> BOOLEAN]
    BY <1>0, <1>1 DEF Start, Phases
  <2>3. currentState' \in [Workers -> {"STARTING", "READY", "DRAINING"}]
    BY <1>0, <1>1, <2>1 DEF Start
  <2>4. incarnation' \in [Workers -> Timers] /\ missed' \in [Workers -> 0..MaxMissed]
    BY <1>0, <1>1, <2>1 DEF Start
  <2> QED
    BY <2>2, <2>3, <2>4 DEF ProcessTypes
<1>2. ASSUME NEW t \in Timers, Registration(t)
      PROVE  ProcessTypes'
  <2>1. closure[t] \in Workers
    BY DEF TypeOK
  <2>2. phase' \in [Workers -> Phases]
    BY <1>0, <1>2, <2>1 DEF Registration, Phases
  <2> QED
    BY <1>0, <1>2, <2>2 DEF Registration, ProcessTypes
<1>3. ASSUME NEW w \in Workers, LoadModel(w)
      PROVE  ProcessTypes'
  <2>1. currentState' \in [Workers -> {"STARTING", "READY", "DRAINING"}]
    BY <1>0, <1>3 DEF LoadModel
  <2> QED
    BY <1>0, <1>3, <2>1 DEF LoadModel, ProcessTypes
<1>4. ASSUME NEW w \in Workers, SendHeartbeat(w)
      PROVE  ProcessTypes'
  BY <1>0, <1>4 DEF SendHeartbeat, ProcessTypes
<1>5. ASSUME NEW w \in Workers, missed[w] < MaxMissed,
             missed' = [missed EXCEPT ![w] = @ + 1]
      PROVE  missed' \in [Workers -> 0..MaxMissed]
  <2>1. missed[w] + 1 \in 0..MaxMissed
    BY <1>0, <1>5
  <2> QED
    BY <1>0, <1>5, <2>1
<1>6. ASSUME NEW w \in Workers, LoseHeartbeat(w)
      PROVE  ProcessTypes'
  BY <1>0, <1>5, <1>6 DEF LoseHeartbeat, ProcessTypes
<1>7. ASSUME NEW w \in Workers, SendFinalHeartbeat(w) \/ Quit(w) \/ Leave(w) \/ Crash(w)
      PROVE  ProcessTypes'
  <2>1. phase' \in [Workers -> Phases]
    BY <1>0, <1>7 DEF SendFinalHeartbeat, Quit, Leave, Crash, Phases
  <2> QED
    BY <1>0, <1>7, <2>1 DEF SendFinalHeartbeat, Quit, Leave, Crash, ProcessTypes
<1>8. ASSUME NEW c \in calls, ReplyHeartbeat(c)
      PROVE  ProcessTypes'
  <2>1. c.id \in Workers
    BY DEF MessageTypes, Calls
  <2>2. missed' \in [Workers -> 0..MaxMissed]
    <3>1. 0 \in 0..MaxMissed
      OBVIOUS
    <3> QED
      BY <1>0, <1>5, <1>8, <2>1, <3>1 DEF ReplyHeartbeat, Delivered, Undelivered
  <2>3. /\ phase' \in [Workers -> Phases]
        /\ currentState' \in [Workers -> {"STARTING", "READY", "DRAINING"}]
    BY <1>0, <1>8, <2>1 DEF ReplyHeartbeat, Delivered, Undelivered, Phases
  <2> QED
    BY <1>0, <1>8, <2>2, <2>3 DEF ReplyHeartbeat, ProcessTypes
<1>9. ASSUME NEW p \in pending, handleDead(p)
      PROVE  ProcessTypes'
  <2>1. phase' \in [Workers -> Phases]
    BY <1>0, <1>9 DEF handleDead, OnEvicted, Phases
  <2> QED
    BY <1>0, <1>9, <2>1 DEF handleDead, ProcessTypes
<1>10. CASE Interval
  <2>1. due' \in [Workers -> BOOLEAN]
    BY <1>10 DEF Interval
  <2> QED
    BY <1>0, <1>10, <2>1 DEF Interval, ProcessTypes
<1>11. ASSUME UNCHANGED processes
       PROVE  ProcessTypes'
  BY <1>0, <1>11 DEF processes, ProcessTypes
<1>12. ASSUME NEW c \in calls, ServeHeartbeat(c) \/ RefuseHeartbeat(c)
       PROVE  UNCHANGED processes
  BY <1>12 DEF ServeHeartbeat, RefuseHeartbeat
<1>13. ASSUME NEW w \in Workers, DrainWorker(w)
       PROVE  UNCHANGED processes
  BY <1>13 DEF DrainWorker
<1>14. ASSUME NEW t \in Timers, RegistryFires(t) \/ RegistryMarksDead(t)
       PROVE  UNCHANGED processes
  BY <1>14 DEF RegistryFires, RegistryMarksDead
<1>15. ASSUME SweepBegin \/ UNCHANGED fleetVars
       PROVE  UNCHANGED processes
  BY <1>15 DEF SweepBegin, fleetVars
<1> QED
  BY <1>1, <1>2, <1>3, <1>4, <1>6, <1>7, <1>8, <1>9, <1>10, <1>11, <1>12, <1>13, <1>14, <1>15
  DEF FleetNext

(* What a step does to the calls: nothing; one is made; one is served; one *)
(* ends.                                                                   *)
LEMMA CallStep ==
    ASSUME ProcessTypes, [FleetNext]_fleetVars
    PROVE  \/ calls' = calls
           \/ \E w \in Workers : /\ phase[w] = "up" /\ SendHeartbeat(w)
                                 /\ calls' = calls \cup {Call(w, currentState[w])}
           \/ \E w \in Workers : /\ phase[w] = "draining" /\ SendFinalHeartbeat(w)
                                 /\ calls' = calls \cup {Call(w, "DRAINING")}
           \/ \E c \in calls : ServeHeartbeat(c)
           \/ \E c \in calls : RefuseHeartbeat(c)
           \/ \E c \in calls : ReplyHeartbeat(c)
<1>1. ASSUME NEW w \in Workers, NEW m \in ModelLists, NEW s \in Boot, NEW t \in Timers,
             Start(w, m, s, t)
      PROVE  calls' = calls
  BY <1>1 DEF Start
<1>2. ASSUME NEW t \in Timers, Registration(t) \/ RegistryFires(t) \/ RegistryMarksDead(t)
      PROVE  calls' = calls
  BY <1>2 DEF Registration, RegistryFires, RegistryMarksDead
<1>3. ASSUME NEW w \in Workers,
             LoadModel(w) \/ LoseHeartbeat(w) \/ Quit(w) \/ Leave(w) \/ Crash(w) \/ DrainWorker(w)
      PROVE  calls' = calls
  BY <1>3 DEF LoadModel, LoseHeartbeat, Quit, Leave, Crash, DrainWorker
<1>4. ASSUME NEW w \in Workers, SendHeartbeat(w)
      PROVE  phase[w] = "up" /\ calls' = calls \cup {Call(w, currentState[w])}
  BY <1>4 DEF SendHeartbeat
<1>5. ASSUME NEW w \in Workers, SendFinalHeartbeat(w)
      PROVE  /\ phase[w] = "draining"
             /\ calls' = calls \/ calls' = calls \cup {Call(w, "DRAINING")}
  BY <1>5 DEF SendFinalHeartbeat
<1>6. ASSUME NEW p \in pending, handleDead(p)
      PROVE  calls' = calls
  BY <1>6 DEF handleDead
<1>7. ASSUME SweepBegin \/ Interval \/ UNCHANGED fleetVars
      PROVE  calls' = calls
  BY <1>7 DEF SweepBegin, Interval, fleetVars
<1> QED
  BY <1>1, <1>2, <1>3, <1>4, <1>5, <1>6, <1>7 DEF FleetNext

(* What a step does to the sweep's snapshot: nothing; it is taken; it      *)
(* ages; one entry of it is dealt with.                                    *)
LEMMA PendingStep ==
    ASSUME [FleetNext]_fleetVars
    PROVE  \/ pending' = pending
           \/ SweepBegin
           \/ Interval /\ pending' = {Older(p) : p \in pending}
           \/ \E p \in pending : handleDead(p) /\ pending' = pending \ {p}
<1>1. ASSUME NEW w \in Workers, NEW m \in ModelLists, NEW s \in Boot, NEW t \in Timers,
             Start(w, m, s, t)
      PROVE  pending' = pending
  BY <1>1 DEF Start
<1>2. ASSUME NEW t \in Timers, Registration(t) \/ RegistryFires(t) \/ RegistryMarksDead(t)
      PROVE  pending' = pending
  BY <1>2 DEF Registration, RegistryFires, RegistryMarksDead
<1>3. ASSUME NEW w \in Workers,
             LoadModel(w) \/ LoseHeartbeat(w) \/ Quit(w) \/ Leave(w) \/ Crash(w)
                 \/ DrainWorker(w) \/ SendHeartbeat(w) \/ SendFinalHeartbeat(w)
      PROVE  pending' = pending
  BY <1>3 DEF LoadModel, LoseHeartbeat, Quit, Leave, Crash, DrainWorker, SendHeartbeat,
              SendFinalHeartbeat
<1>4. ASSUME NEW c \in calls, ServeHeartbeat(c) \/ RefuseHeartbeat(c) \/ ReplyHeartbeat(c)
      PROVE  pending' = pending
  BY <1>4 DEF ServeHeartbeat, RefuseHeartbeat, ReplyHeartbeat
<1>5. ASSUME NEW p \in pending, handleDead(p)
      PROVE  pending' = pending \ {p}
  BY <1>5 DEF handleDead
<1>6. ASSUME Interval PROVE pending' = {Older(p) : p \in pending}
  BY <1>6 DEF Interval, Older
<1>7. ASSUME UNCHANGED fleetVars PROVE pending' = pending
  BY <1>7 DEF fleetVars
<1> QED
  BY <1>1, <1>2, <1>3, <1>4, <1>5, <1>6, <1>7 DEF FleetNext

(* The calls and the sweep through a step.                                 *)
LEMMA MessageStep ==
    ASSUME TypeOK, ProcessTypes, MessageTypes, [FleetNext]_fleetVars
    PROVE  MessageTypes'
<1>1. calls' \subseteq Calls
  <2>0. calls \subseteq Calls
    BY DEF MessageTypes
  <2>1. ASSUME NEW w \in Workers, calls' = calls \cup {Call(w, currentState[w])}
        PROVE  calls' \subseteq Calls
    <3>1. currentState[w] \in {"STARTING", "READY", "DRAINING"}
      BY DEF ProcessTypes
    <3>2. Call(w, currentState[w]) \in Calls
      BY <3>1, CallType
    <3> QED
      BY <2>0, <2>1, <3>2
  <2>2. ASSUME NEW w \in Workers, calls' = calls \cup {Call(w, "DRAINING")}
        PROVE  calls' \subseteq Calls
    BY <2>0, <2>2, CallType
  <2>3. ASSUME NEW c \in calls, ServeHeartbeat(c)
        PROVE  calls' \subseteq Calls
    BY <2>0, <2>3, ServedType DEF ServeHeartbeat
  <2>4. ASSUME NEW c \in calls, RefuseHeartbeat(c) \/ ReplyHeartbeat(c)
        PROVE  calls' \subseteq Calls
    BY <2>0, <2>4 DEF RefuseHeartbeat, ReplyHeartbeat
  <2> QED
    BY <2>0, <2>1, <2>2, <2>3, <2>4, CallStep
<1>2. pending' \subseteq Entries
  <2>0. pending \subseteq Entries
    BY DEF MessageTypes
  <2>1. ASSUME SweepBegin PROVE pending' \subseteq Entries
    <3>1. \A id \in Registered : /\ id \in Workers /\ workers[id].deadlineTimer \in Timers
                                 /\ workers[id].deadFor \in {Unset} \cup 0..DeadGrace
      BY DEF TypeOK, WorkerEntry
    <3> QED
      BY <2>1, <3>1 DEF SweepBegin, Entries
  <2>2. ASSUME pending' = {Older(p) : p \in pending} PROVE pending' \subseteq Entries
    BY <2>0, <2>2, OlderType
  <2> QED
    BY <2>0, <2>1, <2>2, PendingStep
<1> QED
  BY <1>1, <1>2 DEF MessageTypes

(* A fleet without workers.                                                *)
LEMMA FleetInitially == FleetInit => FleetTypeOK /\ RefineInv /\ JoiningFresh
<1> SUFFICES ASSUME FleetInit PROVE FleetTypeOK /\ RefineInv /\ JoiningFresh
  OBVIOUS
<1>1. Init
  BY DEF FleetInit
<1>2. WatchInv
  BY <1>1, InitInv
<1>3. RefineInv
  BY <1>1, <1>2 DEF WatchInv, RefineInv, JoiningStarts, Init, Empty
<1>4. ProcessTypes
  <2>1. phase \in [Workers -> Phases]
    BY DEF FleetInit, Phases
  <2> QED
    BY <2>1, MissedAssumption DEF FleetInit, ProcessTypes
<1>5. MessageTypes
  BY DEF FleetInit, MessageTypes
<1> QED
  BY <1>2, <1>3, <1>4, <1>5, TypeParts DEF WatchInv, SafeInv

(* Types, and what the registry keeps whoever uses it, through a step.     *)
LEMMA FleetStep ==
    FleetTypeOK /\ RefineInv /\ [FleetNext]_fleetVars => FleetTypeOK' /\ RefineInv'
<1> SUFFICES ASSUME FleetTypeOK, RefineInv, [FleetNext]_fleetVars
             PROVE  FleetTypeOK' /\ RefineInv'
  OBVIOUS
<1>1. [Next]_vars
  BY FleetUsesRegistry
<1>2. RefineInv'
  BY <1>1, StartsStep
<1>3. ProcessTypes' /\ MessageTypes'
  BY TypeParts, ProcessStep, MessageStep
<1>4. TypeOK'
  BY <1>2 DEF RefineInv, SafeInv
<1>5. FleetTypeOK'
  BY <1>3, <1>4 DEF FleetTypeOK, ProcessTypes, MessageTypes, Calls, Entries
<1> QED
  BY <1>2, <1>5

(* Types of the worker processes, the heartbeats in flight, the sweep's    *)
(* snapshot and the registry under them: no worker misses more heartbeats  *)
(* than the bound, and the process, call and snapshot records of           *)
(* worker/cmd, registry.go and scaler.go stay well formed.                 *)
THEOREM FleetTypeCorrect == FleetSpec => []FleetTypeOK
<1>1. FleetInit => FleetTypeOK /\ RefineInv
  BY FleetInitially
<1> QED
  BY <1>1, FleetStep, PTL DEF FleetSpec

-----------------------------------------------------------------------------
(* The timers of the sweep's snapshot stay apart from new registrations.   *)
LEMMA UnjoinedStep ==
    ASSUME SweepInv, [FleetNext]_fleetVars
    PROVE  Unjoined'
<1>0. TypeOK /\ TimersOwned /\ Unjoined /\ pending \subseteq Entries
  BY DEF SweepInv, RefineInv, SafeInv, FleetTypeOK, Entries
<1>1. ASSUME NEW w \in Workers, NEW m \in ModelLists, NEW s \in Boot, NEW t \in Timers,
             Start(w, m, s, t)
      PROVE  Unjoined'
  <2>1. /\ pending' = pending /\ DOMAIN joining' = DOMAIN joining \cup {t}
        /\ \A p \in pending : p.deadlineTimer # t
    BY <1>1 DEF Start, RegisterStart, Put, Named
  <2> QED
    BY <1>0, <2>1 DEF Unjoined
<1>2. ASSUME DOMAIN joining' \subseteq DOMAIN joining, pending' \subseteq pending
      PROVE  Unjoined'
  BY <1>0, <1>2 DEF Unjoined
<1>3. ASSUME DOMAIN joining' \subseteq DOMAIN joining, pending' = {Older(p) : p \in pending}
      PROVE  Unjoined'
  <2>1. \A p \in pending : Older(p).deadlineTimer = p.deadlineTimer
    BY <1>0, OlderType
  <2> QED
    BY <1>0, <1>3, <2>1 DEF Unjoined
<1>4. ASSUME SweepBegin PROVE Unjoined'
  <2>1. \A id \in Registered : workers[id].deadlineTimer \notin DOMAIN joining
    BY <1>0 DEF TimersOwned
  <2>2. joining' = joining /\ \A p \in pending' : \E id \in Registered :
            p.deadlineTimer = workers[id].deadlineTimer
    BY <1>4 DEF SweepBegin, vars
  <2> QED
    BY <2>1, <2>2 DEF Unjoined
<1>5. \/ \E w \in Workers, m \in ModelLists, s \in Boot, t \in Timers : Start(w, m, s, t)
      \/ DOMAIN joining' \subseteq DOMAIN joining
  <2>1. ASSUME NEW t \in Timers, Registration(t)
        PROVE  DOMAIN joining' \subseteq DOMAIN joining
    BY <1>0, <2>1, InsertEntry DEF Registration
  <2>2. ASSUME Interval PROVE DOMAIN joining' \subseteq DOMAIN joining
    BY <1>0, <2>2, TickEntry DEF Interval
  <2>3. ASSUME NEW t \in Timers, RegistryFires(t) \/ RegistryMarksDead(t)
        PROVE  joining' = joining
    BY <2>3 DEF RegistryFires, RegistryMarksDead, Fire, markDead
  <2>4. ASSUME NEW w \in Workers,
               LoadModel(w) \/ LoseHeartbeat(w) \/ Quit(w) \/ Leave(w) \/ Crash(w)
                   \/ DrainWorker(w) \/ SendHeartbeat(w) \/ SendFinalHeartbeat(w)
        PROVE  joining' = joining
    BY <2>4 DEF LoadModel, LoseHeartbeat, Quit, Leave, Crash, DrainWorker, SendHeartbeat,
                SendFinalHeartbeat, RequestDrain, Deregister, Remove, vars
  <2>5. ASSUME NEW c \in calls, ServeHeartbeat(c) \/ RefuseHeartbeat(c) \/ ReplyHeartbeat(c)
        PROVE  joining' = joining
    BY <2>5 DEF ServeHeartbeat, RefuseHeartbeat, ReplyHeartbeat, HeartbeatReset,
                HeartbeatStamp, vars
  <2>6. ASSUME NEW p \in pending, handleDead(p) PROVE joining' = joining
    BY <2>6 DEF handleDead, Evict, Remove, vars
  <2>7. ASSUME SweepBegin \/ UNCHANGED fleetVars PROVE joining' = joining
    BY <2>7 DEF SweepBegin, fleetVars, vars
  <2> QED
    BY <2>1, <2>2, <2>3, <2>4, <2>5, <2>6, <2>7 DEF FleetNext
<1> QED
  BY <1>1, <1>2, <1>3, <1>4, <1>5, PendingStep

(* What a step can do to an entry: nothing that matters here; stamp it     *)
(* with the heartbeat that holds the lock; mark it dead; make it older.    *)
Kept(w) ==
    /\ w \in Registered
    /\ workers'[w].deadlineTimer = workers[w].deadlineTimer
    /\ workers'[w].State = workers[w].State
    /\ workers'[w].silence = workers[w].silence
    /\ workers'[w].deadFor = workers[w].deadFor
Stamped(w) ==
    /\ w \in Registered
    /\ workers'[w].deadlineTimer = workers[w].deadlineTimer
    /\ beating = {[id |-> w, State |-> workers'[w].State]}
    /\ validTransition(workers[w].State, workers'[w].State)
    /\ workers'[w].silence = 0
    /\ workers'[w].deadFor = workers[w].deadFor
Marked(w) ==
    /\ w \in Registered
    /\ workers'[w].deadlineTimer = workers[w].deadlineTimer
    /\ workers[w].State # "DEAD" /\ workers'[w].State = "DEAD"
    /\ workers[w].silence >= DeadTimeout
AgedBy(w) ==
    /\ w \in Registered
    /\ workers'[w].deadlineTimer = workers[w].deadlineTimer
    /\ workers'[w].State = workers[w].State
    /\ workers'[w].silence = AtMost(workers[w].silence + 1, DeadTimeout)

(* Every entry comes out of a step in one of these ways, or is new.        *)
LEMMA EntryStep ==
    ASSUME FleetTypeOK, RefineInv, [FleetNext]_fleetVars, NEW w \in DOMAIN workers'
    PROVE  \/ Kept(w)
           \/ \E t \in Timers : Registration(t) /\ closure[t] = w /\ workers'[w] = joining[t]
           \/ \E c \in calls : ReplyHeartbeat(c) /\ Stamped(w)
           \/ Marked(w) /\ \E t \in Timers : RegistryMarksDead(t)
           \/ Interval /\ AgedBy(w)
<1>0. TypeOK /\ TimersOwned /\ BeatsLegal
  BY DEF RefineInv, SafeInv
<1>1. ASSUME workers' = workers PROVE Kept(w)
  BY <1>1 DEF Kept, Registered
<1>2. ASSUME NEW t \in Timers, Registration(t)
      PROVE  Kept(w) \/ (closure[t] = w /\ workers'[w] = joining[t])
  <2>1. RegisterInsert(t)
    BY <1>2 DEF Registration
  <2> QED
    BY <1>0, <2>1, InsertEntry DEF Kept
<1>3. ASSUME NEW id, Remove(id) PROVE Kept(w)
  BY <1>3, RemoveEntry DEF Kept
<1>4. ASSUME NEW id, RequestDrain(id) PROVE Kept(w)
  BY <1>0, <1>4, DrainEntry DEF Kept
<1>5. ASSUME HeartbeatStamp PROVE Kept(w) \/ Stamped(w)
  <2>1. PICK b \in beating : TRUE
    BY <1>5 DEF HeartbeatStamp
  <2>2. PICK id \in Registered, s \in WorkerState : beating = {[id |-> id, State |-> s]}
    BY <1>0, <2>1 DEF TypeOK
  <2>3. validTransition(workers[id].State, s)
    BY <1>0, <2>2 DEF BeatsLegal
  <2>4. /\ DOMAIN workers' = Registered
        /\ workers'[id].State = s /\ workers'[id].silence = 0
        /\ workers'[id].deadlineTimer = workers[id].deadlineTimer
        /\ workers'[id].deadFor = workers[id].deadFor
        /\ \A x \in Registered : x # id => workers'[x] = workers[x]
    BY <1>0, <1>5, <2>2, StampEntry
  <2>5. CASE w = id
    BY <2>2, <2>3, <2>4, <2>5 DEF Stamped
  <2>6. CASE w # id
    BY <2>4, <2>6 DEF Kept
  <2> QED
    BY <2>5, <2>6
<1>6. ASSUME NEW t \in Timers, RegistryFires(t) \/ RegistryMarksDead(t)
      PROVE  Kept(w) \/ (Marked(w) /\ RegistryMarksDead(t))
  <2>1. CASE RegistryFires(t)
    BY <1>1, <2>1 DEF RegistryFires, Fire
  <2>2. CASE RegistryMarksDead(t)
    <3>1. markDead(t)
      BY <2>2 DEF RegistryMarksDead
    <3> QED
      BY <1>0, <2>2, <3>1, MarkEntry DEF Kept, Marked
  <2> QED
    BY <1>6, <2>1, <2>2
<1>7. ASSUME Interval PROVE AgedBy(w)
  BY <1>0, <1>7, TickEntry DEF Interval, AgedBy
<1>8. ASSUME NEW x \in Workers,
             LoadModel(x) \/ LoseHeartbeat(x) \/ Quit(x) \/ Leave(x) \/ Crash(x)
                 \/ DrainWorker(x) \/ SendHeartbeat(x) \/ SendFinalHeartbeat(x)
      PROVE  workers' = workers \/ Remove(x) \/ RequestDrain(x)
  BY <1>8 DEF LoadModel, LoseHeartbeat, Quit, Leave, Crash, DrainWorker, SendHeartbeat,
              SendFinalHeartbeat, Deregister, vars
<1>9. ASSUME NEW c \in calls, ServeHeartbeat(c) \/ RefuseHeartbeat(c) \/ ReplyHeartbeat(c)
      PROVE  workers' = workers \/ (HeartbeatStamp /\ ReplyHeartbeat(c))
  BY <1>9 DEF ServeHeartbeat, RefuseHeartbeat, ReplyHeartbeat, HeartbeatReset, vars
<1>10. ASSUME NEW p \in pending, handleDead(p)
       PROVE  workers' = workers \/ Remove(p.id)
  BY <1>10 DEF handleDead, Evict, vars
<1>11. ASSUME SweepBegin \/ UNCHANGED fleetVars PROVE workers' = workers
  BY <1>11 DEF SweepBegin, fleetVars, vars
<1>12. ASSUME NEW x \in Workers, NEW m \in ModelLists, NEW s \in Boot, NEW t \in Timers,
              Start(x, m, s, t)
       PROVE  workers' = workers
  BY <1>12 DEF Start, RegisterStart
<1> QED
  BY <1>1, <1>2, <1>3, <1>4, <1>5, <1>6, <1>7, <1>8, <1>9, <1>10, <1>11, <1>12 DEF FleetNext

(* The sweep's copies stay true of the registrations they show.            *)
LEMMA TrackedStep ==
    ASSUME SweepInv, [FleetNext]_fleetVars
    PROVE  Tracked'
<1>0. /\ TypeOK /\ TimersOwned /\ Unjoined /\ Tracked /\ pending \subseteq Entries
      /\ FleetTypeOK /\ RefineInv
  BY DEF SweepInv, RefineInv, SafeInv, FleetTypeOK, Entries
<1>1. ASSUME NEW p \in pending, p.id \in DOMAIN workers',
             workers'[p.id].deadlineTimer = p.deadlineTimer, ~Interval
      PROVE  workers'[p.id].State = "DEAD" /\ workers'[p.id].deadFor = p.deadFor
  <2>1. CASE Kept(p.id)
    BY <1>0, <1>1, <2>1 DEF Kept, Tracked
  <2>2. ~\E t \in Timers : Registration(t) /\ workers'[p.id] = joining[t]
    <3>1. \A t \in DOMAIN joining : joining[t].deadlineTimer = t
      BY <1>0 DEF TimersOwned
    <3>2. p.deadlineTimer \notin DOMAIN joining
      BY <1>0 DEF Unjoined
    <3> QED
      BY <1>1, <3>1, <3>2 DEF Registration, RegisterInsert
  <2>3. CASE Stamped(p.id)
    <3>1. workers[p.id].State = "DEAD" /\ workers[p.id].deadFor = p.deadFor
      BY <1>0, <1>1, <2>3 DEF Stamped, Tracked
    <3> QED
      BY <2>3, <3>1 DEF Stamped, validTransition
  <2>4. ~Marked(p.id)
    BY <1>0, <1>1 DEF Marked, Tracked
  <2> QED
    BY <1>0, <1>1, <2>1, <2>2, <2>3, <2>4, EntryStep
<1>2. ASSUME pending' \subseteq pending, ~Interval PROVE Tracked'
  BY <1>1, <1>2 DEF Tracked, Registered
<1>3. ASSUME SweepBegin PROVE Tracked'
  <2>1. workers' = workers /\ \A p \in pending' : \E id \in Registered :
            /\ workers[id].State = "DEAD" /\ p.id = id
            /\ p.deadFor = workers[id].deadFor
    BY <1>3 DEF SweepBegin, vars
  <2> QED
    BY <2>1 DEF Tracked, Registered
<1>4. ASSUME Interval PROVE Tracked'
  <2>1. Tick /\ pending' = {Older(p) : p \in pending}
    BY <1>4 DEF Interval, Older
  <2>2. ASSUME NEW p \in pending, Older(p).id \in DOMAIN workers',
               workers'[Older(p).id].deadlineTimer = Older(p).deadlineTimer
        PROVE  /\ workers'[Older(p).id].State = "DEAD"
               /\ workers'[Older(p).id].deadFor = Older(p).deadFor
    <3>1. /\ Older(p).id = p.id /\ Older(p).deadlineTimer = p.deadlineTimer
          /\ Older(p).deadFor = IF p.deadFor = Unset THEN Unset
                                ELSE AtMost(p.deadFor + 1, DeadGrace)
      BY <1>0, OlderType
    <3>2. /\ p.id \in Registered
          /\ workers'[p.id].State = workers[p.id].State
          /\ workers'[p.id].deadlineTimer = workers[p.id].deadlineTimer
          /\ workers'[p.id].deadFor = IF workers[p.id].deadFor = Unset THEN Unset
                                      ELSE AtMost(workers[p.id].deadFor + 1, DeadGrace)
      BY <1>0, <2>1, <2>2, <3>1, TickEntry
    <3>3. workers[p.id].State = "DEAD" /\ workers[p.id].deadFor = p.deadFor
      BY <1>0, <2>2, <3>1, <3>2 DEF Tracked
    <3> QED
      BY <3>1, <3>2, <3>3
  <2> QED
    BY <2>1, <2>2 DEF Tracked, Registered
<1> QED
  BY <1>2, <1>3, <1>4, PendingStep

(* SweepInv is inductive.                                                  *)
LEMMA SweepInvariant == FleetSpec => []SweepInv
<1>1. FleetInit => SweepInv
  BY FleetInitially DEF FleetInit, SweepInv, Unjoined, Tracked
<1>2. SweepInv /\ [FleetNext]_fleetVars => SweepInv'
  <2> SUFFICES ASSUME SweepInv, [FleetNext]_fleetVars PROVE SweepInv'
    OBVIOUS
  <2>1. FleetTypeOK' /\ RefineInv'
    BY FleetStep DEF SweepInv
  <2> QED
    BY <2>1, UnjoinedStep, TrackedStep DEF SweepInv
<1> QED
  BY <1>1, <1>2, PTL DEF FleetSpec

(* A sweep that evicts the registration it saw evicts a worker that is     *)
(* still DEAD and has been so for the whole grace period (scaler.go Sweep, *)
(* handleDead), although heartbeats, registrations, markDead callbacks,    *)
(* deregistrations and drains come between its snapshot and its Evict.     *)
THEOREM GraceAlwaysKept == FleetSpec => GraceIsKept
<1>1. ASSUME SweepInv, [FleetNext]_fleetVars, NEW p \in pending, Evicts(p),
             workers[p.id].deadlineTimer = p.deadlineTimer
      PROVE  workers[p.id].State = "DEAD" /\ workers[p.id].deadFor >= DeadGrace
  <2>0. TypeOK /\ Tracked /\ p \in Entries
    BY <1>1 DEF SweepInv, RefineInv, SafeInv, FleetTypeOK, Entries
  <2>1. p.id \in Registered /\ p.id \notin DOMAIN workers' /\ p \notin pending'
    BY <1>1 DEF Evicts
  <2>2. ~Interval
    BY <2>0, <2>1, TickEntry DEF Interval
  <2>3. ~SweepBegin
    BY <2>1 DEF SweepBegin, vars, Registered
  <2>4. PICK q \in pending : handleDead(q) /\ pending' = pending \ {q}
    BY <1>1, <2>1, <2>2, <2>3, PendingStep
  <2>5. q = p
    BY <2>1, <2>4
  <2>6. ~InGrace(p)
    BY <2>1, <2>4, <2>5 DEF handleDead, vars, Registered
  <2>7. p.deadFor >= DeadGrace
    BY <2>0, <2>6, GraceAssumption DEF InGrace, Entries, Unset
  <2> QED
    BY <1>1, <2>0, <2>1, <2>7 DEF Tracked
<1>2. SweepInv /\ [FleetNext]_fleetVars =>
        [\A p \in pending :
          Evicts(p) /\ workers[p.id].deadlineTimer = p.deadlineTimer =>
              workers[p.id].State = "DEAD" /\ workers[p.id].deadFor >= DeadGrace
        ]_fleetVars
  BY <1>1
<1> QED
  BY <1>2, SweepInvariant, PTL DEF FleetSpec, GraceIsKept

-----------------------------------------------------------------------------
(* Only a heartbeat takes the lock for longer than a step.                 *)
LEMMA LockStep ==
    ASSUME FleetTypeOK, [FleetNext]_fleetVars
    PROVE  \/ beating' = beating
           \/ \E c \in calls : ServeHeartbeat(c)
           \/ \E c \in calls : ReplyHeartbeat(c)
<1>1. ASSUME NEW w \in Workers, NEW m \in ModelLists, NEW s \in Boot, NEW t \in Timers,
             Start(w, m, s, t)
      PROVE  beating' = beating
  BY <1>1 DEF Start, RegisterStart
<1>2. ASSUME NEW t \in Timers, Registration(t) \/ RegistryFires(t) \/ RegistryMarksDead(t)
      PROVE  beating' = beating
  BY <1>2 DEF Registration, RegisterInsert, RegistryFires, Fire, RegistryMarksDead, markDead
<1>3. ASSUME NEW w \in Workers,
             LoadModel(w) \/ LoseHeartbeat(w) \/ Quit(w) \/ Leave(w) \/ Crash(w)
                 \/ DrainWorker(w) \/ SendHeartbeat(w) \/ SendFinalHeartbeat(w)
      PROVE  beating' = beating
  BY <1>3 DEF LoadModel, LoseHeartbeat, Quit, Leave, Crash, DrainWorker, SendHeartbeat,
              SendFinalHeartbeat, RequestDrain, Deregister, Remove, vars
<1>4. ASSUME NEW c \in calls, RefuseHeartbeat(c) PROVE beating' = beating
  BY <1>4 DEF RefuseHeartbeat, vars
<1>5. ASSUME NEW p \in pending, handleDead(p) PROVE beating' = beating
  BY <1>5 DEF handleDead, Evict, Remove, vars
<1>6. ASSUME SweepBegin \/ Interval \/ UNCHANGED fleetVars PROVE beating' = beating
  BY <1>6 DEF SweepBegin, Interval, Tick, fleetVars, vars
<1> QED
  BY <1>1, <1>2, <1>3, <1>4, <1>5, <1>6 DEF FleetNext

(* The registry answers one heartbeat at a time.                           *)
LEMMA AnsweringStep ==
    ASSUME FleetTypeOK, Answering, [FleetNext]_fleetVars
    PROVE  Answering'
<1>0. ProcessTypes /\ calls \subseteq Calls
  BY TypeParts DEF MessageTypes
<1>1. ASSUME beating' = beating, \A c \in calls' : c.served => c \in calls
      PROVE  Answering'
  BY <1>1 DEF Answering
<1>2. ASSUME NEW c \in calls, ServeHeartbeat(c)
      PROVE  Answering'
  <2> DEFINE e == [c EXCEPT !.served = TRUE]
  <2>1. /\ calls' = (calls \ {c}) \cup {e} /\ beating = {}
        /\ beating' = {[id |-> c.id, State |-> c.State]}
    BY <1>2 DEF ServeHeartbeat, HeartbeatReset, LockFree
  <2>2. e.id = c.id /\ e.State = c.State
    BY <1>0, ServedType
  <2> HIDE DEF e
  <2>3. \A d \in calls : ~d.served
    BY <2>1 DEF Answering
  <2>4. \A d \in calls' : d.served => d = e
    BY <2>1, <2>3
  <2> QED
    BY <2>1, <2>2, <2>4 DEF Answering
<1>3. ASSUME NEW c \in calls, ReplyHeartbeat(c)
      PROVE  Answering'
  <2>1. c.served /\ calls' = calls \ {c}
    BY <1>3 DEF ReplyHeartbeat
  <2>2. \A d \in calls' : ~d.served
    BY <2>1 DEF Answering
  <2> QED
    BY <2>2 DEF Answering
<1>4. ASSUME NEW c \in calls, RefuseHeartbeat(c)
      PROVE  Answering'
  BY <1>1, <1>4 DEF RefuseHeartbeat, vars
<1>5. ASSUME NEW w \in Workers, SendHeartbeat(w)
      PROVE  Answering'
  <2>1. /\ calls' = calls \cup {Call(w, currentState[w])} /\ beating' = beating
        /\ currentState[w] \in {"STARTING", "READY", "DRAINING"}
    BY <1>0, <1>5 DEF SendHeartbeat, vars, ProcessTypes
  <2>2. ~Call(w, currentState[w]).served
    BY <1>0, <2>1, CallType
  <2> QED
    BY <1>1, <2>1, <2>2
<1>6. ASSUME NEW w \in Workers, SendFinalHeartbeat(w)
      PROVE  Answering'
  <2>1. /\ calls' = calls \/ calls' = calls \cup {Call(w, "DRAINING")}
        /\ beating' = beating
    BY <1>6 DEF SendFinalHeartbeat, vars
  <2>2. ~Call(w, "DRAINING").served
    BY <1>0, CallType
  <2> QED
    BY <1>1, <2>1, <2>2
<1>7. ASSUME calls' = calls, beating' = beating
      PROVE  Answering'
  BY <1>1, <1>7
<1> QED
  BY <1>0, <1>2, <1>3, <1>4, <1>5, <1>6, <1>7, CallStep, LockStep

(* What a step does to the state a worker reports.                         *)
LEMMA StateStep ==
    ASSUME FleetTypeOK, [FleetNext]_fleetVars, NEW w \in Workers
    PROVE  \/ currentState'[w] = currentState[w] /\ incarnation'[w] = incarnation[w]
           \/ /\ incarnation'[w] = incarnation[w]
              /\ \/ currentState'[w] = "READY"
                 \/ currentState'[w] = "DRAINING" /\ phase'[w] = "draining"
           \/ \E m \in ModelLists, s \in Boot, t \in Timers : Start(w, m, s, t)
<1>0. /\ currentState \in [Workers -> {"STARTING", "READY", "DRAINING"}]
      /\ incarnation \in [Workers -> Timers] /\ calls \subseteq Calls
      /\ phase \in [Workers -> Phases]
  BY DEF FleetTypeOK, Calls
<1>1. ASSUME UNCHANGED <<currentState, incarnation>>
      PROVE  currentState'[w] = currentState[w] /\ incarnation'[w] = incarnation[w]
  BY <1>1
<1>2. ASSUME NEW x \in Workers, NEW m \in ModelLists, NEW s \in Boot, NEW t \in Timers,
             Start(x, m, s, t), x # w
      PROVE  currentState'[w] = currentState[w] /\ incarnation'[w] = incarnation[w]
  BY <1>0, <1>2 DEF Start
<1>3. ASSUME NEW t \in Timers, Registration(t) \/ RegistryFires(t) \/ RegistryMarksDead(t)
      PROVE  UNCHANGED <<currentState, incarnation>>
  BY <1>3 DEF Registration, RegistryFires, RegistryMarksDead, processes
<1>4. ASSUME NEW x \in Workers,
             LoseHeartbeat(x) \/ Quit(x) \/ Leave(x) \/ Crash(x)
                 \/ DrainWorker(x) \/ SendHeartbeat(x) \/ SendFinalHeartbeat(x)
      PROVE  UNCHANGED <<currentState, incarnation>>
  BY <1>4 DEF LoseHeartbeat, Quit, Leave, Crash, DrainWorker, SendHeartbeat,
              SendFinalHeartbeat, processes
<1>5. ASSUME NEW x \in Workers, LoadModel(x)
      PROVE  /\ currentState'[w] = currentState[w] \/ currentState'[w] = "READY"
             /\ incarnation'[w] = incarnation[w]
  BY <1>0, <1>5 DEF LoadModel
<1>6. ASSUME NEW c \in calls, ReplyHeartbeat(c)
      PROVE  /\ \/ currentState'[w] = currentState[w]
                \/ currentState'[w] = "DRAINING" /\ phase'[w] = "draining"
             /\ incarnation'[w] = incarnation[w]
  <2>1. c.id \in Workers
    BY <1>0 DEF Calls
  <2> QED
    BY <1>0, <1>6, <2>1 DEF ReplyHeartbeat, Delivered, Undelivered
<1>7. ASSUME NEW c \in calls, ServeHeartbeat(c) \/ RefuseHeartbeat(c)
      PROVE  UNCHANGED <<currentState, incarnation>>
  BY <1>7 DEF ServeHeartbeat, RefuseHeartbeat, processes
<1>8. ASSUME NEW p \in pending, handleDead(p)
      PROVE  UNCHANGED <<currentState, incarnation>>
  BY <1>8 DEF handleDead
<1>9. ASSUME SweepBegin \/ Interval \/ UNCHANGED fleetVars
      PROVE  UNCHANGED <<currentState, incarnation>>
  BY <1>9 DEF SweepBegin, Interval, fleetVars, processes
<1> QED
  BY <1>1, <1>2, <1>3, <1>4, <1>5, <1>6, <1>7, <1>8, <1>9 DEF FleetNext

(* Heartbeats stay truthful, if none outlives its process.                 *)
LEMMA TruthfulStep ==
    ASSUME StrayBeats = FALSE, FleetTypeOK, Truthful, [FleetNext]_fleetVars
    PROVE  Truthful'
<1>0. ProcessTypes /\ calls \subseteq Calls
  BY TypeParts DEF MessageTypes
<1>1. ASSUME NEW c \in calls
      PROVE  c.State = "READY" => currentState'[c.id] # "STARTING"
  <2>1. c.id \in Workers
    BY <1>0 DEF Calls
  <2>2. ~\E m \in ModelLists, s \in Boot, t \in Timers : Start(c.id, m, s, t)
    BY DEF Start
  <2> QED
    BY <2>1, <2>2, StateStep DEF Truthful
<1>2. ASSUME calls' \subseteq calls PROVE Truthful'
  BY <1>1, <1>2 DEF Truthful
<1>3. ASSUME NEW c \in calls, ServeHeartbeat(c)
      PROVE  Truthful'
  <2> DEFINE e == [c EXCEPT !.served = TRUE]
  <2>1. calls' = (calls \ {c}) \cup {e}
    BY <1>3 DEF ServeHeartbeat
  <2>2. e.id = c.id /\ e.State = c.State
    BY <1>0, ServedType
  <2> HIDE DEF e
  <2> QED
    BY <1>1, <2>1, <2>2 DEF Truthful
<1>4. ASSUME NEW w \in Workers, SendHeartbeat(w)
      PROVE  Truthful'
  <2>1. /\ calls' = calls \cup {Call(w, currentState[w])} /\ currentState' = currentState
        /\ currentState[w] \in {"STARTING", "READY", "DRAINING"}
    BY <1>0, <1>4 DEF SendHeartbeat, ProcessTypes
  <2>2. Call(w, currentState[w]).id = w /\ Call(w, currentState[w]).State = currentState[w]
    BY <1>0, <2>1, CallType
  <2> QED
    BY <2>1, <2>2 DEF Truthful
<1>5. ASSUME NEW w \in Workers, calls' = calls \cup {Call(w, "DRAINING")}
      PROVE  Truthful'
  <2>1. Call(w, "DRAINING").State = "DRAINING"
    BY <1>0, CallType
  <2> QED
    BY <1>1, <1>5, <2>1 DEF Truthful
<1>6. ASSUME NEW c \in calls, RefuseHeartbeat(c) \/ ReplyHeartbeat(c)
      PROVE  Truthful'
  BY <1>2, <1>6 DEF RefuseHeartbeat, ReplyHeartbeat
<1> QED
  BY <1>0, <1>2, <1>3, <1>4, <1>5, <1>6, CallStep

(* The entry of a process becomes healthy only when the process is ready.  *)
LEMMA LoadedStep ==
    ASSUME LoadedInv, [FleetNext]_fleetVars
    PROVE  Loaded'
<1>0. /\ FleetTypeOK /\ RefineInv /\ TypeOK /\ JoiningStarts /\ Answering /\ Truthful /\ Loaded
  BY DEF LoadedInv, RefineInv, SafeInv
<1> SUFFICES ASSUME NEW w \in Workers, OwnEntry(w)', Healthy(workers[w])',
                    currentState'[w] = "STARTING"
             PROVE  FALSE
  BY DEF Loaded
<1>1. /\ w \in DOMAIN workers' /\ workers'[w].deadlineTimer = incarnation'[w]
      /\ workers'[w].State \in {"READY", "BUSY"}
  BY DEF OwnEntry, Healthy, Registered
<1>2. ~\E m \in ModelLists, s \in Boot, t \in Timers : Start(w, m, s, t)
  <2> SUFFICES ASSUME NEW m \in ModelLists, NEW s \in Boot, NEW t \in Timers, Start(w, m, s, t)
               PROVE  FALSE
    OBVIOUS
  <2>1. workers' = workers /\ incarnation'[w] = t /\ Unused(t)
    BY <1>0 DEF Start, RegisterStart, FleetTypeOK
  <2> QED
    BY <1>1, <2>1 DEF Unused, Registered
<1>3. currentState[w] = "STARTING" /\ incarnation'[w] = incarnation[w]
  BY <1>0, <1>2, StateStep
<1>4. ~(w \in Registered /\ workers'[w].deadlineTimer = workers[w].deadlineTimer
            /\ workers'[w].State = workers[w].State)
  BY <1>0, <1>1, <1>3 DEF Loaded, OwnEntry, Healthy
<1>5. ~Kept(w) /\ ~AgedBy(w) /\ ~Marked(w)
  BY <1>1, <1>4 DEF Kept, AgedBy, Marked
<1>6. ~\E t \in Timers : Registration(t) /\ closure[t] = w /\ workers'[w] = joining[t]
  BY <1>0, <1>1 DEF Registration, RegisterInsert, JoiningStarts
<1>7. ~\E c \in calls : ReplyHeartbeat(c) /\ Stamped(w)
  <2> SUFFICES ASSUME NEW c \in calls, ReplyHeartbeat(c), Stamped(w)
               PROVE  FALSE
    OBVIOUS
  <2>1. /\ beating = {[id |-> c.id, State |-> c.State]}
        /\ beating = {[id |-> w, State |-> workers'[w].State]}
    BY <1>0 DEF ReplyHeartbeat, Answering, Stamped
  <2>2. [id |-> c.id, State |-> c.State] = [id |-> w, State |-> workers'[w].State]
    BY <2>1
  <2>3. c.id = w /\ c.State = workers'[w].State
    BY <2>2
  <2> QED
    BY <1>0, <1>1, <1>3, <2>3 DEF Truthful
<1> QED
  BY <1>0, <1>1, <1>5, <1>6, <1>7, EntryStep

(* LoadedInv is inductive.                                                 *)
LEMMA LoadedInvStep ==
    ASSUME StrayBeats = FALSE
    PROVE  LoadedInv /\ [FleetNext]_fleetVars => LoadedInv'
<1> SUFFICES ASSUME LoadedInv, [FleetNext]_fleetVars PROVE LoadedInv'
  OBVIOUS
<1>1. FleetTypeOK' /\ RefineInv'
  BY FleetStep DEF LoadedInv
<1>2. Answering' /\ Truthful' /\ Loaded'
  BY AnsweringStep, TruthfulStep, LoadedStep DEF LoadedInv
<1> QED
  BY <1>1, <1>2 DEF LoadedInv

(* No entry is healthy and no heartbeat on its way to begin with.          *)
LEMMA LoadedInitially == FleetInit => LoadedInv
<1> SUFFICES ASSUME FleetInit PROVE LoadedInv
  OBVIOUS
<1>1. calls = {} /\ Registered = {}
  BY DEF FleetInit, Init, Empty, Registered
<1> QED
  BY <1>1, FleetInitially DEF LoadedInv, Answering, Truthful, Loaded, OwnEntry

-----------------------------------------------------------------------------
(* A worker that a step leaves alone, with the heartbeats of its id.       *)
SameCalls(w) == \A c \in calls \cup calls' : c.id = w => c \in calls /\ c \in calls'
SameView(w) ==
    /\ due'[w] = due[w] /\ missed'[w] = missed[w] /\ currentState'[w] = currentState[w]
    /\ SameCalls(w)

(* Heartbeats of others are not its own.                                   *)
LEMMA CallsOfOthers ==
    ASSUME FleetTypeOK, [FleetNext]_fleetVars, NEW w \in Workers
    PROVE  \/ SameCalls(w)
           \/ SendHeartbeat(w) \/ SendFinalHeartbeat(w)
           \/ \E c \in calls : /\ c.id = w
                               /\ ServeHeartbeat(c) \/ RefuseHeartbeat(c) \/ ReplyHeartbeat(c)
<1>0. ProcessTypes /\ calls \subseteq Calls
  BY TypeParts DEF MessageTypes
<1>1. ASSUME calls' = calls PROVE SameCalls(w)
  BY <1>1 DEF SameCalls
<1>2. ASSUME NEW x \in Workers, x # w, calls' = calls \cup {Call(x, currentState[x])}
      PROVE  SameCalls(w)
  <2>1. currentState[x] \in {"STARTING", "READY", "DRAINING"}
    BY <1>0 DEF ProcessTypes
  <2>2. Call(x, currentState[x]).id = x
    BY <1>0, <2>1, CallType
  <2> QED
    BY <1>2, <2>2 DEF SameCalls
<1>3. ASSUME NEW x \in Workers, x # w, calls' = calls \cup {Call(x, "DRAINING")}
      PROVE  SameCalls(w)
  <2>1. Call(x, "DRAINING").id = x
    BY <1>0, CallType
  <2> QED
    BY <1>3, <2>1 DEF SameCalls
<1>4. ASSUME NEW c \in calls, c.id # w, ServeHeartbeat(c)
      PROVE  SameCalls(w)
  <2> DEFINE e == [c EXCEPT !.served = TRUE]
  <2>1. calls' = (calls \ {c}) \cup {e}
    BY <1>4 DEF ServeHeartbeat
  <2>2. e.id = c.id
    BY <1>0, ServedType
  <2> HIDE DEF e
  <2> QED
    BY <1>4, <2>1, <2>2 DEF SameCalls
<1>5. ASSUME NEW c \in calls, c.id # w, RefuseHeartbeat(c) \/ ReplyHeartbeat(c)
      PROVE  SameCalls(w)
  <2>1. calls' = calls \ {c}
    BY <1>5 DEF RefuseHeartbeat, ReplyHeartbeat
  <2> QED
    BY <1>5, <2>1 DEF SameCalls
<1> QED
  BY <1>0, <1>1, <1>2, <1>3, <1>4, <1>5, CallStep

(* What a step does to a worker that stays in its heartbeat loop.          *)
LEMMA StayStep ==
    ASSUME FleetTypeOK, [FleetNext]_fleetVars, NEW w \in Workers,
           phase[w] = "up", phase'[w] = "up"
    PROVE  /\ incarnation'[w] = incarnation[w]
           /\ \/ SameView(w)
              \/ LoadModel(w) \/ SendHeartbeat(w) \/ LoseHeartbeat(w)
              \/ \E c \in calls : /\ c.id = w
                                  /\ ServeHeartbeat(c) \/ RefuseHeartbeat(c) \/ ReplyHeartbeat(c)
              \/ Interval
<1>0. /\ phase \in [Workers -> Phases]
      /\ currentState \in [Workers -> {"STARTING", "READY", "DRAINING"}]
      /\ due \in [Workers -> BOOLEAN] /\ missed \in [Workers -> 0..MaxMissed]
      /\ calls \subseteq Calls
  BY DEF FleetTypeOK, Calls
<1>1. ~\E m \in ModelLists, s \in Boot, t \in Timers : Start(w, m, s, t)
  BY DEF Start
<1>2. incarnation'[w] = incarnation[w]
  BY <1>1, StateStep
<1>3. ~SendFinalHeartbeat(w)
  BY DEF SendFinalHeartbeat
<1> DEFINE Own == /\ due'[w] = due[w] /\ missed'[w] = missed[w]
                  /\ currentState'[w] = currentState[w]
<1>4. ASSUME NEW x \in Workers, NEW m \in ModelLists, NEW s \in Boot, NEW t \in Timers,
             Start(x, m, s, t)
      PROVE  Own
  <2>1. x # w
    BY <1>4 DEF Start
  <2> QED
    BY <1>0, <1>4, <2>1 DEF Start
<1>5. ASSUME NEW t \in Timers, Registration(t) \/ RegistryFires(t) \/ RegistryMarksDead(t)
      PROVE  Own
  BY <1>5 DEF Registration, RegistryFires, RegistryMarksDead, processes
<1>6. ASSUME NEW x \in Workers, x # w, LoseHeartbeat(x) \/ LoadModel(x) \/ SendHeartbeat(x)
      PROVE  Own
  BY <1>0, <1>6 DEF LoseHeartbeat, LoadModel, SendHeartbeat
<1>7. ASSUME NEW x \in Workers,
             Quit(x) \/ Leave(x) \/ Crash(x) \/ DrainWorker(x) \/ SendFinalHeartbeat(x)
      PROVE  Own
  BY <1>7 DEF Quit, Leave, Crash, DrainWorker, SendFinalHeartbeat, processes
<1>8. ASSUME NEW c \in calls, c.id # w, ReplyHeartbeat(c)
      PROVE  Own
  <2>1. c.id \in Workers
    BY <1>0 DEF Calls
  <2> QED
    BY <1>0, <1>8, <2>1 DEF ReplyHeartbeat, Delivered, Undelivered
<1>9. ASSUME NEW c \in calls, ServeHeartbeat(c) \/ RefuseHeartbeat(c)
      PROVE  Own
  BY <1>9 DEF ServeHeartbeat, RefuseHeartbeat, processes
<1>10. ASSUME NEW p \in pending, handleDead(p)
       PROVE  Own
  BY <1>10 DEF handleDead
<1>11. ASSUME SweepBegin \/ UNCHANGED fleetVars
       PROVE  Own
  BY <1>11 DEF SweepBegin, fleetVars, processes
<1>12. \/ Own
       \/ LoadModel(w) \/ SendHeartbeat(w) \/ LoseHeartbeat(w)
       \/ \E c \in calls : c.id = w /\ ReplyHeartbeat(c)
       \/ Interval
  <2> HIDE DEF Own
  <2> QED
    BY <1>4, <1>5, <1>6, <1>7, <1>8, <1>9, <1>10, <1>11 DEF FleetNext
<1> QED
  BY <1>2, <1>3, <1>12, CallsOfOthers DEF SameView

(* How a worker gets where heartbeats are sent.                            *)
LEMMA PhaseStep ==
    ASSUME FleetTypeOK, [FleetNext]_fleetVars, NEW w \in Workers
    PROVE  /\ phase'[w] = "up" =>
                 \/ phase[w] = "up"
                 \/ phase[w] = "registering" /\ \E t \in Timers : Registration(t) /\ closure[t] = w
           /\ phase'[w] = "registering" =>
                 \/ phase[w] = "registering"
                 \/ \E m \in ModelLists, s \in Boot, t \in Timers : Start(w, m, s, t)
<1>0. phase \in [Workers -> Phases] /\ calls \subseteq Calls /\ closure \in [Timers -> Workers]
  BY DEF FleetTypeOK, TypeOK, Calls
<1>1. ASSUME NEW x \in Workers, NEW m \in ModelLists, NEW s \in Boot, NEW t \in Timers,
             Start(x, m, s, t)
      PROVE  phase'[w] = phase[w] \/ (x = w /\ phase'[w] = "registering")
  BY <1>0, <1>1 DEF Start
<1>2. ASSUME NEW t \in Timers, Registration(t)
      PROVE  \/ phase'[w] = phase[w]
             \/ phase[w] = "registering" /\ closure[t] = w /\ phase'[w] = "up"
  BY <1>0, <1>2 DEF Registration
<1>3. ASSUME NEW x \in Workers,
             LoadModel(x) \/ SendHeartbeat(x) \/ LoseHeartbeat(x) \/ DrainWorker(x)
      PROVE  phase'[w] = phase[w]
  BY <1>3 DEF LoadModel, SendHeartbeat, LoseHeartbeat, DrainWorker, processes
<1>4. ASSUME NEW x \in Workers, SendFinalHeartbeat(x) \/ Quit(x) \/ Leave(x) \/ Crash(x)
      PROVE  phase'[w] = phase[w] \/ phase'[w] \in {"closing", "leaving", "down"}
  BY <1>0, <1>4 DEF SendFinalHeartbeat, Quit, Leave, Crash
<1>5. ASSUME NEW c \in calls, ReplyHeartbeat(c)
      PROVE  phase'[w] = phase[w] \/ phase'[w] = "draining"
  <2>1. c.id \in Workers
    BY <1>0 DEF Calls
  <2> QED
    BY <1>0, <1>5, <2>1 DEF ReplyHeartbeat, Delivered, Undelivered
<1>6. ASSUME NEW c \in calls, ServeHeartbeat(c) \/ RefuseHeartbeat(c)
      PROVE  phase'[w] = phase[w]
  BY <1>6 DEF ServeHeartbeat, RefuseHeartbeat, processes
<1>7. ASSUME NEW p \in pending, handleDead(p)
      PROVE  phase'[w] = phase[w] \/ phase'[w] = "down"
  BY <1>0, <1>7 DEF handleDead, OnEvicted
<1>8. ASSUME NEW t \in Timers, RegistryFires(t) \/ RegistryMarksDead(t)
      PROVE  phase'[w] = phase[w]
  BY <1>8 DEF RegistryFires, RegistryMarksDead, processes
<1>9. ASSUME SweepBegin \/ Interval \/ UNCHANGED fleetVars
      PROVE  phase'[w] = phase[w]
  BY <1>9 DEF SweepBegin, Interval, fleetVars, processes
<1> QED
  BY <1>1, <1>2, <1>3, <1>4, <1>5, <1>6, <1>7, <1>8, <1>9 DEF FleetNext

(* A worker that has not been drained reports what it was started with or  *)
(* READY.                                                                  *)
LEMMA BootedStep ==
    ASSUME FleetTypeOK, [FleetNext]_fleetVars, NEW w \in Workers, Booted(w)
    PROVE  Booted(w)'
<1> SUFFICES ASSUME phase'[w] \in {"registering", "up"}
             PROVE  currentState'[w] \in {"STARTING", "READY"}
  BY DEF Booted
<1>1. ASSUME NEW m \in ModelLists, NEW s \in Boot, NEW t \in Timers, Start(w, m, s, t)
      PROVE  currentState'[w] \in {"STARTING", "READY"}
  BY <1>1, BootAssumption DEF Start, FleetTypeOK
<1>2. CASE phase[w] \in {"registering", "up"}
  BY <1>1, <1>2, StateStep DEF Booted
<1> QED
  BY <1>1, <1>2, PhaseStep

(* A worker in its loop has one heartbeat on its way at most, and its id   *)
(* is in no heartbeat of an earlier process.                               *)
LEMMA OneCallStep ==
    ASSUME StrayBeats = FALSE, FleetTypeOK, [FleetNext]_fleetVars, NEW w \in Workers,
           Booted(w), OneCall(w)
    PROVE  OneCall(w)'
<1>0. ProcessTypes /\ calls \subseteq Calls
  BY TypeParts DEF MessageTypes
<1>1. ASSUME phase[w] = "registering" PROVE NoCall(w)'
  <2>1. NoCall(w)
    BY <1>1 DEF OneCall
  <2>2. SameCalls(w)
    BY <1>1, <2>1, CallsOfOthers DEF NoCall, SendHeartbeat, SendFinalHeartbeat
  <2> QED
    BY <2>1, <2>2 DEF NoCall, SameCalls
<1>2. ASSUME NEW m \in ModelLists, NEW s \in Boot, NEW t \in Timers, Start(w, m, s, t)
      PROVE  NoCall(w)'
  BY <1>2 DEF Start, NoCall
<1>3. ASSUME phase'[w] = "registering" PROVE NoCall(w)'
  BY <1>1, <1>2, <1>3, PhaseStep
<1>4. ASSUME phase[w] = "up", phase'[w] = "up"
      PROVE  /\ due'[w] => NoCall(w)'
             /\ \A c, d \in calls' : c.id = w /\ d.id = w => c = d
             /\ \A c \in calls' : c.id = w => c.State \in {"STARTING", "READY"}
  <2>0. /\ due[w] => NoCall(w)
        /\ \A c, d \in calls : c.id = w /\ d.id = w => c = d
        /\ \A c \in calls : c.id = w => c.State \in {"STARTING", "READY"}
    BY <1>4 DEF OneCall
  <2>1. ASSUME \A c \in calls' : c.id = w => c \in calls, due'[w] => due[w]
        PROVE  /\ due'[w] => NoCall(w)'
               /\ \A c, d \in calls' : c.id = w /\ d.id = w => c = d
               /\ \A c \in calls' : c.id = w => c.State \in {"STARTING", "READY"}
    BY <2>0, <2>1 DEF NoCall
  <2>2. CASE SameView(w)
    BY <2>1, <2>2 DEF SameView, SameCalls
  <2>3. CASE LoadModel(w)
    BY <2>1, <2>3 DEF LoadModel
  <2>4. CASE LoseHeartbeat(w)
    BY <1>0, <2>1, <2>4 DEF LoseHeartbeat, ProcessTypes
  <2>5. CASE SendHeartbeat(w)
    <3>1. /\ calls' = calls \cup {Call(w, currentState[w])} /\ NoCall(w) /\ ~due'[w]
          /\ currentState[w] \in {"STARTING", "READY"}
      BY <1>0, <1>4, <2>0, <2>5 DEF SendHeartbeat, ProcessTypes, Booted
    <3>2. Call(w, currentState[w]).State = currentState[w]
      BY <1>0, <3>1, CallType
    <3> QED
      BY <3>1, <3>2 DEF NoCall
  <2>6. ASSUME NEW c \in calls, c.id = w, ServeHeartbeat(c)
        PROVE  /\ due'[w] => NoCall(w)'
               /\ \A x, d \in calls' : x.id = w /\ d.id = w => x = d
               /\ \A x \in calls' : x.id = w => x.State \in {"STARTING", "READY"}
    <3> DEFINE e == [c EXCEPT !.served = TRUE]
    <3>1. calls' = (calls \ {c}) \cup {e} /\ due' = due
      BY <2>6 DEF ServeHeartbeat, processes
    <3>2. e.id = w /\ e.State = c.State
      BY <1>0, <2>6, ServedType
    <3> HIDE DEF e
    <3>3. ~due[w] /\ \A x \in calls' : x.id = w => x = e
      BY <2>0, <2>6, <3>1 DEF NoCall
    <3> QED
      BY <2>0, <2>6, <3>1, <3>2, <3>3
  <2>7. ASSUME NEW c \in calls, RefuseHeartbeat(c) \/ ReplyHeartbeat(c)
        PROVE  /\ due'[w] => NoCall(w)'
               /\ \A x, d \in calls' : x.id = w /\ d.id = w => x = d
               /\ \A x \in calls' : x.id = w => x.State \in {"STARTING", "READY"}
    BY <2>1, <2>7 DEF RefuseHeartbeat, ReplyHeartbeat, processes
  <2>8. CASE Interval
    BY <2>8 DEF Interval, NoCall
  <2> QED
    BY <1>4, <2>2, <2>3, <2>4, <2>5, <2>6, <2>7, <2>8, StayStep
<1>5. ASSUME phase[w] = "registering"
      PROVE  /\ due'[w] => NoCall(w)'
             /\ \A c, d \in calls' : c.id = w /\ d.id = w => c = d
             /\ \A c \in calls' : c.id = w => c.State \in {"STARTING", "READY"}
  BY <1>1, <1>5 DEF NoCall
<1> QED
  BY <1>3, <1>4, <1>5, PhaseStep, Zenon DEF OneCall

(* A heartbeat that gets its answer leaves the entry fresh.                *)
LEMMA AnsweredEntry ==
    ASSUME TypeOK, Answering, NEW c \in calls, ReplyHeartbeat(c)
    PROVE  /\ c.id \in Registered /\ workers'[c.id].State = c.State
           /\ workers'[c.id].silence = 0
<1>1. beating = {[id |-> c.id, State |-> c.State]} /\ HeartbeatStamp
  BY DEF ReplyHeartbeat, Answering
<1> QED
  BY <1>1, StampEntry

(* The silence of a prompt worker through a step.                          *)
LEMMA AccountedStep ==
    ASSUME StrayBeats = FALSE, MaxMissed + 1 < DeadTimeout, PromptInv,
           [FleetNext]_fleetVars, FleetTypeOK', NEW w \in Workers
    PROVE  Accounted(w)'
<1>0. /\ FleetTypeOK /\ RefineInv /\ TypeOK /\ JoiningStarts /\ JoiningFresh
      /\ Answering /\ Truthful /\ Loaded /\ ProcessTypes /\ calls \subseteq Calls
      /\ Booted(w) /\ OneCall(w) /\ Accounted(w)
  BY TypeParts DEF PromptInv, LoadedInv, WatchInv, RefineInv, SafeInv, MessageTypes
<1> SUFFICES ASSUME phase'[w] = "up", OwnEntry(w)'
             PROVE  /\ workers'[w].State \in {"STARTING", "READY"}
                    /\ \A c \in calls' : c.id = w /\ c.State = "STARTING" =>
                          workers'[w].State = "STARTING"
                    /\ workers'[w].silence <= missed'[w] + 1
                    /\ ~due'[w] /\ NoCall(w)' => workers'[w].silence <= missed'[w]
  BY DEF Accounted
<1>1. /\ w \in DOMAIN workers' /\ workers'[w].deadlineTimer = incarnation'[w]
      /\ missed'[w] \in 0..MaxMissed /\ missed[w] \in 0..MaxMissed
  BY <1>0 DEF OwnEntry, Registered, FleetTypeOK
<1>2. /\ missed'[w] \in Nat /\ missed[w] \in Nat /\ 0 <= missed'[w] /\ 0 <= missed'[w] + 1
      /\ missed[w] + 1 < DeadTimeout
  BY <1>1, MissedAssumption, TimeoutAssumption
<1>3. ASSUME NEW t \in Timers, Registration(t), workers'[w] = joining[t]
      PROVE  workers'[w].State = "STARTING" /\ workers'[w].silence = 0
  BY <1>0, <1>3 DEF Registration, RegisterInsert, JoiningStarts, JoiningFresh
<1>4. CASE phase[w] = "registering"
  <2>1. PICK t \in Timers : Registration(t) /\ closure[t] = w
    BY <1>0, <1>4, PhaseStep
  <2>2. workers'[w] = joining[t]
    BY <1>0, <2>1, InsertEntry DEF Registration
  <2> QED
    BY <1>2, <1>3, <2>1, <2>2
<1>5. CASE phase[w] = "up"
  <2>0. /\ incarnation'[w] = incarnation[w]
        /\ \/ SameView(w)
           \/ LoadModel(w) \/ SendHeartbeat(w) \/ LoseHeartbeat(w)
           \/ \E c \in calls : /\ c.id = w
                               /\ ServeHeartbeat(c) \/ RefuseHeartbeat(c) \/ ReplyHeartbeat(c)
           \/ Interval
    BY <1>0, <1>5, StayStep
  <2>a. ASSUME w \in Registered, workers'[w].deadlineTimer = workers[w].deadlineTimer
        PROVE  /\ OwnEntry(w) /\ workers[w].State \in {"STARTING", "READY"}
               /\ \A c \in calls : c.id = w /\ c.State = "STARTING" =>
                     workers[w].State = "STARTING"
               /\ workers[w].silence <= missed[w] + 1 /\ workers[w].silence \in Nat
               /\ ~due[w] /\ NoCall(w) => workers[w].silence <= missed[w]
    <3>1. OwnEntry(w)
      BY <1>1, <2>0, <2>a DEF OwnEntry
    <3>2. workers[w].silence \in Nat
      BY <1>0, <2>a, TimeoutAssumption DEF TypeOK, WorkerEntry
    <3> QED
      BY <1>0, <1>5, <3>1, <3>2 DEF Accounted
  <2>b. CASE \E c \in calls : c.id = w /\ ReplyHeartbeat(c)
    <3>1. PICK c \in calls : c.id = w /\ ReplyHeartbeat(c)
      BY <2>b
    <3>2. workers'[w].State = c.State /\ workers'[w].silence = 0
      BY <1>0, <3>1, AnsweredEntry
    <3>3. c.State \in {"STARTING", "READY"} /\ NoCall(w)'
      BY <1>0, <1>5, <3>1 DEF OneCall, NoCall, ReplyHeartbeat
    <3> QED
      BY <1>2, <3>2, <3>3 DEF NoCall
  <2>c. CASE Interval
    <3>1. Tick /\ calls = {} /\ calls' = {} /\ ~due[w] /\ due'[w] /\ missed' = missed
      BY <1>0, <1>5, <2>c DEF Interval
    <3>2. /\ w \in Registered /\ workers'[w].State = workers[w].State
          /\ workers'[w].deadlineTimer = workers[w].deadlineTimer
          /\ workers'[w].silence = AtMost(workers[w].silence + 1, DeadTimeout)
      BY <1>0, <1>1, <3>1, TickEntry
    <3>3. workers[w].silence \in Nat /\ workers[w].silence <= missed[w]
      BY <2>a, <3>1, <3>2 DEF NoCall
    <3>4. \A n, k \in Nat : n <= k => AtMost(n + 1, DeadTimeout) <= k + 1
      BY TimeoutAssumption DEF AtMost
    <3>5. workers'[w].silence <= missed'[w] + 1
      BY <1>2, <3>1, <3>2, <3>3, <3>4
    <3>6. workers'[w].State \in {"STARTING", "READY"}
      BY <2>a, <3>2
    <3> QED
      BY <3>1, <3>5, <3>6
  <2>d. CASE Kept(w) /\ ~Interval /\ ~\E c \in calls : c.id = w /\ ReplyHeartbeat(c)
    <3>0. /\ w \in Registered /\ workers'[w].deadlineTimer = workers[w].deadlineTimer
          /\ workers'[w].State = workers[w].State /\ workers'[w].silence = workers[w].silence
      BY <2>d DEF Kept
    <3>1. /\ OwnEntry(w) /\ workers[w].State \in {"STARTING", "READY"}
          /\ \A c \in calls : c.id = w /\ c.State = "STARTING" => workers[w].State = "STARTING"
          /\ workers[w].silence <= missed[w] + 1 /\ workers[w].silence \in Nat
          /\ ~due[w] /\ NoCall(w) => workers[w].silence <= missed[w]
      BY <2>a, <3>0
    <3>2. CASE SameView(w)
      <4>1. \A c \in calls' : c.id = w => c \in calls
        BY <3>2 DEF SameView, SameCalls
      <4>2. NoCall(w)' => NoCall(w)
        BY <3>2 DEF SameView, SameCalls, NoCall
      <4> QED
        BY <3>0, <3>1, <3>2, <4>1, <4>2 DEF SameView
    <3>3. CASE LoadModel(w)
      <4>1. calls' = calls /\ due' = due /\ missed' = missed
        BY <3>3 DEF LoadModel
      <4>2. NoCall(w)' <=> NoCall(w)
        BY <4>1 DEF NoCall
      <4> QED
        BY <3>0, <3>1, <4>1, <4>2
    <3>4. CASE LoseHeartbeat(w)
      <4>1. calls' = calls /\ missed'[w] = missed[w] + 1
        BY <1>0, <3>4 DEF LoseHeartbeat, ProcessTypes
      <4>2. \A n, k \in Nat : n <= k + 1 => n <= (k + 1) + 1
        OBVIOUS
      <4>3. workers'[w].silence <= missed'[w] + 1 /\ workers'[w].silence <= missed'[w]
        BY <1>2, <3>0, <3>1, <4>1, <4>2
      <4> QED
        BY <3>0, <3>1, <4>1, <4>3
    <3>5. CASE SendHeartbeat(w)
      <4>1. /\ calls' = calls \cup {Call(w, currentState[w])} /\ missed' = missed
            /\ currentState[w] \in {"STARTING", "READY"}
        BY <1>0, <1>5, <3>5 DEF SendHeartbeat, Booted
      <4>2. Call(w, currentState[w]).State = currentState[w] /\ Call(w, currentState[w]).id = w
        BY <1>0, <4>1, CallType
      <4>3. currentState[w] = "STARTING" => workers[w].State = "STARTING"
        BY <1>0, <3>1 DEF Loaded, Healthy
      <4>4. ~NoCall(w)'
        BY <4>1, <4>2 DEF NoCall
      <4> QED
        BY <3>0, <3>1, <4>1, <4>2, <4>3, <4>4
    <3>6. ASSUME NEW c \in calls, c.id = w, ServeHeartbeat(c)
          PROVE  /\ workers'[w].State \in {"STARTING", "READY"}
                 /\ \A x \in calls' : x.id = w /\ x.State = "STARTING" =>
                       workers'[w].State = "STARTING"
                 /\ workers'[w].silence <= missed'[w] + 1
                 /\ ~due'[w] /\ NoCall(w)' => workers'[w].silence <= missed'[w]
      <4> DEFINE e == [c EXCEPT !.served = TRUE]
      <4>1. calls' = (calls \ {c}) \cup {e} /\ missed' = missed
        BY <3>6 DEF ServeHeartbeat, processes
      <4>2. e.id = w /\ e.State = c.State
        BY <1>0, <3>6, ServedType
      <4> HIDE DEF e
      <4>3. ~NoCall(w)'
        BY <4>1, <4>2 DEF NoCall
      <4> QED
        BY <3>0, <3>1, <3>6, <4>1, <4>2, <4>3
    <3>7. ASSUME NEW c \in calls, c.id = w, RefuseHeartbeat(c)
          PROVE  FALSE
      <4>1. ~validTransition(workers[w].State, c.State)
        BY <3>0, <3>7 DEF RefuseHeartbeat
      <4>2. c.State \in {"STARTING", "READY"}
        BY <1>0, <1>5, <3>7 DEF OneCall
      <4> QED
        BY <3>1, <3>7, <4>1, <4>2 DEF validTransition
    <3> QED
      BY <2>0, <2>d, <3>2, <3>3, <3>4, <3>5, <3>6, <3>7
  <2>e. ~Marked(w)
    <3> SUFFICES ASSUME Marked(w) PROVE FALSE
      OBVIOUS
    <3>1. workers[w].silence >= DeadTimeout /\ workers[w].silence <= missed[w] + 1
          /\ workers[w].silence \in Nat
      BY <2>a DEF Marked
    <3> QED
      BY <1>2, <3>1, TimeoutAssumption
  <2>f. ASSUME NEW c \in calls, ReplyHeartbeat(c), Stamped(w)
        PROVE  c.id = w
    <3>1. /\ beating = {[id |-> c.id, State |-> c.State]}
          /\ beating = {[id |-> w, State |-> workers'[w].State]}
      BY <1>0, <2>f DEF ReplyHeartbeat, Answering, Stamped
    <3>2. [id |-> c.id, State |-> c.State] = [id |-> w, State |-> workers'[w].State]
      BY <3>1
    <3> QED
      BY <3>2
  <2>g. CASE \E t \in Timers : Registration(t) /\ closure[t] = w /\ workers'[w] = joining[t]
    BY <1>2, <1>3, <2>g
  <2> QED
    BY <1>0, <1>1, <2>b, <2>c, <2>d, <2>e, <2>f, <2>g, EntryStep
<1> QED
  BY <1>0, <1>4, <1>5, PhaseStep

(* PromptInv is inductive.                                                 *)
LEMMA PromptInvStep ==
    ASSUME Stalling = {}, StrayBeats = FALSE, MaxMissed + 1 < DeadTimeout
    PROVE  PromptInv /\ [FleetNext]_fleetVars => PromptInv'
<1> SUFFICES ASSUME PromptInv, [FleetNext]_fleetVars PROVE PromptInv'
  OBVIOUS
<1>1. LoadedInv' /\ FleetTypeOK /\ FleetTypeOK'
  BY LoadedInvStep DEF PromptInv, LoadedInv
<1>2. WatchInv'
  BY <1>1, FleetUsesRegistry, WatchStep DEF PromptInv
<1>3. ASSUME NEW w \in Workers PROVE Booted(w)' /\ OneCall(w)' /\ Accounted(w)'
  <2>1. Booted(w) /\ OneCall(w)
    BY DEF PromptInv
  <2> QED
    BY <1>1, <2>1, BootedStep, OneCallStep, AccountedStep
<1> QED
  BY <1>1, <1>2, <1>3 DEF PromptInv

(* Nobody is registered to begin with.                                     *)
LEMMA PromptInitially == FleetInit => PromptInv
<1> SUFFICES ASSUME FleetInit PROVE PromptInv
  OBVIOUS
<1>1. WatchInv
  BY InitInv DEF FleetInit
<1>2. \A w \in Workers : phase[w] \in {"absent", "down"}
  BY DEF FleetInit
<1>3. \A w \in Workers : Booted(w) /\ OneCall(w) /\ Accounted(w)
  BY <1>2 DEF Booted, OneCall, Accounted
<1> QED
  BY <1>1, <1>3, LoadedInitially DEF PromptInv

(* A running worker whose missed heartbeats, with the one that is due, fit *)
(* into the timeout is never taken for dead, whatever timers of earlier    *)
(* registrations, late markDead goroutines (registry.go markDead), crashes *)
(* and restarts of other processes, and sweeps are about.  The timeout of  *)
(* three intervals (registry.go:22) hence forgives one missed heartbeat.   *)
THEOREM PromptNeverDead ==
    ASSUME Stalling = {}, StrayBeats = FALSE, MaxMissed + 1 < DeadTimeout
    PROVE  FleetSpec => []PromptIsNeverDead
<1>1. PromptInv => PromptIsNeverDead
  BY DEF PromptInv, Accounted, PromptIsNeverDead
<1> QED
  BY <1>1, PromptInitially, PromptInvStep, PTL DEF FleetSpec
=============================================================================
