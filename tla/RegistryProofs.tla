--------------------------- MODULE RegistryProofs ---------------------------
(***************************************************************************)
(* Proofs about Registry, for every set of workers, timers and models and  *)
(* every timeout.  SafeInv needs no assumption on the handlers' timing and *)
(* carries NoResurrection; WatchInv adds what holds when no handler is     *)
(* overtaken by the clock (Stalling = {}) and carries SilenceIsWatched.    *)
(***************************************************************************)
EXTENDS Registry, TLAPS

(* The transition a Heartbeat checked is still legal when it is applied.   *)
BeatsLegal ==
    \A b \in beating : validTransition(workers[b.id].State, b.State)

SafeInv == TypeOK /\ TimersOwned /\ BeatsLegal

(* A Register handler between AfterFunc and Lock has a timer just started. *)
JoiningFresh ==
    \A t \in DOMAIN joining :
        joining[t].silence = 0 /\ left[t] = DeadTimeout

WatchInv == SafeInv /\ JoiningFresh /\ SilenceIsWatched

-----------------------------------------------------------------------------
(* A Heartbeat in progress is a record of a registered id and a state.     *)
LEMMA BeatingShape ==
    ASSUME TypeOK, NEW b \in beating
    PROVE  /\ b.id \in Registered
           /\ b.State \in WorkerState
           /\ beating = {b}
  BY DEF TypeOK

(* Ageing an entry (time.Since) touches nothing but its two ages.          *)
LEMMA AgedEntry ==
    ASSUME NEW e \in WorkerEntry
    PROVE  /\ Aged(e) \in WorkerEntry
           /\ Aged(e).State = e.State
           /\ Aged(e).deadlineTimer = e.deadlineTimer
           /\ (Aged(e).deadFor = Unset) <=> (e.deadFor = Unset)
           /\ Aged(e).silence = AtMost(e.silence + 1, DeadTimeout)
           /\ Aged(e).ModelsLoaded = e.ModelsLoaded
           /\ Aged(e).DrainRequested = e.DrainRequested
<1> DEFINE s == AtMost(e.silence + 1, DeadTimeout)
           d == IF e.deadFor = Unset THEN Unset
                ELSE AtMost(e.deadFor + 1, DeadGrace)
<1>1. s \in 0..DeadTimeout
  BY TimeoutAssumption DEF AtMost, WorkerEntry
<1>2. d \in {Unset} \cup 0..DeadGrace /\ ((d = Unset) <=> (e.deadFor = Unset))
  BY GraceAssumption DEF AtMost, WorkerEntry, Unset
<1>3. Aged(e) = [e EXCEPT !.silence = s, !.deadFor = d]
  BY DEF Aged
<1> HIDE DEF s, d
<1>4. Aged(e) \in WorkerEntry
  BY <1>1, <1>2, <1>3 DEF WorkerEntry
<1>5. /\ Aged(e).State = e.State
      /\ Aged(e).deadlineTimer = e.deadlineTimer
      /\ Aged(e).deadFor = d
      /\ Aged(e).silence = s
      /\ Aged(e).ModelsLoaded = e.ModelsLoaded
      /\ Aged(e).DrainRequested = e.DrainRequested
  BY <1>3 DEF WorkerEntry
<1> QED
  BY <1>2, <1>4, <1>5 DEF s

(* A fresh entry (Register, registry.go:81-93) is well formed.             *)
LEMMA NewEntryType ==
    ASSUME NEW models \in ModelLists, NEW t \in Timers
    PROVE  /\ NewEntry(models, t) \in WorkerEntry
           /\ NewEntry(models, t).deadlineTimer = t
           /\ NewEntry(models, t).silence = 0
  BY TimeoutAssumption DEF NewEntry, WorkerEntry, WorkerState, Unset

(* A DEAD entry (markDead, registry.go:231-232) has its time of death.     *)
LEMMA DeadEntry ==
    ASSUME NEW e \in WorkerEntry
    PROVE  /\ Dead(e) \in WorkerEntry
           /\ Dead(e).State = "DEAD"
           /\ Dead(e).deadFor = 0
           /\ Dead(e).deadlineTimer = e.deadlineTimer
           /\ Dead(e).silence = e.silence
           /\ Dead(e).ModelsLoaded = e.ModelsLoaded
           /\ Dead(e).DrainRequested = e.DrainRequested
<1>1. Dead(e) \in WorkerEntry
  <2>1. 0 \in {Unset} \cup 0..DeadGrace /\ "DEAD" \in WorkerState
    BY GraceAssumption DEF WorkerState
  <2> QED
    BY <2>1 DEF Dead, WorkerEntry
<1>2. Dead(e).State = "DEAD" /\ Dead(e).deadFor = 0
  BY DEF Dead, WorkerEntry
<1>3. /\ Dead(e).deadlineTimer = e.deadlineTimer
      /\ Dead(e).silence = e.silence
      /\ Dead(e).ModelsLoaded = e.ModelsLoaded
  BY DEF Dead, WorkerEntry
<1>4. Dead(e).DrainRequested = e.DrainRequested
  BY DEF Dead, WorkerEntry
<1> QED
  BY <1>1, <1>2, <1>3, <1>4

(* Init establishes everything: the map is empty and no timer runs.        *)
LEMMA InitInv == Init => WatchInv
  BY TimeoutAssumption, CallbacksAssumption
  DEF Init, WatchInv, SafeInv, TypeOK, TimersOwned, BeatsLegal, JoiningFresh,
      SilenceIsWatched, Empty, Registered, Off

(* Every action keeps the types.                                           *)
LEMMA TypeStep == TypeOK /\ TimersOwned /\ [Next]_vars => TypeOK'
<1> SUFFICES ASSUME TypeOK, TimersOwned, [Next]_vars
             PROVE  TypeOK'
  OBVIOUS
<1> USE TimeoutAssumption, GraceAssumption, CallbacksAssumption
<1>1. ASSUME NEW id \in Workers, NEW models \in ModelLists, NEW t \in Timers,
             RegisterStart(id, models, t)
      PROVE  TypeOK'
  BY <1>1, NewEntryType DEF RegisterStart, TypeOK, Put, Registered, Off
<1>2. ASSUME NEW t \in Timers, RegisterInsert(t)
      PROVE  TypeOK'
  BY <1>2 DEF RegisterInsert, TypeOK, Put, Delete, Registered, LockFree
<1>3. ASSUME NEW id \in Workers, NEW s \in WorkerState, HeartbeatReset(id, s)
      PROVE  TypeOK'
  <2>1. workers[id].deadlineTimer \in Timers
    BY <1>3 DEF HeartbeatReset, Reset, TypeOK, WorkerEntry
  <2> QED
    BY <1>3, <2>1 DEF HeartbeatReset, Reset, TypeOK, Registered, Off
<1>4. CASE HeartbeatStamp
  <2>1. PICK b \in beating :
            /\ workers' = [workers EXCEPT ![b.id].silence = 0,
                                          ![b.id].State = b.State]
            /\ beating' = {}
            /\ UNCHANGED <<left, closure, callbacks, joining>>
    BY <1>4 DEF HeartbeatStamp
  <2>2. b.id \in Registered /\ b.State \in WorkerState
    BY BeatingShape
  <2>3. \A id \in Registered : workers'[id] \in WorkerEntry
    BY <2>1, <2>2 DEF TypeOK, WorkerEntry, Registered
  <2> QED
    BY <2>1, <2>2, <2>3 DEF TypeOK, Registered
<1>5. ASSUME NEW id \in Workers, Remove(id)
      PROVE  TypeOK'
  BY <1>5 DEF Remove, TypeOK, Delete, Registered, Off, LockFree
<1>6. ASSUME NEW id \in Workers, NEW l \in Loads, ReportLoad(id, l)
      PROVE  TypeOK'
  <2>1. \A i \in Registered : workers'[i] \in WorkerEntry
    BY <1>6 DEF ReportLoad, TypeOK, WorkerEntry, Registered
  <2> QED
    BY <1>6, <2>1 DEF ReportLoad, TypeOK, Registered, LockFree
<1>7. ASSUME NEW id \in Workers, RequestDrain(id)
      PROVE  TypeOK'
  <2>1. \A i \in Registered : workers'[i] \in WorkerEntry
    BY <1>7 DEF RequestDrain, TypeOK, WorkerEntry, Registered
  <2> QED
    BY <1>7, <2>1 DEF RequestDrain, TypeOK, Registered, LockFree
<1>8. ASSUME NEW t \in Timers, Fire(t)
      PROVE  TypeOK'
  BY <1>8 DEF Fire, TypeOK, Registered, Off
<1>9. ASSUME NEW t \in Timers, markDead(t)
      PROVE  TypeOK'
  <2>1. callbacks' \in [Timers -> 0..MaxCallbacks]
    BY <1>9 DEF markDead, TypeOK
  <2>2. \A i \in Registered : workers'[i] \in WorkerEntry
    <3>1. CASE Expired(closure[t])
      BY <1>9, <3>1, DeadEntry DEF markDead, TypeOK, Registered
    <3>2. CASE ~Expired(closure[t])
      BY <1>9, <3>2 DEF markDead, TypeOK, Registered
    <3> QED
      BY <3>1, <3>2
  <2>3. workers' = [i \in Registered |-> workers'[i]] /\ Registered' = Registered
    BY <1>9 DEF markDead, TypeOK, Registered
  <2> QED
    BY <1>9, <2>1, <2>2, <2>3 DEF markDead, TypeOK, Registered, LockFree
<1>10. CASE Tick
  <2>1. \A i \in Registered : workers'[i] \in WorkerEntry
    BY <1>10, AgedEntry DEF Tick, TypeOK, Registered
  <2>2. \A t \in DOMAIN joining : joining'[t] \in WorkerEntry
    BY <1>10, AgedEntry DEF Tick, TypeOK
  <2>3. left' \in [Timers -> {Off} \cup 0..DeadTimeout]
    BY <1>10 DEF Tick, TypeOK, Off
  <2> QED
    BY <1>10, <2>1, <2>2, <2>3 DEF Tick, TypeOK, Registered
<1>11. CASE UNCHANGED vars
  BY <1>11 DEF TypeOK, vars, Registered
<1> QED
  BY <1>1, <1>2, <1>3, <1>4, <1>5, <1>6, <1>7, <1>8, <1>9, <1>10, <1>11
  DEF Next, Deregister, Evict

(* Every action keeps the timers owned and the pending beats legal.        *)
LEMMA SafeStep == SafeInv /\ [Next]_vars => SafeInv'
<1> SUFFICES ASSUME SafeInv, [Next]_vars
             PROVE  SafeInv'
  OBVIOUS
<1> USE DEF SafeInv
<1>0. TypeOK'
  BY TypeStep
<1>1. ASSUME NEW id \in Workers, NEW models \in ModelLists, NEW t \in Timers,
             RegisterStart(id, models, t)
      PROVE  TimersOwned' /\ BeatsLegal'
  BY <1>1, NewEntryType
  DEF RegisterStart, TypeOK, TimersOwned, BeatsLegal, Put, Registered, Unused
<1>2. ASSUME NEW t \in Timers, RegisterInsert(t)
      PROVE  TimersOwned' /\ BeatsLegal'
  BY <1>2
  DEF RegisterInsert, TypeOK, TimersOwned, BeatsLegal, Put, Delete, Registered,
      LockFree
<1>3. ASSUME NEW id \in Workers, NEW s \in WorkerState, HeartbeatReset(id, s)
      PROVE  TimersOwned' /\ BeatsLegal'
  BY <1>3 DEF HeartbeatReset, Reset, TimersOwned, BeatsLegal, Registered
<1>4. CASE HeartbeatStamp
  <2>1. PICK b \in beating :
            /\ workers' = [workers EXCEPT ![b.id].silence = 0,
                                          ![b.id].State = b.State]
            /\ beating' = {}
            /\ UNCHANGED <<left, closure, callbacks, joining>>
    BY <1>4 DEF HeartbeatStamp
  <2>2. \A i \in Registered :
            workers'[i].deadlineTimer = workers[i].deadlineTimer
    BY <2>1 DEF TypeOK, WorkerEntry
  <2> QED
    BY <1>0, <2>1, <2>2 DEF TimersOwned, BeatsLegal, Registered
<1>5. ASSUME NEW id \in Workers, Remove(id)
      PROVE  TimersOwned' /\ BeatsLegal'
  BY <1>5 DEF Remove, TimersOwned, BeatsLegal, Delete, Registered, LockFree
<1>6. ASSUME NEW id \in Workers, NEW l \in Loads, ReportLoad(id, l)
      PROVE  TimersOwned' /\ BeatsLegal'
  <2>1. \A i \in Registered :
            workers'[i].deadlineTimer = workers[i].deadlineTimer
    BY <1>6 DEF ReportLoad, TypeOK, WorkerEntry
  <2> QED
    BY <1>6, <2>1 DEF ReportLoad, TimersOwned, BeatsLegal, Registered, LockFree
<1>7. ASSUME NEW id \in Workers, RequestDrain(id)
      PROVE  TimersOwned' /\ BeatsLegal'
  <2>1. \A i \in Registered :
            workers'[i].deadlineTimer = workers[i].deadlineTimer
    BY <1>7 DEF RequestDrain, TypeOK, WorkerEntry
  <2> QED
    BY <1>7, <2>1 DEF RequestDrain, TimersOwned, BeatsLegal, Registered, LockFree
<1>8. ASSUME NEW t \in Timers, Fire(t)
      PROVE  TimersOwned' /\ BeatsLegal'
  BY <1>8 DEF Fire, TimersOwned, BeatsLegal, Registered
<1>9. ASSUME NEW t \in Timers, markDead(t)
      PROVE  TimersOwned' /\ BeatsLegal'
  <2>1. \A i \in Registered :
            workers'[i].deadlineTimer = workers[i].deadlineTimer
    <3>1. CASE Expired(closure[t])
      BY <1>9, <3>1, DeadEntry DEF markDead, TypeOK, Registered
    <3>2. CASE ~Expired(closure[t])
      BY <1>9, <3>2 DEF markDead
    <3> QED
      BY <3>1, <3>2
  <2>2. Registered' = Registered
    BY <1>9 DEF markDead, Registered
  <2> QED
    BY <1>9, <2>1, <2>2 DEF markDead, TimersOwned, BeatsLegal, LockFree
<1>10. CASE Tick
  <2>1. \A i \in Registered :
            /\ workers'[i].deadlineTimer = workers[i].deadlineTimer
            /\ workers'[i].State = workers[i].State
    BY <1>10, AgedEntry DEF Tick, TypeOK, Registered
  <2>2. \A t \in DOMAIN joining :
            joining'[t].deadlineTimer = joining[t].deadlineTimer
    BY <1>10, AgedEntry DEF Tick, TypeOK
  <2> QED
    BY <1>0, <1>10, <2>1, <2>2, BeatingShape
    DEF Tick, TimersOwned, BeatsLegal, Registered
<1>11. CASE UNCHANGED vars
  BY <1>0, <1>11 DEF TimersOwned, BeatsLegal, vars, Registered
<1> QED
  BY <1>0, <1>1, <1>2, <1>3, <1>4, <1>5, <1>6, <1>7, <1>8, <1>9, <1>10, <1>11
  DEF Next, Deregister, Evict

(* Types and timer ownership hold whatever the handlers' timing: no        *)
(* interleaving of Register, Heartbeat, Evict and timer callbacks makes    *)
(* two entries share a timer or a callback name the wrong worker.          *)
THEOREM RegistrySafe == Spec => [](TypeOK /\ TimersOwned)
<1>1. Init => SafeInv
  BY InitInv DEF WatchInv
<1>2. SafeInv /\ [Next]_vars => SafeInv'
  BY SafeStep
<1> QED
  BY <1>1, <1>2, PTL DEF Spec, SafeInv

(* Every action keeps every live entry watched, provided no handler is     *)
(* overtaken by the clock.                                                 *)
LEMMA WatchStep ==
    ASSUME Stalling = {}
    PROVE  WatchInv /\ [Next]_vars => WatchInv'
<1> SUFFICES ASSUME WatchInv, [Next]_vars
             PROVE  WatchInv'
  OBVIOUS
<1> USE TimeoutAssumption DEF WatchInv, SafeInv
<1>0. SafeInv'
  BY SafeStep
<1>a. \A i \in Registered : /\ workers[i] \in WorkerEntry
                            /\ workers[i].deadlineTimer \in Timers
                            /\ workers[i].silence \in 0..DeadTimeout
  BY DEF TypeOK, WorkerEntry
<1>b. \A i, j \in Registered :
          workers[i].deadlineTimer = workers[j].deadlineTimer => i = j
  BY DEF TimersOwned
<1>1. ASSUME NEW id \in Workers, NEW models \in ModelLists, NEW t \in Timers,
             RegisterStart(id, models, t)
      PROVE  JoiningFresh' /\ SilenceIsWatched'
  <2>1. JoiningFresh'
    BY <1>1, NewEntryType DEF RegisterStart, TypeOK, JoiningFresh, Put
  <2>2. SilenceIsWatched'
    BY <1>1, <1>a
    DEF RegisterStart, TypeOK, SilenceIsWatched, Watched, Beaten, Unused,
        Registered
  <2> QED
    BY <2>1, <2>2
<1>2. ASSUME NEW t \in Timers, RegisterInsert(t)
      PROVE  JoiningFresh' /\ SilenceIsWatched'
  <2>1. JoiningFresh'
    BY <1>2 DEF RegisterInsert, JoiningFresh, Delete
  <2>2. SilenceIsWatched'
    BY <1>2
    DEF RegisterInsert, JoiningFresh, TimersOwned, SilenceIsWatched, Watched,
        Beaten, Put, Registered, LockFree
  <2> QED
    BY <2>1, <2>2
<1>3. ASSUME NEW id \in Workers, NEW s \in WorkerState, HeartbeatReset(id, s)
      PROVE  JoiningFresh' /\ SilenceIsWatched'
  <2>1. JoiningFresh'
    BY <1>3, <1>a
    DEF HeartbeatReset, Reset, TypeOK, TimersOwned, JoiningFresh, Registered
  <2>2. Beaten(id)' /\ \A i \in Registered : i # id => ~Beaten(i)'
    BY <1>3 DEF HeartbeatReset, Reset, Beaten
  <2>3. ASSUME NEW i \in Registered, workers[i].State # "DEAD"
        PROVE  Watched(workers[i].deadlineTimer,
                       IF Beaten(i) THEN 0 ELSE workers[i].silence)'
    <3>1. CASE i = id
      BY <1>3, <1>a, <2>2, <3>1 DEF HeartbeatReset, Reset, TypeOK, Watched, Registered
    <3>2. CASE i # id
      BY <1>3, <1>a, <1>b, <2>2, <2>3, <3>2
      DEF HeartbeatReset, Reset, TypeOK, SilenceIsWatched, Watched, Beaten, Registered,
          LockFree
    <3> QED
      BY <3>1, <3>2
  <2>4. SilenceIsWatched'
    BY <1>3, <2>3 DEF HeartbeatReset, Reset, SilenceIsWatched, Registered
  <2> QED
    BY <2>1, <2>4
<1>4. CASE HeartbeatStamp
  <2>1. PICK b \in beating :
            /\ workers' = [workers EXCEPT ![b.id].silence = 0,
                                          ![b.id].State = b.State]
            /\ beating' = {}
            /\ UNCHANGED <<left, closure, callbacks, joining>>
    BY <1>4 DEF HeartbeatStamp
  <2>2. b.id \in Registered /\ beating = {b}
    BY BeatingShape
  <2>3. \A i \in Registered :
            /\ workers'[i].deadlineTimer = workers[i].deadlineTimer
            /\ i = b.id => workers'[i].silence = 0
            /\ i # b.id => workers'[i] = workers[i]
    BY <1>a, <2>1, <2>2 DEF TypeOK, WorkerEntry
  <2>4. workers[b.id].State = "DEAD" => workers'[b.id].State = "DEAD"
    BY <1>a, <2>1, <2>2
    DEF BeatsLegal, validTransition, TypeOK, WorkerEntry, Registered
  <2>5. ASSUME NEW i \in Registered, workers'[i].State # "DEAD"
        PROVE  Watched(workers[i].deadlineTimer, workers'[i].silence)
    <3>1. CASE i = b.id
      BY <2>2, <2>3, <2>4, <2>5, <3>1 DEF SilenceIsWatched, Beaten
    <3>2. CASE i # b.id
      BY <2>2, <2>3, <2>5, <3>2 DEF SilenceIsWatched, Beaten
    <3> QED
      BY <3>1, <3>2
  <2>6. JoiningFresh'
    BY <2>1 DEF JoiningFresh
  <2>7. SilenceIsWatched'
    BY <2>1, <2>3, <2>5 DEF SilenceIsWatched, Watched, Beaten, Registered
  <2> QED
    BY <1>0, <2>6, <2>7
<1>5. ASSUME NEW id \in Workers, Remove(id)
      PROVE  JoiningFresh' /\ SilenceIsWatched'
  BY <1>5, <1>a, <1>b
  DEF Remove, TypeOK, TimersOwned, JoiningFresh, SilenceIsWatched, Watched,
      Beaten, Delete, Registered, LockFree
<1>6. ASSUME NEW id \in Workers, NEW l \in Loads, ReportLoad(id, l)
      PROVE  JoiningFresh' /\ SilenceIsWatched'
  <2>1. \A i \in Registered :
            /\ workers'[i].deadlineTimer = workers[i].deadlineTimer
            /\ workers'[i].silence = workers[i].silence
            /\ workers'[i].State = workers[i].State
    BY <1>6, <1>a DEF ReportLoad, TypeOK, WorkerEntry
  <2> QED
    BY <1>6, <2>1
    DEF ReportLoad, JoiningFresh, SilenceIsWatched, Watched, Beaten, Registered
<1>7. ASSUME NEW id \in Workers, RequestDrain(id)
      PROVE  JoiningFresh' /\ SilenceIsWatched'
  <2>1. \A i \in Registered :
            /\ workers'[i].deadlineTimer = workers[i].deadlineTimer
            /\ workers'[i].silence = workers[i].silence
            /\ workers'[i].State = workers[i].State
    BY <1>7, <1>a DEF RequestDrain, TypeOK, WorkerEntry
  <2> QED
    BY <1>7, <2>1
    DEF RequestDrain, JoiningFresh, SilenceIsWatched, Watched, Beaten, Registered
<1>8. ASSUME NEW t \in Timers, Fire(t)
      PROVE  JoiningFresh' /\ SilenceIsWatched'
  <2>1. JoiningFresh'
    BY <1>8 DEF Fire, TypeOK, JoiningFresh
  <2>2. SilenceIsWatched'
    BY <1>8, <1>a, CallbacksAssumption
    DEF Fire, TypeOK, SilenceIsWatched, Watched, Beaten, Registered, Off
  <2> QED
    BY <2>1, <2>2
<1>9. ASSUME NEW t \in Timers, markDead(t)
      PROVE  JoiningFresh' /\ SilenceIsWatched'
  <2>1. JoiningFresh'
    BY <1>9 DEF markDead, JoiningFresh
  <2>2. CASE Expired(closure[t])
    <3>1. \A i \in Registered :
              /\ i = closure[t] => workers'[i].State = "DEAD"
              /\ i # closure[t] => workers'[i] = workers[i]
      BY <1>9, <1>a, <2>2, DeadEntry DEF markDead, TypeOK
    <3> QED
      BY <1>9, <1>a, <2>1, <2>2, <3>1
      DEF markDead, TypeOK, TimersOwned, SilenceIsWatched, Watched, Beaten,
          Registered, LockFree
  <2>3. CASE ~Expired(closure[t])
    BY <1>9, <1>a, <2>1, <2>3
    DEF markDead, TypeOK, TimersOwned, SilenceIsWatched, Watched, Beaten,
        Registered, LockFree, Expired
  <2> QED
    BY <2>2, <2>3
<1>10. CASE Tick
  <2>1. LockFree /\ DOMAIN joining = {}
    BY <1>10 DEF Tick
  <2>2. \A i \in Registered :
            /\ workers'[i].deadlineTimer = workers[i].deadlineTimer
            /\ workers'[i].State = workers[i].State
            /\ workers'[i].silence = AtMost(workers[i].silence + 1, DeadTimeout)
    BY <1>10, <1>a, AgedEntry DEF Tick, Registered
  <2>3. JoiningFresh'
    BY <1>10, <2>1 DEF Tick, JoiningFresh
  <2>4. ASSUME NEW i \in Registered, workers[i].State # "DEAD"
        PROVE  Watched(workers[i].deadlineTimer, workers[i].silence)'
    <3> DEFINE t == workers[i].deadlineTimer
    <3>1. Watched(t, workers[i].silence)
      BY <2>1, <2>4 DEF SilenceIsWatched, Beaten, LockFree
    <3>2. /\ t \in Timers /\ left[t] \in {Off} \cup 0..DeadTimeout
          /\ left'[t] = IF left[t] > 0 THEN left[t] - 1 ELSE left[t]
          /\ callbacks' = callbacks
      BY <1>10, <1>a DEF Tick, TypeOK
    <3>3. /\ workers'[i].deadlineTimer = t
          /\ workers'[i].silence = AtMost(workers[i].silence + 1, DeadTimeout)
          /\ workers[i].silence \in 0..DeadTimeout
      BY <1>a, <2>2
    <3> QED
      BY <3>1, <3>2, <3>3 DEF Watched, AtMost, Off
  <2>5. SilenceIsWatched'
    BY <1>10, <2>1, <2>2, <2>4
    DEF Tick, SilenceIsWatched, Beaten, Registered, LockFree
  <2> QED
    BY <1>0, <2>3, <2>5
<1>11. CASE UNCHANGED vars
  BY <1>0, <1>11
  DEF JoiningFresh, SilenceIsWatched, Watched, Beaten, vars, Registered
<1> QED
  BY <1>0, <1>1, <1>2, <1>3, <1>4, <1>5, <1>6, <1>7, <1>8, <1>9, <1>10, <1>11
  DEF Next, Deregister, Evict

(* Failure detection is never lost: as long as the clock does not advance  *)
(* inside a Register or Heartbeat handler, every entry that is not DEAD    *)
(* has its deadline timer or a pending markDead (registry.go:73-235).      *)
THEOREM DetectorNeverLost ==
    ASSUME Stalling = {}
    PROVE  Spec => []SilenceIsWatched
<1>1. Init => WatchInv
  BY InitInv
<1>2. WatchInv /\ [Next]_vars => WatchInv'
  BY WatchStep
<1> QED
  BY <1>1, <1>2, PTL DEF Spec, WatchInv

(* No step of the registry takes an entry out of DEAD, or out of DRAINING  *)
(* other than to DEAD, or clears its MarkedDeadAt.                         *)
LEMMA NoResurrectionStep ==
    ASSUME SafeInv, [Next]_vars, NEW id \in Workers, SameIncarnation(id)
    PROVE  /\ workers[id].State = "DEAD" => workers'[id].State = "DEAD"
           /\ workers[id].State = "DRAINING" =>
                 workers'[id].State \in {"DRAINING", "DEAD"}
           /\ workers[id].deadFor # Unset => workers'[id].deadFor # Unset
<1> USE DEF SafeInv, SameIncarnation
<1>a. id \in Registered /\ workers[id] \in WorkerEntry
  BY DEF TypeOK
<1>1. ASSUME NEW t \in Timers, RegisterInsert(t)
      PROVE  workers'[id] = workers[id]
  BY <1>1 DEF RegisterInsert, TimersOwned, Put, Registered
<1>2. CASE HeartbeatStamp
  <2>1. PICK b \in beating :
            workers' = [workers EXCEPT ![b.id].silence = 0,
                                       ![b.id].State = b.State]
    BY <1>2 DEF HeartbeatStamp
  <2>2. CASE b.id = id
    <3>1. /\ workers'[id].State = b.State
          /\ workers'[id].deadFor = workers[id].deadFor
      BY <1>a, <2>1, <2>2 DEF TypeOK, WorkerEntry, Registered
    <3>2. validTransition(workers[id].State, b.State)
      BY <2>2 DEF BeatsLegal
    <3> QED
      BY <3>1, <3>2 DEF validTransition
  <2>3. CASE b.id # id
    BY <1>a, <2>1, <2>3 DEF TypeOK, Registered
  <2> QED
    BY <2>2, <2>3
<1>3. ASSUME NEW i \in Workers, Remove(i)
      PROVE  workers'[id] = workers[id]
  BY <1>3 DEF Remove, Delete, Registered
<1>4. ASSUME NEW i \in Workers, NEW l \in Loads, ReportLoad(i, l)
      PROVE  /\ workers'[id].State = workers[id].State
             /\ workers'[id].deadFor = workers[id].deadFor
  BY <1>4, <1>a DEF ReportLoad, TypeOK, WorkerEntry, Registered
<1>5. ASSUME NEW i \in Workers, RequestDrain(i)
      PROVE  /\ workers'[id].State = workers[id].State
             /\ workers'[id].deadFor = workers[id].deadFor
  BY <1>5, <1>a DEF RequestDrain, TypeOK, WorkerEntry, Registered
<1>6. ASSUME NEW t \in Timers, markDead(t)
      PROVE  \/ workers'[id] = workers[id]
             \/ workers'[id].State = "DEAD" /\ workers'[id].deadFor = 0
  <2>1. CASE Expired(closure[t])
    BY <1>6, <1>a, <2>1, DeadEntry DEF markDead, TypeOK, Registered
  <2>2. CASE ~Expired(closure[t])
    BY <1>6, <2>2 DEF markDead
  <2> QED
    BY <2>1, <2>2
<1>7. CASE Tick
  BY <1>7, <1>a, AgedEntry DEF Tick, Registered
<1>8. ASSUME UNCHANGED workers
      PROVE  workers'[id] = workers[id]
  BY <1>8
<1> QED
  BY <1>1, <1>2, <1>3, <1>4, <1>5, <1>6, <1>7, <1>8
  DEF Next, RegisterStart, HeartbeatReset, Fire, Deregister, Evict, vars, Unset

(* Within one registration DEAD is terminal, and DRAINING is left only     *)
(* towards DEAD, whatever interleaving of heartbeats, re-registrations and *)
(* late callbacks: "workers cannot self-recover" (registry.go:193-194).    *)
THEOREM DeadIsTerminal == Spec => NoResurrection
<1>1. Init => SafeInv
  BY InitInv DEF WatchInv
<1>2. SafeInv /\ [Next]_vars => SafeInv'
  BY SafeStep
<1>3. SafeInv /\ [Next]_vars =>
        [\A id \in Workers : SameIncarnation(id) =>
            /\ workers[id].State = "DEAD" => workers'[id].State = "DEAD"
            /\ workers[id].State = "DRAINING" =>
                  workers'[id].State \in {"DRAINING", "DEAD"}
            /\ workers[id].deadFor # Unset => workers'[id].deadFor # Unset]_vars
  BY NoResurrectionStep
<1> QED
  BY <1>1, <1>2, <1>3, PTL DEF Spec, NoResurrection
-----------------------------------------------------------------------------
(* A Register handler carries a STARTING entry without a drain request.    *)
JoiningStarts ==
    \A t \in DOMAIN joining :
        joining[t].State = "STARTING" /\ ~joining[t].DrainRequested

RefineInv == SafeInv /\ JoiningStarts

(* Every action keeps the entries on their way STARTING (registry.go:89).  *)
LEMMA StartsStep == RefineInv /\ [Next]_vars => RefineInv'
<1> SUFFICES ASSUME RefineInv, [Next]_vars
             PROVE  RefineInv'
  OBVIOUS
<1> USE DEF RefineInv
<1>0. SafeInv'
  BY SafeStep
<1>1. ASSUME NEW id \in Workers, NEW models \in ModelLists, NEW t \in Timers,
             RegisterStart(id, models, t)
      PROVE  JoiningStarts'
  <2>1. /\ NewEntry(models, t).State = "STARTING"
        /\ ~NewEntry(models, t).DrainRequested
    BY DEF NewEntry
  <2> QED
    BY <1>1, <2>1 DEF RegisterStart, JoiningStarts, Put
<1>2. ASSUME NEW t \in Timers, RegisterInsert(t)
      PROVE  JoiningStarts'
  BY <1>2 DEF RegisterInsert, JoiningStarts, Delete
<1>3. CASE Tick
  BY <1>0, <1>3, AgedEntry DEF Tick, JoiningStarts, SafeInv, TypeOK
<1>4. ASSUME UNCHANGED joining
      PROVE  JoiningStarts'
  BY <1>4 DEF JoiningStarts
<1> QED
  BY <1>0, <1>1, <1>2, <1>3, <1>4
  DEF Next, HeartbeatReset, HeartbeatStamp, Remove, Deregister, Evict, ReportLoad,
      RequestDrain, Fire, markDead, vars

(* Every step of the registry is a step of Membership or leaves the        *)
(* members alone.                                                          *)
LEMMA RefinementStep ==
    ASSUME RefineInv, [Next]_vars
    PROVE  [Abstract!MembersNext]_[id \in Registered |-> AsMember(workers[id])]
<1> DEFINE members == [id \in Registered |-> AsMember(workers[id])]
<1> USE DEF RefineInv, SafeInv
<1>a. \A id \in Registered : workers[id] \in WorkerEntry
  BY DEF TypeOK
<1>1. ASSUME NEW id \in Workers, NEW models \in ModelLists, NEW t \in Timers,
             RegisterStart(id, models, t)
      PROVE  members' = members
  BY <1>1 DEF RegisterStart, Registered
<1>2. ASSUME NEW t \in Timers, RegisterInsert(t)
      PROVE  Abstract!MembersNext
  <2> DEFINE e == joining[t]
             id == closure[t]
  <2>1. /\ e \in WorkerEntry /\ id \in Workers
        /\ e.State = "STARTING" /\ e.DrainRequested = FALSE
    <3>1. e \in WorkerEntry /\ id \in Workers
      BY <1>2 DEF RegisterInsert, TypeOK
    <3>2. e.State = "STARTING" /\ ~e.DrainRequested /\ e.DrainRequested \in BOOLEAN
      BY <1>2, <3>1 DEF RegisterInsert, JoiningStarts, WorkerEntry
    <3> QED
      BY <3>1, <3>2
  <2>2. e.ModelsLoaded \in ModelLists /\ e.silence \in 0..DeadTimeout
    BY <2>1 DEF WorkerEntry
  <2>3. Abstract!Join(id, e.ModelsLoaded, e.silence)
    BY <1>2, <2>1 DEF RegisterInsert, Abstract!Join, Abstract!Put, Put, AsMember, Registered
  <2> QED
    BY <2>1, <2>2, <2>3 DEF Abstract!MembersNext
<1>3. ASSUME NEW id \in Workers, NEW s \in WorkerState, HeartbeatReset(id, s)
      PROVE  members' = members
  BY <1>3 DEF HeartbeatReset, Registered
<1>4. CASE HeartbeatStamp
  <2>1. PICK b \in beating : workers' = [workers EXCEPT ![b.id].silence = 0,
                                                        ![b.id].State = b.State]
    BY <1>4 DEF HeartbeatStamp
  <2>2. /\ b.id \in Registered /\ b.State \in WorkerState
        /\ validTransition(workers[b.id].State, b.State)
    BY BeatingShape DEF BeatsLegal
  <2>3. \A i \in Registered :
            /\ i # b.id => workers'[i] = workers[i]
            /\ i = b.id => /\ workers'[i].silence = 0
                           /\ workers'[i].State = b.State
                           /\ workers'[i].ModelsLoaded = workers[i].ModelsLoaded
                           /\ workers'[i].DrainRequested = workers[i].DrainRequested
    BY <1>a, <2>1, <2>2 DEF TypeOK, WorkerEntry
  <2>4. Abstract!validTransition(workers[b.id].State, b.State)
    BY <2>2 DEF validTransition, Abstract!validTransition
  <2>5. Abstract!Beat(b.id, b.State)
    BY <2>1, <2>2, <2>3, <2>4 DEF Abstract!Beat, AsMember, Registered
  <2> QED
    BY <2>2, <2>5 DEF Abstract!MembersNext, Abstract!WorkerState, WorkerState, TypeOK
<1>5. ASSUME NEW id \in Workers, Remove(id)
      PROVE  Abstract!MembersNext
  <2>1. Abstract!Leave(id)
    BY <1>5 DEF Remove, Abstract!Leave, Abstract!Delete, Delete, Registered
  <2> QED
    BY <2>1 DEF Abstract!MembersNext
<1>6. ASSUME NEW id \in Workers, NEW l \in Loads, ReportLoad(id, l)
      PROVE  members' = members
  <2>1. \A i \in Registered : AsMember(workers'[i]) = AsMember(workers[i])
    BY <1>6, <1>a DEF ReportLoad, TypeOK, WorkerEntry, AsMember
  <2> QED
    BY <1>6, <2>1 DEF ReportLoad, Registered
<1>7. ASSUME NEW id \in Workers, RequestDrain(id)
      PROVE  Abstract!MembersNext
  <2>1. \A i \in Registered :
            /\ i # id => workers'[i] = workers[i]
            /\ i = id => /\ workers'[i].DrainRequested = TRUE
                         /\ workers'[i].State = workers[i].State
                         /\ workers'[i].silence = workers[i].silence
                         /\ workers'[i].ModelsLoaded = workers[i].ModelsLoaded
    BY <1>7, <1>a DEF RequestDrain, TypeOK, WorkerEntry
  <2>2. Abstract!Drain(id)
    BY <1>7, <2>1 DEF RequestDrain, Abstract!Drain, AsMember, Registered
  <2> QED
    BY <2>2 DEF Abstract!MembersNext
<1>8. ASSUME NEW t \in Timers, Fire(t)
      PROVE  members' = members
  BY <1>8 DEF Fire, Registered
<1>9. ASSUME NEW t \in Timers, markDead(t)
      PROVE  Abstract!MembersNext \/ members' = members
  <2>1. CASE Expired(closure[t])
    <3>1. /\ closure[t] \in Registered /\ closure[t] \in Workers
          /\ workers[closure[t]].State # "DEAD"
          /\ workers[closure[t]].silence >= DeadTimeout
      BY <2>1 DEF Expired, TypeOK
    <3>2. /\ Registered' = Registered
          /\ workers'[closure[t]] = Dead(workers[closure[t]])
          /\ \A i \in Registered : i # closure[t] => workers'[i] = workers[i]
      BY <1>9, <2>1, <3>1 DEF markDead, Registered
    <3>3. \A i \in Registered :
              i = closure[t] => /\ workers'[i].State = "DEAD"
                                /\ workers'[i].silence = workers[i].silence
                                /\ workers'[i].ModelsLoaded = workers[i].ModelsLoaded
                                /\ workers'[i].DrainRequested = workers[i].DrainRequested
      BY <1>a, <3>2, DeadEntry
    <3>4. Abstract!Suspect(closure[t])
      BY <3>1, <3>2, <3>3 DEF Abstract!Suspect, AsMember
    <3> QED
      BY <3>1, <3>4 DEF Abstract!MembersNext
  <2>2. CASE ~Expired(closure[t])
    BY <1>9, <2>2 DEF markDead, Registered
  <2> QED
    BY <2>1, <2>2
<1>10. CASE Tick
  <2>1. Registered' = Registered
    BY <1>10 DEF Tick, Registered
  <2>2. \A i \in Registered :
            /\ workers'[i].State = workers[i].State
            /\ workers'[i].silence = AtMost(workers[i].silence + 1, DeadTimeout)
            /\ workers'[i].ModelsLoaded = workers[i].ModelsLoaded
            /\ workers'[i].DrainRequested = workers[i].DrainRequested
    BY <1>10, <1>a, AgedEntry DEF Tick, Registered
  <2>3. Abstract!Pass
    BY <2>1, <2>2 DEF Abstract!Pass, Abstract!AtMost, AtMost, AsMember
  <2> QED
    BY <2>3 DEF Abstract!MembersNext
<1>11. CASE UNCHANGED vars
  BY <1>11 DEF vars, Registered
<1> QED
  BY <1>1, <1>2, <1>3, <1>4, <1>5, <1>6, <1>7, <1>8, <1>9, <1>10, <1>11
  DEF Next, Deregister, Evict

(* The registry with its timers, callbacks and split handlers implements   *)
(* the abstract membership, for any number of workers and timers, any      *)
(* timeout, and whether or not its handlers stall (registry.go:73-313).    *)
THEOREM RegistryRefinesMembership == Spec => ImplementsMembership
<1>1. Init => RefineInv /\ Abstract!MembersInit
  BY InitInv
  DEF WatchInv, RefineInv, JoiningStarts, Init, Empty, Registered,
      Abstract!MembersInit, Abstract!Empty
<1>2. RefineInv /\ [Next]_vars => RefineInv'
  BY StartsStep
<1>3. RefineInv /\ [Next]_vars =>
        [Abstract!MembersNext]_[id \in Registered |-> AsMember(workers[id])]
  BY RefinementStep
<1> QED
  BY <1>1, <1>2, <1>3, PTL DEF Spec, ImplementsMembership, Abstract!MembersSpec
=============================================================================
