----------------------------- MODULE Membership -----------------------------
(***************************************************************************)
(* What the registry promises the router, the scaler and the admin API: a  *)
(* set of members, each in a state of its life cycle and silent for some   *)
(* time.  No timers, no callbacks, no lock: a member that has been silent  *)
(* for the whole timeout may be declared DEAD, any other may not.  The     *)
(* registry (module Registry) is shown to implement this.                  *)
(***************************************************************************)
EXTENDS Lifecycle

CONSTANTS
    ModelLists,     \* values of WorkerInfo.ModelsLoaded
    DeadTimeout     \* Registry.deadTimeout, in ticks

VARIABLE members    \* id -> member

Member ==
    [ModelsLoaded : ModelLists, State : WorkerState, silence : 0..DeadTimeout,
     DrainRequested : BOOLEAN]

MembersInit == members = Empty

(* A worker registers; it may have been on its way for a while, and it may *)
(* replace an earlier member of the same id.                               *)
Join(id, models, age) ==
    members' = Put(members, id, [ModelsLoaded |-> models, State |-> "STARTING",
                                 silence |-> age, DrainRequested |-> FALSE])

(* A member is heard from.                                                 *)
Beat(id, s) ==
    /\ id \in DOMAIN members
    /\ validTransition(members[id].State, s)
    /\ members' = [members EXCEPT ![id].State = s, ![id].silence = 0]

(* An operator wants a member to leave.                                    *)
Drain(id) ==
    /\ id \in DOMAIN members
    /\ members' = [members EXCEPT ![id].DrainRequested = TRUE]

(* A silent member is given up.                                            *)
Suspect(id) ==
    /\ id \in DOMAIN members
    /\ members[id].State # "DEAD"
    /\ members[id].silence >= DeadTimeout
    /\ members' = [members EXCEPT ![id].State = "DEAD"]

(* A member goes, by itself or evicted.                                    *)
Leave(id) ==
    /\ id \in DOMAIN members
    /\ members' = Delete(members, id)

(* Time passes for every member alike.                                     *)
Pass ==
    members' = [id \in DOMAIN members |->
                  [members[id] EXCEPT !.silence = AtMost(@ + 1, DeadTimeout)]]

MembersNext ==
    \/ \E id \in Workers, models \in ModelLists, age \in 0..DeadTimeout :
            Join(id, models, age)
    \/ \E id \in Workers, s \in WorkerState : Beat(id, s)
    \/ \E id \in Workers : Drain(id)
    \/ \E id \in Workers : Suspect(id)
    \/ \E id \in Workers : Leave(id)
    \/ Pass

MembersSpec == MembersInit /\ [][MembersNext]_members
=============================================================================
