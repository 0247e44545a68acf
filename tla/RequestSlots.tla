---------------------------- MODULE RequestSlots ----------------------------
(***************************************************************************)
(* What scripts are promised about get() and post(): a guild has at most   *)
(* one web request in flight, and a request leaves the table only after it *)
(* was answered.  Specification that WebRequests implements.               *)
(***************************************************************************)
CONSTANTS Guilds, Ids

VARIABLE slot   \* slot[g]: the requests of g, as [id, status]

Pending(id)  == [id |-> id, status |-> "000"]
Answered(id) == [id |-> id, status |-> "answered"]

Init == slot = [g \in Guilds |-> {}]

Ask(g, id) ==
    /\ slot[g] = {}
    /\ slot' = [slot EXCEPT ![g] = {Pending(id)}]

Answer(g, id) ==
    /\ slot[g] = {Pending(id)}
    /\ slot' = [slot EXCEPT ![g] = {Answered(id)}]

Close(g, id) ==
    /\ slot[g] = {Answered(id)}
    /\ slot' = [slot EXCEPT ![g] = {}]

Next == \E g \in Guilds, id \in Ids : Ask(g, id) \/ Answer(g, id) \/ Close(g, id)

Spec == Init /\ [][Next]_slot
=============================================================================
