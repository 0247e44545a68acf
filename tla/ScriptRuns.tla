------------------------------ MODULE ScriptRuns ----------------------------
(***************************************************************************)
(* JS::run() as a whole (src/modules/js/js.cpp): ScriptCache chooses the   *)
(* version of the script, then a heap is made in the Sandbox, the script   *)
(* is compiled and executed in it, and the heap is destroyed.              *)
(*                                                                         *)
(* The limit and the accounting are globals that every run sets anew; the  *)
(* owner's vote that decides on the limit comes and expires at any moment. *)
(* A script is a choice of allocations; its time limit ends it like any    *)
(* other JavaScript error.                                                 *)
(***************************************************************************)
EXTENDS ScriptCache, Sandbox

CONSTANTS Watcher  \* the runner that catches no exception

VARIABLES
    voted,    \* the guild's owner has a vote of the last day
    granted,  \* history: the run in progress found that vote
    heap      \* the run in progress has a duk_context

runVars == <<vars, sandbox, voted, granted, heap>>

RunsTypeOK ==
    /\ TypeOK /\ SandboxTypeOK
    /\ voted \in BOOLEAN /\ granted \in BOOLEAN /\ heap \in BOOLEAN

RunsInit ==
    /\ Init /\ SandboxInit
    /\ voted \in BOOLEAN /\ granted = FALSE /\ heap = FALSE

Vote ==
    /\ voted' = ~voted
    /\ UNCHANGED <<vars, sandbox, granted, heap>>

\* The allowances, then the lookup in the cache.
Prepare(r) ==
    /\ Find(r)
    /\ SetAllowance(voted)
    /\ granted' = voted
    /\ UNCHANGED <<voted, heap>>

\* "Can't find channel", "Can't find guild".
Refuse(r) ==
    /\ pc[r] = "find" /\ Leave(r)
    /\ UNCHANGED <<sandbox, voted, granted, heap>>

\* duk_create_heap()
CreateHeap(r) ==
    /\ pc[r] = "execute" /\ ~heap
    /\ StartHeap
    /\ heap' = TRUE
    /\ UNCHANGED <<vars, voted, granted>>

\* Compiling and running the script.
Memory(r) ==
    /\ pc[r] \in {"execute", "end"} /\ heap
    /\ \E p \in Blocks :
         Release(p) \/ \E size \in Sizes : Alloc(p, size) \/ Realloc(p, size)
    /\ UNCHANGED <<vars, voted, granted, heap>>

\* duk_pcall()
Call(r) ==
    /\ heap /\ Execute(r)
    /\ UNCHANGED <<sandbox, voted, granted, heap>>

\* Every return with a heap: no compilation, an error, exit() or the end.
Return(r) ==
    /\ heap /\ Leave(r)
    /\ DestroyHeap
    /\ heap' = FALSE
    /\ UNCHANGED <<voted, granted>>

\* sandbox_fatal() on a shard: FOREACH_MOD catches it, the mutex is released.
Fatal(r) ==
    /\ r # Watcher /\ heap /\ pc[r] \in {"execute", "end"}
    /\ Leave(r)
    /\ GiveUpHeap
    /\ heap' = FALSE
    /\ UNCHANGED <<voted, granted>>

\* The process ends, by sandbox_fatal() in the watcher or else.
Reboot ==
    /\ Restart
    /\ max_allocated' = max_allocated_unvoted
    /\ total_allocated' = 0
    /\ sz' = [p \in Blocks |-> 0]
    /\ leaked' = {}
    /\ heap' = FALSE
    /\ UNCHANGED <<voted, granted>>

\* The library's globals start again; blocks stay where they are.
ReloadLibrary ==
    /\ Reload
    /\ max_allocated' = max_allocated_unvoted
    /\ total_allocated' = 0
    /\ UNCHANGED <<sz, leaked, voted, granted, heap>>

RunsNext ==
    \/ Vote
    \/ Edit /\ UNCHANGED <<sandbox, voted, granted, heap>>
    \/ \E r \in Runners :
         \/ (Enter(r) \/ Source(r) \/ Clean(r)) /\ UNCHANGED <<sandbox, voted, granted, heap>>
         \/ Prepare(r) \/ Refuse(r) \/ CreateHeap(r) \/ Memory(r) \/ Call(r)
         \/ Return(r) \/ Fatal(r)
    \/ Reboot
    \/ ReloadLibrary

RunsSpec == RunsInit /\ [][RunsNext]_runVars
-----------------------------------------------------------------------------
(* The accounting is exact in every state of a run, although it is one entry
   per channel that runs of all threads, failed runs and given up heaps have
   left behind, and the memory is given back when the run is over. *)
AccountingExact ==
    IF heap THEN total_allocated = Held ELSE Live = {}

(* No run gets more memory than the vote its own guild's owner has when it
   starts allows: a limit never outlives the run it was raised for. *)
WithinAllowance == heap => total_allocated <= Allowance(granted)
=============================================================================
