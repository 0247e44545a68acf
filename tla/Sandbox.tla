------------------------------- MODULE Sandbox ------------------------------
(***************************************************************************)
(* The memory of a script (sandbox_alloc(), sandbox_realloc(),             *)
(* sandbox_free() and sandbox_fatal() in src/modules/js/js.cpp).           *)
(*                                                                         *)
(* Duktape asks for memory through these functions.  Each block has its    *)
(* size in a header; total_allocated is compared with max_allocated, which *)
(* depends on a vote of the guild's owner.  A refused request returns NULL *)
(* and changes nothing.  This module has the operations; ScriptRuns has    *)
(* the runs that use them.                                                 *)
(***************************************************************************)
EXTENDS Integers, FiniteSetsExt

CONSTANTS
    Blocks,                 \* addresses
    MaxSize,                \* BOUND: the size of one block
    max_allocated_unvoted,
    max_allocated_voted

ASSUME SandboxAssumption ==
    /\ MaxSize \in Nat
    /\ max_allocated_unvoted \in Nat /\ max_allocated_voted \in Nat

VARIABLES
    max_allocated,    \* the limit of the current run
    total_allocated,  \* total_allocated[current_context]
    sz,               \* the header of each block, 0 where there is none
    leaked            \* blocks of heaps that sandbox_fatal() gave up

sandbox == <<max_allocated, total_allocated, sz, leaked>>

Sizes == 1..MaxSize

SandboxTypeOK ==
    /\ max_allocated \in {max_allocated_unvoted, max_allocated_voted}
    /\ total_allocated \in Int
    /\ sz \in [Blocks -> 0..MaxSize]
    /\ leaked \in SUBSET Blocks

SandboxInit ==
    /\ max_allocated = max_allocated_unvoted
    /\ total_allocated = 0
    /\ sz = [p \in Blocks |-> 0]
    /\ leaked = {}

\* The blocks of the current heap.
Live == {p \in Blocks \ leaked : sz[p] > 0}

\* The memory that the current heap really holds.
Held == MapThenSumSet(LAMBDA p : sz[p], Live)

Allowance(voted) == IF voted THEN max_allocated_voted ELSE max_allocated_unvoted

\* Mutant: only a vote sets the limit.
SetAllowance_Keep(voted) ==
    /\ max_allocated' = IF voted THEN max_allocated_voted ELSE max_allocated
    /\ UNCHANGED <<total_allocated, sz, leaked>>

SetAllowance(voted) ==
    /\ max_allocated' = Allowance(voted)
    /\ UNCHANGED <<total_allocated, sz, leaked>>

StartHeap ==
    /\ total_allocated' = 0
    /\ UNCHANGED <<max_allocated, sz, leaked>>

\* sandbox_alloc(), and sandbox_realloc() of NULL.
Alloc(p, size) ==
    /\ sz[p] = 0
    /\ total_allocated + size <= max_allocated
    /\ sz' = [sz EXCEPT ![p] = size]
    /\ total_allocated' = total_allocated + size
    /\ UNCHANGED <<max_allocated, leaked>>

\* Mutant: the header keeps the old size.
Realloc_OldHeader(p, size) ==
    /\ p \in Live
    /\ total_allocated - sz[p] + size <= max_allocated
    /\ total_allocated' = (total_allocated - sz[p]) + size
    /\ UNCHANGED <<max_allocated, sz, leaked>>

\* sandbox_realloc() of a block; its address is a detail.
Realloc(p, size) ==
    /\ p \in Live
    /\ total_allocated - sz[p] + size <= max_allocated
    /\ sz' = [sz EXCEPT ![p] = size]
    /\ total_allocated' = (total_allocated - sz[p]) + size
    /\ UNCHANGED <<max_allocated, leaked>>

\* sandbox_free(), and sandbox_realloc() to size 0.
Release(p) ==
    /\ p \in Live
    /\ sz' = [sz EXCEPT ![p] = 0]
    /\ total_allocated' = total_allocated - sz[p]
    /\ UNCHANGED <<max_allocated, leaked>>

\* duk_destroy_heap() frees every block.
DestroyHeap ==
    /\ sz' = [p \in Blocks |-> IF p \in Live THEN 0 ELSE sz[p]]
    /\ total_allocated' = total_allocated - Held
    /\ UNCHANGED <<max_allocated, leaked>>

\* sandbox_fatal() throws: nothing destroys the heap.
GiveUpHeap ==
    /\ total_allocated' = 0
    /\ leaked' = leaked \cup Live
    /\ UNCHANGED <<max_allocated, sz>>
=============================================================================
