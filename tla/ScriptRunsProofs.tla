-------------------------- MODULE ScriptRunsProofs ---------------------------
(***************************************************************************)
(* Proofs about whole runs, for any number of threads, edits and blocks.   *)
(*                                                                         *)
(* A run with its heap is still a run of ScriptCache (RunsImplementCache), *)
(* so what ScriptCacheProofs shows of the cache holds here too.  That the  *)
(* allowance of one run never serves another needs the mutex: whoever is   *)
(* past the lookup is alone, and its limit is the one it set (Allowed).    *)
(* That total_allocated is what the current heap holds needs that the heap *)
(* has finitely many blocks and is never given one that leaked (Kept).     *)
(***************************************************************************)
EXTENDS ScriptRuns, ScriptCacheProofs, FiniteLemmas

\* Past the lookup, the global limit is that of the run in progress.
Allowed ==
    \A r \in Runners :
        pc[r] \in {"source", "clean", "execute", "end"} => max_allocated = Allowance(granted)

\* A heap belongs to a run that is past the lookup, and stays below its limit.
HeapInUse ==
    heap => /\ \E r \in Runners : pc[r] \in {"execute", "end"}
            /\ total_allocated \in Int
            /\ total_allocated <= Allowance(granted)

Headers == sz \in [Blocks -> 0..MaxSize]

RunsInv == Inv /\ Allowed /\ HeapInUse /\ Headers

(* Every behaviour of whole runs is one of ScriptCache: the heap, the
   allowances and the votes decide only when a step is taken. *)
THEOREM RunsImplementCache == RunsSpec => Spec
<1>1. RunsInit => Init
  BY DEF RunsInit
<1>2. [RunsNext]_runVars => [Next]_vars
  BY DEF RunsNext, runVars, Next, Vote, Prepare, Refuse, CreateHeap, Memory, Call, Return,
         Fatal, Reboot, ReloadLibrary
<1> QED
  BY <1>1, <1>2, PTL DEF RunsSpec, Spec

LEMMA InitRuns == RunsInit => RunsInv
<1>1. RunsInit => Inv
  BY InitInv DEF RunsInit
<1>2. RunsInit => Allowed /\ HeapInUse /\ Headers
  BY SandboxAssumption DEF RunsInit, Init, SandboxInit, Allowed, HeapInUse, Headers
<1> QED
  BY <1>1, <1>2 DEF RunsInv

LEMMA StepRuns ==
  ASSUME RunsInv, [RunsNext]_runVars
  PROVE  RunsInv'
<1>0. Inv'
  <2>1. [Next]_vars
    BY DEF RunsNext, runVars, Next, Vote, Prepare, Refuse, CreateHeap, Memory, Call, Return,
           Fatal, Reboot, ReloadLibrary
  <2> QED
    BY <2>1, StepInv DEF RunsInv
<1> USE SandboxAssumption, ScriptCacheAssumption
    DEF RunsInv, Inv, TypeOK, Locked, Allowed, HeapInUse, Headers, vars, sandbox, Goto
<1>1. CASE UNCHANGED <<pc, sandbox, granted, heap>>
  BY <1>0, <1>1
<1>2. ASSUME NEW r \in Runners, Enter(r) \/ Source(r) \/ Clean(r),
             UNCHANGED <<sandbox, voted, granted, heap>>
      PROVE  RunsInv'
  BY <1>0, <1>2 DEF Enter, Source, Clean
<1>3. ASSUME NEW r \in Runners, Prepare(r)
      PROVE  RunsInv'
  <2>1. heap = FALSE \/ \E q \in Runners : pc[q] \in {"execute", "end"} /\ q = r
    BY <1>3 DEF Prepare, Find
  <2>2. ~heap' /\ max_allocated' = Allowance(granted)'
    BY <1>3, <2>1 DEF Prepare, Find, SetAllowance, Allowance
  <2>3. Headers'
    BY <1>3 DEF Prepare, SetAllowance
  <2> QED
    BY <1>0, <2>2, <2>3
<1>4. ASSUME NEW r \in Runners, Refuse(r)
      PROVE  RunsInv'
  BY <1>0, <1>4 DEF Refuse, Leave
<1>5. ASSUME NEW r \in Runners, CreateHeap(r)
      PROVE  RunsInv'
  BY <1>0, <1>5 DEF CreateHeap, StartHeap, Allowance
<1>6. ASSUME NEW r \in Runners, Memory(r)
      PROVE  RunsInv'
  <2>1. max_allocated = Allowance(granted) /\ UNCHANGED <<pc, granted, heap, max_allocated>>
    BY <1>6 DEF Memory, Release, Alloc, Realloc
  <2>2. Headers' /\ total_allocated' \in Int /\ total_allocated' <= max_allocated
    <3>1. ASSUME NEW p \in Blocks, Release(p)
          PROVE  Headers' /\ total_allocated' \in Int /\ total_allocated' <= max_allocated
      BY <1>6, <2>1, <3>1 DEF Memory, Release, Allowance
    <3>2. ASSUME NEW p \in Blocks, NEW size \in Sizes, Alloc(p, size) \/ Realloc(p, size)
          PROVE  Headers' /\ total_allocated' \in Int /\ total_allocated' <= max_allocated
      BY <1>6, <3>2 DEF Memory, Alloc, Realloc, Sizes
    <3> QED
      BY <1>6, <3>1, <3>2 DEF Memory
  <2> QED
    BY <1>0, <1>6, <2>1, <2>2 DEF Memory, Allowance
<1>7. ASSUME NEW r \in Runners, Call(r)
      PROVE  RunsInv'
  BY <1>0, <1>7 DEF Call, Execute
<1>8. ASSUME NEW r \in Runners, Return(r) \/ Fatal(r)
      PROVE  RunsInv'
  BY <1>0, <1>8 DEF Return, Fatal, Leave, DestroyHeap, GiveUpHeap
<1>9. CASE Reboot \/ ReloadLibrary
  BY <1>0, <1>9 DEF Reboot, Restart, ReloadLibrary, Reload
<1> QED
  BY <1>1, <1>2, <1>3, <1>4, <1>5, <1>6, <1>7, <1>8, <1>9
  DEF RunsNext, Vote, Edit, runVars

THEOREM RunsInvariant == RunsSpec => []RunsInv
  BY InitRuns, StepRuns, PTL DEF RunsSpec

(* Votes come and go, runs fail, heaps are given up and the library is
   reloaded: no run uses more memory than its own guild's vote allows. *)
THEOREM RunsStayWithinAllowance == RunsSpec => []WithinAllowance
<1>1. RunsInv => WithinAllowance
  BY DEF RunsInv, HeapInUse, WithinAllowance
<1> QED
  BY <1>1, RunsInvariant, PTL

(* The flag of an edit is honoured by whole runs. *)
THEOREM RunsHonourFlag == RunsSpec => []FlaggedEditRuns
  BY RunsImplementCache, FlagIsHonoured, PTL

(* No whole run executes an older version than a run before it did. *)
THEOREM RunsOnlyAdvance == RunsSpec => NeverBackwards
  BY RunsImplementCache, VersionsOnlyAdvance, PTL
(* Nor does a whole run lose an edit that is not saved between its queries. *)
THEOREM RunsKeepFlagTrue == RunsSpec /\ NoEditBeforeClean => []CleanMeansCurrent
  BY RunsImplementCache, FlagIsTrueOutsideWindow, PTL
-----------------------------------------------------------------------------
(* The accounting. *)

\* A block that a heap left behind is never handed out again, and the memory
\* of the current heap is a finite number of blocks.
Kept ==
    /\ IsFiniteSet(Live)
    /\ \A p \in leaked : sz[p] # 0

Exact == RunsTypeOK /\ Kept /\ AccountingExact

(* The sum that Sandbox states is the one that FiniteLemmas is about. *)
LEMMA HeldIsTotal == Held = Total(sz, Live) /\ Held' = Total(sz', Live')
<1>1. Held = Total(sz, Live)
  BY DEF Held, Total
<1>2. (Held = Total(sz, Live))'
  BY <1>1, PTL
<1> QED
  BY <1>1, <1>2

(* What the current heap holds is a number. *)
LEMMA HeldType ==
    ASSUME Headers, IsFiniteSet(Live)
    PROVE  Held \in Int
<1>1. Held = Total(sz, Live)
  BY HeldIsTotal
<1>2. \A x \in Live : sz[x] \in Int
  BY DEF Headers, Live
<1> QED
  BY <1>1, <1>2, TotalType

(* A new header changes what the heap holds by the difference of the sizes,
   whether it makes, changes or frees the block. *)
LEMMA HeldChanges ==
    ASSUME Headers, IsFiniteSet(Live), NEW p \in Blocks \ leaked, NEW size \in 0..MaxSize,
           sz' = [sz EXCEPT ![p] = size], leaked' = leaked
    PROVE  IsFiniteSet(Live') /\ Held' = (Held - sz[p]) + size
<1> DEFINE S == Live \cup {p}
<1>0. Held = Total(sz, Live) /\ Held' = Total(sz', Live')
  BY HeldIsTotal
<1>1. /\ \A x \in S : sz[x] \in Int /\ sz'[x] \in Int
      /\ sz'[p] = size /\ sz[p] \in 0..MaxSize /\ size \in Int
      /\ \A x \in S \ {p} : sz'[x] = sz[x]
  BY SandboxAssumption DEF Headers, Live
<1>2. /\ Live = S \/ (sz[p] = 0 /\ Live = S \ {p})
      /\ Live' = S \/ (sz'[p] = 0 /\ Live' = S \ {p})
  BY SandboxAssumption DEF Headers, Live
<1>3. IsFiniteSet(S) /\ IsFiniteSet(S \ {p})
  BY FS_AddElement, FS_RemoveElement
<1> HIDE DEF S
<1>4. p \in S
  BY DEF S
<1>5. /\ Total(sz, S) = sz[p] + Total(sz, S \ {p})
      /\ Total(sz', S) = sz'[p] + Total(sz', S \ {p})
  BY <1>1, <1>3, <1>4, TotalWithout
<1>6. Total(sz, S \ {p}) = Total(sz', S \ {p}) /\ Total(sz, S \ {p}) \in Int
  <2>1. Total(sz', S \ {p}) = Total(sz, S \ {p})
    BY <1>1, <1>3, TotalAgrees
  <2>2. Total(sz, S \ {p}) \in Int
    BY <1>1, <1>3, TotalType
  <2> QED
    BY <2>1, <2>2
<1>7. /\ Held = Total(sz, S) \/ (sz[p] = 0 /\ Held = Total(sz, S \ {p}))
      /\ Held' = Total(sz', S) \/ (sz'[p] = 0 /\ Held' = Total(sz', S \ {p}))
  BY <1>0, <1>2, Zenon
<1>8. IsFiniteSet(Live')
  BY <1>2, <1>3, Zenon
<1>9. Held' = (Held - sz[p]) + size
  <2> DEFINE rest == Total(sz, S \ {p})
  <2>1. Held = sz[p] + rest /\ Held' = size + rest
    BY <1>1, <1>5, <1>6, <1>7
  <2> HIDE DEF rest
  <2> QED
    BY <1>1, <1>6, <2>1 DEF rest
<1> QED
  BY <1>8, <1>9

(* No block is taken before the first run. *)
LEMMA InitExact == RunsInit => Exact
<1> SUFFICES ASSUME RunsInit PROVE Exact
  OBVIOUS
<1>1. Live = {}
  BY SandboxAssumption DEF RunsInit, SandboxInit, Live
<1>2. TypeOK
  BY InitInv DEF RunsInit, Inv
<1>3. SandboxTypeOK
  BY SandboxAssumption DEF RunsInit, SandboxInit, SandboxTypeOK
<1>4. RunsTypeOK
  BY <1>2, <1>3 DEF RunsInit, RunsTypeOK
<1>5. Kept
  BY <1>1, FS_EmptySet DEF RunsInit, SandboxInit, Kept
<1>6. AccountingExact
  BY <1>1 DEF RunsInit, AccountingExact
<1> QED
  BY <1>4, <1>5, <1>6 DEF Exact

(* Each call of the allocator changes the total as it changes the headers,
   and a heap begins with none and an empty total. *)
LEMMA StepExact ==
  ASSUME RunsInv, RunsInv', Exact, [RunsNext]_runVars
  PROVE  Exact'
<1>0. TypeOK' /\ Headers'
  BY DEF RunsInv, Inv
<1>a. Held \in Int /\ IsFiniteSet(Live) /\ Headers
  BY HeldType DEF Exact, Kept, RunsInv
\* Steps that leave the memory alone.
<1>b. ASSUME UNCHANGED <<sz, leaked, total_allocated, heap>>,
             max_allocated' \in {max_allocated_unvoted, max_allocated_voted},
             voted' \in BOOLEAN, granted' \in BOOLEAN
      PROVE  Exact'
  <2>1. Live' = Live /\ Held' = Held
    <3>1. Live' = Live
      BY <1>b DEF Live
    <3> QED
      BY <1>b, <3>1, HeldIsTotal
  <2> QED
    BY <1>0, <1>b, <2>1
    DEF Exact, Kept, AccountingExact, RunsTypeOK, SandboxTypeOK
\* Steps after which there is no heap and no block of one.
<1> DEFINE OthersTyped ==
      /\ leaked' \in SUBSET Blocks
      /\ max_allocated' \in {max_allocated_unvoted, max_allocated_voted}
      /\ UNCHANGED <<voted, granted>>
<1>c. ASSUME heap' = FALSE, Live' = {}, total_allocated' \in Int,
             \A p \in leaked' : sz'[p] # 0, OthersTyped
      PROVE  Exact'
  BY <1>0, <1>c, FS_EmptySet
  DEF Exact, Kept, AccountingExact, RunsTypeOK, SandboxTypeOK, Headers
<1> USE DEF Exact, RunsTypeOK, SandboxTypeOK, sandbox, vars
<1>1. CASE Vote
  BY <1>1, <1>b DEF Vote
<1>2. CASE UNCHANGED <<sandbox, voted, granted, heap>>
  BY <1>2, <1>b
<1>3. ASSUME NEW r \in Runners, Prepare(r)
      PROVE  Exact'
  BY <1>3, <1>b DEF Prepare, SetAllowance, Allowance
<1>4. ASSUME NEW r \in Runners, CreateHeap(r)
      PROVE  Exact'
  <2>1. Live' = Live /\ Live = {}
    BY <1>4 DEF CreateHeap, StartHeap, AccountingExact, Live
  <2>2. Held' = 0
    BY <2>1, HeldIsTotal, TotalOfNothing
  <2> QED
    BY <1>0, <1>4, <2>1, <2>2 DEF CreateHeap, StartHeap, Kept, AccountingExact
<1>5. ASSUME NEW r \in Runners, Memory(r)
      PROVE  Exact'
  <2>1. heap /\ total_allocated = Held /\ UNCHANGED <<voted, granted, heap>>
    BY <1>5 DEF Memory, AccountingExact
  <2>2. ASSUME NEW p \in Blocks \ leaked, NEW size \in 0..MaxSize,
               sz' = [sz EXCEPT ![p] = size], UNCHANGED <<leaked, max_allocated>>,
               total_allocated' = (total_allocated - sz[p]) + size
        PROVE  Exact'
    <3>1. IsFiniteSet(Live') /\ Held' = (Held - sz[p]) + size
      BY <1>a, <2>2, HeldChanges
    <3>2. \A q \in leaked' : sz'[q] # 0
      BY <1>a, <2>2 DEF Kept, Headers
    <3>3. total_allocated' = Held' /\ total_allocated' \in Int
      BY <1>a, <2>1, <2>2, <3>1, SandboxAssumption DEF Headers
    <3> QED
      BY <1>0, <2>1, <2>2, <3>1, <3>2, <3>3 DEF Kept, AccountingExact, Headers
  <2>3. ASSUME NEW p \in Blocks, Release(p)
        PROVE  Exact'
    <3>1. sz[p] \in Int /\ 0 \in 0..MaxSize
      BY <1>a, SandboxAssumption DEF Headers
    <3>2. total_allocated' = (total_allocated - sz[p]) + 0
      BY <2>3, <3>1 DEF Release
    <3> QED
      BY <2>2, <2>3, <3>1, <3>2 DEF Release, Live
  <2>4. ASSUME NEW p \in Blocks, NEW size \in Sizes, Alloc(p, size)
        PROVE  Exact'
    <3>1. size \in 0..MaxSize /\ p \notin leaked
      BY <2>4, SandboxAssumption DEF Alloc, Sizes, Kept
    <3>2. total_allocated' = (total_allocated - sz[p]) + size
      BY <2>4, <3>1 DEF Alloc
    <3> QED
      BY <2>2, <2>4, <3>1, <3>2 DEF Alloc
  <2>5. ASSUME NEW p \in Blocks, NEW size \in Sizes, Realloc(p, size)
        PROVE  Exact'
    <3>1. size \in 0..MaxSize
      BY SandboxAssumption DEF Sizes
    <3> QED
      BY <2>2, <2>5, <3>1 DEF Realloc, Live
  <2> QED
    BY <1>5, <2>3, <2>4, <2>5 DEF Memory
<1>6. ASSUME NEW r \in Runners, Return(r)
      PROVE  Exact'
  <2>1. Live' = {} /\ \A p \in leaked' : sz'[p] # 0
    BY <1>6, <1>a DEF Return, DestroyHeap, Live, Kept, Headers
  <2>2. heap' = FALSE /\ total_allocated' \in Int /\ OthersTyped
    BY <1>6, <1>a DEF Return, DestroyHeap
  <2> QED
    BY <1>c, <2>1, <2>2, Zenon
<1>7. ASSUME NEW r \in Runners, Fatal(r)
      PROVE  Exact'
  <2>1. Live' = {} /\ \A p \in leaked' : sz'[p] # 0
    BY <1>7, <1>a DEF Fatal, GiveUpHeap, Live, Kept, Headers
  <2>2. heap' = FALSE /\ total_allocated' \in Int /\ OthersTyped
    BY <1>7 DEF Fatal, GiveUpHeap, Live
  <2> QED
    BY <1>c, <2>1, <2>2, Zenon
<1>8. CASE Reboot
  <2>1. Live' = {} /\ \A p \in leaked' : sz'[p] # 0
    BY <1>8 DEF Reboot, Live
  <2>2. heap' = FALSE /\ total_allocated' \in Int /\ OthersTyped
    BY <1>8 DEF Reboot
  <2> QED
    BY <1>c, <2>1, <2>2, Zenon
<1>9. CASE ReloadLibrary
  <2>1. ~heap
    BY <1>9 DEF ReloadLibrary, Reload, RunsInv, HeapInUse
  <2>2. Live' = {} /\ \A p \in leaked' : sz'[p] # 0
    BY <1>9, <2>1 DEF ReloadLibrary, Live, Kept, AccountingExact
  <2>3. heap' = FALSE /\ total_allocated' \in Int /\ OthersTyped
    BY <1>9, <2>1 DEF ReloadLibrary
  <2> QED
    BY <1>c, <2>2, <2>3, Zenon
<1> QED
  BY <1>1, <1>2, <1>3, <1>4, <1>5, <1>6, <1>7, <1>8, <1>9
  DEF RunsNext, Refuse, Call, runVars

(* The accounting holds of every reachable state. *)
LEMMA ExactInvariant == RunsSpec => []Exact
BY InitExact, StepExact, RunsInvariant, PTL DEF RunsSpec

(* The variables of whole runs keep their types, the allocator's included:
   total_allocated stays a number through every free and every heap. *)
THEOREM RunsTypes == RunsSpec => []RunsTypeOK
<1>1. Exact => RunsTypeOK
  BY DEF Exact
<1> QED
  BY <1>1, ExactInvariant, PTL

(* Whatever a script allocates, resizes and frees, however its run ends and
   however many heaps were given up before it, the sum that is compared with
   the limit is what the heap really holds. *)
THEOREM AccountingIsExact == RunsSpec => []AccountingExact
<1>1. Exact => AccountingExact
  BY DEF Exact
<1> QED
  BY <1>1, ExactInvariant, PTL
=============================================================================
