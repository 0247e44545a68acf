-------------------------- MODULE ScriptCacheProofs --------------------------
(***************************************************************************)
(* Proofs about ScriptCache, for any number of threads and edits.          *)
(***************************************************************************)
EXTENDS ScriptCache, TLAPS

(* A thread that is anywhere in run() holds the mutex. *)
Locked == \A r \in Runners : pc[r] # "idle" => jsmutex = r

(* Nothing is newer than the row, and the bot's copy is at least as new as
   anything it executed. *)
Ages ==
    /\ executed <= script
    /\ code # None => executed <= code /\ code <= script
    /\ \A r \in Runners : wanted[r] <= script

(* Inside run(): before the lookup the flag that was seen is still up, since
   only the holder of the mutex lowers it; after it the program to execute is
   the cached one. *)
Inside ==
    \A r \in Runners :
        /\ pc[r] = "find" => dirty \/ wanted[r] = 0
        /\ pc[r] \in {"clean", "execute", "end"} => code # None /\ v[r] = code
        /\ pc[r] \in {"clean", "execute"} => v[r] >= wanted[r]

Inv == TypeOK /\ Locked /\ Ages /\ Inside

LEMMA InitInv == Init => Inv
BY ScriptCacheAssumption DEF Init, Inv, TypeOK, Locked, Ages, Inside, Versions

(* Every step keeps the invariant and executes nothing older than before. *)
LEMMA StepInv ==
    ASSUME Inv, [Next]_vars
    PROVE  Inv' /\ executed' >= executed
<1> USE ScriptCacheAssumption DEF Inv, Versions
<1>1. CASE Edit
  BY <1>1 DEF Edit, TypeOK, Locked, Ages, Inside
<1>2. ASSUME NEW r \in Runners, Enter(r) PROVE Inv' /\ executed' >= executed
  BY <1>2 DEF Enter, Goto, TypeOK, Locked, Ages, Inside
<1>3. ASSUME NEW r \in Runners, Find(r) PROVE Inv' /\ executed' >= executed
  BY <1>3 DEF Find, Goto, TypeOK, Locked, Ages, Inside
<1>4. ASSUME NEW r \in Runners, Source(r) PROVE Inv' /\ executed' >= executed
  BY <1>4 DEF Source, Goto, TypeOK, Locked, Ages, Inside
<1>5. ASSUME NEW r \in Runners, Clean(r) PROVE Inv' /\ executed' >= executed
  <2>1. TypeOK'
    BY <1>5 DEF Clean, Goto, TypeOK
  <2>4. Locked'
    BY <1>5 DEF Clean, Goto, TypeOK, Locked
  <2>5. Ages' /\ executed' >= executed
    BY <1>5 DEF Clean, Goto, TypeOK, Ages
  <2>2. \A q \in Runners : q # r => pc'[q] = "idle"
    BY <1>5 DEF Clean, Goto, TypeOK, Locked
  <2>3. Inside'
    BY <1>5, <2>2 DEF Clean, Goto, TypeOK, Inside
  <2> QED BY <2>1, <2>3, <2>4, <2>5
<1>6. ASSUME NEW r \in Runners, Execute(r) PROVE Inv' /\ executed' >= executed
  BY <1>6 DEF Execute, Goto, TypeOK, Locked, Ages, Inside
<1>7. ASSUME NEW r \in Runners, Leave(r) PROVE Inv' /\ executed' >= executed
  BY <1>7 DEF Leave, Goto, TypeOK, Locked, Ages, Inside
<1>8. CASE Restart
  BY <1>8 DEF Restart, TypeOK, Locked, Ages, Inside
<1>9. CASE Reload
  BY <1>9 DEF Reload, TypeOK, Locked, Ages, Inside
<1>10. CASE UNCHANGED vars
  BY <1>10 DEF vars, TypeOK, Locked, Ages, Inside
<1> QED
  BY <1>1, <1>2, <1>3, <1>4, <1>5, <1>6, <1>7, <1>8, <1>9, <1>10 DEF Next

THEOREM CacheInvariant == Spec => []Inv
BY InitInv, StepInv, PTL DEF Spec

(* The variables keep their types, whatever the dashboard and the threads do. *)
THEOREM TypeCorrect == Spec => []TypeOK
BY CacheInvariant, PTL DEF Inv

(* A run that finds an edit flagged executes that edit or a later one
   (run() holds jsmutex from the lookup to the call). *)
THEOREM FlagIsHonoured == Spec => []FlaggedEditRuns
<1>1. Inv => FlaggedEditRuns
  BY DEF Inv, Inside, FlaggedEditRuns
<1> QED BY <1>1, CacheInvariant, PTL

(* No run executes an older version than a run before it did, across threads,
   restarts of the process and reloads of the module. *)
THEOREM VersionsOnlyAdvance == Spec => NeverBackwards
<1>1. Inv /\ [Next]_vars => [executed' >= executed]_vars
  BY StepInv
<1> QED BY <1>1, CacheInvariant, PTL DEF Spec, NeverBackwards
-----------------------------------------------------------------------------
(* When the flag tells the truth. *)

(* The dashboard saves nothing while a run is between reading the script and
   clearing the flag. *)
NoEditBeforeClean ==
    [][(\E r \in Runners : pc[r] = "clean") => script' = script]_vars

(* A copy that no flag calls old is the row, and so is the one just read. *)
Current ==
    /\ ~dirty /\ code # None => code = script
    /\ \A r \in Runners : pc[r] = "clean" => code = script

(* Every edit sets the flag, and only the run that read the row resets it. *)
LEMMA StepCurrent ==
    ASSUME Inv, Current, [Next]_vars, (\E r \in Runners : pc[r] = "clean") => script' = script
    PROVE  Current'
<1> USE DEF Inv, TypeOK, Current, Goto
<1>1. CASE Edit
  BY <1>1, ScriptCacheAssumption DEF Edit, Versions
<1>2. ASSUME NEW r \in Runners, Enter(r) \/ Find(r) \/ Execute(r) \/ Leave(r)
      PROVE  Current'
  BY <1>2 DEF Enter, Find, Execute, Leave
<1>3. ASSUME NEW r \in Runners, Source(r)
      PROVE  Current'
  BY <1>3 DEF Source
<1>4. ASSUME NEW r \in Runners, Clean(r)
      PROVE  Current'
  BY <1>4 DEF Clean
<1>5. CASE Restart \/ Reload
  BY <1>5 DEF Restart, Reload
<1>6. CASE UNCHANGED vars
  BY <1>6 DEF vars
<1> QED
  BY <1>1, <1>2, <1>3, <1>4, <1>5, <1>6 DEF Next

(* The lost edit of the run script_lost_edit needs its window: as long as no
   edit is saved between a run's two queries, "Set to 1 if the bot is to
   reload this script" is what the flag says, through restarts and reloads. *)
THEOREM FlagIsTrueOutsideWindow == Spec /\ NoEditBeforeClean => []CleanMeansCurrent
<1>1. Init => Current
  BY DEF Init, Current
<1>2. /\ Inv /\ Current /\ [Next]_vars
      /\ [(\E r \in Runners : pc[r] = "clean") => script' = script]_vars
      => Current'
  <2>1. CASE UNCHANGED vars
    BY <2>1 DEF vars, Current
  <2> QED
    BY <2>1, StepCurrent
<1>3. Current => CleanMeansCurrent
  BY DEF Current, CleanMeansCurrent
<1> QED
  BY <1>1, <1>2, <1>3, CacheInvariant, PTL DEF Spec, NoEditBeforeClean
=============================================================================
