----------------------------- MODULE ScriptCache -----------------------------
(***************************************************************************)
(* Which version of a channel's script JS::run() executes                  *)
(* (src/modules/js/js.cpp, src/src/config.cpp).                            *)
(*                                                                         *)
(* The dashboard, another process, edits infobot_discord_javascript and    *)
(* sets `dirty`; the bot keeps the source in the global map `code` and     *)
(* reads it again when it is not there or `dirty` is set.  Every query is  *)
(* a step of its own: jsmutex keeps other runs out, not the dashboard.     *)
(* A version is the number of edits so far; one channel is modelled, since *)
(* channels share nothing here but the mutex.                              *)
(***************************************************************************)
EXTENDS Integers

CONSTANTS
    Runners,   \* the threads that call run(): the shards and the watcher
    MaxEdits,  \* BOUND: edits of the script
    None,      \* code.end()
    Free       \* jsmutex is not held

Versions == 0..MaxEdits

ASSUME ScriptCacheAssumption ==
    /\ MaxEdits \in Nat
    /\ None \notin Versions
    /\ Free \notin Runners

VARIABLES
    script,   \* the script column: its version
    dirty,    \* the dirty column
    code,     \* code[channel_id]
    jsmutex,  \* its holder or Free
    pc,       \* of each runner
    v,        \* the program each runner will execute
    wanted,   \* history: the edit flagged dirty when the runner took the mutex
    executed  \* history: the version executed last

vars == <<script, dirty, code, jsmutex, pc, v, wanted, executed>>

TypeOK ==
    /\ script \in Versions
    /\ dirty \in BOOLEAN
    /\ code \in Versions \cup {None}
    /\ jsmutex \in Runners \cup {Free}
    /\ pc \in [Runners -> {"idle", "find", "source", "clean", "execute", "end"}]
    /\ v \in [Runners -> Versions]
    /\ wanted \in [Runners -> Versions]
    /\ executed \in Versions

Init ==
    /\ script = 0
    /\ dirty \in BOOLEAN
    /\ code = None
    /\ jsmutex = Free
    /\ pc = [r \in Runners |-> "idle"]
    /\ v = [r \in Runners |-> 0]
    /\ wanted = [r \in Runners |-> 0]
    /\ executed = 0

Goto(r, step) == pc' = [pc EXCEPT ![r] = step]

\* The dashboard saves a script: one UPDATE.
Edit ==
    /\ script < MaxEdits
    /\ script' = script + 1
    /\ dirty' = TRUE
    /\ UNCHANGED <<code, jsmutex, pc, v, wanted, executed>>

\* Mutant: run() takes no lock.
Enter_NoLock(r) ==
    /\ pc[r] = "idle"
    /\ jsmutex' = r
    /\ wanted' = [wanted EXCEPT ![r] = IF dirty THEN script ELSE 0]
    /\ Goto(r, "find")
    /\ UNCHANGED <<script, dirty, code, v, executed>>

Enter(r) ==
    /\ pc[r] = "idle" /\ jsmutex = Free
    /\ jsmutex' = r
    /\ wanted' = [wanted EXCEPT ![r] = IF dirty THEN script ELSE 0]
    /\ Goto(r, "find")
    /\ UNCHANGED <<script, dirty, code, v, executed>>

\* Mutant: the cache is looked up and the flag is not.
Find_IgnoresDirty(r) ==
    /\ pc[r] = "find"
    /\ IF code = None
       THEN Goto(r, "source") /\ v' = v
       ELSE Goto(r, "execute") /\ v' = [v EXCEPT ![r] = code]
    /\ UNCHANGED <<script, dirty, code, jsmutex, wanted, executed>>

\* Mutant: the map's end is not tested.
Find_IgnoresEnd(r) ==
    /\ pc[r] = "find"
    /\ IF dirty
       THEN Goto(r, "source") /\ v' = v
       ELSE Goto(r, "execute") /\ v' = [v EXCEPT ![r] = code]
    /\ UNCHANGED <<script, dirty, code, jsmutex, wanted, executed>>

\* iter == code.end() || getJSConfig("dirty") == "1"
Find(r) ==
    /\ pc[r] = "find"
    /\ IF code = None \/ dirty
       THEN Goto(r, "source") /\ v' = v
       ELSE Goto(r, "execute") /\ v' = [v EXCEPT ![r] = code]
    /\ UNCHANGED <<script, dirty, code, jsmutex, wanted, executed>>

\* getJSConfig("script") and code[channel_id] = v
Source(r) ==
    /\ pc[r] = "source"
    /\ v' = [v EXCEPT ![r] = script]
    /\ code' = script
    /\ Goto(r, "clean")
    /\ UNCHANGED <<script, dirty, jsmutex, wanted, executed>>

\* setJSConfig("dirty", "0")
Clean(r) ==
    /\ pc[r] = "clean"
    /\ dirty' = FALSE
    /\ Goto(r, "execute")
    /\ UNCHANGED <<script, code, jsmutex, v, wanted, executed>>

Execute(r) ==
    /\ pc[r] = "execute"
    /\ executed' = v[r]
    /\ Goto(r, "end")
    /\ UNCHANGED <<script, dirty, code, jsmutex, v, wanted>>

\* The end of the run, or a return before the script is called: no channel or
\* guild in the cache, or the source does not compile.
Leave(r) ==
    /\ pc[r] \in {"find", "execute", "end"}
    /\ jsmutex' = Free
    /\ Goto(r, "idle")
    /\ UNCHANGED <<script, dirty, code, v, wanted, executed>>

\* The process dies anywhere and comes back: `code` is empty, the row is not.
Restart ==
    /\ code' = None
    /\ jsmutex' = Free
    /\ pc' = [r \in Runners |-> "idle"]
    /\ UNCHANGED <<script, dirty, v, wanted, executed>>

\* `sudo reload module_js.so` between runs: dlclose() drops the map.
Reload ==
    /\ \A r \in Runners : pc[r] = "idle"
    /\ code' = None
    /\ UNCHANGED <<script, dirty, jsmutex, pc, v, wanted, executed>>

Next ==
    \/ Edit
    \/ \E r \in Runners :
         Enter(r) \/ Find(r) \/ Source(r) \/ Clean(r) \/ Execute(r) \/ Leave(r)
    \/ Restart
    \/ Reload

Spec == Init /\ [][Next]_vars
-----------------------------------------------------------------------------
(* Once a version of the script has run, no older one runs again: not on
   another thread, not after a restart or a reload of the module. *)
NeverBackwards == [][executed' >= executed]_vars

(* A run that finds the edit already flagged when it takes the mutex
   executes that edit or a later one. *)
FlaggedEditRuns ==
    \A r \in Runners : pc[r] = "execute" => v[r] >= wanted[r]

(* "Set to 1 if the bot is to reload this script" (the column's comment):
   the flag of an edit is down, between runs, only when the bot's copy is
   that edit.  The code clears a flag raised since it read the script. *)
CleanMeansCurrent ==
    jsmutex = Free /\ ~dirty /\ code # None => code = script
=============================================================================
