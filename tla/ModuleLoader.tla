---------------------------- MODULE ModuleLoader ----------------------------
(***************************************************************************)
(* The module loader (src/src/modules.cpp), the event dispatch macro       *)
(* FOREACH_MOD (src/include/sporks/modules.h) and the `sudo` commands of   *)
(* the diagnostics module that load and unload modules while other         *)
(* threads are dispatching events.                                         *)
(*                                                                         *)
(* An object is the Module instance one successful init_module() returned. *)
(* FOREACH_MOD holds ModuleLoader::mtx only while it copies the handler    *)
(* list; Load() and Unload() hold it for their whole body.  Load() does    *)
(* not wait for anything inside and is one step; Unload() runs a           *)
(* destructor that may join threads, so it is two.  Leaving the process    *)
(* (exit(0), a fault, an uncaught exception) and run.sh starting the next  *)
(* one is the single step Restart.                                         *)
(***************************************************************************)
EXTENDS Integers, Sequences, FiniteSets, Functions

CONSTANTS
    Files,      \* names of shared objects that config.json or the owner can give
    Diag,       \* "module_diagnostics.so"
    Events,     \* the I_On... events
    Message,    \* I_OnMessage
    Threads,    \* threads that dispatch: the D++ shards and the presence thread
    EventsOn,   \* EventsOn[t]: the events thread t delivers
    AttachedBy, \* AttachedBy[f]: the events f's constructor passes to Attach()
    Config,     \* the "modules" array of config.json, in order
    Broken,     \* files that dlopen(), dlsym() or init_module() fails on
    Throwing,   \* files whose constructor may throw after its Attach()
    MaxObjects, \* BOUND: objects one process constructs; past it dlopen() fails
    NoObject,   \* not an object
    Free        \* mtx is not held

Object == [file : Files, serial : 1..MaxObjects]

ASSUME LoaderAssumption ==
    /\ Diag \in Files
    /\ Message \in Events
    /\ EventsOn \in [Threads -> SUBSET Events]
    /\ AttachedBy \in [Files -> SUBSET Events]
    /\ Config \in Seq(Files)
    /\ Broken \subseteq Files
    /\ Throwing \subseteq Files
    /\ MaxObjects \in Nat
    /\ NoObject \notin Object
    /\ Free \notin Threads

VARIABLES
    modules,       \* ModuleLoader::Modules, by file
    moduleList,    \* ModuleLoader::ModuleList, read without the mutex
    eventHandlers, \* ModuleLoader::EventHandlers
    lasterror,     \* ModuleLoader::lasterror
    mtx,           \* ModuleLoader::mtx: its holder or Free
    alive,         \* objects whose memory and code are still there
    serial,        \* objects constructed by this process
    boot,          \* the entry of Config that LoadAll() loads next
    pc,            \* where each thread is
    ev,            \* the event it is dispatching
    queue,         \* what is left of its list_to_call; the head is being called
    cmd            \* its sudo command: [op, file, targets]

loader  == <<modules, moduleList, eventHandlers, lasterror, alive, serial>>
threads == <<pc, ev, queue, cmd>>
vars    == <<loader, mtx, boot, threads>>

Errors == {"", "Module is not loaded", "Module already loaded!", "Can't load"}
Ops    == {"none", "load", "unload", "reload", "modules"}
Steps  == {"idle", "wait", "calling", "handling", "load", "unload", "dtor",
           "listing", "reply"}

NoCommand == [op |-> "none", file |-> Diag, targets |-> {}]

TypeOK ==
    /\ modules \in [Files -> Object \cup {NoObject}]
    /\ moduleList \in [Files -> Object \cup {NoObject}]
    /\ eventHandlers \in [Events -> Seq(Object)]
    /\ lasterror \in Errors
    /\ mtx \in Threads \cup {Free}
    /\ alive \in SUBSET Object
    /\ serial \in 0..MaxObjects
    /\ boot \in 1..(Len(Config) + 1)
    /\ pc \in [Threads -> Steps]
    /\ ev \in [Threads -> Events]
    /\ queue \in [Threads -> Seq(Object)]
    /\ cmd \in [Threads -> [op : Ops, file : Files, targets : SUBSET Object]]

(* A new process: LoadAll() has not run and no thread dispatches yet. *)
Init ==
    /\ modules = [f \in Files |-> NoObject]
    /\ moduleList = [f \in Files |-> NoObject]
    /\ eventHandlers = [e \in Events |-> <<>>]
    /\ lasterror = ""
    /\ mtx = Free
    /\ alive = {}
    /\ serial = 0
    /\ boot = 1
    /\ pc = [t \in Threads |-> "idle"]
    /\ ev = [t \in Threads |-> Message]
    /\ queue = [t \in Threads |-> <<>>]
    /\ cmd = [t \in Threads |-> NoCommand]

Restart ==
    /\ modules' = [f \in Files |-> NoObject]
    /\ moduleList' = [f \in Files |-> NoObject]
    /\ eventHandlers' = [e \in Events |-> <<>>]
    /\ lasterror' = ""
    /\ mtx' = Free
    /\ alive' = {}
    /\ serial' = 0
    /\ boot' = 1
    /\ pc' = [t \in Threads |-> "idle"]
    /\ ev' = [t \in Threads |-> Message]
    /\ queue' = [t \in Threads |-> <<>>]
    /\ cmd' = [t \in Threads |-> NoCommand]

Booted == boot > Len(Config)
-----------------------------------------------------------------------------
(* The operations of the loader. *)

\* Mutant: a new handler goes to the front of the list.
Attach_Front(h, o) ==
    [e \in Events |-> IF e \in AttachedBy[o.file] THEN <<o>> \o h[e] ELSE h[e]]

\* Attach(): o is appended to the list of each event it asks for, once.
Attach(h, o) ==
    [e \in Events |-> IF e \in AttachedBy[o.file] /\ o \notin Range(h[e])
                      THEN Append(h[e], o) ELSE h[e]]

Without(s, i) == [j \in 1..(Len(s) - 1) |-> IF j < i THEN s[j] ELSE s[j + 1]]

\* std::find and erase: the first occurrence of o goes.
EraseFirst(s, o) ==
    IF o \in Range(s)
    THEN Without(s, CHOOSE i \in DOMAIN s :
                       s[i] = o /\ \A k \in DOMAIN s : k < i => s[k] # o)
    ELSE s

\* Mutant: the loop over I_BEGIN..I_END misses the first event.
DetachAll_SkipsMessage(h, o) ==
    [e \in Events |-> IF e = Message THEN h[e] ELSE EraseFirst(h[e], o)]

\* Unload()'s loop over every event.
DetachAll(h, o) == [e \in Events |-> EraseFirst(h[e], o)]

NextObject(f) == [file |-> f, serial |-> serial + 1]
CanConstruct(f) == modules[f] = NoObject /\ f \notin Broken /\ serial < MaxObjects

LoadSucceeds(f) ==
    /\ CanConstruct(f)
    /\ eventHandlers' = Attach(eventHandlers, NextObject(f))
    /\ modules' = [modules EXCEPT ![f] = NextObject(f)]
    /\ moduleList' = [moduleList EXCEPT ![f] = NextObject(f)]
    /\ alive' = alive \cup {NextObject(f)}
    /\ serial' = serial + 1
    /\ lasterror' = ""

LoadFails(f) ==
    /\ ~CanConstruct(f)
    /\ lasterror' = IF modules[f] # NoObject THEN "Module already loaded!" ELSE "Can't load"
    /\ UNCHANGED <<modules, moduleList, eventHandlers, alive, serial>>

\* The constructor throws after Attach(): the object is gone, its handlers stay.
LoadThrows(f) ==
    /\ CanConstruct(f) /\ f \in Throwing
    /\ eventHandlers' = Attach(eventHandlers, NextObject(f))
    /\ serial' = serial + 1
    /\ UNCHANGED <<modules, moduleList, alive, lasterror>>
-----------------------------------------------------------------------------
(* Start-up: LoadAll() in the constructor of Bot, before any thread exists. *)

BootLoad ==
    /\ ~Booted
    /\ LoadSucceeds(Config[boot]) \/ LoadFails(Config[boot])
    /\ boot' = boot + 1
    /\ UNCHANGED <<mtx, threads>>

\* An exception in the constructor of Bot ends the process.
BootThrows ==
    /\ ~Booted
    /\ CanConstruct(Config[boot]) /\ Config[boot] \in Throwing
    /\ Restart
-----------------------------------------------------------------------------
(* FOREACH_MOD in thread t. *)

Receive(t, e) ==
    /\ Booted
    /\ pc[t] = "idle"
    /\ e \in EventsOn[t]
    /\ pc' = [pc EXCEPT ![t] = "wait"]
    /\ ev' = [ev EXCEPT ![t] = e]
    /\ UNCHANGED <<loader, mtx, boot, queue, cmd>>

\* Mutant: the lock is kept for the whole loop, as the macro's NOTE has it.
CopyHandlers_KeepsLock(t) ==
    /\ pc[t] = "wait" /\ mtx = Free
    /\ queue' = [queue EXCEPT ![t] = eventHandlers[ev[t]]]
    /\ pc' = [pc EXCEPT ![t] = "calling"]
    /\ mtx' = t
    /\ UNCHANGED <<loader, boot, ev, cmd>>

\* list_to_call is copied under the mutex, which is released before the calls.
CopyHandlers(t) ==
    /\ pc[t] = "wait" /\ mtx = Free
    /\ queue' = [queue EXCEPT ![t] = eventHandlers[ev[t]]]
    /\ pc' = [pc EXCEPT ![t] = "calling"]
    /\ UNCHANGED <<loader, mtx, boot, ev, cmd>>

CallHandler(t) ==
    /\ pc[t] = "calling" /\ queue[t] # <<>>
    /\ pc' = [pc EXCEPT ![t] = "handling"]
    /\ UNCHANGED <<loader, mtx, boot, ev, queue, cmd>>

\* The handler returned true, or threw a std::exception that the macro caught.
NextHandler(t) ==
    /\ pc[t] = "handling"
    /\ queue' = [queue EXCEPT ![t] = Tail(@)]
    /\ pc' = [pc EXCEPT ![t] = "calling"]
    /\ UNCHANGED <<loader, mtx, boot, ev, cmd>>

Finish(t) ==
    /\ queue' = [queue EXCEPT ![t] = <<>>]
    /\ pc' = [pc EXCEPT ![t] = "idle"]
    /\ cmd' = [cmd EXCEPT ![t] = NoCommand]
    /\ UNCHANGED <<loader, mtx, boot, ev>>

\* The handler returned false: only OnMessage handlers ever do.
EatEvent(t) == pc[t] = "handling" /\ ev[t] = Message /\ Finish(t)

EndOfList(t) == pc[t] = "calling" /\ queue[t] = <<>> /\ Finish(t)
-----------------------------------------------------------------------------
(* The owner's sudo commands, inside the OnMessage handler of diagnostics. *)

\* Mutant: the refusal was written for "sudo unload" and forgotten for "sudo reload".
Refused_ReloadForgotten(op, f) == op = "unload" /\ f = Diag

\* "I'm sorry. can't do that, dave."
Refused(op, f) == op \in {"unload", "reload"} /\ f = Diag

FirstStep(op) == CASE op = "load" -> "load"
                   [] op = "unload" -> "unload"
                   [] op = "reload" -> "unload"
                   [] op = "modules" -> "listing"

Loaded(ml) == {ml[f] : f \in Files} \ {NoObject}

\* A refused command is an EatEvent.
Sudo(t, op, f) ==
    /\ pc[t] = "handling" /\ ev[t] = Message /\ Head(queue[t]).file = Diag
    /\ ~Refused(op, f)
    /\ pc' = [pc EXCEPT ![t] = FirstStep(op)]
    /\ cmd' = [cmd EXCEPT ![t] =
                 [op |-> op, file |-> f,
                  targets |-> IF op = "modules" THEN Loaded(moduleList) ELSE {}]]
    /\ UNCHANGED <<loader, mtx, boot, ev, queue>>

SudoRestart(t) ==
    /\ pc[t] = "handling" /\ ev[t] = Message /\ Head(queue[t]).file = Diag
    /\ Restart

Load(t) ==
    /\ pc[t] = "load" /\ mtx = Free
    /\ \/ /\ LoadSucceeds(cmd[t].file) \/ LoadFails(cmd[t].file)
          /\ pc' = [pc EXCEPT ![t] = "reply"]
          /\ UNCHANGED <<mtx, boot, ev, queue, cmd>>
       \/ /\ LoadThrows(cmd[t].file)      \* caught by FOREACH_MOD around diagnostics
          /\ pc' = [pc EXCEPT ![t] = "calling"]
          /\ queue' = [queue EXCEPT ![t] = Tail(@)]
          /\ cmd' = [cmd EXCEPT ![t] = NoCommand]
          /\ UNCHANGED <<mtx, boot, ev>>

UnloadMissing(t) ==
    /\ pc[t] = "unload" /\ mtx = Free
    /\ modules[cmd[t].file] = NoObject
    /\ lasterror' = "Module is not loaded"
    /\ pc' = [pc EXCEPT ![t] = "reply"]
    /\ UNCHANGED <<modules, moduleList, eventHandlers, alive, serial,
                   mtx, boot, ev, queue, cmd>>

\* Mutant: ModuleList is not updated with Modules.
UnloadBegin_KeepsModuleList(t) ==
    LET f == cmd[t].file IN
    /\ pc[t] = "unload" /\ mtx = Free
    /\ modules[f] # NoObject
    /\ mtx' = t
    /\ eventHandlers' = DetachAll(eventHandlers, modules[f])
    /\ modules' = [modules EXCEPT ![f] = NoObject]
    /\ cmd' = [cmd EXCEPT ![t].targets = {modules[f]}]
    /\ pc' = [pc EXCEPT ![t] = "dtor"]
    /\ UNCHANGED <<moduleList, lasterror, alive, serial, boot, ev, queue>>

\* Mutant: the result of Modules.find() is not compared with Modules.end().
UnloadBegin_NotFound(t) ==
    LET f == cmd[t].file IN
    /\ pc[t] = "unload" /\ mtx = Free
    /\ mtx' = t
    /\ eventHandlers' = DetachAll(eventHandlers, modules[f])
    /\ modules' = [modules EXCEPT ![f] = NoObject]
    /\ moduleList' = [moduleList EXCEPT ![f] = NoObject]
    /\ cmd' = [cmd EXCEPT ![t].targets = {modules[f]}]
    /\ pc' = [pc EXCEPT ![t] = "dtor"]
    /\ UNCHANGED <<lasterror, alive, serial, boot, ev, queue>>

\* Everything Unload() does before `delete mod.module_object`.
UnloadBegin(t) ==
    LET f == cmd[t].file IN
    /\ pc[t] = "unload" /\ mtx = Free
    /\ modules[f] # NoObject
    /\ mtx' = t
    /\ eventHandlers' = DetachAll(eventHandlers, modules[f])
    /\ modules' = [modules EXCEPT ![f] = NoObject]
    /\ moduleList' = [moduleList EXCEPT ![f] = NoObject]
    /\ cmd' = [cmd EXCEPT ![t].targets = {modules[f]}]
    /\ pc' = [pc EXCEPT ![t] = "dtor"]
    /\ UNCHANGED <<lasterror, alive, serial, boot, ev, queue>>

\* Mutant: no lock_guard, and this return forgets to unlock.
UnloadEnd_KeepsLock(t) ==
    /\ pc[t] = "dtor"
    /\ alive' = alive \ cmd[t].targets
    /\ cmd' = [cmd EXCEPT ![t].targets = {}]
    /\ pc' = [pc EXCEPT ![t] = IF cmd[t].op = "reload" THEN "load" ELSE "reply"]
    /\ UNCHANGED <<modules, moduleList, eventHandlers, lasterror, serial,
                   mtx, boot, ev, queue>>

\* The destructor, dlclose() and the end of the lock_guard.
UnloadEnd(t) ==
    /\ pc[t] = "dtor"
    /\ alive' = alive \ cmd[t].targets
    /\ mtx' = Free
    /\ cmd' = [cmd EXCEPT ![t].targets = {}]
    /\ pc' = [pc EXCEPT ![t] = IF cmd[t].op = "reload" THEN "load" ELSE "reply"]
    /\ UNCHANGED <<modules, moduleList, eventHandlers, lasterror, serial, boot, ev, queue>>

\* "sudo modules" asks one listed object for its version.
ListModule(t) ==
    /\ pc[t] = "listing"
    /\ IF cmd[t].targets = {}
       THEN pc' = [pc EXCEPT ![t] = "reply"] /\ cmd' = cmd
       ELSE /\ \E o \in cmd[t].targets : cmd' = [cmd EXCEPT ![t].targets = @ \ {o}]
            /\ pc' = pc
    /\ UNCHANGED <<loader, mtx, boot, ev, queue>>

\* Mutant: a sudo command returns true and the rest of the list is called.
Reply_ReturnsTrue(t) ==
    /\ pc[t] = "reply"
    /\ queue' = [queue EXCEPT ![t] = Tail(@)]
    /\ pc' = [pc EXCEPT ![t] = "calling"]
    /\ cmd' = [cmd EXCEPT ![t] = NoCommand]
    /\ UNCHANGED <<loader, mtx, boot, ev>>

\* The embed is sent and the handler eats the event.
Reply(t) == pc[t] = "reply" /\ Finish(t)
-----------------------------------------------------------------------------
(* Undefined behaviour that ends the process.  When it does not, the run   *)
(* goes on through the ordinary actions.                                   *)

Fault(t) ==
    /\ \/ pc[t] = "handling" /\ Head(queue[t]) \notin alive
       \/ pc[t] = "listing" /\ \E o \in cmd[t].targets : moduleList[o.file] # o
       \/ pc[t] = "dtor"     \* Unload() reads mod after Modules.erase(m)
    /\ Restart

ThreadStep(t) ==
    \/ CopyHandlers(t)
    \/ CallHandler(t)
    \/ NextHandler(t)
    \/ EatEvent(t)
    \/ EndOfList(t)
    \/ \E op \in Ops \ {"none"}, f \in Files : Sudo(t, op, f)
    \/ SudoRestart(t)
    \/ Load(t)
    \/ UnloadMissing(t)
    \/ UnloadBegin(t)
    \/ UnloadEnd(t)
    \/ ListModule(t)
    \/ Reply(t)
    \/ Fault(t)

Next ==
    \/ BootLoad
    \/ BootThrows
    \/ \E t \in Threads, e \in Events : Receive(t, e)
    \/ \E t \in Threads : ThreadStep(t)

Spec == Init /\ [][Next]_vars

(* Every thread that is not waiting for an event keeps running. *)
FairSpec == Spec /\ WF_vars(BootLoad) /\ \A t \in Threads : WF_vars(ThreadStep(t))
-----------------------------------------------------------------------------
(* What the loader is for. *)

Handlers(e) == Range(eventHandlers[e])

(* No handler list names a module that is not loaded: FOREACH_MOD may copy
   the list at any moment the mutex is free, and calls what it copied.  The
   exception is a module whose constructor threw after Attach().  (Load()
   and Unload() keep EventHandlers and Modules in step.) *)
HandlersLoaded ==
    \A e \in Events : \A o \in Handlers(e) :
        o.file \notin Throwing => modules[o.file] = o

(* The objects in memory are the ones Modules knows, which get every event
   they attached to and which `sudo modules` lists, and the one the holder
   of the mutex is destroying: however commands of several threads
   interleave, no module is lost, half loaded or half unloaded. *)
NothingHalfLoaded ==
    /\ moduleList = modules
    /\ alive = Loaded(modules) \cup
                 UNION {cmd[t].targets : t \in {u \in Threads : mtx = u /\ pc[u] = "dtor"}}
    /\ \A o \in Loaded(modules) : \A e \in AttachedBy[o.file] : o \in Handlers(e)

(* Handlers of an event are called in the order their modules were loaded,
   each at most once: help and config, loaded first, see a message before
   the modules that would answer it, and after a reload a module is last. *)
DispatchInLoadOrder ==
    \A e \in Events : \A i, j \in DOMAIN eventHandlers[e] :
        i < j => eventHandlers[e][i].serial < eventHandlers[e][j].serial

(* No thread waits for the loader's mutex while it holds it: a sudo command
   runs inside FOREACH_MOD, and std::mutex is not recursive. *)
NoSelfDeadlock ==
    \A t \in Threads : mtx = t => pc[t] \notin {"wait", "load", "unload"}

(* The one way to reach the loader is never unloaded: diagnostics leaves
   Modules only with the process. *)
DiagStays ==
    [][modules[Diag] # NoObject => modules'[Diag] = modules[Diag] \/ boot' = 1]_vars

(* The object a thread is calling is still in memory. *)
NoUseAfterUnload ==
    \A t \in Threads : pc[t] = "handling" => Head(queue[t]) \in alive

(* `sudo modules` walks a ModuleList that nobody changes under it. *)
ListingSafe ==
    \A t \in Threads : pc[t] = "listing" =>
        \A o \in cmd[t].targets : moduleList[o.file] = o

(* A thread that received an event comes back for the next one: no command
   leaves the mutex held and no two threads wait for each other. *)
EveryDispatchEnds ==
    \A t \in Threads : pc[t] # "idle" ~> pc[t] = "idle"
=============================================================================
