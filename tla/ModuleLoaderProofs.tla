------------------------- MODULE ModuleLoaderProofs -------------------------
(***************************************************************************)
(* What ModuleLoader promises for any set of files, events and threads:    *)
(* the invariants the runs check, from one inductive invariant.            *)
(***************************************************************************)
EXTENDS ModuleLoader, SequenceTheorems, TLAPS

-----------------------------------------------------------------------------
(* Handler lists are sequences of objects in the order of construction.    *)

Increasing(s) == \A i, j \in DOMAIN s : i < j => s[i].serial < s[j].serial

(* The position std::find gives. *)
Position(s, o) == CHOOSE i \in DOMAIN s :
                     s[i] = o /\ \A k \in DOMAIN s : k < i => s[k] # o

(* An increasing list holds an object once, so std::find has one choice. *)
LEMMA PositionExists ==
    ASSUME NEW s \in Seq(Object), Increasing(s), NEW o \in Range(s)
    PROVE  /\ Position(s, o) \in DOMAIN s
           /\ s[Position(s, o)] = o
           /\ \A k \in DOMAIN s : s[k] = o => k = Position(s, o)
<1>1. PICK i \in DOMAIN s : s[i] = o
  BY DEF Range
<1>2. DOMAIN s = 1..Len(s) /\ Len(s) \in Nat
  OBVIOUS
<1>3. \A k \in DOMAIN s : s[k] \in Object
  OBVIOUS
<1>4. \A x \in Object : x.serial \in Int
  BY LoaderAssumption DEF Object
<1>5. \A k \in DOMAIN s : s[k] = o => k = i
  BY <1>1, <1>2, <1>3, <1>4 DEF Increasing
<1>6. s[i] = o /\ \A k \in DOMAIN s : k < i => s[k] # o
  BY <1>1, <1>2, <1>5
<1>7. /\ Position(s, o) \in DOMAIN s
      /\ s[Position(s, o)] = o
  BY <1>6 DEF Position
<1> QED
  BY <1>5, <1>7

LEMMA WithoutShape ==
    ASSUME NEW s \in Seq(Object), NEW i \in DOMAIN s
    PROVE  /\ Without(s, i) \in Seq(Object)
           /\ DOMAIN Without(s, i) = 1..(Len(s) - 1)
           /\ \A j \in 1..(Len(s) - 1) :
                 Without(s, i)[j] = IF j < i THEN s[j] ELSE s[j + 1]
<1>1. DOMAIN s = 1..Len(s) /\ Len(s) \in Nat
  OBVIOUS
<1>2. \A j \in 1..(Len(s) - 1) : j \in DOMAIN s /\ j + 1 \in DOMAIN s
  BY <1>1
<1>3. Len(s) - 1 \in Nat
  BY <1>1
<1> QED
  BY <1>1, <1>2, <1>3 DEF Without

(* Erasing keeps a list a list, keeps its order, and takes o out of it:    *)
(* one std::find and erase per event is enough for Unload().               *)
LEMMA EraseFirstProperties ==
    ASSUME NEW s \in Seq(Object), Increasing(s), NEW o \in Object
    PROVE  /\ EraseFirst(s, o) \in Seq(Object)
           /\ Increasing(EraseFirst(s, o))
           /\ Range(EraseFirst(s, o)) = Range(s) \ {o}
<1>1. CASE o \notin Range(s)
  BY <1>1 DEF EraseFirst
<1>2. CASE o \in Range(s)
  <2> DEFINE p == Position(s, o)
             w == Without(s, p)
  <2>1. /\ p \in DOMAIN s /\ s[p] = o
        /\ \A k \in DOMAIN s : s[k] = o => k = p
    BY <1>2, PositionExists
  <2>2. EraseFirst(s, o) = w
    BY <1>2 DEF EraseFirst, Position
  <2>3. /\ w \in Seq(Object)
        /\ DOMAIN w = 1..(Len(s) - 1)
        /\ \A j \in 1..(Len(s) - 1) : w[j] = IF j < p THEN s[j] ELSE s[j + 1]
    BY <2>1, WithoutShape
  <2>4. DOMAIN s = 1..Len(s) /\ Len(s) \in Nat
    OBVIOUS
  <2> HIDE DEF p, w
  <2>5. Increasing(w)
    <3> SUFFICES ASSUME NEW i \in DOMAIN w, NEW j \in DOMAIN w, i < j
                 PROVE  w[i].serial < w[j].serial
      BY DEF Increasing
    <3>1. PICK a \in DOMAIN s : w[i] = s[a] /\ a = IF i < p THEN i ELSE i + 1
      BY <2>1, <2>3, <2>4
    <3>2. PICK b \in DOMAIN s : w[j] = s[b] /\ b = IF j < p THEN j ELSE j + 1
      BY <2>1, <2>3, <2>4
    <3>3. a < b
      BY <2>1, <2>3, <2>4, <3>1, <3>2
    <3> QED
      BY <3>1, <3>2, <3>3 DEF Increasing
  <2>6. \A x \in Range(w) : x \in Range(s) /\ x # o
    <3> SUFFICES ASSUME NEW j \in DOMAIN w
                 PROVE  w[j] \in Range(s) /\ w[j] # o
      BY DEF Range
    <3>1. PICK a \in DOMAIN s : w[j] = s[a] /\ a # p
      BY <2>1, <2>3, <2>4
    <3> QED
      BY <2>1, <3>1 DEF Range
  <2>7. \A x \in Range(s) : x # o => x \in Range(w)
    <3> SUFFICES ASSUME NEW a \in DOMAIN s, s[a] # o
                 PROVE  s[a] \in Range(w)
      BY DEF Range
    <3>1. a # p
      BY <2>1
    <3>2. CASE a < p
      <4>1. a \in DOMAIN w /\ w[a] = s[a]
        BY <2>1, <2>3, <2>4, <3>2
      <4> QED
        BY <4>1 DEF Range
    <3>3. CASE a > p
      <4>1. a - 1 \in DOMAIN w /\ w[a - 1] = s[a]
        BY <2>1, <2>3, <2>4, <3>3
      <4> QED
        BY <4>1 DEF Range
    <3> QED
      BY <2>1, <2>4, <3>1, <3>2, <3>3
  <2> QED
    BY <2>2, <2>3, <2>5, <2>6, <2>7
<1> QED
  BY <1>1, <1>2

LEMMA AppendKeepsOrder ==
    ASSUME NEW s \in Seq(Object), Increasing(s), NEW o \in Object,
           \A x \in Range(s) : x.serial < o.serial
    PROVE  /\ Append(s, o) \in Seq(Object)
           /\ Increasing(Append(s, o))
           /\ Range(Append(s, o)) = Range(s) \cup {o}
<1> DEFINE a == Append(s, o)
<1>1. DOMAIN s = 1..Len(s) /\ Len(s) \in Nat
  OBVIOUS
<1>2. /\ a \in Seq(Object) /\ DOMAIN a = 1..(Len(s) + 1)
      /\ a[Len(s) + 1] = o
      /\ \A i \in 1..Len(s) : a[i] = s[i]
  OBVIOUS
<1> HIDE DEF a
<1>3. Increasing(a)
  <2> SUFFICES ASSUME NEW i \in DOMAIN a, NEW j \in DOMAIN a, i < j
               PROVE  a[i].serial < a[j].serial
    BY DEF Increasing
  <2>1. i \in DOMAIN s /\ a[i] = s[i] /\ s[i] \in Range(s)
    BY <1>1, <1>2 DEF Range
  <2>2. CASE j \in DOMAIN s
    BY <1>1, <1>2, <2>1, <2>2 DEF Increasing
  <2>3. CASE j = Len(s) + 1
    BY <1>2, <2>1, <2>3
  <2> QED
    BY <1>1, <1>2, <2>2, <2>3
<1>4. Range(a) = Range(s) \cup {o}
  BY <1>1, <1>2 DEF Range
<1> QED
  BY <1>2, <1>3, <1>4 DEF a
-----------------------------------------------------------------------------
(* The inductive invariant.                                                *)

(* Handler lists are in the order of construction, and construction goes on
   counting from there: a new object belongs at the end of every list. *)
Order ==
    \A e \in Events :
        /\ Increasing(eventHandlers[e])
        /\ \A o \in Handlers(e) : o.serial <= serial

(* Modules is keyed by the file the object came from. *)
Keyed == \A f \in Files : modules[f] # NoObject => modules[f].file = f

(* The mutex is held, between steps, exactly by a thread inside Unload(). *)
Locking ==
    /\ \A t \in Threads : mtx = t <=> pc[t] = "dtor"
    /\ ~Booted => \A t \in Threads : pc[t] = "idle"

(* What is being destroyed has left Modules and is not diagnostics. *)
Unloading ==
    \A t \in Threads :
        /\ pc[t] \in {"unload", "dtor"} => cmd[t].file # Diag
        /\ pc[t] = "dtor" => cmd[t].targets \cap Loaded(modules) = {}

(* While a handler runs, its object is the head of list_to_call. *)
Calling ==
    \A t \in Threads : pc[t] \notin {"idle", "wait", "calling"} => queue[t] # <<>>

RInv ==
    /\ TypeOK
    /\ Order
    /\ Keyed
    /\ Locking
    /\ Unloading
    /\ Calling
    /\ HandlersLoaded
    /\ NothingHalfLoaded
-----------------------------------------------------------------------------
(* What Load() and Unload() do to the loader's own state, whoever calls.   *)

LoaderTypes ==
    /\ modules \in [Files -> Object \cup {NoObject}]
    /\ eventHandlers \in [Events -> Seq(Object)]
    /\ lasterror \in Errors
    /\ alive \in SUBSET Object
    /\ serial \in 0..MaxObjects

Complete == \A o \in Loaded(modules) : \A e \in AttachedBy[o.file] : o \in Handlers(e)

Registry ==
    /\ LoaderTypes
    /\ Order
    /\ Keyed
    /\ HandlersLoaded
    /\ moduleList = modules
    /\ Complete

(* A constructor's Attach() keeps the lists ordered, whether or not the
   constructor then completes. *)
LEMMA AttachKeepsOrder ==
    ASSUME LoaderTypes, Order, NEW f \in Files, CanConstruct(f),
           eventHandlers' = Attach(eventHandlers, NextObject(f)),
           serial' = serial + 1
    PROVE  /\ NextObject(f) \in Object
           /\ eventHandlers' \in [Events -> Seq(Object)]
           /\ serial' \in 0..MaxObjects
           /\ Order'
           /\ \A e \in Events :
                 Handlers(e)' = IF e \in AttachedBy[f] THEN Handlers(e) \cup {NextObject(f)}
                                ELSE Handlers(e)
<1> DEFINE o == NextObject(f)
<1>1. serial \in Nat /\ MaxObjects \in Nat /\ serial < MaxObjects
  BY LoaderAssumption DEF LoaderTypes, CanConstruct
<1>2. o \in Object /\ o.file = f /\ o.serial = serial + 1
  BY <1>1 DEF NextObject, Object
<1>3. serial' \in 0..MaxObjects
  BY <1>1
<1> HIDE DEF o
<1>4. ASSUME NEW e \in Events
      PROVE  /\ eventHandlers'[e] \in Seq(Object)
             /\ Increasing(eventHandlers'[e])
             /\ Range(eventHandlers'[e]) =
                  IF e \in AttachedBy[f] THEN Range(eventHandlers[e]) \cup {o}
                  ELSE Range(eventHandlers[e])
  <2>1. /\ eventHandlers[e] \in Seq(Object)
        /\ Increasing(eventHandlers[e])
        /\ \A x \in Range(eventHandlers[e]) : x \in Object /\ x.serial <= serial
    BY DEF LoaderTypes, Order, Handlers, Range
  <2>2. \A x \in Range(eventHandlers[e]) : x.serial < o.serial
    <3>1. \A x \in Object : x.serial \in Int
      BY LoaderAssumption DEF Object
    <3> QED
      BY <1>1, <1>2, <2>1, <3>1
  <2>3. o \notin Range(eventHandlers[e])
    BY <1>1, <1>2, <2>1
  <2>4. eventHandlers'[e] = IF e \in AttachedBy[f] THEN Append(eventHandlers[e], o)
                            ELSE eventHandlers[e]
    BY <1>2, <2>3 DEF Attach, o
  <2> QED
    BY <1>2, <2>1, <2>2, <2>4, AppendKeepsOrder
<1>5. eventHandlers' \in [Events -> Seq(Object)]
  <2>1. eventHandlers' = [e \in Events |-> eventHandlers'[e]]
    BY DEF Attach
  <2> QED
    BY <1>4, <2>1
<1>6. Order'
  <2> SUFFICES ASSUME NEW e \in Events
               PROVE  /\ Increasing(eventHandlers'[e])
                      /\ \A x \in Range(eventHandlers'[e]) : x.serial <= serial'
    BY DEF Order, Handlers, Increasing, Range
  <2>1. \A x \in Range(eventHandlers[e]) : x \in Object /\ x.serial <= serial
    BY DEF LoaderTypes, Order, Handlers, Range
  <2>2. \A x \in Object : x.serial \in Int
    BY LoaderAssumption DEF Object
  <2>3. ASSUME NEW x \in Range(eventHandlers'[e])
        PROVE  x.serial <= serial'
    <3>1. x = o \/ x \in Range(eventHandlers[e])
      BY <1>4
    <3>2. x = o => x.serial <= serial'
      BY <1>1, <1>2
    <3>3. x \in Range(eventHandlers[e]) => x.serial <= serial'
      BY <1>1, <2>1, <2>2
    <3> QED
      BY <3>1, <3>2, <3>3
  <2> QED
    BY <1>4, <2>3
<1>7. \A e \in Events : Handlers(e)' = Range(eventHandlers'[e])
  BY DEF Handlers, Range
<1> QED
  BY <1>2, <1>3, <1>4, <1>5, <1>6, <1>7 DEF o, Handlers

(* However Load() ends, the registry is in order; and a module it finishes
   is the only object that it adds to memory. *)
LEMMA LoadKeepsRegistry ==
    ASSUME Registry, NEW f \in Files,
           LoadSucceeds(f) \/ LoadFails(f) \/ LoadThrows(f)
    PROVE  Registry' /\ (alive = Loaded(modules) => alive' = Loaded(modules)')
<1> USE DEF Registry
<1>1. CASE LoadSucceeds(f)
  <2> DEFINE o == NextObject(f)
  <2>1. /\ o \in Object
        /\ eventHandlers' \in [Events -> Seq(Object)]
        /\ serial' \in 0..MaxObjects
        /\ Order'
        /\ \A e \in Events :
              Handlers(e)' = IF e \in AttachedBy[f] THEN Handlers(e) \cup {o} ELSE Handlers(e)
    BY <1>1, AttachKeepsOrder DEF LoadSucceeds
  <2>2. /\ modules[f] = NoObject
        /\ modules' = [modules EXCEPT ![f] = o]
        /\ moduleList' = [moduleList EXCEPT ![f] = o]
        /\ alive' = alive \cup {o}
        /\ lasterror' \in Errors
    BY <1>1 DEF LoadSucceeds, CanConstruct, Errors
  <2>3. o.file = f
    BY DEF NextObject
  <2>4. NoObject \notin Object /\ AttachedBy \in [Files -> SUBSET Events]
    BY LoaderAssumption
  <2> HIDE DEF o
  <2>5. LoaderTypes'
    BY <2>1, <2>2 DEF LoaderTypes
  <2>6. Keyed'
    BY <2>1, <2>2, <2>3, <2>4 DEF Keyed, LoaderTypes
  <2>7. HandlersLoaded'
    <3> SUFFICES ASSUME NEW e \in Events, NEW x \in Handlers(e)', x.file \notin Throwing
                 PROVE  modules'[x.file] = x
      BY DEF HandlersLoaded
    <3>1. CASE x = o
      BY <2>2, <2>3, <3>1 DEF LoaderTypes
    <3>2. CASE x \in Handlers(e)
      <4>1. x \in Object /\ modules[x.file] = x
        BY <3>2 DEF HandlersLoaded, Handlers, Range, LoaderTypes
      <4>2. x.file # f
        BY <2>2, <2>4, <4>1
      <4> QED
        BY <2>2, <4>1, <4>2 DEF LoaderTypes, Object
    <3> QED
      BY <2>1, <3>1, <3>2
  <2>8. Loaded(modules)' = Loaded(modules) \cup {o}
    BY <2>1, <2>2, <2>4 DEF Loaded, LoaderTypes
  <2>9. Complete'
    <3> SUFFICES ASSUME NEW x \in Loaded(modules)', NEW e \in AttachedBy[x.file]
                 PROVE  x \in Handlers(e)'
      BY DEF Complete
    <3>1. CASE x = o
      BY <2>1, <2>3, <2>4, <3>1
    <3>2. CASE x \in Loaded(modules)
      <4>1. x.file \in Files
        BY <3>2 DEF Loaded, LoaderTypes, Object
      <4>2. x \in Handlers(e) /\ e \in Events
        BY <2>4, <3>2, <4>1 DEF Complete
      <4> QED
        BY <2>1, <4>2
    <3> QED
      BY <2>8, <3>1, <3>2
  <2>10. moduleList' = modules'
    BY <2>2
  <2> QED
    BY <2>1, <2>2, <2>5, <2>6, <2>7, <2>8, <2>9, <2>10
<1>2. CASE LoadFails(f)
  <2>1. UNCHANGED <<modules, moduleList, eventHandlers, alive, serial>> /\ lasterror' \in Errors
    BY <1>2 DEF LoadFails, Errors
  <2>2. LoaderTypes' /\ Keyed' /\ moduleList' = modules'
    BY <2>1 DEF LoaderTypes, Keyed
  <2>3. Order' /\ HandlersLoaded' /\ Complete'
    BY <2>1 DEF Order, Increasing, HandlersLoaded, Complete, Handlers, Loaded, Range
  <2>4. alive = Loaded(modules) => alive' = Loaded(modules)'
    BY <2>1 DEF Loaded
  <2> QED
    BY <2>2, <2>3, <2>4
<1>3. CASE LoadThrows(f)
  <2>1. /\ eventHandlers' \in [Events -> Seq(Object)]
        /\ serial' \in 0..MaxObjects
        /\ Order'
        /\ \A e \in Events :
              Handlers(e)' = IF e \in AttachedBy[f] THEN Handlers(e) \cup {NextObject(f)}
                             ELSE Handlers(e)
    BY <1>3, AttachKeepsOrder DEF LoadThrows
  <2>2. UNCHANGED <<modules, moduleList, alive, lasterror>> /\ f \in Throwing
    BY <1>3 DEF LoadThrows
  <2>3. NextObject(f).file = f /\ AttachedBy \in [Files -> SUBSET Events]
    BY LoaderAssumption DEF NextObject
  <2>4. HandlersLoaded'
    <3> SUFFICES ASSUME NEW e \in Events, NEW x \in Handlers(e)', x.file \notin Throwing
                 PROVE  modules[x.file] = x
      BY <2>2 DEF HandlersLoaded
    <3>1. x \in Handlers(e)
      BY <2>1, <2>2, <2>3
    <3> QED
      BY <3>1 DEF HandlersLoaded
  <2>5. Complete'
    <3>1. \A x \in Loaded(modules) : x.file \in Files
      BY DEF Loaded, LoaderTypes, Object
    <3> QED
      BY <2>1, <2>2, <2>3, <3>1 DEF Complete, Loaded
  <2>6. LoaderTypes' /\ Keyed' /\ moduleList' = modules'
    BY <2>1, <2>2 DEF LoaderTypes, Keyed
  <2>7. alive = Loaded(modules) => alive' = Loaded(modules)'
    BY <2>2 DEF Loaded
  <2> QED
    BY <2>1, <2>4, <2>5, <2>6, <2>7
<1> QED
  BY <1>1, <1>2, <1>3

(* Unload() takes one module out of Modules, ModuleList and every list. *)
LEMMA UnloadKeepsRegistry ==
    ASSUME Registry, NEW t \in Threads, UnloadBegin(t), cmd[t].file \in Files
    PROVE  /\ Registry'
           /\ modules[cmd[t].file] \in Object
           /\ Loaded(modules)' = Loaded(modules) \ {modules[cmd[t].file]}
<1> DEFINE f == cmd[t].file
           o == modules[f]
<1> USE DEF Registry
<1>1. /\ o \in Object /\ o # NoObject /\ o.file = f
      /\ modules' = [modules EXCEPT ![f] = NoObject]
      /\ moduleList' = [moduleList EXCEPT ![f] = NoObject]
      /\ eventHandlers' = DetachAll(eventHandlers, o)
      /\ UNCHANGED <<lasterror, alive, serial>>
  BY LoaderAssumption DEF UnloadBegin, LoaderTypes, Keyed
<1>2. f \in Files
  OBVIOUS
<1> HIDE DEF f, o
<1>3. ASSUME NEW e \in Events
      PROVE  /\ eventHandlers'[e] \in Seq(Object)
             /\ Increasing(eventHandlers'[e])
             /\ Range(eventHandlers'[e]) = Range(eventHandlers[e]) \ {o}
  <2>1. eventHandlers[e] \in Seq(Object) /\ Increasing(eventHandlers[e])
    BY DEF LoaderTypes, Order
  <2>2. eventHandlers'[e] = EraseFirst(eventHandlers[e], o)
    BY <1>1 DEF DetachAll
  <2> QED
    BY <1>1, <2>1, <2>2, EraseFirstProperties
<1>4. \A e \in Events : Handlers(e)' = Handlers(e) \ {o}
  <2>1. \A e \in Events : Handlers(e)' = Range(eventHandlers'[e])
    BY DEF Handlers, Range
  <2> QED
    BY <1>3, <2>1 DEF Handlers
<1>5. LoaderTypes'
  <2>1. eventHandlers' = [e \in Events |-> eventHandlers'[e]]
    BY <1>1 DEF DetachAll
  <2>2. eventHandlers' \in [Events -> Seq(Object)]
    BY <1>3, <2>1
  <2> QED
    BY <1>1, <2>2 DEF LoaderTypes
<1>6. Order'
  <2>1. \A e \in Events : \A x \in Handlers(e)' : x.serial <= serial'
    BY <1>1, <1>4 DEF Order
  <2> QED
    BY <1>3, <2>1 DEF Order, Increasing
<1>7. Keyed'
  BY <1>1 DEF Keyed, LoaderTypes
<1>8. HandlersLoaded'
  <2> SUFFICES ASSUME NEW e \in Events, NEW x \in Handlers(e)', x.file \notin Throwing
               PROVE  modules'[x.file] = x
    BY DEF HandlersLoaded
  <2>1. x \in Handlers(e) /\ x # o /\ modules[x.file] = x
    BY <1>4 DEF HandlersLoaded
  <2>2. x.file # f
    BY <2>1 DEF o
  <2>3. x \in Object
    BY <2>1 DEF Handlers, Range, LoaderTypes
  <2>4. x.file \in Files
    BY <2>3 DEF Object
  <2> QED
    BY <1>1, <2>1, <2>2, <2>4 DEF LoaderTypes
<1>9. Loaded(modules)' = Loaded(modules) \ {o}
  <2>1. \A g \in Files : g # f => modules'[g] = modules[g]
    BY <1>1 DEF LoaderTypes
  <2>2. modules'[f] = NoObject
    BY <1>1, <1>2 DEF LoaderTypes
  <2>3. \A g \in Files : modules[g] = o => g = f
    BY <1>1 DEF Keyed
  <2> QED
    BY <1>1, <1>2, <2>1, <2>2, <2>3 DEF Loaded, o
<1>10. Complete'
  <2>1. \A x \in Loaded(modules) : x.file \in Files
    BY DEF Loaded, LoaderTypes, Object
  <2>2. AttachedBy \in [Files -> SUBSET Events]
    BY LoaderAssumption
  <2> QED
    BY <1>4, <1>9, <2>1, <2>2 DEF Complete
<1>11. moduleList' = modules'
  BY <1>1
<1> QED
  BY <1>1, <1>5, <1>6, <1>7, <1>8, <1>9, <1>10, <1>11 DEF f, o
-----------------------------------------------------------------------------
(* The invariant, over the whole specification.                            *)

ThreadTypes ==
    /\ mtx \in Threads \cup {Free}
    /\ boot \in 1..(Len(Config) + 1)
    /\ pc \in [Threads -> Steps]
    /\ ev \in [Threads -> Events]
    /\ queue \in [Threads -> Seq(Object)]
    /\ cmd \in [Threads -> [op : Ops, file : Files, targets : SUBSET Object]]

Doomed == UNION {cmd[t].targets : t \in {u \in Threads : mtx = u /\ pc[u] = "dtor"}}

Memory == alive = Loaded(modules) \cup Doomed

LEMMA InvariantParts ==
    RInv <=> Registry /\ ThreadTypes /\ Locking /\ Unloading /\ Calling /\ Memory
<1>1. TypeOK /\ moduleList = modules <=> LoaderTypes /\ ThreadTypes /\ moduleList = modules
  BY DEF TypeOK, LoaderTypes, ThreadTypes
<1> QED
  BY <1>1 DEF RInv, Registry, NothingHalfLoaded, Complete, Memory, Doomed

LEMMA InitInvariant == Init => RInv
<1> SUFFICES ASSUME Init PROVE Registry /\ ThreadTypes /\ Locking /\ Unloading /\ Calling /\ Memory
  BY InvariantParts
<1>1. Loaded(modules) = {}
  BY DEF Init, Loaded
<1>2. Doomed = {}
  BY DEF Init, Doomed
<1>3. eventHandlers = [e \in Events |-> <<>>] /\ queue = [t \in Threads |-> <<>>]
  BY DEF Init
<1>4. \A e \in Events : eventHandlers[e] \in Seq(Object) /\ DOMAIN eventHandlers[e] = {}
  BY <1>3
<1>5. \A e \in Events : Handlers(e) = {}
  BY <1>4 DEF Handlers, Range
<1>6. LoaderTypes
  <2>1. MaxObjects \in Nat
    BY LoaderAssumption
  <2>2. /\ modules \in [Files -> Object \cup {NoObject}]
        /\ lasterror \in Errors /\ alive \in SUBSET Object /\ serial = 0
    BY DEF Init, Errors
  <2>3. eventHandlers \in [Events -> Seq(Object)]
    BY <1>3, <1>4
  <2> QED
    BY <2>1, <2>2, <2>3 DEF LoaderTypes
<1>7. Order /\ HandlersLoaded
  BY <1>4, <1>5 DEF Order, HandlersLoaded, Increasing
<1>8. Keyed /\ Complete /\ moduleList = modules
  BY <1>1 DEF Keyed, Complete, Init
<1>9. ThreadTypes
  <2>1. Message \in Events /\ Diag \in Files /\ Len(Config) \in Nat
    BY LoaderAssumption
  <2>2. mtx \in Threads \cup {Free} /\ boot \in 1..(Len(Config) + 1)
    <3>1. mtx = Free /\ boot = 1
      BY DEF Init
    <3> QED
      BY <2>1, <3>1
  <2>3. pc \in [Threads -> Steps] /\ ev \in [Threads -> Events]
    BY <2>1 DEF Init, Steps
  <2>4. queue \in [Threads -> Seq(Object)]
    <3>1. <<>> \in Seq(Object)
      OBVIOUS
    <3> QED
      BY <1>3, <3>1
  <2>5. cmd \in [Threads -> [op : Ops, file : Files, targets : SUBSET Object]]
    BY <2>1 DEF Init, Ops, NoCommand
  <2> QED
    BY <2>2, <2>3, <2>4, <2>5 DEF ThreadTypes
<1>10. Locking /\ Unloading /\ Calling /\ Memory
  <2>1. Free \notin Threads
    BY LoaderAssumption
  <2> QED
    BY <1>1, <1>2, <2>1 DEF Init, Locking, Unloading, Calling, Memory
<1> QED
  BY <1>6, <1>7, <1>8, <1>9, <1>10 DEF Registry

(* A new process satisfies the invariant like the first one. *)
LEMMA RestartInvariant == Restart => RInv'
<1>1. Restart => Init'
  BY DEF Restart, Init
<1> QED
  BY <1>1, InitInvariant, PTL

(* A step of one thread that neither starts nor ends an unload keeps the
   invariant if it keeps the registry. *)
LEMMA StepOutsideUnload ==
    ASSUME RInv, NEW t \in Threads, Registry', ThreadTypes', Calling', Booted,
           UNCHANGED <<mtx, boot>>,
           \/ UNCHANGED loader
           \/ mtx = Free /\ (alive = Loaded(modules) => alive' = Loaded(modules)'),
           \A u \in Threads : u # t => pc'[u] = pc[u] /\ cmd'[u] = cmd[u],
           pc[t] # "dtor", pc'[t] # "dtor",
           pc'[t] = "unload" => cmd'[t].file # Diag
    PROVE  RInv'
<1> USE InvariantParts
<1>1. Locking'
  <2>1. Booted'
    BY DEF Booted
  <2>2. \A u \in Threads : mtx' = u <=> pc'[u] = "dtor"
    BY InvariantParts DEF Locking
  <2> QED
    BY <2>1, <2>2 DEF Locking
<1>2. Doomed' = Doomed
  <2>1. \A u \in Threads : (mtx' = u /\ pc'[u] = "dtor") <=> (mtx = u /\ pc[u] = "dtor")
    OBVIOUS
  <2>2. \A u \in Threads : pc[u] = "dtor" => cmd'[u].targets = cmd[u].targets
    OBVIOUS
  <2>3. {u \in Threads : mtx' = u /\ pc'[u] = "dtor"} = {u \in Threads : mtx = u /\ pc[u] = "dtor"}
    BY <2>1
  <2> QED
    BY <2>2, <2>3 DEF Doomed
<1>3. mtx = Free => \A u \in Threads : pc[u] # "dtor"
  BY LoaderAssumption DEF Locking
<1>4. Unloading'
  <2> SUFFICES ASSUME NEW u \in Threads
               PROVE  /\ pc'[u] \in {"unload", "dtor"} => cmd'[u].file # Diag
                      /\ pc'[u] = "dtor" => cmd'[u].targets \cap Loaded(modules)' = {}
    BY DEF Unloading
  <2>1. CASE u = t
    BY <2>1
  <2>2. CASE u # t
    <3>1. pc'[u] = pc[u] /\ cmd'[u] = cmd[u]
      BY <2>2
    <3>2. pc[u] = "dtor" => modules' = modules
      BY <1>3 DEF loader
    <3> QED
      BY <3>1, <3>2 DEF Unloading, Loaded
  <2> QED
    BY <2>1, <2>2
<1>5. Memory'
  <2>1. CASE UNCHANGED loader
    BY <1>2, <2>1 DEF Memory, Loaded, loader
  <2>2. CASE mtx = Free /\ (alive = Loaded(modules) => alive' = Loaded(modules)')
    <3>1. Doomed = {}
      BY <1>3, <2>2 DEF Doomed
    <3> QED
      BY <1>2, <2>2, <3>1 DEF Memory
  <2> QED
    BY <2>1, <2>2
<1>6. (Registry /\ ThreadTypes /\ Locking /\ Unloading /\ Calling /\ Memory)' => RInv'
  BY InvariantParts, PTL
<1> QED
  BY <1>1, <1>4, <1>5, <1>6

(* The steps of FOREACH_MOD: they copy and walk a list. *)
LEMMA DispatchInvariant ==
    ASSUME RInv, NEW t \in Threads,
           \/ \E e \in Events : Receive(t, e)
           \/ CopyHandlers(t)
           \/ CallHandler(t)
           \/ NextHandler(t)
           \/ EatEvent(t)
           \/ EndOfList(t)
           \/ ListModule(t)
           \/ Reply(t)
    PROVE  RInv'
<1>1. Registry /\ ThreadTypes /\ Locking /\ Unloading /\ Calling /\ Memory
  BY InvariantParts
<1>2. UNCHANGED <<loader, mtx, boot>> /\ pc[t] # "dtor"
  BY DEF Receive, CopyHandlers, CallHandler, NextHandler, EatEvent, EndOfList, ListModule,
         Reply, Finish
<1>3. Registry'
  <2>1. LoaderTypes' /\ Keyed' /\ moduleList' = modules'
    BY <1>1, <1>2 DEF loader, Registry, LoaderTypes, Keyed
  <2>2. Order' /\ HandlersLoaded' /\ Complete'
    BY <1>1, <1>2 DEF loader, Registry, Order, Increasing, HandlersLoaded, Complete, Handlers,
                      Loaded, Range
  <2> QED
    BY <2>1, <2>2 DEF Registry
<1>4. /\ ThreadTypes'
      /\ \A u \in Threads : u # t => pc'[u] = pc[u] /\ cmd'[u] = cmd[u]
      /\ pc'[t] \notin {"dtor", "unload"}
  <2> USE <1>1, <1>2 DEF ThreadTypes, Steps
  <2>1. CASE \E e \in Events : Receive(t, e)
    BY <2>1 DEF Receive
  <2>2. CASE CopyHandlers(t)
    <3>1. eventHandlers[ev[t]] \in Seq(Object)
      BY DEF Registry, LoaderTypes
    <3> QED
      BY <2>2, <3>1 DEF CopyHandlers
  <2>3. CASE CallHandler(t)
    BY <2>3 DEF CallHandler
  <2>4. CASE NextHandler(t)
    <3>1. Tail(queue[t]) \in Seq(Object) \/ queue[t] = <<>>
      OBVIOUS
    <3>2. queue[t] # <<>>
      BY <1>1, <2>4 DEF Calling, NextHandler
    <3> QED
      BY <2>4, <3>1, <3>2 DEF NextHandler
  <2>5. ASSUME Finish(t)
        PROVE  /\ ThreadTypes'
               /\ \A u \in Threads : u # t => pc'[u] = pc[u] /\ cmd'[u] = cmd[u]
               /\ pc'[t] \notin {"dtor", "unload"}
    <3>1. <<>> \in Seq(Object) /\ Diag \in Files
      BY LoaderAssumption
    <3>2. NoCommand \in [op : Ops, file : Files, targets : SUBSET Object]
      BY <3>1 DEF NoCommand, Ops
    <3> QED
      BY <2>5, <3>1, <3>2 DEF Finish
  <2>6. CASE EatEvent(t) \/ EndOfList(t) \/ Reply(t)
    BY <2>5, <2>6 DEF EatEvent, EndOfList, Reply
  <2>7. CASE ListModule(t)
    <3> DEFINE Command == [op : Ops, file : Files, targets : SUBSET Object]
    <3>1. cmd[t] \in Command /\ cmd \in [Threads -> Command]
      OBVIOUS
    <3>2. \A S \in SUBSET Object : [cmd[t] EXCEPT !.targets = S] \in Command
      BY <3>1
    <3>3. \E c \in Command : cmd' = [cmd EXCEPT ![t] = c]
      <4>1. CASE cmd[t].targets = {}
        BY <2>7, <3>1, <4>1 DEF ListModule
      <4>2. CASE cmd[t].targets # {}
        <5>1. PICK o : cmd' = [cmd EXCEPT ![t] = [cmd[t] EXCEPT !.targets = @ \ {o}]]
          BY <2>7, <4>2 DEF ListModule
        <5>2. cmd[t].targets \ {o} \in SUBSET Object
          BY <3>1
        <5> QED
          BY <3>2, <5>1, <5>2
      <4> QED
        BY <4>1, <4>2
    <3>4. pc' = pc \/ pc' = [pc EXCEPT ![t] = "reply"]
      BY <2>7 DEF ListModule
    <3>5. pc[t] = "listing" /\ UNCHANGED <<mtx, boot, ev, queue>>
      BY <2>7 DEF ListModule
    <3> HIDE DEF Command
    <3>6. cmd' \in [Threads -> Command] /\ \A u \in Threads : u # t => cmd'[u] = cmd[u]
      BY <3>1, <3>3
    <3>7. ThreadTypes'
      BY <3>4, <3>5, <3>6 DEF Command
    <3> QED
      BY <3>4, <3>5, <3>6, <3>7
  <2> QED
    BY <2>1, <2>2, <2>3, <2>4, <2>6, <2>7
<1>5. Booted
  BY <1>1 DEF Locking, ThreadTypes, Receive, CopyHandlers, CallHandler, NextHandler,
              EatEvent, EndOfList, ListModule, Reply
<1>6. Calling'
  <2> SUFFICES ASSUME NEW u \in Threads, pc'[u] \notin {"idle", "wait", "calling"}
               PROVE  queue'[u] # <<>>
    BY DEF Calling
  <2> USE <1>1 DEF Calling, ThreadTypes
  <2>1. CASE (\E e \in Events : Receive(t, e)) \/ CopyHandlers(t) \/ NextHandler(t)
    BY <2>1 DEF Receive, CopyHandlers, NextHandler
  <2>2. CASE CallHandler(t) \/ ListModule(t)
    BY <2>2 DEF CallHandler, ListModule
  <2>3. CASE EatEvent(t) \/ EndOfList(t) \/ Reply(t)
    BY <2>3 DEF EatEvent, EndOfList, Reply, Finish
  <2> QED
    BY <2>1, <2>2, <2>3
<1> QED
  BY <1>2, <1>3, <1>4, <1>5, <1>6, StepOutsideUnload

(* A sudo command starts; one that would unload diagnostics does not. *)
LEMMA SudoInvariant ==
    ASSUME RInv, NEW t \in Threads, NEW op \in Ops \ {"none"}, NEW f \in Files, Sudo(t, op, f)
    PROVE  RInv'
<1>1. Registry /\ ThreadTypes /\ Locking /\ Unloading /\ Calling /\ Memory
  BY InvariantParts
<1>2. /\ UNCHANGED <<loader, mtx, boot, ev, queue>>
      /\ pc[t] = "handling"
      /\ pc' = [pc EXCEPT ![t] = FirstStep(op)]
      /\ ~Refused(op, f)
  BY DEF Sudo
<1>3. \E S \in SUBSET Object :
         cmd' = [cmd EXCEPT ![t] = [op |-> op, file |-> f, targets |-> S]]
  <2>1. Loaded(moduleList) \in SUBSET Object
    BY <1>1 DEF Registry, LoaderTypes, Loaded
  <2> QED
    BY <2>1 DEF Sudo
<1>4. /\ FirstStep(op) \in Steps \ {"dtor", "idle", "wait", "calling"}
      /\ FirstStep(op) = "unload" => op \in {"unload", "reload"}
  BY DEF FirstStep, Ops, Steps
<1>5. Registry'
  <2>1. LoaderTypes' /\ Keyed' /\ moduleList' = modules'
    BY <1>1, <1>2 DEF loader, Registry, LoaderTypes, Keyed
  <2>2. Order' /\ HandlersLoaded' /\ Complete'
    BY <1>1, <1>2 DEF loader, Registry, Order, Increasing, HandlersLoaded, Complete, Handlers,
                      Loaded, Range
  <2> QED
    BY <2>1, <2>2 DEF Registry
<1>6. ThreadTypes' /\ \A u \in Threads : u # t => pc'[u] = pc[u] /\ cmd'[u] = cmd[u]
  BY <1>1, <1>2, <1>3, <1>4 DEF ThreadTypes
<1>7. Calling'
  BY <1>1, <1>2, <1>4 DEF Calling, ThreadTypes
<1>8. pc'[t] # "dtor" /\ (pc'[t] = "unload" => cmd'[t].file # Diag)
  BY <1>1, <1>2, <1>3, <1>4 DEF ThreadTypes, Refused
<1>9. Booted
  BY <1>1, <1>2 DEF Locking
<1> QED
  BY <1>2, <1>5, <1>6, <1>7, <1>8, <1>9, StepOutsideUnload

LEMMA LoadInvariant ==
    ASSUME RInv, NEW t \in Threads, Load(t)
    PROVE  RInv'
<1>1. Registry /\ ThreadTypes /\ Locking /\ Unloading /\ Calling /\ Memory
  BY InvariantParts
<1>2. cmd[t].file \in Files
  BY <1>1 DEF ThreadTypes
<1>3. /\ pc[t] = "load" /\ mtx = Free
      /\ UNCHANGED <<mtx, boot, ev>>
      /\ LoadSucceeds(cmd[t].file) \/ LoadFails(cmd[t].file) \/ LoadThrows(cmd[t].file)
  BY DEF Load
<1>4. Registry' /\ (alive = Loaded(modules) => alive' = Loaded(modules)')
  BY <1>1, <1>2, <1>3, LoadKeepsRegistry
<1>5. /\ queue[t] # <<>>
      /\ \/ pc' = [pc EXCEPT ![t] = "reply"] /\ UNCHANGED <<queue, cmd>>
         \/ /\ pc' = [pc EXCEPT ![t] = "calling"]
            /\ queue' = [queue EXCEPT ![t] = Tail(queue[t])]
            /\ cmd' = [cmd EXCEPT ![t] = NoCommand]
  BY <1>1, <1>3 DEF Load, Calling
<1>6. ThreadTypes'
  <2>1. queue[t] \in Seq(Object)
    BY <1>1 DEF ThreadTypes
  <2>2. Tail(queue[t]) \in Seq(Object)
    BY <1>5, <2>1
  <2>3. NoCommand \in [op : Ops, file : Files, targets : SUBSET Object]
    BY LoaderAssumption DEF NoCommand, Ops
  <2>4. pc' \in [Threads -> Steps]
    BY <1>1, <1>5 DEF ThreadTypes, Steps
  <2>5. /\ queue' \in [Threads -> Seq(Object)]
        /\ cmd' \in [Threads -> [op : Ops, file : Files, targets : SUBSET Object]]
    BY <1>1, <1>5, <2>2, <2>3 DEF ThreadTypes
  <2> QED
    BY <1>1, <1>3, <2>4, <2>5 DEF ThreadTypes
<1>7. Calling' /\ \A u \in Threads : u # t => pc'[u] = pc[u] /\ cmd'[u] = cmd[u]
  BY <1>1, <1>5 DEF Calling, ThreadTypes
<1>8. pc[t] # "dtor" /\ pc'[t] \notin {"dtor", "unload"}
  BY <1>1, <1>3, <1>5 DEF ThreadTypes
<1>9. Booted
  BY <1>1, <1>3 DEF Locking
<1> QED
  BY <1>3, <1>4, <1>6, <1>7, <1>8, <1>9, StepOutsideUnload

LEMMA UnloadMissingInvariant ==
    ASSUME RInv, NEW t \in Threads, UnloadMissing(t)
    PROVE  RInv'
<1>1. Registry /\ ThreadTypes /\ Locking /\ Unloading /\ Calling /\ Memory
  BY InvariantParts
<1>2. /\ pc[t] = "unload" /\ mtx = Free
      /\ pc' = [pc EXCEPT ![t] = "reply"]
      /\ lasterror' \in Errors
      /\ UNCHANGED <<modules, moduleList, eventHandlers, alive, serial, mtx, boot, ev, queue, cmd>>
  BY DEF UnloadMissing, Errors
<1>3. Registry'
  <2>1. LoaderTypes' /\ Keyed' /\ moduleList' = modules'
    BY <1>1, <1>2 DEF Registry, LoaderTypes, Keyed
  <2>2. Order' /\ HandlersLoaded' /\ Complete'
    BY <1>1, <1>2 DEF Registry, Order, Increasing, HandlersLoaded, Complete, Handlers,
                      Loaded, Range
  <2> QED
    BY <2>1, <2>2 DEF Registry
<1>4. alive = Loaded(modules) => alive' = Loaded(modules)'
  BY <1>2 DEF Loaded
<1>5. /\ ThreadTypes' /\ Calling' /\ pc'[t] = "reply"
      /\ \A u \in Threads : u # t => pc'[u] = pc[u] /\ cmd'[u] = cmd[u]
  BY <1>1, <1>2 DEF ThreadTypes, Steps, Calling
<1>6. Booted
  BY <1>1, <1>2 DEF Locking
<1> QED
  BY <1>2, <1>3, <1>4, <1>5, <1>6, StepOutsideUnload

(* Unload() takes the mutex and the module out of the registry: the object
   is now Doomed, and nothing else names it. *)
LEMMA UnloadBeginInvariant ==
    ASSUME RInv, NEW t \in Threads, UnloadBegin(t)
    PROVE  RInv'
<1> DEFINE o == modules[cmd[t].file]
           c == [cmd[t] EXCEPT !.targets = {o}]
<1>1. Registry /\ ThreadTypes /\ Locking /\ Unloading /\ Calling /\ Memory
  BY InvariantParts
<1>2. /\ pc[t] = "unload" /\ mtx = Free /\ mtx' = t
      /\ pc' = [pc EXCEPT ![t] = "dtor"]
      /\ cmd' = [cmd EXCEPT ![t] = c]
      /\ UNCHANGED <<alive, boot, ev, queue>>
  BY DEF UnloadBegin
<1>3. cmd[t] \in [op : Ops, file : Files, targets : SUBSET Object]
  BY <1>1 DEF ThreadTypes
<1>4. Registry' /\ o \in Object /\ Loaded(modules)' = Loaded(modules) \ {o}
  BY <1>1, <1>3, UnloadKeepsRegistry
<1>5. c.targets = {o} /\ c.file = cmd[t].file
      /\ c \in [op : Ops, file : Files, targets : SUBSET Object]
  BY <1>3, <1>4
<1>6. o \in Loaded(modules)
  BY <1>3 DEF Loaded, UnloadBegin
<1> HIDE DEF o, c
<1>7. ThreadTypes' /\ Calling'
  BY <1>1, <1>2, <1>5 DEF ThreadTypes, Steps, Calling
<1>8. \A u \in Threads : pc[u] # "dtor"
  BY <1>1, <1>2, LoaderAssumption DEF Locking
<1>9. /\ \A u \in Threads : pc'[u] = "dtor" <=> u = t
      /\ \A u \in Threads : u # t => pc'[u] = pc[u] /\ cmd'[u] = cmd[u]
      /\ cmd'[t] = c
  BY <1>1, <1>2, <1>8 DEF ThreadTypes
<1>10. Locking'
  <2>1. Booted /\ Booted'
    BY <1>1, <1>2 DEF Locking, Booted
  <2> QED
    BY <1>2, <1>9, <2>1 DEF Locking
<1>11. Unloading'
  BY <1>1, <1>2, <1>4, <1>5, <1>8, <1>9 DEF Unloading
<1>12. Memory'
  <2>1. {u \in Threads : mtx' = u /\ pc'[u] = "dtor"} = {t}
    BY <1>2, <1>9
  <2>2. Doomed' = {o}
    BY <1>5, <1>9, <2>1 DEF Doomed
  <2>3. Doomed = {}
    BY <1>8 DEF Doomed
  <2> QED
    BY <1>1, <1>2, <1>4, <1>6, <2>2, <2>3 DEF Memory
<1>13. (Registry /\ ThreadTypes /\ Locking /\ Unloading /\ Calling /\ Memory)' => RInv'
  BY InvariantParts, PTL
<1> QED
  BY <1>4, <1>7, <1>10, <1>11, <1>12, <1>13

(* The destructor has run: exactly the doomed object leaves memory. *)
LEMMA UnloadEndInvariant ==
    ASSUME RInv, NEW t \in Threads, UnloadEnd(t)
    PROVE  RInv'
<1> DEFINE c == [cmd[t] EXCEPT !.targets = {}]
           next == IF cmd[t].op = "reload" THEN "load" ELSE "reply"
<1>1. Registry /\ ThreadTypes /\ Locking /\ Unloading /\ Calling /\ Memory
  BY InvariantParts
<1>2. /\ pc[t] = "dtor" /\ mtx' = Free
      /\ pc' = [pc EXCEPT ![t] = next]
      /\ cmd' = [cmd EXCEPT ![t] = c]
      /\ alive' = alive \ cmd[t].targets
      /\ UNCHANGED <<modules, moduleList, eventHandlers, lasterror, serial, boot, ev, queue>>
  BY DEF UnloadEnd
<1>3. cmd[t] \in [op : Ops, file : Files, targets : SUBSET Object]
  BY <1>1 DEF ThreadTypes
<1>4. c \in [op : Ops, file : Files, targets : SUBSET Object]
  BY <1>3
<1>5. next \in {"load", "reply"}
  OBVIOUS
<1>6. mtx = t /\ \A u \in Threads : u # t => pc[u] # "dtor"
  BY <1>1, <1>2 DEF Locking
<1> HIDE DEF c, next
<1>7. Registry'
  <2>1. LoaderTypes' /\ Keyed' /\ moduleList' = modules'
    BY <1>1, <1>2 DEF Registry, LoaderTypes, Keyed
  <2>2. Order' /\ HandlersLoaded' /\ Complete'
    BY <1>1, <1>2 DEF Registry, Order, Increasing, HandlersLoaded, Complete, Handlers,
                      Loaded, Range
  <2> QED
    BY <2>1, <2>2 DEF Registry
<1>8. ThreadTypes'
  BY <1>1, <1>2, <1>4, <1>5 DEF ThreadTypes, Steps
<1>9. Calling'
  BY <1>1, <1>2 DEF ThreadTypes, Calling
<1>10. /\ \A u \in Threads : pc'[u] # "dtor"
       /\ \A u \in Threads : u # t => pc'[u] = pc[u] /\ cmd'[u] = cmd[u]
       /\ pc'[t] # "unload"
  BY <1>1, <1>2, <1>5, <1>6 DEF ThreadTypes
<1>11. Locking'
  <2>1. Booted /\ Booted'
    BY <1>1, <1>2 DEF Locking, Booted
  <2>2. Free \notin Threads
    BY LoaderAssumption
  <2> QED
    BY <1>2, <1>10, <2>1, <2>2 DEF Locking
<1>12. Unloading'
  BY <1>1, <1>10 DEF Unloading
<1>13. Memory'
  <2>1. {u \in Threads : mtx = u /\ pc[u] = "dtor"} = {t}
    BY <1>2, <1>6
  <2>2. Doomed = cmd[t].targets
    BY <2>1 DEF Doomed
  <2>3. Doomed' = {}
    BY <1>10 DEF Doomed
  <2>4. cmd[t].targets \cap Loaded(modules) = {}
    BY <1>1, <1>2 DEF Unloading
  <2>5. Loaded(modules)' = Loaded(modules)
    BY <1>2 DEF Loaded
  <2> QED
    BY <1>1, <1>2, <2>2, <2>3, <2>4, <2>5 DEF Memory
<1>14. (Registry /\ ThreadTypes /\ Locking /\ Unloading /\ Calling /\ Memory)' => RInv'
  BY InvariantParts, PTL
<1> QED
  BY <1>7, <1>8, <1>9, <1>11, <1>12, <1>13, <1>14

(* LoadAll() before any thread dispatches. *)
LEMMA BootInvariant ==
    ASSUME RInv, BootLoad
    PROVE  RInv'
<1>1. Registry /\ ThreadTypes /\ Locking /\ Unloading /\ Calling /\ Memory
  BY InvariantParts
<1>2. /\ boot <= Len(Config)
      /\ LoadSucceeds(Config[boot]) \/ LoadFails(Config[boot])
      /\ boot' = boot + 1
      /\ UNCHANGED <<mtx, pc, ev, queue, cmd>>
      /\ \A t \in Threads : pc[t] = "idle"
  <2>1. boot \in Int /\ Len(Config) \in Int
    BY <1>1, LoaderAssumption DEF ThreadTypes
  <2>2. boot <= Len(Config)
    BY <2>1 DEF BootLoad, Booted
  <2> QED
    BY <1>1, <2>2 DEF BootLoad, threads, Locking
<1>3. boot \in 1..Len(Config) /\ Len(Config) \in Nat
  BY <1>1, <1>2, LoaderAssumption DEF ThreadTypes
<1>4. Config[boot] \in Files
  BY <1>3, LoaderAssumption
<1>5. Registry' /\ (alive = Loaded(modules) => alive' = Loaded(modules)')
  BY <1>1, <1>2, <1>4, LoadKeepsRegistry
<1>6. ThreadTypes'
  <2>1. boot' \in 1..(Len(Config) + 1)
    BY <1>2, <1>3
  <2> QED
    BY <1>1, <1>2, <2>1 DEF ThreadTypes
<1>7. Locking' /\ Unloading' /\ Calling'
  BY <1>1, <1>2 DEF Locking, Unloading, Calling
<1>8. Memory'
  <2>1. Doomed = {} /\ Doomed' = {}
    BY <1>2 DEF Doomed
  <2> QED
    BY <1>1, <1>5, <2>1 DEF Memory
<1>9. (Registry /\ ThreadTypes /\ Locking /\ Unloading /\ Calling /\ Memory)' => RInv'
  BY InvariantParts, PTL
<1> QED
  BY <1>5, <1>6, <1>7, <1>8, <1>9

LEMMA NextInvariant == RInv /\ [Next]_vars => RInv'
<1> SUFFICES ASSUME RInv, [Next]_vars PROVE RInv'
  OBVIOUS
<1>1. CASE BootLoad
  BY <1>1, BootInvariant
<1>2. CASE BootThrows
  BY <1>2, RestartInvariant DEF BootThrows
<1>3. ASSUME NEW t \in Threads, \E e \in Events : Receive(t, e)
      PROVE  RInv'
  BY <1>3, DispatchInvariant
<1>4. ASSUME NEW t \in Threads, ThreadStep(t)
      PROVE  RInv'
  <2>1. CASE \/ CopyHandlers(t) \/ CallHandler(t) \/ NextHandler(t) \/ EatEvent(t)
             \/ EndOfList(t) \/ ListModule(t) \/ Reply(t)
    BY <2>1, DispatchInvariant
  <2>2. CASE \E op \in Ops \ {"none"}, f \in Files : Sudo(t, op, f)
    BY <2>2, SudoInvariant
  <2>3. CASE SudoRestart(t) \/ Fault(t)
    BY <2>3, RestartInvariant DEF SudoRestart, Fault
  <2>4. CASE Load(t)
    BY <2>4, LoadInvariant
  <2>5. CASE UnloadMissing(t)
    BY <2>5, UnloadMissingInvariant
  <2>6. CASE UnloadBegin(t)
    BY <2>6, UnloadBeginInvariant
  <2>7. CASE UnloadEnd(t)
    BY <2>7, UnloadEndInvariant
  <2> QED
    BY <1>4, <2>1, <2>2, <2>3, <2>4, <2>5, <2>6, <2>7 DEF ThreadStep
<1>5. CASE UNCHANGED vars
  <2>1. UNCHANGED <<modules, moduleList, eventHandlers, lasterror, alive, serial,
                    mtx, boot, pc, ev, queue, cmd>>
    BY <1>5 DEF vars, loader, threads
  <2>2. TypeOK' /\ Keyed' /\ Locking' /\ Unloading' /\ Calling'
    BY <2>1 DEF RInv, TypeOK, Keyed, Locking, Booted, Unloading, Loaded, Calling
  <2>3. Order' /\ HandlersLoaded'
    BY <2>1 DEF RInv, Order, Increasing, HandlersLoaded, Handlers, Range
  <2>4. NothingHalfLoaded'
    BY <2>1 DEF RInv, NothingHalfLoaded, Loaded, Handlers, Range
  <2> QED
    BY <2>2, <2>3, <2>4 DEF RInv
<1> QED
  BY <1>1, <1>2, <1>3, <1>4, <1>5 DEF Next

(* Every reachable state satisfies the inductive invariant. *)
THEOREM LoaderInvariant == Spec => []RInv
  BY InitInvariant, NextInvariant, PTL DEF Spec
-----------------------------------------------------------------------------
(* The theorems.                                                           *)

(* The state of the loader and of its threads keeps its type. *)
THEOREM TypeCorrect == Spec => []TypeOK
<1>1. RInv => TypeOK
  BY DEF RInv
<1> QED
  BY <1>1, LoaderInvariant, PTL

(* No handler list ever names a module that is not loaded. *)
THEOREM HandlersAreLoaded == Spec => []HandlersLoaded
<1>1. RInv => HandlersLoaded
  BY DEF RInv
<1> QED
  BY <1>1, LoaderInvariant, PTL

(* However the commands of any number of threads interleave, memory, Modules,
   ModuleList and the handler lists agree. *)
THEOREM RegistryAgrees == Spec => []NothingHalfLoaded
<1>1. RInv => NothingHalfLoaded
  BY DEF RInv
<1> QED
  BY <1>1, LoaderInvariant, PTL

(* Each event is dispatched in load order, to a module at most once. *)
THEOREM LoadOrderIsDispatchOrder == Spec => []DispatchInLoadOrder
<1>1. RInv => DispatchInLoadOrder
  BY DEF RInv, Order, Increasing, DispatchInLoadOrder
<1> QED
  BY <1>1, LoaderInvariant, PTL

(* The non-recursive mutex is never taken again by the thread that has it. *)
THEOREM MutexIsNotTakenTwice == Spec => []NoSelfDeadlock
<1>1. RInv => NoSelfDeadlock
  BY DEF RInv, Locking, NoSelfDeadlock
<1> QED
  BY <1>1, LoaderInvariant, PTL

(* diagnostics is unloaded by the end of the process and by nothing else. *)
THEOREM DiagnosticsStays == Spec => DiagStays
<1>1. ASSUME RInv, [Next]_vars, modules[Diag] # NoObject
      PROVE  modules'[Diag] = modules[Diag] \/ boot' = 1
  <2>1. Diag \in Files /\ modules \in [Files -> Object \cup {NoObject}]
    BY <1>1, LoaderAssumption DEF RInv, TypeOK
  <2>2. ASSUME NEW f \in Files, LoadSucceeds(f) \/ LoadFails(f) \/ LoadThrows(f)
        PROVE  modules'[Diag] = modules[Diag]
    BY <1>1, <2>1, <2>2 DEF LoadSucceeds, LoadFails, LoadThrows, CanConstruct
  <2>3. \A t \in Threads : cmd[t].file \in Files
    BY <1>1 DEF RInv, TypeOK
  <2>4. CASE BootLoad
    <3>1. Config[boot] \in Files
      <4>1. boot \in 1..(Len(Config) + 1) /\ Len(Config) \in Nat /\ ~(boot > Len(Config))
        BY <1>1, <2>4, LoaderAssumption DEF RInv, TypeOK, BootLoad, Booted
      <4>2. boot \in 1..Len(Config)
        BY <4>1
      <4> QED
        BY <4>2, LoaderAssumption
    <3> QED
      BY <2>2, <2>4, <3>1 DEF BootLoad
  <2>5. CASE BootThrows \/ \E t \in Threads : SudoRestart(t) \/ Fault(t)
    BY <2>5 DEF BootThrows, SudoRestart, Fault, Restart
  <2>6. ASSUME NEW t \in Threads, Load(t)
        PROVE  modules'[Diag] = modules[Diag]
    BY <2>2, <2>3, <2>6 DEF Load
  <2>7. ASSUME NEW t \in Threads, UnloadBegin(t)
        PROVE  modules'[Diag] = modules[Diag]
    <3>1. cmd[t].file # Diag
      BY <1>1, <2>7 DEF RInv, Unloading, UnloadBegin
    <3> QED
      BY <2>1, <2>7, <3>1 DEF UnloadBegin
  <2>8. ASSUME NEW t \in Threads,
               \/ \E e \in Events : Receive(t, e)
               \/ CopyHandlers(t) \/ CallHandler(t) \/ NextHandler(t) \/ EatEvent(t)
               \/ EndOfList(t) \/ ListModule(t) \/ Reply(t)
               \/ \E op \in Ops \ {"none"}, f \in Files : Sudo(t, op, f)
               \/ UnloadMissing(t) \/ UnloadEnd(t)
        PROVE  modules' = modules
    BY <2>8 DEF Receive, CopyHandlers, CallHandler, NextHandler, EatEvent, EndOfList,
                ListModule, Reply, Finish, Sudo, UnloadMissing, UnloadEnd, loader
  <2>9. CASE UNCHANGED vars
    BY <2>9 DEF vars, loader
  <2> QED
    BY <1>1, <2>4, <2>5, <2>6, <2>7, <2>8, <2>9 DEF Next, ThreadStep
<1>2. RInv /\ [Next]_vars =>
        [modules[Diag] # NoObject => modules'[Diag] = modules[Diag] \/ boot' = 1]_vars
  BY <1>1
<1> QED
  BY <1>2, LoaderInvariant, PTL DEF Spec, DiagStays
-----------------------------------------------------------------------------
(* With one thread that has handlers to call, hot unloading is safe.       *)

(* Only t delivers events that a file can attach to: one shard, and a       *)
(* presence thread whose event nothing attaches to.                         *)
Alone(t) ==
    \A u \in Threads : u # t =>
        \A e \in EventsOn[u] : \A f \in Files : e \notin AttachedBy[f]

(* The other threads copy empty lists, and what is left of t's list is in
   memory until t's own sudo command takes something out of it. *)
OneDispatcher(t) ==
    /\ \A e \in Events : \A o \in Handlers(e) : e \in AttachedBy[o.file]
    /\ \A u \in Threads : u # t =>
          /\ queue[u] = <<>>
          /\ pc[u] = "idle" \/ ev[u] \in EventsOn[u]
    /\ pc[t] \in {"calling", "handling"} => Range(queue[t]) \subseteq alive

LEMMA AttachedOnly ==
    ASSUME RInv, RInv', NEW f \in Files,
           LoadSucceeds(f) \/ LoadFails(f) \/ LoadThrows(f),
           \A e \in Events : \A o \in Handlers(e) : e \in AttachedBy[o.file]
    PROVE  \A e \in Events : \A o \in Handlers(e)' : e \in AttachedBy[o.file]
<1>1. CASE LoadFails(f)
  BY <1>1 DEF LoadFails, Handlers, Range
<1>2. CASE LoadSucceeds(f) \/ LoadThrows(f)
  <2>1. /\ CanConstruct(f)
        /\ eventHandlers' = Attach(eventHandlers, NextObject(f))
        /\ serial' = serial + 1
    BY <1>2 DEF LoadSucceeds, LoadThrows
  <2>2. LoaderTypes /\ Order
    BY InvariantParts DEF Registry
  <2>3. \A e \in Events :
           Handlers(e)' = IF e \in AttachedBy[f] THEN Handlers(e) \cup {NextObject(f)}
                          ELSE Handlers(e)
    BY <2>1, <2>2, AttachKeepsOrder
  <2>4. NextObject(f).file = f
    BY DEF NextObject
  <2> QED
    BY <2>3, <2>4
<1> QED
  BY <1>1, <1>2

(* An unload only shortens the handler lists. *)
LEMMA DetachedOnly ==
    ASSUME RInv, NEW t \in Threads, UnloadBegin(t)
    PROVE  \A e \in Events : Handlers(e)' \subseteq Handlers(e)
<1> DEFINE o == modules[cmd[t].file]
<1>1. Registry /\ cmd[t].file \in Files
  BY InvariantParts DEF ThreadTypes
<1>2. o \in Object
  BY <1>1, UnloadKeepsRegistry
<1>3. eventHandlers' = DetachAll(eventHandlers, o)
  BY DEF UnloadBegin
<1> HIDE DEF o
<1>4. ASSUME NEW e \in Events
      PROVE  Range(eventHandlers'[e]) \subseteq Range(eventHandlers[e])
  <2>1. eventHandlers[e] \in Seq(Object) /\ Increasing(eventHandlers[e])
    BY <1>1 DEF Registry, LoaderTypes, Order
  <2>2. eventHandlers'[e] = EraseFirst(eventHandlers[e], o)
    BY <1>3 DEF DetachAll
  <2> QED
    BY <1>2, <2>1, <2>2, EraseFirstProperties
<1>5. \A e \in Events : Handlers(e)' = Range(eventHandlers'[e])
  BY DEF Handlers, Range
<1> QED
  BY <1>4, <1>5 DEF Handlers

LEMMA OneDispatcherInit ==
    ASSUME NEW t \in Threads, Init
    PROVE  OneDispatcher(t)
<1>1. \A e \in Events : Handlers(e) = {}
  <2>1. \A e \in Events : eventHandlers[e] = <<>>
    BY DEF Init
  <2>2. \A e \in Events : DOMAIN eventHandlers[e] = {}
    BY <2>1
  <2> QED
    BY <2>2 DEF Handlers, Range
<1> QED
  BY <1>1 DEF Init, OneDispatcher

(* A thread that has nothing to call gets no further than an empty list. *)
LEMMA IdlersStep ==
    ASSUME NEW t \in Threads, Alone(t), RInv, OneDispatcher(t),
           NEW u \in Threads, u # t, ThreadStep(u)
    PROVE  /\ UNCHANGED loader
           /\ queue' = [queue EXCEPT ![u] = <<>>]
           /\ pc'[t] = pc[t]
           /\ \/ pc'[u] = "idle"
              \/ ev'[u] = ev[u] /\ pc[u] # "idle"
           /\ \A v \in Threads : v # u => pc'[v] = pc[v] /\ ev'[v] = ev[v]
<1>1. /\ queue[u] = <<>> /\ pc[u] \in {"idle", "wait", "calling"}
      /\ pc[u] # "idle" => ev[u] \in EventsOn[u]
  BY DEF OneDispatcher, RInv, Calling
<1>2. /\ pc \in [Threads -> Steps] /\ ev \in [Threads -> Events]
      /\ queue \in [Threads -> Seq(Object)] /\ eventHandlers \in [Events -> Seq(Object)]
  BY DEF RInv, TypeOK
<1>3. CopyHandlers(u) \/ EndOfList(u)
  BY <1>1 DEF ThreadStep, CallHandler, NextHandler, EatEvent, Sudo, SudoRestart, Load,
              UnloadMissing, UnloadBegin, UnloadEnd, ListModule, Reply, Fault
<1>4. CASE CopyHandlers(u)
  <2>1. pc[u] = "wait" /\ ev[u] \in EventsOn[u] /\ ev[u] \in Events
    BY <1>1, <1>2, <1>4 DEF CopyHandlers
  <2>2. \A f \in Files : ev[u] \notin AttachedBy[f]
    BY <2>1 DEF Alone
  <2>3. \A o \in Handlers(ev[u]) : o.file \in Files /\ ev[u] \in AttachedBy[o.file]
    <3>1. \A o \in Handlers(ev[u]) : o \in Object
      BY <1>2, <2>1 DEF Handlers, Range
    <3> QED
      BY <2>1, <3>1 DEF OneDispatcher, Object
  <2>4. DOMAIN eventHandlers[ev[u]] = {}
    BY <2>2, <2>3 DEF Handlers, Range
  <2>5. eventHandlers[ev[u]] = <<>>
    <3>1. eventHandlers[ev[u]] \in Seq(Object)
      BY <1>2, <2>1
    <3>2. 1..Len(eventHandlers[ev[u]]) = {}
      BY <2>4, <3>1, LenProperties
    <3>3. Len(eventHandlers[ev[u]]) \notin Nat \ {0}
      BY <3>2
    <3> QED
      BY <3>1, <3>3, EmptySeq
  <2> QED
    BY <1>2, <1>4, <2>1, <2>5 DEF CopyHandlers
<1>5. CASE EndOfList(u)
  BY <1>2, <1>5 DEF EndOfList, Finish
<1> QED
  BY <1>3, <1>4, <1>5

(* One step of the thread that has the handlers. *)
LEMMA DispatcherStep ==
    ASSUME NEW t \in Threads, Throwing = {}, RInv, RInv', OneDispatcher(t), ThreadStep(t)
    PROVE  OneDispatcher(t)'
<1>1. /\ pc \in [Threads -> Steps] /\ ev \in [Threads -> Events]
      /\ queue \in [Threads -> Seq(Object)] /\ eventHandlers \in [Events -> Seq(Object)]
      /\ cmd[t].file \in Files
  BY DEF RInv, TypeOK
<1>2. CASE SudoRestart(t) \/ Fault(t)
  <2>1. Restart => Init'
    BY DEF Restart, Init
  <2>2. Init' => OneDispatcher(t)'
    BY OneDispatcherInit, PTL
  <2> QED
    BY <1>2, <2>1, <2>2 DEF SudoRestart, Fault
<1>3. CASE ~(SudoRestart(t) \/ Fault(t))
  <2>1. \A e \in Events : \A o \in Handlers(e)' : e \in AttachedBy[o.file]
    <3>1. CASE Load(t)
      BY <1>1, <3>1, AttachedOnly DEF Load, OneDispatcher
    <3>2. CASE UnloadBegin(t)
      BY <3>2, DetachedOnly DEF OneDispatcher
    <3>3. CASE ~Load(t) /\ ~UnloadBegin(t)
      <4>1. eventHandlers' = eventHandlers
        BY <1>3, <3>3 DEF ThreadStep, CopyHandlers, CallHandler, NextHandler, EatEvent, EndOfList,
               Sudo, UnloadMissing, UnloadEnd, ListModule, Reply, Finish, loader
      <4> QED
        BY <4>1 DEF OneDispatcher, Handlers, Range
    <3> QED
      BY <3>1, <3>2, <3>3
  <2>2. ASSUME NEW u \in Threads, u # t
        PROVE  queue'[u] = queue[u] /\ pc'[u] = pc[u] /\ ev'[u] = ev[u]
    BY <1>1, <1>3, <2>2 DEF ThreadStep, CopyHandlers, CallHandler, NextHandler, EatEvent, EndOfList,
           Sudo, Load, UnloadMissing, UnloadBegin, UnloadEnd, ListModule, Reply, Finish
  <2>3. ASSUME pc'[t] \in {"calling", "handling"}
        PROVE  Range(queue'[t]) \subseteq alive'
    <3>1. CopyHandlers(t) \/ CallHandler(t) \/ NextHandler(t)
      <4>1. ~LoadThrows(cmd[t].file)
        BY DEF LoadThrows
      <4>2. \A op \in Ops \ {"none"} : FirstStep(op) \notin {"calling", "handling"}
        BY DEF FirstStep, Ops
      <4> QED
        BY <1>1, <1>3, <2>3, <4>1, <4>2
           DEF ThreadStep, EatEvent, EndOfList, Sudo, Load, UnloadMissing, UnloadBegin,
               UnloadEnd, ListModule, Reply, Finish
    <3>2. alive' = alive
      BY <3>1 DEF CopyHandlers, CallHandler, NextHandler, loader
    <3>3. CASE CopyHandlers(t)
      <4>1. queue'[t] = eventHandlers[ev[t]] /\ ev[t] \in Events
        BY <1>1, <3>3 DEF CopyHandlers
      <4>2. ASSUME NEW o \in Handlers(ev[t])
            PROVE  o \in alive
        <5>1. o \in Object /\ o # NoObject
          BY <1>1, <4>1, LoaderAssumption DEF Handlers, Range
        <5>2. modules[o.file] = o /\ o.file \in Files
          BY <4>1, <5>1 DEF RInv, HandlersLoaded, Object
        <5>3. o \in Loaded(modules)
          BY <5>1, <5>2 DEF Loaded
        <5> QED
          BY <5>3 DEF RInv, NothingHalfLoaded
      <4> QED
        BY <3>2, <4>1, <4>2 DEF Handlers
    <3>4. CASE CallHandler(t)
      <4>1. Range(queue[t]) \subseteq alive
        BY <3>4 DEF OneDispatcher, CallHandler
      <4> QED
        BY <3>2, <3>4, <4>1 DEF CallHandler
    <3>5. CASE NextHandler(t)
      <4>1. Range(queue[t]) \subseteq alive
        BY <3>5 DEF OneDispatcher, NextHandler
      <4>2. queue[t] # <<>> /\ queue[t] \in Seq(Object)
        BY <1>1, <3>5 DEF NextHandler, RInv, Calling
      <4>3. queue'[t] = Tail(queue[t])
        BY <1>1, <3>5 DEF NextHandler
      <4>4. Range(Tail(queue[t])) \subseteq Range(queue[t])
        BY <4>2 DEF Range
      <4> QED
        BY <3>2, <4>1, <4>3, <4>4
    <3> QED
      BY <3>1, <3>3, <3>4, <3>5
  <2> QED
    BY <2>1, <2>2, <2>3 DEF OneDispatcher
<1> QED
  BY <1>2, <1>3

LEMMA OneDispatcherStep ==
    ASSUME NEW t \in Threads, Alone(t), Throwing = {},
           RInv, RInv', OneDispatcher(t), [Next]_vars
    PROVE  OneDispatcher(t)'
<1>1. /\ pc \in [Threads -> Steps] /\ ev \in [Threads -> Events]
      /\ queue \in [Threads -> Seq(Object)]
  BY DEF RInv, TypeOK
<1>2. CASE BootLoad
  <2>1. Config[boot] \in Files /\ UNCHANGED <<pc, ev, queue>> /\ pc[t] = "idle"
    <3>1. boot \in 1..(Len(Config) + 1) /\ Len(Config) \in Nat /\ ~(boot > Len(Config))
      BY <1>2, LoaderAssumption DEF RInv, TypeOK, BootLoad, Booted
    <3>2. boot \in 1..Len(Config)
      BY <3>1
    <3> QED
      BY <1>2, <3>2, LoaderAssumption DEF BootLoad, threads, RInv, Locking
  <2>2. \A e \in Events : \A o \in Handlers(e)' : e \in AttachedBy[o.file]
    BY <1>2, <2>1, AttachedOnly DEF BootLoad, OneDispatcher
  <2> QED
    BY <2>1, <2>2 DEF OneDispatcher
<1>3. CASE BootThrows
  BY <1>3 DEF BootThrows
<1>4. ASSUME NEW u \in Threads, NEW e \in Events, Receive(u, e)
      PROVE  OneDispatcher(t)'
  <2>1. UNCHANGED <<loader, queue>> /\ pc'[u] = "wait" /\ ev'[u] \in EventsOn[u]
        /\ \A v \in Threads : v # u => pc'[v] = pc[v] /\ ev'[v] = ev[v]
    BY <1>1, <1>4 DEF Receive
  <2> QED
    BY <2>1 DEF OneDispatcher, loader, Handlers, Range
<1>5. CASE ThreadStep(t)
  BY <1>5, DispatcherStep
<1>6. ASSUME NEW u \in Threads, u # t, ThreadStep(u)
      PROVE  OneDispatcher(t)'
  <2>1. /\ UNCHANGED loader
        /\ queue' = [queue EXCEPT ![u] = <<>>]
        /\ pc'[t] = pc[t]
        /\ \/ pc'[u] = "idle"
           \/ ev'[u] = ev[u] /\ pc[u] # "idle"
        /\ \A v \in Threads : v # u => pc'[v] = pc[v] /\ ev'[v] = ev[v]
    BY <1>6, IdlersStep
  <2>2. \A e \in Events : \A o \in Handlers(e)' : e \in AttachedBy[o.file]
    BY <2>1 DEF OneDispatcher, loader, Handlers, Range
  <2>3. ASSUME NEW v \in Threads, v # t
        PROVE  queue'[v] = <<>> /\ (pc'[v] = "idle" \/ ev'[v] \in EventsOn[v])
    BY <1>1, <2>1, <2>3 DEF OneDispatcher
  <2>4. pc'[t] \in {"calling", "handling"} => Range(queue'[t]) \subseteq alive'
    BY <1>1, <1>6, <2>1 DEF OneDispatcher, loader
  <2> QED
    BY <2>2, <2>3, <2>4 DEF OneDispatcher
<1>7. CASE UNCHANGED vars
  BY <1>7 DEF vars, loader, threads, OneDispatcher, Handlers, Range
<1> QED
  BY <1>2, <1>3, <1>4, <1>5, <1>6, <1>7 DEF Next

(* With one thread that has handlers to call and no constructor that throws,
   no handler of an unloaded module is called, because a sudo command eats
   the event whose list it may have made stale.  The run loader_unload_race
   shows that the first condition is needed. *)
THEOREM OneDispatcherIsSafe ==
    ASSUME NEW t \in Threads, Alone(t), Throwing = {}
    PROVE  Spec => []NoUseAfterUnload
<1>1. Init => OneDispatcher(t)
  BY OneDispatcherInit
<1>2. RInv /\ RInv' /\ OneDispatcher(t) /\ [Next]_vars => OneDispatcher(t)'
  BY OneDispatcherStep
<1>3. RInv /\ OneDispatcher(t) => NoUseAfterUnload
  <2> SUFFICES ASSUME RInv, OneDispatcher(t), NEW u \in Threads, pc[u] = "handling"
               PROVE  Head(queue[u]) \in alive
    BY DEF NoUseAfterUnload
  <2>1. queue[u] # <<>> /\ queue[u] \in Seq(Object)
    BY DEF RInv, Calling, TypeOK
  <2>2. u = t
    BY <2>1 DEF OneDispatcher
  <2>3. Head(queue[u]) \in Range(queue[u])
    BY <2>1 DEF Range
  <2> QED
    BY <2>2, <2>3 DEF OneDispatcher
<1> QED
  BY <1>1, <1>2, <1>3, LoaderInvariant, PTL DEF Spec
-----------------------------------------------------------------------------
(* With one thread that delivers messages, the listing is safe.            *)

(* One shard: no other thread can give a sudo command. *)
OneOwner(t) == \A u \in Threads : u # t => Message \notin EventsOn[u]

Commanding == {"load", "unload", "dtor", "listing", "reply"}

(* A command is worked on by the thread that got it as a message, and what it
   still has to list is loaded. *)
OneCommander(t) ==
    /\ \A u \in Threads : pc[u] # "idle" => ev[u] \in EventsOn[u]
    /\ \A u \in Threads : pc[u] \in Commanding => ev[u] = Message
    /\ pc[t] = "listing" => cmd[t].targets \subseteq Loaded(modules)

(* What one step of a thread may do to its own place and to Modules. *)
LEMMA CommandStep ==
    ASSUME RInv, NEW u \in Threads, ThreadStep(u), ~Restart
    PROVE  /\ ev' = ev /\ pc[u] # "idle"
           /\ \A v \in Threads : v # u => pc'[v] = pc[v] /\ cmd'[v] = cmd[v]
           /\ pc'[u] \in Commanding => pc[u] \in Commanding \/ ev[u] = Message
           /\ modules' = modules \/ (pc[u] \in {"load", "unload"} /\ pc'[u] # "listing")
           /\ pc'[u] = "listing" =>
                 /\ modules' = modules
                 /\ \/ cmd'[u].targets = Loaded(modules)
                    \/ pc[u] = "listing" /\ cmd'[u].targets \subseteq cmd[u].targets
<1>1. /\ pc \in [Threads -> Steps] /\ ev \in [Threads -> Events]
      /\ cmd \in [Threads -> [op : Ops, file : Files, targets : SUBSET Object]]
      /\ moduleList = modules
  BY DEF RInv, TypeOK, NothingHalfLoaded
<1> USE <1>1 DEF Commanding, loader
<1>2. CASE CopyHandlers(u) \/ CallHandler(u) \/ NextHandler(u)
  BY <1>2 DEF CopyHandlers, CallHandler, NextHandler
<1>3. CASE EatEvent(u) \/ EndOfList(u) \/ Reply(u)
  BY <1>3 DEF EatEvent, EndOfList, Reply, Finish
<1>4. ASSUME NEW op \in Ops \ {"none"}, NEW f \in Files, Sudo(u, op, f)
      PROVE  /\ ev[u] = Message /\ pc[u] # "idle" /\ UNCHANGED <<modules, ev>>
             /\ \A v \in Threads : v # u => pc'[v] = pc[v] /\ cmd'[v] = cmd[v]
             /\ pc'[u] = "listing" => cmd'[u].targets = Loaded(modules)
  <2>1. pc' = [pc EXCEPT ![u] = FirstStep(op)]
        /\ cmd' = [cmd EXCEPT ![u] =
                     [op |-> op, file |-> f,
                      targets |-> IF op = "modules" THEN Loaded(modules) ELSE {}]]
    BY <1>4 DEF Sudo
  <2>2. FirstStep(op) = "listing" => op = "modules"
    BY <1>4 DEF FirstStep, Ops
  <2> QED
    BY <1>4, <2>1, <2>2 DEF Sudo
<1>5. CASE Load(u)
  BY <1>5 DEF Load
<1>6. CASE UnloadMissing(u) \/ UnloadBegin(u) \/ UnloadEnd(u)
  BY <1>6 DEF UnloadMissing, UnloadBegin, UnloadEnd
<1>7. CASE ListModule(u)
  BY <1>7 DEF ListModule
<1>8. ~(SudoRestart(u) \/ Fault(u))
  BY DEF SudoRestart, Fault
<1> QED
  BY <1>2, <1>3, <1>4, <1>5, <1>6, <1>7, <1>8 DEF ThreadStep

(* Only the command itself changes the list that it walks, and it never does. *)
LEMMA OneCommanderStep ==
    ASSUME NEW t \in Threads, OneOwner(t), RInv, OneCommander(t), [Next]_vars
    PROVE  OneCommander(t)'
<1>1. pc \in [Threads -> Steps] /\ ev \in [Threads -> Events]
  BY DEF RInv, TypeOK
<1>2. CASE Restart
  BY <1>2 DEF Restart, OneCommander, Commanding
<1>3. CASE BootLoad
  <2>1. \A u \in Threads : pc[u] = "idle"
    BY <1>3 DEF BootLoad, RInv, Locking
  <2> QED
    BY <1>3, <2>1 DEF BootLoad, threads, OneCommander, Commanding
<1>4. ASSUME NEW u \in Threads, NEW e \in Events, Receive(u, e)
      PROVE  OneCommander(t)'
  BY <1>1, <1>4 DEF Receive, loader, OneCommander, Commanding
<1>5. ASSUME NEW u \in Threads, ThreadStep(u), ~Restart
      PROVE  OneCommander(t)'
  <2>1. /\ \A v \in Threads : pc'[v] # "idle" => ev'[v] \in EventsOn[v]
        /\ \A v \in Threads : pc'[v] \in Commanding => ev'[v] = Message
    BY <1>5, CommandStep DEF OneCommander
  <2>2. ASSUME pc'[t] = "listing"
        PROVE  cmd'[t].targets \subseteq Loaded(modules')
    <3>1. CASE u = t
      BY <1>5, <2>2, <3>1, CommandStep DEF OneCommander
    <3>2. CASE u # t
      <4>1. pc[u] \notin {"load", "unload"}
        BY <3>2 DEF OneCommander, OneOwner, Commanding
      <4>2. modules' = modules /\ pc[t] = "listing" /\ cmd'[t] = cmd[t]
        BY <1>5, <2>2, <3>2, <4>1, CommandStep
      <4> QED
        BY <4>2 DEF OneCommander
    <3> QED
      BY <3>1, <3>2
  <2> QED
    BY <2>1, <2>2 DEF OneCommander, Loaded
<1>6. CASE UNCHANGED vars
  BY <1>6 DEF vars, loader, threads, OneCommander, Loaded
<1> QED
  BY <1>2, <1>3, <1>4, <1>5, <1>6 DEF Next, BootThrows

(* `sudo modules` walks ModuleList without the mutex, and is safe as long as
   one shard gets messages: its own commands are the only ones that change
   the list.  The run loader_listing_race shows what a second shard does. *)
THEOREM OneShardListsSafely ==
    ASSUME NEW t \in Threads, OneOwner(t)
    PROVE  Spec => []ListingSafe
<1>1. Init => OneCommander(t)
  BY DEF Init, OneCommander, Commanding
<1>2. RInv /\ OneCommander(t) /\ [Next]_vars => OneCommander(t)'
  BY OneCommanderStep
<1>3. RInv /\ OneCommander(t) => ListingSafe
  <2> SUFFICES ASSUME RInv, OneCommander(t), NEW u \in Threads, pc[u] = "listing",
                      NEW o \in cmd[u].targets
               PROVE  moduleList[o.file] = o
    BY DEF ListingSafe
  <2>1. u = t
    BY DEF OneCommander, OneOwner, Commanding
  <2>2. PICK f \in Files : modules[f] = o /\ o # NoObject
    BY <2>1 DEF OneCommander, Loaded
  <2> QED
    BY <2>2 DEF RInv, Keyed, NothingHalfLoaded
<1> QED
  BY <1>1, <1>2, <1>3, LoaderInvariant, PTL DEF Spec
-----------------------------------------------------------------------------
(* With any number of threads, unloading is safe when nobody is calling.   *)

(* No module is unloaded while the list that some thread is walking still
   names it. *)
QuietUnloads ==
    [][\A f \in Files : modules[f] # NoObject /\ modules'[f] = NoObject =>
         \A t \in Threads :
            pc'[t] \in {"calling", "handling"} => modules[f] \notin Range(queue'[t])]_vars

(* What a thread has still to call is loaded. *)
Callable ==
    \A t \in Threads : pc[t] \in {"calling", "handling"} =>
        Range(queue[t]) \subseteq Loaded(modules)

(* Copying, calling and moving on keep to what was in the list. *)
LEMMA CallableDispatch ==
    ASSUME RInv, Throwing = {}, Callable, NEW t \in Threads,
           CopyHandlers(t) \/ CallHandler(t) \/ NextHandler(t)
    PROVE  Callable'
<1>1. /\ pc \in [Threads -> Steps] /\ ev \in [Threads -> Events]
      /\ queue \in [Threads -> Seq(Object)] /\ eventHandlers \in [Events -> Seq(Object)]
  BY DEF RInv, TypeOK
<1>2. modules' = modules /\ \A u \in Threads : u # t => pc'[u] = pc[u] /\ queue'[u] = queue[u]
  BY <1>1 DEF CopyHandlers, CallHandler, NextHandler, loader
<1>3. Range(queue'[t]) \subseteq Loaded(modules)
  <2>1. CASE CopyHandlers(t)
    <3>1. queue'[t] = eventHandlers[ev[t]] /\ ev[t] \in Events
      BY <1>1, <2>1 DEF CopyHandlers
    <3>2. ASSUME NEW o \in Handlers(ev[t])
          PROVE  o \in Loaded(modules)
      <4>1. o \in Object /\ o # NoObject
        BY <1>1, <3>1, LoaderAssumption DEF Handlers, Range
      <4>2. modules[o.file] = o /\ o.file \in Files
        BY <3>1, <4>1 DEF RInv, HandlersLoaded, Object
      <4> QED
        BY <4>1, <4>2 DEF Loaded
    <3> QED
      BY <3>1, <3>2 DEF Handlers
  <2>2. CASE CallHandler(t)
    BY <2>2 DEF CallHandler, Callable
  <2>3. CASE NextHandler(t)
    <3>1. queue[t] # <<>> /\ queue[t] \in Seq(Object) /\ queue'[t] = Tail(queue[t])
      BY <1>1, <2>3 DEF NextHandler, RInv, Calling
    <3>2. Range(Tail(queue[t])) \subseteq Range(queue[t])
      BY <3>1 DEF Range
    <3>3. Range(queue[t]) \subseteq Loaded(modules)
      BY <2>3 DEF NextHandler, Callable
    <3> QED
      BY <3>1, <3>2, <3>3
  <2> QED
    BY <2>1, <2>2, <2>3
<1> QED
  BY <1>2, <1>3 DEF Callable

(* A dispatch copies lists of loaded objects, and no unload takes one of them. *)
LEMMA CallableStep ==
    ASSUME RInv, Throwing = {}, Callable, [Next]_vars,
           \A f \in Files : modules[f] # NoObject /\ modules'[f] = NoObject =>
              \A t \in Threads :
                 pc'[t] \in {"calling", "handling"} => modules[f] \notin Range(queue'[t])
    PROVE  Callable'
<1>1. /\ pc \in [Threads -> Steps] /\ queue \in [Threads -> Seq(Object)]
      /\ modules \in [Files -> Object \cup {NoObject}]
  BY DEF RInv, TypeOK
\* Steps after which no thread calls what it did not call before, and that
\* take nothing out of Modules unseen.
<1>a. ASSUME \A t \in Threads : pc'[t] \in {"calling", "handling"} =>
                 pc[t] \in {"calling", "handling"} /\ queue'[t] = queue[t],
             \A f \in Files : modules'[f] # modules[f] =>
                 modules[f] = NoObject \/ modules'[f] = NoObject
      PROVE  Callable'
  <2> SUFFICES ASSUME NEW t \in Threads, pc'[t] \in {"calling", "handling"},
                      NEW o \in Range(queue'[t])
               PROVE  o \in Loaded(modules')
    BY DEF Callable, Loaded
  <2>1. o \in Loaded(modules)
    BY <1>a DEF Callable
  <2>2. PICK f \in Files : modules[f] = o /\ o # NoObject
    BY <2>1 DEF Loaded
  <2>3. modules'[f] = o
    BY <1>a, <2>2
  <2> QED
    BY <2>2, <2>3 DEF Loaded
<1>2. CASE Restart
  BY <1>2, <1>a DEF Restart
<1>3. CASE BootLoad
  <2>1. \A t \in Threads : pc'[t] = "idle"
    BY <1>3 DEF BootLoad, threads, RInv, Locking
  <2> QED
    BY <2>1 DEF Callable
<1>4. ASSUME NEW t \in Threads, NEW e \in Events, Receive(t, e)
      PROVE  Callable'
  BY <1>1, <1>4, <1>a DEF Receive, loader
<1>5. ASSUME NEW t \in Threads, CopyHandlers(t) \/ CallHandler(t) \/ NextHandler(t)
      PROVE  Callable'
  BY <1>5, CallableDispatch
<1>6. ASSUME NEW t \in Threads, EatEvent(t) \/ EndOfList(t) \/ Reply(t)
      PROVE  Callable'
  BY <1>1, <1>6, <1>a DEF EatEvent, EndOfList, Reply, Finish, loader
<1>7. ASSUME NEW t \in Threads, NEW op \in Ops \ {"none"}, NEW f \in Files, Sudo(t, op, f)
      PROVE  Callable'
  <2>1. FirstStep(op) \notin {"calling", "handling"}
    BY <1>7 DEF FirstStep, Ops
  <2> QED
    BY <1>1, <1>7, <1>a, <2>1 DEF Sudo, loader
<1>8. ASSUME NEW t \in Threads, Load(t)
      PROVE  Callable'
  <2>1. LoadSucceeds(cmd[t].file) \/ LoadFails(cmd[t].file)
    BY <1>8 DEF Load, LoadThrows
  <2>2. pc' = [pc EXCEPT ![t] = "reply"] /\ queue' = queue
    BY <1>8 DEF Load, LoadThrows
  <2>3. \A f \in Files : modules'[f] # modules[f] => modules[f] = NoObject
    BY <1>1, <2>1 DEF LoadSucceeds, LoadFails, CanConstruct
  <2> QED
    BY <1>1, <1>a, <2>2, <2>3
<1>9. ASSUME NEW t \in Threads, UnloadMissing(t) \/ UnloadEnd(t) \/ ListModule(t)
      PROVE  Callable'
  BY <1>1, <1>9, <1>a DEF UnloadMissing, UnloadEnd, ListModule, loader
<1>10. ASSUME NEW t \in Threads, UnloadBegin(t)
       PROVE  Callable'
  BY <1>1, <1>10, <1>a DEF UnloadBegin
<1>11. CASE UNCHANGED vars
  BY <1>11, <1>a DEF vars, loader, threads
<1> QED
  BY <1>2, <1>3, <1>4, <1>5, <1>6, <1>7, <1>8, <1>9, <1>10, <1>11
  DEF Next, BootThrows, ThreadStep, SudoRestart, Fault

(* Any number of shards may dispatch while modules come and go: as long as no
   module is unloaded that a list being walked still names, and no constructor
   throws, nothing that was unloaded is called.  The first condition is what
   `sudo unload` would have to wait for; the code does not. *)
THEOREM QuietUnloadsAreSafe ==
    ASSUME Throwing = {}
    PROVE  Spec /\ QuietUnloads => []NoUseAfterUnload
<1> DEFINE Q == \A f \in Files : modules[f] # NoObject /\ modules'[f] = NoObject =>
                   \A t \in Threads :
                      pc'[t] \in {"calling", "handling"} => modules[f] \notin Range(queue'[t])
<1>1. Init => Callable
  BY DEF Init, Callable
<1>2. RInv /\ Callable /\ [Next]_vars /\ [Q]_vars => Callable'
  <2>1. UNCHANGED vars => Q
    BY DEF vars, loader
  <2> QED
    BY <2>1, CallableStep
<1>3. RInv /\ Callable => NoUseAfterUnload
  <2> SUFFICES ASSUME RInv, Callable, NEW t \in Threads, pc[t] = "handling"
               PROVE  Head(queue[t]) \in alive
    BY DEF NoUseAfterUnload
  <2>1. queue[t] # <<>> /\ queue[t] \in Seq(Object)
    BY DEF RInv, Calling, TypeOK
  <2>2. Head(queue[t]) \in Range(queue[t])
    BY <2>1 DEF Range
  <2> QED
    BY <2>2 DEF Callable, RInv, NothingHalfLoaded
<1> QED
  BY <1>1, <1>2, <1>3, LoaderInvariant, PTL DEF Spec, QuietUnloads
=============================================================================
