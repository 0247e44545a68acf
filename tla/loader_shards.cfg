SPECIFICATION Spec
CONSTANTS
    Diag = Diag
    js = js
    infobot = infobot
    voting = voting
    Message = Message
    Tick = Tick
    shard1 = shard1
    shard2 = shard2
    presence = presence
    NoObject = NoObject
    Free = Free
    Files = {Diag, js, infobot}
    Events = {Message, Tick}
    Threads = {shard1, shard2}
    EventsOn <- MCEventsOn
    AttachedBy <- MCAttachedBy
    Config <- MCConfig
    Broken = {}
    Throwing = {js}
    MaxObjects = 4
INVARIANTS
    TypeOK
    HandlersLoaded
    NothingHalfLoaded
    DispatchInLoadOrder
    NoSelfDeadlock
PROPERTIES
    DiagStays
