SPECIFICATION FairSpec
CONSTANTS
    Diag = Diag
    js = js
    infobot = infobot
    voting = voting
    Message = Message
    Tick = Tick
    shard1 = shard1
    shard2 = shard2
    presence = presence
    NoObject = NoObject
    Free = Free
    Files = {Diag, js, infobot}
    Events = {Message, Tick}
    Threads = {shard1, presence}
    EventsOn <- MCEventsOn
    AttachedBy <- MCAttachedBy
    Config <- MCConfig
    Broken = {infobot}
    Throwing = {}
    MaxObjects = 5
INVARIANTS
    NoUseAfterUnload
PROPERTIES
    EveryDispatchEnds
