SPECIFICATION Spec
CONSTANTS
    Diag = Diag
    js = js
    infobot = infobot
    voting = voting
    Message = Message
    Tick = Tick
    shard1 = shard1
    shard2 = shard2
    presence = presence
    NoObject = NoObject
    Free = Free
    Files = {Diag, voting}
    Events = {Message, Tick}
    Threads = {shard1, presence}
    EventsOn <- MCEventsOn
    AttachedBy <- MCAttachedBy
    Config <- MCConfig
    Broken = {}
    Throwing = {}
    MaxObjects = 3
INVARIANTS
    NoUseAfterUnload
