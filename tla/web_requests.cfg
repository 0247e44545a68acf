SPECIFICATION FairSpec
CONSTANTS
    c1 = c1
    c2 = c2
    c3 = c3
    g1 = g1
    g2 = g2
    s1 = s1
    s2 = s2
    Watcher = Watcher
    Free = Free
    Shards = {s1}
    Channels = {c1, c2, c3}
    GuildOf <- MCGuildOf
    MaxRequests = 2
    message_limit = 1
INVARIANTS
    TypeOK
    CalledOnce
    MessageLimit
PROPERTIES
    OneRequestPerGuild
    EveryRequestEnds
