SPECIFICATION FairSpec
CONSTANTS
    shard1 = shard1
    g1 = g1
    u2 = u2
    c1 = c1
    u1 = u1
    talkative = talkative
    GuildThread = GuildThread
    UserThread = UserThread
    NoGuild = NoGuild
    NoChannel = NoChannel
    NoRow = NoRow
    NoUser = NoUser
    Free = Free
    Guilds = {g1}
    Channels = {c1}
    Users = {u1}
    Authors = {u1, u2}
    Options = {talkative}
    Shards = {shard1}
    GuildOf <- MCGuildOf
    ShardOf <- MCShardOf
    Members <- MCMembers
    MaxQueue = 1
INVARIANTS
    TypeOK
    GuildIdKept
    CommandsLand
    LeftGuildsHidden
PROPERTIES
    OnlyWhatWasAsked
    EveryChannelGetsSettings
    EveryMemberIsStored
    BegunIsFinished
    UnloadEnds
