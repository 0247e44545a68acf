SPECIFICATION Spec
CONSTANTS
    shard1 = shard1
    shard2 = shard2
    k1 = k1
    k2 = k2
    plain = plain
    piped = piped
    alias = alias
    Threads = {shard1, shard2}
    Keys = {k1}
    Statements = {plain, piped}
    Piped = {piped}
    Aliases = {}
    AliasOf <- MCAliasOf
    MaxLength = 2
PROPERTIES
    LockedFactsStay
