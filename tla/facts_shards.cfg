SPECIFICATION Spec
CONSTANTS
    shard1 = shard1
    shard2 = shard2
    k1 = k1
    k2 = k2
    plain = plain
    piped = piped
    alias = alias
    Threads = {shard1, shard2}
    Keys = {k1, k2}
    Statements = {plain, piped, alias}
    Piped = {piped}
    Aliases = {alias}
    AliasOf <- MCAliasOf
    MaxLength = 2
INVARIANTS
    TypeOK
    AliasFollowedOnce
    AnswerIsAnAlternative
PROPERTIES
    LockHoldsWhenQuiet
    NothingLostUnasked
