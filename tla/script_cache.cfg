SPECIFICATION RunsSpec
CONSTANTS
    shard1 = shard1
    shard2 = shard2
    Watcher = Watcher
    None = None
    Free = Free
    Runners = {shard1, shard2, Watcher}
    MaxEdits = 2
    p1 = p1
    p2 = p2
    Blocks = {p1, p2}
    MaxSize = 2
    max_allocated_unvoted = 2
    max_allocated_voted = 3
INVARIANTS
    RunsTypeOK
    FlaggedEditRuns
    AccountingExact
    WithinAllowance
PROPERTIES
    NeverBackwards
