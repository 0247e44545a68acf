SPECIFICATION Spec
CONSTANTS
    shard1 = shard1
    shard2 = shard2
    watcher = watcher
    None = None
    Free = Free
    Runners = {shard1, shard2, watcher}
    MaxEdits = 3
INVARIANTS
    CleanMeansCurrent
