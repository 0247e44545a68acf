SPECIFICATION Spec
CONSTANTS
    u1 = u1
    u2 = u2
    v1 = v1
    v2 = v2
    v3 = v3
    Voters = {u1, u2}
    Votes = {v1, v2, v3}
    NoVote = NoVote
    VoterOf <- MCVoterOf
    MaxRequests = 1
    MaxCrashes = 0
INVARIANTS
    RevoteKeepsRole
