SPECIFICATION Spec
CONSTANTS
    w1 = w1
    w2 = w2
    source = source
    clip = clip
    probe = probe
    NoOwner = NoOwner
    NoJob = NoJob
    Workers = {w1, w2}
    Jobs = {source, clip, probe}
    Roots <- MCRoots
    FollowOn <- MCChain
    Delay <- MCDelay
    Priority <- MCPriority
    Kinds <- MCAllKinds
    Handles <- MCAllKinds
    LeaseS = 1
    BackoffS = 1
    MaxAttempts = 2
    Batch = 2
    Timely = FALSE
    MaxEvents = 0
INVARIANTS
    ChainIntact

    
