SPECIFICATION Spec
CONSTANTS
    w1 = w1
    w2 = w2
    p1 = p1
    p2 = p2
    s1 = s1
    s2 = s2
    Sources = {s1, s2}
    Accounts = {"youtube"}
    Posts = {p1, p2}
    Workers = {w1, w2}
    HostOf <- MCHostOf
    NoSource = NoSource
    NoJob = NoJob
    MaxUploads = 2
    MaxCuts = 1
    MaxRetries = 1
SYMMETRY MCSymmetry
CHECK_DEADLOCK FALSE
INVARIANTS
    OncePerAccount
    
    DraftWaits
    LetGoIsQueued
    
    TakenBackIsGone
