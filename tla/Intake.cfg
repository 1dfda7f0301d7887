SPECIFICATION FairSpec
CONSTANTS
    c1 = c1
    c2 = c2
    r1 = r1
    r2 = r2
    w1 = w1
    w2 = w2
    Nothing = Nothing
    NoChannel = NoChannel
    Refs = {r1, r2}
    Channels = {c1, c2}
    Submissions <- MCSubmissions
    Workers = {w1, w2}
    MaxTries = 2
    MaxSlips = 1
INVARIANTS
    AcquiredIsChained
    MediaIsFound
    
PROPERTIES
    Settles
