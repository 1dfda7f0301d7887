SPECIFICATION FairSpec
CONSTANTS
    s1 = s1
    s2 = s2
    early = early
    late = late
    NoPost = NoPost
    Posts = {early, late}
    Systems = {s1}
    Slot <- MCSlot
    Drafts = {late}
    Limit = 2
    PostLease = 2
    JobLease = 1
    RetryWait = 1
    MaxTries = 2
    Faults = {"crash", "lost", "raise"}
    MaxFaults = 2
    MaxRetries = 1
INVARIANTS
    
    
    PublishedIsReal

    
