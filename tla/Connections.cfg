SPECIFICATION Spec
CONSTANTS
    c1 = c1
    c2 = c2
    c3 = c3
    Nobody = Nobody
    Accounts = {"acc"}
    Platforms = {"tiktok", "instagram"}
    Threads = {c1, c2, c3}
    Processes = {"worker", "api"}
    ProcessOf <- MCProcessOf
    Skew = 1
    AccessTtl <- MCLife
    GraceOf <- MCGrace
    PendingTtl = 1
    Duties <- MCDuties
    MaxAuths = 2
    MaxGens = 2
    MaxClock = 2
    MaxFaults = 1
INVARIANTS
    HealthyStaysRenewable
    
    RedeemedOnce
