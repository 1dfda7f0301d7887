SPECIFICATION Spec
CONSTANTS
    s1 = s1
    s2 = s2
    x1 = x1
    x2 = x2
    r1 = r1
    r2 = r2
    ver = ver
    cha = cha
    NoSession = NoSession
    NoLink = NoLink
    Slots = {s1, s2}
    Sessions = {x1, x2}
    Links = {r1, r2, ver, cha}
    KindOf <- MCKindOf
    Factors = {"phone"}
    Codes = {"c1"}
    Devices = {"laptop"}
    Serial = TRUE
    RefreshTtl = 1
    SessionMax = 2
    LinkTtl <- MCLinkTtl
    LockS = 1
    Grace = 1
    MaxFailed = 1
    RequireVerified = TRUE
    MaxPasswords = 2
    MaxTokens = 3
    Histories <- MCHistories
    MaxWaiting = 1
    MaxAborts = 1
SYMMETRY MCSymmetry
INVARIANTS
    
    
    
    SecondFactorAsked
    WayBack
