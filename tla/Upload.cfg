SPECIFICATION Spec
CONSTANTS
    Kinds = {"youtube", "tiktok", "draft", "instagram"}
    Sizes <- MCSizes
    Granule = 2
    GoogleChunk = 4
    MinChunk = 2
    MaxChunk = 5
    MaxChunks = 3
    MaxPolls = 2
    MaxRequests = 7
    MaxAttempts = 2
CHECK_DEADLOCK FALSE
INVARIANTS
    
    HealthyIsDelivered
    AmbiguousIsReconciled
