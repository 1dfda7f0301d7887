SPECIFICATION FairSplit
CONSTANTS
    Names <- MCNames
    MaxWant = 4
    MaxCapacity = 17
INVARIANTS
    FairAtEnd
