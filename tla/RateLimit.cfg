SPECIFICATION LimiterSpec
CONSTANTS
    mentions = mentions
    login = login
    broken = broken
    NoBucket = NoBucket
    NoPromise = NoPromise
    Bucket <- MCBuckets
    Capacity <- MCCapacity
    Window <- MCWindow
    IdleEvictMs = 3
    SweepThreshold = 2
    Second = 2
    MaxNow = 5
    MaxSetBack = 1
    MaxSetBacks = 1
    MaxRestarts = 1
INVARIANTS GrantsBounded RetryHonoured
CHECK_DEADLOCK FALSE
