CONSTANTS
    Keys = {k1}
    Users = {u1}
    Sizes = {2}
    TTLs = {1}
    MaxTime = 4
SPECIFICATION CacheSpec
CHECK_DEADLOCK FALSE
INVARIANT
    ReturnedIsFresh
