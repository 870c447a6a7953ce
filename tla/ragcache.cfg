CONSTANTS
    Requests = {r1, r2}
    Keys = {k1, k2}
    Ttl = 3
    Timeout = 1
    MaxRelease = 2
    OneProcess = TRUE
SPECIFICATION CacheSpec
INVARIANTS CacheTypeOK StalenessBounded
