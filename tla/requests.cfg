CONSTANTS
    Calls = {c1, c2}
    Keys = {k1, k2}
    PoolSize = 1
    CacheSize = 1
    Ttl = 1
    LookupLimit = 1
    MaxClock = 3
SPECIFICATION Spec
INVARIANTS TypeOK ConnectionsConserved
PROPERTIES DeactivatedStops EveryCallEnds ShutdownEnds
