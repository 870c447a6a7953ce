CONSTANTS
    Instances = {i1, i2}
    Limit = 1
    Window = 2
    MaxInFlight = 2
    MaxCalls = 3
SPECIFICATION Spec
SYMMETRY Alike
INVARIANTS TypeOK AllowedWithinLimit MemoryCountsTheWindow
