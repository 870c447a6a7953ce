CONSTANTS
    Callers = {a, b, c, d}
    Permits = 2
    Workers = 2
    Trip = 2
    OpenFor = 2
SPECIFICATION Spec
INVARIANTS TypeOK PermitsConserved NoLostWakeUp
PROPERTIES NobodyQueuesForever CircuitCloses
