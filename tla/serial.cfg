CONSTANTS
    Tables <- MCTables3
    Created <- MCCreated3
    Staged <- MCStaged3
    Gate <- MCGate
    Documents = "documents"
    MaxRun = 3
    Serial = TRUE
    Runbook = TRUE
SPECIFICATION Spec
CHECK_DEADLOCK FALSE
INVARIANTS TypeOK ServingTablesStay RollbackReady StatusMatchesActive
PROPERTIES CompleteMeansAligned ImplementsBlueGreen
