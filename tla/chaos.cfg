CONSTANTS
    Tables <- MCTables
    Created <- MCCreated
    Staged <- MCGate
    Gate <- MCGate
    Documents = "documents"
    MaxRun = 3
    Serial = FALSE
    Runbook = FALSE
SPECIFICATION Spec
CHECK_DEADLOCK FALSE
INVARIANTS OneNamePerRun
PROPERTIES OnlyCleanupLosesRows
