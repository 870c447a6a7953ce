CONSTANTS
    Chunks <- MCChunks
    Asks <- MCAsks
    Scores = {55, 72, 90}
    MaxTopK = 6
    Threshold = 60
    CoherentDocs = 3
    CoherentKeep = 3
    HybridKeep = 4
    CharLimit = 10
    MinPart = 1
    MaxSentences = 2
SPECIFICATION Spec
INVARIANTS FilterKept
CHECK_DEADLOCK FALSE
