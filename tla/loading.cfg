CONSTANTS
    Short = 2
    MaxTokens = 4
    Overlap = 1
    Documents = 2
    Texts <- MCTexts
    FailOneIn = 2
    BatchSize = 2
SPECIFICATION Spec
INVARIANTS TypeOK TextIsIndexed ChunksSound TablesAreSound
CHECK_DEADLOCK FALSE
