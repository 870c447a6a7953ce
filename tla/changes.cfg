CONSTANTS
    Urls = {d1, d2}
    MaxVersion = 2
    AbortOneIn = 2
SPECIFICATION DetectionSpec
INVARIANTS DetectionTypeOK RecordedWasHandled
