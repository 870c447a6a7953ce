CONSTANTS
    Calls = {c1}
    Runs = {r1, r2}
    Releases = {{r1}, {r2}}
    MaxMoves = 3
SPECIFICATION Spec
SYMMETRY Symmetry
INVARIANTS TypeOK QuietCallsAgree AnswersAMoment PartsWereHeld
CHECK_DEADLOCK FALSE
