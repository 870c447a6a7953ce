CONSTANTS
    Checkers = {h1, h2}
SPECIFICATION AlertSpec
INVARIANTS AlertTypeOK RepeatsBounded
PROPERTIES RowSettles
