SPECIFICATION Spec
CONSTANTS
    Run = {r1, r2}
    Candidates = 1
    Buffer = 1
    None = None
SYMMETRY Symmetry
CONSTRAINT OnePlay
INVARIANTS StaleRunsClosed ScreenMatchesRun
PROPERTY ReasonStays
CHECK_DEADLOCK FALSE
