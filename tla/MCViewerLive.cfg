SPECIFICATION FairSpec
CONSTANTS
    Run = {r1}
    Candidates = 2
    Buffer = 3
    None = None
INVARIANT CandidatesInOrder
PROPERTY RunResolves
CHECK_DEADLOCK FALSE
