SPECIFICATION FairSpec
CONSTANTS
    Run = {r1, r2}
    PeerId = {p1}
    MaxViewers = 1
    Candidates = 2
    Buffer = 1
    None = None
INVARIANTS NothingOutlivesRun SharedIsLive AudioChainClean CandidatesInOrder
PROPERTY ShareResolves
CHECK_DEADLOCK FALSE
