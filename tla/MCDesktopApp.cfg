SPECIFICATION FairSpec
CONSTANTS
    MaxStarts = 2
    Faults = {"portal", "bus"}
INVARIANTS SourceOutlivesCapture NothingOutlivesShare PageTellsTruth
PROPERTIES ErrorShown ShareEnds
CHECK_DEADLOCK FALSE
