SPECIFICATION FairSpec
CONSTANTS
    Cap = 3
    Threshold = 2
    Quantum = 2
    Packets = {1, 2, 4}
    MaxFrames = 5
    MaxRuns = 2
    MaxProcesses = 2
    MaxQueue = 2
INVARIANTS SoundInOrder NothingCapturedBetween
PROPERTY SoundLossStops
CHECK_DEADLOCK FALSE
