SPECIFICATION FairSpec
CONSTANTS
    PeerId = {p1}
    MaxPeers = 1
    IceCap = 1
    MinRate = 1
    MaxRate = 1
    Buffer = 3
    None = None
INVARIANTS StoppedMeansStopped NeverRejected
PROPERTIES ErrorSticks SessionEnds BrokenPeerRemoved
