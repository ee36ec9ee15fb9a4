SPECIFICATION Spec
CONSTANTS
    PeerId = {p1, p2, p3}
    MaxPeers = 2
    IceCap = 1
    MinRate = 2
    MaxRate = 3
    Buffer = 3
    None = None
SYMMETRY Symmetry
CONSTRAINT Sharing
INVARIANTS HealthyPeersStay PeersAgree EncoderFollows
