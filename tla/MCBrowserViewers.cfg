SPECIFICATION Spec
CONSTANTS
    Run = {r1}
    PeerId = {p1, p2}
    MaxViewers = 2
    Candidates = 0
    Buffer = 3
    None = None
SYMMETRY PeerSymmetry
INVARIANT PeersAgree
CHECK_DEADLOCK FALSE
