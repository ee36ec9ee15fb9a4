SPECIFICATION SpecViews
CONSTANTS
    Client = {c1, c2, c3}
    SessionId = {s1}
    PeerId = {p1, p2, p3}
    MaxViewers = 2
    OutCap = 2
    TrafficBound = 3
    None = None
SYMMETRY Symmetry
INVARIANTS ViewsAgree RelayInOrder
CONSTRAINT Bounds
