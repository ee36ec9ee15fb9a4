SPECIFICATION Spec
CONSTANTS
    Client = {c1, c2, c3}
    SessionId = {s1, s2}
    PeerId = {p1, p2}
    MaxViewers = 1
    OutCap = 1
    None = None
SYMMETRY Symmetry
INVARIANTS Registry ShutdownClosesAll
PROPERTIES MembershipAuthority ImplementsAccess
CONSTRAINT OneRequest
