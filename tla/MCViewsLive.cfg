SPECIFICATION FairViews
CONSTANTS
    Client = {c1, c2}
    SessionId = {s1}
    PeerId = {p1, p2}
    MaxViewers = 1
    OutCap = 1
    TrafficBound = 9
    None = None
PROPERTIES DeadMembersLeave EndIsTold ShutdownCompletes
