SPECIFICATION Spec
CONSTANTS
    o = o
    u1 = u1
    u2 = u2
    k1 = k1
    k2 = k2
    None = None
    OwnerSeat = OwnerSeat
    LocalSeat = LocalSeat
    Users <- ThreeUsers
    Owner <- o
    Calls <- TwoCalls
    MaxLobbyPlayers = 2
    MaxFailures = 1
    LateWrites = TRUE
SYMMETRY Symmetry
PROPERTY RetriedFinishIsComplete
CHECK_DEADLOCK FALSE
