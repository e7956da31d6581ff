SPECIFICATION PeopleSpec
CONSTANTS
    o = o
    u1 = u1
    u2 = u2
    k1 = k1
    k2 = k2
    t1 = t1
    t2 = t2
    l1 = l1
    l2 = l2
    None = None
    OwnerSeat = OwnerSeat
    LocalSeat = LocalSeat
    Users <- ThreeUsers
    Owner <- o
    Calls <- TwoCalls
    MaxLobbyPlayers = 2
    MaxFailures = 1
    LateWrites = TRUE
    Lease = 2
    Renewal = 1
    LinkLife = 2
    Cooldown = 1
    MaxTime = 2
SYMMETRY PeopleSymmetry
INVARIANTS TypeOK SeatsAgree FinishIsRecorded LinksWorkOnce
PROPERTIES RosterIsFrozen FinishedForGood LeasesOnlyGrow
CHECK_DEADLOCK FALSE
