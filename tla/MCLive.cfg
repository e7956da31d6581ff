SPECIFICATION LiveSpec
CONSTANTS
    p1 = p1
    p2 = p2
    x1 = x1
    x2 = x2
    None = None
    Kinds <- WatchKinds
    Players <- OnePlayer
    Auctions <- OneAuction
    Steps <- One
    MinBid = 1
    Amounts <- One
    StartBalance = 1
    Duration = 2
    Extension = 2
    MaxTime = 3
    MaxCrashes = 1
    MaxErrors = 1
    LateWrites = TRUE
    k1 = k1
    k2 = k2
    a1 = a1
    a2 = a2
    c1 = c1
    c2 = c2
    MaxFailures = 2
PROPERTY ArmedAuctionsClose
PROPERTY WatchedAuctionsClose
PROPERTY EveryCallEnds
CHECK_DEADLOCK FALSE
