SPECIFICATION FairSpec
CONSTANTS
    p1 = p1
    p2 = p2
    x1 = x1
    x2 = x2
    None = None
    Kinds <- PollKinds
    Players <- TwoPlayers
    Auctions <- OneAuction
    Steps <- One
    MinBid = 1
    Amounts <- One
    StartBalance = 2
    Duration = 2
    Extension = 2
    MaxTime = 4
    MaxCrashes = 0
    MaxErrors = 1
    LateWrites = FALSE
PROPERTY PolledAuctionsClose
