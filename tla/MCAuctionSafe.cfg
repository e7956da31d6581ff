SPECIFICATION SafeSpec
CONSTANTS
    p1 = p1
    p2 = p2
    x1 = x1
    x2 = x2
    None = None
    Kinds <- AllKinds
    Players <- TwoPlayers
    Auctions <- TwoAuctions
    Steps <- One
    MinBid = 1
    Amounts <- One
    StartBalance = 2
    Duration = 2
    Extension = 2
    MaxTime = 4
    MaxCrashes = 1
    MaxErrors = 0
    LateWrites = TRUE
SYMMETRY Symmetry
INVARIANT ReservesHold
INVARIANT DeadlineNotAfterEnd
INVARIANT TypeOK
INVARIANT PaidAndToldOnce
PROPERTY BidsOnlyRise
PROPERTY NoEarlyClose
