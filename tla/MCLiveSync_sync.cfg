SPECIFICATION FairSpec
CONSTANTS
    c1 = c1
    None = None
    Clients <- OneClient
    Kinds <- SingleKinds
    Senders <- BidderHere
    MaxCommits = 2
    MaxFailures = 1
INVARIANT TypeOK
INVARIANT ConnectedViewsCover
INVARIANT IdleClientsAreCurrent
PROPERTY ClientsCatchUp
