SPECIFICATION Spec
CONSTANTS
    c1 = c1
    None = None
    Clients <- OneClient
    Kinds <- SettleKinds
    Senders <- NobodyHere
    MaxCommits = 2
    MaxFailures = 0
INVARIANT ConnectedViewsCover
