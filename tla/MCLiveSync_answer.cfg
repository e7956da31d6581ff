SPECIFICATION Spec
CONSTANTS
    c1 = c1
    None = None
    Clients <- OneClient
    Kinds <- PayKinds
    Senders <- PayerHere
    MaxCommits = 2
    MaxFailures = 0
INVARIANT ConnectedViewsCover
