SPECIFICATION Spec
CONSTANTS
    k1 = k1
    k2 = k2
    k3 = k3
    a1 = a1
    a2 = a2
    c1 = c1
    c2 = c2
    None = None
    Calls <- TwoCalls
    Actors <- MCActors
    Ids <- MCIds
    Requests <- BankruptRequests
    StartBalance = 0
    MaxFailures = 1
    LateWrites = TRUE
CHECK_DEADLOCK FALSE
INVARIANT WalletMatchesLedger
