SPECIFICATION Spec
CONSTANTS
    k1 = k1
    k2 = k2
    k3 = k3
    a1 = a1
    a2 = a2
    c1 = c1
    c2 = c2
    None = None
    Calls <- MCCalls
    Actors <- MCActors
    Ids <- MCIds
    Requests <- RaceRequests
    StartBalance = 1
    MaxFailures = 2
    LateWrites = TRUE
SYMMETRY Symmetry
CHECK_DEADLOCK FALSE
INVARIANTS
    WalletMatchesLedger
    RequestSettledOnce
    SessionInv
PROPERTY StoredAnswersAreFinal
