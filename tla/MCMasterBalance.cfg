\* SCORE with the hardware factor alone: the allocation balances the nodes.
SPECIFICATION Spec
CONSTANTS
    c1 = c1
    c2 = c2
    c3 = c3
    c4 = c4
    c5 = c5
    Clients <- FiveClients
    Nodes <- BalanceNodes
    Algorithm = "SCORE"
    Factors <- HardwareOnly
    Decay = 1
    Lags = {0}
    Elapsed = {0}
    RandomScores = {0}
    RequestApps <- BalanceApps
    GarbagePorts = {0, 2500}
    ZoneOf <- EmulatorZones
    InitialPlaces <- AllAtPoa1
    Events <- NoEvents
    HttpMayFail = FALSE
INVARIANT LoadBalanced
