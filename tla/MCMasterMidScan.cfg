\* A move between two nodes of the scoring loop.
SPECIFICATION Spec
CONSTANTS
    c1 = c1
    c2 = c2
    c3 = c3
    c4 = c4
    c5 = c5
    Clients <- TwoClients
    Nodes <- LimitsNodes
    Algorithm = "NEAREST"
    Factors <- EvenWeights
    Decay = 1
    Lags = {0}
    Elapsed = {0}
    RandomScores = {0}
    RequestApps <- OneApp
    GarbagePorts = {0, 2500}
    ZoneOf <- EmulatorZones
    InitialPlaces <- AllAtPoa3
    Events <- OneMove
    HttpMayFail = FALSE
INVARIANT NearestFromSomewhere
