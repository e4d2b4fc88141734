\* RANDOM over nodes of two applications, while the simulation moves both clients and
\* every request to the emulator may fail.
SPECIFICATION FairSpec
CONSTANTS
    c1 = c1
    c2 = c2
    c3 = c3
    c4 = c4
    c5 = c5
    Clients <- TwoClients
    Nodes <- MixedNodes
    Algorithm = "RANDOM"
    Factors <- EvenWeights
    Decay = 1
    Lags = {0}
    Elapsed = {0}
    RandomScores = {0, 99}
    RequestApps <- OneApp
    GarbagePorts = {0, 2500}
    ZoneOf <- EmulatorZones
    InitialPlaces <- AllAtPoa1
    Events <- RoundTrip
    HttpMayFail = TRUE
INVARIANT TypeOK
INVARIANT MutualRegistration
INVARIANT LoadWithinTraffic
PROPERTY Allocates
PROPERTY EveryRequestFinishes
