\* NEAREST without simulated moves: the main thread alone writes locations. A
\* client is restarted under another application, another one asks for an
\* application without nodes.
SPECIFICATION Spec
CONSTANTS
    c1 = c1
    c2 = c2
    c3 = c3
    c4 = c4
    c5 = c5
    Clients <- TwoClients
    Nodes <- SiteNodes
    Algorithm = "NEAREST"
    Factors <- EvenWeights
    Decay = 1
    Lags = {0}
    Elapsed = {0}
    RandomScores = {0}
    RequestApps <- MixedApps
    GarbagePorts = {0, 2500}
    ZoneOf <- EmulatorZones
    InitialPlaces <- Anywhere
    Events <- NoEvents
    HttpMayFail = TRUE
INVARIANT NearestChosen
INVARIANT ServesApplication
INVARIANT OutputCurrent
INVARIANT ReplyIdentifiesNode
