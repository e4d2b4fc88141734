\* The completion of a cycle that belongs to an earlier connection.
SPECIFICATION Spec
CONSTANTS
    Sockets = {1, 2, 3}
    MaxScore = 4
INVARIANT FinishedMeansServed
