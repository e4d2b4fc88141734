\* Every interleaving of the two threads of a client and its servers.
SPECIFICATION FairSpec
CONSTANTS
    Sockets = {1, 2, 3}
    MaxScore = 4
INVARIANT TypeOK
INVARIANT ScoreInRange
INVARIANT InStep
PROPERTY WaitEnds
