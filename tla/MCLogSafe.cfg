\* Three connections, four entries, one entry held back per stream.
SPECIFICATION FairSpec
CONSTANTS
    Connections = 3
    Entries = 4
    BufferSize = 1
    Separate = TRUE
INVARIANT TypeOK
INVARIANT NothingLost
INVARIANT OrderKept
PROPERTY KeepsPromise
PROPERTY Drains
CHECK_DEADLOCK FALSE
