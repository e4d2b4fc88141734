\* The name and the first entry may come together.
SPECIFICATION FairSpec
CONSTANTS
    Connections = 1
    Entries = 2
    BufferSize = 1
    Separate = FALSE
PROPERTY Drains
CHECK_DEADLOCK FALSE
