\* The same instance, for what the client makes of port 0.
SPECIFICATION Spec
CONSTANTS
    Size = 7
    Radix = 3
    EntrySize = 4
    Capacity = 7
    Known = 2
    Self <- Me
    Others <- Them
    Hosts <- Host
    Garbage <- Uninitialized
    Port <- TwoPorts
    FileName <- Name
    Numbers <- Queued
INVARIANT PortZeroMeansNoServer
