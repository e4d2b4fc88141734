\* Any interleaving of the two threads, with a second client at the master.
SPECIFICATION Spec
CONSTANTS
    Size = 7
    Radix = 3
    EntrySize = 4
    Capacity = 7
    Known = 2
    Self <- Me
    Others <- Them
    Hosts <- Host
    Garbage <- Uninitialized
    Port <- TwoPorts
    FileName <- Name
    Numbers <- Queued
INVARIANT TypeOK
INVARIANT Understood
INVARIANT Answered
INVARIANT LogIntact
