\* A client that reconnects twice, and a server with three descriptors: two
\* workers and the listening socket fill the table.
SPECIFICATION FairSpec
CONSTANTS
    Conns = {1, 2, 3}
    Fds = {1, 2, 3}
    Pieces = 2
    MaxCycles = 2
INVARIANT TypeOK
INVARIANT OwnDescriptor
INVARIANT Paired
PROPERTY AnswerInStep
PROPERTY WorkerEnds
CHECK_DEADLOCK FALSE
