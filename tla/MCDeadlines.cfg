\* Three rows of 2, 1 and 3 ms, looked up at any time for more than two periods.
SPECIFICATION Spec
CONSTANTS
    File <- ThreeRows
    MaxScore = 4
    Horizon = 14
INVARIANT TypeOK
INVARIANT IndexInRange
INVARIANT RightInterval
INVARIANT NeverOvercharged
PROPERTY StampFollowsCycle
CHECK_DEADLOCK FALSE
