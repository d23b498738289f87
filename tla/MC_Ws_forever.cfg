CONSTANTS
    NSubs = 2
    Commands = 2
    MaxId = 6
    Overflow = 3
SPECIFICATION Spec
INVARIANTS
    SupervisesForever
CHECK_DEADLOCK FALSE
