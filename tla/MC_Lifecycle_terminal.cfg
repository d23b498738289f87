CONSTANTS
    k1 = k1
    k2 = k2
    x1 = x1
    x2 = x2
    Keys = {k1, k2}
    Patterns = {x1, x2}
    Candidates <- Separate
    Proposers = {run1}
    Operators = {op1}
    StaleDays = 1
    MaxDay = 3
SPECIFICATION Spec
PROPERTIES
    RejectedIsTerminal
