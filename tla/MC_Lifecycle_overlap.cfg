CONSTANTS
    k1 = k1
    k2 = k2
    x1 = x1
    x2 = x2
    Keys = {k1}
    Patterns = {x1}
    Candidates <- SingleHabit
    Proposers = {run1, run2}
    Operators = {op1}
    StaleDays = 1
    MaxDay = 3
SPECIFICATION Spec
INVARIANTS
    TransactionInv
PROPERTIES
    ImplementsLedger
