CONSTANTS
    FlushSize = 2
    MaxRows = 3
    MaxLost = 1
    Faults = {"outage", "fatal", "kill"}
SPECIFICATION FairSpec
INVARIANTS
    TypeOK
    StoredInOrder
PROPERTIES
    RowsKeptOrLate
    CallbackReturns
    RowsLeaveBuffers
