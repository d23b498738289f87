CONSTANTS
    FlushSize = 2
    MaxRows = 3
    MaxLost = 0
    Faults = {"outage"}
SPECIFICATION Spec
PROPERTIES
    RowsKept
