CONSTANTS
    lamp = lamp
    pump = pump
    Entities = {lamp, pump}
    DayLen = 32
    Bucket = 4
    Tolerance = 6
    ClusterGap = 12
    GroupWindow = 2
    PairWindow = 3
    MinGap = 1
    Lookback = 2
    StaleDays = 0
    Mining <- MinerNumbers
    Gate <- GateNumbers
    LampDays = {{}, {1}, {5}, {11}, {18}, {30}, {1, 18}, {5, 18}, {11, 30}, {5, 7}}
    PumpTimes = {4, 9}
    Plans <- DayPlans
    MaxDay = 3
SPECIFICATION Spec
INVARIANTS
    TypeOK
    FreshRowsApart
    ConfidenceIsShare
PROPERTIES
    NewRowIsNewHabit
    RowKeepsItsPlace
CHECK_DEADLOCK FALSE
