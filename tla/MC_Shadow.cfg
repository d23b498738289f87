CONSTANTS
    pair = pair
    sun = sun
    motion = motion
    lamp = lamp
    Proposals = {pair, sun}
    Entities = {motion, lamp}
    Automation <- Automations
    DayLen = 4
    Tolerance = 1
    PairWindow = 2
    Acts <- ActsOnLamp
    ActAt = {0, 1, 3}
    Lookback = 2
    StartAt = 1
    HandAt = {0}
    MaxDay = 2
    MaxEvents = 2
    Runs = {run1, run2}
    Switchable = {sun}
SPECIFICATION Spec
INVARIANTS
    TypeOK
    ScoresMatchHistory
PROPERTIES
    CommitLeavesNoGap
SYMMETRY RunSymmetry
CHECK_DEADLOCK FALSE
