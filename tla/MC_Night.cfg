CONSTANTS
    lamp = lamp
    door = door
    heater = heater
    Groups <- Habits
    Domain <- Registry
    Located = TRUE
    SunAt <- Sun
    DayLen = 12
    Grace = 2
    Hosts = 2
    Attempts = 2
    Answers <- Replies
    JobTimeout = 2
    QuietFrom = 2
    MaxDay = 3
SPECIFICATION Spec
INVARIANTS
    TypeOK
    DraftsFitTheirHabit
    NothingDraftedTwice
    JobsInOrder
PROPERTIES
    QuietNightsComplete
CHECK_DEADLOCK FALSE
