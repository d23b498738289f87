CONSTANTS
    left = left
    right = right
    rear = rear
    Lights = {left, right, rear}
    Rows <- TwoRows
    Debounce = 2
    Lag = 1
    MaxHands = 4
SPECIFICATION Spec
INVARIANTS
    TypeOK
    SliderTruthful
    SlideHolds
PROPERTIES
    Settles
CHECK_DEADLOCK FALSE
