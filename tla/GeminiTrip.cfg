SPECIFICATION Spec

CONSTANTS
    Caller = {c1}
    Limit = 6
    Attempts = 2
    Threshold = 3
    LastDay = 1
    MaxRestarts = 0

PROPERTY TripNeedsThreeInARow
CHECK_DEADLOCK FALSE
