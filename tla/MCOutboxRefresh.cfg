SPECIFICATION Spec
CONSTANTS
    MaxEdits = 1
    MaxGeneration = 2
    MaxFaults = 0
    MaxAnswers = 0
PROPERTY RefreshSparesEdits
CHECK_DEADLOCK FALSE
