SPECIFICATION Spec
CONSTANTS
    MaxEdits = 2
    MaxGeneration = 2
    MaxFaults = 2
    MaxAnswers = 2
INVARIANTS
    TypeOK
    EditsAreKept
    CompletedMeansPublished
PROPERTIES
    EndedStaysEnded
    RecoveredEditsArePublished
CHECK_DEADLOCK FALSE
