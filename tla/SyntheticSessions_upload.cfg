SPECIFICATION Spec
CONSTANTS
    Name <- MCName
    Plays <- MCPlays
    NoName = "no name"
INVARIANTS CohortCounted MislabelsExplained NoLabelFromHalfUpload
CHECK_DEADLOCK FALSE
