CONSTANTS
    MaxConns = 2
    WriteAfterCancel = TRUE
SPECIFICATION Spec
INVARIANTS TypeOK SingleActiveStream ControlFramesOnce NoCrossTalk NothingLeftBehind
PROPERTY FirstCauseStays
