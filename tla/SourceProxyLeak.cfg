CONSTANTS
    MaxConns = 1
    WriteAfterCancel = TRUE
SPECIFICATION ScheduledSpec
PROPERTY CancelledCloseReturns
