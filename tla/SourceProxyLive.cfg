CONSTANTS
    MaxConns = 1
    WriteAfterCancel = TRUE
SPECIFICATION ChildExitSpec
PROPERTIES CloseReturnsIfPeerReads CancelledCloseReturns
