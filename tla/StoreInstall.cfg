SPECIFICATION InstallSpec
CONSTANTS
    Replicas = {1, 2}
    Self = 1
    Arriving = {1}
    MaxOps = 1
    MaxPending = 1
    MaxJournal = 2
    Interval = 1
    MinRetention = 0
    MaxCrashes = 1
    MaxFailures = 0
    MaxVersion = 3
INVARIANT Recoverable
CHECK_DEADLOCK FALSE
