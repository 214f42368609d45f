SPECIFICATION StoreSpec
CONSTANTS
    Replicas = {1, 2}
    Self = 1
    Arriving = {2}
    MaxOps = 2
    MaxPending = 1
    MaxJournal = 2
    Interval = 1
    MinRetention = 0
    MaxCrashes = 1
    MaxFailures = 1
    MaxVersion = 2
INVARIANTS Recoverable SafeToPublish
CHECK_DEADLOCK FALSE
