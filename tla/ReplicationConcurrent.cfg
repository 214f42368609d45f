SPECIFICATION Spec
CONSTANTS
    Replicas = {1, 2}
    Authors = {1, 2}
    MaxOps = 2
    MaxDeps = 0
    MaxInFlight = 1
    MaxPending = 1
    MaxJournal = 2
    Interval = 2
    MinRetention = 1
INVARIANT DeltasReconcile
