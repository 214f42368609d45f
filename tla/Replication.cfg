SPECIFICATION MCSpec
CONSTANTS
    Replicas = {1, 2}
    Authors = {1}
    MaxOps = 3
    MaxDeps = 1
    MaxInFlight = 1
    MaxPending = 1
    MaxJournal = 9
    Interval = 9
    MinRetention = 1
INVARIANTS AppliedInOrder SnapshotIsExact
PROPERTIES NothingLost DeltasConverge
