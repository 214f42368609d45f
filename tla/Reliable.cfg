SPECIFICATION FairSpec
CONSTANTS
    Ids = {m1, m2, m3}
    Reliable = {m1, m2}
    MaxAttempts = 2
    MaxPending = 1
    MaxSeen = 1
    MaxHistory = 2
    MaxRestarts = 1
    Mark = Mark
    Free = Free
    MaxSeq = 3
    MaxHold = 1
    MaxHanded = 4
INVARIANTS TypeOK AtMostOnce
PROPERTIES ImplementsChannel PromisesSettle
CHECK_DEADLOCK FALSE
