SPECIFICATION MCSpec
CONSTANTS
    Ids = {a, b}  Free = Free  MaxSeq = 5  MaxHold = 2  MaxHanded = 2
    o1 = o1  o2 = o2  Owners = {o1, o2}  NoOwner = NoOwner
    s1 = s1  s2 = s2  s3 = s3  Sockets = {s1, s2, s3}  NoSocket = NoSocket
    MaxQueue = 2  MaxFrames = 3  MaxCalls = 2  MaxFaults = 2
    Hosts = {1, 2}  MaxTime = 2  MaxDrift = 1  MaxCounter = 2  MaxStamps = 3
    Peers = {pa, pb}  All = All  MaxPackets = 2  MaxPending = 2  MaxRooms = 2
    t1 = t1  t2 = t2  Transfers = {t1, t2}  Parts = 2
    MaxFragments = 3  MaxAttempts = 2  MaxActive = 1  MaxDone = 1
    MaxProbes = 3  MaxDelay = 2  MaxOpenings = 4
    \* Both sides of every threshold.
    Counts = {2, 18, 19, 24, 25, 38, 39, 50, 51}  MaxUpdates = 6
INVARIANTS InSequence PacketsKeepTheirRoom TransfersComeOnce
    SocketsKeepTheirRoom
PROPERTIES
     RoomIsRejoined StampsFollowCauses TransfersSettle OnlyDeadLinksEnd
    HalfOpenLinksEnd TierFollowsTheRoom
CHECK_DEADLOCK FALSE
