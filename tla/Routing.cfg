SPECIFICATION MCSpec
CONSTANTS
    a = a
    b = b
    c = c
    Peers = {a, b, c}
    Links = {{a, b}, {b, c}}
    Rooms = {{}, {{a, b}}, {{a, b}, {b, c}}}
    Ttl = 3
    MaxSeq = 5
    MaxEvents = 2
    Members = {1, 2, 3, 4}
    Costs = {1, 2}
    MaxDown = 1
INVARIANT OneMeaning
PROPERTIES DatabasesConverge EveryoneOnce
CHECK_DEADLOCK FALSE
