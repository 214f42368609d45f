SPECIFICATION MCSpec
CONSTANTS
    Matches = {r1, r2}  Invited = inv  Elsewhere = elsewhere  Length = 2
    Streams = {s1, s2, s3, s4}  MaxQueue = 4
    None = None
    Peers = {p, q}  Rooms = {ra, rb}  Lobby = ra  Movers = {p}
    MaxMessages = 1  MaxAttempts = 1  MaxDrops = 0  MaxMoves = 2
    Coders = {1, 2}  Languages = {js, py}  Initial = js
    MaxEdits = 1  MaxLanguages = 1  MaxRuns = 2  MaxCodeMoves = 1
    w1 = w1  panel = panel  popup = popup
INVARIANTS ChatKeepsItsRoom CodeKeepsItsRoom
PROPERTIES
    SessionsStayInTheirRoom MatchesAreResolved MediaIsAccountedFor ChatReaches
      BoardsKeepStrokes
CHECK_DEADLOCK FALSE
