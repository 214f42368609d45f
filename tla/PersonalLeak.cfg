SPECIFICATION Spec
CONSTANTS
    Services = {panel, popup}
    Widgets = {}
    Drawers = {popup}
    FirstMode = "personal"
    Rooms = {ra}
    Home = ra
    MaxStrokes = 1
    MaxActs = 0
    MaxMoves = 0
INVARIANT PersonalStaysPrivate
CHECK_DEADLOCK FALSE
