SPECIFICATION MCSpec
CONSTANTS
    MaxClaims = 2
    Panels = {p1, p2}
    MaxJoins = 1
    MaxPanelJoins = 1
    MaxReads = 1
    MaxStarts = 1
    MaxTabs = 0
    Tabs = {t1, t2}
    Rooms = {a, b}
    NoEntry = NoEntry
    Unread = Unread
    MaxEvents = 1
    MaxWindows = 4
    a = a  b = b  t1 = t1  t2 = t2  t3 = t3
    Pages = {t1, t2, t3}
    PageRoom <- RoomOfPage
    NoPanelRoom = NoPanelRoom
    Template = Template
    MaxChanges = 3
    Members = {p1, p2}
    MaxStrokes = 2
    MaxPages = 1
    MaxActs = 2
    MaxModes = 1
INVARIANTS NoGhostTab AtMostOnePopup PagesFollowPanel EveryoneHasIt
 
CHECK_DEADLOCK FALSE
