SPECIFICATION FairSpec
CONSTANTS
    MaxClaims = 1
    Panels = {p1}
    MaxJoins = 2
    MaxPanelJoins = 1
    MaxReads = 1
    MaxStarts = 1
    MaxTabs = 0
PROPERTY BackgroundResumes
CHECK_DEADLOCK FALSE
