SPECIFICATION FairSpec
CONSTANTS
    None = None
    Panes = {p1}
    Clients = {}
    Screens = {"running"}
    MaxChanges = 2
    MaxFailures = 0
PROPERTIES GoneIsInactive
CHECK_DEADLOCK FALSE
