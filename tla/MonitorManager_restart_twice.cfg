SPECIFICATION Spec
CONSTANTS
    Sessions = {s1, s2}
    Writers = {w1}
    Boot = Boot
    None = None
    ReportedStates = {"running"}
    Retention = None
    Cooldown = 1
    LastEvent = 0
    MaxReports = 2
    MaxTime = 0
    MaxCrashes = 2
    MaxStops = 0
INVARIANTS RestartForgetsNothing
CHECK_DEADLOCK FALSE
