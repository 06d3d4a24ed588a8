SPECIFICATION Spec
CONSTANTS
    Sessions = {s1}
    Writers = {w1}
    Boot = Boot
    None = None
    ReportedStates = {"running", "completed"}
    Retention = 1
    Cooldown = 1
    LastEvent = 1
    MaxReports = 2
    MaxTime = 2
    MaxCrashes = 0
    MaxStops = 0
INVARIANTS MirrorShowsRemoval
CHECK_DEADLOCK FALSE
