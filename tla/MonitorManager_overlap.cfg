SPECIFICATION Spec
CONSTANTS
    Sessions = {s1}
    Writers = {w1, w2}
    Boot = Boot
    None = None
    ReportedStates = {"needs_input", "completed"}
    Retention = 1
    Cooldown = 1
    LastEvent = 1
    MaxReports = 4
    MaxTime = 1
    MaxCrashes = 1
    MaxStops = 0
SYMMETRY WriterSymmetry
INVARIANTS TypeOK MirrorInSync SnapshotIsLatest MemoryMatchesRegistry CleanupFollowsCompletion
PROPERTIES RetentionHonoured AlertSpacing
CHECK_DEADLOCK FALSE
