SPECIFICATION FairSpec
CONSTANTS
    None = None
    LineStates = {"needs_input"}
    MaxStarts = 2
    MaxLines = 1
    MaxHooks = 1
INVARIANTS TypeOK OneMonitor LiveIsWatched StopIsNotCompletion
PROPERTIES HiddenStaysHidden StopEnds StopEndsProcess ExitIsReported
CHECK_DEADLOCK FALSE
