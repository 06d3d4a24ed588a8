SPECIFICATION Spec
CONSTANTS
    Absent = Absent
    Torn = Torn
    Idle = Idle
    Pairs <- MCPairs
    Panes = {p1, p2}
    MaxTroubles = 2
    MaxCommands = 3
    cat = cat
    dog = dog
    Pets = {cat, dog}
    Builtin = Builtin
    Slugs = {s1, s2}
    Packages <- MCPackages
    MaxTools = 4
    MaxMishaps = 2
    Window = 2
    FirstLines = 1
    Keep = 2
    Limit = 1
    MaxLines = 3
    MaxClock = 4
    MaxInputs = 1
    MaxRequests = 1
    MaxFaults = 1
INVARIANTS
    TypeOK
    BundleForetells CheckIsExact MarkedByLast UntroubledPasses
    ReportsAreTrue SidecarsVouch SelectionHolds
    OutputOnce NothingElseMissed ViewFollows
CHECK_DEADLOCK FALSE
