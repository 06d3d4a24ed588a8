SPECIFICATION FairSpec
CONSTANTS
    None = None
    Sessions = {s1}
    Widgets = {w1}
    Commands = {k1}
    Reported = {"needs_input"}
    Actions = {"send_reply"}
    HighWater = 1
    LowWater = 0
    MaxFlight = 1
    MaxAsks = 0
PROPERTIES WidgetsMirror ChangesReturn CommandEnds
CHECK_DEADLOCK FALSE
