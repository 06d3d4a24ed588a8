SPECIFICATION FairSpec
CONSTANTS
    None = None
    Panes = {p1, p2}
    Clients = {c1}
    Screens = {"failed"}
    MaxChanges = 2
    MaxFailures = 1
INVARIANTS TypeOK InactiveHasNoChannel AnswerIsTrue
PROPERTIES AgentAppears GoneIsRetired
CHECK_DEADLOCK FALSE
