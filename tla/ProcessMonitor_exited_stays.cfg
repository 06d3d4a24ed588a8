SPECIFICATION Spec
CONSTANTS
    None = None
    LineStates = {"running"}
    MaxStarts = 1
    MaxLines = 1
    MaxHooks = 0
INVARIANTS InactiveIsDismissable
CHECK_DEADLOCK FALSE
