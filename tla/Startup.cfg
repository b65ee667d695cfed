SPECIFICATION MCSpec
CONSTANTS
    Proc = {1, 2}
    MaxLaunches = 2
    MaxOutside = 1
    MaxRetryAttempts = 3
    MaxRefusals = 2
    MaxShells = 2
CHECK_DEADLOCK FALSE
INVARIANTS
    OneRuntime
PROPERTIES
    TaskIsAsAnswered
    StartupSettles
