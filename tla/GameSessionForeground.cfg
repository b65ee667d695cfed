SPECIFICATION Spec
CONSTANTS
    None = None
    proc1 = proc1
    proc2 = proc2
    Processes <- TwoProcesses
    Pids = {1, 2}
    Scenarios <- TwoProcessScenarios
    MaxPosted = 1
    MaxEvents = 1
INVARIANTS
    TargetIsForeground
