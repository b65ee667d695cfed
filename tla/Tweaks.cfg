SPECIFICATION MCSpec
CONSTANTS
    t1 = t1
    t2 = t2
    Targets <- MCTargets
    Sources = {1, 2}
    Rates = {60, 120}
    StartDesks <- MCStartDesks
    MaxDrift = 1
    MaxFaults = 1
    inner = inner
    lg = lg
    NoMonitor = NoMonitor
    NoTarget = NoTarget
    Monitors = {inner, lg}
    Kinds <- MCKinds
    Found <- MCFound
    TargetIds = {t1, t2}
    MaxRuns = 2
    MaxChanges = 1
CHECK_DEADLOCK FALSE
INVARIANTS
    ResultIsSound
    ReportIsTrue
PROPERTIES
    WritesAreJustified
    TweakWorkerEnds
