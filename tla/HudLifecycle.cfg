SPECIFICATION FairSpec
CONSTANTS
    Options = {o1, o2}
    Opacities = {p1}
    MaxAttempts = 6
    Platforms = {{}, {"init", "frame", "busy"}, {"init", "show", "frame", "busy"}}
INVARIANTS
    DisabledIsQuiet
    HudFollowsPolicy
    SampledAsShown
PROPERTIES
    RecoveryEnds
