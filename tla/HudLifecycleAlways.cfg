SPECIFICATION Spec
CONSTANTS
    Options = {o1, o2}
    Opacities = {p1}
    MaxAttempts = 6
    Platforms = {{"init"}}
INVARIANTS
    AlwaysKeepsHudVisible
