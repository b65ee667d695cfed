SPECIFICATION MCSpec
CONSTANTS
    Opacities = {1, 2, 3}
    Others = {0, 1}
    MaxActs = 5
    MaxFaults = 1
    Launches = {1, 2, 3}
    MaxKills = 1
    Texts <- MCTexts
    Damages = {0, 1, 2, 20, 128, 255}
CHECK_DEADLOCK FALSE
INVARIANTS
    LastOpacityWins
    WindowShowsRuntime
    OnePrimary
    WireIsFaithful
PROPERTIES
    EffectIsAsAsked
    FrontEndSettles
