SPECIFICATION MCSpec
CONSTANTS
    Capacity = 2
    AppIds = {0, 1, 2}
    Budgets <- MCSteamBudgets
    Helpers = {h1, h2}
    Requests = {q1, q2, q3}
    None = None
PROPERTIES
    SteamSessionFollows
CHECK_DEADLOCK FALSE
