SPECIFICATION PlaneSpec
CONSTANTS
    r1 = r1
    r2 = r2
    x1 = x1
    x2 = x2
    x3 = x3
    y1 = y1
    y2 = y2
    None = None
    Root = Root
    Requests = {r1, r2}
    Visitors = {x1, x2, x3}
    Boxes = {y1, y2}
    MaxAttempts = 2
    MaxCodes = 2
    Emails = {y1, y2}
    Subs = {y1, y2}
    EnvClient = TRUE
    MaxMisreads = 1
    Users = {y1, y2}
    Tokens = {x1, x2, x3}
    Grants = {y1, y2}
    GrantBudget = 1
    MaxResets = 1
    KeyAttempts = 2
SYMMETRY Symmetry
INVARIANTS PlaneTypeOK RacesBounded EveryAccountHasAWayIn SessionsBacked ResetEndsSessions PauseObeyed
PROPERTIES AccountChangesEarned
