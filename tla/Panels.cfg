SPECIFICATION Spec
CONSTANTS
    Screens = {"users", "invites", "server", "account", "bots"}
    Accounts = {"me", "ann", "newsbot"}
    Me = "me"
    BotAccounts = {"newsbot"}
    BotOwner <- Owners
    Codes = {c1, c2}
    OldCodes = {}
    Devices = {"phone", "tablet"}
    Bots = {"b1", "b2"}
    OldBots = {"b1"}
    None = None
    MaxCalls = 3
    MaxElsewhere = 1
INVARIANTS Consistent  QrIsPicked
SYMMETRY NewCodes
CHECK_DEADLOCK FALSE
