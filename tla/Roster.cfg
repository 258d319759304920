SPECIFICATION Spec
CONSTANTS
    Accounts = {"anna", "ben", "kira"}
    Creator = "anna"
    First = {"anna", "ben"}
    Devices = {"laptop", "tablet"}
    AccountOf <- DeviceAccounts
    Suspect = "kira"
    Keys = {1, 2}
    Worlds <- AllWorlds
INVARIANTS
    Consistent
    RosterFollowsLog
    SignedRosterIsServers
    KeysWereChecked
CHECK_DEADLOCK FALSE
