SPECIFICATION Spec
CONSTANTS
    Accounts = {"anna", "ben", "kira"}
    Creator = "anna"
    First = {"anna", "ben"}
    Devices = {"laptop"}
    AccountOf <- DeviceAccounts
    Suspect = "kira"
    Keys = {1}
    Worlds <- Alone
INVARIANT RosterCanOpen
