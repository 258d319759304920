\* Sending, retrying, deleting and expiring under faults.
SPECIFICATION Spec
CONSTANTS
    Accounts = {olga, anna}
    Creator = olga
    Admins = {olga}
    ClientIds = {c1}
    Requests = {h1, h2}
    None = none
    MaxGroupMembers = 2
    Timers = {0, 1}
    GlobalTimer = 2
    Faults = TRUE
    MaxSeq = 3
    MaxClock = 3
    MaxRead = 0
CONSTRAINT TimeIsSimple
SYMMETRY Symmetric
INVARIANTS
    IInv
    AcksNameTheirMessage
    RetriesAgreeWhileStored
PROPERTIES
    NothingExpiresEarly
    ImplementsLog
