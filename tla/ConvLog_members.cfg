\* Members come and go.
SPECIFICATION Spec
CONSTANTS
    Accounts = {olga, anna, ben, kira}
    Creator = olga
    Admins = {olga}
    ClientIds = {c1}
    Requests = {h1, h2}
    None = none
    MaxGroupMembers = 2
    Timers = {0}
    GlobalTimer = 0
    Faults = TRUE
    MaxSeq = 2
    MaxClock = 0
    MaxRead = 1
SYMMETRY Symmetric
INVARIANTS
    FanoutCovers
    OvershootBounded
