\* Every way to sign in and out, with faults and an administrator.
\* A deleted account has nothing left to do.
SPECIFICATION FairSpec
CONSTANTS
    Devices = {phone, laptop}
    Requests = {h1, h2}
    Scenes <- MCScenes
    None = none
    MaxGen = 2
    MaxChallenge = 1
CHECK_DEADLOCK FALSE
INVARIANTS
    Consistent
    SocketsAccountedFor
    OldPasswordsAreOut
PROPERTY
    SignedOutGetClosed
