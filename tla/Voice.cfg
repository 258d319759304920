SPECIFICATION Spec
CONSTANTS
    anna = anna
    ben = ben
    Devices = {anna, ben}
    Disturbed = {anna}
    MaxSessions = 3
    Scenes <- MCScenes
INVARIANTS
    Consistent
    OffersListed
    NoGlare
\* All sessions used up, a device waits for its microphone.
CHECK_DEADLOCK FALSE
