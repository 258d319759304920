\* Overlapping calls of two devices, one call with three, capturing in one call.
\* Nobody calls any more once the calls are used up.
CHECK_DEADLOCK FALSE
SPECIFICATION Spec
CONSTANTS
    Anna = {anna, pad}
    Ben = {ben, tab}
    MaxCalls = 2
    MaxSize = 4
    MaxPending = 3
SYMMETRY Symmetric
INVARIANTS
    Consistent
    TracksHeld
    DescriptionsMatch
    TwoEnds
PROPERTY CallsKept
