SPECIFICATION Spec
CONSTANTS
    x = x
    y = y
    Bodies = {x, y}
    Bubbles = {"b"}
    LateFrames = FALSE
    Scenes <- Each
    MaxSeq = 3
    MaxLoads = 1
SYMMETRY Symmetry
INVARIANTS
    Consistent
    TextsAgree
    ShownIsStored
    RecordSettles
CHECK_DEADLOCK FALSE
