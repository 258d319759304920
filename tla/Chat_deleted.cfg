SPECIFICATION Spec
CONSTANTS
    x = x
    y = y
    Bodies = {x, y}
    Bubbles = {"b"}
    LateFrames = TRUE
    Scenes <- Nothing
    MaxSeq = 3
    MaxLoads = 1
SYMMETRY Symmetry
INVARIANT DeletedIsRemoved
CHECK_DEADLOCK FALSE
