\* One device: on a good socket, in trouble, and reading pages only.
SPECIFICATION FairSpec
CONSTANTS
    Scenes <- MCScenes
    TopSeq = 3
INVARIANTS
    TypeOK
    NothingSkipped
    PagesConverge
PROPERTY
    CatchesUp
