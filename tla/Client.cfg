SPECIFICATION Spec
CONSTANTS
    Queries = {"p"}
    Scenes <- Each
    MaxLogins = 2
    MaxRuns = 2
INVARIANTS
    Consistent
    SocketIsSessions
    SurvivesReload
    DataIsOwn
    SearchIsCurrent
PROPERTY RevokedLeaves
CHECK_DEADLOCK FALSE
