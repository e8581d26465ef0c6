CONSTANTS
    W = 3
    WordAnd <- BitAnd
    FreeAt = 2
    FreePointer = 4
    Programs <- MCPrograms
    ReadProgram <- MCRead
    WalkToEnd <- MCWalk
    IdleReach <- MCIdle
    OverStorage <- MentionsStorage
SPECIFICATION Spec
INVARIANTS
    EveryCallIsModelled
    HoldsIsTrue
    SitesCorrespond
    PlantFollows
    ModelsAreDeterministic
    DeploymentIsInitial
CHECK_DEADLOCK FALSE
