CONSTANTS
    W = 3
    WordAnd <- BitAnd
    FreeAt = 2
    FreePointer = 4
    Programs <- MCCallback
    ReadProgram <- MCRead
    WalkToEnd <- MCWalk
    IdleReach <- MCIdle
    OverStorage <- MentionsStorage
SPECIFICATION Spec
INVARIANT EveryCallIsModelled
CHECK_DEADLOCK FALSE
