SPECIFICATION Spec
CONSTANTS
    W = 3
    WordAnd <- BitAnd
    Top = 7
    Vars = {"x", "y"}
    Loaded <- MCLoaded
    SplitConds <- MCSplitConds
    Written <- MCWritten
    PathConds <- MCPathConds
    Values <- MCFoldedValues
    Valuations <- MCValuations
    PathTerms <- MCPathTerms
    RelOf <- PathRelation
    TermOf <- PathTerm
    ValueOf <- Run
    OverStorage <- MentionsStorage
    MaxSplits = 2
    MaxMet = 3
INVARIANTS
    RegionIsCut
    RangesTellValues
    RegionIsExact
    AnswersAreSound
    ContradictionIsReal
    BoundsHoldValue
    FoldKeepsValue
CHECK_DEADLOCK FALSE
