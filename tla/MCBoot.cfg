SPECIFICATION FairSpec
CONSTANTS
    Names <- MCNames
    Lines <- MCLines
    Plans <- MCPlans
    Configs = {c1, c2}
    NoConfig = NoConfig
    NoSpec = NoSpec
INVARIANTS
    GatedStart
    VerdictsRight
    NothingLeft
PROPERTY BootEnds
CHECK_DEADLOCK FALSE
