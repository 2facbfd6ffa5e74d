SPECIFICATION BootSpec
CONSTANTS
    Names <- MCNames
    Lines <- MCLines
    Plans <- MCPlans
    Configs = {c1, c2}
    NoConfig = NoConfig
    NoSpec = NoSpec
INVARIANT StopsGroups
CHECK_DEADLOCK FALSE
