CONSTANTS
    Conns = {c1, c2}
    Cancels = {}
SPECIFICATION HandoffSpec
INVARIANT SpliceIsAccounted
CHECK_DEADLOCK FALSE
