CONSTANTS
    Conns = {c1, c2}
    Cancels = {}
SPECIFICATION HandoffSpec
INVARIANT WireFailureIsError
CHECK_DEADLOCK FALSE
