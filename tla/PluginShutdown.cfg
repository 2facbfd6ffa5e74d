CONSTANTS
    Callers = {c1, c2}
    Types = {postgres}
    Procs = {p1, p2, p3}
    NoProc = NoProc
    Free = Free
SPECIFICATION ShutdownSpec
INVARIANT NothingOutlivesClose
CHECK_DEADLOCK FALSE
