CONSTANTS
    Callers = {c1, c2}
    Types = {postgres, kafka}
    Procs = {p1, p2, p3}
    NoProc = NoProc
    Free = Free
SPECIFICATION FairSpec
INVARIANTS
    Owned
    TablesHonest
PROPERTIES
    CloseReapsAll
    WarmIsKept
    CallsReturn
    ImplementsTable
