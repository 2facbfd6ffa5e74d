CONSTANTS
    Conns = {c1, c2, k1}
    Cancels = {k1}
SPECIFICATION HandoffFairSpec
INVARIANTS
    Balanced
    AccountedIsReady
    KeysScoped
PROPERTY HandoffEnds
CHECK_DEADLOCK FALSE
