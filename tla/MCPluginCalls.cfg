SPECIFICATION Spec
CONSTANTS
    Drivers <- MCDrivers
    Budgets <- MCBudgets
    Milli = 2
    MaxBootBudget = 7
    OutSize = 1
    Window = 1
    MaxRows = 3
INVARIANTS
    TypeOK
    RemoteAgrees
    FailuresSurface
    TailFaithful
PROPERTY
    TailEnds
