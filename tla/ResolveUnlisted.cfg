CONSTANTS
    pg16 = pg16
    ext = ext
    pg = pg
    fdb = fdb
    Engines = {pg, fdb}
    EngineOf <- MCEngineOf
    e1 = e1
    v1 = v1
    v2 = v2
    a1 = a1
    a2 = a2
    b1 = b1
    b2 = b2
    Calls = {i1, i2}
    Keys = {pg16, ext}
    Needs <- MCNeedsBelow
    Exact = {ext}
    Versions = {v1, v2, e1}
    Archives = {a1, a2, b1, b2}
    LastRelease = 2
    Full <- MCFull
    Sum <- MCSum
    Listing = {FALSE}
    NoRelease = NoRelease
    NoPin = NoPin
    NoHash = NoHash
    NoEntry = NoEntry
SYMMETRY CallsAlike
SPECIFICATION Spec
PROPERTY PinsOnlyGrow
