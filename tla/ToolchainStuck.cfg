CONSTANTS
    Installers = {i1}
    good = good
    other = other
    forged = forged
    hollow = hollow
    Archives <- MCArchives
    Signed = {good, other, hollow}
    Parts = {"bin", "lib"}
    Bin = "bin"
    Meta = "meta"
    Holds <- MCHolds
    Stuck = {"bin"}
    Absent = Absent
    NoPin = NoPin
    NoSum = NoSum
    NoAnswer = NoAnswer
    Error = Error
SPECIFICATION Spec
INVARIANTS
    EntryWhole

