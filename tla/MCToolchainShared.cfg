CONSTANTS
    Installers = {i1, i2}
    good = good
    other = other
    forged = forged
    hollow = hollow
    Archives = {good}
    Signed = {good}
    Parts = {"bin", "lib"}
    Bin = "bin"
    Meta = "meta"
    Holds <- MCHolds
    Stuck = {}
    Absent = Absent
    NoPin = NoPin
    NoSum = NoSum
    NoAnswer = NoAnswer
    Error = Error
SPECIFICATION Spec
INVARIANT AnswersAreInstalled
