CONSTANTS
    Calls = {mail, web}
    shop = shop
    Projects = {shop}
    mail = mail
    web = web
    Of <- MCOf
    first = first
    second = second
    cut = cut
    Archives <- MCArchives
    Broken = {cut}
    Parts = {"tool/bin", "tool/lib", "README"}
    Holds <- MCHolds
    Under <- MCUnder
    Dirs = {"tool"}
    Raw = "raw"
    Meta = "meta"
    Stuck = {}
    Overlap = FALSE
    ModulePins = {m1}
    Modular = {shop}
    Versionless = Versionless
    Absent = Absent
    NoPin = NoPin
    NoModule = NoModule
    NoAnswer = NoAnswer
    Error = Error
SPECIFICATION Spec
INVARIANTS
    CleanMeansSaved
PROPERTIES
    TmpGone
    ImplementsStore
    PinsStay
