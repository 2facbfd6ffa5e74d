CONSTANTS
    Boots = {b1, b2, b3}
    Files = {marker, data}
    Marker = marker
    Immovable = {}
    Absent = Absent
SPECIFICATION TemplateSpec
INVARIANTS
    TemplateWhole
    LoserServed
PROPERTY TemplateKept
