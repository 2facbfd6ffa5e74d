CONSTANTS
    zero = zero
    two = two
    three = three
    nine = nine
    ten = ten
    word = word
    first = first
    edited = edited
    new = new
    NoSegment = NoSegment
    Segments = {zero, two, three, nine, ten, word, NoSegment}
    Number <- MCNumber
    NaN = NaN
    Rank <- PrereleaseRank
    Triples = {mac}
    Sources = {first, edited, new}
    Source <- PrereleaseSource
    NoDoze = NoDoze
    Absent = Absent
    Torn = Torn
    NoIndex = NoIndex
    Downloads <- MCDownloads
    Hosts <- MCHosts
    Majors <- MCMajors
SPECIFICATION Spec
INVARIANT StableIsHighest
