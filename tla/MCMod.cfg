SPECIFICATION ModSpec
CONSTANTS
    t1 = t1
    ra = ra
    rb = rb
    red = red
    blue = blue
    TrainOrder <- OneTrain
    Resource = {ra, rb}
    Line = {red, blue}
    CommandOf <- MCCommandOf
    MaxFinished = 3
    MaxRevision = 2
    MaxInbox = 2
    NoPassage = NoPassage
    NoResource = NoResource
    NoSnapshot = NoSnapshot
    Absent = Absent
    Vehicle = {1, 2, 3}
    Consists <- MCConsists
    MaximumConsistVehicles = 3
    Address = {a1, a2, a3, a4}
    NoAddress = NoAddress
    MaxFrame = 2
INVARIANTS
    ReportsFollowProtocol
PROPERTIES
    ReadersSeeWholeFrames
    WholeTrainsHeld
