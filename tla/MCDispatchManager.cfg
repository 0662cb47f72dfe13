SPECIFICATION ManagerSpec
CONSTANTS
    t1 = t1
    t2 = t2
    t3 = t3
    m1 = m1
    m2 = m2
    x = x
    a = a
    red = red
    blue = blue
    NoTrain = NoTrain
    NoLine = NoLine
    NoDecision = NoDecision
    Train = {t1, t2, t3}
    Line = {red, blue}
    Corridor = {a}
    Movement = {m1, m2}
    Intersection = {x}
    IntersectionOf <- MCIntersectionOf
    Declared <- MCDeclared
    ClearanceTime <- MCClearanceTime
    LineOf <- MCLineOf
    Candidate <- MCCandidate
    Restorable <- MCRestorable
    DefaultClearance = 1
    MaximumWait = 2
    MaxConsecutive = 1
    MinimumHeadway = 1
    Capacity = 2
    Time = {1, 2, 3}
INVARIANTS
    ManagerTypeOK
    NoConflictingReservations
    ClearanceSeparatesReservations
    DirectionInterlock
    PlannedEntryHasRoom
PROPERTIES
    EntriesKeepHeadway
    ImplementsInterlock
