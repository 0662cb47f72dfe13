SPECIFICATION ServiceSpec
CONSTANTS
    t1 = t1
    t2 = t2
    m = m
    x = x
    a = a
    b = b
    red = red
    blue = blue
    NoTrain = NoTrain
    NoLine = NoLine
    NoDecision = NoDecision
    NoCommand = NoCommand
    NoRow = NoRow
    NoResource = NoResource
    Train = {t1, t2}
    Line = {red, blue}
    Corridor = {a, b}
    Movement = {m}
    Intersection = {x}
    IntersectionOf <- MCIntersectionOf
    Declared <- MCDeclared
    ClearanceTime <- MCClearanceTime
    LineOf <- MCLineOf
    Candidate <- TwoCorridors
    Restorable <- AllRestorable
    PlanOrder <- PlanOrderAB
    Persistent = TRUE
    CommandRecovery = TRUE
    CommitOutcome = {"committed", "rolledBack"}
    AnyReport = FALSE
    MaxCommand = 3
    MaxRevision = 1
    DefaultClearance = 1
    MaximumWait = 2
    MaxConsecutive = 1
    MinimumHeadway = 1
    Capacity = 2
    Time = {1}
INVARIANTS
    PendingCommandsQueryable
