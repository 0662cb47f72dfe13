SPECIFICATION SystemSpec
CONSTANTS
    t1 = t1
    t2 = t2
    t3 = t3
    a = a
    red = red
    blue = blue
    NoTrain = NoTrain
    NoLine = NoLine
    NoDecision = NoDecision
    NoCommand = NoCommand
    NoRow = NoRow
    NoResource = NoResource
    NoPassage = NoPassage
    NoSnapshot = NoSnapshot
    Absent = Absent
    Train = {t1, t3}
    TrainOrder <- MCTrainOrder
    Line = {red, blue}
    Corridor = {a}
    Movement = {}
    Intersection = {}
    IntersectionOf <- Empty
    Declared <- NoPairs
    ClearanceTime <- Empty
    LineOf <- MCLineOf
    Way <- MCWay
    Candidate <- MCCandidate
    Restorable <- AllRestorable
    PlanOrder <- MCPlanOrder
    Persistent = TRUE
    CommandRecovery = TRUE
    CommitOutcome = {"committed"}
    AnyReport = FALSE
    MaxCommand = 2
    MaxRevision = 1
    MaxFinished = 3
    DefaultClearance = 1
    MaximumWait = 2
    MaxConsecutive = 1
    MinimumHeadway = 1
    Capacity = 2
    Time = {1, 2}
    Scenarios <- ClearedLostScenario
INVARIANTS
    TrainsInsideAccounted
