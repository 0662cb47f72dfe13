SPECIFICATION PlanningSpec
CONSTANTS
    RouteTrain = {t, u}
    Corridor = {"a", "b"}
    Crossing = {"x", "y"}
    Segments = 2
    Ticks = 2
    TickLength <- MCTickLength
    IsLoop = FALSE
    Low <- LineLow
    High <- LineHigh
    SameDirection = {"a"}
    CrossingSegment <- MCCrossingSegment
    ApproachDistance = 5
    ControlPointDistance = 3
    SimTime = {1, 2}
    TrainCount = 3
    Line = {"A", "B"}
    Horizon = 4
    Tolerance = 2
    Spacing = 2
    Headway = 3
    ArrivalTime = {0, 1, 2, 4, 5, 7}
    MaxTime = 8
INVARIANTS
    ZoneByTrackLength
    CrossingsToExitRequired
    BoundedOvertaking
    SpacedEntries
PROPERTIES
    WaitNotRestarted
SYMMETRY Trains
CHECK_DEADLOCK FALSE
