SPECIFICATION BuilderSpec
CONSTANTS
    RouteTrain = {t}
    Corridor = {"a"}
    Crossing = {"x", "y"}
    Segments = 2
    Ticks = 2
    TickLength <- MCTickLength
    IsLoop = TRUE
    Low <- LoopLow
    High <- LoopHigh
    SameDirection = {"a"}
    CrossingSegment <- MCCrossingSegment
    ApproachDistance = 5
    ControlPointDistance = 3
    SimTime = {1, 2}
INVARIANTS CrossingsToExitRequired
