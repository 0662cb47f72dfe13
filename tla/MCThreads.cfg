SPECIFICATION ThreadsSpec
CONSTANTS
    f1 = f1
    f2 = f2
    Fd = {f1, f2}
    NoFd = NoFd
    Worker = {w1, w2}
    Setup <- MCSetup
    MaxConnection = 2
    PoolWorker = {p1, p2, p3}
    MaxTask = 4
    MaxLines = 2
    MaxMessage = 5
    Train = {t1, t2}
    StaleAfter = 2
    MaxClock = 7
    LastReport = 4
    Workers = 2
INVARIANTS
    TableMatchesSockets
    BufferHasOneUser
PROPERTIES
    RequestsAnswered
    TasksAreRun
    ShutdownEnds
    LinesWritten
    NoOlderTelemetry
    SilentTrainsForgotten
CHECK_DEADLOCK FALSE
