SPECIFICATION RequestsSpec
CONSTANTS
    Shape <- MCShape
    Requests = 3
    MaxBuffer = 9
    Fd = {f1, f2}
    Timeout = 2
    MaxTime = 5
    MaxTimer = 4
    Worker = {w1, w2}
    Vehicle = {v1, v2}
    PoolSize = 2
    RedisFails = TRUE
    MaxVersion = 3
    StoredVehicle = {v1, v2}
    MaxStamp = 3
    MaxFault = 2
    Thread = {d1, d2, d3}
    Conn = {c1, c2, c3}
    NoConn = NoConn
    MaxConn = 2
    SenderThread = {s1, s2}
    NoThread = NoThread
    MaxPost = 3
    MaxSample = 1
    MaxGivenUp = 2
INVARIANTS
    AnswersOwnRequest
    StaleOnlyByRace
    StoredImageWhole
    ConnectionsConserved
    NoLostWakeup
PROPERTIES
    OnlyIdleExpire
    NothingOverdue
    ControlInOrder
    ControlEventsArrive
CHECK_DEADLOCK FALSE
