SPECIFICATION QueuesSpec
CONSTANTS
    QueueTurns = {1, 2, 3}
    NowTurns = {}
    MaxInFlight = 1
    MaxQueued = 2
    TTL = 1
    MaxNow = 1
    MaxFaults = 1
    Timely = FALSE
    OracleWorkers = {w1, w2}
    Staying = {}
    NoWorker = NoWorker
    OracleTaskIds = {1, 2}
    PoolSizes = {1, 2}
    MaxQueue = 1
    MaxInFlightTasks = 2
    MaxRetries = 1
    MaxReroutes = 1
    MaxChanges = 1
SYMMETRY MCSymmetry
INVARIANTS
    OracleTypeOK
    HandedOutBounded
    LimitsHold
    OneResultPerTask
PROPERTY NobodyIsOvertaken
