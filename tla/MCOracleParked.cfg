SPECIFICATION OracleFairSpec
CONSTANTS
    OracleWorkers = {w1, w2}
    Staying = {w1}
    NoWorker = NoWorker
    OracleTaskIds = {1}
    PoolSizes = {2}
    MaxQueue = 1
    MaxInFlightTasks = 1
    MaxRetries = 1
    MaxReroutes = 1
    MaxChanges = 0
PROPERTY RerouteNeverParks
