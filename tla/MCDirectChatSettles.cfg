SPECIFICATION FairSpec
CONSTANTS
    QueueTurns = {1, 2}
    NowTurns = {3}
    MaxInFlight = 1
    MaxQueued = 2
    TTL = 2
    MaxNow = 0
    MaxFaults = 1
    Timely = TRUE
PROPERTY EveryWaiterSettles
