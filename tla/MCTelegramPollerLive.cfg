SPECIFICATION FairSpec
CONSTANTS
    Holders = {r1, r2}
    LeaseIds = {i1, i2, i3}
    Checkpoints <- MCCheckpoints
    NoCheckpoint = NoCheckpoint
    Absent = Absent
    NoLease = NoLease
    TTL = 1
    MaxUpdates = 1
    MaxInFlight = 0
PROPERTIES
    EveryUpdateHandled
