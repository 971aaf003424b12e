SPECIFICATION Spec
CONSTANTS
    Holders = {r1, r2}
    LeaseIds = {i1, i2, i3, i4}
    Checkpoints <- MCCheckpoints
    NoCheckpoint = NoCheckpoint
    Absent = Absent
    NoLease = NoLease
    TTL = 1
    MaxUpdates = 3
    MaxInFlight = 1
SYMMETRY MCSymmetry
INVARIANT NoUpdateLost
PROPERTY DeposedLeaderIsHarmless
