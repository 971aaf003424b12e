SPECIFICATION CoordinationSpec
CONSTANTS
    Holders = {h1, h2}
    Checkpoints = {c1, c2}
    NoCheckpoint = NoCheckpoint
    Absent = Absent
    TTL = 2
    MaxGrants = 3
    LeaseIds <- MCLeaseIds
    Scale = 4
    Burst = 2
    Refill = 3
    MinRetention = 1
    NoBucket = NoBucket
    MaxNow = 10
    Window = 3
    Limits = {0, 1, 2}
    NoWindow = NoWindow
    MaxClock = 10
    Sockets = {s1, s2}
    Replicas = {r1, r2}
    Dispatches = {q}
    NoSocket = NoSocket
    NoReplica = NoReplica
    Events = {e1}
    Logs = {}
    Changes = {a1}
    Relays = {r1, r2}
    Verifiers = {s1, s2}
    Genesis = Genesis
    MaxAttempts = 2
    Chunk = 1
    MaxAuditFaults = 1
SYMMETRY MCSymmetry
INVARIANTS
    CoordinationTypeOK
    RateBound
    WindowBound
    MapFollowsRecord
    SentToOwner
    ChainIsIntact
    VerifierIsSound
PROPERTIES
    FencedLeaseSpec
    RecordKeptWhileConnected
