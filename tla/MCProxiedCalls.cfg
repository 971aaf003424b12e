SPECIFICATION ProxiedSpec
CONSTANTS
    Calls = {c1, c2}
    Decisions = {d1}
    DecisionKeys = {k}
    Sweeps = {s1}
    NoCall = NoCall
    NoKey = NoKey
    MaxSwitches = 1
    Leases = {l1, l2}
    Orgs = {"dev", "ops"}
    Policies <- MCPolicies
    Unlimited = Unlimited
    NoRow = NoRow
    TTL = 6
    RenewInterval = 2
    RenewTimeout = 1
    Sockets = {w1, w2}
    Replicas = {r1}
    Dispatches = {}
    NoSocket = NoSocket
    NoReplica = NoReplica
    Events = {e1}
    Logs = {o1}
    Changes = {}
    Relays = {y1}
    Verifiers = {v1}
    Genesis = Genesis
    MaxAttempts = 2
    Chunk = 1
    MaxAuditFaults = 1
INVARIANTS
    ServiceCapacity
PROPERTIES
    EveryCallEnds
    SlotIsReclaimed
    LostSocketIsDropped
    EveryChangeIsVerified
CHECK_DEADLOCK FALSE
