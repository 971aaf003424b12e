SPECIFICATION InboundSpec
CONSTANTS
    Webhooks = {w1, w2}
    Gateways = {g1, g2}
    Requests <- MCDeliveries
    Claims <- MCDeliveries
    NoRecord = NoRecord
    ClaimTTL = 2
    CommitTTL = 2
    MaxLease = 2
    MaxFaults = 1
    MaxPostFaults = 2
    Schedulers = {w1, w2}
    NoScheduler = NoScheduler
    NoWork = NoWork
    NoRun = NoRun
    Period = 2
    Grace = 2
    JobLease = 1
    RunLease = 2
    Jitter = 1
    MaxMinute = 4
    MaxEdits = 1
    MaxIncidents = 1
SYMMETRY MCSymmetry
INVARIANTS
    InboundTypeOK
    StoredExactlyOnce
    NoDoubleDelivery
    BacklogIsBounded
    NothingForgotten
PROPERTIES
    FencedOutStoresNothing
    RetryNotSuppressed
    RunsAreJobs
CHECK_DEADLOCK FALSE
