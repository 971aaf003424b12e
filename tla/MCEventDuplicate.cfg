SPECIFICATION ForwardSpec
CONSTANTS
    Requests = {r1, r2}
    Claims = {r1, r2}
    NoRecord = NoRecord
    ClaimTTL = 1
    CommitTTL = 2
    MaxPostFaults = 0
INVARIANT DuplicateMeansDelivered
CHECK_DEADLOCK FALSE
