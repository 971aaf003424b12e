SPECIFICATION ApprovalSpec
CONSTANTS
    Calls = {c1}
    Decisions = {d1}
    DecisionKeys = {k}
    Sweeps = {}
    NoCall = NoCall
    NoKey = NoKey
    MaxSwitches = 1
INVARIANT
    RolledBackLetsNoneThrough
CHECK_DEADLOCK FALSE
