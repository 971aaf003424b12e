SPECIFICATION AuthoritySpec
CONSTANTS
    Requests = {u1, u2}
    MaxTokens = 5
    Grace = 0
    MaxDepth = 2
    Pages = {u1, u2}
    Exchanges = {v1, v2}
    Rights = {w1, w2}
    NoConsent = NoConsent
    MaxWrites = 3
    MaxRevocations = 2
    Calls = {u1, u2}
    Decisions = {v1, v2}
    DecisionKeys = {k}
    Sweeps = {w1, w2}
    NoCall = NoCall
    NoKey = NoKey
    MaxSwitches = 1
SYMMETRY MCSymmetry
INVARIANTS
    AuthorityTypeOK
    OneActiveToken
    RevokedSessionIssuesNothing
    WithdrawnConsentLeavesNoToken
    ConsentIsWhatWasApproved
    OneTokenPerCode
    OneCallPerApproval
    OutcomeIsFinal
PROPERTIES
    DeliveredUnderLiveRevision
