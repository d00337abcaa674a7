\* Overlapping submissions with conflicting and repeated blocks, deadlines, one killed validator.
SPECIFICATION Spec
CONSTANTS
    v1 = v1
    v2 = v2
    v3 = v3
    v4 = v4
    settle = settle
    rival = rival
    Validator <- MCValidator
    Leader = v1
    Call = {settle, rival}
    Txs <- MCTxs
    Genesis <- MCGenesis
    apply <- MCapply
    MaxTips = 2
    MaxInFlight = 2
    MaxKills = 1
    MaxMore = 3
INVARIANTS
    TypeOK
    LedgersAgree
    CertifiedByQuorum
    FailedLeavesNoTrace
PROPERTIES
    AnchorOrdersAllOnce
    CommitsReachEveryone
CHECK_DEADLOCK FALSE
