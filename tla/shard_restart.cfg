\* A PAY and a fence at the same time, a restart from intact or torn logs.
SPECIFICATION Spec
CONSTANTS
    first = first
    retry = retry
    fork = fork
    second = second
    beyond = beyond
    v1 = v1
    v2 = v2
    v3 = v3
    v4 = v4
    Validator <- MCValidator
    Leader = v1
    ShardId = "FRA-004"
    CapabilityId = {"capA"}
    Epoch = {1}
    Cap <- MCCapA
    Workload = {first}
    Call = {first}
    Request <- MCRequest
    FenceWorkload = {"f1"}
    FenceCall = {"f1"}
    Fences <- MCFences
    TornTails = {"torn_len", "broken"}
    MaxInFlight = 2
    MaxActivations = 1
    MaxKills = 0
    MaxReboots = 1
SYMMETRY Interchangeable
INVARIANTS
    WalMatchesMemory
    CommitBeforeAccept
    FenceQuorum
PROPERTIES
    FencedEpochFrozen
    FenceStopsSpending
    ImplementsSpendLedger
CHECK_DEADLOCK FALSE
