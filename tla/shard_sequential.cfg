\* One call at a time: a PAY, its retry, another PAY for its sequence, and the next one.
SPECIFICATION Spec
CONSTANTS
    first = first
    retry = retry
    fork = fork
    second = second
    beyond = beyond
    v1 = v1
    v2 = v2
    v3 = v3
    v4 = v4
    Validator <- MCValidator
    Leader = v1
    ShardId = "FRA-004"
    CapabilityId = {"capA"}
    Epoch = {1}
    Cap <- MCCapA
    Workload = {first, retry, fork, second}
    Call = {first, retry, fork, second}
    Request <- MCRequest
    FenceWorkload = {}
    FenceCall = {}
    Fences <- MCFences
    TornTails = {}
    MaxInFlight = 1
    MaxActivations = 1
    MaxKills = 0
    MaxReboots = 0
SYMMETRY Interchangeable
INVARIANTS
    TypeOK
    SequenceAcceptedOnce
    CommitIndexUnique
    SpendWithinIssued
PROPERTY
    ImplementsSpendLedger
CHECK_DEADLOCK FALSE
