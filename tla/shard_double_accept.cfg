\* The same PAY is submitted twice before the first call returns.
SPECIFICATION Spec
CONSTANTS
    first = first
    retry = retry
    fork = fork
    second = second
    beyond = beyond
    v1 = v1
    v2 = v2
    v3 = v3
    v4 = v4
    Validator <- MCValidator
    Leader = v1
    ShardId = "FRA-004"
    CapabilityId = {"capA"}
    Epoch = {1}
    Cap <- MCCapA
    Workload = {first, retry}
    Call = {first, retry}
    Request <- MCRequest
    FenceWorkload = {}
    FenceCall = {}
    Fences <- MCFences
    TornTails = {}
    MaxInFlight = 2
    MaxActivations = 1
    MaxKills = 0
    MaxReboots = 0
SYMMETRY Interchangeable
INVARIANTS
    TxIdAcceptedOnce
CHECK_DEADLOCK FALSE
