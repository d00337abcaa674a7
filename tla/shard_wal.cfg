\* A signed PAY whose sequence lies past sequence_end; nothing crashes.
SPECIFICATION Spec
CONSTANTS
    first = first
    retry = retry
    fork = fork
    second = second
    beyond = beyond
    v1 = v1
    v2 = v2
    v3 = v3
    v4 = v4
    Validator <- MCValidator
    Leader = v1
    ShardId = "FRA-004"
    CapabilityId = {"capA"}
    Epoch = {1}
    Cap <- MCCapA
    Workload = {beyond}
    Call = {beyond}
    Request <- MCRequest
    FenceWorkload = {}
    FenceCall = {}
    Fences <- MCFences
    TornTails = {}
    MaxInFlight = 1
    MaxActivations = 1
    MaxKills = 0
    MaxReboots = 0
SYMMETRY Interchangeable
INVARIANTS
    EveryWalReplays
CHECK_DEADLOCK FALSE
