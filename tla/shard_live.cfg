\* No deadline passes, one validator may die, the epoch may be fenced.
SPECIFICATION PromptSpec
CONSTANTS
    first = first
    retry = retry
    fork = fork
    second = second
    beyond = beyond
    v1 = v1
    v2 = v2
    v3 = v3
    v4 = v4
    Validator <- MCValidator
    Leader = v1
    ShardId = "FRA-004"
    CapabilityId = {"capA"}
    Epoch = {1}
    Cap <- MCCapA
    Workload = {first}
    Call = {first}
    Request <- MCRequest
    FenceWorkload = {"f1"}
    FenceCall = {"f1"}
    Fences <- MCFences
    TornTails = {}
    MaxInFlight = 1
    MaxActivations = 1
    MaxKills = 1
    MaxReboots = 0
PROPERTIES
    ValidPayServed
CHECK_DEADLOCK FALSE
