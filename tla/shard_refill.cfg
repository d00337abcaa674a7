\* One call at a time, a clean restart, then the capability is activated again.
SPECIFICATION Spec
CONSTANTS
    first = first
    retry = retry
    fork = fork
    second = second
    beyond = beyond
    v1 = v1
    v2 = v2
    v3 = v3
    v4 = v4
    Validator <- MCValidator
    Leader = v1
    ShardId = "FRA-004"
    CapabilityId = {"capA"}
    Epoch = {1}
    Cap <- MCCapA
    Workload = {first, second}
    Call = {first, second}
    Request <- MCRequest
    FenceWorkload = {}
    FenceCall = {}
    Fences <- MCFences
    TornTails = {}
    MaxInFlight = 1
    MaxActivations = 1
    MaxKills = 0
    MaxReboots = 1
SYMMETRY Interchangeable
INVARIANTS
    SpendWithinIssued
CHECK_DEADLOCK FALSE
