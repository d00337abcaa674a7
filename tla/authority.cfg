\* Funding, allocation to two shards, and up to three capabilities.
SPECIFICATION Spec
CONSTANTS
    fra = fra
    ams = ams
    AccountId = {"alice"}
    AgentId = {"agent"}
    ShardId <- MCShards
    Epoch = {1, 2}
    None = None
    policy <- MCpolicy
    Evidence <- MCEvidence
    Amount = {1, 2, 3}
    MaxCounter = 4
SYMMETRY Interchangeable
INVARIANTS
    TypeOK
    FloatPartitioned
    IssuedToApprovedOnly
PROPERTY
    CapabilityIdsUnique
