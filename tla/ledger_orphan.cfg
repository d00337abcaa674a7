\* A dispute against an account that does not exist is lost by its plaintiff.
SPECIFICATION MCSpec
CONSTANTS
    AccountId = {"alice", "bob", "carol"}
    ShardId = {"FRA-004"}
    AgentId = {"g1", "g2"}
    DisputeId = {"d1"}
    AssetId = {"i1", "i2"}
    Symbol = {"GOLD", "gold", ""}
    Code <- MCCode
    Compile <- MCCompile
    Run <- MCRun
    default_fuel = 2
    Upper <- MCUpper
    CheckpointKey <- MCKeys
    Root = {"r1", "r2"}
    None = None
    UnitMax = 7
    RepMax = 1
    Genesis <- MCGenesis
    Workload = {"orphan"}
    Tx <- MCTx
    MaxSupply = 5
INVARIANT
    Conservation
