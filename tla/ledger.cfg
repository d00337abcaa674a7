\* Every kind of transaction; disputes are between existing accounts, and no asset is uncapped.
SPECIFICATION MCSpec
CONSTANTS
    AccountId = {"alice", "bob", "carol"}
    ShardId = {"FRA-004"}
    AgentId = {"g1", "g2"}
    DisputeId = {"d1"}
    AssetId = {"i1", "i2"}
    Symbol = {"GOLD", "gold", ""}
    Code <- MCCode
    Compile <- MCCompile
    Run <- MCRun
    default_fuel = 2
    Upper <- MCUpper
    CheckpointKey <- MCKeys
    Root = {"r1", "r2"}
    None = None
    UnitMax = 7
    RepMax = 1
    Genesis <- MCGenesis
    Workload = {"balances", "contracts"}
    Tx <- MCTx
    MaxSupply = 5
INVARIANTS
    TypeOK
    Conservation
    AssetConservation
    SettledOnce
    SuspendedAgentBlocked
    SymbolNamesOneAsset
    ReputationMirrored
    HashNamesModule
PROPERTIES
    RefusedIsNoop
    SuspendedAccountFrozen
