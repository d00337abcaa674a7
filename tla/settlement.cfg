\* Batches of up to four receipts, a restart that seals heights again, checkpoints signed with another
\* key, late and repeated submissions.
SPECIFICATION Spec
CONSTANTS
    Pay = {p1}
    max_amount <- MCmax_amount
    Amount = {1, 2, 3}
    max_txs = 2
    max_exposure = 3
    Shard = "FRA-004"
    Epoch = {1}
    Witness = {w1, w2}
    witnesses_required = 2
    ShardKey = "shard"
    OtherKey = {"other"}
    OtherHeader <- MCOtherHeader
    MaxServed = 4
    MaxRestarts = 1
    MaxSigs = 2
    Account = "alice"
    Funds = 3
    Allowance = {2}
    MaxLeaves = 9
    None = None
    p1 = p1
    r0 = r0
SYMMETRY Symmetry
INVARIANTS
    TypeOK
    EachReceiptInOneBatch
    SettledIsBilled
    FinalizedIsWitnessed
    RootCommitsToBatch
PROPERTIES
    HistoryNotRewritten
    InclusionProvable
