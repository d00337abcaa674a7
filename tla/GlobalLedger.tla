---------------------------- MODULE GlobalLedger ----------------------------
(***************************************************************************)
(* The global ledger (crates/execute/src/lib.rs): GlobalState::apply, one  *)
(* action per kind of L1 transaction.                                      *)
(*                                                                         *)
(* apply is not transactional: it mutates as it goes, and when it returns  *)
(* an error what it has changed stays changed.  `result' is what the last  *)
(* call returned.  A refused transaction is an action of its own, Refuse,  *)
(* whose effect is whatever the handler did before its early return.       *)
(*                                                                         *)
(* Left out: metadata hashes and the event log.  Code stands for its own   *)
(* hash; compiling and running it belong to the WASM library.              *)
(***************************************************************************)
EXTENDS Integers, FiniteSets, FiniteSetsExt, TLC

CONSTANTS
    AccountId, ShardId, AgentId, DisputeId, AssetId, Symbol,
    Code,           \* contract sources and modules
    Compile,        \* Code -> the module WasmRuntime::compile returns, or None
    Run,            \* (module, fuel) -> what call_i32_i32 returns, or None
    default_fuel,
    Upper,          \* Symbol -> Symbol: to_ascii_uppercase
    CheckpointKey,  \* (shard_id, epoch, height) triples
    Root,           \* roots of sealed batches
    None,           \* "not in the map"
    UnitMax,        \* largest AssetUnits: u128::MAX
    RepMax,         \* largest reputation: i64::MAX (the least is -RepMax here)
    Genesis,        \* accounts the genesis block funds, and their amounts
    Tx,             \* the transactions that may be submitted
    MaxSupply       \* bound: GenesisFund stops there

(* struct AgentRecord, Dispute and Asset: the fields apply reads.          *)
AgentRecord == [account : AccountId, suspended : BOOLEAN, reputation : -RepMax..RepMax]
Dispute ==
    [plaintiff : AccountId, defendant : AccountId, bond : Nat,
     status : {"Open", "ForPlaintiff", "ForDefendant"}]
Asset ==
    [issuer : AccountId, symbol : Symbol, max_supply : 0..UnitMax, minted : 0..UnitMax]

(* enum L1Tx.  The account a transaction is about is called `account'      *)
(* whatever its role; of a checkpoint it keeps what apply_checkpoint reads. *)
L1Tx ==
    [type : {"GenesisFund", "Stake", "Unstake", "SlashConflict"},
     account : AccountId, amount : Nat]
    \cup [type : {"AllocateShardAllowance"}, account : AccountId, shard_id : ShardId, amount : Nat]
    \cup [type : {"CheckpointFinalized"}, key : CheckpointKey, root : Root, exposure : Nat,
          witnessed : BOOLEAN, account : AccountId]
    \cup [type : {"RegisterAgent"}, agent_id : AgentId, account : AccountId]
    \cup [type : {"SuspendAgent"}, agent_id : AgentId]
    \cup [type : {"UpdateReputation"}, agent_id : AgentId, delta : Int]
    \cup [type : {"DeployContract"}, account : AccountId, code : Code, code_hash : Code]
    \cup [type : {"CallContract"}, account : AccountId, code_hash : Code, fuel : Nat]
    \cup [type : {"OpenDispute"}, id : DisputeId, account : AccountId, defendant : AccountId,
          amount : Nat]
    \cup [type : {"ResolveDispute"}, id : DisputeId, for_plaintiff : BOOLEAN]
    \cup [type : {"RegisterAsset"}, asset_id : AssetId, account : AccountId, symbol : Symbol,
          max_supply : 0..UnitMax]
    \cup [type : {"MintAsset", "TransferAsset", "SpotTrade"}, asset_id : AssetId,
          account : AccountId, to : AccountId, units : 0..UnitMax, price_total : Nat]

Fuel(tx) == IF tx.fuel = 0 THEN default_fuel ELSE tx.fuel

(* Uppercase letters and compiled modules are their own uppercase and      *)
(* their own compilation; every module runs on every amount of fuel.       *)
ASSUME LedgerAssumption ==
    /\ IsFiniteSet(AccountId) /\ IsFiniteSet(ShardId) /\ IsFiniteSet(AssetId)
    /\ IsFiniteSet(DisputeId)
    /\ CheckpointKey \subseteq ShardId \X Nat \X Nat
    /\ Upper \in [Symbol -> Symbol] /\ \A s \in Symbol : Upper[Upper[s]] = Upper[s]
    /\ None \notin Code /\ Compile \in [Code -> Code \cup {None}]
    /\ \A c \in Code : Compile[c] # None => Compile[Compile[c]] = Compile[c]
    /\ Run \in [DOMAIN Run -> Int \cup {None}] /\ default_fuel \in Nat
    /\ None \notin AccountId \cup AgentId \cup AssetId \cup Root
    /\ None \notin AgentRecord /\ None \notin Dispute /\ None \notin Asset
    /\ UnitMax \in Nat \ {0} /\ RepMax \in Nat \ {0}
    /\ Genesis \in [DOMAIN Genesis -> Nat] /\ DOMAIN Genesis \subseteq AccountId

ASSUME TxAssumption ==
    /\ Tx \subseteq L1Tx
    /\ \A tx \in Tx : tx.type = "CallContract" =>
          \A c \in Code : Compile[c] # None => <<Compile[c], Fuel(tx)>> \in DOMAIN Run

VARIABLES
    known,          \* keys of accounts
    available, locked, stake,   \* Account.balance_available, balance_locked, stake
    suspended,      \* accounts with Account.suspended
    agent_of,       \* Account.agent_id, or None
    reputation,     \* Account.reputation
    total_supply,
    escrows,        \* keys of shard_outstanding
    shard_outstanding,
    finalized,      \* CheckpointKey -> root, or None
    agents,         \* AgentId -> AgentRecord, or None
    disputes,       \* DisputeId -> Dispute, or None
    assets,         \* AssetId -> Asset, or None
    asset_symbols,  \* Symbol -> AssetId, or None
    holdings,       \* (account, asset) -> units; 0 stands for an absent key
    contracts,      \* Code -> the module stored under its hash, or None
    contract_deployers, last_call_result,
    result          \* what apply returned: "ok" or "err"

agentVars   == <<agents, agent_of, reputation>>
accountVars == <<known, available, locked, stake, suspended>>
escrowVars  == <<escrows, shard_outstanding, finalized>>
assetVars   == <<assets, asset_symbols, holdings>>
contractVars == <<contracts, contract_deployers, last_call_result>>
ledgerVars  == <<accountVars, total_supply, escrowVars, agentVars, disputes, assetVars,
                 contractVars>>
vars == <<ledgerVars, result>>

-----------------------------------------------------------------------------
SumOver(S, f(_)) == MapThenSumSet(f, S)

available_sum == SumOver(known, LAMBDA a : available[a])
shard_outstanding_sum == SumOver(escrows, LAMBDA k : shard_outstanding[k])

OpenDisputes == {d \in DisputeId : disputes[d] # None /\ disputes[d].status = "Open"}
locked_sum == SumOver(known, LAMBDA a : locked[a] + stake[a])
                + SumOver(OpenDisputes, LAMBDA d : disputes[d].bond)

Minted(i) == SumOver(AccountId, LAMBDA a : holdings[<<a, i>>])

check_asset_conservation ==
    \A i \in AssetId :
        assets[i] # None => /\ Minted(i) = assets[i].minted
                            /\ assets[i].minted <= assets[i].max_supply

check_conservation ==
    /\ available_sum + shard_outstanding_sum + locked_sum = total_supply
    /\ check_asset_conservation

(* The last thing apply does: the check reads the mutated state.           *)
Return == result' = IF check_conservation' THEN "ok" ELSE "err"

ensure_active(a) == a \in known \ suspended

credit_holding(h, a, i, units) ==
    [h EXCEPT ![<<a, i>>] = IF @ + units > UnitMax THEN UnitMax ELSE @ + units]
debit_holding(h, a, i, units) == [h EXCEPT ![<<a, i>>] = @ - units]

-----------------------------------------------------------------------------
(* GlobalState::new, after the genesis block's GenesisFund transactions.   *)
Init ==
    /\ known = DOMAIN Genesis
    /\ available = [a \in AccountId |-> IF a \in DOMAIN Genesis THEN Genesis[a] ELSE 0]
    /\ locked = [a \in AccountId |-> 0]
    /\ stake = [a \in AccountId |-> 0]
    /\ suspended = {}
    /\ agent_of = [a \in AccountId |-> None]
    /\ reputation = [a \in AccountId |-> 0]
    /\ total_supply = SumOver(DOMAIN Genesis, LAMBDA a : Genesis[a])
    /\ escrows = {}
    /\ shard_outstanding = [k \in ShardId \X AccountId |-> 0]
    /\ finalized = [k \in CheckpointKey |-> None]
    /\ agents = [g \in AgentId |-> None]
    /\ disputes = [d \in DisputeId |-> None]
    /\ assets = [i \in AssetId |-> None]
    /\ asset_symbols = [s \in Symbol |-> None]
    /\ holdings = [k \in AccountId \X AssetId |-> 0]
    /\ contracts = [c \in Code |-> None]
    /\ contract_deployers = [c \in Code |-> None]
    /\ last_call_result = None
    /\ result = "ok"

GenesisFund(tx) ==
    /\ tx.type = "GenesisFund"
    /\ total_supply + tx.amount <= MaxSupply
    /\ known' = known \cup {tx.account}
    /\ available' = [available EXCEPT ![tx.account] = @ + tx.amount]
    /\ total_supply' = total_supply + tx.amount
    /\ UNCHANGED <<locked, stake, suspended, escrowVars, agentVars, disputes, assetVars,
                   contractVars>>
    /\ Return

(* A faulty form: a suspended account may stake.                           *)
CanStake_Suspended(tx) == tx.account \in known /\ tx.amount <= available[tx.account]

CanStake(tx) == ensure_active(tx.account) /\ tx.amount <= available[tx.account]

Stake(tx) ==
    /\ tx.type = "Stake" /\ CanStake(tx)
    /\ available' = [available EXCEPT ![tx.account] = @ - tx.amount]
    /\ stake' = [stake EXCEPT ![tx.account] = @ + tx.amount]
    /\ UNCHANGED <<known, locked, suspended, total_supply, escrowVars, agentVars, disputes,
                   assetVars, contractVars>>
    /\ Return

CanUnstake(tx) == tx.account \in known /\ tx.amount <= stake[tx.account]

Unstake(tx) ==
    /\ tx.type = "Unstake" /\ CanUnstake(tx)
    /\ stake' = [stake EXCEPT ![tx.account] = @ - tx.amount]
    /\ available' = [available EXCEPT ![tx.account] = @ + tx.amount]
    /\ UNCHANGED <<known, locked, suspended, total_supply, escrowVars, agentVars, disputes,
                   assetVars, contractVars>>
    /\ Return

CanAllocate(tx) == tx.account \in known /\ tx.amount <= available[tx.account]

AllocateShardAllowance(tx) ==
    LET k == <<tx.shard_id, tx.account>> IN
    /\ tx.type = "AllocateShardAllowance" /\ CanAllocate(tx)
    /\ available' = [available EXCEPT ![tx.account] = @ - tx.amount]
    /\ escrows' = escrows \cup {k}
    /\ shard_outstanding' = [shard_outstanding EXCEPT ![k] = @ + tx.amount]
    /\ UNCHANGED <<known, locked, stake, suspended, total_supply, finalized, agentVars,
                   disputes, assetVars, contractVars>>
    /\ Return

(* A faulty form: only the same root is refused a second time.             *)
CanFinalize_OtherRoot(tx) ==
    LET k == <<tx.key[1], tx.account>> IN
    /\ tx.witnessed
    /\ finalized[tx.key] # tx.root
    /\ k \in escrows
    /\ tx.exposure <= shard_outstanding[k]

(* apply_checkpoint.  tx.witnessed is the verdict of verify_witnessed with *)
(* the ledger's min_witnesses.                                             *)
CanFinalize(tx) ==
    LET k == <<tx.key[1], tx.account>> IN
    /\ tx.witnessed
    /\ finalized[tx.key] = None
    /\ k \in escrows
    /\ tx.exposure <= shard_outstanding[k]

(* The escrow is debited before the account is looked up.                  *)
CheckpointFinalized(tx) ==
    /\ tx.type = "CheckpointFinalized" /\ CanFinalize(tx)
    /\ shard_outstanding' = [shard_outstanding EXCEPT ![<<tx.key[1], tx.account>>] = @ - tx.exposure]
    /\ UNCHANGED <<known, available, stake, suspended, total_supply, escrows, agentVars,
                   disputes, assetVars, contractVars>>
    /\ IF tx.account \in known
       THEN /\ locked' = [locked EXCEPT ![tx.account] = @ + tx.exposure]
            /\ finalized' = [finalized EXCEPT ![tx.key] = tx.root]
            /\ Return
       ELSE result' = "err" /\ UNCHANGED <<locked, finalized>>

(* Two faulty forms: the penalty is not capped by the stake, and the       *)
(* penalty is taken without being burned.                                  *)
SlashConflict_Uncapped(tx) ==
    /\ tx.type = "SlashConflict" /\ tx.account \in known
    /\ stake' = [stake EXCEPT ![tx.account] = @ - tx.amount]
    /\ total_supply' = total_supply - tx.amount
    /\ UNCHANGED <<known, available, locked, suspended, escrowVars, agentVars, disputes,
                   assetVars, contractVars>>
    /\ Return
SlashConflict_Unburned(tx) ==
    LET slash == IF tx.amount <= stake[tx.account] THEN tx.amount ELSE stake[tx.account] IN
    /\ tx.type = "SlashConflict" /\ tx.account \in known
    /\ stake' = [stake EXCEPT ![tx.account] = @ - slash]
    /\ UNCHANGED <<known, available, locked, suspended, total_supply, escrowVars, agentVars, disputes,
                   assetVars, contractVars>>
    /\ Return

(* The penalty is what the stake covers, and is burned.                    *)
SlashConflict(tx) ==
    LET slash == IF tx.amount <= stake[tx.account] THEN tx.amount ELSE stake[tx.account] IN
    /\ tx.type = "SlashConflict" /\ tx.account \in known
    /\ stake' = [stake EXCEPT ![tx.account] = @ - slash]
    /\ total_supply' = IF slash <= total_supply THEN total_supply - slash ELSE 0
    /\ UNCHANGED <<known, available, locked, suspended, escrowVars, agentVars, disputes,
                   assetVars, contractVars>>
    /\ Return

(* A faulty form: the account is inserted afresh and loses its suspension. *)
RegisterAgent_FreshAccount(tx) ==
    /\ tx.type = "RegisterAgent" /\ agents[tx.agent_id] = None
    /\ known' = known \cup {tx.account}
    /\ suspended' = suspended \ {tx.account}
    /\ agent_of' = [agent_of EXCEPT ![tx.account] = tx.agent_id]
    /\ agents' = [agents EXCEPT ![tx.agent_id] =
                    [account |-> tx.account, suspended |-> FALSE, reputation |-> 0]]
    /\ UNCHANGED <<available, locked, stake, reputation, total_supply, escrowVars, disputes,
                   assetVars, contractVars>>
    /\ Return

(* An agent may be registered for an account that exists, has an agent     *)
(* already or is suspended: the account keeps everything but its agent_id. *)
RegisterAgent(tx) ==
    /\ tx.type = "RegisterAgent" /\ agents[tx.agent_id] = None
    /\ known' = known \cup {tx.account}
    /\ agent_of' = [agent_of EXCEPT ![tx.account] = tx.agent_id]
    /\ agents' = [agents EXCEPT ![tx.agent_id] =
                    [account |-> tx.account, suspended |-> FALSE, reputation |-> 0]]
    /\ UNCHANGED <<available, locked, stake, suspended, reputation, total_supply, escrowVars,
                   disputes, assetVars, contractVars>>
    /\ Return

SuspendAgent(tx) ==
    /\ tx.type = "SuspendAgent" /\ agents[tx.agent_id] # None
    /\ agents' = [agents EXCEPT ![tx.agent_id].suspended = TRUE]
    /\ suspended' = suspended \cup ({agents[tx.agent_id].account} \cap known)
    /\ UNCHANGED <<known, available, locked, stake, agent_of, reputation, total_supply, escrowVars,
                   disputes, assetVars, contractVars>>
    /\ Return

saturating_add(r, delta) ==
    IF r + delta > RepMax THEN RepMax ELSE IF r + delta < -RepMax THEN -RepMax ELSE r + delta

(* The account's copy of the reputation is overwritten whichever of its    *)
(* agents the update is for.                                               *)
UpdateReputation(tx) ==
    LET rec == agents[tx.agent_id]
        rep == saturating_add(rec.reputation, tx.delta)
    IN  /\ tx.type = "UpdateReputation" /\ rec # None
        /\ agents' = [agents EXCEPT ![tx.agent_id].reputation = rep]
        /\ reputation' = IF rec.account \in known
                         THEN [reputation EXCEPT ![rec.account] = rep] ELSE reputation
        /\ UNCHANGED <<accountVars, agent_of, total_supply, escrowVars, disputes, assetVars,
                   contractVars>>
        /\ Return

-----------------------------------------------------------------------------
CanOpen(tx) ==
    /\ disputes[tx.id] = None
    /\ tx.account \in known
    /\ tx.amount <= available[tx.account]

OpenDispute(tx) ==
    /\ tx.type = "OpenDispute" /\ CanOpen(tx)
    /\ available' = [available EXCEPT ![tx.account] = @ - tx.amount]
    /\ disputes' = [disputes EXCEPT ![tx.id] =
                      [plaintiff |-> tx.account, defendant |-> tx.defendant,
                       bond |-> tx.amount, status |-> "Open"]]
    /\ UNCHANGED <<known, locked, stake, suspended, total_supply, escrowVars, agentVars,
                   assetVars, contractVars>>
    /\ Return

(* A faulty form: the point is not copied to the account.                  *)
Reward_RecordOnly(winner, bond) ==
    LET g == agent_of[winner] IN
    /\ available' = [available EXCEPT ![winner] = @ + bond]
    /\ agents' = IF g # None /\ agents[g] # None
                 THEN [agents EXCEPT ![g].reputation = saturating_add(@, 1)] ELSE agents
    /\ UNCHANGED <<agent_of, reputation>>

(* The winner's account is paid the bond, and its agent, if it has one,    *)
(* gains a point.                                                          *)
Reward(winner, bond) ==
    LET g == agent_of[winner]
        rep == saturating_add(agents[g].reputation, 1)
    IN  /\ available' = [available EXCEPT ![winner] = @ + bond]
        /\ UNCHANGED agent_of
        /\ IF g # None /\ agents[g] # None
           THEN /\ agents' = [agents EXCEPT ![g].reputation = rep]
                /\ reputation' = [reputation EXCEPT ![winner] = rep]
           ELSE UNCHANGED <<agents, reputation>>

(* The dispute is closed before the winner's account is looked up: when    *)
(* there is none apply returns an error and the bond belongs to nobody.    *)
ResolveDispute(tx) ==
    LET d == disputes[tx.id]
        winner == IF tx.for_plaintiff THEN d.plaintiff ELSE d.defendant
    IN  /\ tx.type = "ResolveDispute" /\ tx.id \in OpenDisputes
        /\ disputes' = [disputes EXCEPT ![tx.id].status =
                          IF tx.for_plaintiff THEN "ForPlaintiff" ELSE "ForDefendant"]
        /\ UNCHANGED <<known, locked, stake, suspended, total_supply, escrowVars, assetVars,
                   contractVars>>
        /\ IF winner \in known
           THEN Reward(winner, d.bond) /\ Return
           ELSE result' = "err" /\ UNCHANGED <<available, agentVars>>

(* A faulty form: the symbol is looked up as it was written.               *)
CanRegister_RawSymbol(tx) ==
    /\ ensure_active(tx.account)
    /\ assets[tx.asset_id] = None
    /\ tx.symbol # "" /\ asset_symbols[tx.symbol] = None
    /\ tx.max_supply > 0

CanRegister(tx) ==
    /\ ensure_active(tx.account)
    /\ assets[tx.asset_id] = None
    /\ tx.symbol # "" /\ asset_symbols[Upper[tx.symbol]] = None
    /\ tx.max_supply > 0

RegisterAsset(tx) ==
    LET sym == Upper[tx.symbol] IN
    /\ tx.type = "RegisterAsset" /\ CanRegister(tx)
    /\ assets' = [assets EXCEPT ![tx.asset_id] =
                    [issuer |-> tx.account, symbol |-> sym,
                     max_supply |-> tx.max_supply, minted |-> 0]]
    /\ asset_symbols' = [asset_symbols EXCEPT ![sym] = tx.asset_id]
    /\ UNCHANGED <<accountVars, total_supply, escrowVars, agentVars, disputes, holdings,
                   contractVars>>
    /\ Return

(* The supply check uses saturating addition, the update wraps around at   *)
(* the width of AssetUnits.                                                *)
CanMint(tx) ==
    /\ tx.units > 0
    /\ ensure_active(tx.account) /\ ensure_active(tx.to)
    /\ assets[tx.asset_id] # None
    /\ assets[tx.asset_id].issuer = tx.account
    /\ LET sum == assets[tx.asset_id].minted + tx.units
       IN  (IF sum > UnitMax THEN UnitMax ELSE sum) <= assets[tx.asset_id].max_supply

MintAsset(tx) ==
    /\ tx.type = "MintAsset" /\ CanMint(tx)
    /\ assets' = [assets EXCEPT ![tx.asset_id].minted = (@ + tx.units) % (UnitMax + 1)]
    /\ holdings' = credit_holding(holdings, tx.to, tx.asset_id, tx.units)
    /\ UNCHANGED <<accountVars, total_supply, escrowVars, agentVars, disputes, asset_symbols,
                   contractVars>>
    /\ Return

CanTransfer(tx) ==
    /\ tx.units > 0
    /\ assets[tx.asset_id] # None
    /\ ensure_active(tx.account) /\ ensure_active(tx.to)
    /\ tx.units <= holdings[<<tx.account, tx.asset_id>>]

(* A faulty form: both balances are read before either is written, so a    *)
(* transfer to oneself creates units.                                      *)
TransferAsset_StaleRead(tx) ==
    /\ tx.type = "TransferAsset" /\ CanTransfer(tx)
    /\ holdings' = [holdings EXCEPT
           ![<<tx.account, tx.asset_id>>] = @ - tx.units,
           ![<<tx.to, tx.asset_id>>] = holdings[<<tx.to, tx.asset_id>>] + tx.units]
    /\ UNCHANGED <<accountVars, total_supply, escrowVars, agentVars, disputes, assets,
                   asset_symbols, contractVars>>
    /\ Return

TransferAsset(tx) ==
    /\ tx.type = "TransferAsset" /\ CanTransfer(tx)
    /\ holdings' = credit_holding(debit_holding(holdings, tx.account, tx.asset_id, tx.units),
                                  tx.to, tx.asset_id, tx.units)
    /\ UNCHANGED <<accountVars, total_supply, escrowVars, agentVars, disputes, assets,
                   asset_symbols, contractVars>>
    /\ Return

(* tx.account buys from tx.to.                                             *)
CanTrade(tx) ==
    /\ tx.units > 0
    /\ tx.account # tx.to
    /\ assets[tx.asset_id] # None
    /\ ensure_active(tx.account) /\ ensure_active(tx.to)
    /\ tx.price_total <= available[tx.account]
    /\ tx.units <= holdings[<<tx.to, tx.asset_id>>]

(* A faulty form: the price is paid before the seller's units are checked. *)
SpotTrade_PayFirst(tx) ==
    /\ tx.type = "SpotTrade"
    /\ tx.units > 0 /\ tx.account # tx.to /\ assets[tx.asset_id] # None
    /\ ensure_active(tx.account) /\ ensure_active(tx.to)
    /\ tx.price_total <= available[tx.account]
    /\ available' = [available EXCEPT ![tx.account] = @ - tx.price_total,
                                      ![tx.to] = @ + tx.price_total]
    /\ UNCHANGED <<known, locked, stake, suspended, total_supply, escrowVars, agentVars, disputes,
                   assets, asset_symbols, contractVars>>
    /\ IF CanTrade(tx)
       THEN /\ holdings' = credit_holding(debit_holding(holdings, tx.to, tx.asset_id, tx.units),
                                          tx.account, tx.asset_id, tx.units)
            /\ Return
       ELSE result' = "err" /\ UNCHANGED holdings

SpotTrade(tx) ==
    /\ tx.type = "SpotTrade" /\ CanTrade(tx)
    /\ available' = [available EXCEPT ![tx.account] = @ - tx.price_total,
                                      ![tx.to] = @ + tx.price_total]
    /\ holdings' = credit_holding(debit_holding(holdings, tx.to, tx.asset_id, tx.units),
                                  tx.account, tx.asset_id, tx.units)
    /\ UNCHANGED <<known, locked, stake, suspended, total_supply, escrowVars, agentVars, disputes,
                   assets, asset_symbols, contractVars>>
    /\ Return

-----------------------------------------------------------------------------
(* A faulty form: the hash that comes with the code is not checked.        *)
CanDeploy_AnyHash(tx) == tx.account \in known /\ Compile[tx.code] # None

(* The code may be named by the hash of its module or of its source.       *)
CanDeploy(tx) ==
    /\ tx.account \in known
    /\ Compile[tx.code] # None
    /\ tx.code_hash \in {Compile[tx.code], tx.code}

(* A module that is deployed again is stored again, and its deployer is    *)
(* the last one.                                                           *)
DeployContract(tx) ==
    LET module == Compile[tx.code]
        store_hash == IF contracts[tx.code_hash] # None THEN tx.code_hash ELSE module
    IN  /\ tx.type = "DeployContract" /\ CanDeploy(tx)
        /\ contracts' = [contracts EXCEPT ![store_hash] = module, ![tx.code_hash] = module]
        /\ contract_deployers' = [contract_deployers EXCEPT ![tx.code_hash] = tx.account,
                                                            ![store_hash] = tx.account]
        /\ UNCHANGED <<accountVars, total_supply, escrowVars, agentVars, disputes, assetVars,
                       last_call_result>>
        /\ Return

Outcome(tx) == Run[<<contracts[tx.code_hash], Fuel(tx)>>]

CanCall(tx) ==
    /\ tx.account \in known
    /\ contracts[tx.code_hash] # None
    /\ Outcome(tx) # None

CallContract(tx) ==
    /\ tx.type = "CallContract" /\ CanCall(tx)
    /\ last_call_result' = Outcome(tx)
    /\ UNCHANGED <<accountVars, total_supply, escrowVars, agentVars, disputes, assetVars,
                   contracts, contract_deployers>>
    /\ Return

-----------------------------------------------------------------------------
(* An early return before anything was changed.                            *)
Refused(tx) ==
    CASE tx.type = "Stake" -> ~CanStake(tx)
      [] tx.type = "Unstake" -> ~CanUnstake(tx)
      [] tx.type = "AllocateShardAllowance" -> ~CanAllocate(tx)
      [] tx.type = "CheckpointFinalized" -> ~CanFinalize(tx)
      [] tx.type = "SlashConflict" -> tx.account \notin known
      [] tx.type = "RegisterAgent" -> agents[tx.agent_id] # None
      [] tx.type = "SuspendAgent" -> agents[tx.agent_id] = None
      [] tx.type = "UpdateReputation" -> agents[tx.agent_id] = None
      [] tx.type = "DeployContract" -> ~CanDeploy(tx)
      [] tx.type = "CallContract" -> ~CanCall(tx)
      [] tx.type = "OpenDispute" -> ~CanOpen(tx)
      [] tx.type = "ResolveDispute" -> tx.id \notin OpenDisputes
      [] tx.type = "RegisterAsset" -> ~CanRegister(tx)
      [] tx.type = "MintAsset" -> ~CanMint(tx)
      [] tx.type = "TransferAsset" -> ~CanTransfer(tx)
      [] tx.type = "SpotTrade" -> ~CanTrade(tx)
      [] OTHER -> FALSE

Refuse(tx) == Refused(tx) /\ result' = "err" /\ UNCHANGED ledgerVars

apply(tx) ==
    \/ GenesisFund(tx) \/ Stake(tx) \/ Unstake(tx)
    \/ AllocateShardAllowance(tx) \/ CheckpointFinalized(tx) \/ SlashConflict(tx)
    \/ RegisterAgent(tx) \/ SuspendAgent(tx) \/ UpdateReputation(tx)
    \/ DeployContract(tx) \/ CallContract(tx)
    \/ OpenDispute(tx) \/ ResolveDispute(tx)
    \/ RegisterAsset(tx) \/ MintAsset(tx) \/ TransferAsset(tx) \/ SpotTrade(tx)
    \/ Refuse(tx)

Next == \E tx \in Tx : apply(tx)

Spec == Init /\ [][Next]_vars

-----------------------------------------------------------------------------
(* Type invariant of the ledger.                                           *)
TypeOK ==
    /\ known \subseteq AccountId /\ suspended \subseteq known
    /\ available \in [AccountId -> Nat]
    /\ locked \in [AccountId -> Nat]
    /\ stake \in [AccountId -> Nat]
    /\ total_supply \in Nat
    /\ escrows \subseteq ShardId \X AccountId
    /\ shard_outstanding \in [ShardId \X AccountId -> Nat]
    /\ finalized \in [CheckpointKey -> Root \cup {None}]
    /\ agents \in [AgentId -> AgentRecord \cup {None}]
    /\ agent_of \in [AccountId -> AgentId \cup {None}]
    /\ reputation \in [AccountId -> -RepMax..RepMax]
    /\ disputes \in [DisputeId -> Dispute \cup {None}]
    /\ assets \in [AssetId -> Asset \cup {None}]
    /\ asset_symbols \in [Symbol -> AssetId \cup {None}]
    /\ holdings \in [AccountId \X AssetId -> 0..UnitMax]
    /\ contracts \in [Code -> Code \cup {None}]
    /\ contract_deployers \in [Code -> AccountId \cup {None}]
    /\ last_call_result \in Int \cup {None}
    /\ result \in {"ok", "err"}

(* available + outstanding shard allowances + locked = total supply, after *)
(* every transaction, refused ones included.                               *)
Conservation == available_sum + shard_outstanding_sum + locked_sum = total_supply

(* Every unit of an asset that was minted is held by somebody, and no more *)
(* are minted than its issuer registered.                                  *)
AssetConservation == check_asset_conservation

(* What checkpoints locked is exactly the exposure of the checkpoints that *)
(* were finalized: none settles twice, under either of two roots.          *)
Exposure(k) ==
    (CHOOSE tx \in Tx : /\ tx.type = "CheckpointFinalized"
                        /\ tx.key = k /\ tx.root = finalized[k]).exposure
SettledOnce ==
    SumOver(AccountId, LAMBDA a : locked[a])
        = SumOver({k \in CheckpointKey : finalized[k] # None}, Exposure)

(* A transaction that apply refuses changes nothing: the checks of every   *)
(* handler come before its first assignment, and the conservation check    *)
(* that comes after the last one never fails.                              *)
RefusedIsNoop == [][result' = "err" => UNCHANGED ledgerVars]_vars

(* Suspension cannot be undone by registering another agent for the same   *)
(* account: a suspended agent's account stays suspended, and a suspended   *)
(* account neither gains stake nor gains or gives away asset units.        *)
SuspendedAgentBlocked ==
    \A g \in AgentId :
        agents[g] # None /\ agents[g].suspended => agents[g].account \in suspended
SuspendedAccountFrozen ==
    [][\A a \in suspended :
          /\ a \in suspended'
          /\ stake'[a] <= stake[a]
          /\ \A i \in AssetId : holdings'[<<a, i>>] = holdings[<<a, i>>]]_vars

(* An account with one agent shows that agent's reputation, through every  *)
(* update and every dispute it wins.                                       *)
ReputationMirrored ==
    \A g \in AgentId :
        agents[g] # None /\ (\A h \in AgentId \ {g} :
                               agents[h] = None \/ agents[h].account # agents[g].account)
            => reputation[agents[g].account] = agents[g].reputation

(* The hash a caller names decides what runs, for ever: under a hash lies  *)
(* the module it is the hash of, or the module of the source it is the     *)
(* hash of, and that module can be called by its own hash too.             *)
HashNamesModule ==
    \A c \in Code :
        contracts[c] # None => /\ contracts[c] \in {c, Compile[c]}
                               /\ contracts[contracts[c]] = contracts[c]

(* A symbol names one asset however it is capitalised, and the index leads *)
(* to it.                                                                  *)
SymbolNamesOneAsset ==
    /\ \A i \in AssetId : assets[i] # None => asset_symbols[assets[i].symbol] = i
    /\ \A s, t \in Symbol : asset_symbols[s] # None /\ asset_symbols[t] # None
                               /\ Upper[s] = Upper[t] => s = t
=============================================================================
