------------------------- MODULE GlobalLedgerProofs -------------------------
(***************************************************************************)
(* Proofs about GlobalLedger, for any accounts, shards, assets, contracts  *)
(* and transactions.                                                       *)
(***************************************************************************)
EXTENDS GlobalLedger, SumTheorems

(* What a transaction carries, by its kind.                                *)
LEMMA TxFields ==
    ASSUME NEW tx \in Tx
    PROVE  /\ tx.type \in {"GenesisFund", "Stake", "Unstake", "SlashConflict"}
                => tx.account \in AccountId /\ tx.amount \in Nat
           /\ tx.type = "AllocateShardAllowance"
                => tx.account \in AccountId /\ tx.shard_id \in ShardId /\ tx.amount \in Nat
           /\ tx.type = "CheckpointFinalized"
                => /\ tx.key \in CheckpointKey /\ tx.key[1] \in ShardId
                   /\ tx.root \in Root /\ tx.exposure \in Nat /\ tx.account \in AccountId
           /\ tx.type = "RegisterAgent" => tx.agent_id \in AgentId /\ tx.account \in AccountId
           /\ tx.type = "SuspendAgent" => tx.agent_id \in AgentId
           /\ tx.type = "UpdateReputation" => tx.agent_id \in AgentId /\ tx.delta \in Int
           /\ tx.type = "DeployContract"
                => tx.account \in AccountId /\ tx.code \in Code /\ tx.code_hash \in Code
           /\ tx.type = "CallContract"
                => /\ tx.account \in AccountId /\ tx.code_hash \in Code
                   /\ \A c \in Code : Compile[c] # None => <<Compile[c], Fuel(tx)>> \in DOMAIN Run
           /\ tx.type = "OpenDispute"
                => /\ tx.id \in DisputeId /\ tx.account \in AccountId
                   /\ tx.defendant \in AccountId /\ tx.amount \in Nat
           /\ tx.type = "ResolveDispute" => tx.id \in DisputeId /\ tx.for_plaintiff \in BOOLEAN
           /\ tx.type = "RegisterAsset"
                => /\ tx.asset_id \in AssetId /\ tx.account \in AccountId
                   /\ tx.symbol \in Symbol /\ tx.max_supply \in 0..UnitMax
           /\ tx.type \in {"MintAsset", "TransferAsset", "SpotTrade"}
                => /\ tx.asset_id \in AssetId /\ tx.account \in AccountId /\ tx.to \in AccountId
                   /\ tx.units \in 0..UnitMax /\ tx.price_total \in Nat
  <1>1. tx \in L1Tx
    BY TxAssumption
  <1>2. tx.type = "CheckpointFinalized" => tx.key \in CheckpointKey
    BY <1>1 DEF L1Tx
  <1>3. tx.type = "CheckpointFinalized" => tx.key[1] \in ShardId
    BY <1>2, LedgerAssumption
  <1>4. tx.type = "CallContract" =>
          \A c \in Code : Compile[c] # None => <<Compile[c], Fuel(tx)>> \in DOMAIN Run
    BY TxAssumption
  <1> QED
    BY <1>1, <1>2, <1>3, <1>4 DEF L1Tx

(* The modules under the stored hashes came out of the compiler.           *)
StoredCompiled == \A c \in Code : contracts[c] # None => \E s \in Code : contracts[c] = Compile[s]

(* What the genesis block funds adds up to a natural number.               *)
LEMMA GenesisSum ==
    /\ SumOver(DOMAIN Genesis, LAMBDA a : Genesis[a]) = SumOf(Genesis, DOMAIN Genesis)
    /\ SumOf(Genesis, DOMAIN Genesis) \in Nat
  <1>1. SumOver(DOMAIN Genesis, LAMBDA a : Genesis[a]) = SumOf(Genesis, DOMAIN Genesis)
    BY DEF SumOver, MapThenSumSet, MapThenFoldSet, SumOf, Sums, IsSums, SumStep, Pick
  <1>2. IsFiniteSet(DOMAIN Genesis)
    BY LedgerAssumption, FS_Subset
  <1>3. \A a \in DOMAIN Genesis : Genesis[a] \in Nat
    BY LedgerAssumption
  <1> QED
    BY <1>1, <1>2, <1>3, SumNat

(* GlobalState::new leaves every map well-formed and no contract stored.    *)
LEMMA TypeInit == Init => TypeOK /\ StoredCompiled
  <1> SUFFICES ASSUME Init PROVE TypeOK /\ StoredCompiled
    OBVIOUS
  <1>1. total_supply \in Nat
    BY GenesisSum DEF Init
  <1> QED
    BY <1>1, LedgerAssumption DEF Init, TypeOK, StoredCompiled

(* saturating_add stays between the least and the largest reputation.      *)
LEMMA SaturatingAddType ==
    ASSUME NEW r \in -RepMax..RepMax, NEW delta \in Int
    PROVE  saturating_add(r, delta) \in -RepMax..RepMax
  BY LedgerAssumption DEF saturating_add

(* An open dispute is on record.                                           *)
LEMMA OpenIsDispute ==
    ASSUME TypeOK, NEW d \in OpenDisputes
    PROVE  d \in DisputeId /\ disputes[d] \in Dispute
  <1>1. disputes \in [DisputeId -> Dispute \cup {None}]
    BY DEF TypeOK
  <1>2. d \in DisputeId /\ disputes[d] # None
    BY DEF OpenDisputes
  <1> QED
    BY ONLY <1>1, <1>2

(* A closed dispute has the status that it was given.                      *)
LEMMA RuledStatus ==
    ASSUME NEW d \in Dispute, NEW st
    PROVE  [d EXCEPT !.status = st].status = st
  BY Zenon DEF Dispute

(* What a ruling does: the dispute is closed, and the winner is rewarded if *)
(* there is an account for it (ResolveDispute).                            *)
LEMMA RulingCases ==
    ASSUME NEW tx \in Tx, ResolveDispute(tx), NEW winner, NEW bond, NEW verdict,
           winner = (IF tx.for_plaintiff THEN disputes[tx.id].plaintiff
                     ELSE disputes[tx.id].defendant),
           bond = disputes[tx.id].bond,
           verdict = IF tx.for_plaintiff THEN "ForPlaintiff" ELSE "ForDefendant"
    PROVE  /\ tx.id \in OpenDisputes
           /\ disputes' = [disputes EXCEPT ![tx.id].status = verdict]
           /\ UNCHANGED <<known, locked, stake, suspended, total_supply, escrowVars, assetVars,
                          contractVars>>
           /\ winner \in known => Reward(winner, bond) /\ Return
           /\ winner \notin known => result' = "err" /\ UNCHANGED <<available, agentVars>>
  BY Zenon DEF ResolveDispute

(* The reward of a winner that is or is not an agent's account.            *)
LEMMA RewardCases ==
    ASSUME NEW winner, NEW bond, Reward(winner, bond), NEW g, g = agent_of[winner],
           NEW rep, rep = saturating_add(agents[g].reputation, 1)
    PROVE  /\ available' = [available EXCEPT ![winner] = @ + bond]
           /\ UNCHANGED agent_of
           /\ g # None /\ agents[g] # None =>
                /\ agents' = [agents EXCEPT ![g].reputation = rep]
                /\ reputation' = [reputation EXCEPT ![winner] = rep]
           /\ ~(g # None /\ agents[g] # None) => UNCHANGED <<agents, reputation>>
  BY Zenon DEF Reward

(* Every transaction keeps the types.                                      *)
LEMMA TypeNext ==
    ASSUME TypeOK, StoredCompiled, [Next]_vars
    PROVE  TypeOK' /\ StoredCompiled'
  <1> USE DEF accountVars, escrowVars, agentVars, assetVars, contractVars
  <1>0. ASSUME UNCHANGED contracts PROVE StoredCompiled'
    BY <1>0 DEF StoredCompiled
  <1>R. Return => result' \in {"ok", "err"}
    BY DEF Return
  <1>1. ASSUME NEW tx \in Tx, GenesisFund(tx) PROVE TypeOK' /\ StoredCompiled'
    <2>1. tx.account \in AccountId /\ tx.amount \in Nat
      BY <1>1, TxFields DEF GenesisFund
    <2> QED
      BY <1>0, <1>R, <1>1, <2>1 DEF GenesisFund, TypeOK
  <1>2. ASSUME NEW tx \in Tx, Stake(tx) PROVE TypeOK' /\ StoredCompiled'
    <2>1. tx.account \in AccountId /\ tx.amount \in Nat
      BY <1>2, TxFields DEF Stake
    <2> QED
      BY <1>0, <1>R, <1>2, <2>1 DEF Stake, CanStake, TypeOK
  <1>3. ASSUME NEW tx \in Tx, Unstake(tx) PROVE TypeOK' /\ StoredCompiled'
    <2>1. tx.account \in AccountId /\ tx.amount \in Nat
      BY <1>3, TxFields DEF Unstake
    <2> QED
      BY <1>0, <1>R, <1>3, <2>1 DEF Unstake, CanUnstake, TypeOK
  <1>4. ASSUME NEW tx \in Tx, AllocateShardAllowance(tx) PROVE TypeOK' /\ StoredCompiled'
    <2>1. tx.account \in AccountId /\ tx.shard_id \in ShardId /\ tx.amount \in Nat
      BY <1>4, TxFields DEF AllocateShardAllowance
    <2> QED
      BY <1>0, <1>R, <1>4, <2>1 DEF AllocateShardAllowance, CanAllocate, TypeOK
  <1>5. ASSUME NEW tx \in Tx, CheckpointFinalized(tx) PROVE TypeOK' /\ StoredCompiled'
    <2>1. /\ tx.key \in CheckpointKey /\ tx.key[1] \in ShardId
          /\ tx.root \in Root /\ tx.exposure \in Nat /\ tx.account \in AccountId
      BY <1>5, TxFields DEF CheckpointFinalized
    <2> QED
      BY <1>0, <1>R, <1>5, <2>1 DEF CheckpointFinalized, CanFinalize, TypeOK
  <1>6. ASSUME NEW tx \in Tx, SlashConflict(tx) PROVE TypeOK' /\ StoredCompiled'
    <2>1. tx.account \in AccountId /\ tx.amount \in Nat
      BY <1>6, TxFields DEF SlashConflict
    <2> QED
      BY <1>0, <1>R, <1>6, <2>1 DEF SlashConflict, TypeOK
  <1>7. ASSUME NEW tx \in Tx, RegisterAgent(tx) PROVE TypeOK' /\ StoredCompiled'
    <2>1. tx.agent_id \in AgentId /\ tx.account \in AccountId
      BY <1>7, TxFields DEF RegisterAgent
    <2>2. [account |-> tx.account, suspended |-> FALSE, reputation |-> 0] \in AgentRecord
      BY <2>1, LedgerAssumption DEF AgentRecord
    <2> QED
      BY <1>0, <1>R, <1>7, <2>1, <2>2 DEF RegisterAgent, TypeOK
  <1>8. ASSUME NEW tx \in Tx, SuspendAgent(tx) PROVE TypeOK' /\ StoredCompiled'
    <2>1. tx.agent_id \in AgentId
      BY <1>8, TxFields DEF SuspendAgent
    <2> DEFINE rec == agents[tx.agent_id]
    <2>0. rec \in AgentRecord
      BY <1>8, <2>1 DEF SuspendAgent, TypeOK
    <2>2. [rec EXCEPT !.suspended = TRUE] \in AgentRecord
      <3> HIDE DEF rec
      <3> QED
        BY <2>0 DEF AgentRecord
    <2>3. agents' \in [AgentId -> AgentRecord \cup {None}]
      BY <1>8, <2>1, <2>2 DEF SuspendAgent, TypeOK
    <2> QED
      BY <1>0, <1>R, <1>8, <2>3 DEF SuspendAgent, TypeOK
  <1>9. ASSUME NEW tx \in Tx, UpdateReputation(tx) PROVE TypeOK' /\ StoredCompiled'
    <2> DEFINE rec == agents[tx.agent_id]
               rep == saturating_add(rec.reputation, tx.delta)
    <2>1. tx.agent_id \in AgentId /\ tx.delta \in Int
      BY <1>9, TxFields DEF UpdateReputation
    <2>2. rec \in AgentRecord
      BY <1>9, <2>1 DEF UpdateReputation, TypeOK
    <2>3. rep \in -RepMax..RepMax
      BY <2>1, <2>2, SaturatingAddType DEF AgentRecord
    <2>4. [rec EXCEPT !.reputation = rep] \in AgentRecord /\ rec.account \in AccountId
      BY <2>2, <2>3 DEF AgentRecord
    <2>5. /\ agents' = [agents EXCEPT ![tx.agent_id] = [rec EXCEPT !.reputation = rep]]
          /\ reputation' = IF rec.account \in known
                           THEN [reputation EXCEPT ![rec.account] = rep] ELSE reputation
      BY <1>9 DEF UpdateReputation
    <2> HIDE DEF rep, rec
    <2> QED
      BY <1>0, <1>R, <1>9, <2>1, <2>3, <2>4, <2>5 DEF UpdateReputation, TypeOK
  <1>10. ASSUME NEW tx \in Tx, DeployContract(tx) PROVE TypeOK' /\ StoredCompiled'
    <2> DEFINE module == Compile[tx.code]
    <2>1. tx.account \in AccountId /\ tx.code \in Code /\ tx.code_hash \in Code
      BY <1>10, TxFields DEF DeployContract
    <2>2. module \in Code
      BY <1>10, <2>1, LedgerAssumption DEF DeployContract, CanDeploy
    <2>3. PICK h \in Code :
             /\ contracts' = [contracts EXCEPT ![h] = module, ![tx.code_hash] = module]
             /\ contract_deployers' = [contract_deployers EXCEPT ![tx.code_hash] = tx.account,
                                                                 ![h] = tx.account]
      BY <1>10, <2>1, <2>2 DEF DeployContract
    <2> HIDE DEF module
    <2>4. contracts' \in [Code -> Code \cup {None}]
      BY <2>1, <2>2, <2>3 DEF TypeOK
    <2>5. contract_deployers' \in [Code -> AccountId \cup {None}]
      BY <2>1, <2>3 DEF TypeOK
    <2>6. TypeOK'
      BY <1>R, <1>10, <2>4, <2>5 DEF DeployContract, TypeOK
    <2>7. StoredCompiled'
      BY <2>1, <2>3 DEF StoredCompiled, TypeOK, module
    <2> QED
      BY <2>6, <2>7
  <1>11. ASSUME NEW tx \in Tx, CallContract(tx) PROVE TypeOK' /\ StoredCompiled'
    <2>1. /\ tx.account \in AccountId /\ tx.code_hash \in Code
          /\ \A c \in Code : Compile[c] # None => <<Compile[c], Fuel(tx)>> \in DOMAIN Run
      BY <1>11, TxFields DEF CallContract
    <2>2. PICK s \in Code : contracts[tx.code_hash] = Compile[s] /\ Compile[s] # None
      BY <1>11, <2>1 DEF CallContract, CanCall, StoredCompiled
    <2>3. Outcome(tx) \in Int \cup {None}
      BY <2>1, <2>2, LedgerAssumption DEF Outcome
    <2> QED
      BY <1>0, <1>R, <1>11, <2>3 DEF CallContract, TypeOK
  <1>12. ASSUME NEW tx \in Tx, OpenDispute(tx) PROVE TypeOK' /\ StoredCompiled'
    <2>1. /\ tx.id \in DisputeId /\ tx.account \in AccountId
          /\ tx.defendant \in AccountId /\ tx.amount \in Nat
      BY <1>12, TxFields DEF OpenDispute
    <2>2. [plaintiff |-> tx.account, defendant |-> tx.defendant,
           bond |-> tx.amount, status |-> "Open"] \in Dispute
      BY <2>1 DEF Dispute
    <2> QED
      BY <1>0, <1>R, <1>12, <2>1, <2>2 DEF OpenDispute, CanOpen, TypeOK
  <1>13. ASSUME NEW tx \in Tx, ResolveDispute(tx) PROVE TypeOK' /\ StoredCompiled'
    <2>1. PICK d : d = disputes[tx.id]
      OBVIOUS
    <2>2. PICK verdict : verdict = IF tx.for_plaintiff THEN "ForPlaintiff" ELSE "ForDefendant"
      OBVIOUS
    <2>3. PICK w : w = IF tx.for_plaintiff THEN d.plaintiff ELSE d.defendant
      OBVIOUS
    <2>4. /\ tx.id \in OpenDisputes
          /\ disputes' = [disputes EXCEPT ![tx.id].status = verdict]
          /\ UNCHANGED <<known, locked, stake, suspended, total_supply, escrowVars, assetVars,
                         contractVars>>
          /\ w \in known => Reward(w, d.bond) /\ Return
          /\ w \notin known => result' = "err" /\ UNCHANGED <<available, agentVars>>
      BY <1>13, <2>1, <2>2, <2>3, RulingCases
    <2>5. tx.id \in DisputeId /\ d \in Dispute
      BY <2>1, <2>4 DEF OpenDisputes, TypeOK
    <2>6. [d EXCEPT !.status = verdict] \in Dispute /\ w \in AccountId /\ d.bond \in Nat
      BY <2>2, <2>3, <2>5 DEF Dispute
    <2>7. disputes' \in [DisputeId -> Dispute \cup {None}]
      BY <2>1, <2>4, <2>5, <2>6 DEF TypeOK
    <2>8. CASE w \notin known
      BY <1>0, <2>4, <2>7, <2>8 DEF TypeOK
    <2>9. CASE w \in known
      <3>1. PICK g : g = agent_of[w]
        OBVIOUS
      <3>2. PICK rep : rep = saturating_add(agents[g].reputation, 1)
        OBVIOUS
      <3>3. /\ available' = [available EXCEPT ![w] = @ + d.bond]
            /\ UNCHANGED agent_of
            /\ g # None /\ agents[g] # None =>
                 /\ agents' = [agents EXCEPT ![g].reputation = rep]
                 /\ reputation' = [reputation EXCEPT ![w] = rep]
            /\ ~(g # None /\ agents[g] # None) => UNCHANGED <<agents, reputation>>
        <4>1. Reward(w, d.bond)
          BY <2>4, <2>9
        <4> QED
          BY ONLY <3>1, <3>2, <4>1, ZenonT(60) DEF Reward
      <3>0. /\ available \in [AccountId -> Nat] /\ agents \in [AgentId -> AgentRecord \cup {None}]
            /\ reputation \in [AccountId -> -RepMax..RepMax]
        BY DEF TypeOK
      <3>4. available' \in [AccountId -> Nat]
        <4>1. available[w] + d.bond \in Nat
          BY <2>6, <3>0
        <4> QED
          BY ONLY <3>0, <3>3, <4>1
      <3>5. agents' \in [AgentId -> AgentRecord \cup {None}]
             /\ reputation' \in [AccountId -> -RepMax..RepMax]
        <4>1. CASE g # None /\ agents[g] # None
          <5>1. g \in AgentId /\ agents[g] \in AgentRecord
            BY <2>6, <3>1, <4>1 DEF TypeOK
          <5>2. rep \in -RepMax..RepMax
            <6>1. agents[g].reputation \in -RepMax..RepMax
              BY <5>1 DEF AgentRecord
            <6> QED
              BY <3>2, <6>1, SaturatingAddType
          <5>3. [agents[g] EXCEPT !.reputation = rep] \in AgentRecord
            <6>1. PICK rec \in AgentRecord : rec = agents[g]
              BY <5>1
            <6>2. [rec EXCEPT !.reputation = rep] \in AgentRecord
              BY ONLY <5>2, <6>1 DEF AgentRecord
            <6> QED
              BY <6>1, <6>2
          <5> QED
            BY ONLY <3>0, <3>3, <4>1, <5>2, <5>3
        <4>2. CASE ~(g # None /\ agents[g] # None)
          BY <3>0, <3>3, <4>2
        <4> QED
          BY <4>1, <4>2
      <3> QED
        BY <1>0, <1>R, <2>4, <2>7, <2>9, <3>3, <3>4, <3>5 DEF TypeOK
    <2> QED
      BY <2>8, <2>9
  <1>14. ASSUME NEW tx \in Tx, RegisterAsset(tx) PROVE TypeOK' /\ StoredCompiled'
    <2>1. /\ tx.asset_id \in AssetId /\ tx.account \in AccountId
          /\ tx.symbol \in Symbol /\ tx.max_supply \in 0..UnitMax
      BY <1>14, TxFields DEF RegisterAsset
    <2>2. Upper[tx.symbol] \in Symbol
      BY <2>1, LedgerAssumption
    <2>3. [issuer |-> tx.account, symbol |-> Upper[tx.symbol],
           max_supply |-> tx.max_supply, minted |-> 0] \in Asset
      BY <2>1, <2>2, LedgerAssumption DEF Asset
    <2> QED
      BY <1>0, <1>R, <1>14, <2>1, <2>2, <2>3 DEF RegisterAsset, TypeOK
  <1>15. ASSUME NEW tx \in Tx, MintAsset(tx) PROVE TypeOK' /\ StoredCompiled'
    <2> DEFINE a == assets[tx.asset_id]
               minted == (a.minted + tx.units) % (UnitMax + 1)
    <2>1. /\ tx.asset_id \in AssetId /\ tx.to \in AccountId /\ tx.units \in 0..UnitMax
      BY <1>15, TxFields DEF MintAsset
    <2>2. a \in Asset
      BY <1>15, <2>1 DEF MintAsset, CanMint, TypeOK
    <2>3. minted \in 0..UnitMax
      BY <2>1, <2>2, LedgerAssumption DEF Asset
    <2>4. [a EXCEPT !.minted = minted] \in Asset
      BY <2>2, <2>3 DEF Asset
    <2>5. assets' = [assets EXCEPT ![tx.asset_id] = [a EXCEPT !.minted = minted]]
      BY <1>15 DEF MintAsset
    <2>6. holdings' \in [AccountId \X AssetId -> 0..UnitMax]
      BY <1>15, <2>1, LedgerAssumption DEF MintAsset, credit_holding, TypeOK
    <2> HIDE DEF minted, a
    <2> QED
      BY <1>0, <1>R, <1>15, <2>1, <2>4, <2>5, <2>6 DEF MintAsset, TypeOK
  <1>16. ASSUME NEW h \in [AccountId \X AssetId -> 0..UnitMax], NEW i \in AssetId,
                NEW from \in AccountId, NEW to \in AccountId, NEW n \in 0..UnitMax,
                n <= h[<<from, i>>]
         PROVE  credit_holding(debit_holding(h, from, i, n), to, i, n)
                  \in [AccountId \X AssetId -> 0..UnitMax]
    <2>1. debit_holding(h, from, i, n) \in [AccountId \X AssetId -> 0..UnitMax]
      BY <1>16, LedgerAssumption DEF debit_holding
    <2> QED
      BY <2>1, LedgerAssumption DEF credit_holding
  <1>17. ASSUME NEW tx \in Tx, TransferAsset(tx) PROVE TypeOK' /\ StoredCompiled'
    <2>1. /\ tx.asset_id \in AssetId /\ tx.account \in AccountId /\ tx.to \in AccountId
          /\ tx.units \in 0..UnitMax
      BY <1>17, TxFields DEF TransferAsset
    <2>2. holdings' \in [AccountId \X AssetId -> 0..UnitMax]
      BY <1>16, <1>17, <2>1 DEF TransferAsset, CanTransfer, TypeOK
    <2> QED
      BY <1>0, <1>R, <1>17, <2>2 DEF TransferAsset, TypeOK
  <1>18. ASSUME NEW tx \in Tx, SpotTrade(tx) PROVE TypeOK' /\ StoredCompiled'
    <2>1. /\ tx.asset_id \in AssetId /\ tx.account \in AccountId /\ tx.to \in AccountId
          /\ tx.units \in 0..UnitMax /\ tx.price_total \in Nat
      BY <1>18, TxFields DEF SpotTrade
    <2>2. holdings' \in [AccountId \X AssetId -> 0..UnitMax]
      BY <1>16, <1>18, <2>1 DEF SpotTrade, CanTrade, TypeOK
    <2>3. available' \in [AccountId -> Nat]
      <3>1. \A a \in AccountId :
               available'[a] = IF a = tx.to THEN available[a] + tx.price_total
                               ELSE IF a = tx.account THEN available[a] - tx.price_total
                               ELSE available[a]
        BY <1>18, <2>1 DEF SpotTrade, CanTrade, TypeOK
      <3>2. available' = [a \in AccountId |-> available'[a]]
        BY <1>18 DEF SpotTrade, TypeOK
      <3>3. available[tx.account] - tx.price_total \in Nat
        BY <1>18, <2>1 DEF SpotTrade, CanTrade, TypeOK
      <3> QED
        BY <2>1, <3>1, <3>2, <3>3 DEF TypeOK
    <2> QED
      BY <1>0, <1>R, <1>18, <2>2, <2>3 DEF SpotTrade, TypeOK
  <1>19. ASSUME NEW tx \in Tx, Refuse(tx) PROVE TypeOK' /\ StoredCompiled'
    BY <1>0, <1>19 DEF Refuse, ledgerVars, TypeOK
  <1>20. CASE UNCHANGED vars
    BY <1>0, <1>20 DEF vars, ledgerVars, TypeOK
  <1> QED
    BY <1>1, <1>2, <1>3, <1>4, <1>5, <1>6, <1>7, <1>8, <1>9, <1>10, <1>11, <1>12, <1>13,
       <1>14, <1>15, <1>17, <1>18, <1>19, <1>20 DEF Next, apply

-----------------------------------------------------------------------------
(* Every agent's account exists; an account's agent exists and is its own; *)
(* an account without agents has no reputation.                            *)
AgentInv ==
    /\ \A g \in AgentId : agents[g] # None => agents[g].account \in known
    /\ \A a \in AccountId :
          agent_of[a] # None => /\ agents[agent_of[a]] # None
                                /\ agents[agent_of[a]].account = a
    /\ \A a \in AccountId :
          (\A g \in AgentId : agents[g] = None \/ agents[g].account # a) => reputation[a] = 0
    /\ SuspendedAgentBlocked
    /\ ReputationMirrored

(* The symbols in the index are uppercase.                                 *)
SymbolInv ==
    /\ \A s \in Symbol : asset_symbols[s] # None => Upper[s] = s
    /\ SymbolNamesOneAsset

(* No transaction disturbs what the agents' records and the accounts say   *)
(* of each other.                                                          *)
LEMMA AgentNext ==
    ASSUME TypeOK, TypeOK', AgentInv, [Next]_vars
    PROVE  AgentInv'
  <1> USE DEF accountVars, escrowVars, agentVars, assetVars, contractVars
  <1>0. ASSUME UNCHANGED <<known, suspended, agentVars>> PROVE AgentInv'
    BY <1>0 DEF AgentInv, SuspendedAgentBlocked, ReputationMirrored
  <1>1. ASSUME NEW tx \in Tx, GenesisFund(tx) PROVE AgentInv'
    BY <1>1 DEF GenesisFund, AgentInv, SuspendedAgentBlocked, ReputationMirrored
  <1>2. ASSUME NEW tx \in Tx, RegisterAgent(tx) PROVE AgentInv'
    <2>1. tx.agent_id \in AgentId /\ tx.account \in AccountId
      BY <1>2, TxFields DEF RegisterAgent
    <2> DEFINE rec == [account |-> tx.account, suspended |-> FALSE, reputation |-> 0]
    <2>0. rec \in AgentRecord
      BY <2>1, LedgerAssumption DEF AgentRecord
    <2>2. rec # None
      BY <2>0, LedgerAssumption
    <2>3. \A g \in AgentId : agents'[g] = IF g = tx.agent_id THEN rec ELSE agents[g]
      BY <1>2, <2>1 DEF RegisterAgent, TypeOK
    <2>4. \A a \in AccountId : agent_of'[a] = IF a = tx.account THEN tx.agent_id ELSE agent_of[a]
      BY <1>2, <2>1 DEF RegisterAgent, TypeOK
    <2>5. known' = known \cup {tx.account} /\ agents[tx.agent_id] = None
          /\ UNCHANGED <<suspended, reputation>>
      BY <1>2 DEF RegisterAgent
    <2>6. rec.account = tx.account /\ rec.suspended = FALSE /\ rec.reputation = 0
      OBVIOUS
    <2>7. \A g \in AgentId : agents[g] # None => agents[g].account \in AccountId
      BY DEF TypeOK, AgentRecord
    <2> HIDE DEF rec
    <2>8. \A g \in AgentId : agents'[g] # None => agents'[g].account \in known'
      BY <2>3, <2>5, <2>6 DEF AgentInv
    <2>9. \A a \in AccountId :
            agent_of'[a] # None => /\ agents'[agent_of'[a]] # None
                                   /\ agents'[agent_of'[a]].account = a
      BY <2>1, <2>2, <2>3, <2>4, <2>5, <2>6 DEF AgentInv, TypeOK
    <2>10. \A a \in AccountId :
            (\A g \in AgentId : agents'[g] = None \/ agents'[g].account # a) => reputation'[a] = 0
      BY <2>1, <2>2, <2>3, <2>5, <2>6 DEF AgentInv
    <2>11. SuspendedAgentBlocked'
      BY <2>3, <2>5, <2>6 DEF AgentInv, SuspendedAgentBlocked
    <2>12. ReputationMirrored'
      <3> SUFFICES ASSUME NEW g \in AgentId, agents'[g] # None,
                          \A h \in AgentId \ {g} :
                             agents'[h] = None \/ agents'[h].account # agents'[g].account
                   PROVE  reputation'[agents'[g].account] = agents'[g].reputation
        BY DEF ReputationMirrored
      <3>1. CASE g = tx.agent_id
        <4>1. \A h \in AgentId : agents[h] = None \/ agents[h].account # tx.account
          BY <2>3, <2>5, <2>6, <3>1
        <4> QED
          BY <2>1, <2>3, <2>5, <2>6, <3>1, <4>1 DEF AgentInv
      <3>2. CASE g # tx.agent_id
        <4>1. \A h \in AgentId \ {g} : agents[h] = None \/ agents[h].account # agents[g].account
          BY <2>3, <2>5, <3>2
        <4> QED
          BY <2>3, <2>5, <3>2, <4>1 DEF AgentInv, ReputationMirrored
      <3> QED
        BY <3>1, <3>2
    <2> QED
      BY <2>8, <2>9, <2>10, <2>11, <2>12 DEF AgentInv
  <1>3. ASSUME NEW tx \in Tx, SuspendAgent(tx) PROVE AgentInv'
    <2>1. tx.agent_id \in AgentId
      BY <1>3, TxFields DEF SuspendAgent
    <2> DEFINE rec == agents[tx.agent_id]
               new == [rec EXCEPT !.suspended = TRUE]
    <2>2. rec \in AgentRecord /\ rec.account \in known
      BY <1>3, <2>1 DEF SuspendAgent, TypeOK, AgentInv
    <2>3. \A g \in AgentId : agents'[g] = IF g = tx.agent_id THEN new ELSE agents[g]
      BY <1>3, <2>1 DEF SuspendAgent, TypeOK
    <2>4. suspended' = suspended \cup {rec.account} /\ UNCHANGED <<known, agent_of, reputation>>
          /\ rec # None
      BY <1>3, <2>2 DEF SuspendAgent
    <2>5. /\ new.account = rec.account /\ new.reputation = rec.reputation
          /\ new # None
      <3> HIDE DEF rec
      <3>1. new \in AgentRecord
        BY <2>2 DEF AgentRecord
      <3> QED
        BY <2>2, <3>1, LedgerAssumption DEF AgentRecord
    <2>6. \A g \in AgentId : /\ agents'[g] = None <=> agents[g] = None
                             /\ agents'[g].account = agents[g].account
                             /\ agents'[g].reputation = agents[g].reputation
                             /\ g # tx.agent_id => agents'[g].suspended = agents[g].suspended
      <3> HIDE DEF new
      <3> QED
        BY <2>3, <2>4, <2>5
    <2>7. SuspendedAgentBlocked'
      BY <2>4, <2>6 DEF AgentInv, SuspendedAgentBlocked
    <2>8. ReputationMirrored'
      BY <2>4, <2>6 DEF AgentInv, ReputationMirrored
    <2>9. \A a \in AccountId : agent_of[a] # None => agent_of[a] \in AgentId
      BY DEF TypeOK
    <2> QED
      BY <2>4, <2>6, <2>7, <2>8, <2>9 DEF AgentInv
  (* The record of one agent gets a new reputation, its account a copy.    *)
  <1>4. ASSUME NEW g0 \in AgentId, NEW rep \in -RepMax..RepMax, agents[g0] # None,
               agents' = [agents EXCEPT ![g0] = [agents[g0] EXCEPT !.reputation = rep]],
               reputation' = [reputation EXCEPT ![agents[g0].account] = rep],
               UNCHANGED <<known, suspended, agent_of>>
        PROVE  AgentInv'
    <2> DEFINE rec == agents[g0]
               new == [rec EXCEPT !.reputation = rep]
    <2>1. rec \in AgentRecord
      BY <1>4 DEF TypeOK
    <2>2. \A g \in AgentId : agents'[g] = IF g = g0 THEN new ELSE agents[g]
      BY <1>4 DEF TypeOK
    <2>3. /\ new.account = rec.account /\ new.suspended = rec.suspended
          /\ new.reputation = rep /\ rec.account \in AccountId
      <3> HIDE DEF rec
      <3> QED
        BY <2>1 DEF AgentRecord
    <2>4. new # None
      <3> HIDE DEF rec
      <3>1. new \in AgentRecord
        BY <2>1 DEF AgentRecord
      <3> QED
        BY <3>1, LedgerAssumption
    <2>5. \A g \in AgentId : /\ agents'[g] = None <=> agents[g] = None
                             /\ agents'[g].account = agents[g].account
                             /\ agents'[g].suspended = agents[g].suspended
                             /\ g # g0 => agents'[g].reputation = agents[g].reputation
      <3> HIDE DEF new
      <3> QED
        BY <1>4, <2>2, <2>3, <2>4
    <2>6. agents'[g0].reputation = rep
      BY <2>2, <2>3
    <2>7. \A a \in AccountId : reputation'[a] = IF a = rec.account THEN rep ELSE reputation[a]
      BY <1>4, <2>3 DEF TypeOK
    <2>8. \A g \in AgentId : agents[g] # None => agents[g].account \in AccountId
      BY DEF TypeOK, AgentRecord
    <2> HIDE DEF new
    <2>9. ReputationMirrored'
      BY <1>4, <2>5, <2>6, <2>7, <2>8 DEF AgentInv, ReputationMirrored
    <2>10. SuspendedAgentBlocked'
      BY <1>4, <2>5 DEF AgentInv, SuspendedAgentBlocked
    <2>11. \A a \in AccountId :
            (\A g \in AgentId : agents'[g] = None \/ agents'[g].account # a) => reputation'[a] = 0
      BY <1>4, <2>5, <2>7 DEF AgentInv
    <2>12. \A a \in AccountId : agent_of[a] # None => agent_of[a] \in AgentId
      BY DEF TypeOK
    <2> QED
      BY <1>4, <2>5, <2>9, <2>10, <2>11, <2>12 DEF AgentInv
  <1>5. ASSUME NEW tx \in Tx, UpdateReputation(tx) PROVE AgentInv'
    <2>1. tx.agent_id \in AgentId
      BY <1>5, TxFields DEF UpdateReputation
    <2>2. agents[tx.agent_id].account \in known
      BY <1>5, <2>1 DEF UpdateReputation, AgentInv
    <2> DEFINE rep == saturating_add(agents[tx.agent_id].reputation, tx.delta)
    <2>3. rep \in -RepMax..RepMax
      <3>1. agents[tx.agent_id].reputation \in -RepMax..RepMax /\ tx.delta \in Int
        BY <1>5, <2>1, TxFields DEF UpdateReputation, TypeOK, AgentRecord
      <3> QED
        BY <3>1, SaturatingAddType
    <2>4. /\ agents[tx.agent_id] # None /\ UNCHANGED <<known, suspended, agent_of>>
          /\ agents' = [agents EXCEPT ![tx.agent_id] = [agents[tx.agent_id] EXCEPT !.reputation = rep]]
          /\ reputation' = [reputation EXCEPT ![agents[tx.agent_id].account] = rep]
      BY <1>5, <2>2 DEF UpdateReputation
    <2> HIDE DEF rep
    <2> QED
      BY <1>4, <2>1, <2>3, <2>4
  <1>6. ASSUME NEW tx \in Tx, ResolveDispute(tx) PROVE AgentInv'
    <2>1. PICK d : d = disputes[tx.id]
      OBVIOUS
    <2>2. PICK w : w = IF tx.for_plaintiff THEN d.plaintiff ELSE d.defendant
      OBVIOUS
    <2>3. /\ tx.id \in OpenDisputes /\ UNCHANGED <<known, suspended>>
          /\ w \in known => Reward(w, d.bond)
          /\ w \notin known => UNCHANGED agentVars
      BY <1>6, <2>1, <2>2, RulingCases
    <2>4. w \in AccountId
      <3>1. d \in Dispute
        BY <2>1, <2>3 DEF OpenDisputes, TypeOK
      <3> QED
        BY <2>2, <3>1 DEF Dispute
    <2>5. CASE w \notin known
      BY <1>0, <2>3, <2>5
    <2>6. CASE w \in known
      <3>1. PICK g : g = agent_of[w]
        OBVIOUS
      <3>2. PICK rep : rep = saturating_add(agents[g].reputation, 1)
        OBVIOUS
      <3>3. /\ UNCHANGED agent_of
            /\ g # None /\ agents[g] # None =>
                 /\ agents' = [agents EXCEPT ![g].reputation = rep]
                 /\ reputation' = [reputation EXCEPT ![w] = rep]
            /\ ~(g # None /\ agents[g] # None) => UNCHANGED <<agents, reputation>>
        BY <2>3, <2>6, <3>1, <3>2, RewardCases
      <3>4. CASE ~(g # None /\ agents[g] # None)
        BY <1>0, <2>3, <3>3, <3>4
      <3>5. CASE g # None /\ agents[g] # None
        <4>1. g \in AgentId /\ agents[g] \in AgentRecord /\ agents[g].account = w
          BY <2>4, <3>1, <3>5 DEF TypeOK, AgentInv
        <4>2. rep \in -RepMax..RepMax
          <5>1. agents[g].reputation \in -RepMax..RepMax
            BY <4>1 DEF AgentRecord
          <5> QED
            BY <3>2, <5>1, SaturatingAddType
        <4> QED
          BY <1>4, <2>3, <3>3, <3>5, <4>1, <4>2
      <3> QED
        BY <3>4, <3>5
    <2> QED
      BY <2>5, <2>6
  <1> QED
    BY ZenonT(60), <1>0, <1>1, <1>2, <1>3, <1>5, <1>6
    DEF Next, apply, Stake, Unstake, AllocateShardAllowance, CheckpointFinalized, SlashConflict,
        DeployContract, CallContract, OpenDispute, RegisterAsset, MintAsset, TransferAsset,
        SpotTrade, Refuse, vars, ledgerVars

(* No transaction gives a symbol two meanings.                             *)
LEMMA SymbolNext ==
    ASSUME TypeOK, SymbolInv, [Next]_vars
    PROVE  SymbolInv'
  <1> USE DEF accountVars, escrowVars, agentVars, assetVars, contractVars
  <1>0. ASSUME UNCHANGED <<assets, asset_symbols>> PROVE SymbolInv'
    BY <1>0 DEF SymbolInv, SymbolNamesOneAsset
  <1>1. ASSUME NEW tx \in Tx, RegisterAsset(tx) PROVE SymbolInv'
    <2> DEFINE sym == Upper[tx.symbol]
               rec == [issuer |-> tx.account, symbol |-> sym,
                       max_supply |-> tx.max_supply, minted |-> 0]
    <2>1. tx.asset_id \in AssetId /\ tx.symbol \in Symbol
      BY <1>1, TxFields DEF RegisterAsset
    <2>2. sym \in Symbol /\ Upper[sym] = sym
      BY <2>1, LedgerAssumption
    <2>3. \A i \in AssetId : assets'[i] = IF i = tx.asset_id THEN rec ELSE assets[i]
      BY <1>1, <2>1 DEF RegisterAsset, TypeOK
    <2>4. \A s \in Symbol : asset_symbols'[s] = IF s = sym THEN tx.asset_id ELSE asset_symbols[s]
      BY <1>1, <2>2 DEF RegisterAsset, TypeOK
    <2>5. asset_symbols[sym] = None /\ assets[tx.asset_id] = None
      BY <1>1 DEF RegisterAsset, CanRegister
    <2>6. rec.symbol = sym
      OBVIOUS
    <2>7. None \notin AssetId /\ \A i \in AssetId : assets[i] # None => assets[i].symbol \in Symbol
      BY LedgerAssumption DEF TypeOK, Asset
    <2> HIDE DEF rec, sym
    <2>8. \A i \in AssetId : assets'[i] # None => asset_symbols'[assets'[i].symbol] = i
      BY <2>1, <2>2, <2>3, <2>4, <2>5, <2>6, <2>7 DEF SymbolInv, SymbolNamesOneAsset
    <2>9. \A s \in Symbol : asset_symbols'[s] # None => Upper[s] = s
      BY <2>2, <2>4 DEF SymbolInv
    <2> QED
      BY <2>8, <2>9 DEF SymbolInv, SymbolNamesOneAsset
  <1>2. ASSUME NEW tx \in Tx, MintAsset(tx) PROVE SymbolInv'
    <2> DEFINE a == assets[tx.asset_id]
               new == [a EXCEPT !.minted = (a.minted + tx.units) % (UnitMax + 1)]
    <2>1. tx.asset_id \in AssetId
      BY <1>2, TxFields DEF MintAsset
    <2>2. a \in Asset /\ a # None
      BY <1>2, <2>1 DEF MintAsset, CanMint, TypeOK
    <2>3. new.symbol = a.symbol
      <3> HIDE DEF a
      <3> QED
        BY <2>2 DEF Asset
    <2>4. \A i \in AssetId : assets'[i] = IF i = tx.asset_id THEN new ELSE assets[i]
      BY <1>2, <2>1 DEF MintAsset, TypeOK
    <2>5. UNCHANGED asset_symbols
      BY <1>2 DEF MintAsset
    <2> HIDE DEF new
    <2> QED
      BY <2>2, <2>3, <2>4, <2>5 DEF SymbolInv, SymbolNamesOneAsset
  <1> QED
    BY ZenonT(60), <1>0, <1>1, <1>2
    DEF Next, apply, GenesisFund, Stake, Unstake, AllocateShardAllowance, CheckpointFinalized,
        SlashConflict, RegisterAgent, SuspendAgent, UpdateReputation, DeployContract,
        CallContract, OpenDispute, ResolveDispute, TransferAsset, SpotTrade, Refuse,
        vars, ledgerVars

(* No transaction changes what a hash names.                               *)
LEMMA HashNext ==
    ASSUME TypeOK, StoredCompiled, HashNamesModule, [Next]_vars
    PROVE  HashNamesModule'
  <1> USE DEF accountVars, escrowVars, agentVars, assetVars, contractVars
  <1>0. ASSUME UNCHANGED contracts PROVE HashNamesModule'
    BY <1>0 DEF HashNamesModule
  <1>1. ASSUME NEW tx \in Tx, DeployContract(tx) PROVE HashNamesModule'
    <2> DEFINE module == Compile[tx.code]
               h == IF contracts[tx.code_hash] # None THEN tx.code_hash ELSE module
    <2>1. tx.code \in Code /\ tx.code_hash \in Code
      BY <1>1, TxFields DEF DeployContract
    <2>2. /\ module \in Code /\ module # None /\ Compile[module] = module
          /\ tx.code_hash \in {module, tx.code}
      BY <1>1, <2>1, LedgerAssumption DEF DeployContract, CanDeploy
    <2>3. \A c \in Code : contracts'[c] = IF c \in {h, tx.code_hash} THEN module ELSE contracts[c]
      BY <1>1, <2>1, <2>2 DEF DeployContract, TypeOK
    <2>4. \A c \in Code : contracts[c] # None => contracts[c] \in Code
      BY DEF TypeOK
    <2>5. contracts[tx.code_hash] # None => contracts[tx.code_hash] \in {tx.code_hash, Compile[tx.code_hash]}
                                            /\ contracts[contracts[tx.code_hash]] = contracts[tx.code_hash]
      BY <2>1 DEF HashNamesModule
    <2>0. \A c \in Code : contracts[c] # None => Compile[contracts[c]] = contracts[c]
      BY LedgerAssumption DEF StoredCompiled
    <2>6. contracts'[module] = module
      <3>1. CASE contracts[tx.code_hash] = None \/ tx.code_hash = module
        BY <2>1, <2>2, <2>3, <3>1
      <3>2. CASE contracts[tx.code_hash] # None /\ tx.code_hash = tx.code
        <4>1. contracts[tx.code] = module
          BY <2>0, <2>1, <2>5, <3>2
        <4> QED
          BY <2>1, <2>2, <2>3, <2>5, <3>2, <4>1
      <3> QED
        BY <2>2, <3>1, <3>2
    <2>7. ASSUME NEW c \in Code, contracts'[c] # None
          PROVE  contracts'[c] \in {c, Compile[c]} /\ contracts'[contracts'[c]] = contracts'[c]
      <3>1. CASE c \in {h, tx.code_hash}
        BY <2>1, <2>2, <2>3, <2>6, <3>1
      <3>2. CASE c \notin {h, tx.code_hash}
        <4>1. contracts'[c] = contracts[c] /\ contracts[c] \in Code
          BY <2>3, <2>4, <2>7, <3>2
        <4>2. contracts[c] \in {c, Compile[c]} /\ contracts[contracts[c]] = contracts[c]
          BY <2>7, <4>1 DEF HashNamesModule
        <4>3. CASE contracts[c] \notin {h, tx.code_hash}
          BY <2>3, <4>1, <4>2, <4>3
        <4>4. CASE contracts[c] \in {h, tx.code_hash}
          <5>1. contracts[c] = tx.code_hash \/ contracts[c] = module
            BY <4>4
          <5>2. contracts[c] = module
            BY <2>0, <2>2, <2>7, <4>1, <5>1
          <5> QED
            BY <2>6, <4>1, <4>2, <5>2
        <4> QED
          BY <4>3, <4>4
      <3> QED
        BY <3>1, <3>2
    <2> QED
      BY <2>7 DEF HashNamesModule
  <1> QED
    BY ZenonT(60), <1>0, <1>1
    DEF Next, apply, GenesisFund, Stake, Unstake, AllocateShardAllowance, CheckpointFinalized,
        SlashConflict, RegisterAgent, SuspendAgent, UpdateReputation, CallContract, OpenDispute,
        ResolveDispute, RegisterAsset, MintAsset, TransferAsset, SpotTrade, Refuse,
        vars, ledgerVars

-----------------------------------------------------------------------------
(* What is owned belongs to an account that exists: balances outside known *)
(* and escrows nobody opened are empty; the accounts of escrows and the    *)
(* plaintiffs of open disputes exist.                                      *)
KnownInv ==
    /\ \A a \in AccountId \ known : available[a] = 0 /\ locked[a] = 0 /\ stake[a] = 0
    /\ \A k \in escrows : k[2] \in known
    /\ \A k \in (ShardId \X AccountId) \ escrows : shard_outstanding[k] = 0
    /\ \A d \in OpenDisputes : disputes[d].plaintiff \in known

(* The genesis state: no one but the funded accounts owns anything.        *)
LEMMA KnownInit == Init => KnownInv /\ AgentInv /\ SymbolInv /\ HashNamesModule
  <1> SUFFICES ASSUME Init PROVE KnownInv /\ AgentInv /\ SymbolInv /\ HashNamesModule
    OBVIOUS
  <1>1. KnownInv
    BY DEF Init, KnownInv, OpenDisputes
  <1>2. AgentInv
    BY DEF Init, AgentInv, SuspendedAgentBlocked, ReputationMirrored
  <1>3. SymbolInv
    BY DEF Init, SymbolInv, SymbolNamesOneAsset
  <1>4. HashNamesModule
    BY DEF Init, HashNamesModule
  <1> QED
    BY <1>1, <1>2, <1>3, <1>4

(* Every transaction keeps what is owned with accounts that exist.         *)
LEMMA KnownNext ==
    ASSUME TypeOK, KnownInv, [Next]_vars
    PROVE  KnownInv'
  <1> USE DEF accountVars, escrowVars, agentVars, assetVars, contractVars
  <1>0. ASSUME UNCHANGED <<known, available, locked, stake, escrows, shard_outstanding, disputes>>
        PROVE  KnownInv'
    BY <1>0 DEF KnownInv, OpenDisputes
  (* Transactions that leave escrows and disputes alone.                   *)
  <1>1. ASSUME UNCHANGED <<escrows, shard_outstanding, disputes>>, known \subseteq known',
               \A a \in AccountId \ known' : /\ available'[a] = available[a]
                                             /\ locked'[a] = locked[a] /\ stake'[a] = stake[a]
        PROVE  KnownInv'
    BY <1>1 DEF KnownInv, OpenDisputes
  <1>2. ASSUME NEW tx \in Tx, GenesisFund(tx) PROVE KnownInv'
    BY <1>1, <1>2 DEF GenesisFund, TypeOK
  <1>3. ASSUME NEW tx \in Tx, Stake(tx) PROVE KnownInv'
    BY <1>1, <1>3 DEF Stake, CanStake, ensure_active, TypeOK
  <1>4. ASSUME NEW tx \in Tx, Unstake(tx) PROVE KnownInv'
    BY <1>1, <1>4 DEF Unstake, CanUnstake, TypeOK
  <1>5. ASSUME NEW tx \in Tx, AllocateShardAllowance(tx) PROVE KnownInv'
    <2>1. tx.account \in AccountId /\ tx.shard_id \in ShardId /\ tx.amount \in Nat
      BY <1>5, TxFields DEF AllocateShardAllowance
    <2>2. \A k \in (ShardId \X AccountId) \ escrows' : shard_outstanding'[k] = 0
      BY <1>5, <2>1 DEF AllocateShardAllowance, KnownInv, TypeOK
    <2>3. \A k \in escrows' : k[2] \in known'
      BY <1>5, <2>1 DEF AllocateShardAllowance, CanAllocate, KnownInv
    <2>4. \A a \in AccountId \ known' : available'[a] = 0 /\ locked'[a] = 0 /\ stake'[a] = 0
      BY <1>5, <2>1 DEF AllocateShardAllowance, CanAllocate, KnownInv, TypeOK
    <2>5. \A d \in OpenDisputes' : disputes'[d].plaintiff \in known'
      BY <1>5 DEF AllocateShardAllowance, KnownInv, OpenDisputes
    <2> QED
      BY <2>2, <2>3, <2>4, <2>5 DEF KnownInv
  <1>6. ASSUME NEW tx \in Tx, CheckpointFinalized(tx) PROVE KnownInv'
    <2>1. tx.key[1] \in ShardId /\ tx.account \in AccountId
      BY <1>6, TxFields DEF CheckpointFinalized
    <2>2. \A k \in (ShardId \X AccountId) \ escrows' : shard_outstanding'[k] = 0
      BY <1>6, <2>1 DEF CheckpointFinalized, CanFinalize, KnownInv, TypeOK
    <2>3. \A a \in AccountId \ known' : available'[a] = 0 /\ locked'[a] = 0 /\ stake'[a] = 0
      BY <1>6, <2>1 DEF CheckpointFinalized, KnownInv, TypeOK
    <2>4. /\ \A k \in escrows' : k[2] \in known'
          /\ \A d \in OpenDisputes' : disputes'[d].plaintiff \in known'
      BY <1>6 DEF CheckpointFinalized, KnownInv, OpenDisputes
    <2> QED
      BY <2>2, <2>3, <2>4 DEF KnownInv
  <1>7. ASSUME NEW tx \in Tx, SlashConflict(tx) PROVE KnownInv'
    BY <1>1, <1>7 DEF SlashConflict, TypeOK
  <1>8. ASSUME NEW tx \in Tx, RegisterAgent(tx) PROVE KnownInv'
    BY <1>1, <1>8 DEF RegisterAgent
  <1>9. ASSUME NEW tx \in Tx, OpenDispute(tx) PROVE KnownInv'
    <2>1. tx.id \in DisputeId /\ tx.account \in AccountId /\ tx.account \in known
      BY <1>9, TxFields DEF OpenDispute, CanOpen
    <2>2. \A a \in AccountId \ known' : available'[a] = 0 /\ locked'[a] = 0 /\ stake'[a] = 0
      BY <1>9, <2>1 DEF OpenDispute, KnownInv, TypeOK
    <2>3. \A d \in OpenDisputes' : disputes'[d].plaintiff \in known'
      BY <1>9, <2>1 DEF OpenDispute, KnownInv, OpenDisputes, TypeOK
    <2>4. /\ \A k \in escrows' : k[2] \in known'
          /\ \A k \in (ShardId \X AccountId) \ escrows' : shard_outstanding'[k] = 0
      BY <1>9 DEF OpenDispute, KnownInv
    <2> QED
      BY <2>2, <2>3, <2>4 DEF KnownInv
  <1>10. ASSUME NEW tx \in Tx, ResolveDispute(tx) PROVE KnownInv'
    <2>1. tx.id \in DisputeId /\ tx.id \in OpenDisputes
      BY <1>10, TxFields DEF ResolveDispute
    <2>2. \A d \in OpenDisputes' : disputes'[d].plaintiff \in known'
      <3>1. \A d \in DisputeId \ {tx.id} : disputes'[d] = disputes[d]
        BY <1>10, <2>1 DEF ResolveDispute, TypeOK
      <3>2. disputes'[tx.id].status # "Open"
        <4>1. disputes[tx.id] \in Dispute
          BY <2>1, OpenIsDispute
        <4>2. DOMAIN disputes = DisputeId
          BY DEF TypeOK
        <4>3. PICK st : st = IF tx.for_plaintiff THEN "ForPlaintiff" ELSE "ForDefendant"
          OBVIOUS
        <4>4. disputes' = [disputes EXCEPT ![tx.id].status = st] /\ st # "Open"
          <5>1. disputes' = [disputes EXCEPT ![tx.id].status = st]
            BY ONLY <1>10, <4>3, Zenon DEF ResolveDispute
          <5> QED
            BY <4>3, <5>1
        <4>5. disputes'[tx.id] = [disputes[tx.id] EXCEPT !.status = st]
          BY ONLY <2>1, <4>2, <4>4
        <4> QED
          BY ONLY <4>1, <4>4, <4>5, RuledStatus
      <3> QED
        BY <1>10, <3>1, <3>2 DEF ResolveDispute, KnownInv, OpenDisputes
    <2>3. \A a \in AccountId \ known' : available'[a] = 0 /\ locked'[a] = 0 /\ stake'[a] = 0
      BY <1>10 DEF ResolveDispute, Reward, KnownInv, TypeOK
    <2>4. /\ \A k \in escrows' : k[2] \in known'
          /\ \A k \in (ShardId \X AccountId) \ escrows' : shard_outstanding'[k] = 0
      BY <1>10 DEF ResolveDispute, KnownInv
    <2> QED
      BY <2>2, <2>3, <2>4 DEF KnownInv
  <1>11. ASSUME NEW tx \in Tx, SpotTrade(tx) PROVE KnownInv'
    BY <1>1, <1>11 DEF SpotTrade, CanTrade, ensure_active, TypeOK
  <1> QED
    BY <1>0, <1>2, <1>3, <1>4, <1>5, <1>6, <1>7, <1>8, <1>9, <1>10, <1>11
    DEF Next, apply, SuspendAgent, UpdateReputation, DeployContract, CallContract, RegisterAsset,
        MintAsset, TransferAsset, Refuse, vars, ledgerVars

(* What an account cannot use, and what is at stake in a dispute.          *)
held == [a \in AccountId |-> locked[a] + stake[a]]
bonds == [d \in DisputeId |-> IF d \in OpenDisputes THEN disputes[d].bond ELSE 0]

(* The supply as sums over all accounts, escrows and disputes there can    *)
(* be: sets that no transaction changes.                                   *)
Total ==
    SumOf(available, AccountId) + SumOf(shard_outstanding, ShardId \X AccountId)
        + SumOf(held, AccountId) + SumOf(bonds, DisputeId)

(* The sum of the bonds, as the model writes it.                           *)
LEMMA BondFold ==
    ASSUME NEW S, NEW ds
    PROVE  MapThenSumSet(LAMBDA d : ds[d].bond, S) = SumOf([d \in S |-> ds[d].bond], S)
  <1> DEFINE f == [d \in S |-> ds[d].bond]
             Is(g) == g = [s \in SUBSET S |->
                             IF s = {} THEN 0 ELSE ds[CHOOSE x \in s : TRUE].bond
                                                   + g[s \ {CHOOSE x \in s : TRUE}]]
  <1>1. \A s \in SUBSET S : s # {} => f[Pick(s)] = ds[Pick(s)].bond
    BY PickIn
  <1>2. ASSUME NEW g PROVE Is(g) <=> IsSums(f, S, g)
    <2>1. \A s \in SUBSET S :
             SumStep(f, g, s) = IF s = {} THEN 0 ELSE ds[CHOOSE x \in s : TRUE].bond
                                                      + g[s \ {CHOOSE x \in s : TRUE}]
      <3> HIDE DEF f
      <3> QED
        BY <1>1 DEF SumStep, Pick
    <2> HIDE DEF f
    <2> QED
      BY <2>1 DEF IsSums
  <1>3. MapThenSumSet(LAMBDA d : ds[d].bond, S) = (CHOOSE g : Is(g))[S]
    BY DEF MapThenSumSet, MapThenFoldSet
  <1>4. (CHOOSE g : Is(g)) = (CHOOSE g : IsSums(f, S, g))
    <2> HIDE DEF Is, f
    <2> QED
      BY <1>2, Zenon
  <1> QED
    BY <1>3, <1>4 DEF SumOf, Sums

(* Each part of the supply is a natural number.                            *)
LEMMA TotalType ==
    ASSUME TypeOK
    PROVE  /\ \A a \in AccountId : available[a] \in Nat /\ held[a] \in Nat
           /\ \A k \in ShardId \X AccountId : shard_outstanding[k] \in Nat
           /\ \A d \in DisputeId : bonds[d] \in Nat
           /\ SumOf(available, AccountId) \in Nat /\ SumOf(held, AccountId) \in Nat
           /\ SumOf(shard_outstanding, ShardId \X AccountId) \in Nat
           /\ SumOf(bonds, DisputeId) \in Nat
  <1>0. IsFiniteSet(AccountId) /\ IsFiniteSet(ShardId \X AccountId) /\ IsFiniteSet(DisputeId)
    BY LedgerAssumption, FS_Product
  <1>1. \A a \in AccountId : available[a] \in Nat /\ held[a] \in Nat
    BY DEF TypeOK, held
  <1>2. \A k \in ShardId \X AccountId : shard_outstanding[k] \in Nat
    BY DEF TypeOK
  <1>3. \A d \in DisputeId : bonds[d] \in Nat
    BY DEF TypeOK, bonds, OpenDisputes, Dispute
  <1>4. SumOf(available, AccountId) \in Nat /\ SumOf(held, AccountId) \in Nat
    BY <1>0, <1>1, SumNat
  <1>5. SumOf(shard_outstanding, ShardId \X AccountId) \in Nat
    BY <1>0, <1>2, SumNat
  <1>6. SumOf(bonds, DisputeId) \in Nat
    BY <1>0, <1>3, SumNat
  <1> QED
    BY <1>1, <1>2, <1>3, <1>4, <1>5, <1>6

(* The three sums of check_conservation add up to Total.                   *)
LEMMA TotalIsSupply ==
    TypeOK /\ KnownInv => available_sum + shard_outstanding_sum + locked_sum = Total
  <1> SUFFICES ASSUME TypeOK, KnownInv
               PROVE  available_sum + shard_outstanding_sum + locked_sum = Total
    OBVIOUS
  <1>0. /\ IsFiniteSet(AccountId) /\ IsFiniteSet(ShardId \X AccountId) /\ IsFiniteSet(DisputeId)
        /\ known \in SUBSET AccountId /\ escrows \in SUBSET (ShardId \X AccountId)
    BY LedgerAssumption, FS_Product DEF TypeOK
  <1>1. available_sum = SumOf(available, AccountId)
    <2>1. available_sum = SumOf(available, known)
      BY DEF available_sum, SumOver, MapThenSumSet, MapThenFoldSet, SumOf, Sums, IsSums, SumStep, Pick
    <2>2. \A a \in AccountId : available[a] \in Int
      BY DEF TypeOK
    <2>3. \A a \in AccountId \ known : available[a] = 0
      BY DEF KnownInv
    <2> QED
      BY <1>0, <2>1, <2>2, <2>3, SumSupport
  <1>2. shard_outstanding_sum = SumOf(shard_outstanding, ShardId \X AccountId)
    <2> DEFINE K == ShardId \X AccountId
    <2>1. shard_outstanding_sum = SumOf(shard_outstanding, escrows)
      BY DEF shard_outstanding_sum, SumOver, MapThenSumSet, MapThenFoldSet, SumOf, Sums, IsSums,
             SumStep, Pick
    <2>2. \A k \in K : shard_outstanding[k] \in Int
      BY DEF TypeOK
    <2>3. \A k \in K \ escrows : shard_outstanding[k] = 0
      BY DEF KnownInv
    <2>4. IsFiniteSet(K) /\ escrows \in SUBSET K
      BY <1>0
    <2> HIDE DEF K
    <2>5. SumOf(shard_outstanding, K) = SumOf(shard_outstanding, escrows)
      BY <2>2, <2>3, <2>4, SumSupport
    <2> QED
      BY <2>1, <2>5 DEF K
  <1>3. SumOver(known, LAMBDA a : locked[a] + stake[a]) = SumOf(held, AccountId)
    <2> DEFINE h == [a \in known |-> locked[a] + stake[a]]
    <2>1. SumOver(known, LAMBDA a : locked[a] + stake[a]) = SumOf(h, known)
      <3>1. MapThenSumSet(LAMBDA a : locked[a] + stake[a], known) = SumOf(h, known)
        BY PairFold
      <3> QED
        BY <3>1 DEF SumOver
    <2>2. IsFiniteSet(known) /\ \A a \in known : h[a] = held[a]
      BY <1>0, FS_Subset DEF held
    <2> HIDE DEF h
    <2>3. SumOf(h, known) = SumOf(held, known)
      BY <2>2, SumEqual
    <2>4. \A a \in AccountId : held[a] \in Int
      BY DEF TypeOK, held
    <2>5. \A a \in AccountId \ known : held[a] = 0
      BY DEF KnownInv, held
    <2>6. SumOf(held, AccountId) = SumOf(held, known)
      BY <1>0, <2>4, <2>5, SumSupport
    <2> QED
      BY <2>1, <2>3, <2>6
  <1>4. SumOver(OpenDisputes, LAMBDA d : disputes[d].bond) = SumOf(bonds, DisputeId)
    <2> DEFINE b == [d \in OpenDisputes |-> disputes[d].bond]
    <2>1. SumOver(OpenDisputes, LAMBDA d : disputes[d].bond) = SumOf(b, OpenDisputes)
      <3>1. MapThenSumSet(LAMBDA d : disputes[d].bond, OpenDisputes) = SumOf(b, OpenDisputes)
        BY BondFold
      <3> QED
        BY <3>1 DEF SumOver
    <2>2. OpenDisputes \in SUBSET DisputeId
      BY DEF OpenDisputes
    <2>3. IsFiniteSet(OpenDisputes) /\ \A d \in OpenDisputes : b[d] = bonds[d]
      BY <1>0, <2>2, FS_Subset DEF bonds
    <2> HIDE DEF b
    <2>4. SumOf(b, OpenDisputes) = SumOf(bonds, OpenDisputes)
      BY <2>3, SumEqual
    <2>5. \A d \in DisputeId : bonds[d] \in Int
      BY DEF TypeOK, bonds, OpenDisputes, Dispute
    <2>6. \A d \in DisputeId \ OpenDisputes : bonds[d] = 0
      BY DEF bonds
    <2>7. SumOf(bonds, DisputeId) = SumOf(bonds, OpenDisputes)
      BY <1>0, <2>2, <2>5, <2>6, SumSupport
    <2> QED
      BY <2>1, <2>4, <2>7
  <1>5. /\ SumOf(available, AccountId) \in Nat /\ SumOf(held, AccountId) \in Nat
        /\ SumOf(shard_outstanding, ShardId \X AccountId) \in Nat
        /\ SumOf(bonds, DisputeId) \in Nat
    BY TotalType
  <1>6. locked_sum = SumOf(held, AccountId) + SumOf(bonds, DisputeId)
    BY <1>3, <1>4, Zenon DEF locked_sum
  <1> QED
    BY <1>1, <1>2, <1>5, <1>6 DEF Total

(* The same after a step.                                                  *)
LEMMA TotalIsSupplyNext ==
    (TypeOK /\ KnownInv => available_sum + shard_outstanding_sum + locked_sum = Total)'
  BY TotalIsSupply, PTL

(* Every open dispute has a defendant with an account.  OpenDispute does   *)
(* not check it, and a ruling for a defendant without one loses the bond:  *)
(* conservation rests on this hypothesis and on no other.                  *)
DefendantsKnown == \A d \in OpenDisputes : disputes[d].defendant \in known

(* Every transaction moves the sums by what it adds to the supply.         *)
LEMMA TotalNext ==
    ASSUME TypeOK, TypeOK', KnownInv, DefendantsKnown, Total = total_supply, [Next]_vars
    PROVE  Total' = total_supply'
  <1> USE DEF accountVars, escrowVars, agentVars, assetVars, contractVars
  <1> DEFINE K == ShardId \X AccountId
             A == SumOf(available, AccountId)
             E == SumOf(shard_outstanding, K)
             H == SumOf(held, AccountId)
             B == SumOf(bonds, DisputeId)
  <1>a. IsFiniteSet(AccountId) /\ IsFiniteSet(K) /\ IsFiniteSet(DisputeId)
    BY LedgerAssumption, FS_Product
  <1>b. /\ \A a \in AccountId : available[a] \in Nat /\ held[a] \in Nat
        /\ \A k \in K : shard_outstanding[k] \in Nat
        /\ \A d \in DisputeId : bonds[d] \in Nat
        /\ A \in Nat /\ H \in Nat /\ E \in Nat /\ B \in Nat
    BY TotalType
  <1>c. Total = A + E + H + B /\ Total' = A' + E' + H' + B' /\ total_supply = A + E + H + B
    BY DEF Total
  (* How each sum moves.                                                   *)
  <1>A. ASSUME NEW a \in AccountId, NEW n \in Int,
               available' = [available EXCEPT ![a] = @ + n]
        PROVE  A' = A + n
    <2>1. available'[a] = available[a] + n /\ \A b \in AccountId \ {a} : available'[b] = available[b]
      BY <1>A DEF TypeOK
    <2> QED
      BY <1>a, <1>b, <2>1, SumShift
  <1>E. ASSUME NEW k \in K, NEW n \in Int,
               shard_outstanding' = [shard_outstanding EXCEPT ![k] = @ + n]
        PROVE  E' = E + n
    <2>1. shard_outstanding'[k] = shard_outstanding[k] + n
          /\ \A j \in K \ {k} : shard_outstanding'[j] = shard_outstanding[j]
      BY <1>E DEF TypeOK
    <2>2. SumOf(shard_outstanding', K) = SumOf(shard_outstanding, K) + n
      <3> HIDE DEF K
      <3> QED
        BY <1>a, <1>b, <2>1, SumShift
    <2> QED
      BY <2>2
  <1>H. ASSUME NEW a \in AccountId, NEW n \in Int,
               \/ locked' = [locked EXCEPT ![a] = @ + n] /\ UNCHANGED stake
               \/ stake' = [stake EXCEPT ![a] = @ + n] /\ UNCHANGED locked
        PROVE  H' = H + n
    <2>1. held'[a] = held[a] + n /\ \A b \in AccountId \ {a} : held'[b] = held[b]
      BY <1>H DEF TypeOK, held
    <2>2. SumOf(held', AccountId) = SumOf(held, AccountId) + n
      <3> HIDE DEF held
      <3> QED
        BY <1>a, <1>b, <2>1, SumShift
    <2> QED
      BY <2>2
  <1>B. ASSUME NEW d \in DisputeId, NEW n \in Int, bonds'[d] = bonds[d] + n,
               \A e \in DisputeId \ {d} : bonds'[e] = bonds[e]
        PROVE  B' = B + n
    <2>1. SumOf(bonds', DisputeId) = SumOf(bonds, DisputeId) + n
      <3> HIDE DEF bonds
      <3> QED
        BY <1>a, <1>b, <1>B, SumShift
    <2> QED
      BY <2>1
  <1>d. UNCHANGED shard_outstanding => E' = E
    OBVIOUS
  <1>e. UNCHANGED <<locked, stake>> => H' = H
    BY DEF held
  <1>f. UNCHANGED disputes => B' = B
    BY DEF bonds, OpenDisputes
  <1>g. UNCHANGED available => A' = A
    OBVIOUS
  <1> HIDE DEF A, E, H, B, K
  <1>0. ASSUME UNCHANGED <<available, locked, stake, shard_outstanding, disputes, total_supply>>
        PROVE  Total' = total_supply'
    BY <1>0, <1>c, <1>d, <1>e, <1>f, <1>g
  <1>1. ASSUME NEW tx \in Tx, GenesisFund(tx) PROVE Total' = total_supply'
    <2>1. tx.account \in AccountId /\ tx.amount \in Nat
      BY <1>1, TxFields DEF GenesisFund
    <2>2. A' = A + tx.amount
      <3>1. available' = [available EXCEPT ![tx.account] = @ + tx.amount] /\ tx.amount \in Int
        BY <1>1, <2>1 DEF GenesisFund
      <3> QED
        BY <1>A, <2>1, <3>1
    <2>3. E' = E /\ H' = H /\ B' = B /\ total_supply' = total_supply + tx.amount
      BY <1>1, <1>d, <1>e, <1>f DEF GenesisFund
    <2> QED
      BY <1>b, <1>c, <2>1, <2>2, <2>3
  <1>2. ASSUME NEW tx \in Tx, Stake(tx) PROVE Total' = total_supply'
    <2>1. tx.account \in AccountId /\ tx.amount \in Nat /\ -tx.amount \in Int
      BY <1>2, TxFields DEF Stake
    <2>2. available' = [available EXCEPT ![tx.account] = @ + (-tx.amount)]
      BY <1>2, <1>b, <2>1 DEF Stake
    <2>3. A' = A + (-tx.amount) /\ H' = H + tx.amount
      <3>1. /\ stake' = [stake EXCEPT ![tx.account] = @ + tx.amount] /\ UNCHANGED locked
            /\ tx.amount \in Int
        BY <1>2, <2>1 DEF Stake
      <3> QED
        BY <1>A, <1>H, <2>1, <2>2, <3>1
    <2>4. E' = E /\ B' = B /\ total_supply' = total_supply
      BY <1>2, <1>d, <1>f DEF Stake
    <2> QED
      BY <1>b, <1>c, <2>1, <2>3, <2>4
  <1>3. ASSUME NEW tx \in Tx, Unstake(tx) PROVE Total' = total_supply'
    <2>1. tx.account \in AccountId /\ tx.amount \in Nat /\ -tx.amount \in Int
      BY <1>3, TxFields DEF Unstake
    <2>2. stake' = [stake EXCEPT ![tx.account] = @ + (-tx.amount)]
      BY <1>3, <2>1 DEF Unstake, TypeOK
    <2>3. A' = A + tx.amount /\ H' = H + (-tx.amount)
      <3>1. /\ available' = [available EXCEPT ![tx.account] = @ + tx.amount] /\ UNCHANGED locked
            /\ tx.amount \in Int
        BY <1>3, <2>1 DEF Unstake
      <3> QED
        BY <1>A, <1>H, <2>1, <2>2, <3>1
    <2>4. E' = E /\ B' = B /\ total_supply' = total_supply
      BY <1>3, <1>d, <1>f DEF Unstake
    <2> QED
      BY <1>b, <1>c, <2>1, <2>3, <2>4
  <1>4. ASSUME NEW tx \in Tx, AllocateShardAllowance(tx) PROVE Total' = total_supply'
    <2>1. /\ tx.account \in AccountId /\ tx.amount \in Nat /\ -tx.amount \in Int
          /\ <<tx.shard_id, tx.account>> \in K
      BY <1>4, TxFields DEF AllocateShardAllowance, K
    <2>2. available' = [available EXCEPT ![tx.account] = @ + (-tx.amount)]
      BY <1>4, <1>b, <2>1 DEF AllocateShardAllowance
    <2>3. A' = A + (-tx.amount) /\ E' = E + tx.amount
      <3> DEFINE k == <<tx.shard_id, tx.account>>
      <3>1. /\ shard_outstanding' = [shard_outstanding EXCEPT ![k] = @ + tx.amount]
            /\ tx.amount \in Int /\ k \in K
        BY <1>4, <2>1 DEF AllocateShardAllowance
      <3> HIDE DEF k
      <3> QED
        BY <1>A, <1>E, <2>1, <2>2, <3>1
    <2>4. H' = H /\ B' = B /\ total_supply' = total_supply
      BY <1>4, <1>e, <1>f DEF AllocateShardAllowance
    <2> QED
      BY <1>b, <1>c, <2>1, <2>3, <2>4
  <1>5. ASSUME NEW tx \in Tx, CheckpointFinalized(tx) PROVE Total' = total_supply'
    <2> DEFINE k == <<tx.key[1], tx.account>>
    <2>1. /\ tx.account \in AccountId /\ tx.exposure \in Nat /\ -tx.exposure \in Int /\ k \in K
      BY <1>5, TxFields DEF CheckpointFinalized, K
    <2>2. tx.account \in known
      BY <1>5 DEF CheckpointFinalized, CanFinalize, KnownInv
    <2>3. shard_outstanding' = [shard_outstanding EXCEPT ![k] = @ + (-tx.exposure)]
      BY <1>5, <1>b, <2>1 DEF CheckpointFinalized
    <2>4. E' = E + (-tx.exposure)
      <3> HIDE DEF k
      <3> QED
        BY <1>E, <2>1, <2>3
    <2>5. H' = H + tx.exposure
      BY <1>5, <1>H, <2>1, <2>2 DEF CheckpointFinalized
    <2>6. A' = A /\ B' = B /\ total_supply' = total_supply
      BY <1>5, <1>f, <1>g DEF CheckpointFinalized
    <2> QED
      BY <1>b, <1>c, <2>1, <2>4, <2>5, <2>6
  <1>6. ASSUME NEW tx \in Tx, SlashConflict(tx) PROVE Total' = total_supply'
    <2> DEFINE slash == IF tx.amount <= stake[tx.account] THEN tx.amount ELSE stake[tx.account]
    <2>1. /\ tx.account \in AccountId /\ slash \in Nat /\ -slash \in Int
          /\ slash <= stake[tx.account]
      BY <1>6, TxFields DEF SlashConflict, TypeOK
    <2>2. stake' = [stake EXCEPT ![tx.account] = @ + (-slash)]
          /\ total_supply' = IF slash <= total_supply THEN total_supply - slash ELSE 0
      <3>1. /\ stake' = [stake EXCEPT ![tx.account] = @ - slash]
            /\ total_supply' = IF slash <= total_supply THEN total_supply - slash ELSE 0
        BY <1>6 DEF SlashConflict
      <3> HIDE DEF slash
      <3> QED
        BY <2>1, <3>1 DEF TypeOK
    <2>3. slash <= held[tx.account]
      <3> HIDE DEF slash
      <3> QED
        BY <2>1 DEF held, TypeOK
    <2>4. held[tx.account] <= H
      BY <1>a, <1>b, <2>1, SumMember DEF H
    <2> HIDE DEF slash
    <2>5. H' = H + (-slash)
      BY <1>6, <1>H, <2>1, <2>2 DEF SlashConflict
    <2>6. A' = A /\ E' = E /\ B' = B
      BY <1>6, <1>d, <1>f, <1>g DEF SlashConflict
    <2>7. held[tx.account] \in Nat
      BY <1>b, <2>1
    <2> QED
      BY <1>b, <1>c, <2>1, <2>2, <2>3, <2>4, <2>5, <2>6, <2>7
  <1>7. ASSUME NEW tx \in Tx, OpenDispute(tx) PROVE Total' = total_supply'
    <2>1. /\ tx.id \in DisputeId /\ tx.account \in AccountId
          /\ tx.amount \in Nat /\ -tx.amount \in Int
      BY <1>7, TxFields DEF OpenDispute
    <2>2. available' = [available EXCEPT ![tx.account] = @ + (-tx.amount)]
      BY <1>7, <1>b, <2>1 DEF OpenDispute
    <2>3. A' = A + (-tx.amount)
      BY <1>A, <2>1, <2>2
    <2> DEFINE d == [plaintiff |-> tx.account, defendant |-> tx.defendant,
                     bond |-> tx.amount, status |-> "Open"]
    <2>4. disputes[tx.id] = None /\ disputes' = [disputes EXCEPT ![tx.id] = d]
      BY <1>7 DEF OpenDispute, CanOpen
    <2>5. d # None /\ d.bond = tx.amount /\ d.status = "Open"
      <3>1. tx.defendant \in AccountId
        BY <1>7, TxFields DEF OpenDispute
      <3>2. d \in Dispute
        BY <2>1, <3>1 DEF Dispute
      <3> QED
        BY <3>2, LedgerAssumption
    <2> HIDE DEF d
    <2>6. bonds[tx.id] = 0 /\ bonds'[tx.id] = tx.amount
      BY <2>1, <2>4, <2>5 DEF bonds, OpenDisputes, TypeOK
    <2>7. \A e \in DisputeId \ {tx.id} : bonds'[e] = bonds[e]
      BY <2>1, <2>4 DEF bonds, OpenDisputes, TypeOK
    <2>8. B' = B + tx.amount
      BY <1>B, <2>1, <2>6, <2>7
    <2>9. E' = E /\ H' = H /\ total_supply' = total_supply
      BY <1>7, <1>d, <1>e DEF OpenDispute
    <2> QED
      BY <1>b, <1>c, <2>1, <2>3, <2>8, <2>9
  <1>8. ASSUME NEW tx \in Tx, ResolveDispute(tx) PROVE Total' = total_supply'
    <2> DEFINE d == disputes[tx.id]
               winner == IF tx.for_plaintiff THEN d.plaintiff ELSE d.defendant
               verdict == IF tx.for_plaintiff THEN "ForPlaintiff" ELSE "ForDefendant"
               new == [d EXCEPT !.status = verdict]
    <2>1. tx.id \in DisputeId /\ tx.id \in OpenDisputes
      BY <1>8, TxFields DEF ResolveDispute
    <2>2. d \in Dispute /\ d # None /\ d.status = "Open"
      BY <2>1 DEF OpenDisputes, TypeOK
    <2>3. winner \in known /\ winner \in AccountId /\ d.bond \in Nat /\ -d.bond \in Int
      BY <2>1, <2>2 DEF KnownInv, DefendantsKnown, Dispute
    <2>4. A' = A + d.bond
      <3>1. available' = [available EXCEPT ![winner] = @ + d.bond]
        BY <1>8, <2>3 DEF ResolveDispute, Reward
      <3>2. d.bond \in Int
        BY <2>3
      <3> HIDE DEF winner, d
      <3> QED
        BY <1>A, <2>3, <3>1, <3>2
    <2>5. disputes' = [disputes EXCEPT ![tx.id] = new]
      BY <1>8 DEF ResolveDispute
    <2>6. new.status # "Open"
      <3>1. verdict # "Open"
        OBVIOUS
      <3> HIDE DEF d, verdict
      <3> QED
        BY <2>2, <3>1 DEF Dispute
    <2>7. bonds[tx.id] = d.bond
      BY <2>1 DEF bonds
    <2> HIDE DEF new
    <2>8. bonds'[tx.id] = 0
      BY <2>1, <2>5, <2>6 DEF bonds, OpenDisputes, TypeOK
    <2>9. \A e \in DisputeId \ {tx.id} : bonds'[e] = bonds[e]
      BY <2>1, <2>5 DEF bonds, OpenDisputes, TypeOK
    <2>10. B' = B + (-d.bond)
      <3>1. bonds'[tx.id] = bonds[tx.id] + (-d.bond)
        BY <2>3, <2>7, <2>8
      <3> HIDE DEF d
      <3> QED
        BY <1>B, <2>1, <2>3, <2>9, <3>1
    <2>11. E' = E /\ H' = H /\ total_supply' = total_supply
      BY <1>8, <1>d, <1>e DEF ResolveDispute
    <2> HIDE DEF d
    <2> QED
      BY <1>b, <1>c, <2>3, <2>4, <2>10, <2>11
  <1>9. ASSUME NEW tx \in Tx, SpotTrade(tx) PROVE Total' = total_supply'
    <2> DEFINE paid == [available EXCEPT ![tx.account] = @ + (-tx.price_total)]
    <2>1. /\ tx.account \in AccountId /\ tx.to \in AccountId /\ tx.account # tx.to
          /\ tx.price_total \in Int /\ -tx.price_total \in Int
      BY <1>9, TxFields DEF SpotTrade, CanTrade
    <2>2. /\ paid[tx.account] = available[tx.account] + (-tx.price_total)
          /\ \A b \in AccountId \ {tx.account} : paid[b] = available[b]
      BY <2>1 DEF TypeOK
    <2>3. /\ \A a \in AccountId : available[a] \in Int
          /\ \A a \in AccountId : paid[a] \in Int
      BY <1>b, <2>1, <2>2
    <2>4. available'[tx.to] = paid[tx.to] + tx.price_total
          /\ \A b \in AccountId \ {tx.to} : available'[b] = paid[b]
      BY <1>9, <1>b, <2>1 DEF SpotTrade, TypeOK
    <2> HIDE DEF paid
    <2>5. SumOf(paid, AccountId) = SumOf(available, AccountId) + (-tx.price_total)
      BY <1>a, <2>1, <2>2, <2>3, SumShift
    <2>6. SumOf(available', AccountId) = SumOf(paid, AccountId) + tx.price_total
      BY <1>a, <2>1, <2>3, <2>4, SumShift
    <2>7. A' = A
      BY <1>b, <2>1, <2>5, <2>6 DEF A
    <2>8. E' = E /\ H' = H /\ B' = B /\ total_supply' = total_supply
      BY <1>9, <1>d, <1>e, <1>f DEF SpotTrade
    <2> QED
      BY <1>c, <2>7, <2>8
  <1> QED
    BY ZenonT(60), <1>0, <1>1, <1>2, <1>3, <1>4, <1>5, <1>6, <1>7, <1>8, <1>9
    DEF Next, apply, RegisterAgent, SuspendAgent, UpdateReputation, DeployContract, CallContract,
        RegisterAsset, MintAsset, TransferAsset, Refuse, vars, ledgerVars

-----------------------------------------------------------------------------
(* What the accounts hold of an asset.                                     *)
column(h, i) == [a \in AccountId |-> h[<<a, i>>]]

(* No asset is registered with the largest supply a u128 can express: for  *)
(* such an asset the saturating check of MintAsset is always true.         *)
NoUncappedAsset == \A tx \in Tx : tx.type = "RegisterAsset" => tx.max_supply < UnitMax

(* Nobody holds units of an asset that is not registered, and every cap    *)
(* lies below the width of AssetUnits.                                     *)
AssetInv ==
    /\ AssetConservation
    /\ \A i \in AssetId : assets[i] = None => \A a \in AccountId : holdings[<<a, i>>] = 0
    /\ \A i \in AssetId : assets[i] # None => assets[i].max_supply < UnitMax

(* Minted, as a sum of a function.                                         *)
LEMMA ColumnFold ==
    ASSUME NEW h, NEW i
    PROVE  MapThenSumSet(LAMBDA a : h[<<a, i>>], AccountId) = SumOf(column(h, i), AccountId)
  <1> DEFINE f == [a \in AccountId |-> h[<<a, i>>]]
             Is(g) == g = [s \in SUBSET AccountId |->
                             IF s = {} THEN 0 ELSE h[<<CHOOSE x \in s : TRUE, i>>]
                                                   + g[s \ {CHOOSE x \in s : TRUE}]]
  <1>1. \A s \in SUBSET AccountId : s # {} => f[Pick(s)] = h[<<Pick(s), i>>]
    BY PickIn
  <1>2. ASSUME NEW g PROVE Is(g) <=> IsSums(f, AccountId, g)
    <2>1. \A s \in SUBSET AccountId :
             SumStep(f, g, s) = IF s = {} THEN 0 ELSE h[<<CHOOSE x \in s : TRUE, i>>]
                                                      + g[s \ {CHOOSE x \in s : TRUE}]
      <3> HIDE DEF f
      <3> QED
        BY <1>1 DEF SumStep, Pick
    <2> HIDE DEF f
    <2> QED
      BY <2>1 DEF IsSums
  <1>3. MapThenSumSet(LAMBDA a : h[<<a, i>>], AccountId) = (CHOOSE g : Is(g))[AccountId]
    BY DEF MapThenSumSet, MapThenFoldSet
  <1>4. (CHOOSE g : Is(g)) = (CHOOSE g : IsSums(f, AccountId, g))
    <2> HIDE DEF Is, f
    <2> QED
      BY <1>2, Zenon
  <1> QED
    BY <1>3, <1>4 DEF SumOf, Sums, column

(* AssetConservation, in terms of columns.                                 *)
LEMMA AssetColumns ==
    AssetConservation <=>
      \A i \in AssetId :
         assets[i] # None => /\ SumOf(column(holdings, i), AccountId) = assets[i].minted
                             /\ assets[i].minted <= assets[i].max_supply
  <1>1. \A i \in AssetId : Minted(i) = SumOf(column(holdings, i), AccountId)
    <2> TAKE i \in AssetId
    <2>1. MapThenSumSet(LAMBDA a : holdings[<<a, i>>], AccountId)
            = SumOf(column(holdings, i), AccountId)
      BY ColumnFold
    <2> QED
      BY <2>1 DEF Minted, SumOver
  <1> QED
    BY <1>1 DEF AssetConservation, check_asset_conservation

(* The same after a step.                                                  *)
LEMMA AssetColumnsNext ==
    (AssetConservation <=>
      \A i \in AssetId :
         assets[i] # None => /\ SumOf(column(holdings, i), AccountId) = assets[i].minted
                             /\ assets[i].minted <= assets[i].max_supply)'
  BY AssetColumns, PTL

(* A credit that does not reach the width of AssetUnits adds to the column *)
(* of its asset; a debit takes from it.                                    *)
LEMMA ColumnMoves ==
    ASSUME NEW h \in [AccountId \X AssetId -> 0..UnitMax], NEW i \in AssetId,
           NEW a \in AccountId, NEW n \in 0..UnitMax
    PROVE  /\ h[<<a, i>>] <= SumOf(column(h, i), AccountId)
           /\ SumOf(column(h, i), AccountId) \in Nat
           /\ h[<<a, i>>] + n <= UnitMax =>
                SumOf(column(credit_holding(h, a, i, n), i), AccountId)
                   = SumOf(column(h, i), AccountId) + n
           /\ n <= h[<<a, i>>] =>
                SumOf(column(debit_holding(h, a, i, n), i), AccountId)
                   = SumOf(column(h, i), AccountId) - n
           /\ \A j \in AssetId \ {i} :
                /\ column(credit_holding(h, a, i, n), j) = column(h, j)
                /\ column(debit_holding(h, a, i, n), j) = column(h, j)
  <1> DEFINE f == column(h, i)
             c == column(credit_holding(h, a, i, n), i)
             d == column(debit_holding(h, a, i, n), i)
  <1>a. IsFiniteSet(AccountId) /\ UnitMax \in Nat
    BY LedgerAssumption
  <1>0. f[a] = h[<<a, i>>] /\ \A b \in AccountId : f[b] \in Nat /\ f[b] \in Int
    BY <1>a DEF column
  <1>1. ASSUME h[<<a, i>>] + n <= UnitMax
        PROVE  c[a] = f[a] + n /\ \A b \in AccountId \ {a} : c[b] = f[b]
    BY <1>1, <1>a DEF column, credit_holding
  <1>2. ASSUME n <= h[<<a, i>>]
        PROVE  d[a] = f[a] + (-n) /\ \A b \in AccountId \ {a} : d[b] = f[b]
    BY <1>2, <1>a DEF column, debit_holding
  <1>3. \A j \in AssetId \ {i} :
                /\ column(credit_holding(h, a, i, n), j) = column(h, j)
                /\ column(debit_holding(h, a, i, n), j) = column(h, j)
    BY DEF column, credit_holding, debit_holding
  <1>4. n \in Int /\ -n \in Int
    BY <1>a
  <1> HIDE DEF f, c, d
  <1>5. f[a] <= SumOf(f, AccountId) /\ SumOf(f, AccountId) \in Nat
    BY <1>a, <1>0, SumMember, SumNat
  <1>6. h[<<a, i>>] + n <= UnitMax => SumOf(c, AccountId) = SumOf(f, AccountId) + n
    BY <1>a, <1>0, <1>1, <1>4, SumShift
  <1>7. n <= h[<<a, i>>] => SumOf(d, AccountId) = SumOf(f, AccountId) + (-n)
    BY <1>a, <1>0, <1>2, <1>4, SumShift
  <1>8. n <= h[<<a, i>>] => SumOf(d, AccountId) = SumOf(f, AccountId) - n
    BY <1>4, <1>5, <1>7
  <1> QED
    BY <1>0, <1>3, <1>5, <1>6, <1>8 DEF f, c, d

(* A debit and the credit of the same units, to anyone, the payer too,     *)
(* leave every column's sum as it was.                                     *)
Movable(h, from, to, i, n) ==
    /\ h \in [AccountId \X AssetId -> 0..UnitMax]
    /\ i \in AssetId /\ from \in AccountId /\ to \in AccountId /\ n \in 0..UnitMax
    /\ n <= h[<<from, i>>] /\ SumOf(column(h, i), AccountId) <= UnitMax
LEMMA MoveKeepsColumns ==
    ASSUME NEW h, NEW from, NEW to, NEW i, NEW n, Movable(h, from, to, i, n)
    PROVE  \A j \in AssetId :
             SumOf(column(credit_holding(debit_holding(h, from, i, n), to, i, n), j), AccountId)
               = SumOf(column(h, j), AccountId)
  <1> USE DEF Movable
  <1> DEFINE m == debit_holding(h, from, i, n)
  <1>0. PICK c : c = credit_holding(m, to, i, n)
    OBVIOUS
  <1>1. m \in [AccountId \X AssetId -> 0..UnitMax]
    BY LedgerAssumption DEF debit_holding
  <1>2. /\ SumOf(column(m, i), AccountId) = SumOf(column(h, i), AccountId) - n
        /\ SumOf(column(h, i), AccountId) \in Nat
        /\ \A j \in AssetId \ {i} : column(m, j) = column(h, j)
    BY ColumnMoves
  <1> HIDE DEF m
  <1>3. m[<<to, i>>] <= SumOf(column(m, i), AccountId)
    BY <1>1, ColumnMoves
  <1>4. m[<<to, i>>] + n <= UnitMax
    BY <1>1, <1>2, <1>3, LedgerAssumption
  <1>5. /\ SumOf(column(c, i), AccountId) = SumOf(column(m, i), AccountId) + n
        /\ \A j \in AssetId \ {i} : column(c, j) = column(m, j)
    <2>1. m[<<to, i>>] + n <= UnitMax =>
            SumOf(column(credit_holding(m, to, i, n), i), AccountId)
              = SumOf(column(m, i), AccountId) + n
      BY <1>1, ColumnMoves, ZenonT(60)
    <2>2. \A j \in AssetId \ {i} : column(credit_holding(m, to, i, n), j) = column(m, j)
      BY <1>1 DEF column, credit_holding
    <2> QED
      BY <1>0, <1>4, <2>1, <2>2
  <1>6. SumOf(column(c, i), AccountId) = SumOf(column(h, i), AccountId)
    BY <1>2, <1>5, LedgerAssumption
  <1>7. \A j \in AssetId : SumOf(column(c, j), AccountId) = SumOf(column(h, j), AccountId)
    BY <1>2, <1>5, <1>6
  <1> QED
    BY <1>0, <1>7 DEF m

(* Every transaction keeps what is held equal to what was minted.          *)
LEMMA AssetNext ==
    ASSUME TypeOK, TypeOK', AssetInv, NoUncappedAsset, [Next]_vars
    PROVE  AssetInv'
  <1> USE DEF accountVars, escrowVars, agentVars, assetVars, contractVars
  <1>0. ASSUME UNCHANGED <<assets, holdings>> PROVE AssetInv'
    BY <1>0, AssetColumns, AssetColumnsNext DEF AssetInv
  <1>a. \A i \in AssetId :
         assets[i] # None => /\ SumOf(column(holdings, i), AccountId) = assets[i].minted
                             /\ assets[i].minted <= assets[i].max_supply
                             /\ assets[i].minted \in Nat /\ assets[i].max_supply \in Nat
                             /\ assets[i].max_supply < UnitMax
    BY AssetColumns, LedgerAssumption DEF AssetInv, TypeOK, Asset
  <1>1. ASSUME NEW tx \in Tx, RegisterAsset(tx) PROVE AssetInv'
    <2> DEFINE i0 == tx.asset_id
               rec == [issuer |-> tx.account, symbol |-> Upper[tx.symbol],
                       max_supply |-> tx.max_supply, minted |-> 0]
    <2>1. i0 \in AssetId /\ tx.max_supply \in Nat /\ tx.max_supply < UnitMax
      BY <1>1, TxFields, LedgerAssumption DEF RegisterAsset, NoUncappedAsset
    <2>2. \A i \in AssetId : assets'[i] = IF i = i0 THEN rec ELSE assets[i]
      BY <1>1, <2>1 DEF RegisterAsset, TypeOK
    <2>3. UNCHANGED holdings /\ assets[i0] = None
      BY <1>1 DEF RegisterAsset, CanRegister
    <2>4. SumOf(column(holdings, i0), AccountId) = 0
      <3>1. \A a \in AccountId : column(holdings, i0)[a] = 0
        BY <2>1, <2>3 DEF column, AssetInv
      <3> HIDE DEF i0
      <3> QED
        BY <3>1, SumZero, LedgerAssumption
    <2>5. rec.minted = 0 /\ rec.max_supply = tx.max_supply
      OBVIOUS
    <2> HIDE DEF rec, i0
    <2>6. \A i \in AssetId :
            assets'[i] # None => /\ SumOf(column(holdings', i), AccountId) = assets'[i].minted
                                 /\ assets'[i].minted <= assets'[i].max_supply
                                 /\ assets'[i].max_supply < UnitMax
      BY <1>a, <2>1, <2>2, <2>3, <2>4, <2>5
    <2>7. \A i \in AssetId : assets'[i] = None => \A a \in AccountId : holdings'[<<a, i>>] = 0
      BY <2>2, <2>3 DEF AssetInv
    <2> QED
      BY <2>6, <2>7, AssetColumnsNext DEF AssetInv
  <1>2. ASSUME NEW tx \in Tx, MintAsset(tx) PROVE AssetInv'
    <2> DEFINE i0 == tx.asset_id
               rec == assets[i0]
               sum == rec.minted + tx.units
               new == [rec EXCEPT !.minted = sum % (UnitMax + 1)]
    <2>1. i0 \in AssetId /\ tx.to \in AccountId /\ tx.units \in 0..UnitMax
      BY <1>2, TxFields DEF MintAsset
    <2>2. rec \in Asset /\ rec # None /\ (IF sum > UnitMax THEN UnitMax ELSE sum) <= rec.max_supply
      BY <1>2, <2>1 DEF MintAsset, CanMint, TypeOK
    <2>3. /\ SumOf(column(holdings, i0), AccountId) = rec.minted /\ rec.minted \in Nat
          /\ rec.max_supply \in Nat /\ rec.max_supply < UnitMax
      BY <1>a, <2>1, <2>2
    <2>4. sum <= rec.max_supply /\ sum \in Nat /\ sum <= UnitMax
      <3> HIDE DEF rec
      <3> QED
        BY <2>1, <2>2, <2>3, LedgerAssumption
    <2>5. sum % (UnitMax + 1) = sum
      <3> HIDE DEF sum
      <3> QED
        BY <2>4, LedgerAssumption
    <2>6. new.minted = sum /\ new.max_supply = rec.max_supply
      <3> HIDE DEF rec, sum
      <3> QED
        BY <2>2, <2>5 DEF Asset
    <2>7. \A i \in AssetId : assets'[i] = IF i = i0 THEN new ELSE assets[i]
      BY <1>2, <2>1 DEF MintAsset, TypeOK
    <2>8. holdings \in [AccountId \X AssetId -> 0..UnitMax]
          /\ holdings' = credit_holding(holdings, tx.to, i0, tx.units)
      BY <1>2 DEF MintAsset, TypeOK
    <2> HIDE DEF new, sum, i0
    <2>9. /\ holdings[<<tx.to, i0>>] <= SumOf(column(holdings, i0), AccountId)
          /\ \A j \in AssetId \ {i0} : column(holdings', j) = column(holdings, j)
          /\ holdings[<<tx.to, i0>>] + tx.units <= UnitMax =>
               SumOf(column(holdings', i0), AccountId)
                 = SumOf(column(holdings, i0), AccountId) + tx.units
      BY ZenonT(60), <2>1, <2>8, ColumnMoves
    <2>10. holdings[<<tx.to, i0>>] + tx.units <= UnitMax
      <3>1. holdings[<<tx.to, i0>>] \in Nat /\ tx.units \in Nat
        BY <2>1, <2>8, LedgerAssumption
      <3> HIDE DEF rec
      <3> QED
        BY <2>3, <2>4, <2>9, <3>1, LedgerAssumption DEF sum
    <2>11. SumOf(column(holdings', i0), AccountId) = sum
      <3> HIDE DEF rec
      <3> QED
        BY <2>3, <2>9, <2>10 DEF sum
    <2>12. \A i \in AssetId :
            assets'[i] # None => /\ SumOf(column(holdings', i), AccountId) = assets'[i].minted
                                 /\ assets'[i].minted <= assets'[i].max_supply
                                 /\ assets'[i].max_supply < UnitMax
      <3> HIDE DEF rec
      <3> QED
        BY <1>a, <2>3, <2>4, <2>6, <2>7, <2>9, <2>11
    <2>13. \A i \in AssetId : assets'[i] = None => \A a \in AccountId : holdings'[<<a, i>>] = 0
      <3> SUFFICES ASSUME NEW i \in AssetId, assets'[i] = None, NEW a \in AccountId
                   PROVE  holdings'[<<a, i>>] = 0
        OBVIOUS
      <3>1. i # i0
        <4>1. assets'[i0] \in Asset
          <5>1. new \in Asset
            <6>1. sum % (UnitMax + 1) \in 0..UnitMax
              BY <2>4, <2>5, LedgerAssumption
            <6> HIDE DEF rec
            <6> QED
              BY <2>2, <6>1 DEF new, Asset
          <5> QED
            BY <2>1, <2>7, <5>1
        <4> QED
          BY <4>1, LedgerAssumption
      <3>2. assets[i] = None
        BY <2>7, <3>1
      <3>3. holdings'[<<a, i>>] = holdings[<<a, i>>]
        BY <2>8, <3>1 DEF credit_holding
      <3> QED
        BY <3>2, <3>3 DEF AssetInv
    <2> QED
      BY <2>12, <2>13, AssetColumnsNext DEF AssetInv
  <1>3. ASSUME NEW i \in AssetId, NEW from \in AccountId, NEW to \in AccountId,
               NEW n \in 0..UnitMax, n <= holdings[<<from, i>>], assets[i] # None,
               holdings' = credit_holding(debit_holding(holdings, from, i, n), to, i, n),
               UNCHANGED assets
        PROVE  AssetInv'
    <2>1. holdings \in [AccountId \X AssetId -> 0..UnitMax]
      BY DEF TypeOK
    <2>2. SumOf(column(holdings, i), AccountId) <= UnitMax
      BY <1>3, <1>a, LedgerAssumption
    <2>3. \A j \in AssetId : SumOf(column(holdings', j), AccountId)
                               = SumOf(column(holdings, j), AccountId)
      <3>1. \A j \in AssetId :
              SumOf(column(credit_holding(debit_holding(holdings, from, i, n), to, i, n), j), AccountId)
                = SumOf(column(holdings, j), AccountId)
        <4>1. Movable(holdings, from, to, i, n)
          BY <1>3, <2>1, <2>2 DEF Movable
        <4> QED
          BY ONLY <4>1, MoveKeepsColumns
      <3> QED
        BY <1>3, <3>1
    <2>4. \A j \in AssetId : assets[j] = None => \A a \in AccountId : holdings'[<<a, j>>] = 0
      <3> SUFFICES ASSUME NEW j \in AssetId, assets[j] = None, NEW a \in AccountId
                   PROVE  holdings'[<<a, j>>] = 0
        OBVIOUS
      <3>1. j # i
        BY <1>3
      <3>2. holdings'[<<a, j>>] = holdings[<<a, j>>]
        BY <1>3, <2>1, <3>1 DEF credit_holding, debit_holding
      <3> QED
        BY <3>2 DEF AssetInv
    <2> QED
      BY <1>3, <1>a, <2>3, <2>4, AssetColumnsNext DEF AssetInv
  <1>4. ASSUME NEW tx \in Tx, TransferAsset(tx) PROVE AssetInv'
    <2>1. /\ tx.asset_id \in AssetId /\ tx.account \in AccountId /\ tx.to \in AccountId
          /\ tx.units \in 0..UnitMax
      BY <1>4, TxFields DEF TransferAsset
    <2> QED
      BY <1>3, <1>4, <2>1 DEF TransferAsset, CanTransfer
  <1>5. ASSUME NEW tx \in Tx, SpotTrade(tx) PROVE AssetInv'
    <2>1. /\ tx.asset_id \in AssetId /\ tx.account \in AccountId /\ tx.to \in AccountId
          /\ tx.units \in 0..UnitMax
      BY <1>5, TxFields DEF SpotTrade
    <2> QED
      BY <1>3, <1>5, <2>1 DEF SpotTrade, CanTrade
  <1> QED
    BY ZenonT(60), <1>0, <1>1, <1>2, <1>4, <1>5
    DEF Next, apply, GenesisFund, Stake, Unstake, AllocateShardAllowance, CheckpointFinalized,
        SlashConflict, RegisterAgent, SuspendAgent, UpdateReputation, DeployContract,
        CallContract, OpenDispute, ResolveDispute, Refuse, vars, ledgerVars

-----------------------------------------------------------------------------
(* A checkpoint's root determines the exposure it settles: two submissions *)
(* for one key and one root carry the same amount.                         *)
RootFixesExposure ==
    \A s, t \in Tx : /\ s.type = "CheckpointFinalized" /\ t.type = "CheckpointFinalized"
                     /\ s.key = t.key /\ s.root = t.root
                     => s.exposure = t.exposure

Settled == {k \in CheckpointKey : finalized[k] # None}

(* What is settled was submitted.                                          *)
SettledInv ==
    /\ IsFiniteSet(Settled)
    /\ \A k \in Settled : \E tx \in Tx : /\ tx.type = "CheckpointFinalized"
                                         /\ tx.key = k /\ tx.root = finalized[k]
    /\ SettledOnce

exposures == [k \in Settled |-> Exposure(k)]

(* SettledOnce as an equation between sums of functions.                   *)
LEMMA SettledSums ==
    SettledOnce <=> SumOf(locked, AccountId) = SumOf(exposures, Settled)
  <1>1. SumOver(AccountId, LAMBDA a : locked[a]) = SumOf(locked, AccountId)
    BY DEF SumOver, MapThenSumSet, MapThenFoldSet, SumOf, Sums, IsSums, SumStep, Pick
  <1>2. SumOver(Settled, Exposure) = SumOf(exposures, Settled)
    <2> DEFINE Is(g) == g = [s \in SUBSET Settled |->
                               IF s = {} THEN 0 ELSE Exposure(CHOOSE x \in s : TRUE)
                                                     + g[s \ {CHOOSE x \in s : TRUE}]]
    <2>1. \A s \in SUBSET Settled : s # {} => exposures[Pick(s)] = Exposure(Pick(s))
      BY PickIn DEF exposures
    <2>2. ASSUME NEW g PROVE Is(g) <=> IsSums(exposures, Settled, g)
      <3>1. \A s \in SUBSET Settled :
               SumStep(exposures, g, s) = IF s = {} THEN 0 ELSE Exposure(CHOOSE x \in s : TRUE)
                                                            + g[s \ {CHOOSE x \in s : TRUE}]
        BY <2>1 DEF SumStep, Pick
      <3> QED
        BY <3>1 DEF IsSums
    <2>3. SumOver(Settled, Exposure) = (CHOOSE g : Is(g))[Settled]
      BY DEF SumOver, MapThenSumSet, MapThenFoldSet
    <2>4. (CHOOSE g : Is(g)) = (CHOOSE g : IsSums(exposures, Settled, g))
      <3> HIDE DEF Is
      <3> QED
        BY <2>2, Zenon
    <2> QED
      BY <2>3, <2>4 DEF SumOf, Sums
  <1> QED
    BY <1>1, <1>2 DEF SettledOnce, Settled

(* The same after a step.                                                  *)
LEMMA SettledSumsNext ==
    (SettledOnce <=> SumOf(locked, AccountId) = SumOf(exposures, Settled))'
  BY SettledSums, PTL

(* Nothing but a checkpoint locks funds, and it locks what it settles.     *)
LEMMA SettledNext ==
    ASSUME TypeOK, TypeOK', KnownInv, SettledInv, RootFixesExposure, [Next]_vars
    PROVE  SettledInv'
  <1> USE DEF accountVars, escrowVars, agentVars, assetVars, contractVars
  <1>0. ASSUME UNCHANGED <<locked, finalized>> PROVE SettledInv'
    <2>1. Settled' = Settled
      BY <1>0 DEF Settled
    <2>2. exposures' = exposures
      BY <1>0, <2>1 DEF exposures, Exposure
    <2> QED
      BY <1>0, <2>1, <2>2, SettledSums, SettledSumsNext DEF SettledInv
  <1>1. ASSUME NEW tx \in Tx, CheckpointFinalized(tx) PROVE SettledInv'
    <2> DEFINE Of(t, k, r) == /\ t.type = "CheckpointFinalized" /\ t.key = k /\ t.root = r
    <2>1. /\ tx.type = "CheckpointFinalized" /\ tx.key \in CheckpointKey /\ tx.root \in Root
          /\ tx.exposure \in Nat /\ tx.account \in AccountId
      BY <1>1, TxFields DEF CheckpointFinalized
    <2>2. tx.account \in known
      BY <1>1 DEF CheckpointFinalized, CanFinalize, KnownInv
    <2>3. /\ finalized[tx.key] = None
          /\ \A k \in CheckpointKey : finalized'[k] = IF k = tx.key THEN tx.root ELSE finalized[k]
      BY <1>1, <2>1, <2>2 DEF CheckpointFinalized, CanFinalize, TypeOK
    <2>4. /\ locked'[tx.account] = locked[tx.account] + tx.exposure
          /\ \A a \in AccountId \ {tx.account} : locked'[a] = locked[a]
      BY <1>1, <2>1, <2>2 DEF CheckpointFinalized, TypeOK
    <2>5. Settled' = Settled \cup {tx.key} /\ tx.key \notin Settled
      BY <2>1, <2>3, LedgerAssumption DEF Settled
    <2>6. IsFiniteSet(Settled')
      BY <2>5, FS_AddElement DEF SettledInv
    <2>7. \A k \in Settled' : \E t \in Tx : Of(t, k, finalized'[k])
      BY <2>1, <2>3, <2>5 DEF SettledInv, Settled
    <2>8. \A k \in Settled : exposures'[k] = exposures[k] /\ exposures[k] \in Int
      <3> SUFFICES ASSUME NEW k \in Settled
                   PROVE  exposures'[k] = exposures[k] /\ exposures[k] \in Int
        OBVIOUS
      <3>1. k \in Settled' /\ finalized'[k] = finalized[k]
        BY <2>3, <2>5 DEF Settled
      <3>2. exposures'[k] = Exposure(k)' /\ exposures[k] = Exposure(k)
        BY <3>1 DEF exposures
      <3>3. Exposure(k)' = Exposure(k)
        BY <3>1 DEF Exposure
      <3>4. Exposure(k) \in Int
        <4> DEFINE t == CHOOSE s \in Tx : Of(s, k, finalized[k])
        <4>1. \E s \in Tx : Of(s, k, finalized[k])
          BY DEF SettledInv
        <4>2. t \in Tx /\ t.type = "CheckpointFinalized"
          BY <4>1
        <4>3. t.exposure \in Int
          <5> HIDE DEF t
          <5>1. t.exposure \in Nat
            BY <4>2, TxFields
          <5> QED
            BY <5>1
        <4> QED
          BY <4>3 DEF Exposure
      <3> QED
        BY <3>2, <3>3, <3>4
    <2>9. exposures'[tx.key] = tx.exposure
      <3>1. exposures'[tx.key] = Exposure(tx.key)'
        BY <2>5 DEF exposures
      <3> DEFINE t == CHOOSE s \in Tx : Of(s, tx.key, tx.root)
      <3>2. t \in Tx /\ Of(t, tx.key, tx.root)
        <4>1. \E s \in Tx : Of(s, tx.key, tx.root)
          BY <2>1
        <4> QED
          BY <4>1
      <3>3. Exposure(tx.key)' = t.exposure
        BY <2>1, <2>3 DEF Exposure
      <3>4. t.exposure = tx.exposure
        <4> HIDE DEF t
        <4> QED
          BY <2>1, <3>2 DEF RootFixesExposure
      <3> QED
        BY <3>1, <3>3, <3>4
    <2> HIDE DEF Of
    <2>10. SumOf(exposures', Settled') = tx.exposure + SumOf(exposures, Settled)
      <3>1. IsFiniteSet(Settled) /\ tx.exposure \in Int
        BY <2>1 DEF SettledInv
      <3>2. \A k \in Settled \cup {tx.key} : exposures'[k] \in Int
        BY <2>8, <2>9, <3>1
      <3>3. SumOf(exposures', Settled \cup {tx.key}) = exposures'[tx.key] + SumOf(exposures', Settled)
        BY <2>5, <3>1, <3>2, SumAdd
      <3>4. SumOf(exposures', Settled) = SumOf(exposures, Settled)
        BY <2>8, <3>1, SumEqual
      <3> QED
        BY <2>5, <2>9, <3>3, <3>4
    <2>11. SumOf(locked', AccountId) = SumOf(locked, AccountId) + tx.exposure
      <3>1. IsFiniteSet(AccountId) /\ tx.exposure \in Int /\ \A a \in AccountId : locked[a] \in Int
        BY <2>1, LedgerAssumption DEF TypeOK
      <3> QED
        BY <2>1, <2>4, <3>1, SumShift
    <2>12. SumOf(locked, AccountId) = SumOf(exposures, Settled) /\ SumOf(locked, AccountId) \in Nat
      <3>1. IsFiniteSet(AccountId) /\ \A a \in AccountId : locked[a] \in Nat
        BY LedgerAssumption DEF TypeOK
      <3> QED
        BY <3>1, SumNat, SettledSums DEF SettledInv
    <2>13. SumOf(locked', AccountId) = SumOf(exposures', Settled')
      BY <2>1, <2>10, <2>11, <2>12
    <2> QED
      BY <2>6, <2>7, <2>13, SettledSumsNext DEF SettledInv, Of
  <1> QED
    BY ZenonT(60), <1>0, <1>1
    DEF Next, apply, GenesisFund, Stake, Unstake, AllocateShardAllowance, SlashConflict,
        RegisterAgent, SuspendAgent, UpdateReputation, DeployContract, CallContract, OpenDispute,
        ResolveDispute, Reward, RegisterAsset, MintAsset, TransferAsset, SpotTrade, Refuse,
        vars, ledgerVars

-----------------------------------------------------------------------------
(* The genesis block.                                                      *)
LEMMA SumsInit == Init => Total = total_supply /\ AssetInv /\ SettledInv
  <1> SUFFICES ASSUME Init PROVE Total = total_supply /\ AssetInv /\ SettledInv
    OBVIOUS
  <1> DEFINE K == ShardId \X AccountId
  <1>0. IsFiniteSet(AccountId) /\ IsFiniteSet(K) /\ IsFiniteSet(DisputeId)
    BY LedgerAssumption, FS_Product
  <1>1. SumOf(available, AccountId) = SumOf(Genesis, DOMAIN Genesis)
    <2>1. /\ DOMAIN Genesis \in SUBSET AccountId
          /\ \A a \in DOMAIN Genesis : Genesis[a] = available[a]
          /\ \A a \in AccountId : available[a] \in Int
          /\ \A a \in AccountId \ DOMAIN Genesis : available[a] = 0
      BY LedgerAssumption DEF Init
    <2>2. SumOf(available, AccountId) = SumOf(available, DOMAIN Genesis)
      BY <1>0, <2>1, SumSupport
    <2>3. IsFiniteSet(DOMAIN Genesis)
      BY <1>0, <2>1, FS_Subset
    <2> QED
      BY <2>1, <2>2, <2>3, SumEqual
  <1>2. SumOf(held, AccountId) = 0
    <2>1. \A a \in AccountId : held[a] = 0
      BY DEF Init, held
    <2> QED
      BY <1>0, <2>1, SumZero
  <1>3. SumOf(shard_outstanding, ShardId \X AccountId) = 0
    <2>1. \A k \in K : shard_outstanding[k] = 0
      BY DEF Init
    <2>2. SumOf(shard_outstanding, K) = 0
      <3> HIDE DEF K
      <3> QED
        BY <1>0, <2>1, SumZero
    <2> QED
      BY <2>2
  <1>4. SumOf(bonds, DisputeId) = 0
    <2>1. \A d \in DisputeId : bonds[d] = 0
      BY DEF Init, bonds, OpenDisputes
    <2> QED
      BY <1>0, <2>1, SumZero
  <1>5. total_supply = SumOf(Genesis, DOMAIN Genesis) /\ total_supply \in Nat
    BY GenesisSum DEF Init
  <1>6. Total = total_supply
    BY <1>1, <1>2, <1>3, <1>4, <1>5 DEF Total
  <1>7. AssetInv
    BY DEF Init, AssetInv, AssetConservation, check_asset_conservation
  <1>8. SettledInv
    <2>1. Settled = {}
      BY DEF Init, Settled
    <2>2. SumOf(locked, AccountId) = 0
      <3>1. \A a \in AccountId : locked[a] = 0
        BY DEF Init
      <3> QED
        BY <1>0, <3>1, SumZero
    <2>3. SumOf(exposures, Settled) = 0
      BY <2>1, SumEmpty
    <2> QED
      BY <2>1, <2>2, <2>3, SettledSums, FS_EmptySet DEF SettledInv
  <1> QED
    BY <1>6, <1>7, <1>8

(* Conservation, in terms of Total.                                        *)
LEMMA ConservationIsTotal == TypeOK /\ KnownInv => (Conservation <=> Total = total_supply)
  BY TotalIsSupply DEF Conservation

(* What holds of every ledger, whatever is submitted to it.                *)
LedgerInv ==
    TypeOK /\ StoredCompiled /\ KnownInv /\ AgentInv /\ SymbolInv /\ HashNamesModule

(* The invariant that needs no hypothesis on the transactions.             *)
LEMMA LedgerInvariant == Spec => []LedgerInv
  <1>1. Init => LedgerInv
    BY TypeInit, KnownInit DEF LedgerInv
  <1>2. LedgerInv /\ [Next]_vars => LedgerInv'
    <2> SUFFICES ASSUME LedgerInv, [Next]_vars PROVE LedgerInv'
      OBVIOUS
    <2>1. TypeOK' /\ StoredCompiled'
      BY TypeNext DEF LedgerInv
    <2>2. KnownInv'
      BY KnownNext DEF LedgerInv
    <2>3. AgentInv'
      BY <2>1, AgentNext DEF LedgerInv
    <2>4. SymbolInv'
      BY SymbolNext DEF LedgerInv
    <2>5. HashNamesModule'
      BY HashNext DEF LedgerInv
    <2> QED
      BY <2>1, <2>2, <2>3, <2>4, <2>5 DEF LedgerInv
  <1> QED
    BY <1>1, <1>2, PTL DEF Spec

(* The ledger's values keep their types: no balance, stake, escrow or      *)
(* supply goes below zero, and units and reputation keep their widths.     *)
(* Money has no upper width in the model; see MoneyWithinSupply.           *)
THEOREM LedgerTypeOK == Spec => []TypeOK
  <1>1. LedgerInv => TypeOK
    BY DEF LedgerInv
  <1> QED
    BY <1>1, LedgerInvariant, PTL

(* A suspended agent's account is suspended, for ever, whatever agents are *)
(* registered for it later.                                                *)
THEOREM SuspensionHolds == Spec => []SuspendedAgentBlocked
  <1>1. LedgerInv => SuspendedAgentBlocked
    BY DEF LedgerInv, AgentInv
  <1> QED
    BY <1>1, LedgerInvariant, PTL

(* The reputation an account shows is its only agent's, through updates,   *)
(* rulings and registrations.                                              *)
THEOREM ReputationHolds == Spec => []ReputationMirrored
  <1>1. LedgerInv => ReputationMirrored
    BY DEF LedgerInv, AgentInv
  <1> QED
    BY <1>1, LedgerInvariant, PTL

(* The symbol index leads from every asset's symbol to that asset, and no  *)
(* two symbols differ in capitals only.                                    *)
THEOREM SymbolsHold == Spec => []SymbolNamesOneAsset
  <1>1. LedgerInv => SymbolNamesOneAsset
    BY DEF LedgerInv, SymbolInv
  <1> QED
    BY <1>1, LedgerInvariant, PTL

(* A contract hash names one module for ever, under which it can be called *)
(* too: this is where compilation must be idempotent.                      *)
THEOREM HashesHold == Spec => []HashNamesModule
  <1>1. LedgerInv => HashNamesModule
    BY DEF LedgerInv
  <1> QED
    BY <1>1, LedgerInvariant, PTL

(* A transaction that succeeds passes the check at the end of apply.       *)
LEMMA CheckPasses ==
    ASSUME LedgerInv, LedgerInv', Total = total_supply, AssetInv, NoUncappedAsset,
           DefendantsKnown, [Next]_vars
    PROVE  Conservation' /\ AssetConservation' /\ check_conservation'
  <1>1. Total' = total_supply'
    BY TotalNext DEF LedgerInv
  <1>2. AssetInv'
    BY AssetNext DEF LedgerInv
  <1>3. (available_sum + shard_outstanding_sum + locked_sum)' = Total'
    BY TotalIsSupplyNext DEF LedgerInv
  <1>4. Conservation'
    BY <1>1, <1>3 DEF Conservation
  <1>5. AssetConservation'
    BY <1>2 DEF AssetInv
  <1> QED
    BY <1>4, <1>5 DEF Conservation, AssetConservation, check_conservation

(* The sums follow the supply as long as defendants have accounts.         *)
LEMMA TotalInvariant == Spec /\ []DefendantsKnown => [](Total = total_supply)
  <1>1. Init => Total = total_supply
    BY SumsInit
  <1>2. LedgerInv /\ LedgerInv' /\ DefendantsKnown /\ Total = total_supply /\ [Next]_vars
          => (Total = total_supply)'
    BY TotalNext DEF LedgerInv
  <1> QED
    BY <1>1, <1>2, LedgerInvariant, PTL DEF Spec

(* available + outstanding shard allowances + locked funds = total supply, *)
(* after every transaction, while no open dispute is against an account    *)
(* that does not exist.                                                    *)
THEOREM ConservationHolds == Spec /\ []DefendantsKnown => []Conservation
  <1>1. LedgerInv /\ Total = total_supply => Conservation
    BY ConservationIsTotal DEF LedgerInv
  <1> QED
    BY <1>1, LedgerInvariant, TotalInvariant, PTL

(* Whatever an account, a shard's escrow or a dispute holds.               *)
MoneyBounded ==
    /\ \A a \in AccountId : available[a] + (locked[a] + stake[a]) <= total_supply
    /\ \A k \in ShardId \X AccountId : shard_outstanding[k] <= total_supply
    /\ \A d \in OpenDisputes : disputes[d].bond <= total_supply

(* No part of the money exceeds the supply while disputes are against      *)
(* accounts that exist, so nothing but the supply itself can outgrow       *)
(* AmountMicros: what GenesisFund adds decides whether the additions in    *)
(* apply overflow, and no other transaction.                               *)
THEOREM MoneyWithinSupply == Spec /\ []DefendantsKnown => []MoneyBounded
  <1>1. LedgerInv /\ Total = total_supply => MoneyBounded
    <2> SUFFICES ASSUME LedgerInv, Total = total_supply PROVE MoneyBounded
      OBVIOUS
    <2>1. IsFiniteSet(AccountId) /\ IsFiniteSet(ShardId \X AccountId) /\ IsFiniteSet(DisputeId)
      BY LedgerAssumption, FS_Product
    <2>2. /\ \A a \in AccountId : available[a] \in Nat /\ held[a] \in Nat
          /\ \A k \in ShardId \X AccountId : shard_outstanding[k] \in Nat
          /\ \A d \in DisputeId : bonds[d] \in Nat
          /\ SumOf(available, AccountId) \in Nat /\ SumOf(held, AccountId) \in Nat
          /\ SumOf(shard_outstanding, ShardId \X AccountId) \in Nat
          /\ SumOf(bonds, DisputeId) \in Nat
      BY TotalType DEF LedgerInv
    <2>3. total_supply = SumOf(available, AccountId) + SumOf(shard_outstanding, ShardId \X AccountId)
                           + SumOf(held, AccountId) + SumOf(bonds, DisputeId)
      BY DEF Total
    <2>4. ASSUME NEW a \in AccountId PROVE available[a] + (locked[a] + stake[a]) <= total_supply
      <3>1. available[a] <= SumOf(available, AccountId) /\ held[a] <= SumOf(held, AccountId)
        BY <2>1, <2>2, SumMember
      <3>2. held[a] = locked[a] + stake[a]
        BY DEF held
      <3> QED
        BY <2>2, <2>3, <3>1, <3>2
    <2>5. ASSUME NEW k \in ShardId \X AccountId PROVE shard_outstanding[k] <= total_supply
      <3>1. shard_outstanding[k] <= SumOf(shard_outstanding, ShardId \X AccountId)
        BY <2>1, <2>2, SumMember
      <3> QED
        BY <2>2, <2>3, <3>1
    <2>6. ASSUME NEW d \in OpenDisputes PROVE disputes[d].bond <= total_supply
      <3>1. d \in DisputeId /\ bonds[d] = disputes[d].bond
        BY DEF OpenDisputes, bonds
      <3>2. bonds[d] <= SumOf(bonds, DisputeId)
        BY <2>1, <2>2, <3>1, SumMember
      <3> QED
        BY <2>2, <2>3, <3>1, <3>2
    <2> QED
      BY <2>4, <2>5, <2>6 DEF MoneyBounded
  <1> QED
    BY <1>1, LedgerInvariant, TotalInvariant, PTL

(* What is held of an asset is what was minted, and stays within its cap:  *)
(* for all assets but those whose cap is the largest u128.                 *)
LEMMA AssetInvariant ==
    ASSUME NoUncappedAsset
    PROVE  Spec => []AssetInv
  <1>1. Init => AssetInv
    BY SumsInit
  <1>2. LedgerInv /\ LedgerInv' /\ AssetInv /\ [Next]_vars => AssetInv'
    BY AssetNext DEF LedgerInv
  <1> QED
    BY <1>1, <1>2, LedgerInvariant, PTL DEF Spec

(* Every minted unit is held by somebody, and no more are minted than the  *)
(* issuer registered, through mints, transfers to oneself and trades.      *)
THEOREM AssetConservationHolds ==
    ASSUME NoUncappedAsset
    PROVE  Spec => []AssetConservation
  <1>1. AssetInv => AssetConservation
    BY DEF AssetInv
  <1> QED
    BY <1>1, AssetInvariant, PTL

(* No checkpoint settles twice: what is locked is the exposure of the      *)
(* finalized checkpoints, one root for each.                               *)
THEOREM SettledOnceHolds ==
    ASSUME RootFixesExposure
    PROVE  Spec => []SettledOnce
  <1>1. Init => SettledInv
    BY SumsInit
  <1>2. LedgerInv /\ LedgerInv' /\ SettledInv /\ [Next]_vars => SettledInv'
    BY SettledNext DEF LedgerInv
  <1>3. SettledInv => SettledOnce
    BY DEF SettledInv
  <1> QED
    BY <1>1, <1>2, <1>3, LedgerInvariant, PTL DEF Spec

(* apply is atomic after all: a transaction it refuses has changed nothing *)
(* (under the hypotheses of the two conservation theorems, which are what  *)
(* keeps its last check from failing).                                     *)
THEOREM RefusalsChangeNothing ==
    ASSUME NoUncappedAsset
    PROVE  Spec /\ []DefendantsKnown => RefusedIsNoop
  <1>1. LedgerInv /\ LedgerInv' /\ AssetInv /\ DefendantsKnown /\ Total = total_supply
          /\ [Next]_vars => [result' = "err" => UNCHANGED ledgerVars]_vars
    <2> SUFFICES ASSUME LedgerInv, LedgerInv', AssetInv, DefendantsKnown,
                        Total = total_supply, [Next]_vars, result' = "err",
                        ~UNCHANGED vars
                 PROVE  UNCHANGED ledgerVars
      OBVIOUS
    <2>1. check_conservation'
      BY CheckPasses
    <2>2. ~Return
      BY <2>1 DEF Return
    <2>3. PICK tx \in Tx : apply(tx)
      BY DEF Next
    <2>4. ~CheckpointFinalized(tx)
      BY <2>2 DEF CheckpointFinalized, CanFinalize, LedgerInv, KnownInv
    <2>5. ~ResolveDispute(tx)
      BY <2>2 DEF ResolveDispute, DefendantsKnown, LedgerInv, KnownInv
    <2>6. Refuse(tx)
      BY <2>2, <2>3, <2>4, <2>5
      DEF apply, GenesisFund, Stake, Unstake, AllocateShardAllowance, SlashConflict,
          RegisterAgent, SuspendAgent, UpdateReputation, DeployContract, CallContract,
          OpenDispute, RegisterAsset, MintAsset, TransferAsset, SpotTrade
    <2> QED
      BY <2>6 DEF Refuse
  <1> QED
    BY <1>1, LedgerInvariant, AssetInvariant, TotalInvariant, PTL DEF Spec, RefusedIsNoop

(* A suspended account stays suspended, gains no stake, and neither gains  *)
(* nor loses asset units.                                                  *)
THEOREM SuspensionFreezes == Spec => SuspendedAccountFrozen
  <1> DEFINE Frozen == \A a \in suspended :
                          /\ a \in suspended'
                          /\ stake'[a] <= stake[a]
                          /\ \A i \in AssetId : holdings'[<<a, i>>] = holdings[<<a, i>>]
  <1>1. TypeOK /\ [Next]_vars => [Frozen]_vars
    <2> SUFFICES ASSUME TypeOK, [Next]_vars PROVE Frozen
      OBVIOUS
    <2> USE DEF accountVars, escrowVars, agentVars, assetVars, contractVars
    <2>a. \A a \in suspended : a \in AccountId /\ stake[a] \in Nat /\ stake[a] <= stake[a]
      BY DEF TypeOK
    <2>0. UNCHANGED <<suspended, stake, holdings>> => Frozen
      BY <2>a
    <2>1. ASSUME NEW tx \in Tx, Stake(tx) PROVE Frozen
      BY <2>a, <2>1 DEF Stake, CanStake, ensure_active, TypeOK
    <2>2. ASSUME NEW tx \in Tx, Unstake(tx) PROVE Frozen
      <3>1. tx.amount \in Nat
        BY <2>2, TxFields DEF Unstake
      <3> QED
        BY <2>a, <2>2, <3>1 DEF Unstake, TypeOK
    <2>3. ASSUME NEW tx \in Tx, SlashConflict(tx) PROVE Frozen
      <3>1. tx.amount \in Nat
        BY <2>3, TxFields DEF SlashConflict
      <3> QED
        BY <2>a, <2>3, <3>1 DEF SlashConflict, TypeOK
    <2>4. ASSUME NEW tx \in Tx, SuspendAgent(tx) PROVE Frozen
      BY <2>a, <2>4 DEF SuspendAgent
    <2>5. ASSUME NEW tx \in Tx, MintAsset(tx) PROVE Frozen
      BY <2>a, <2>5 DEF MintAsset, CanMint, ensure_active, credit_holding, TypeOK
    <2>6. ASSUME NEW tx \in Tx, TransferAsset(tx) PROVE Frozen
      BY <2>a, <2>6 DEF TransferAsset, CanTransfer, ensure_active, credit_holding, debit_holding, TypeOK
    <2>7. ASSUME NEW tx \in Tx, SpotTrade(tx) PROVE Frozen
      BY <2>a, <2>7 DEF SpotTrade, CanTrade, ensure_active, credit_holding, debit_holding, TypeOK
    <2> HIDE DEF Frozen
    <2> QED
      BY ZenonT(60), <2>0, <2>1, <2>2, <2>3, <2>4, <2>5, <2>6, <2>7
      DEF Next, apply, GenesisFund, AllocateShardAllowance, CheckpointFinalized, RegisterAgent,
          UpdateReputation, DeployContract, CallContract, OpenDispute, ResolveDispute,
          RegisterAsset, Refuse, vars, ledgerVars
  <1> QED
    BY <1>1, LedgerTypeOK, PTL DEF Spec, SuspendedAccountFrozen
=============================================================================
