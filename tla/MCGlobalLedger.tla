--------------------------- MODULE MCGlobalLedger ---------------------------
(***************************************************************************)
(* An instance of GlobalLedger for TLC: two accounts funded at genesis, a  *)
(* third that appears later, one shard, and a workload that touches every  *)
(* kind of transaction.                                                    *)
(***************************************************************************)
EXTENDS GlobalLedger

CONSTANT Workload   \* parts of {"balances", "contracts"}; {"orphan"}: a dispute against an
                    \* account that does not exist

MCGenesis == [a \in {"alice", "bob"} |-> IF a = "alice" THEN 3 ELSE 1]
MCUpper == [s \in {"GOLD", "gold", ""} |-> IF s = "" THEN "" ELSE "GOLD"]
MCKeys == {<<"FRA-004", 1, h>> : h \in {0, 1}}

Move(type, who, n) == [type |-> type, account |-> who, amount |-> n]

Allocate(who, n) ==
    [type |-> "AllocateShardAllowance", account |-> who, shard_id |-> "FRA-004", amount |-> n]

Seal(h, root, n, who, ok) ==
    [type |-> "CheckpointFinalized", key |-> <<"FRA-004", 1, h>>, root |-> root,
     exposure |-> n, witnessed |-> ok, account |-> who]

Claim(id, who, against, n) ==
    [type |-> "OpenDispute", id |-> id, account |-> who, defendant |-> against, amount |-> n]
Verdict(id, b) == [type |-> "ResolveDispute", id |-> id, for_plaintiff |-> b]

Agent(g, who) == [type |-> "RegisterAgent", agent_id |-> g, account |-> who]
Suspend(g) == [type |-> "SuspendAgent", agent_id |-> g]

Rate(g, n) == [type |-> "UpdateReputation", agent_id |-> g, delta |-> n]

(* A text source "wat" compiles to the module "wasm", which is its own     *)
(* compilation, "junk" does not compile; "wasm" needs more fuel than 1.    *)
MCCode == {"wat", "wasm", "other", "junk"}
MCCompile == [c \in MCCode |-> CASE c = "wat" -> "wasm" [] c = "junk" -> None [] OTHER -> c]
MCRun == [k \in {"wasm", "other"} \X {1, 2} |->
            IF k[1] = "other" THEN 0 ELSE IF k[2] = 1 THEN None ELSE 7]
Deploy(who, code, hash) ==
    [type |-> "DeployContract", account |-> who, code |-> code, code_hash |-> hash]
Invoke(who, hash, fuel) ==
    [type |-> "CallContract", account |-> who, code_hash |-> hash, fuel |-> fuel]

Register(i, sym, n) ==
    [type |-> "RegisterAsset", asset_id |-> i, account |-> "alice", symbol |-> sym, max_supply |-> n]
Units(type, i, from, to, n) ==
    [type |-> type, asset_id |-> i, account |-> from, to |-> to, units |-> n, price_total |-> 1]

MoneyTxs ==
    {Move("Stake", "bob", 1), Move("Unstake", "bob", 1),
     Allocate("alice", 2), Move("SlashConflict", "bob", 2),
     Move("SlashConflict", "carol", 1), Move("GenesisFund", "carol", 1),
     Allocate("bob", 1),
     Seal(0, "r1", 1, "alice", TRUE), Seal(0, "r2", 2, "alice", TRUE),
     Seal(1, "r1", 1, "bob", TRUE), Seal(1, "r2", 1, "alice", FALSE),
     Claim("d1", "bob", "alice", 1), Verdict("d1", TRUE), Verdict("d1", FALSE)}

MarketTxs ==
    {Move("Stake", "bob", 1), Move("GenesisFund", "carol", 1),
     Agent("g1", "bob"), Agent("g2", "bob"), Agent("g2", "carol"), Suspend("g1"), Suspend("g2"),
     Rate("g1", -1),
     Register("i1", "gold", 2), Register("i2", "GOLD", 1), Register("i2", "", 1),
     Units("MintAsset", "i1", "alice", "bob", 1), Units("MintAsset", "i1", "alice", "alice", 2),
     Units("MintAsset", "i2", "bob", "bob", 1),
     Units("TransferAsset", "i1", "bob", "carol", 1), Units("TransferAsset", "i1", "bob", "bob", 1),
     Units("SpotTrade", "i1", "alice", "bob", 1), Units("SpotTrade", "i1", "bob", "alice", 1)}

OrphanTxs == {Claim("d1", "bob", "carol", 1), Verdict("d1", FALSE), Move("GenesisFund", "carol", 1)}

ContractTxs ==
    {Deploy("alice", "wat", "wat"), Deploy("bob", "wat", "wasm"), Deploy("bob", "wasm", "wasm"),
     Deploy("carol", "wat", "wat"), Deploy("alice", "other", "other"), Deploy("bob", "other", "wat"),
     Deploy("bob", "other", "wasm"), Deploy("alice", "junk", "junk"),
     Invoke("bob", "wat", 0), Invoke("bob", "wasm", 1), Invoke("carol", "other", 2),
     Move("GenesisFund", "carol", 1)}

TxsOf(w) ==
    CASE w = "balances" -> MoneyTxs \cup MarketTxs
      [] w = "contracts" -> ContractTxs
      [] w = "orphan" -> OrphanTxs
MCTx == UNION {TxsOf(w) : w \in Workload}

(* A behaviour takes its transactions from one part of the workload:       *)
(* contracts share nothing with balances but the set of accounts.          *)
VARIABLE part
MCInit == Init /\ part \in Workload
MCNext == (\E tx \in TxsOf(part) : apply(tx)) /\ UNCHANGED part
MCSpec == MCInit /\ [][MCNext]_<<vars, part>>
=============================================================================
