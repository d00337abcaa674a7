----------------------------- MODULE Settlement -----------------------------
(***************************************************************************)
(* Checkpoints settled on the global ledger: a shard's sealed batches are  *)
(* witnessed, presented to a WitnessSet and submitted to GlobalState::apply *)
(* (crates/execute) as CheckpointFinalized transactions.                   *)
(***************************************************************************)
EXTENDS Checkpoints

CONSTANTS
    Account,        \* the account that funds the shard
    Funds,          \* what it owns at genesis
    Allowance,      \* amounts it escrows for the shard
    MaxLeaves,      \* bound: leaves of the trees InclusionProvable looks at
    None

(* No root is None.                                                        *)
ASSUME SettlementAssumption ==
    /\ Funds \in Nat /\ Allowance \subseteq Nat /\ MaxLeaves \in Nat
    /\ \A ls \in SeqOf([pay : Pay, actual_amount : Amount], MaxServed) : merkle_root(ls) # None
    /\ \A h \in OtherHeader : h.root # None

VARIABLES
    known, available, locked, stake, suspended, agent_of, reputation, total_supply,
    escrows, shard_outstanding, finalized, agents, disputes, assets, asset_symbols,
    holdings, contracts, contract_deployers, last_call_result, result,
    settled         \* history: what was finalized, who signed it, and its witnesses' signatures

(* One account, one shard; no agents, disputes, assets or contracts.       *)
L1 == INSTANCE GlobalLedger WITH
    AccountId <- {Account}, ShardId <- {Shard}, AgentId <- {}, DisputeId <- {},
    AssetId <- {}, Symbol <- {}, Code <- {}, Compile <- <<>>, Run <- <<>>,
    default_fuel <- 0, Upper <- <<>>,
    CheckpointKey <- {Shard} \X Epoch \X (1..MaxServed), Root <- {},
    UnitMax <- 1, RepMax <- 1, Genesis <- [a \in {Account} |-> Funds],
    Tx <- {}, MaxSupply <- Funds

ledgerVars ==
    <<known, available, locked, stake, suspended, agent_of, reputation, total_supply,
      escrows, shard_outstanding, finalized, agents, disputes, assets, asset_symbols,
      holdings, contracts, contract_deployers, last_call_result, result>>
vars == <<cpVars, ledgerVars, settled>>

Init == CPInit /\ L1!Init /\ settled = {}

AllocateShardAllowance(n) ==
    /\ L1!apply([type |-> "AllocateShardAllowance", account |-> Account,
                 shard_id |-> Shard, amount |-> n])
    /\ UNCHANGED <<cpVars, settled>>

(* The ledger verifies the witnesses with its own min_witnesses, which is  *)
(* witnesses_required here.                                                *)
SubmitCheckpoint(cp, sigs) ==
    /\ L1!apply([type |-> "CheckpointFinalized", key |-> Key(cp.header),
                 root |-> cp.header.root, exposure |-> cp.header.exposure,
                 witnessed |-> verify_witnessed(cp, sigs), account |-> Account])
    /\ settled' = IF finalized' = finalized THEN settled
                  ELSE settled \cup {[header |-> cp.header, signer |-> cp.shard_signer_pubkey,
                                       sigs |-> ToSet(sigs)]}
    /\ UNCHANGED cpVars

Next ==
    \/ ShardNext /\ UNCHANGED <<ledgerVars, settled>>
    \/ \E n \in Allowance : AllocateShardAllowance(n)
    \/ \E cp \in Presented : \E sigs \in SigLists(cp) :
          \/ accept(cp, sigs) /\ UNCHANGED <<ledgerVars, settled>>
          \/ SubmitCheckpoint(cp, sigs)

Spec == Init /\ [][Next]_vars

-----------------------------------------------------------------------------
Batch(h) == ToSet((CHOOSE c \in sealed : c.header = h).batch)
ByShard == {s \in settled : s.signer = ShardKey}
Carried(S) == MapThenSumSet(LAMBDA s : s.header.exposure, S)

(* Type invariant of the shard's log, the sealed headers and the ledger.   *)
TypeOK ==
    /\ ToSet(log) \subseteq served
    /\ exposure \in Nat /\ next_height \in 1..MaxServed + 1
    /\ DOMAIN by_key \subseteq {Shard} \X Epoch \X Nat
    /\ \A h \in Headers : h.tx_count \in 1..MaxServed /\ h.exposure \in Nat
    /\ L1!Conservation

(* A receipt is in the log or in one sealed batch, never in two, and only  *)
(* a restart loses it (append, force_seal, clear_sealed).                  *)
EachReceiptInOneBatch ==
    \A r \in served :
        LET places == Cardinality({c \in sealed : r \in ToSet(c.batch)})
                        + (IF r \in ToSet(log) THEN 1 ELSE 0)
        IN  places = 1 \/ (restarts > 0 /\ places = 0)

(* From the service to the ledger: what the ledger moved out of the        *)
(* shard's escrow is what services billed in the finalized batches that    *)
(* the shard signed, each receipt counted once, and beyond that exactly    *)
(* what finalized checkpoints with another key carry (append, force_seal,  *)
(* apply_checkpoint).                                                      *)
SettledIsBilled ==
    /\ locked[Account] = Total(UNION {Batch(s.header) : s \in ByShard}) + Carried(settled \ ByShard)
    /\ \A k \in DOMAIN finalized :
          finalized[k] # None => \E s \in settled : Key(s.header) = k
                                                     /\ s.header.root = finalized[k]

(* Every finalized checkpoint is one the shard sealed (force_seal,         *)
(* verify_signed_checkpoint, apply_checkpoint).                            *)
SettledWasSealed == \A s \in settled : s.header \in Headers

(* Behind a finalized checkpoint stand enough different witnesses that     *)
(* signed this very header: signatures for another batch at the same       *)
(* height, or a repeated one, do not count (verify_witnessed).             *)
FinalizedIsWitnessed ==
    \A s \in settled :
        Cardinality({w \in Witness : \E sig \in s.sigs : sig.witness = w /\ sig.saw = s.header})
            >= witnesses_required

(* Non-retroactivity: a restarted shard signs its heights again, and the   *)
(* witnesses sign with it, but neither the ledger nor a WitnessSet lets a  *)
(* root that it has take the place of another (apply_checkpoint, accept).  *)
HistoryNotRewritten ==
    [][/\ \A k \in DOMAIN finalized : finalized[k] # None => finalized'[k] = finalized[k]
       /\ \A k \in DOMAIN by_key : by_key'[k] = by_key[k]]_vars

(* Every leaf has a proof that verifies against the root.                  *)
Provable(ls, root) ==
    \A i \in 1..Len(ls) : verify_merkle_proof(ls[i], merkle_proof(ls, i - 1), root)

(* Every receipt of a batch has a proof that verifies against the root the *)
(* shard signs, in trees of every shape up to MaxLeaves leaves and in each *)
(* batch that is sealed (merkle_proof, verify_merkle_proof).               *)
InclusionProvable ==
    /\ \A n \in 1..MaxLeaves :
          LET ls == [i \in 1..n |-> [leaf |-> i]] IN Provable(ls, merkle_root(ls))
    /\ [][\A c \in sealed' \ sealed : Provable(leaves(c.batch), c.header.root)]_vars

(* A signed root stands for one batch: with the number of receipts next to *)
(* it, it fixes all of them and their order, although the last node of an  *)
(* odd level is hashed with itself (merkle_root, CheckpointHeader).        *)
RootCommitsToBatch ==
    \A c, d \in sealed :
        c.header.root = d.header.root /\ c.header.tx_count = d.header.tx_count
            => leaves(c.batch) = leaves(d.batch)
=============================================================================
