# BlockAI SEEF: a TLA+ verification project

The repository implements a payment system in two tiers. A *local economic shard* (four validators,
quorum three) authorises micropayments of agents against signed spend capabilities; a *global ledger*
holds the money the capabilities project, and settles what the shards spent. This directory holds
TLA+ models of the parts that carry that promise, TLC configurations that check them on small
instances, and TLAPS proofs for every instance of the safety properties the passing runs check
(all but one, see *The proofs*).
A payment's way through the system is the order of the modules: the authority issues a capability
(`Attestation`, `Authority`), a shard accepts payments against it (`ShardState`, `ShardEngine`, promised by
`SpendLedger`), services bill them and the shard seals the receipts (`Merkle`, `Checkpoints`), the
global ledger settles the sealed batches (`GlobalLedger`, composed in `Settlement`), and the global
validators agree on the ledger's transactions (`GlobalConsensus`).

## The system

| part | state | operations | talks to |
|---|---|---|---|
| shard validator state (`shard/src/state.rs`) | active capabilities with remaining allowance, consumed (capability, epoch, sequence) triples, epoch states, commit index | `activate_capability`, `fence_epoch`, `consume_pay` | called by the engine under its mutex and by WAL replay |
| write-ahead log (`shard/src/wal.rs`) | one file of length-prefixed records | `append` (write, flush, sync), `replay` | engine, `open_engine` |
| shard engine (`shard/src/engine.rs`, `bft.rs`) | per validator: state, log, signed capabilities, alive flag, inbox | `handle_pay`, `fence_epoch`, `activate_capability`, `kill`, `pump`/`handle_message`, `open_engine` | the other engines, over unbounded channels |
| payment proofs, receipt log (`shard/src/payment.rs`, `receipt_log.rs`) | receipts not sealed yet | `complete_payment_proof`, `append`, `clear_sealed` | service, sealer |
| checkpoints (`shard/src/checkpoint.rs`, `merkle.rs`) | next height | `maybe_seal`, `force_seal`, Merkle root and proofs | receipt log, witnesses |
| witnesses (`witness`) | none in a witness; in a `WitnessSet` the first root seen per (shard, epoch, height) | `countersign`, `WitnessSet::accept`, `verify_witnessed` | sealer, ledger |
| attestation (`attest`) | an approval policy | `sign_evidence`, `verify_evidence` | authority |
| capability authority (`authority`) | reserve and shard allowance per account, fenced epochs | `fund`, `allocate`, `issue_capability`, `fence_epoch` | agents, shards |
| global consensus (`consensus`) | per validator: DAG mempool, ledger, alive flag, inbox | `submit_and_commit`, `handle_msg`, block application | ledger |
| global ledger (`execute`) | accounts, supply, shard escrows, finalized checkpoints, agents, disputes, assets, contracts | `apply`, one case per `L1Tx` | consensus, witnesses |
| contract runtime (`wasm`), crypto, QUIC (`net`), simulators (`tools`) | none that lasts | library wrappers, stateless checks, I/O | |

What is hard in it:

* an engine's mutex is released between the phases of `handle_pay`, so calls overlap, and the loops
  of all calls drain one inbox;
* the commit certificate leaves before the leader's log is written, and the log is written before
  the in-memory commit may fail;
* a crash can hit any of these points, or the middle of an `append`; after a restart the signed
  capabilities are gone and have to be activated again;
* both loops give up after two seconds, whatever the other validators did in the meantime;
* a fence may arrive while a PAY of its epoch is in flight;
* `GlobalState::apply` is not transactional: what it changed before an error stays changed;
* `apply_block_txs` stops at the first transaction the ledger refuses, so a committed block may be
  executed in part, and every validator has to stop at the same point;
* overlapping `submit_and_commit` calls take votes from one inbox, and the certificate leaves before
  the leader executes the block;
* the receipt log and the sealing height are plain memory: a restarted process loses the one and
  starts the other at 1 again, while witnesses sign whatever verifies;
* a checkpoint is verified with a key that it carries itself.

`PROJECT.json` lists these and the others, each at its line, with the properties that guard it.

## The modules

**ShardState** gives `state.rs` and `wal.rs` as operators on values. A PAY's body stands for its own
digest (BLAKE3 is taken to be injective) and a capability is what its issuer signed (`Cap`). A log
file is abstracted to what `Wal::replay` makes of it: the state the fold over the records reaches,
and whether it succeeds. `append` breaks the file when the record does not apply, or when it follows
a torn length prefix; `TornAppend` is a crash inside `append`. A crash before the first byte, or
after the last, is a restart with the log as it is.

**ShardEngine** extends it with the committee. One action is one section of code that holds a mutex:

| action | code |
|---|---|
| `ActivateCapability` | `activate_capability` |
| `StartPay` / `RejectPay` | `handle_pay` up to the proposal and the leader's own vote / its early returns |
| `DrainVotes`, `DrainAcks`, `DrainFenceAcks` | one turn of the respective loop: the whole inbox is taken, what answers another call is lost |
| `SendCommit`, `CommitPay` | the commit section, cut after the broadcast: followers act on the certificate while the leader still holds its mutex (`Unlocked`) |
| `ReplyPay` | the accept, with the commit index of that moment |
| `TimeoutPay`, `TimeoutFence` | the deadlines |
| `StartFence`, `RejectFence`, `LocalFence` | `fence_epoch` |
| `OnPropose`, `OnCommit`, `OnFenceCommit` | `handle_message` on a follower |
| `Kill` | `kill`: the engine refuses new work, its running calls continue |
| `RebootClean`, `RebootTorn` | the processes stop, possibly inside one `append`, and `open_engine` replays the logs |

As in `testkit.rs`, clients talk to one leader and only followers are pumped. Of the broadcasts that
no engine acts on (votes and acknowledgements at followers) nothing is kept; so the followers' inboxes
are FIFO queues and the leader's is a set. The `Fence` message, which no code sends, has no action.
Validators crash but do not lie: a vote or acknowledgement is never forged. An `append` that
fails with an I/O error while the process lives on is not modelled.

**SpendLedger** is the abstract specification: one ledger without validators or messages, in which
a slot is spent once and answered once, answers are numbered in the order of spending, and a fenced
epoch is spent no more. **ShardRefinement** maps the engine to it. The leader's memory is the ledger: a
`CommitPay` that succeeds is `Spend`, `ReplyPay` is `Accept`, `LocalFence` is `Fence`, a restart of a
leader whose log does not replay is `Stop`, and every other action, a restart with sound logs
included, changes nothing a client can see. It holds of a leader that serves one PAY at a time.

**GlobalLedger** has one action per kind of `L1Tx`. The early
returns of a handler are its guard; `Refuse` is an `apply` that returns before it changed anything,
and the two handlers that can fail later (`ResolveDispute`, `apply_checkpoint`) say so in their
actions. Every other action ends with the conservation check on the *new* state, whose failure
returns an error and undoes nothing. The verdict of `verify_witnessed` is a field of the transaction
(`Settlement` computes it), and what the WASM
library compiles and computes is given by constant functions. `AssetUnits` and
reputation have their widths as constants (`UnitMax`, `RepMax`): saturation and wrap-around happen at them.
Overflow wraps, as in a build without overflow checks; with them it is a panic.

**Authority** models `Authority` of `issuer.rs`, one action per method. A second `fund` replaces the
float, as in the code; `funded_at` is a history variable that tells the capabilities issued from the
present float from older ones. Those older ones stay spendable: over several floats, the sum of what
was issued is bounded by the sum of what was funded, not by the last `total`. A call that is refused
changes nothing and is not an action of its own. The evidence that comes with a request is checked as
in `attest` (**Attestation**): a signature is the signed body with its key, and what the platform
measured is kept beside it as history.

**Merkle** gives `merkle.rs` as functions on sequences of leaves. The hash of a pair is the pair.
The loops of the code are recursive functions: `Levels` for the tree, `Halved` for `idx /= 2`, and the
running hash in `verify_merkle_proof`.

**Checkpoints** models the way from a served payment to a witnessed checkpoint. A receipt is the
payment and the billed amount; `id` is history and tells equal receipts apart. `complete_payment_proof`,
`force_seal` and `maybe_seal` are actions; `Restart` is a new process, with an empty log and a new
`CheckpointSealer`. A signature is what was signed, with the key that signed it. As in the code, a checkpoint names
the key it is to be verified with, and nothing compares that key with the shard's (`ShardKey`): `Presented` offers
what the shard sealed and what other keys signed (`OtherKey`, `OtherHeader`: any root and any exposure,
at the heights of this shard), each also with a signature that was made for another header of the height. Nobody can
sign with a key he does not have; that is all the model takes from cryptography.
`countersign` is a function, since a witness keeps no state, and any list of signatures that witnesses could
have given may come with a checkpoint that verifies, signatures for another batch at the same height and
repeated ones included (with one that does not verify, `verify_witnessed` returns before it looks at
them). As in the code, a witness is any key: no list of admitted witnesses exists.

**Settlement** composes `Checkpoints` with `GlobalLedger` (an `INSTANCE` with one account, one shard and no
agents, assets, disputes or contracts): escrow is allocated, checkpoints are submitted early,
late and again, with good and bad signatures, from the shard's key and from others, and presented to a `WitnessSet`
independently. The ledger settles a checkpoint of another key as it settles the shard's, so `SettledIsBilled` has two parts:
what is locked is what services billed in the settled batches of the shard, plus exactly what the settled checkpoints of
other keys carry. That there should be no second part is `SettledWasSealed`, which `settlement_signer` refutes.
A service may bill up to `max_amount` although the shard debited `amount`, so a
batch may ask for more than the escrow holds: the ledger then refuses it as a whole.

**GlobalConsensus** models `submit_and_commit` and `handle_msg`:

| action | code |
|---|---|
| `Submit`, `SubmitToKilled` | the first section: propose, broadcast, own vote; or the early return |
| `DrainVotes`, `Timeout` | one turn of the vote loop; its deadline |
| `SendCommit`, `ApplyCommit` | the commit section, cut after the broadcast; the mutex is held across the cut (`Unlocked`) |
| `OnPropose`, `OnCommit` | `handle_msg` in a follower's pump |
| `Kill` | `kill` |

Only the leader of `cluster4` submits, so a block's round stands for its digest and a follower's inbox
is the part of one broadcast log it has not read. A killed validator may stop between any two messages.
The ledger is a parameter: `apply` maps a state and a transaction to the next state and a verdict.
`chain`, `applied` are history: the certified blocks with the ledger
they lead to, and how many of them a validator has executed.

Definitions whose comment calls them a faulty variant or a faulty form are never part of a
specification. Each is a bug the code might have had; replacing the original by it makes the
property it is listed with in `PROJECT.json` ("mutants") fail.

The modules whose names end in **Proofs** hold the theorems about the module they are named after;
**SumTheorems** holds the lemmas about sums they share. The modules whose names begin with **MC** are
the instances.

## The runs

| run | outcome | question |
|---|---|---|
| `shard_sequential` | passes | does a leader that serves one call at a time accept a sequence once, number accepts uniquely, stay within the allowance, and look like one ledger? |
| `shard_restart` | passes | do accepts and fences survive restarts, torn logs, renewed activation and each other, and does the shard still look like one ledger? |
| `shard_live` | passes | is a PAY that everybody would vote for answered, although a validator dies? |
| `ledger` | passes | do money, units, settlement, suspension, symbols, reputation and contracts stay consistent, and does a refusal leave no trace? |
| `authority` | passes | is what is issued within the float, whatever is funded, divided and drawn, and is every capability new and issued to an approved machine? |
| `settlement` | passes | does the ledger settle what was billed, once, under enough witnesses, provably, and never otherwise than before, although the shard restarts and other keys sign checkpoints too? |
| `consensus` | passes | do all validators execute the same blocks to the same point, although calls overlap, contradict each other, time out and validators die, and do those that live catch up? |
| `shard_double_accept` | violated | "Each TX_ID accepted ≤ once": two overlapping calls for one PAY are both accepted |
| `shard_refill` | violated | "Σ accepted spend ≤ issued allowance": the activation needed after a restart refills the allowance |
| `shard_wal` | violated | "Restart replays WAL": a PAY past `sequence_end` is logged everywhere, refused in memory, and makes the logs unreadable |
| `ledger_orphan` | violated | conservation: a dispute won by an account that does not exist loses its bond |
| `settlement_signer` | violated | "Shard seals root R (+ witnesses)", "L1 verifies signatures": a checkpoint the shard never sealed, signed with another key, is settled |

The five violated runs state what a design document promises; "findings" in `PROJECT.json` quotes the
documents and names the lines.

`authority_fence.cfg` stands apart from these runs. It checks `FenceBoundsRisk` ("Residual risk after fence = leftover
allowance on the fenced epoch only") with `MCAuthority`, and TLC finds it violated: `fence_epoch` overwrites what
was fenced (`issuer.rs:190`), so that a call for epoch 1 after one for epoch 2 lifts the fence of epoch 2. The trace
shows that much. `issue_capability` does not ask `is_epoch_fenced` either, which breaks the property as well and is not in the trace.

**Bounds.** The committee has the four validators and the quorum of three of the code; followers are
symmetric where no liveness is checked, and so are the two calls that carry the same PAY. One capability of allowance 3 covers a PAY
of 1 and one of 2 but not two of 2, so both sides of the allowance check occur; the workloads are a
PAY, its retry under the same TX_ID, another request for the same sequence, the next sequence, and (in
`shard_wal`) one past the range. One dead validator, one reboot and one torn file are enough for each crash point to
meet each phase of a call. Every call may time out at any point, so the loss of answers needs no
kill; a validator is killed in `shard_live`. `shard_sequential` uses `MaxInFlight = 1`, the only discipline under which
its properties hold; `shard_restart` lets a PAY and a fence overlap. Deadlock is not checked for
the shard: after the workload and the reboots are used up it rests.
In `ledger` the supply is five units: Alice can escrow 2, which covers either of two competing
checkpoints of height 0 but not both; Bob can stake, lose his stake to a penalty larger than it,
win or lose a dispute, be suspended, and trade with Alice. Disputes are between accounts that exist
and the asset's ceiling is below the width of its type. `ledger_orphan` drops the first restriction.
Without the second, `minted` would wrap: the supply check adds with saturation and the update does
not, so a mint past a ceiling of `u128::MAX` breaks `AssetConservation` in a build without overflow
checks and panics in one with them. Contracts touch nothing but the set of accounts, so a behaviour takes its
transactions either from the contracts or from the rest (`part` in MCGlobalLedger).
In `authority` one account is funded with up to 3 any number of times, two interchangeable shards get shares,
and three capabilities are numbered: enough for a request to be repeated with another amount,
for a seal to fail between two that succeed, and for a second float. Evidence is a passing one, one
of unapproved hardware, one of a patched binary, either with its claim corrected afterwards, one
of another platform and one without a signature.
In `settlement` four receipts are billed at 1 or 2 (3 exceeds `max_amount`), so batches have up to
four leaves and equal ones among them; `InclusionProvable` also looks at all trees of up to nine leaves, which
have odd levels at every height. The account can escrow 2 of its 3 units once, so that checkpoints
compete for it and some are refused. One restart makes every height seal twice. One checkpoint of another key, for
height 1, competes with those of the shard for the height and for the escrow, in either order.
In `consensus` two blocks meet in either order: the second begins with a root the first has already
made final and stops at one that conflicts. Two blocks, at most two of them in flight, one killed
validator and deadlines at any time are what the time allows; the order of the mempool is
checked after three further proposals, with two tips remembered instead of sixteen, so that
tips are forgotten.

**Fairness** is assumed in `shard_live` and in `consensus`. In `consensus`: while some follower's pump
has a message, or the leader is inside its commit section, not all of them stand still; the
pumps of `cluster4` loop every millisecond and nothing in the commit section waits. That is less than
fairness of each pump. No deadline is assumed to hold or to pass, and killed validators take no
steps. In `shard_live`: weak fairness of each follower's pump, of each
`handle_pay` call and of each `fence_epoch` call. The pumps of `testkit.rs` loop for ever, and every
wait in the engine ends after 5 ms even if its notification was lost. That the two-second deadline does
not pass is part of the question, not a fairness assumption: `PromptSpec` leaves the two timeout
actions out, and `ValidPayServed` claims nothing about runs in which they happen.

## The proofs

The theorems hold for every value of the constants that satisfies the assumptions the modules state:
types of the constants, finiteness of what is counted or summed over, and

* `TxAssumption`: transactions are well formed, and `Run` gives a result for each contract called;
* `LedgerAssumption`: upper-casing a symbol or compiling a module twice gives what once gives;
* `AuthorityAssumption`: a signature with the platform's key is the platform's (`SignedByPlatform`);
* `CheckpointAssumption`: the shard's key is not among the others, and what is signed with those is about this shard
  and within the bounds of the instance;
* `SettlementAssumption`: no root, the shard's or another's, is the value `None` that stands for "not finalized".

TLC evaluates them in the runs. Some theorems of the shard and of the ledger have a hypothesis on the
behaviour or the workload as well, which the runs that check the same property satisfy. The first four exclude what the
code really does wrong; the last makes `SettledOnce` well defined:

| hypothesis | it says | without it |
|---|---|---|
| `[]OnePay` | calls of `handle_pay` do not overlap (implied by `MaxInFlight = 1`) | `shard_double_accept` |
| `NeverRefilled` | the leader does not activate a capability that is active | `shard_refill` |
| `[]DefendantsKnown` | the defendant of every open dispute has an account | `ledger_orphan` |
| `NoUncappedAsset` | no asset is registered with a ceiling of `u128::MAX` | `minted` wraps around (see *Bounds*) |
| `RootFixesExposure` | two checkpoints with one key and one root carry one exposure | the ledger settles the exposure that came first; which one it was, root and key do not tell |

**Shard** (`ShardEngineProofs`).

* `WalAgreement`, `EngineTypeOK`: the types, and that a running validator's memory is what its log
  replays to. Both are inductive together, by two lemmas that say what writing a record does to the
  pair of log and memory (`RecordStep`, `DurableCommitStep`) and one about restarts (`RebootStep`).
  They also yield `StoreMoves`: in every step a validator that is up afterwards was up before, and its
  consumed sequences and fences only grow, a fenced epoch not at all.
* `AcceptedIsDurable`, `FenceIsDurable`: a quorum stands behind every accept and every fence.
  Neither is inductive. The strengthening `AckInv` (`FenceInv`) follows an acknowledgement on
  its way: one that is in the leader's inbox, and one that was counted, comes from a validator that
  holds the sequence consumed (the epoch fenced) or is down; `StoreMoves` keeps this true across restarts.
* `FenceIsFinal`, an action property, follows from `StoreMoves`.
* `FenceBlocksAccept`: `LeaderInv` adds that the leader is among those it counted, so after
  `fence_epoch` has returned the leader itself holds the fence, and `CommitPay` cannot succeed.
* `SequenceSpentOnce`, `IndexIsUnique`, for behaviours with `[]OnePay`: `SeqInv` says that the sequence of
  the running call is fresh at the leader until it commits, that committed calls have different
  sequences, and that the indices given out lie below that of the call that has committed and not
  answered. `SequentialService` has the same for `MaxInFlight = 1`, without the hypothesis.

**Shard, against its abstract specification** (`ShardRefinementProofs`).

* `EngineImplementsLedger`: for behaviours with `[]OnePay`, every step of the committee is a step of `SpendLedger`
  or a stutter, one lemma per action. `RefineInv` joins the invariants above with
  `LeaderUp`: a leader that is down has nothing in memory, so that its restart is no step of the ledger.
* `SpendIsBounded`: what is accepted on a capability stays within what the issuer signed. `BudgetInv` is
  about more than accepts: the amounts of all calls that the leader committed, answered or not, and
  what it has left in memory, add up to no more than the allowance.

**Global ledger** (`GlobalLedgerProofs`), one lemma per transaction.

* `LedgerTypeOK`, `SuspensionHolds`, `ReputationHolds`, `SymbolsHold`, `HashesHold`, from `LedgerInv`, which
  needs no hypothesis. `LedgerTypeOK` says that no amount goes below zero, and that units and reputation keep their
  widths; money has none in the model (see *Not modelled*). `AgentInv` ties agents and accounts together in both directions, `SymbolInv`
  adds that indexed symbols are uppercase, `KnownInv` that nothing is owned outside the accounts that exist.
* `SuspensionFreezes`, an action property: a suspended account stays suspended, neither stakes nor moves units.
* `ConservationHolds`: the sums of the model run over what exists, which transactions change. `Total` is the
  same amount summed over everything that could exist (`KnownInv` makes them equal), so that a
  transaction changes a sum at one or two places.
* `MoneyWithinSupply`, with the same hypothesis: no balance, escrow or bond exceeds the total supply, since
  `Total` counts each of them. So `AmountMicros` can overflow in a `GenesisFund` only.
* `AssetConservationHolds`: `AssetInv` adds that ceilings are below the width, so the saturating
  check of `MintAsset` is exact.
* `SettledOnceHolds`: what is locked is the sum of the exposures of the settled heights.
* `RefusalsChangeNothing`: `apply` checks conservation after it has changed the state and undoes nothing. That
  check never fails, and neither do the later steps of the two handlers that have any; this is why a
  refusal leaves no trace.

**Global consensus** (`GlobalConsensusProofs`): `ConsensusTypeOK`, `LedgersAgreeHolds`, `CertifiedByQuorumHolds`,
`FailedLeavesNoTraceHolds`, from `ConsensusInv`: `DagInv` (followers have what the leader proposed, as far as they read),
`CallInv` (a vote, in the inbox or counted, comes from a validator that has the block), `ChainInv` (the
chain is the certificates in the order they were sent, each after its proposal) and `ExecInv` (a follower
has executed exactly the certificates it has read; the leader all, or all but the one in whose
commit section it is).

**Authority** (`AuthorityProofs`): `AuthorityTypeOK`, `FloatPartitionedHolds`, `IssuedToApprovedHolds`, `IdentifiersUnique`.
`CounterInv` says that every number on a capability lies below the counter, so `CapabilityIdsUnique` holds
and a new float counts only what is issued from it.

**Merkle tree** (`MerkleProofs`): `RootFixesLeaves` (two lists of one length with one root are equal) and
`EveryLeafProvable`, for trees of every size; hashes are taken to be injective.

**Settlement** (`SettlementProofs`): `SettlementTypeOK`, `ReceiptInOneBatch`, `SettledIsBilledHolds`,
`FinalizedWasWitnessed`, `RootStandsForBatch`, `HistoryStands`, `InclusionIsProvable`. `SettlementInv` follows a receipt:
`LogInv` (the log and its counters), `BatchInv` (a header says of its batch what is true, headers differ and batches
are disjoint), `LedgerInv` (the books of the composed ledger balance), `SettledInv` (what is final was
witnessed and is either sealed by the shard or signed by another key, and what is locked is the exposure of both
kinds together; for the shard's that is what the batches bill). A restart reuses a
height, but with a later clock and receipts of its own; only one of two headers of a height can be settled.

**Data without induction on it.** `MapThenSumSet` takes an operator, and so do the library's induction
theorems, which the provers cannot instantiate. `SumTheorems` therefore shows that the fold is a sum of the values
of a function (`SumOf`) and proves of that sum what is needed (one value changed, an element added,
monotonicity, union), each by the choice of a smallest counterexample (`SmallestSubset`). `MerkleProofs` does
the same with the least natural number (`LeastNat`): the functions `Levels`, `Halved` and the running hash are shown to exist
up to each level, and the first level at which a claim about them would fail is refuted.

**Model-checked only**: `ValidPayServed` and `CommitsReachEveryone` (liveness under fairness), `AnchorOrdersAllOnce` (what
the recursion of the mempool's order computes), and what the five violated runs show.

## Not modelled, and the plan

Not modelled:

* cryptography: library primitives. A digest is injective, and a signature is the thing signed with its key;
* the width of money: `AmountMicros` is a `u128`, amounts here are natural numbers. By `MoneyWithinSupply` only
  `GenesisFund`, which adds to the supply without a check, can get past it;
* the WASM execution itself, which is a library's; `ContractStore` is not used by the ledger;
* QUIC I/O: no engine is connected to it, shards and validators talk over in-process channels;
* CBOR encoding, key generation, temporary directories, and the simulators, which call the other
  crates in a straight line;
* an `append` to the log that fails while the process lives on; a validator that lies.

Left to prove: `AnchorOrdersAllOnce`, by the technique used for the tree; how far accepted spend can
exceed the allowance when calls overlap or a capability is activated again (one allowance per activation); that
a second float leaves the older capabilities within what they were issued from.
