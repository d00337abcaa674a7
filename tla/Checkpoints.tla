---------------------------- MODULE Checkpoints ----------------------------
(***************************************************************************)
(* From served payments to witnessed checkpoints: payment proofs and the   *)
(* receipt log (crates/shard/src/payment.rs, receipt_log.rs), the sealer   *)
(* (checkpoint.rs) and the witnesses (crates/witness).                     *)
(*                                                                         *)
(* A signature is the thing signed, with its signer: nobody else makes     *)
(* one.  But whose signature is asked for is another matter: a checkpoint  *)
(* names the key that is to verify it, and no code compares that key with  *)
(* the shard's.  The log and the sealer are plain memory, and a restart of *)
(* the process that owns them starts with new ones.                        *)
(***************************************************************************)
EXTENDS Merkle, SequencesExt, FiniteSetsExt

CONSTANTS
    Pay, max_amount,        \* payments with an EdgeAccept; Pay.max_amount
    Amount,                 \* amounts services ask for
    max_txs, max_exposure,  \* CheckpointSealer::new
    Shard, Epoch,           \* the shard, and the epochs it seals under
    Witness,
    witnesses_required,
    ShardKey,               \* the key the shard's sealer signs with
    OtherKey, OtherHeader,  \* other keys, and what is signed with them
    MaxServed, MaxRestarts, \* bounds: receipts, restarts
    MaxSigs                 \* bound: witness signatures that come with a checkpoint

ASSUME CheckpointAssumption ==
    /\ max_amount \in [Pay -> Nat] /\ Amount \subseteq Nat
    /\ max_txs \in Nat /\ max_exposure \in Nat /\ Epoch \subseteq Nat
    /\ IsFiniteSet(Witness) /\ witnesses_required \in Nat
    /\ ShardKey \notin OtherKey
    /\ \A h \in OtherHeader :
          /\ h.shard_id = Shard /\ h.epoch \in Epoch /\ h.height \in 1..MaxServed
          /\ h.exposure \in Nat
    /\ MaxServed \in Nat /\ MaxRestarts \in Nat /\ MaxSigs \in Nat

VARIABLES
    log,            \* ReceiptLog.proofs; `id' is history, it tells repeated receipts apart
    exposure,       \* ReceiptLog.exposure
    next_height,    \* CheckpointSealer.next_height
    by_key,         \* WitnessSet.by_key: key -> root, as a function on the known keys
    sealed,         \* history: headers that were signed, with their batches
    served,         \* history: receipts ever appended
    restarts        \* history

shardVars == <<log, exposure, next_height, sealed, served, restarts>>
cpVars == <<shardVars, by_key>>

Total(entries) == MapThenSumSet(LAMBDA r : r.actual_amount, entries)

(* receipt_leaf_hash: a receipt that is completed twice gives equal leaves. *)
leaf(r) == [pay |-> r.pay, actual_amount |-> r.actual_amount]
leaves(entries) == [i \in DOMAIN entries |-> leaf(entries[i])]

-----------------------------------------------------------------------------
CPInit ==
    /\ log = <<>> /\ exposure = 0 /\ next_height = 1
    /\ by_key = <<>>
    /\ sealed = {} /\ served = {} /\ restarts = 0

(* ReceiptLog::append.                                                     *)
append(r) == log' = Append(log, r) /\ exposure' = exposure + r.actual_amount

(* A service executes an accepted payment and asks for n of at most        *)
(* max_amount; more is refused.  Nothing asks whether the payment was      *)
(* completed before.                                                       *)
complete_payment_proof(p, n) ==
    LET r == [id |-> Cardinality(served), pay |-> p, actual_amount |-> n] IN
    /\ n <= max_amount[p]
    /\ Cardinality(served) < MaxServed
    /\ append(r)
    /\ served' = served \cup {r}
    /\ UNCHANGED <<next_height, sealed, restarts, by_key>>

should_seal ==
    /\ log # <<>>
    /\ Len(log) >= max_txs \/ exposure >= max_exposure

(* The clock moves on from one process to the next.                        *)
Header(epoch) ==
    [shard_id |-> Shard, epoch |-> epoch, root |-> merkle_root(leaves(log)),
     height |-> next_height, tx_count |-> Len(log), exposure |-> exposure,
     sealed_at |-> restarts]

(* Two faulty variants: only the receipts, or only their sum, is reset.    *)
clear_sealed_receipts == log' = <<>> /\ UNCHANGED exposure
clear_sealed_sum == exposure' = 0 /\ UNCHANGED log

clear_sealed == log' = <<>> /\ exposure' = 0

(* A faulty variant: an empty log is sealed too.                           *)
force_seal_empty(epoch) ==
    /\ sealed' = sealed \cup {[header |-> Header(epoch), batch |-> log]}
    /\ next_height' = next_height + 1
    /\ clear_sealed
    /\ UNCHANGED <<served, restarts, by_key>>

force_seal(epoch) ==
    /\ log # <<>>
    /\ sealed' = sealed \cup {[header |-> Header(epoch), batch |-> log]}
    /\ next_height' = next_height + 1
    /\ clear_sealed
    /\ UNCHANGED <<served, restarts, by_key>>

maybe_seal(epoch) == should_seal /\ force_seal(epoch)

(* A new process.                                                          *)
Restart ==
    /\ restarts < MaxRestarts
    /\ restarts' = restarts + 1
    /\ log' = <<>> /\ exposure' = 0 /\ next_height' = 1
    /\ UNCHANGED <<sealed, served, by_key>>

-----------------------------------------------------------------------------
(* sign_checkpoint.                                                        *)
Signature(key, header) == [key |-> key, header |-> header]

(* SignedCheckpoint: a header, a key and a signature, fitting or not.      *)
Signed(header, key, signature) ==
    [header |-> header, shard_signer_pubkey |-> key, shard_signature |-> signature]

verify_signed_checkpoint(cp) ==
    cp.shard_signature = Signature(cp.shard_signer_pubkey, cp.header)

(* A faulty variant: only the position of the checkpoint is signed.        *)
witness_body_position(cp) ==
    [shard_id |-> cp.header.shard_id, epoch |-> cp.header.epoch, height |-> cp.header.height]

witness_body(cp) ==
    [shard_id |-> cp.header.shard_id, epoch |-> cp.header.epoch, root |-> cp.header.root,
     height |-> cp.header.height, shard_signature |-> cp.shard_signature]

(* A witness keeps no state: it signs whatever verifies, whoever signed    *)
(* it.  `saw' is history.                                                  *)
countersign(w, cp) == [witness |-> w, signature |-> witness_body(cp), saw |-> cp.header]

verify_witness_sig(cp, sig) == sig.signature = witness_body(cp)

(* A witness is any key that signs; a repeated key or a bad signature      *)
(* spoils the whole list.                                                  *)
verify_witnessed(cp, sigs) ==
    /\ verify_signed_checkpoint(cp)
    /\ \A i, j \in DOMAIN sigs : i # j => sigs[i].witness # sigs[j].witness
    /\ \A i \in DOMAIN sigs : verify_witness_sig(cp, sigs[i])
    /\ Len(sigs) >= witnesses_required

Key(h) == <<h.shard_id, h.epoch, h.height>>

(* What was signed, by the shard and by others.                            *)
Headers == {c.header : c \in sealed}
Signatures ==
    {Signature(ShardKey, h) : h \in Headers}
        \cup {Signature(k, h) : k \in OtherKey, h \in OtherHeader}
Alike(key) == {s \in Signatures : Key(s.header) = key}

(* What may be presented: a header and a key with the signature made for   *)
(* them, or with one made for another header of that height; and, where    *)
(* it fits, signatures of witnesses, each for any checkpoint of that       *)
(* height that verifies (where it does not, verify_witnessed never looks   *)
(* at them).                                                               *)
Presented ==
    UNION {{Signed(s.header, s.key, t) : t \in Alike(Key(s.header))} : s \in Signatures}
SigLists(cp) ==
    SeqOf({countersign(w, Signed(s.header, s.key, s)) :
              w \in Witness, s \in {t \in Alike(Key(cp.header)) : verify_signed_checkpoint(cp)}},
          MaxSigs)

(* A faulty variant: a later root replaces the one that was accepted.      *)
accept_latest(cp, sigs) ==
    /\ verify_witnessed(cp, sigs)
    /\ by_key' = [k \in DOMAIN by_key \cup {Key(cp.header)} |->
                     IF k = Key(cp.header) THEN cp.header.root ELSE by_key[k]]
    /\ UNCHANGED shardVars

(* WitnessSet::accept.  What it refuses, and what it has already, changes  *)
(* nothing.                                                                *)
accept(cp, sigs) ==
    /\ verify_witnessed(cp, sigs)
    /\ Key(cp.header) \notin DOMAIN by_key
    /\ by_key' = [k \in DOMAIN by_key \cup {Key(cp.header)} |->
                     IF k = Key(cp.header) THEN cp.header.root ELSE by_key[k]]
    /\ UNCHANGED shardVars

ShardNext ==
    \/ \E p \in Pay, n \in Amount : complete_payment_proof(p, n)
    \/ \E e \in Epoch : force_seal(e) \/ maybe_seal(e)
    \/ Restart
=============================================================================
