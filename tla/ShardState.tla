---------------------------- MODULE ShardState ----------------------------
(***************************************************************************)
(* The durable state of one shard validator and its write-ahead log        *)
(* (crates/shard/src/state.rs and wal.rs), as operators on values.  The    *)
(* engine (module ShardEngine) keeps one such state and one such log per   *)
(* validator.                                                              *)
(*                                                                         *)
(* A log file is abstracted to what Wal::replay makes of it: the state the *)
(* fold over its records reaches, and whether the fold gets there.         *)
(***************************************************************************)
EXTENDS Naturals

CONSTANTS
    CapabilityId,   \* identifiers of the issued capabilities
    Epoch,          \* fencing generations
    Cap             \* CapabilityId -> the SpendCapability its issuer signed

(* What an issued capability fixes.  service_scope is the set of services  *)
(* its patterns match; signed says whether the issuer's signature over the *)
(* body verifies.                                                          *)
SpendCapability ==
    [shard_id : STRING, agent_id : STRING, epoch : Epoch, currency : STRING,
     maximum_total : Nat, maximum_per_call : Nat, service_scope : SUBSET STRING,
     sequence_start : Nat, sequence_end : Nat,
     valid_from : Nat, valid_until : Nat, signed : BOOLEAN]

ASSUME CapAssumption == Cap \in [CapabilityId -> SpendCapability]

(* The part of a PAY that is agreed on: PayCommitBody.  digest() is BLAKE3 *)
(* over it, taken to be injective, so a body stands for its own digest.    *)
PayCommitBody ==
    [capability_id : CapabilityId, epoch : Epoch, sequence : Nat,
     amount : Nat, request_hash : STRING, agent_id : STRING,
     service_id : STRING]

(* The triple that is spent at most once, and the transaction's identity.  *)
Key(b) == <<b.capability_id, b.epoch, b.sequence>>
Keys == CapabilityId \X Epoch \X Nat
tx_id(b) == <<b.capability_id, b.epoch, b.sequence, b.request_hash>>

-----------------------------------------------------------------------------
(* struct ShardState.  `active' is the domain of the capability map; the   *)
(* other fields of ActiveCapability are copies of what Cap fixes.  An      *)
(* epoch absent from the map reads as Expired.                             *)
EpochStates == {"Active", "Fenced", "Expired"}

ShardStates ==
    [active : SUBSET CapabilityId,
     remaining : [CapabilityId -> Nat],
     consumed : SUBSET Keys,
     epoch_states : [Epoch -> EpochStates],
     commit_index : Nat]

EmptyState ==
    [active |-> {},
     remaining |-> [c \in CapabilityId |-> 0],
     consumed |-> {},
     epoch_states |-> [e \in Epoch |-> "Expired"],
     commit_index |-> 0]

(* Faulty variant: activation re-opens an epoch that was fenced.           *)
activate_reopens(st, c) ==
    [st EXCEPT !.active = @ \cup {c}, !.remaining[c] = Cap[c].maximum_total,
               !.epoch_states[Cap[c].epoch] = "Active"]

(* Inserts the capability with its full allowance, whatever was left of it *)
(* before; opens its epoch only if nothing is recorded for the epoch.      *)
activate_capability(st, c) ==
    [st EXCEPT
        !.active = @ \cup {c},
        !.remaining[c] = Cap[c].maximum_total,
        !.epoch_states[Cap[c].epoch] = IF @ = "Expired" THEN "Active" ELSE @]

fence_epoch(st, e) == [st EXCEPT !.epoch_states[e] = "Fenced"]

is_consumed(st, b) == Key(b) \in st.consumed

(* Faulty variant: the fence is only looked at when the PAY is validated.  *)
CanConsume_AfterFence(st, b) ==
    ~is_consumed(st, b) /\ b.capability_id \in st.active
        /\ b.amount <= st.remaining[b.capability_id]

(* The checks of ShardState::consume_pay, in its order.                    *)
CanConsume(st, b) ==
    LET c == b.capability_id IN
    /\ st.epoch_states[b.epoch] = "Active"
    /\ ~is_consumed(st, b)
    /\ c \in st.active
    /\ b.epoch = Cap[c].epoch
    /\ b.sequence >= Cap[c].sequence_start
    /\ b.sequence <= Cap[c].sequence_end
    /\ b.amount <= st.remaining[c]

(* Faulty variants of consume_pay: the amount is debited twice, or one of  *)
(* the three updates is missing.                                           *)
consume_twice(st, b) ==
    [st EXCEPT !.remaining[b.capability_id] = @ - b.amount - b.amount,
               !.consumed = @ \cup {Key(b)}, !.commit_index = @ + 1]
consume_without_mark(st, b) ==
    [st EXCEPT !.remaining[b.capability_id] = @ - b.amount, !.commit_index = @ + 1]
consume_without_debit(st, b) ==
    [st EXCEPT !.consumed = @ \cup {Key(b)}, !.commit_index = @ + 1]
consume_without_index(st, b) ==
    [st EXCEPT !.remaining[b.capability_id] = @ - b.amount, !.consumed = @ \cup {Key(b)}]

consume_pay(st, b) ==
    [st EXCEPT
        !.remaining[b.capability_id] = @ - b.amount,
        !.consumed = @ \cup {Key(b)},
        !.commit_index = @ + 1]

-----------------------------------------------------------------------------
(* enum WalRecord, and apply_record with the condition under which it      *)
(* succeeds: only ConsumePay can fail.                                     *)
Activated(c) == [type |-> "ActivateCapability", capability_id |-> c]
Consumed(b)  == [type |-> "ConsumePay", body |-> b]
Fenced(e)    == [type |-> "FenceEpoch", epoch |-> e]

Applies(st, r) == r.type = "ConsumePay" => CanConsume(st, r.body)

apply_record(st, r) ==
    CASE r.type = "ActivateCapability" -> activate_capability(st, r.capability_id)
      [] r.type = "ConsumePay" -> consume_pay(st, r.body)
      [] r.type = "FenceEpoch" -> fence_epoch(st, r.epoch)

(* A log file.  "whole": every record replays and the file ends with one.  *)
(* "torn_len": it ends inside a length prefix, where replay stops and      *)
(* succeeds.  "broken": replay returns an error, from a record that does   *)
(* not apply or a body that is cut short.  st is what replay reaches.      *)
WalFiles == [st : ShardStates, file : {"whole", "torn_len", "broken"}]
EmptyWal == [st |-> EmptyState, file |-> "whole"]
Replays(w) == w.file # "broken"

(* Wal::append.  The file is opened in append mode, so a record written    *)
(* after a torn length prefix is framed by garbage.                        *)
append(w, r) ==
    IF w.file = "whole" /\ Applies(w.st, r)
    THEN [w EXCEPT !.st = apply_record(w.st, r)]
    ELSE [w EXCEPT !.file = "broken"]

(* A crash inside append: the file now ends inside a length prefix         *)
(* ("torn_len") or inside a body ("broken").                               *)
TornAppend(w, tail) == IF Replays(w) THEN [w EXCEPT !.file = tail] ELSE w
=============================================================================
