---------------------------- MODULE ShardEngine ----------------------------
(***************************************************************************)
(* The local economic shard (crates/shard/src/engine.rs): a leader that    *)
(* runs handle_pay and fence_epoch, and followers whose pumps handle what  *)
(* it broadcasts.  Each engine has its own mutex; an action is one section *)
(* of code that holds it, cut in two where a broadcast leaves before the   *)
(* log is written.  Validators crash but do not lie.                       *)
(*                                                                         *)
(* Only the leader's API is called, as in testkit.rs, so of the broadcasts *)
(* an engine ignores (a follower drops every Vote and acknowledgement, the *)
(* leader receives no proposal) nothing is kept.  A follower's inbox is a  *)
(* FIFO queue.  The leader's loops take everything out of the inbox at     *)
(* once and only ask who voted or acknowledged, so its inbox is a set.     *)
(***************************************************************************)
EXTENDS ShardState, FiniteSets, Sequences, FiniteSetsExt

CONSTANTS
    Validator, Leader,  \* the committee and the engine clients talk to
    ShardId,            \* the shard this committee serves
    Call, Request,      \* handle_pay calls, and the PAY and clock of each
    FenceCall, Fences,  \* fence_epoch calls, and the epoch of each
    TornTails,          \* how a crash may leave a log: within {"torn_len", "broken"}
    MaxInFlight,        \* bound: calls the leader serves at the same time
    MaxActivations,     \* bound: activations of a capability per validator and boot
    MaxKills,           \* bound: validators that are dead at the same time
    MaxReboots          \* bound: reboots of the whole shard

(* struct Pay.  verified says whether the agent's signature verifies.      *)
Pay ==
    [capability_id : CapabilityId, epoch : Epoch, sequence : Nat,
     agent_id : STRING, service_id : STRING, amount : Nat, currency : STRING,
     request_hash : STRING, max_amount : Nat, expiry : Nat, verified : BOOLEAN]

ASSUME EngineAssumption ==
    /\ Leader \in Validator
    /\ IsFiniteSet(Validator) /\ IsFiniteSet(Call) /\ IsFiniteSet(FenceCall)
    /\ Request \in [Call -> [pay : Pay, now : Nat]]
    /\ Fences \in [FenceCall -> Epoch]
    /\ TornTails \subseteq {"torn_len", "broken"}
    /\ MaxInFlight \in Nat

VARIABLES
    state,          \* Inner.state: ShardState of each validator
    wal,            \* Inner.wal: its log file
    capabilities,   \* Inner.capabilities: signed capabilities in memory
    up,             \* open_engine succeeded for it
    alive,          \* Inner.alive
    inbox,          \* unread broadcasts of the leader, per follower
    replies,        \* unread votes and acknowledgements in the leader's inbox
    pc, votes, acks, index,     \* handle_pay calls: progress and locals
    fpc, facks,                 \* fence_epoch calls: progress and locals
    activations, reboots        \* counters for the bounds

storeVars == <<state, wal>>
nodeVars  == <<capabilities, up, alive>>
netVars   == <<inbox, replies>>
payVars   == <<pc, votes, acks, index>>
fenceVars == <<fpc, facks>>
boundVars == <<activations, reboots>>
vars == <<storeVars, nodeVars, netVars, payVars, fenceVars, boundVars>>

Follower == Validator \ {Leader}

(* Faulty variant: every validator must answer.                            *)
quorum_of_all(n) == n

quorum_threshold(n) == IF n = 4 THEN 3 ELSE (2 * n) \div 3 + 1
Need == quorum_threshold(Cardinality(Validator))

from_pay(p) ==
    [capability_id |-> p.capability_id, epoch |-> p.epoch,
     sequence |-> p.sequence, amount |-> p.amount,
     request_hash |-> p.request_hash, agent_id |-> p.agent_id,
     service_id |-> p.service_id]

Body(c) == from_pay(Request[c].pay)

Propose(c)   == [type |-> "Propose", request |-> Request[c]]
Commit(b, q) == [type |-> "Commit", body |-> b, votes |-> q]
FenceCommit(e) == [type |-> "FenceCommit", epoch |-> e]
Vote(b, v)       == [type |-> "Vote", digest |-> b, from |-> v]
DurableAck(b, v) == [type |-> "DurableAck", digest |-> b, from |-> v]
FenceDurableAck(e, v) == [type |-> "FenceDurableAck", epoch |-> e, from |-> v]

Running     == {"voting", "committing", "persisting", "acking", "replying"}
PayActive   == {c \in Call : pc[c] \in Running}
FenceActive == {k \in FenceCall : fpc[k] \in {"fencing", "acking"}}
MayStart == Cardinality(PayActive) + Cardinality(FenceActive) < MaxInFlight

(* The leader's mutex is held from the broadcast of a certificate to the   *)
(* end of its own commit.                                                  *)
Unlocked == \A c \in Call : pc[c] # "persisting"

-----------------------------------------------------------------------------
Init ==
    /\ state = [v \in Validator |-> EmptyState]
    /\ wal = [v \in Validator |-> EmptyWal]
    /\ capabilities = [v \in Validator |-> {}]
    /\ up = [v \in Validator |-> TRUE]
    /\ alive = [v \in Validator |-> TRUE]
    /\ inbox = [f \in Follower |-> <<>>]
    /\ replies = {}
    /\ pc = [c \in Call |-> "idle"]
    /\ votes = [c \in Call |-> {}]
    /\ acks = [c \in Call |-> {}]
    /\ index = [c \in Call |-> 0]
    /\ fpc = [k \in FenceCall |-> "idle"]
    /\ facks = [k \in FenceCall |-> {}]
    /\ activations = [v \in Validator |-> [c \in CapabilityId |-> 0]]
    /\ reboots = 0

(* broadcast: the receivers are the other engines.                         *)
Broadcast(m) == inbox' = [f \in Follower |-> Append(inbox[f], m)]

(* Faulty variant: the record is applied without being persisted.          *)
Record_MemoryOnly(v, r) ==
    state' = [state EXCEPT ![v] = apply_record(@, r)] /\ UNCHANGED wal

(* Persist a record, then apply it (activation, fence).                    *)
Record(v, r) ==
    /\ wal' = [wal EXCEPT ![v] = append(@, r)]
    /\ state' = [state EXCEPT ![v] = apply_record(@, r)]

(* durable_commit: the record is on disk before consume_pay is tried.      *)
durable_commit(v, b) ==
    /\ wal' = [wal EXCEPT ![v] = append(@, Consumed(b))]
    /\ state' = [state EXCEPT ![v] = IF CanConsume(@, b) THEN consume_pay(@, b) ELSE @]

(* validate_pay: everything a validator checks before it votes.            *)
validate_pay(v, r) ==
    LET p == r.pay
        cap == Cap[p.capability_id]
    IN  /\ p.capability_id \in capabilities[v]
        /\ cap.shard_id = ShardId
        /\ cap.signed
        /\ p.agent_id = cap.agent_id
        /\ p.verified
        /\ state[v].epoch_states[p.epoch] = "Active"
        /\ r.now >= cap.valid_from
        /\ r.now <= cap.valid_until
        /\ r.now <= p.expiry
        /\ p.currency = cap.currency
        /\ p.amount <= cap.maximum_per_call
        /\ p.amount <= p.max_amount
        /\ p.service_id \in cap.service_scope
        /\ ~is_consumed(state[v], p)
        /\ p.capability_id \in state[v].active
        /\ p.amount <= state[v].remaining[p.capability_id]

-----------------------------------------------------------------------------
(* activate_capability on one validator.                                   *)
ActivateCapability(v, c) ==
    /\ up[v] /\ alive[v]
    /\ v = Leader => Unlocked
    /\ Cap[c].signed
    /\ activations[v][c] < MaxActivations
    /\ activations' = [activations EXCEPT ![v][c] = @ + 1]
    /\ Record(v, Activated(c))
    /\ capabilities' = [capabilities EXCEPT ![v] = @ \cup {c}]
    /\ UNCHANGED <<up, alive, netVars, payVars, fenceVars, reboots>>

(* handle_pay, first section: validate and propose.  The leader's own vote *)
(* is the first in the tally.                                              *)
StartPay(c) ==
    /\ pc[c] = "idle" /\ up[Leader] /\ MayStart /\ Unlocked
    /\ alive[Leader]
    /\ validate_pay(Leader, Request[c])
    /\ Broadcast(Propose(c))
    /\ votes' = [votes EXCEPT ![c] = {Leader}]
    /\ pc' = [pc EXCEPT ![c] = IF Need <= 1 THEN "committing" ELSE "voting"]
    /\ UNCHANGED <<storeVars, nodeVars, replies, acks, index, fenceVars, boundVars>>

RejectPay(c) ==
    /\ pc[c] = "idle" /\ up[Leader] /\ MayStart /\ Unlocked
    /\ ~(alive[Leader] /\ validate_pay(Leader, Request[c]))
    /\ pc' = [pc EXCEPT ![c] = "rejected"]
    /\ UNCHANGED <<storeVars, nodeVars, netVars, votes, acks, index, fenceVars, boundVars>>

(* One turn of a loop of the leader empties the inbox: it keeps what       *)
(* answers its own call and loses what answers another.                    *)
Senders(m(_)) == {v \in Validator : m(v) \in replies}

DrainVotes(c) ==
    /\ pc[c] = "voting" /\ replies # {} /\ Unlocked
    /\ LET got == votes[c] \cup Senders(LAMBDA v : Vote(Body(c), v))
       IN  /\ votes' = [votes EXCEPT ![c] = got]
           /\ pc' = [pc EXCEPT ![c] = IF Cardinality(got) >= Need THEN "committing" ELSE @]
    /\ replies' = {}
    /\ UNCHANGED <<storeVars, nodeVars, inbox, acks, index, fenceVars, boundVars>>

(* The deadline of either loop passes: BftQuorumFailed.                    *)
TimeoutPay(c) ==
    /\ pc[c] \in {"voting", "acking"}
    /\ pc' = [pc EXCEPT ![c] = "failed"]
    /\ UNCHANGED <<storeVars, nodeVars, netVars, votes, acks, index, fenceVars, boundVars>>

(* handle_pay, commit section: send the certificate to the followers, who  *)
(* may act on it at once.                                                  *)
SendCommit(c) ==
    /\ pc[c] = "committing" /\ Unlocked
    /\ Broadcast(Commit(Body(c), votes[c]))
    /\ pc' = [pc EXCEPT ![c] = "persisting"]
    /\ UNCHANGED <<storeVars, nodeVars, replies, votes, acks, index, fenceVars, boundVars>>

(* ... then commit locally unless the sequence is already consumed, and    *)
(* acknowledge.  When the local commit fails the call ends here.           *)
CommitPay(c) ==
    LET b == Body(c)
        done == is_consumed(state[Leader], b)
    IN  /\ pc[c] = "persisting"
        /\ IF done THEN UNCHANGED storeVars ELSE durable_commit(Leader, b)
        /\ IF done \/ CanConsume(state[Leader], b)
           THEN /\ acks' = [acks EXCEPT ![c] = {Leader}]
                /\ pc' = [pc EXCEPT ![c] = IF Need <= 1 THEN "replying" ELSE "acking"]
           ELSE /\ pc' = [pc EXCEPT ![c] = "failed"]
                /\ UNCHANGED acks
        /\ UNCHANGED <<nodeVars, netVars, votes, index, fenceVars, boundVars>>

(* Faulty variant: one acknowledgement short of the quorum.                *)
DrainAcks_Short(c) ==
    /\ pc[c] = "acking" /\ replies # {} /\ Unlocked
    /\ LET got == acks[c] \cup Senders(LAMBDA v : DurableAck(Body(c), v))
       IN  /\ acks' = [acks EXCEPT ![c] = got]
           /\ pc' = [pc EXCEPT ![c] = IF Cardinality(got) >= Need - 1 THEN "replying" ELSE @]
    /\ replies' = {}
    /\ UNCHANGED <<storeVars, nodeVars, inbox, votes, index, fenceVars, boundVars>>

DrainAcks(c) ==
    /\ pc[c] = "acking" /\ replies # {} /\ Unlocked
    /\ LET got == acks[c] \cup Senders(LAMBDA v : DurableAck(Body(c), v))
       IN  /\ acks' = [acks EXCEPT ![c] = got]
           /\ pc' = [pc EXCEPT ![c] = IF Cardinality(got) >= Need THEN "replying" ELSE @]
    /\ replies' = {}
    /\ UNCHANGED <<storeVars, nodeVars, inbox, votes, index, fenceVars, boundVars>>

(* handle_pay, last section: the EdgeAccept carries the commit index the   *)
(* leader has now.                                                         *)
ReplyPay(c) ==
    /\ pc[c] = "replying" /\ Unlocked
    /\ index' = [index EXCEPT ![c] = state[Leader].commit_index]
    /\ pc' = [pc EXCEPT ![c] = "accepted"]
    /\ UNCHANGED <<storeVars, nodeVars, netVars, votes, acks, fenceVars, boundVars>>

-----------------------------------------------------------------------------
(* fence_epoch: broadcast, fence locally, collect acknowledgements.        *)
StartFence(k) ==
    /\ fpc[k] = "idle" /\ up[Leader] /\ MayStart /\ Unlocked
    /\ alive[Leader]
    /\ Broadcast(FenceCommit(Fences[k]))
    /\ fpc' = [fpc EXCEPT ![k] = "fencing"]
    /\ UNCHANGED <<storeVars, nodeVars, replies, payVars, facks, boundVars>>

RejectFence(k) ==
    /\ fpc[k] = "idle" /\ up[Leader] /\ MayStart /\ Unlocked
    /\ ~alive[Leader]
    /\ fpc' = [fpc EXCEPT ![k] = "rejected"]
    /\ UNCHANGED <<storeVars, nodeVars, netVars, payVars, facks, boundVars>>

RecordFence(v, e) ==
    IF state[v].epoch_states[e] = "Fenced" THEN UNCHANGED storeVars
                                           ELSE Record(v, Fenced(e))

LocalFence(k) ==
    /\ fpc[k] = "fencing" /\ Unlocked
    /\ RecordFence(Leader, Fences[k])
    /\ facks' = [facks EXCEPT ![k] = {Leader}]
    /\ fpc' = [fpc EXCEPT ![k] = IF Need <= 1 THEN "fenced" ELSE "acking"]
    /\ UNCHANGED <<nodeVars, netVars, payVars, boundVars>>

(* Faulty variant: one acknowledgement short of the quorum.                *)
DrainFenceAcks_Short(k) ==
    /\ fpc[k] = "acking" /\ replies # {} /\ Unlocked
    /\ LET got == facks[k] \cup Senders(LAMBDA v : FenceDurableAck(Fences[k], v))
       IN  /\ facks' = [facks EXCEPT ![k] = got]
           /\ fpc' = [fpc EXCEPT ![k] = IF Cardinality(got) >= Need - 1 THEN "fenced" ELSE @]
    /\ replies' = {}
    /\ UNCHANGED <<storeVars, nodeVars, inbox, payVars, boundVars>>

DrainFenceAcks(k) ==
    /\ fpc[k] = "acking" /\ replies # {} /\ Unlocked
    /\ LET got == facks[k] \cup Senders(LAMBDA v : FenceDurableAck(Fences[k], v))
       IN  /\ facks' = [facks EXCEPT ![k] = got]
           /\ fpc' = [fpc EXCEPT ![k] = IF Cardinality(got) >= Need THEN "fenced" ELSE @]
    /\ replies' = {}
    /\ UNCHANGED <<storeVars, nodeVars, inbox, payVars, boundVars>>

TimeoutFence(k) ==
    /\ fpc[k] = "acking"
    /\ fpc' = [fpc EXCEPT ![k] = "failed"]
    /\ UNCHANGED <<storeVars, nodeVars, netVars, payVars, facks, boundVars>>

-----------------------------------------------------------------------------
(* A follower's pump handles the oldest message (handle_message).          *)
Receive(f, type) ==
    /\ up[f] /\ alive[f]
    /\ inbox[f] # <<>> /\ Head(inbox[f]).type = type
    /\ inbox' = [inbox EXCEPT ![f] = Tail(@)]
    /\ UNCHANGED <<nodeVars, payVars, fenceVars, boundVars>>

OnPropose(f) ==
    /\ Receive(f, "Propose")
    /\ LET r == Head(inbox[f]).request IN
       replies' = IF validate_pay(f, r) THEN replies \cup {Vote(from_pay(r.pay), f)} ELSE replies
    /\ UNCHANGED storeVars

OnCommit(f) ==
    /\ Receive(f, "Commit")
    /\ LET m == Head(inbox[f])
           done == is_consumed(state[f], m.body)
       IN  IF Cardinality(m.votes) >= Need
           THEN /\ IF done THEN UNCHANGED storeVars ELSE durable_commit(f, m.body)
                /\ replies' = IF done \/ CanConsume(state[f], m.body)
                              THEN replies \cup {DurableAck(m.body, f)} ELSE replies
           ELSE UNCHANGED <<storeVars, replies>>

OnFenceCommit(f) ==
    /\ Receive(f, "FenceCommit")
    /\ LET e == Head(inbox[f]).epoch
       IN  /\ RecordFence(f, e)
           /\ replies' = replies \cup {FenceDurableAck(e, f)}

-----------------------------------------------------------------------------
(* kill: the engine stops answering but its running calls go on.           *)
Kill(v) ==
    /\ alive[v]
    /\ v = Leader => Unlocked
    /\ Cardinality({w \in Validator : ~alive[w]}) < MaxKills
    /\ alive' = [alive EXCEPT ![v] = FALSE]
    /\ UNCHANGED <<storeVars, capabilities, up, netVars, payVars, fenceVars, boundVars>>

(* The whole shard stops, possibly inside one append, and every engine is  *)
(* opened again on its log (open_engine).  Channels, running calls and the *)
(* signed capabilities are gone.  An engine whose log does not replay      *)
(* stays down.                                                             *)
Reboot(disk) ==
    /\ reboots < MaxReboots
    /\ reboots' = reboots + 1
    /\ wal' = disk
    /\ up' = [v \in Validator |-> Replays(disk[v])]
    /\ alive' = [v \in Validator |-> Replays(disk[v])]
    /\ state' = [v \in Validator |-> IF Replays(disk[v]) THEN disk[v].st ELSE EmptyState]
    /\ capabilities' = [v \in Validator |-> {}]
    /\ inbox' = [f \in Follower |-> <<>>]
    /\ replies' = {}
    /\ pc' = [c \in Call |-> IF c \in PayActive THEN "failed" ELSE pc[c]]
    /\ fpc' = [k \in FenceCall |-> IF k \in FenceActive THEN "failed" ELSE fpc[k]]
    /\ activations' = [v \in Validator |-> [c \in CapabilityId |-> 0]]
    /\ UNCHANGED <<votes, acks, index, facks>>

RebootClean == Reboot(wal)

RebootTorn(v, tail) ==
    /\ up[v]
    /\ Reboot([wal EXCEPT ![v] = TornAppend(@, tail)])

-----------------------------------------------------------------------------
PumpNext(f) == OnPropose(f) \/ OnCommit(f) \/ OnFenceCommit(f)

PayNext(c) ==
    \/ StartPay(c) \/ RejectPay(c) \/ DrainVotes(c) \/ SendCommit(c)
    \/ CommitPay(c) \/ DrainAcks(c) \/ ReplyPay(c)

FenceNext(k) ==
    \/ StartFence(k) \/ RejectFence(k) \/ LocalFence(k) \/ DrainFenceAcks(k)

FaultNext ==
    \/ \E v \in Validator : Kill(v)
    \/ RebootClean
    \/ \E v \in Validator, tail \in TornTails : RebootTorn(v, tail)

(* The runs in which no deadline of two seconds passes ...                 *)
PromptNext ==
    \/ \E v \in Validator, c \in CapabilityId : ActivateCapability(v, c)
    \/ \E c \in Call : PayNext(c)
    \/ \E k \in FenceCall : FenceNext(k)
    \/ \E f \in Follower : PumpNext(f)
    \/ FaultNext

(* ... and all of them.                                                    *)
Next ==
    \/ PromptNext
    \/ \E c \in Call : TimeoutPay(c)
    \/ \E k \in FenceCall : TimeoutFence(k)

Spec == Init /\ [][Next]_vars

(* Fairness: the pumps of testkit.rs and the loops of the leader wake up   *)
(* at least every 5 ms, whether or not a notification was lost.            *)
PromptSpec ==
    /\ Init /\ [][PromptNext]_vars
    /\ \A f \in Follower : WF_vars(PumpNext(f))
    /\ \A c \in Call : WF_vars(PayNext(c))
    /\ \A k \in FenceCall : WF_vars(FenceNext(k))

-----------------------------------------------------------------------------
Message ==
    [type : {"Propose"}, request : [pay : Pay, now : Nat]]
        \cup [type : {"Commit"}, body : PayCommitBody, votes : SUBSET Validator]
        \cup [type : {"FenceCommit"}, epoch : Epoch]

Reply ==
    [type : {"Vote", "DurableAck"}, digest : PayCommitBody, from : Validator]
        \cup [type : {"FenceDurableAck"}, epoch : Epoch, from : Validator]

(* Type invariant of the engines, their channels and the running calls.    *)
TypeOK ==
    /\ state \in [Validator -> ShardStates]
    /\ wal \in [Validator -> WalFiles]
    /\ capabilities \in [Validator -> SUBSET CapabilityId]
    /\ up \in [Validator -> BOOLEAN]
    /\ alive \in [Validator -> BOOLEAN]
    /\ inbox \in [Follower -> Seq(Message)]
    /\ replies \in SUBSET Reply
    /\ pc \in [Call -> Running \cup {"idle", "accepted", "rejected", "failed"}]
    /\ votes \in [Call -> SUBSET Validator]
    /\ acks \in [Call -> SUBSET Validator]
    /\ index \in [Call -> Nat]
    /\ fpc \in [FenceCall -> {"idle", "fencing", "acking", "fenced", "rejected", "failed"}]
    /\ facks \in [FenceCall -> SUBSET Validator]
    /\ activations \in [Validator -> [CapabilityId -> Nat]]
    /\ reboots \in Nat

Accepted == {c \in Call : pc[c] = "accepted"}

(* What a running validator holds in memory is what its log replays to     *)
(* (open_engine after append), and a validator is down only when its log   *)
(* does not replay.                                                        *)
WalMatchesMemory ==
    \A v \in Validator :
        /\ up[v] /\ Replays(wal[v]) => wal[v].st = state[v]
        /\ ~up[v] => ~Replays(wal[v])

(* Commit before execution: handle_pay returns an EdgeAccept only after a  *)
(* quorum made the sequence durable.  A crash, a restart from the logs or  *)
(* a second activation never takes it back: each validator of that quorum  *)
(* either still holds the sequence consumed or cannot start.               *)
CommitBeforeAccept ==
    \A c \in Accepted :
        \E Q \in SUBSET Validator :
            /\ Cardinality(Q) >= Need
            /\ \A v \in Q : up[v] => is_consumed(state[v], Body(c))

(* No two handle_pay calls are accepted for one (capability, epoch,        *)
(* sequence), whatever their request hashes; so no TX_ID is accepted twice.*)
SequenceAcceptedOnce ==
    \A c, d \in Accepted : Key(Body(c)) = Key(Body(d)) => c = d

(* The same for identical requests only: the promise about TX_ID.          *)
TxIdAcceptedOnce ==
    \A c, d \in Accepted : tx_id(Body(c)) = tx_id(Body(d)) => c = d

(* An EdgeAccept names its place in the order of the leader's commits:     *)
(* two accepted calls never carry the same commit index.                   *)
CommitIndexUnique ==
    \A c, d \in Accepted : index[c] = index[d] => c = d

(* Accepted spend never exceeds what the issuer signed over.               *)
SpendWithinIssued ==
    \A k \in CapabilityId :
        MapThenSumSet(LAMBDA c : Body(c).amount,
                      {c \in Accepted : Body(c).capability_id = k})
            <= Cap[k].maximum_total

(* Nothing a running engine writes makes its log unreadable: every log     *)
(* can be replayed by the next open_engine.                                *)
EveryWalReplays == \A v \in Validator : Replays(wal[v])

(* Fencing at one validator is final: from the moment it has recorded the  *)
(* fence no sequence of the epoch is consumed there, across restarts and   *)
(* a later activation of a capability of the same epoch.                   *)
FencedIn(v, e) == state[v].epoch_states[e] = "Fenced"

FencedEpochFrozen ==
    [][\A v \in Validator, e \in Epoch :
          up[v] /\ up'[v] /\ FencedIn(v, e) =>
              /\ FencedIn(v, e)'
              /\ \A k \in state'[v].consumed \ state[v].consumed : k[2] # e]_vars

(* When fence_epoch has returned, a call of that epoch whose sequence the  *)
(* leader has not consumed is never accepted, not even one that had        *)
(* collected its votes before the fence.                                   *)
FenceStopsSpending ==
    [][\A k \in FenceCall, c \in Call :
          /\ fpc[k] = "fenced" /\ Body(c).epoch = Fences[k]
          /\ up[Leader] /\ ~is_consumed(state[Leader], Body(c))
          => pc'[c] \notin {"acking", "replying", "accepted"}]_vars

(* fence_epoch returns only when a quorum recorded the fence, and keeps    *)
(* that quorum through restarts.                                           *)
FenceQuorum ==
    \A k \in FenceCall :
        fpc[k] = "fenced" =>
            \E Q \in SUBSET Validator :
                Cardinality(Q) >= Need /\ \A v \in Q : up[v] => FencedIn(v, Fences[k])

(* While no deadline passes, a PAY that every validator would vote for is  *)
(* served although one validator dies: it is accepted, or refused because  *)
(* another PAY took its sequence or allowance, or the leader was dead.     *)
ValidPayServed ==
    \A c \in Call :
        (/\ pc[c] = "idle" /\ PayActive = {}
         /\ \A v \in Validator : alive[v] /\ validate_pay(v, Request[c]))
        ~> (pc[c] \in {"accepted", "rejected"})
=============================================================================
