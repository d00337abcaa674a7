------------------------- MODULE ShardEngineProofs -------------------------
(***************************************************************************)
(* Proofs about ShardEngine, for any committee, workload and bounds.       *)
(***************************************************************************)
EXTENDS ShardEngine, FiniteSetTheorems, TLAPS

-----------------------------------------------------------------------------
(* The operators of ShardState.                                            *)

(* The three updates of a shard state keep its type.  consume_pay does so  *)
(* because its checks keep the subtraction within the naturals.            *)
LEMMA UpdateType ==
    ASSUME NEW st \in ShardStates
    PROVE  /\ \A c \in CapabilityId : activate_capability(st, c) \in ShardStates
           /\ \A e \in Epoch : fence_epoch(st, e) \in ShardStates
           /\ \A b \in PayCommitBody :
                CanConsume(st, b) => consume_pay(st, b) \in ShardStates
  <1>1. ASSUME NEW c \in CapabilityId
        PROVE  activate_capability(st, c) \in ShardStates
    BY <1>1, CapAssumption DEF activate_capability, ShardStates, SpendCapability, EpochStates
  <1>2. ASSUME NEW e \in Epoch
        PROVE  fence_epoch(st, e) \in ShardStates
    BY <1>2 DEF fence_epoch, ShardStates, EpochStates
  <1>3. ASSUME NEW b \in PayCommitBody, CanConsume(st, b)
        PROVE  consume_pay(st, b) \in ShardStates
    <2> DEFINE left == st.remaining[b.capability_id] - b.amount
               keys == st.consumed \cup {Key(b)}
               next == st.commit_index + 1
    <2>1. b.capability_id \in CapabilityId /\ b.amount \in Nat
      BY DEF PayCommitBody
    <2>2. left \in Nat
      BY <1>3, <2>1 DEF CanConsume, ShardStates
    <2>4. Key(b) \in Keys
      BY DEF PayCommitBody, Key, Keys
    <2>5. keys \in SUBSET Keys
      BY <2>4 DEF ShardStates
    <2>6. next \in Nat
      BY DEF ShardStates
    <2>7. consume_pay(st, b) =
            [st EXCEPT !.remaining[b.capability_id] = left, !.consumed = keys,
                       !.commit_index = next]
      BY DEF consume_pay
    <2> HIDE DEF left, keys, next
    <2> QED
      BY ZenonT(60), <2>1, <2>2, <2>5, <2>6, <2>7 DEF ShardStates
  <1> QED
    BY <1>1, <1>2, <1>3

(* A step of one store: what was consumed stays consumed, what was fenced  *)
(* stays fenced, and no sequence of a fenced epoch is added.               *)
Moves(st, t) ==
    /\ st.consumed \subseteq t.consumed
    /\ \A e \in Epoch : st.epoch_states[e] = "Fenced" =>
          /\ t.epoch_states[e] = "Fenced"
          /\ \A k \in t.consumed \ st.consumed : k[2] # e

(* Each update of a shard state only adds: consumed sequences stay consumed,*)
(* fences stay, and a fenced epoch gains no sequence.                      *)
LEMMA UpdateMoves ==
    ASSUME NEW st \in ShardStates
    PROVE  /\ Moves(st, st)
           /\ \A c \in CapabilityId : Moves(st, activate_capability(st, c))
           /\ \A e \in Epoch : Moves(st, fence_epoch(st, e))
           /\ \A b \in PayCommitBody :
                CanConsume(st, b) => Moves(st, consume_pay(st, b))
  <1>1. Moves(st, st)
    BY DEF Moves
  <1>2. ASSUME NEW c \in CapabilityId
        PROVE  Moves(st, activate_capability(st, c))
    BY <1>2, CapAssumption DEF Moves, activate_capability, ShardStates, SpendCapability, EpochStates
  <1>3. ASSUME NEW e \in Epoch
        PROVE  Moves(st, fence_epoch(st, e))
    BY <1>3 DEF Moves, fence_epoch, ShardStates, EpochStates
  <1>4. ASSUME NEW b \in PayCommitBody, CanConsume(st, b)
        PROVE  Moves(st, consume_pay(st, b))
    <2>1. /\ consume_pay(st, b).consumed = st.consumed \cup {Key(b)}
          /\ consume_pay(st, b).epoch_states = st.epoch_states
      BY DEF consume_pay, ShardStates
    <2>2. Key(b)[2] = b.epoch
      BY DEF Key
    <2>3. st.epoch_states[b.epoch] = "Active"
      BY <1>4 DEF CanConsume
    <2> QED
      BY <2>1, <2>2, <2>3 DEF Moves
  <1> QED
    BY <1>1, <1>2, <1>3, <1>4

(* What a replayable log says after an append is what the record does to   *)
(* what it said before.                                                    *)
LEMMA AppendReplays ==
    ASSUME NEW w \in WalFiles, NEW r, Replays(append(w, r))
    PROVE  /\ Replays(w) /\ Applies(w.st, r)
           /\ append(w, r).st = apply_record(w.st, r)
  BY DEF append, Replays, WalFiles

(* A torn append never turns an unreadable log into a readable one, and the*)
(* records before the tear are kept.                                       *)
LEMMA TornReplays ==
    ASSUME NEW w \in WalFiles, NEW tail \in TornTails
    PROVE  /\ TornAppend(w, tail) \in WalFiles
           /\ TornAppend(w, tail).st = w.st
           /\ Replays(TornAppend(w, tail)) => Replays(w)
  BY EngineAssumption DEF TornAppend, Replays, WalFiles

-----------------------------------------------------------------------------
(* The stores: memory and log of every validator.                          *)
StoreOK ==
    /\ state \in [Validator -> ShardStates]
    /\ wal \in [Validator -> WalFiles]
    /\ up \in [Validator -> BOOLEAN]

(* No step takes back what a running validator consumed or fenced.         *)
StoreMoves == \A v \in Validator : up'[v] => up[v] /\ Moves(state[v], state'[v])

(* What a call puts to the vote is a PayCommitBody.                        *)
LEMMA BodyType ==
    \A c \in Call : Body(c) \in PayCommitBody
  BY EngineAssumption DEF Body, from_pay, PayCommitBody, Pay

(* Wal::append yields a well-formed log.                                   *)
LEMMA AppendType ==
    ASSUME NEW w \in WalFiles, NEW r,
           Applies(w.st, r) => apply_record(w.st, r) \in ShardStates
    PROVE  append(w, r) \in WalFiles
  BY DEF append, WalFiles

(* Activation and fencing write the log and memory alike.                  *)
LEMMA RecordStep ==
    ASSUME StoreOK, WalMatchesMemory, up' = up,
           NEW v \in Validator, NEW r,
           \/ \E c \in CapabilityId : r = Activated(c)
           \/ \E e \in Epoch : r = Fenced(e),
           Record(v, r)
    PROVE  StoreOK' /\ WalMatchesMemory' /\ StoreMoves
  <1>1. \A st \in ShardStates :
          Applies(st, r) /\ apply_record(st, r) \in ShardStates /\ Moves(st, apply_record(st, r))
    <2>1. CASE \E c \in CapabilityId : r = Activated(c)
      BY <2>1, UpdateType, UpdateMoves DEF Applies, apply_record, Activated
    <2>2. CASE \E e \in Epoch : r = Fenced(e)
      BY <2>2, UpdateType, UpdateMoves DEF Applies, apply_record, Fenced
    <2> QED
      BY <2>1, <2>2
  <1>2. \A w \in WalFiles : w.st \in ShardStates
    BY DEF WalFiles
  <1>3. append(wal[v], r) \in WalFiles
    BY <1>1, <1>2, AppendType DEF StoreOK
  <1>4. /\ \A w \in Validator \ {v} : state'[w] = state[w] /\ wal'[w] = wal[w]
        /\ state'[v] = apply_record(state[v], r) /\ wal'[v] = append(wal[v], r)
    BY DEF StoreOK, Record
  <1>5. StoreOK'
    BY <1>1, <1>3 DEF StoreOK, Record
  <1>6. Replays(wal'[v]) => Replays(wal[v]) /\ wal'[v].st = apply_record(wal[v].st, r)
    BY <1>4, AppendReplays DEF StoreOK
  <1>7. WalMatchesMemory'
    BY <1>4, <1>6 DEF WalMatchesMemory
  <1>8. StoreMoves
    BY <1>1, <1>4, UpdateMoves DEF StoreMoves, StoreOK
  <1> QED
    BY <1>5, <1>7, <1>8

(* A commit that consume_pay refuses leaves memory as it was and a log     *)
(* that does not replay.                                                   *)
LEMMA DurableCommitStep ==
    ASSUME StoreOK, WalMatchesMemory, up' = up,
           NEW v \in Validator, NEW b \in PayCommitBody,
           durable_commit(v, b)
    PROVE  /\ StoreOK' /\ WalMatchesMemory' /\ StoreMoves
           /\ CanConsume(state[v], b) => is_consumed(state'[v], b)
           /\ \A w \in Validator \ {v} : state'[w] = state[w]
           /\ state'[v] = IF CanConsume(state[v], b) THEN consume_pay(state[v], b)
                                                     ELSE state[v]
  <1> DEFINE r == Consumed(b)
  <1>1. \A st \in ShardStates :
          /\ Applies(st, r) <=> CanConsume(st, b)
          /\ apply_record(st, r) = consume_pay(st, b)
    BY DEF Applies, apply_record, Consumed
  <1>2. state[v] \in ShardStates /\ wal[v] \in WalFiles /\ wal[v].st \in ShardStates
    BY DEF StoreOK, WalFiles
  <1>3. append(wal[v], r) \in WalFiles
    BY <1>1, <1>2, AppendType, UpdateType
  <1>4. /\ \A w \in Validator \ {v} : state'[w] = state[w] /\ wal'[w] = wal[w]
        /\ state'[v] = IF CanConsume(state[v], b) THEN consume_pay(state[v], b) ELSE state[v]
        /\ wal'[v] = append(wal[v], r)
    BY DEF StoreOK, durable_commit
  <1>5. StoreOK'
    BY <1>2, <1>3, UpdateType DEF StoreOK, durable_commit
  <1>6. Replays(wal'[v]) => /\ Replays(wal[v]) /\ CanConsume(wal[v].st, b)
                            /\ wal'[v].st = consume_pay(wal[v].st, b)
    BY <1>1, <1>2, <1>4, AppendReplays
  <1>7. WalMatchesMemory'
    BY <1>4, <1>6 DEF WalMatchesMemory
  <1>8. StoreMoves
    <2>1. \A w \in Validator : state[w] \in ShardStates
      BY DEF StoreOK
    <2>2. Moves(state[v], state'[v])
      BY <1>2, <1>4, UpdateMoves
    <2> QED
      BY <1>4, <2>1, <2>2, UpdateMoves DEF StoreMoves
  <1>9. CanConsume(state[v], b) => is_consumed(state'[v], b)
    BY <1>2, <1>4 DEF is_consumed, consume_pay, ShardStates
  <1> QED
    BY <1>4, <1>5, <1>7, <1>8, <1>9

(* What comes up after a restart was up before, with the same state.       *)
LEMMA RebootStep ==
    ASSUME StoreOK, WalMatchesMemory,
           NEW disk \in [Validator -> WalFiles],
           \A v \in Validator : /\ disk[v].st = wal[v].st
                                /\ Replays(disk[v]) => Replays(wal[v]),
           Reboot(disk)
    PROVE  /\ StoreOK' /\ WalMatchesMemory' /\ StoreMoves
           /\ \A v \in Validator : up'[v] => up[v] /\ state'[v] = state[v]
  <1>1. /\ wal' = disk
        /\ up' = [v \in Validator |-> Replays(disk[v])]
        /\ state' = [v \in Validator |-> IF Replays(disk[v]) THEN disk[v].st ELSE EmptyState]
    BY DEF Reboot
  <1>2. EmptyState \in ShardStates
    BY DEF EmptyState, ShardStates, EpochStates
  <1>3. \A v \in Validator : disk[v].st \in ShardStates /\ Replays(disk[v]) \in BOOLEAN
    BY DEF WalFiles, Replays
  <1>4. StoreOK'
    BY <1>1, <1>2, <1>3 DEF StoreOK
  <1>5. \A v \in Validator : up'[v] => up[v] /\ state'[v] = state[v]
    BY <1>1 DEF WalMatchesMemory, StoreOK
  <1>6. WalMatchesMemory'
    BY <1>1 DEF WalMatchesMemory
  <1>7. StoreMoves
    BY <1>5, UpdateMoves DEF StoreMoves, StoreOK
  <1> QED
    BY <1>4, <1>5, <1>6, <1>7

-----------------------------------------------------------------------------
(* The steps of the engine.                                                *)

(* What a follower's pump takes from its inbox is a message.               *)
LEMMA HeadType ==
    ASSUME TypeOK, NEW f \in Follower, inbox[f] # <<>>
    PROVE  /\ Head(inbox[f]) \in Message
           /\ Tail(inbox[f]) \in Seq(Message)
           /\ Head(inbox[f]).type = "Propose" => Head(inbox[f]).request \in [pay : Pay, now : Nat]
           /\ Head(inbox[f]).type = "Commit" => Head(inbox[f]).body \in PayCommitBody
           /\ Head(inbox[f]).type = "FenceCommit" => Head(inbox[f]).epoch \in Epoch
  <1>1. inbox[f] \in Seq(Message)
    BY DEF TypeOK
  <1>2. Head(inbox[f]) \in Message /\ Tail(inbox[f]) \in Seq(Message)
    BY <1>1
  <1> QED
    BY <1>2 DEF Message

(* Every step keeps the stores well formed, the logs in agreement with     *)
(* memory, and takes nothing back.                                         *)
LEMMA StoreNext ==
    ASSUME TypeOK, WalMatchesMemory, [Next]_vars
    PROVE  StoreOK' /\ WalMatchesMemory' /\ StoreMoves
  <1> USE DEF storeVars, nodeVars, netVars, payVars, fenceVars, boundVars
  <1>1. StoreOK
    BY DEF TypeOK, StoreOK
  <1>2. ASSUME UNCHANGED <<state, wal, up>>
        PROVE  StoreOK' /\ WalMatchesMemory' /\ StoreMoves
    BY <1>1, <1>2, UpdateMoves DEF StoreOK, WalMatchesMemory, StoreMoves
  <1>3. ASSUME NEW v \in Validator, NEW c \in CapabilityId, ActivateCapability(v, c)
        PROVE  StoreOK' /\ WalMatchesMemory' /\ StoreMoves
    BY <1>1, <1>3, RecordStep DEF ActivateCapability
  <1>4. ASSUME NEW c \in Call, PayNext(c) \/ TimeoutPay(c)
        PROVE  StoreOK' /\ WalMatchesMemory' /\ StoreMoves
    <2>1. CASE CommitPay(c)
      BY <1>1, <1>2, <2>1, BodyType, EngineAssumption, DurableCommitStep DEF CommitPay
    <2>2. CASE ~CommitPay(c)
      BY <1>2, <1>4, <2>2 DEF PayNext, StartPay, RejectPay, DrainVotes, SendCommit,
                              DrainAcks, ReplyPay, TimeoutPay
    <2> QED
      BY <2>1, <2>2
  <1>5. ASSUME NEW k \in FenceCall, FenceNext(k) \/ TimeoutFence(k)
        PROVE  StoreOK' /\ WalMatchesMemory' /\ StoreMoves
    <2>1. CASE LocalFence(k)
      <3>1. Fences[k] \in Epoch /\ Leader \in Validator
        BY EngineAssumption
      <3> QED
        BY <1>1, <1>2, <2>1, <3>1, RecordStep DEF LocalFence, RecordFence
    <2>2. CASE ~LocalFence(k)
      BY <1>2, <1>5, <2>2 DEF FenceNext, StartFence, RejectFence, DrainFenceAcks, TimeoutFence
    <2> QED
      BY <2>1, <2>2
  <1>6. ASSUME NEW f \in Follower, PumpNext(f)
        PROVE  StoreOK' /\ WalMatchesMemory' /\ StoreMoves
    <2>1. f \in Validator
      BY DEF Follower
    <2>2. CASE OnPropose(f)
      BY <1>2, <2>2 DEF OnPropose, Receive
    <2>3. CASE OnCommit(f)
      <3>1. Head(inbox[f]).body \in PayCommitBody /\ up' = up
        BY <2>3, HeadType DEF OnCommit, Receive
      <3> QED
        BY <1>1, <1>2, <2>1, <2>3, <3>1, DurableCommitStep DEF OnCommit
    <2>4. CASE OnFenceCommit(f)
      <3>1. Head(inbox[f]).epoch \in Epoch /\ up' = up
        BY <2>4, HeadType DEF OnFenceCommit, Receive
      <3> QED
        BY <1>1, <1>2, <2>1, <2>4, <3>1, RecordStep DEF OnFenceCommit, RecordFence
    <2> QED
      BY <1>6, <2>2, <2>3, <2>4 DEF PumpNext
  <1>7. ASSUME NEW v \in Validator, Kill(v)
        PROVE  StoreOK' /\ WalMatchesMemory' /\ StoreMoves
    BY <1>2, <1>7 DEF Kill
  <1>8. ASSUME RebootClean
        PROVE  StoreOK' /\ WalMatchesMemory' /\ StoreMoves
    BY <1>1, <1>8, RebootStep DEF RebootClean, StoreOK
  <1>9. ASSUME NEW v \in Validator, NEW tail \in TornTails, RebootTorn(v, tail)
        PROVE  StoreOK' /\ WalMatchesMemory' /\ StoreMoves
    <2> DEFINE disk == [wal EXCEPT ![v] = TornAppend(@, tail)]
    <2>1. disk \in [Validator -> WalFiles]
      BY <1>1, TornReplays DEF StoreOK
    <2>2. \A w \in Validator : /\ disk[w].st = wal[w].st
                               /\ Replays(disk[w]) => Replays(wal[w])
      BY <1>1, TornReplays DEF StoreOK
    <2>3. Reboot(disk)
      BY <1>9 DEF RebootTorn
    <2> HIDE DEF disk
    <2> QED
      BY <1>1, <2>1, <2>2, <2>3, RebootStep
  <1>10. CASE UNCHANGED vars
    BY <1>2, <1>10 DEF vars
  <1> QED
    BY <1>3, <1>4, <1>5, <1>6, <1>7, <1>8, <1>9, <1>10 DEF Next, PromptNext, FaultNext

(* A broadcast keeps the followers' inboxes well formed.                   *)
LEMMA BroadcastType ==
    ASSUME TypeOK, NEW m \in Message, Broadcast(m)
    PROVE  inbox' \in [Follower -> Seq(Message)]
  BY DEF TypeOK, Broadcast

(* The initial state satisfies the type invariant and the agreement of logs*)
(* and memory.                                                             *)
LEMMA InitInvariant ==
    Init => TypeOK /\ WalMatchesMemory
  <1> SUFFICES ASSUME Init PROVE TypeOK /\ WalMatchesMemory
    OBVIOUS
  <1>1. EmptyState \in ShardStates /\ EmptyWal \in WalFiles
    BY DEF EmptyState, EmptyWal, ShardStates, WalFiles, EpochStates
  <1>2. TypeOK
    BY <1>1, EngineAssumption DEF Init, TypeOK, Running
  <1>3. WalMatchesMemory
    BY DEF Init, WalMatchesMemory, EmptyWal
  <1> QED
    BY <1>2, <1>3

(* Every step keeps the types of everything outside the stores.            *)
LEMMA TypeNext ==
    ASSUME TypeOK, WalMatchesMemory, [Next]_vars
    PROVE  TypeOK'
  <1> USE DEF storeVars, nodeVars, netVars, payVars, fenceVars, boundVars
  <1>1. state' \in [Validator -> ShardStates] /\ wal' \in [Validator -> WalFiles]
    BY StoreNext DEF StoreOK
  <1>2. ASSUME NEW v \in Validator, NEW c \in CapabilityId, ActivateCapability(v, c)
        PROVE  TypeOK'
    BY <1>1, <1>2 DEF ActivateCapability, TypeOK
  <1>3. ASSUME NEW c \in Call, PayNext(c) \/ TimeoutPay(c)
        PROVE  TypeOK'
    <2>1. CASE StartPay(c)
      <3>1. Propose(c) \in Message
        BY EngineAssumption DEF Propose, Message
      <3>2. inbox' \in [Follower -> Seq(Message)]
        BY <2>1, <3>1, BroadcastType DEF StartPay
      <3> QED
        BY <1>1, <2>1, <3>2, EngineAssumption DEF StartPay, TypeOK, Running
    <2>2. CASE RejectPay(c) \/ TimeoutPay(c) \/ ReplyPay(c)
      BY ZenonT(60), <1>1, <2>2, EngineAssumption DEF RejectPay, TimeoutPay, ReplyPay, TypeOK, Running, ShardStates
    <2>3. CASE DrainVotes(c)
      BY <1>1, <2>3 DEF DrainVotes, Senders, TypeOK, Running
    <2>4. CASE SendCommit(c)
      <3>1. Commit(Body(c), votes[c]) \in Message
        BY BodyType DEF Commit, Message, TypeOK
      <3>2. inbox' \in [Follower -> Seq(Message)]
        BY <2>4, <3>1, BroadcastType DEF SendCommit
      <3> QED
        BY <1>1, <2>4, <3>2 DEF SendCommit, TypeOK, Running
    <2>5. CASE CommitPay(c)
      <3>1. UNCHANGED <<nodeVars, netVars, votes, index, fenceVars, boundVars>>
        BY <2>5 DEF CommitPay
      <3>2. \/ /\ acks' = [acks EXCEPT ![c] = {Leader}]
               /\ \/ pc' = [pc EXCEPT ![c] = "replying"]
                  \/ pc' = [pc EXCEPT ![c] = "acking"]
            \/ acks' = acks /\ pc' = [pc EXCEPT ![c] = "failed"]
        BY <2>5, Zenon DEF CommitPay
      <3>3. acks' \in [Call -> SUBSET Validator]
        <4>1. {Leader} \in SUBSET Validator /\ acks \in [Call -> SUBSET Validator]
          BY EngineAssumption DEF TypeOK
        <4> QED
          BY <3>2, <4>1
      <3>4. pc' \in [Call -> Running \cup {"idle", "accepted", "rejected", "failed"}]
        BY <3>2 DEF TypeOK, Running
      <3> QED
        BY <1>1, <3>1, <3>3, <3>4 DEF TypeOK
    <2>6. CASE DrainAcks(c)
      BY <1>1, <2>6 DEF DrainAcks, Senders, TypeOK, Running
    <2> QED
      BY <1>3, <2>1, <2>2, <2>3, <2>4, <2>5, <2>6 DEF PayNext
  <1>4. ASSUME NEW k \in FenceCall, FenceNext(k) \/ TimeoutFence(k)
        PROVE  TypeOK'
    <2>1. CASE StartFence(k)
      <3>1. FenceCommit(Fences[k]) \in Message
        BY EngineAssumption DEF FenceCommit, Message
      <3>2. inbox' \in [Follower -> Seq(Message)]
        BY <2>1, <3>1, BroadcastType DEF StartFence
      <3> QED
        BY <1>1, <2>1, <3>2 DEF StartFence, TypeOK
    <2>2. CASE RejectFence(k) \/ TimeoutFence(k)
      BY <1>1, <2>2 DEF RejectFence, TimeoutFence, TypeOK
    <2>3. CASE LocalFence(k)
      BY <1>1, <2>3, EngineAssumption DEF LocalFence, TypeOK
    <2>4. CASE DrainFenceAcks(k)
      BY <1>1, <2>4 DEF DrainFenceAcks, Senders, TypeOK
    <2> QED
      BY <1>4, <2>1, <2>2, <2>3, <2>4 DEF FenceNext
  <1>5. ASSUME NEW f \in Follower, PumpNext(f)
        PROVE  TypeOK'
    <2>1. f \in Validator
      BY DEF Follower
    <2>2. inbox' \in [Follower -> Seq(Message)] /\ UNCHANGED <<nodeVars, payVars, fenceVars, boundVars>>
      BY <1>5, HeadType DEF PumpNext, OnPropose, OnCommit, OnFenceCommit, Receive, TypeOK
    <2>3. replies' \in SUBSET Reply
      <3>1. CASE OnPropose(f)
        <4>1. from_pay(Head(inbox[f]).request.pay) \in PayCommitBody
          BY <3>1, HeadType DEF OnPropose, Receive, from_pay, PayCommitBody, Pay
        <4>2. Vote(from_pay(Head(inbox[f]).request.pay), f) \in Reply
          BY <2>1, <4>1 DEF Vote, Reply
        <4> QED
          BY <3>1, <4>2 DEF OnPropose, TypeOK
      <3>2. CASE OnCommit(f)
        <4>1. DurableAck(Head(inbox[f]).body, f) \in Reply
          BY <2>1, <3>2, HeadType DEF OnCommit, Receive, DurableAck, Reply
        <4> QED
          BY <3>2, <4>1 DEF OnCommit, TypeOK
      <3>3. CASE OnFenceCommit(f)
        <4>1. FenceDurableAck(Head(inbox[f]).epoch, f) \in Reply
          BY <2>1, <3>3, HeadType DEF OnFenceCommit, Receive, FenceDurableAck, Reply
        <4> QED
          BY <3>3, <4>1 DEF OnFenceCommit, TypeOK
      <3> QED
        BY <1>5, <3>1, <3>2, <3>3 DEF PumpNext
    <2> QED
      BY <1>1, <2>2, <2>3 DEF TypeOK
  <1>6. ASSUME NEW v \in Validator, Kill(v)
        PROVE  TypeOK'
    BY <1>1, <1>6 DEF Kill, TypeOK
  <1>7. ASSUME NEW disk, Reboot(disk)
        PROVE  TypeOK'
    BY <1>1, <1>7 DEF Reboot, Replays, TypeOK, Running
  <1>8. CASE UNCHANGED vars
    BY <1>8 DEF vars, TypeOK
  <1> QED
    BY <1>2, <1>3, <1>4, <1>5, <1>6, <1>7, <1>8
       DEF Next, PromptNext, FaultNext, RebootClean, RebootTorn

(* The types of every variable hold in every reachable state, and what a   *)
(* running validator holds in memory is what its log replays to.           *)
THEOREM WalAgreement ==
    Spec => [](TypeOK /\ WalMatchesMemory)
  <1>1. Init => TypeOK /\ WalMatchesMemory
    BY InitInvariant
  <1>2. TypeOK /\ WalMatchesMemory /\ [Next]_vars => (TypeOK /\ WalMatchesMemory)'
    BY TypeNext, StoreNext
  <1> QED
    BY <1>1, <1>2, PTL DEF Spec

-----------------------------------------------------------------------------
(* Acknowledgements.  An acknowledgement is sent after the record is       *)
(* durable, so whoever acknowledged and still runs holds it; this is what  *)
(* makes CommitBeforeAccept and FenceQuorum inductive.                     *)
AckedReplies ==
    \A m \in replies :
        m.type = "DurableAck" /\ up[m.from] => is_consumed(state[m.from], m.digest)
AckedCalls ==
    \A c \in Call : \A v \in acks[c] : up[v] => is_consumed(state[v], Body(c))
AckedQuorum ==
    \A c \in Call : pc[c] \in {"replying", "accepted"} => Cardinality(acks[c]) >= Need
AckInv == AckedReplies /\ AckedCalls /\ AckedQuorum

FenceReplies ==
    \A m \in replies :
        m.type = "FenceDurableAck" /\ up[m.from] => FencedIn(m.from, m.epoch)
FenceCalls ==
    \A k \in FenceCall : \A v \in facks[k] : up[v] => FencedIn(v, Fences[k])
FenceCounted ==
    \A k \in FenceCall : fpc[k] = "fenced" => Cardinality(facks[k]) >= Need
FenceInv == FenceReplies /\ FenceCalls /\ FenceCounted

(* The quorum threshold is a number, whatever the size of the committee.   *)
LEMMA NeedType == Need \in Nat
  <1>1. Cardinality(Validator) \in Nat
    BY EngineAssumption, FS_CardinalityType
  <1> QED
    BY <1>1 DEF Need, quorum_threshold

(* If the threshold is one, the leader alone is a quorum.                  *)
LEMMA OneSuffices ==
    ASSUME Need <= 1
    PROVE  Cardinality({Leader}) >= Need
  BY NeedType, FS_Singleton

(* Consumed sequences and fences survive any step of a running validator.  *)
LEMMA Survives ==
    ASSUME TypeOK, StoreMoves
    PROVE  /\ \A v \in Validator, b \in PayCommitBody :
                up'[v] => up[v] /\ (is_consumed(state[v], b) => is_consumed(state'[v], b))
           /\ \A v \in Validator, e \in Epoch :
                up'[v] => up[v] /\ (FencedIn(v, e) => FencedIn(v, e)')
  BY DEF StoreMoves, Moves, is_consumed, FencedIn

(* Every acknowledgement of a commit that is under way or was counted comes*)
(* from a validator that holds the sequence consumed or is down.           *)
LEMMA AckNext ==
    ASSUME TypeOK, WalMatchesMemory, AckInv, [Next]_vars
    PROVE  AckInv'
  <1> USE DEF storeVars, nodeVars, netVars, payVars, fenceVars, boundVars
  <1>1. StoreMoves
    BY StoreNext
  <1>2. ASSUME replies' \subseteq replies
        PROVE  AckedReplies'
    <2> SUFFICES ASSUME NEW m \in replies', m.type = "DurableAck", up'[m.from]
                 PROVE  is_consumed(state'[m.from], m.digest)
      BY DEF AckedReplies
    <2>1. m \in replies /\ m.from \in Validator /\ m.digest \in PayCommitBody
      BY <1>2 DEF TypeOK, Reply
    <2> QED
      BY <1>1, <2>1, Survives DEF AckInv, AckedReplies
  <1>3. ASSUME NEW c \in Call, NEW v \in acks[c], up'[v]
        PROVE  is_consumed(state'[v], Body(c))
    <2>1. v \in Validator /\ Body(c) \in PayCommitBody
      BY BodyType DEF TypeOK
    <2> QED
      BY <1>1, <1>3, <2>1, Survives DEF AckInv, AckedCalls
  <1>4. ASSUME acks' = acks
        PROVE  AckedCalls'
    BY <1>3, <1>4 DEF AckedCalls
  <1>5. ASSUME acks' = acks,
               \A c \in Call : pc'[c] \in {"replying", "accepted"} => pc[c] \in {"replying", "accepted"}
        PROVE  AckedQuorum'
    BY <1>5 DEF AckInv, AckedQuorum
  <1>6. ASSUME NEW c \in Call, PayNext(c) \/ TimeoutPay(c)
        PROVE  AckInv'
    <2>1. replies' \subseteq replies
      BY <1>6 DEF PayNext, StartPay, RejectPay, DrainVotes, SendCommit, CommitPay,
                  DrainAcks, ReplyPay, TimeoutPay
    <2>2. CASE CommitPay(c)
      <3>1. CASE is_consumed(state[Leader], Body(c)) \/ CanConsume(state[Leader], Body(c))
        <4>1. acks' = [acks EXCEPT ![c] = {Leader}]
          BY <2>2, <3>1 DEF CommitPay
        <4>2. pc' = [pc EXCEPT ![c] = IF Need <= 1 THEN "replying" ELSE "acking"]
          BY <2>2, <3>1 DEF CommitPay
        <4>3. is_consumed(state'[Leader], Body(c))
          <5>1. CASE is_consumed(state[Leader], Body(c))
            BY <2>2, <5>1 DEF CommitPay
          <5>2. CASE ~is_consumed(state[Leader], Body(c))
            <6>1. durable_commit(Leader, Body(c)) /\ up' = up
              BY <2>2, <5>2 DEF CommitPay
            <6> QED
              BY <3>1, <5>2, <6>1, BodyType, EngineAssumption, DurableCommitStep DEF TypeOK, StoreOK
          <5> QED
            BY <5>1, <5>2
        <4>4. AckedCalls'
          BY <1>3, <4>1, <4>3 DEF AckedCalls, TypeOK
        <4>5. AckedQuorum'
          <5> SUFFICES ASSUME NEW d \in Call, pc'[d] \in {"replying", "accepted"}
                       PROVE  Cardinality(acks'[d]) >= Need
            BY DEF AckedQuorum
          <5>1. CASE d = c
            BY <4>1, <4>2, <5>1, OneSuffices DEF TypeOK
          <5>2. CASE d # c
            BY <4>1, <4>2, <5>2 DEF TypeOK, AckInv, AckedQuorum
          <5> QED
            BY <5>1, <5>2
        <4> QED
          BY <1>2, <2>1, <4>4, <4>5 DEF AckInv
      <3>2. CASE ~(is_consumed(state[Leader], Body(c)) \/ CanConsume(state[Leader], Body(c)))
        <4>1. acks' = acks /\ pc' = [pc EXCEPT ![c] = "failed"]
          BY <2>2, <3>2 DEF CommitPay
        <4> QED
          BY <1>2, <1>4, <1>5, <2>1, <4>1 DEF AckInv, TypeOK
      <3> QED
        BY <3>1, <3>2
    <2>3. CASE DrainAcks(c)
      <3> DEFINE got == acks[c] \cup Senders(LAMBDA v : DurableAck(Body(c), v))
      <3>1. /\ acks' = [acks EXCEPT ![c] = got]
            /\ pc' = [pc EXCEPT ![c] = IF Cardinality(got) >= Need THEN "replying" ELSE @]
            /\ state' = state /\ up' = up /\ pc[c] = "acking"
        BY <2>3 DEF DrainAcks
      <3>2. \A v \in got : up'[v] => is_consumed(state'[v], Body(c))
        BY <1>3, <3>1 DEF Senders, DurableAck, AckInv, AckedReplies
      <3> HIDE DEF got
      <3>3. AckedCalls'
        BY <1>3, <3>1, <3>2 DEF AckedCalls, TypeOK
      <3>4. AckedQuorum'
        BY <3>1 DEF TypeOK, AckInv, AckedQuorum
      <3> QED
        BY <1>2, <2>1, <3>3, <3>4 DEF AckInv
    <2>4. CASE ~CommitPay(c) /\ ~DrainAcks(c)
      <3>1. acks' = acks
        BY <1>6, <2>4 DEF PayNext, StartPay, RejectPay, DrainVotes, SendCommit, ReplyPay, TimeoutPay
      <3>2. \A d \in Call : pc'[d] \in {"replying", "accepted"} => pc[d] \in {"replying", "accepted"}
        BY ZenonT(60), <1>6, <2>4 DEF PayNext, StartPay, RejectPay, DrainVotes, SendCommit, ReplyPay,
                          TimeoutPay, TypeOK
      <3> QED
        BY <1>2, <1>4, <1>5, <2>1, <3>1, <3>2 DEF AckInv
    <2> QED
      BY <2>2, <2>3, <2>4
  <1>7. ASSUME NEW f \in Follower, PumpNext(f)
        PROVE  AckInv'
    <2>1. acks' = acks /\ pc' = pc /\ up' = up
      BY <1>7 DEF PumpNext, OnPropose, OnCommit, OnFenceCommit, Receive
    <2>2. AckedReplies'
      <3>1. CASE OnCommit(f)
        <4> DEFINE b == Head(inbox[f]).body
        <4>1. f \in Validator /\ b \in PayCommitBody
          BY <3>1, HeadType DEF OnCommit, Receive, Follower
        <4>2. CASE DurableAck(b, f) \in replies' /\ replies' \subseteq replies \cup {DurableAck(b, f)}
                   /\ is_consumed(state'[f], b)
          <5> SUFFICES ASSUME NEW m \in replies', m.type = "DurableAck", up'[m.from]
                       PROVE  is_consumed(state'[m.from], m.digest)
            BY DEF AckedReplies
          <5>1. CASE m = DurableAck(b, f)
            BY <4>2, <5>1 DEF DurableAck
          <5>2. CASE m \in replies
            <6>1. m.from \in Validator /\ m.digest \in PayCommitBody
              BY <5>2 DEF TypeOK, Reply
            <6> QED
              BY <1>1, <5>2, <6>1, Survives DEF AckInv, AckedReplies
          <5> QED
            BY <4>2, <5>1, <5>2
        <4>3. CASE replies' = replies
          BY <1>2, <4>3
        <4>4. is_consumed(state[f], b) /\ state' = state => is_consumed(state'[f], b)
          OBVIOUS
        <4>5. durable_commit(f, b) /\ CanConsume(state[f], b) => is_consumed(state'[f], b)
          BY <2>1, <4>1, DurableCommitStep DEF TypeOK, StoreOK
        <4> QED
          BY <3>1, <4>2, <4>3, <4>4, <4>5 DEF OnCommit
      <3>2. CASE ~OnCommit(f)
        <4>1. \A m \in replies' : m.type = "DurableAck" => m \in replies
          BY <1>7, <3>2 DEF PumpNext, OnPropose, OnFenceCommit, Vote, FenceDurableAck
        <4> SUFFICES ASSUME NEW m \in replies', m.type = "DurableAck", up'[m.from]
                     PROVE  is_consumed(state'[m.from], m.digest)
          BY DEF AckedReplies
        <4>2. m \in replies /\ m.from \in Validator /\ m.digest \in PayCommitBody
          BY <4>1 DEF TypeOK, Reply
        <4> QED
          BY <1>1, <4>2, Survives DEF AckInv, AckedReplies
      <3> QED
        BY <3>1, <3>2
    <2> QED
      BY <1>4, <1>5, <2>1, <2>2 DEF AckInv
  <1>8. ASSUME NEW disk, Reboot(disk)
        PROVE  AckInv'
    <2>1. replies' \subseteq replies /\ acks' = acks
      BY <1>8 DEF Reboot
    <2>2. \A c \in Call : pc'[c] \in {"replying", "accepted"} => pc[c] \in {"replying", "accepted"}
      BY <1>8 DEF Reboot
    <2> QED
      BY <1>2, <1>4, <1>5, <2>1, <2>2 DEF AckInv
  <1>9. ASSUME UNCHANGED <<replies, acks, pc>>
        PROVE  AckInv'
    BY <1>2, <1>4, <1>5, <1>9 DEF AckInv
  <1>10. ASSUME NEW k \in FenceCall, FenceNext(k) \/ TimeoutFence(k)
         PROVE  AckInv'
    <2>1. replies' \subseteq replies /\ acks' = acks /\ pc' = pc
      BY <1>10 DEF FenceNext, StartFence, RejectFence, LocalFence, DrainFenceAcks, TimeoutFence
    <2> QED
      BY <1>2, <1>4, <1>5, <2>1 DEF AckInv
  <1> QED
    BY <1>6, <1>7, <1>8, <1>9, <1>10
       DEF Next, PromptNext, FaultNext, ActivateCapability, Kill, RebootClean, RebootTorn, vars

(* The same for the acknowledgements of a fence.                           *)
LEMMA FenceInvNext ==
    ASSUME TypeOK, WalMatchesMemory, FenceInv, [Next]_vars
    PROVE  FenceInv'
  <1> USE DEF storeVars, nodeVars, netVars, payVars, fenceVars, boundVars
  <1>1. StoreMoves
    BY StoreNext
  <1>2. ASSUME \A m \in replies' : m.type = "FenceDurableAck" => m \in replies
        PROVE  FenceReplies'
    <2> SUFFICES ASSUME NEW m \in replies', m.type = "FenceDurableAck", up'[m.from]
                 PROVE  FencedIn(m.from, m.epoch)'
      BY DEF FenceReplies
    <2>1. m \in replies /\ m.from \in Validator /\ m.epoch \in Epoch
      BY <1>2 DEF TypeOK, Reply
    <2> QED
      BY <1>1, <2>1, Survives DEF FenceInv, FenceReplies
  <1>3. ASSUME NEW k \in FenceCall, NEW v \in facks[k], up'[v]
        PROVE  FencedIn(v, Fences[k])'
    <2>1. v \in Validator /\ Fences[k] \in Epoch
      BY EngineAssumption DEF TypeOK
    <2> QED
      BY <1>1, <1>3, <2>1, Survives DEF FenceInv, FenceCalls
  <1>4. ASSUME facks' = facks
        PROVE  FenceCalls'
    BY <1>3, <1>4 DEF FenceCalls
  <1>5. ASSUME facks' = facks, \A k \in FenceCall : fpc'[k] = "fenced" => fpc[k] = "fenced"
        PROVE  FenceCounted'
    BY <1>5 DEF FenceInv, FenceCounted
  <1>6. ASSUME NEW k \in FenceCall, FenceNext(k) \/ TimeoutFence(k)
        PROVE  FenceInv'
    <2>1. replies' \subseteq replies
      BY <1>6 DEF FenceNext, StartFence, RejectFence, LocalFence, DrainFenceAcks, TimeoutFence
    <2>2. CASE LocalFence(k)
      <3>1. /\ facks' = [facks EXCEPT ![k] = {Leader}]
            /\ fpc' = [fpc EXCEPT ![k] = IF Need <= 1 THEN "fenced" ELSE "acking"]
        BY <2>2 DEF LocalFence
      <3>2. FencedIn(Leader, Fences[k])'
        <4>1. state[Leader] \in ShardStates /\ Fences[k] \in Epoch /\ Leader \in Validator
          BY EngineAssumption DEF TypeOK
        <4>2. CASE FencedIn(Leader, Fences[k])
          BY <2>2, <4>2 DEF LocalFence, RecordFence, FencedIn
        <4>3. CASE ~FencedIn(Leader, Fences[k])
          <5>1. Record(Leader, Fenced(Fences[k]))
            BY <2>2, <4>3 DEF LocalFence, RecordFence, FencedIn
          <5>2. state'[Leader] = fence_epoch(state[Leader], Fences[k])
            BY <4>1, <5>1 DEF Record, apply_record, Fenced, TypeOK
          <5> QED
            BY <4>1, <5>2 DEF FencedIn, fence_epoch, ShardStates
        <4> QED
          BY <4>2, <4>3
      <3>3. FenceCalls'
        BY <1>3, <3>1, <3>2 DEF FenceCalls, TypeOK
      <3>4. FenceCounted'
        <4> SUFFICES ASSUME NEW j \in FenceCall, fpc'[j] = "fenced"
                     PROVE  Cardinality(facks'[j]) >= Need
          BY DEF FenceCounted
        <4>1. CASE j = k
          BY <3>1, <4>1, OneSuffices DEF TypeOK
        <4>2. CASE j # k
          BY <3>1, <4>2 DEF TypeOK, FenceInv, FenceCounted
        <4> QED
          BY <4>1, <4>2
      <3> QED
        BY <1>2, <2>1, <3>3, <3>4 DEF FenceInv
    <2>3. CASE DrainFenceAcks(k)
      <3> DEFINE got == facks[k] \cup Senders(LAMBDA v : FenceDurableAck(Fences[k], v))
      <3>1. /\ facks' = [facks EXCEPT ![k] = got]
            /\ fpc' = [fpc EXCEPT ![k] = IF Cardinality(got) >= Need THEN "fenced" ELSE @]
            /\ state' = state /\ up' = up /\ fpc[k] = "acking"
        BY <2>3 DEF DrainFenceAcks
      <3>2. \A v \in got : up'[v] => FencedIn(v, Fences[k])'
        BY <1>3, <3>1 DEF Senders, FenceDurableAck, FenceInv, FenceReplies, FencedIn
      <3> HIDE DEF got
      <3>3. FenceCalls'
        BY <1>3, <3>1, <3>2 DEF FenceCalls, TypeOK
      <3>4. FenceCounted'
        BY <3>1 DEF TypeOK, FenceInv, FenceCounted
      <3> QED
        BY <1>2, <2>1, <3>3, <3>4 DEF FenceInv
    <2>4. CASE ~LocalFence(k) /\ ~DrainFenceAcks(k)
      <3>1. facks' = facks
        BY <1>6, <2>4 DEF FenceNext, StartFence, RejectFence, TimeoutFence
      <3>2. \A j \in FenceCall : fpc'[j] = "fenced" => fpc[j] = "fenced"
        BY <1>6, <2>4 DEF FenceNext, StartFence, RejectFence, TimeoutFence, TypeOK
      <3> QED
        BY <1>2, <1>4, <1>5, <2>1, <3>1, <3>2 DEF FenceInv
    <2> QED
      BY <2>2, <2>3, <2>4
  <1>7. ASSUME NEW f \in Follower, PumpNext(f)
        PROVE  FenceInv'
    <2>1. facks' = facks /\ fpc' = fpc /\ up' = up
      BY <1>7 DEF PumpNext, OnPropose, OnCommit, OnFenceCommit, Receive
    <2>2. FenceReplies'
      <3>1. CASE OnFenceCommit(f)
        <4> DEFINE e == Head(inbox[f]).epoch
        <4>1. f \in Validator /\ e \in Epoch /\ state[f] \in ShardStates
          BY <3>1, HeadType DEF OnFenceCommit, Receive, Follower, TypeOK
        <4>2. state'[f].epoch_states[e] = "Fenced"
          <5>1. CASE FencedIn(f, e)
            BY <3>1, <5>1 DEF OnFenceCommit, RecordFence, FencedIn
          <5>2. CASE ~FencedIn(f, e)
            <6>1. Record(f, Fenced(e))
              BY <3>1, <5>2 DEF OnFenceCommit, RecordFence, FencedIn
            <6>2. state'[f] = fence_epoch(state[f], e)
              BY <4>1, <6>1 DEF Record, apply_record, Fenced, TypeOK
            <6> QED
              BY <4>1, <6>2 DEF FencedIn, fence_epoch, ShardStates
          <5> QED
            BY <5>1, <5>2
        <4>3. replies' = replies \cup {FenceDurableAck(e, f)}
          BY <3>1 DEF OnFenceCommit
        <4> SUFFICES ASSUME NEW m \in replies', m.type = "FenceDurableAck", up'[m.from]
                     PROVE  FencedIn(m.from, m.epoch)'
          BY DEF FenceReplies
        <4>4. CASE m = FenceDurableAck(e, f)
          BY <4>2, <4>4 DEF FenceDurableAck, FencedIn
        <4>5. CASE m \in replies
          <5>1. m.from \in Validator /\ m.epoch \in Epoch
            BY <4>5 DEF TypeOK, Reply
          <5> QED
            BY <1>1, <4>5, <5>1, Survives DEF FenceInv, FenceReplies
        <4> QED
          BY <4>3, <4>4, <4>5
      <3>2. CASE ~OnFenceCommit(f)
        <4>1. \A m \in replies' : m.type = "FenceDurableAck" => m \in replies
          BY <1>7, <3>2 DEF PumpNext, OnPropose, OnCommit, Vote, DurableAck
        <4> QED
          BY <1>2, <4>1
      <3> QED
        BY <3>1, <3>2
    <2> QED
      BY <1>4, <1>5, <2>1, <2>2 DEF FenceInv
  <1>8. ASSUME NEW disk, Reboot(disk)
        PROVE  FenceInv'
    <2>1. replies' \subseteq replies /\ facks' = facks
      BY <1>8 DEF Reboot
    <2>2. \A k \in FenceCall : fpc'[k] = "fenced" => fpc[k] = "fenced"
      BY <1>8 DEF Reboot
    <2> QED
      BY <1>2, <1>4, <1>5, <2>1, <2>2 DEF FenceInv
  <1>9. ASSUME replies' \subseteq replies, UNCHANGED <<facks, fpc>>
        PROVE  FenceInv'
    BY <1>2, <1>4, <1>5, <1>9 DEF FenceInv
  <1>10. ASSUME NEW c \in Call, PayNext(c) \/ TimeoutPay(c)
         PROVE  FenceInv'
    <2>1. replies' \subseteq replies /\ facks' = facks /\ fpc' = fpc
      BY <1>10 DEF PayNext, StartPay, RejectPay, DrainVotes, SendCommit, CommitPay,
                   DrainAcks, ReplyPay, TimeoutPay
    <2> QED
      BY <1>9, <2>1
  <1> QED
    BY <1>6, <1>7, <1>8, <1>9, <1>10
       DEF Next, PromptNext, FaultNext, ActivateCapability, Kill, RebootClean, RebootTorn, vars

(* The inductive invariant of the whole engine.                            *)
EngineInv == TypeOK /\ WalMatchesMemory /\ AckInv /\ FenceInv

(* The inductive invariant holds in every reachable state.                 *)
LEMMA EngineInvariant ==
    Spec => []EngineInv
  <1>1. Init => EngineInv
    BY InitInvariant DEF Init, EngineInv, AckInv, AckedReplies, AckedCalls, AckedQuorum,
                         FenceInv, FenceReplies, FenceCalls, FenceCounted
  <1>2. EngineInv /\ [Next]_vars => EngineInv'
    BY TypeNext, StoreNext, AckNext, FenceInvNext DEF EngineInv
  <1> QED
    BY <1>1, <1>2, PTL DEF Spec

(* Whatever crashes, restarts or runs concurrently, every EdgeAccept has   *)
(* behind it a quorum of validators that hold the sequence consumed or     *)
(* cannot start.                                                           *)
THEOREM AcceptedIsDurable ==
    Spec => []CommitBeforeAccept
  <1>1. EngineInv => CommitBeforeAccept
    <2> SUFFICES ASSUME EngineInv, NEW c \in Accepted
                 PROVE  \E Q \in SUBSET Validator :
                          /\ Cardinality(Q) >= Need
                          /\ \A v \in Q : up[v] => is_consumed(state[v], Body(c))
      BY DEF CommitBeforeAccept
    <2>1. c \in Call /\ pc[c] = "accepted"
      BY DEF Accepted
    <2>2. acks[c] \in SUBSET Validator
      BY <2>1 DEF EngineInv, TypeOK
    <2> WITNESS acks[c] \in SUBSET Validator
    <2> QED
      BY <2>1 DEF EngineInv, AckInv, AckedCalls, AckedQuorum
  <1> QED
    BY <1>1, EngineInvariant, PTL

(* The same for a fence: when fence_epoch has returned, a quorum holds the *)
(* fence or cannot start.                                                  *)
THEOREM FenceIsDurable ==
    Spec => []FenceQuorum
  <1>1. EngineInv => FenceQuorum
    <2> SUFFICES ASSUME EngineInv, NEW k \in FenceCall, fpc[k] = "fenced"
                 PROVE  \E Q \in SUBSET Validator :
                          Cardinality(Q) >= Need /\ \A v \in Q : up[v] => FencedIn(v, Fences[k])
      BY DEF FenceQuorum
    <2>1. facks[k] \in SUBSET Validator
      BY DEF EngineInv, TypeOK
    <2> WITNESS facks[k] \in SUBSET Validator
    <2> QED
      BY DEF EngineInv, FenceInv, FenceCalls, FenceCounted
  <1> QED
    BY <1>1, EngineInvariant, PTL

(* A validator that has fenced an epoch never consumes a sequence of it    *)
(* again, through restarts and later activations.                          *)
THEOREM FenceIsFinal ==
    Spec => FencedEpochFrozen
  <1>1. EngineInv /\ [Next]_vars =>
          [\A v \in Validator, e \in Epoch :
              up[v] /\ up'[v] /\ FencedIn(v, e) =>
                  /\ FencedIn(v, e)'
                  /\ \A k \in state'[v].consumed \ state[v].consumed : k[2] # e]_vars
    <2> SUFFICES ASSUME EngineInv, [Next]_vars, NEW v \in Validator, NEW e \in Epoch,
                        up'[v], FencedIn(v, e)
                 PROVE  /\ FencedIn(v, e)'
                        /\ \A k \in state'[v].consumed \ state[v].consumed : k[2] # e
      OBVIOUS
    <2>1. Moves(state[v], state'[v])
      BY StoreNext DEF EngineInv, StoreMoves
    <2> QED
      BY <2>1 DEF Moves, FencedIn
  <1> QED
    BY <1>1, EngineInvariant, PTL DEF Spec, FencedEpochFrozen

-----------------------------------------------------------------------------
(* The leader answers for itself first: it commits before it collects      *)
(* acknowledgements, and fences before it collects them.                   *)
Committed == {"acking", "replying", "accepted"}
LeaderInv ==
    /\ \A c \in Call : pc[c] \in Committed => Leader \in acks[c]
    /\ \A k \in FenceCall : fpc[k] \in {"acking", "fenced"} => Leader \in facks[k]

(* The leader is among the validators it counted once it has committed.    *)
LEMMA LeaderNext ==
    ASSUME TypeOK, LeaderInv, [Next]_vars
    PROVE  LeaderInv'
  <1> USE DEF storeVars, nodeVars, netVars, payVars, fenceVars, boundVars, Committed
  <1>1. ASSUME NEW c \in Call, PayNext(c) \/ TimeoutPay(c)
        PROVE  LeaderInv'
    <2>1. fpc' = fpc /\ facks' = facks
      BY <1>1 DEF PayNext, StartPay, RejectPay, DrainVotes, SendCommit, CommitPay,
                  DrainAcks, ReplyPay, TimeoutPay
    <2>2. CASE CommitPay(c)
      <3>1. \/ acks' = [acks EXCEPT ![c] = {Leader}] /\ \E p \in Committed : pc' = [pc EXCEPT ![c] = p]
            \/ acks' = acks /\ pc' = [pc EXCEPT ![c] = "failed"]
        BY <2>2 DEF CommitPay
      <3> QED
        BY <2>1, <3>1 DEF LeaderInv, TypeOK
    <2>3. CASE DrainAcks(c)
      BY <2>1, <2>3 DEF DrainAcks, LeaderInv, TypeOK
    <2>4. CASE ~CommitPay(c) /\ ~DrainAcks(c)
      <3>1. acks' = acks
        BY <1>1, <2>4 DEF PayNext, StartPay, RejectPay, DrainVotes, SendCommit, ReplyPay, TimeoutPay
      <3>2. \A d \in Call : pc'[d] \in Committed => pc[d] \in Committed
        BY ZenonT(60), <1>1, <2>4 DEF PayNext, StartPay, RejectPay, DrainVotes, SendCommit, ReplyPay,
                          TimeoutPay, TypeOK
      <3> QED
        BY <2>1, <3>1, <3>2 DEF LeaderInv
    <2> QED
      BY <2>2, <2>3, <2>4
  <1>2. ASSUME NEW k \in FenceCall, FenceNext(k) \/ TimeoutFence(k)
        PROVE  LeaderInv'
    <2>1. pc' = pc /\ acks' = acks
      BY <1>2 DEF FenceNext, StartFence, RejectFence, LocalFence, DrainFenceAcks, TimeoutFence
    <2>2. CASE LocalFence(k)
      <3>1. facks' = [facks EXCEPT ![k] = {Leader}] /\ \E p \in {"acking", "fenced"} : fpc' = [fpc EXCEPT ![k] = p]
        BY <2>2 DEF LocalFence
      <3> QED
        BY <2>1, <3>1 DEF LeaderInv, TypeOK
    <2>3. CASE DrainFenceAcks(k)
      BY <2>1, <2>3 DEF DrainFenceAcks, LeaderInv, TypeOK
    <2>4. CASE StartFence(k) \/ RejectFence(k) \/ TimeoutFence(k)
      <3>1. facks' = facks /\ \E p \in {"fencing", "rejected", "failed"} : fpc' = [fpc EXCEPT ![k] = p]
        BY <2>4 DEF StartFence, RejectFence, TimeoutFence
      <3> QED
        BY <2>1, <3>1 DEF LeaderInv, TypeOK
    <2> QED
      BY <1>2, <2>2, <2>3, <2>4 DEF FenceNext
  <1>3. ASSUME NEW disk, Reboot(disk)
        PROVE  LeaderInv'
    BY <1>3 DEF Reboot, LeaderInv
  <1>4. ASSUME UNCHANGED <<pc, acks, fpc, facks>>
        PROVE  LeaderInv'
    BY <1>4 DEF LeaderInv
  <1>5. ASSUME NEW f \in Follower, PumpNext(f)
        PROVE  LeaderInv'
    BY <1>4, <1>5 DEF PumpNext, OnPropose, OnCommit, OnFenceCommit, Receive
  <1> QED
    BY <1>1, <1>2, <1>3, <1>4, <1>5
       DEF Next, PromptNext, FaultNext, ActivateCapability, Kill, RebootClean, RebootTorn, vars

(* That holds in every reachable state.                                    *)
LEMMA LeaderInvariant ==
    Spec => []LeaderInv
  <1>1. Init => LeaderInv
    BY DEF Init, LeaderInv, Committed
  <1>2. EngineInv /\ LeaderInv /\ [Next]_vars => LeaderInv'
    BY LeaderNext DEF EngineInv
  <1> QED
    BY <1>1, <1>2, EngineInvariant, PTL DEF Spec

(* A call moves past its commit only by committing at the leader.          *)
LEMMA EntersCommitted ==
    ASSUME TypeOK, [Next]_vars, NEW c \in Call, pc[c] \notin Committed, pc'[c] \in Committed
    PROVE  /\ CommitPay(c)
           /\ is_consumed(state[Leader], Body(c)) \/ CanConsume(state[Leader], Body(c))
  <1> USE DEF storeVars, nodeVars, netVars, payVars, fenceVars, boundVars, Committed
  <1>1. CASE \E d \in Call : PayNext(d) \/ TimeoutPay(d)
    <2>1. PICK d \in Call : PayNext(d) \/ TimeoutPay(d)
      BY <1>1
    <2>2. CASE CommitPay(d)
      <3>1. \E p \in Committed \cup {"failed"} : pc' = [pc EXCEPT ![d] = p]
        BY <2>2 DEF CommitPay
      <3>2. d = c
        BY <3>1 DEF TypeOK
      <3>3. ~(is_consumed(state[Leader], Body(c)) \/ CanConsume(state[Leader], Body(c)))
              => pc' = [pc EXCEPT ![c] = "failed"]
        BY <2>2, <3>2 DEF CommitPay
      <3> QED
        BY <2>2, <3>2, <3>3 DEF TypeOK
    <2>3. CASE ~CommitPay(d)
      BY ZenonT(60), <2>1, <2>3 DEF PayNext, StartPay, RejectPay, DrainVotes, SendCommit, DrainAcks,
                        ReplyPay, TimeoutPay, TypeOK
    <2> QED
      BY <2>2, <2>3
  <1>2. CASE \E k \in FenceCall : FenceNext(k) \/ TimeoutFence(k)
    BY <1>2 DEF FenceNext, StartFence, RejectFence, LocalFence, DrainFenceAcks, TimeoutFence
  <1>3. CASE \E f \in Follower : PumpNext(f)
    BY <1>3 DEF PumpNext, OnPropose, OnCommit, OnFenceCommit, Receive
  <1>4. CASE \E disk : Reboot(disk)
    BY <1>4 DEF Reboot
  <1>5. CASE pc' = pc
    BY <1>5
  <1> QED
    BY <1>1, <1>2, <1>3, <1>4, <1>5
       DEF Next, PromptNext, FaultNext, ActivateCapability, Kill, RebootClean, RebootTorn, vars

(* After fence_epoch has returned, no call of the epoch that the leader    *)
(* has not committed gets past its commit.                                 *)
THEOREM FenceBlocksAccept ==
    Spec => FenceStopsSpending
  <1>1. EngineInv /\ LeaderInv /\ [Next]_vars =>
          [\A k \in FenceCall, c \in Call :
              /\ fpc[k] = "fenced" /\ Body(c).epoch = Fences[k]
              /\ up[Leader] /\ ~is_consumed(state[Leader], Body(c))
              => pc'[c] \notin {"acking", "replying", "accepted"}]_vars
    <2> SUFFICES ASSUME EngineInv, LeaderInv, [Next]_vars, NEW k \in FenceCall, NEW c \in Call,
                        fpc[k] = "fenced", Body(c).epoch = Fences[k],
                        up[Leader], ~is_consumed(state[Leader], Body(c)),
                        pc'[c] \in Committed
                 PROVE  FALSE
      BY DEF Committed
    <2>1. pc[c] \notin Committed
      BY DEF LeaderInv, EngineInv, AckInv, AckedCalls
    <2>2. CanConsume(state[Leader], Body(c))
      BY <2>1, EntersCommitted DEF EngineInv
    <2>3. FencedIn(Leader, Fences[k])
      BY DEF LeaderInv, EngineInv, FenceInv, FenceCalls
    <2> QED
      BY <2>2, <2>3 DEF CanConsume, FencedIn
  <1> QED
    BY <1>1, EngineInvariant, LeaderInvariant, PTL DEF Spec, FenceStopsSpending

-----------------------------------------------------------------------------
(* One PAY at a time, while fences, followers, timeouts and restarts do as *)
(* they like.  With MaxInFlight = 1 the engine is the sequential service   *)
(* its tests use, where this holds by itself (OneAtATime).                 *)
OnePay == \A c, d \in PayActive : c = d

Early == {"voting", "committing", "persisting"}
Late  == {"acking", "replying"}

OneCall ==
    /\ \A c \in PayActive : up[Leader]
    /\ \A c, d \in PayActive : c = d
FreshUntilCommit ==
    \A c \in Call : pc[c] \in Early => ~is_consumed(state[Leader], Body(c))
CommittedOnce ==
    \A c, d \in Call :
        pc[c] \in Committed /\ pc[d] \in Committed /\ Key(Body(c)) = Key(Body(d)) => c = d
IndexBehind ==
    \A d \in Accepted :
        /\ up[Leader] => index[d] <= state[Leader].commit_index
        /\ \A c \in Call : pc[c] \in Late => index[d] < state[Leader].commit_index
SeqInv == OneCall /\ FreshUntilCommit /\ CommittedOnce /\ IndexBehind /\ CommitIndexUnique

(* With one call in flight at a time, a call that starts is the only one.  *)
LEMMA StartsAlone ==
    ASSUME MaxInFlight = 1, MayStart
    PROVE  PayActive = {}
  <1>1. IsFiniteSet(PayActive) /\ IsFiniteSet(FenceActive)
    BY EngineAssumption, FS_Subset DEF PayActive, FenceActive
  <1>2. Cardinality(PayActive) \in Nat /\ Cardinality(FenceActive) \in Nat
    BY <1>1, FS_CardinalityType
  <1>3. Cardinality(PayActive) = 0
    BY <1>2 DEF MayStart
  <1> QED
    BY <1>1, <1>3, FS_EmptySet

(* The leader's consumed set and commit index move only in CommitPay.      *)
LEMMA LeaderStore ==
    ASSUME TypeOK, WalMatchesMemory, [Next]_vars, up'[Leader], \A c \in Call : ~CommitPay(c)
    PROVE  /\ up[Leader]
           /\ state'[Leader].consumed = state[Leader].consumed
           /\ state'[Leader].commit_index = state[Leader].commit_index
  <1> USE DEF storeVars, nodeVars, netVars, payVars, fenceVars, boundVars
  <1> DEFINE Goal == /\ state'[Leader].consumed = state[Leader].consumed
                     /\ state'[Leader].commit_index = state[Leader].commit_index
  <1>1. StoreOK /\ Leader \in Validator
    BY EngineAssumption DEF TypeOK, StoreOK
  <1>2. up[Leader]
    BY <1>1, StoreNext DEF StoreMoves
  <1>3. \A st \in ShardStates : \A r :
          (\E c \in CapabilityId : r = Activated(c)) \/ (\E e \in Epoch : r = Fenced(e)) =>
              /\ apply_record(st, r).consumed = st.consumed
              /\ apply_record(st, r).commit_index = st.commit_index
    BY DEF apply_record, Activated, Fenced, activate_capability, fence_epoch, ShardStates
  <1>4. ASSUME NEW v \in Validator, NEW r,
               (\E c \in CapabilityId : r = Activated(c)) \/ (\E e \in Epoch : r = Fenced(e)),
               Record(v, r)
        PROVE  Goal
    BY <1>1, <1>3, <1>4 DEF Record, StoreOK
  <1>5. ASSUME state' = state
        PROVE  Goal
    BY <1>5
  <1>6. ASSUME NEW c \in Call, PayNext(c) \/ TimeoutPay(c)
        PROVE  Goal
    BY <1>5, <1>6 DEF PayNext, StartPay, RejectPay, DrainVotes, SendCommit, DrainAcks,
                      ReplyPay, TimeoutPay
  <1>7. ASSUME NEW k \in FenceCall, FenceNext(k) \/ TimeoutFence(k)
        PROVE  Goal
    <2>1. CASE LocalFence(k)
      <3>1. Fences[k] \in Epoch
        BY EngineAssumption
      <3> QED
        BY <1>1, <1>4, <1>5, <2>1, <3>1 DEF LocalFence, RecordFence
    <2>2. CASE ~LocalFence(k)
      BY <1>5, <1>7, <2>2 DEF FenceNext, StartFence, RejectFence, DrainFenceAcks, TimeoutFence
    <2> QED
      BY <2>1, <2>2
  <1>8. ASSUME NEW f \in Follower, PumpNext(f)
        PROVE  Goal
    <2>1. f \in Validator /\ f # Leader /\ Leader \in Validator \ {f}
      BY <1>1 DEF Follower
    <2>2. CASE OnPropose(f)
      BY <1>5, <2>2 DEF OnPropose
    <2>3. CASE OnCommit(f)
      BY <1>5, <2>1, <2>3 DEF OnCommit, durable_commit, TypeOK
    <2>4. CASE OnFenceCommit(f)
      <3>1. Head(inbox[f]).epoch \in Epoch
        BY <2>4, HeadType DEF OnFenceCommit, Receive
      <3> QED
        BY <1>4, <1>5, <2>1, <2>4, <3>1 DEF OnFenceCommit, RecordFence
    <2> QED
      BY <1>8, <2>2, <2>3, <2>4 DEF PumpNext
  <1>9. ASSUME RebootClean
        PROVE  Goal
    <2>1. state'[Leader] = state[Leader]
      BY <1>1, <1>9, RebootStep DEF RebootClean, StoreOK
    <2> QED
      BY <2>1
  <1>10. ASSUME NEW v \in Validator, NEW tail \in TornTails, RebootTorn(v, tail)
         PROVE  Goal
    <2> DEFINE disk == [wal EXCEPT ![v] = TornAppend(@, tail)]
    <2>1. /\ disk \in [Validator -> WalFiles]
          /\ \A w \in Validator : /\ disk[w].st = wal[w].st
                                  /\ Replays(disk[w]) => Replays(wal[w])
      BY <1>1, TornReplays DEF StoreOK
    <2>2. Reboot(disk)
      BY <1>10 DEF RebootTorn
    <2> HIDE DEF disk
    <2>3. state'[Leader] = state[Leader]
      BY <1>1, <2>1, <2>2, RebootStep
    <2> QED
      BY <2>3
  <1>11. ASSUME NEW v \in Validator, NEW c \in CapabilityId, ActivateCapability(v, c)
         PROVE  Goal
    BY <1>4, <1>11 DEF ActivateCapability
  <1>12. Goal
    BY <1>5, <1>6, <1>7, <1>8, <1>9, <1>10, <1>11 DEF Next, PromptNext, FaultNext, Kill, vars
  <1> QED
    BY <1>2, <1>12

(* Every step keeps the invariant of the sequential leader.                *)
LEMMA SeqNext ==
    ASSUME EngineInv, LeaderInv, SeqInv, [Next]_vars, OnePay'
    PROVE  SeqInv'
  <1> USE DEF storeVars, nodeVars, netVars, payVars, fenceVars, boundVars
  <1>1. TypeOK /\ WalMatchesMemory /\ Leader \in Validator
    BY EngineAssumption DEF EngineInv
  <1>2. \A c \in Call : Body(c) \in PayCommitBody
    BY BodyType
  <1>3. \A c \in Call : pc[c] \in Committed /\ up[Leader] => is_consumed(state[Leader], Body(c))
    BY DEF LeaderInv, EngineInv, AckInv, AckedCalls
  <1>4. state[Leader].commit_index \in Nat /\ \A c \in Call : index[c] \in Nat
    BY <1>1 DEF TypeOK, ShardStates
  (* A call moves within its phase or ends, and no commit happens.         *)
  <1>5. ASSUME NEW c \in Call, NEW p,
               pc' = [pc EXCEPT ![c] = p], UNCHANGED <<state, up, index>>,
               p \in Early => pc[c] \in Early, p \in Late => pc[c] \in Late,
               p # "accepted"
        PROVE  SeqInv'
    <2>1. /\ \A d \in Call : pc'[d] \in Early => pc[d] \in Early
          /\ \A d \in Call : pc'[d] \in Late => pc[d] \in Late
          /\ \A d \in Call : pc'[d] = "accepted" => pc[d] = "accepted"
      BY <1>1, <1>5 DEF TypeOK
    <2>2. OneCall'
      BY <1>5, <2>1 DEF SeqInv, OneCall, PayActive, Running, Early, Late
    <2>3. FreshUntilCommit'
      BY <1>5, <2>1 DEF SeqInv, FreshUntilCommit
    <2>4. CommittedOnce'
      BY <2>1 DEF SeqInv, CommittedOnce, Committed, Late
    <2>5. IndexBehind'
      BY <1>5, <2>1 DEF SeqInv, IndexBehind, Accepted
    <2>6. CommitIndexUnique'
      BY <1>5, <2>1 DEF SeqInv, CommitIndexUnique, Accepted
    <2> QED
      BY <2>2, <2>3, <2>4, <2>5, <2>6 DEF SeqInv
  <1>6. ASSUME NEW c \in Call, StartPay(c)
        PROVE  SeqInv'
    <2>2. pc[c] = "idle" /\ \E p \in Early : pc' = [pc EXCEPT ![c] = p]
      BY <1>6 DEF StartPay, Early
    <2>1. PayActive = {}
      <3>1. c \in PayActive' /\ c \notin PayActive
        BY <1>1, <2>2 DEF TypeOK, PayActive, Running, Early
      <3>2. PayActive \subseteq PayActive'
        BY <1>1, <2>2 DEF TypeOK, PayActive, Running
      <3> QED
        BY <3>1, <3>2 DEF OnePay
    <2>3. UNCHANGED <<state, up, index>> /\ up[Leader]
      BY <1>6 DEF StartPay
    <2>4. ~is_consumed(state[Leader], Body(c))
      BY <1>6 DEF StartPay, validate_pay, is_consumed, Key, Body, from_pay
    <2>5. \A d \in Call : d # c => pc[d] \notin Early \cup Late
      BY <2>1 DEF PayActive, Running, Early, Late
    <2>6. /\ \A d \in Call : pc'[d] \in Early \cup Late => d = c
          /\ \A d \in Call : pc'[d] \in Committed => pc[d] = "accepted" /\ pc'[d] = "accepted"
          /\ pc'[c] \in Early
      BY <1>1, <2>2, <2>5 DEF TypeOK, Committed, Early, Late
    <2>7. OneCall'
      BY <2>3, <2>6 DEF OneCall, PayActive, Running, Early, Late
    <2>8. FreshUntilCommit'
      BY <2>3, <2>4, <2>6 DEF FreshUntilCommit
    <2>9. CommittedOnce'
      BY <2>6 DEF SeqInv, CommittedOnce, Committed
    <2>10. IndexBehind'
      BY <2>3, <2>6 DEF SeqInv, IndexBehind, Accepted, Committed, Late, Early
    <2>11. CommitIndexUnique'
      BY <2>3, <2>6 DEF SeqInv, CommitIndexUnique, Accepted, Committed
    <2> QED
      BY <2>7, <2>8, <2>9, <2>10, <2>11 DEF SeqInv
  <1>7. ASSUME NEW c \in Call, CommitPay(c)
        PROVE  SeqInv'
    <2>1. pc[c] = "persisting" /\ up' = up /\ index' = index
      BY <1>7 DEF CommitPay
    <2>2. up[Leader] /\ ~is_consumed(state[Leader], Body(c))
      BY <2>1 DEF SeqInv, OneCall, FreshUntilCommit, PayActive, Running, Early
    <2>3. durable_commit(Leader, Body(c))
      BY <1>7, <2>2 DEF CommitPay
    <2>4. \A d \in Call : d # c => pc[d] \notin Early \cup Late
      BY <2>1 DEF SeqInv, OneCall, PayActive, Running, Early, Late
    <2>5. CASE ~CanConsume(state[Leader], Body(c))
      <3>1. pc' = [pc EXCEPT ![c] = "failed"]
        BY <1>7, <2>2, <2>5 DEF CommitPay
      <3>2. state' = state
        BY <1>1, <2>3, <2>5 DEF durable_commit, TypeOK
      <3> QED
        BY <1>5, <2>1, <3>1, <3>2 DEF Early, Late
    <2>6. CASE CanConsume(state[Leader], Body(c))
      <3>1. \E p \in Late : pc' = [pc EXCEPT ![c] = p]
        BY <1>7, <2>6 DEF CommitPay, Late
      <3>2. state'[Leader].commit_index = state[Leader].commit_index + 1
        <4>1. state'[Leader] = consume_pay(state[Leader], Body(c))
          BY <1>1, <2>3, <2>6 DEF durable_commit, TypeOK
        <4>2. state[Leader] \in ShardStates
          BY <1>1 DEF TypeOK
        <4> QED
          BY <4>1, <4>2 DEF consume_pay, ShardStates
      <3>3. /\ pc'[c] \in Late
            /\ \A d \in Call : pc'[d] \in Early \cup Late => d = c
            /\ \A d \in Call : d # c /\ pc'[d] \in Committed => pc[d] = "accepted"
            /\ \A d \in Call : pc'[d] = "accepted" => pc[d] = "accepted"
        BY <1>1, <2>4, <3>1 DEF TypeOK, Committed, Early, Late
      <3>4. OneCall'
        BY <2>1, <2>2, <3>3 DEF OneCall, PayActive, Running, Early, Late
      <3>5. FreshUntilCommit'
        BY <3>3 DEF FreshUntilCommit, Early, Late
      <3>6. \A d \in Call : pc[d] = "accepted" => Key(Body(d)) # Key(Body(c))
        BY <1>3, <2>2 DEF is_consumed, Committed
      <3>7. CommittedOnce'
        BY <3>3, <3>6 DEF SeqInv, CommittedOnce, Committed
      <3>8. IndexBehind'
        BY <1>4, <2>1, <2>2, <3>2, <3>3 DEF SeqInv, IndexBehind, Accepted
      <3>9. CommitIndexUnique'
        BY <2>1, <3>3 DEF SeqInv, CommitIndexUnique, Accepted
      <3> QED
        BY <3>4, <3>5, <3>7, <3>8, <3>9 DEF SeqInv
    <2> QED
      BY <2>5, <2>6
  <1>8. ASSUME NEW c \in Call, ReplyPay(c)
        PROVE  SeqInv'
    <2>1. /\ pc[c] = "replying" /\ pc' = [pc EXCEPT ![c] = "accepted"]
          /\ index' = [index EXCEPT ![c] = state[Leader].commit_index]
          /\ UNCHANGED <<state, up>>
      BY <1>8 DEF ReplyPay
    <2>2. \A d \in Call : d # c => pc[d] \notin Early \cup Late
      BY <2>1 DEF SeqInv, OneCall, PayActive, Running, Early, Late
    <2>3. /\ \A d \in Call : pc'[d] \notin Early \cup Late
          /\ \A d \in Call : d # c => pc'[d] = pc[d] /\ index'[d] = index[d]
          /\ index'[c] = state[Leader].commit_index
          /\ \A d \in Call : pc'[d] \in Committed => pc[d] \in Committed
      BY <1>1, <2>1, <2>2 DEF TypeOK, Committed, Early, Late
    <2>4. \A d \in Accepted : index[d] < state[Leader].commit_index /\ d # c
      BY <2>1 DEF SeqInv, IndexBehind, Late, Accepted
    <2>5. OneCall' /\ FreshUntilCommit'
      BY <2>3 DEF OneCall, FreshUntilCommit, PayActive, Running, Early, Late
    <2>6. CommittedOnce'
      BY <2>3 DEF SeqInv, CommittedOnce
    <2>7. IndexBehind'
      BY <1>4, <2>1, <2>3, <2>4 DEF IndexBehind, Accepted
    <2>8. CommitIndexUnique'
      BY <1>4, <2>3, <2>4 DEF SeqInv, CommitIndexUnique, Accepted
    <2> QED
      BY <2>5, <2>6, <2>7, <2>8 DEF SeqInv
  <1>9. ASSUME NEW c \in Call, PayNext(c) \/ TimeoutPay(c)
        PROVE  SeqInv'
    <2>1. CASE RejectPay(c) \/ TimeoutPay(c)
      BY <1>5, <2>1 DEF RejectPay, TimeoutPay, Early, Late
    <2>2. CASE DrainVotes(c)
      <3>1. /\ pc[c] = "voting" /\ UNCHANGED <<state, up, index>>
            /\ \E p \in Early : pc' = [pc EXCEPT ![c] = p]
        BY <2>2 DEF DrainVotes, Early
      <3> QED
        BY <1>5, <3>1 DEF Early, Late
    <2>3. CASE SendCommit(c)
      BY <1>5, <2>3 DEF SendCommit, Early, Late
    <2>4. CASE DrainAcks(c)
      <3>1. /\ pc[c] = "acking" /\ UNCHANGED <<state, up, index>>
            /\ \E p \in Late : pc' = [pc EXCEPT ![c] = p]
        BY <2>4 DEF DrainAcks, Late
      <3> QED
        BY <1>5, <3>1 DEF Early, Late
    <2> QED
      BY <1>6, <1>7, <1>8, <1>9, <2>1, <2>2, <2>3, <2>4 DEF PayNext
  (* Steps that leave the calls alone or end them all.                     *)
  <1>10. ASSUME index' = index, \A c \in Call : ~CommitPay(c),
                \/ pc' = pc /\ up' = up
                \/ /\ \A c \in Call : pc'[c] \notin Early \cup Late
                   /\ \A c \in Call : pc'[c] = "accepted" => pc[c] = "accepted"
         PROVE  SeqInv'
    <2>1. up'[Leader] => /\ up[Leader]
                         /\ state'[Leader].consumed = state[Leader].consumed
                         /\ state'[Leader].commit_index = state[Leader].commit_index
      BY <1>1, <1>10, LeaderStore
    <2>2. /\ \A c \in Call : pc'[c] \in Early \cup Late => pc'[c] = pc[c] /\ up'[Leader] = up[Leader]
          /\ \A c \in Call : pc'[c] = "accepted" => pc[c] = "accepted"
          /\ \A c \in Call : pc'[c] \in Committed => pc[c] \in Committed
      BY <1>10 DEF Committed, Early, Late
    <2>3. OneCall'
      BY <2>2 DEF SeqInv, OneCall, PayActive, Running, Early, Late
    <2>4. \A c \in Call : pc'[c] \in Early \cup Late => up'[Leader]
      BY <2>3 DEF OneCall, PayActive, Running, Early, Late
    <2>5. FreshUntilCommit'
      BY <2>1, <2>2, <2>4 DEF SeqInv, FreshUntilCommit, is_consumed
    <2>6. CommittedOnce'
      BY <2>2 DEF SeqInv, CommittedOnce
    <2>7. IndexBehind'
      BY <1>10, <2>1, <2>2, <2>4 DEF SeqInv, IndexBehind, Accepted
    <2>8. CommitIndexUnique'
      BY <1>10, <2>2 DEF SeqInv, CommitIndexUnique, Accepted
    <2> QED
      BY <2>3, <2>5, <2>6, <2>7, <2>8 DEF SeqInv
  <1>11. CASE \E c \in Call : PayNext(c) \/ TimeoutPay(c)
    BY <1>9, <1>11
  <1>12. CASE ~\E c \in Call : PayNext(c) \/ TimeoutPay(c)
    <2>1. \A c \in Call : ~CommitPay(c)
      BY <1>12 DEF PayNext
    <2>2. ASSUME NEW disk, Reboot(disk)
          PROVE  SeqInv'
      <3>1. /\ \A c \in Call : pc'[c] \notin Early \cup Late
            /\ \A c \in Call : pc'[c] = "accepted" => pc[c] = "accepted"
            /\ index' = index
        BY <2>2 DEF Reboot, PayActive, Running, Early, Late
      <3> QED
        BY <1>10, <2>1, <3>1
    <2>3. ASSUME NEW k \in FenceCall, FenceNext(k) \/ TimeoutFence(k)
          PROVE  SeqInv'
      BY <1>10, <2>1, <2>3 DEF FenceNext, StartFence, RejectFence, LocalFence, DrainFenceAcks,
                               TimeoutFence
    <2>4. ASSUME NEW f \in Follower, PumpNext(f)
          PROVE  SeqInv'
      BY <1>10, <2>1, <2>4 DEF PumpNext, OnPropose, OnCommit, OnFenceCommit, Receive
    <2>5. ASSUME UNCHANGED <<pc, up, index>>
          PROVE  SeqInv'
      BY <1>10, <2>1, <2>5
    <2> QED
      BY <1>12, <2>2, <2>3, <2>4, <2>5
         DEF Next, PromptNext, FaultNext, ActivateCapability, Kill, RebootClean, RebootTorn, vars
  <1> QED
    BY <1>11, <1>12

(* A leader that serves one call at a time serves one PAY at a time.       *)
LEMMA OneAtATime ==
    ASSUME MaxInFlight = 1
    PROVE  Spec => []OnePay
  <1> USE DEF storeVars, nodeVars, netVars, payVars, fenceVars, boundVars
  <1>1. Init => OnePay
    BY DEF Init, OnePay, PayActive, Running
  <1>2. ASSUME TypeOK, OnePay, [Next]_vars PROVE OnePay'
    <2>1. ASSUME NEW c \in Call, StartPay(c) PROVE OnePay'
      <3>1. PayActive = {}
        BY <2>1, StartsAlone DEF StartPay
      <3>2. \A d \in Call \ {c} : pc'[d] = pc[d]
        BY <1>2, <2>1 DEF StartPay, TypeOK
      <3>3. PayActive' \subseteq {c}
        BY <3>1, <3>2 DEF PayActive
      <3> QED
        BY <3>3 DEF OnePay
    <2>2. ASSUME \A d \in Call : pc'[d] \in Running => pc[d] \in Running PROVE OnePay'
      BY <1>2, <2>2 DEF OnePay, PayActive
    <2>3. ASSUME NEW c \in Call, PayNext(c) \/ TimeoutPay(c), ~StartPay(c) PROVE OnePay'
      <3>1. pc[c] \in Running \/ pc' = [pc EXCEPT ![c] = "rejected"]
        BY <2>3 DEF PayNext, RejectPay, DrainVotes, SendCommit, CommitPay, DrainAcks, ReplyPay,
                    TimeoutPay, Running
      <3>2. \A d \in Call \ {c} : pc'[d] = pc[d]
        BY <1>2, <2>3 DEF PayNext, RejectPay, DrainVotes, SendCommit, CommitPay, DrainAcks,
                          ReplyPay, TimeoutPay, TypeOK
      <3> QED
        BY <1>2, <2>2, <3>1, <3>2 DEF TypeOK, Running
    <2>4. ASSUME NEW disk, Reboot(disk) PROVE OnePay'
      BY <2>2, <2>4 DEF Reboot, PayActive, Running
    <2>5. ASSUME pc' = pc PROVE OnePay'
      BY <2>2, <2>5
    <2>6. ASSUME NEW k \in FenceCall, FenceNext(k) \/ TimeoutFence(k) PROVE OnePay'
      BY <2>5, <2>6 DEF FenceNext, StartFence, RejectFence, LocalFence, DrainFenceAcks, TimeoutFence
    <2>7. ASSUME NEW f \in Follower, PumpNext(f) PROVE OnePay'
      BY <2>5, <2>7 DEF PumpNext, OnPropose, OnCommit, OnFenceCommit, Receive
    <2> QED
      BY <1>2, <2>1, <2>3, <2>4, <2>5, <2>6, <2>7
         DEF Next, PromptNext, FaultNext, ActivateCapability, Kill, RebootClean, RebootTorn, vars
  <1> QED
    BY <1>1, <1>2, WalAgreement, PTL DEF Spec

(* The invariant of the sequential leader holds in every reachable state.  *)
LEMMA SeqInvariant ==
    Spec /\ []OnePay => []SeqInv
  <1>1. Init => SeqInv
    BY DEF Init, SeqInv, OneCall, FreshUntilCommit, CommittedOnce, IndexBehind,
           CommitIndexUnique, Accepted, PayActive, Running, Early, Late, Committed
  <1>2. EngineInv /\ LeaderInv /\ SeqInv /\ [Next]_vars /\ OnePay' => SeqInv'
    BY SeqNext
  <1> QED
    BY <1>1, <1>2, EngineInvariant, LeaderInvariant, PTL DEF Spec

(* Every validator, log, message and call keeps its shape through kills    *)
(* and restarts (ShardValidatorState, WalRecord, ShardMsg).                *)
THEOREM EngineTypeOK ==
    Spec => []TypeOK
  BY WalAgreement, PTL

(* As long as one PAY at a time is served, no sequence is accepted twice,  *)
(* whatever is asked and fenced, however often the shard restarts and      *)
(* however its logs were torn (handle_pay).                                *)
THEOREM SequenceSpentOnce ==
    Spec /\ []OnePay => []SequenceAcceptedOnce
  <1>1. SeqInv => SequenceAcceptedOnce
    BY DEF SeqInv, CommittedOnce, SequenceAcceptedOnce, Accepted, Committed
  <1> QED
    BY <1>1, SeqInvariant, PTL

(* ... and no two accepted calls carry the same commit index.              *)
THEOREM IndexIsUnique ==
    Spec /\ []OnePay => []CommitIndexUnique
  <1>1. SeqInv => CommitIndexUnique
    BY DEF SeqInv
  <1> QED
    BY <1>1, SeqInvariant, PTL

(* In particular the sequential service, whose leader has one call in      *)
(* flight, accepts every sequence once, under an index of its own.         *)
THEOREM SequentialService ==
    ASSUME MaxInFlight = 1
    PROVE  Spec => [](SequenceAcceptedOnce /\ CommitIndexUnique)
  BY OneAtATime, SequenceSpentOnce, IndexIsUnique, PTL
=============================================================================
