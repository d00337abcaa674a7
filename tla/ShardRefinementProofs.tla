----------------------- MODULE ShardRefinementProofs -----------------------
(***************************************************************************)
(* Proofs that the engine implements SpendLedger, and that what it accepts *)
(* on a capability stays within it, for any committee, workload and        *)
(* bounds, with one call at a time.                                        *)
(***************************************************************************)
EXTENDS ShardRefinement, ShardEngineProofs, SumTheorems

(* A running fence_epoch has a running leader, and a leader that is down   *)
(* has nothing in memory.                                                  *)
LeaderUp ==
    /\ \A k \in FenceActive : up[Leader]
    /\ ~up[Leader] => state[Leader] = EmptyState

RefineInv == EngineInv /\ LeaderInv /\ SeqInv /\ LeaderUp

-----------------------------------------------------------------------------
(* The ledger is empty when the engines are.                               *)
LEMMA RefineInit == Init => Ledger!Init
  <1> SUFFICES ASSUME Init PROVE Ledger!Init
    OBVIOUS
  <1>1. state[Leader] = EmptyState /\ up[Leader] = TRUE
    BY EngineAssumption DEF Init
  <1>2. Accepted = {}
    BY DEF Init, Accepted
  <1>3. {e \in Epoch : FencedIn(Leader, e)} = {}
    BY <1>1 DEF FencedIn, EmptyState
  <1> QED
    BY <1>1, <1>2, <1>3 DEF Ledger!Init, EmptyState

(* Where the leader's store and the accepted calls stay, the ledger does.  *)
LEMMA RefineStutter ==
    ASSUME up'[Leader] = up[Leader], state'[Leader].consumed = state[Leader].consumed,
           state'[Leader].commit_index = state[Leader].commit_index,
           \A e \in Epoch : FencedIn(Leader, e)' <=> FencedIn(Leader, e),
           \A c \in Call : pc'[c] = "accepted" <=> pc[c] = "accepted", index' = index
    PROVE  UNCHANGED Ledger!vars
  <1>1. Accepted' = Accepted
    BY DEF Accepted
  <1>2. {e \in Epoch : FencedIn(Leader, e)'} = {e \in Epoch : FencedIn(Leader, e)}
    OBVIOUS
  <1> QED
    BY <1>1, <1>2 DEF Ledger!vars

(* A follower's step leaves the leader's store alone.                      *)
LEMMA PumpElsewhere ==
    ASSUME TypeOK, NEW f \in Follower, PumpNext(f)
    PROVE  state'[Leader] = state[Leader] /\ UNCHANGED <<up, pc, index, fpc>>
  <1> USE DEF storeVars, nodeVars, netVars, payVars, fenceVars, boundVars
  <1>1. f \in Validator /\ f # Leader /\ Leader \in Validator
    BY EngineAssumption DEF Follower
  <1>2. UNCHANGED <<up, pc, index, fpc>>
    BY DEF PumpNext, OnPropose, OnCommit, OnFenceCommit, Receive
  <1>3. ASSUME NEW r, Record(f, r) PROVE state'[Leader] = state[Leader]
    BY <1>1, <1>3 DEF Record, TypeOK
  <1>4. ASSUME NEW b, durable_commit(f, b) PROVE state'[Leader] = state[Leader]
    BY <1>1, <1>4 DEF durable_commit, TypeOK
  <1> QED
    BY <1>2, <1>3, <1>4 DEF PumpNext, OnPropose, OnCommit, OnFenceCommit, RecordFence

(* What a step of a call other than CommitPay does to the leader: nothing. *)
LEMMA PayElsewhere ==
    ASSUME TypeOK, NEW c \in Call, PayNext(c) \/ TimeoutPay(c), ~CommitPay(c)
    PROVE  UNCHANGED <<state, up, fpc>>
  BY DEF storeVars, nodeVars, netVars, payVars, fenceVars, boundVars, PayNext, StartPay,
         RejectPay, DrainVotes, SendCommit, DrainAcks, ReplyPay, TimeoutPay

(* Every step keeps that a leader with a running fence is up.              *)
LEMMA LeaderUpNext ==
    ASSUME EngineInv, SeqInv, LeaderUp, [Next]_vars
    PROVE  LeaderUp'
  <1> USE DEF storeVars, nodeVars, netVars, payVars, fenceVars, boundVars
  <1>0. TypeOK /\ Leader \in Validator
    BY EngineAssumption DEF EngineInv
  <1>1. ASSUME up' = up, FenceActive' \subseteq FenceActive \/ up[Leader],
               ~up[Leader] => state'[Leader] = state[Leader]
        PROVE  LeaderUp'
    BY <1>1 DEF LeaderUp
  <1>2. ASSUME fpc' = fpc PROVE FenceActive' = FenceActive
    BY <1>2 DEF FenceActive
  <1>3. ASSUME NEW v \in Validator, NEW c \in CapabilityId, ActivateCapability(v, c)
        PROVE  LeaderUp'
    <2>1. fpc' = fpc /\ up' = up /\ up[v]
      BY <1>3 DEF ActivateCapability
    <2>2. ~up[Leader] => state'[Leader] = state[Leader]
      BY <1>0, <1>3, <2>1 DEF ActivateCapability, Record, TypeOK
    <2> QED
      BY <1>1, <1>2, <2>1, <2>2
  <1>4. ASSUME NEW c \in Call, PayNext(c) \/ TimeoutPay(c)
        PROVE  LeaderUp'
    <2>1. CASE CommitPay(c)
      <3>1. c \in PayActive
        BY <2>1 DEF CommitPay, PayActive, Running
      <3>2. up[Leader] /\ up' = up
        BY <2>1, <3>1 DEF SeqInv, OneCall, CommitPay
      <3> QED
        BY <1>1, <3>2
    <2>2. CASE ~CommitPay(c)
      BY <1>0, <1>1, <1>2, <1>4, <2>2, PayElsewhere
    <2> QED
      BY <2>1, <2>2
  <1>5. ASSUME NEW k \in FenceCall, FenceNext(k) \/ TimeoutFence(k)
        PROVE  LeaderUp'
    <2>1. CASE LocalFence(k)
      <3>1. k \in FenceActive
        BY <2>1 DEF LocalFence, FenceActive
      <3>2. up[Leader] /\ up' = up
        BY <2>1, <3>1 DEF LeaderUp, LocalFence
      <3> QED
        BY <1>1, <3>2
    <2>2. CASE StartFence(k)
      BY <1>1, <2>2 DEF StartFence
    <2>3. CASE RejectFence(k) \/ DrainFenceAcks(k) \/ TimeoutFence(k)
      <3>1. up' = up /\ state' = state
        BY <2>3 DEF RejectFence, DrainFenceAcks, TimeoutFence
      <3>2. \A j \in FenceCall : fpc'[j] \in {"fencing", "acking"} => fpc[j] \in {"fencing", "acking"}
        BY <1>0, <2>3 DEF RejectFence, DrainFenceAcks, TimeoutFence, TypeOK
      <3>3. FenceActive' \subseteq FenceActive
        BY <3>2 DEF FenceActive
      <3> QED
        BY <1>1, <3>1, <3>3
    <2> QED
      BY <1>5, <2>1, <2>2, <2>3 DEF FenceNext
  <1>6. ASSUME NEW f \in Follower, PumpNext(f)
        PROVE  LeaderUp'
    BY <1>0, <1>1, <1>2, <1>6, PumpElsewhere
  <1>7. ASSUME NEW v \in Validator, Kill(v)
        PROVE  LeaderUp'
    BY <1>1, <1>2, <1>7 DEF Kill
  <1>8. ASSUME NEW disk, Reboot(disk)
        PROVE  LeaderUp'
    <2>1. FenceActive' = {}
      BY <1>8 DEF Reboot, FenceActive
    <2>2. ~up'[Leader] => state'[Leader] = EmptyState
      BY <1>0, <1>8 DEF Reboot
    <2> QED
      BY <2>1, <2>2 DEF LeaderUp
  <1>9. CASE UNCHANGED vars
    BY <1>1, <1>2, <1>9 DEF vars
  <1> QED
    BY <1>3, <1>4, <1>5, <1>6, <1>7, <1>8, <1>9
       DEF Next, PromptNext, FaultNext, RebootClean, RebootTorn

(* All of it holds in every reachable state.                               *)
LEMMA RefineInvariant ==
    Spec /\ []OnePay => []RefineInv
  <1>1. Init => LeaderUp
    BY EngineAssumption DEF Init, LeaderUp, FenceActive
  <1>2. EngineInv /\ SeqInv /\ LeaderUp /\ [Next]_vars => LeaderUp'
    BY LeaderUpNext
  <1>3. EngineInv /\ LeaderInv /\ SeqInv /\ LeaderUp => RefineInv
    BY DEF RefineInv
  <1> QED
    BY <1>1, <1>2, <1>3, EngineInvariant, LeaderInvariant, SeqInvariant, PTL DEF Spec

-----------------------------------------------------------------------------
(* The leader's commit is the ledger's Spend, or changes nothing.          *)
LEMMA CommitRefines ==
    ASSUME RefineInv, NEW c \in Call, CommitPay(c)
    PROVE  [Ledger!Next]_(Ledger!vars)
  <1> USE DEF storeVars, nodeVars, netVars, payVars, fenceVars, boundVars
  <1>0. TypeOK /\ Leader \in Validator /\ state[Leader] \in ShardStates
    BY EngineAssumption DEF RefineInv, EngineInv, TypeOK
  <1>1. PICK b : b = Body(c)
    OBVIOUS
  <1>2. pc[c] = "persisting" /\ up[Leader] /\ UNCHANGED <<up, index>> /\ b \in PayCommitBody
    BY <1>1, BodyType DEF CommitPay, RefineInv, SeqInv, OneCall, PayActive, Running
  <1>3. \A d \in Call : pc'[d] = "accepted" <=> pc[d] = "accepted"
    <2>1. \E p \in {"acking", "replying", "failed"} : pc' = [pc EXCEPT ![c] = p]
      BY DEF CommitPay
    <2> QED
      BY <1>0, <1>2, <2>1 DEF TypeOK
  <1>4. CASE ~is_consumed(state[Leader], b) /\ CanConsume(state[Leader], b)
    <2>1. state'[Leader] = consume_pay(state[Leader], b)
      BY <1>0, <1>1, <1>4 DEF CommitPay, durable_commit, TypeOK
    <2>2. /\ state'[Leader].consumed = state[Leader].consumed \cup {Key(b)}
          /\ state'[Leader].commit_index = state[Leader].commit_index + 1
          /\ state'[Leader].epoch_states = state[Leader].epoch_states
      BY <1>0, <2>1 DEF consume_pay, ShardStates
    <2>3. b.epoch \notin {e \in Epoch : FencedIn(Leader, e)}
      BY <1>4 DEF CanConsume, FencedIn
    <2>4. {e \in Epoch : FencedIn(Leader, e)'} = {e \in Epoch : FencedIn(Leader, e)}
      BY <2>2 DEF FencedIn
    <2>5. Accepted' = Accepted
      BY <1>3 DEF Accepted
    <2>6. Ledger!Spend(c)
      BY <1>1, <1>2, <1>4, <2>2, <2>3, <2>4, <2>5 DEF Ledger!Spend, is_consumed
    <2> QED
      BY <2>6 DEF Ledger!Next
  <1>5. CASE ~(~is_consumed(state[Leader], b) /\ CanConsume(state[Leader], b))
    <2>1. state'[Leader] = state[Leader]
      BY <1>0, <1>1, <1>5 DEF CommitPay, durable_commit, TypeOK
    <2> QED
      BY <1>2, <1>3, <2>1, RefineStutter DEF FencedIn
  <1> QED
    BY <1>4, <1>5

(* An EdgeAccept is the ledger's Accept: its slot is spent, no other call  *)
(* has it, and its position is after all answers.                          *)
LEMMA ReplyRefines ==
    ASSUME RefineInv, NEW c \in Call, ReplyPay(c)
    PROVE  Ledger!Next
  <1> USE DEF storeVars, nodeVars, netVars, payVars, fenceVars, boundVars
  <1>0. TypeOK /\ Leader \in Validator
    BY EngineAssumption DEF RefineInv, EngineInv
  <1>1. /\ pc[c] = "replying" /\ UNCHANGED <<state, up>>
        /\ index' = [index EXCEPT ![c] = state[Leader].commit_index]
        /\ pc' = [pc EXCEPT ![c] = "accepted"]
    BY DEF ReplyPay
  <1>2. up[Leader]
    BY <1>1 DEF RefineInv, SeqInv, OneCall, PayActive, Running
  <1>3. Key(Body(c)) \in state[Leader].consumed
    <2>1. Leader \in acks[c]
      BY <1>1 DEF RefineInv, LeaderInv, Committed
    <2> QED
      BY <1>2, <2>1 DEF RefineInv, EngineInv, AckInv, AckedCalls, is_consumed
  <1>4. ASSUME NEW d \in Accepted
        PROVE  Key(Body(d)) # Key(Body(c)) /\ index[d] < state[Leader].commit_index
    <2>1. d \in Call /\ pc[d] = "accepted" /\ d # c
      BY <1>1 DEF Accepted
    <2>2. Key(Body(d)) # Key(Body(c))
      BY <1>1, <2>1 DEF RefineInv, SeqInv, CommittedOnce, Committed
    <2>3. index[d] < state[Leader].commit_index
      BY <1>1 DEF RefineInv, SeqInv, IndexBehind, Late
    <2> QED
      BY <2>2, <2>3
  <1>5. Accepted' = Accepted \cup {c} /\ c \notin Accepted
    BY <1>0, <1>1 DEF Accepted, TypeOK
  <1> DEFINE ans == [d \in Call |-> IF d \in Accepted THEN index[d] ELSE 0]
  <1>6. ans' = [ans EXCEPT ![c] = state[Leader].commit_index]
    BY <1>0, <1>1, <1>5 DEF TypeOK
  <1>7. {e \in Epoch : FencedIn(Leader, e)'} = {e \in Epoch : FencedIn(Leader, e)}
    BY <1>1 DEF FencedIn
  <1>8. c \notin {d \in Call : ans[d] # 0} /\ {d \in Call : ans[d] # 0} \subseteq Accepted
    BY <1>5
  <1>9. \A d \in {d \in Call : ans[d] # 0} :
           Key(Body(d)) # Key(Body(c)) /\ ans[d] < state[Leader].commit_index
    BY <1>4, <1>8 DEF Accepted
  <1>10. Ledger!Answered = {d \in Call : ans[d] # 0}
    BY DEF Ledger!Answered
  <1>11. Ledger!Accept(c)
    BY <1>1, <1>2, <1>3, <1>6, <1>7, <1>8, <1>9, <1>10 DEF Ledger!Accept
  <1> QED
    BY <1>11 DEF Ledger!Next

(* The leader's own fence is the ledger's Fence.                           *)
LEMMA FenceRefines ==
    ASSUME RefineInv, NEW k \in FenceCall, LocalFence(k)
    PROVE  [Ledger!Next]_(Ledger!vars)
  <1> USE DEF storeVars, nodeVars, netVars, payVars, fenceVars, boundVars
  <1>0. TypeOK /\ Leader \in Validator /\ state[Leader] \in ShardStates /\ Fences[k] \in Epoch
    BY EngineAssumption DEF RefineInv, EngineInv, TypeOK
  <1>1. up[Leader] /\ UNCHANGED <<up, pc, index>>
    BY DEF LocalFence, FenceActive, RefineInv, LeaderUp
  <1>2. CASE state[Leader].epoch_states[Fences[k]] = "Fenced"
    <2>1. state' = state
      BY <1>2 DEF LocalFence, RecordFence
    <2> QED
      BY <1>1, <2>1, RefineStutter DEF FencedIn
  <1>3. CASE state[Leader].epoch_states[Fences[k]] # "Fenced"
    <2>1. state'[Leader] = fence_epoch(state[Leader], Fences[k])
      BY <1>0, <1>3 DEF LocalFence, RecordFence, Record, apply_record, Fenced, TypeOK
    <2>2. /\ state'[Leader].consumed = state[Leader].consumed
          /\ state'[Leader].commit_index = state[Leader].commit_index
          /\ \A e \in Epoch : state'[Leader].epoch_states[e]
                                = IF e = Fences[k] THEN "Fenced" ELSE state[Leader].epoch_states[e]
      BY <1>0, <2>1 DEF fence_epoch, ShardStates
    <2>3. {e \in Epoch : FencedIn(Leader, e)'} = {e \in Epoch : FencedIn(Leader, e)} \cup {Fences[k]}
      BY <1>0, <2>2 DEF FencedIn
    <2>4. Accepted' = Accepted
      BY <1>1 DEF Accepted
    <2>5. Ledger!Fence(Fences[k])
      BY <1>1, <2>2, <2>3, <2>4 DEF Ledger!Fence
    <2> QED
      BY <1>0, <2>5 DEF Ledger!Next
  <1> QED
    BY <1>2, <1>3

(* An activation spends nothing and fences or opens no fenced epoch.       *)
LEMMA ActivateRefines ==
    ASSUME RefineInv, NEW v \in Validator, NEW c \in CapabilityId, ActivateCapability(v, c)
    PROVE  UNCHANGED Ledger!vars
  <1> USE DEF storeVars, nodeVars, netVars, payVars, fenceVars, boundVars
  <1>0. TypeOK /\ Leader \in Validator /\ state[Leader] \in ShardStates
    BY EngineAssumption DEF RefineInv, EngineInv, TypeOK
  <1>1. UNCHANGED <<up, pc, index>>
    BY DEF ActivateCapability
  <1>2. CASE v # Leader
    <2>1. state'[Leader] = state[Leader]
      BY <1>0, <1>2 DEF ActivateCapability, Record, TypeOK
    <2> QED
      BY <1>1, <2>1, RefineStutter DEF FencedIn
  <1>3. CASE v = Leader
    <2>1. state'[Leader] = activate_capability(state[Leader], c)
      BY <1>0, <1>3 DEF ActivateCapability, Record, apply_record, Activated, TypeOK
    <2>2. PICK e0 \in Epoch : e0 = Cap[c].epoch
      BY CapAssumption DEF SpendCapability
    <2>3. /\ state'[Leader].consumed = state[Leader].consumed
          /\ state'[Leader].commit_index = state[Leader].commit_index
          /\ \A e \in Epoch : state'[Leader].epoch_states[e]
                                = IF e = e0 /\ state[Leader].epoch_states[e] = "Expired"
                                  THEN "Active" ELSE state[Leader].epoch_states[e]
      BY <1>0, <2>1, <2>2 DEF activate_capability, ShardStates
    <2>4. \A e \in Epoch : FencedIn(Leader, e)' <=> FencedIn(Leader, e)
      BY <2>3 DEF FencedIn
    <2> QED
      BY <1>1, <2>3, <2>4, RefineStutter
  <1> QED
    BY <1>2, <1>3

(* A reboot brings the leader's memory back from its log, or stops the     *)
(* ledger; what was accepted stays.                                        *)
LEMMA RebootRefines ==
    ASSUME RefineInv, NEW disk \in [Validator -> WalFiles], Reboot(disk),
           \A v \in Validator : /\ disk[v].st = wal[v].st
                                /\ Replays(disk[v]) => Replays(wal[v])
    PROVE  [Ledger!Next]_(Ledger!vars)
  <1> USE DEF storeVars, nodeVars, netVars, payVars, fenceVars, boundVars
  <1>0. TypeOK /\ WalMatchesMemory /\ Leader \in Validator /\ StoreOK
    BY EngineAssumption DEF RefineInv, EngineInv, TypeOK, StoreOK
  <1>1. index' = index /\ \A c \in Call : pc'[c] = "accepted" <=> pc[c] = "accepted"
    BY DEF Reboot, PayActive, Running
  <1>2. /\ up'[Leader] = Replays(disk[Leader])
        /\ state'[Leader] = IF Replays(disk[Leader]) THEN disk[Leader].st ELSE EmptyState
    BY <1>0 DEF Reboot
  <1>3. up \in [Validator -> BOOLEAN]
    BY <1>0 DEF TypeOK
  <1>4. CASE Replays(disk[Leader])
    <2>1. up[Leader] /\ state'[Leader] = state[Leader] /\ up'[Leader]
      BY <1>0, <1>2, <1>4 DEF WalMatchesMemory
    <2>2. up[Leader] = TRUE /\ up'[Leader] = TRUE
      BY <1>0, <1>2, <1>3, <1>4, <2>1 DEF Replays
    <2> QED
      BY <1>1, <2>1, <2>2, RefineStutter DEF FencedIn
  <1>5. CASE ~Replays(disk[Leader])
    <2>1. state'[Leader] = EmptyState /\ up'[Leader] = FALSE
      BY <1>2, <1>5
    <2>2. CASE up[Leader]
      <3>1. {e \in Epoch : FencedIn(Leader, e)'} = {}
        BY <2>1 DEF FencedIn, EmptyState
      <3>2. state'[Leader].consumed = {} /\ state'[Leader].commit_index = 0
        BY <2>1 DEF EmptyState
      <3>3. Accepted' = Accepted
        BY <1>1 DEF Accepted
      <3>4. Ledger!Stop
        BY <1>1, <2>1, <2>2, <3>1, <3>2, <3>3 DEF Ledger!Stop
      <3> QED
        BY <3>4 DEF Ledger!Next
    <2>3. CASE ~up[Leader]
      <3>1. state'[Leader] = state[Leader]
        BY <2>1, <2>3 DEF RefineInv, LeaderUp
      <3>2. up'[Leader] = up[Leader]
        BY <1>0, <1>3, <2>1, <2>3
      <3> QED
        BY <1>1, <3>1, <3>2, RefineStutter DEF FencedIn
    <2> QED
      BY <2>2, <2>3
  <1> QED
    BY <1>4, <1>5

(* Every step of the engine is a step of the ledger or leaves it alone.    *)
LEMMA RefineNext ==
    ASSUME RefineInv, [Next]_vars
    PROVE  [Ledger!Next]_(Ledger!vars)
  <1> USE DEF storeVars, nodeVars, netVars, payVars, fenceVars, boundVars
  <1>0. TypeOK /\ Leader \in Validator
    BY EngineAssumption DEF RefineInv, EngineInv
  <1>1. ASSUME state'[Leader] = state[Leader], up' = up, index' = index,
               \A c \in Call : pc'[c] = "accepted" <=> pc[c] = "accepted"
        PROVE  UNCHANGED Ledger!vars
    BY <1>1, RefineStutter DEF FencedIn
  <1>2. ASSUME NEW c \in Call, PayNext(c) \/ TimeoutPay(c), ~CommitPay(c), ~ReplyPay(c)
        PROVE  UNCHANGED Ledger!vars
    <2>1. state' = state /\ up' = up
      BY <1>0, <1>2, PayElsewhere
    <2>2. index' = index
      BY <1>2 DEF PayNext, StartPay, RejectPay, DrainVotes, SendCommit, DrainAcks, TimeoutPay
    <2>3. \A d \in Call : pc'[d] = "accepted" <=> pc[d] = "accepted"
      BY <1>0, <1>2 DEF PayNext, StartPay, RejectPay, DrainVotes, SendCommit, DrainAcks,
                        TimeoutPay, TypeOK
    <2> QED
      BY <1>1, <2>1, <2>2, <2>3
  <1>3. ASSUME NEW k \in FenceCall, FenceNext(k) \/ TimeoutFence(k), ~LocalFence(k)
        PROVE  UNCHANGED Ledger!vars
    BY <1>1, <1>3 DEF FenceNext, StartFence, RejectFence, DrainFenceAcks, TimeoutFence
  <1>4. ASSUME NEW f \in Follower, PumpNext(f)
        PROVE  UNCHANGED Ledger!vars
    BY <1>0, <1>1, <1>4, PumpElsewhere
  <1>5. ASSUME NEW v \in Validator, Kill(v)
        PROVE  UNCHANGED Ledger!vars
    BY <1>1, <1>5 DEF Kill
  <1>6. ASSUME RebootClean
        PROVE  [Ledger!Next]_(Ledger!vars)
    <2>1. wal \in [Validator -> WalFiles]
      BY <1>0 DEF TypeOK
    <2> QED
      BY <1>6, <2>1, RebootRefines DEF RebootClean
  <1>7. ASSUME NEW v \in Validator, NEW tail \in TornTails, RebootTorn(v, tail)
        PROVE  [Ledger!Next]_(Ledger!vars)
    <2>1. PICK disk : disk = [wal EXCEPT ![v] = TornAppend(wal[v], tail)]
      OBVIOUS
    <2>2. /\ disk \in [Validator -> WalFiles]
          /\ \A w \in Validator : /\ disk[w].st = wal[w].st
                                  /\ Replays(disk[w]) => Replays(wal[w])
      BY <1>0, <2>1, TornReplays DEF TypeOK
    <2>3. Reboot(disk)
      BY <1>7, <2>1 DEF RebootTorn
    <2> QED
      BY <2>2, <2>3, RebootRefines
  <1>8. ASSUME UNCHANGED vars PROVE UNCHANGED Ledger!vars
    BY <1>1, <1>8 DEF vars
  <1>9. ASSUME NEW c \in Call, PayNext(c) \/ TimeoutPay(c)
        PROVE  [Ledger!Next]_(Ledger!vars)
    BY <1>2, <1>9, CommitRefines, ReplyRefines
  <1>10. ASSUME NEW k \in FenceCall, FenceNext(k) \/ TimeoutFence(k)
         PROVE  [Ledger!Next]_(Ledger!vars)
    BY <1>3, <1>10, FenceRefines
  <1>11. ASSUME NEW v \in Validator, NEW c \in CapabilityId, ActivateCapability(v, c)
         PROVE  UNCHANGED Ledger!vars
    BY <1>11, ActivateRefines
  <1> QED
    BY <1>4, <1>5, <1>6, <1>7, <1>8, <1>9, <1>10, <1>11 DEF Next, PromptNext, FaultNext

(* Seen through the leader's memory, a committee that serves one PAY at a  *)
(* time, with its messages, fences, timeouts, kills, restarts and torn     *)
(* logs, does nothing that SpendLedger does not allow (handle_pay,         *)
(* fence_epoch, activate_capability, open_engine).                         *)
THEOREM EngineImplementsLedger ==
    Spec /\ []OnePay => ImplementsSpendLedger
  <1>1. Init => Ledger!Init
    BY RefineInit
  <1>2. RefineInv /\ [Next]_vars => [Ledger!Next]_(Ledger!vars)
    BY RefineNext
  <1> QED
    BY <1>1, <1>2, RefineInvariant, PTL DEF Spec, ImplementsSpendLedger, Ledger!Spec

-----------------------------------------------------------------------------
(* Spending.  What the leader has committed and not failed since is drawn  *)
(* from the allowance it keeps in memory.  Activating a capability again   *)
(* fills it up, so that is excluded here; nothing else does.               *)
AmountOf == [c \in Call |-> Body(c).amount]
Drawn(k) == {c \in Call : pc[c] \in Committed /\ Body(c).capability_id = k}
BudgetInv ==
    \A k \in CapabilityId :
        /\ SumOf(AmountOf, Drawn(k)) <= Cap[k].maximum_total
        /\ up[Leader] =>
              IF k \in state[Leader].active
              THEN state[Leader].remaining[k] + SumOf(AmountOf, Drawn(k)) <= Cap[k].maximum_total
              ELSE Drawn(k) = {}

NeverRefilled ==
    [][\A k \in CapabilityId : k \in state[Leader].active => ~ActivateCapability(Leader, k)]_vars

(* The amounts are numbers, and the calls that draw on a capability are    *)
(* finitely many.                                                          *)
LEMMA DrawnType ==
    /\ \A c \in Call : AmountOf[c] \in Nat /\ AmountOf[c] = Body(c).amount
                       /\ Body(c).capability_id \in CapabilityId
    /\ \A k : \A S \in SUBSET Drawn(k) : S \subseteq Call /\ IsFiniteSet(S) /\ SumOf(AmountOf, S) \in Nat
    /\ \A k \in CapabilityId : Cap[k].maximum_total \in Nat
  <1>1. \A c \in Call : AmountOf[c] \in Nat /\ AmountOf[c] = Body(c).amount
                        /\ Body(c).capability_id \in CapabilityId
    BY BodyType DEF AmountOf, PayCommitBody
  <1>2. \A k : \A S \in SUBSET Drawn(k) : S \subseteq Call /\ IsFiniteSet(S)
    BY EngineAssumption, FS_Subset DEF Drawn
  <1>3. \A k : \A S \in SUBSET Drawn(k) : SumOf(AmountOf, S) \in Nat
    BY <1>1, <1>2, SumNat
  <1>4. \A k \in CapabilityId : Cap[k].maximum_total \in Nat
    BY CapAssumption DEF SpendCapability
  <1> QED
    BY <1>1, <1>2, <1>3, <1>4

(* SpendWithinIssued adds up the values of AmountOf.                       *)
LEMMA AmountFold ==
    ASSUME NEW S \in SUBSET Call
    PROVE  MapThenSumSet(LAMBDA c : Body(c).amount, S) = SumOf(AmountOf, S)
  <1> DEFINE Is(g) == g = [t \in SUBSET S |->
                             IF t = {} THEN 0
                             ELSE Body(CHOOSE c \in t : TRUE).amount + g[t \ {CHOOSE c \in t : TRUE}]]
  <1>1. \A t \in SUBSET S : t # {} => AmountOf[Pick(t)] = Body(Pick(t)).amount
    BY PickIn DEF AmountOf
  <1>2. ASSUME NEW g PROVE Is(g) <=> IsSums(AmountOf, S, g)
    <2>1. \A t \in SUBSET S :
             SumStep(AmountOf, g, t) = IF t = {} THEN 0
                                       ELSE Body(CHOOSE c \in t : TRUE).amount
                                            + g[t \ {CHOOSE c \in t : TRUE}]
      BY <1>1 DEF SumStep, Pick
    <2> QED
      BY <2>1 DEF IsSums
  <1>3. MapThenSumSet(LAMBDA c : Body(c).amount, S) = (CHOOSE g : Is(g))[S]
    BY DEF MapThenSumSet, MapThenFoldSet
  <1>4. (CHOOSE g : Is(g)) = (CHOOSE g : IsSums(AmountOf, S, g))
    <2> HIDE DEF Is
    <2> QED
      BY <1>2, Zenon
  <1> QED
    BY <1>3, <1>4 DEF SumOf, Sums

(* What the leader may still spend moves only where it commits or          *)
(* activates.                                                              *)
LEMMA LeaderKeeps ==
    ASSUME EngineInv, [Next]_vars, up'[Leader], \A c \in Call : ~CommitPay(c),
           \A k \in CapabilityId : ~ActivateCapability(Leader, k)
    PROVE  /\ up[Leader] /\ state'[Leader].active = state[Leader].active
           /\ state'[Leader].remaining = state[Leader].remaining
  <1> USE DEF storeVars, nodeVars, netVars, payVars, fenceVars, boundVars
  <1> DEFINE Goal == /\ state'[Leader].active = state[Leader].active
                     /\ state'[Leader].remaining = state[Leader].remaining
  <1>0. TypeOK /\ WalMatchesMemory /\ StoreOK /\ Leader \in Validator
    BY EngineAssumption DEF EngineInv, TypeOK, StoreOK
  <1>1. up[Leader]
    BY <1>0, StoreNext DEF StoreMoves
  <1>2. ASSUME state'[Leader] = state[Leader] PROVE Goal
    BY <1>2
  <1>3. ASSUME NEW c \in Call, PayNext(c) \/ TimeoutPay(c) PROVE Goal
    BY <1>0, <1>2, <1>3, PayElsewhere
  <1>4. ASSUME NEW k \in FenceCall, FenceNext(k) \/ TimeoutFence(k) PROVE Goal
    <2>1. CASE LocalFence(k)
      <3>1. CASE state[Leader].epoch_states[Fences[k]] = "Fenced"
        BY <1>2, <2>1, <3>1 DEF LocalFence, RecordFence
      <3>2. CASE state[Leader].epoch_states[Fences[k]] # "Fenced"
        <4>1. state'[Leader] = fence_epoch(state[Leader], Fences[k])
          BY <1>0, <2>1, <3>2 DEF LocalFence, RecordFence, Record, apply_record, Fenced, TypeOK
        <4>2. state[Leader] \in ShardStates
          BY <1>0 DEF TypeOK
        <4> QED
          BY <4>1, <4>2 DEF fence_epoch, ShardStates
      <3> QED
        BY <3>1, <3>2
    <2>2. CASE ~LocalFence(k)
      BY <1>2, <1>4, <2>2 DEF FenceNext, StartFence, RejectFence, DrainFenceAcks, TimeoutFence
    <2> QED
      BY <2>1, <2>2
  <1>5. ASSUME NEW f \in Follower, PumpNext(f) PROVE Goal
    BY <1>0, <1>2, <1>5, PumpElsewhere
  <1>6. ASSUME NEW disk \in [Validator -> WalFiles], Reboot(disk),
               \A v \in Validator : /\ disk[v].st = wal[v].st
                                    /\ Replays(disk[v]) => Replays(wal[v])
        PROVE  Goal
    <2>1. Replays(disk[Leader]) /\ state'[Leader] = disk[Leader].st
      BY <1>0, <1>6 DEF Reboot
    <2>2. state'[Leader] = state[Leader]
      BY <1>0, <1>1, <1>6, <2>1 DEF WalMatchesMemory
    <2> QED
      BY <1>2, <2>2
  <1>7. ASSUME RebootClean PROVE Goal
    BY <1>0, <1>6, <1>7 DEF RebootClean, StoreOK
  <1>8. ASSUME NEW v \in Validator, NEW tail \in TornTails, RebootTorn(v, tail) PROVE Goal
    <2>1. PICK disk : disk = [wal EXCEPT ![v] = TornAppend(wal[v], tail)]
      OBVIOUS
    <2>2. /\ disk \in [Validator -> WalFiles]
          /\ \A w \in Validator : /\ disk[w].st = wal[w].st
                                  /\ Replays(disk[w]) => Replays(wal[w])
      BY <1>0, <2>1, TornReplays DEF TypeOK
    <2>3. Reboot(disk)
      BY <1>8, <2>1 DEF RebootTorn
    <2> QED
      BY <1>6, <2>2, <2>3
  <1>9. ASSUME NEW v \in Validator, NEW k \in CapabilityId, ActivateCapability(v, k) PROVE Goal
    <2>1. v # Leader
      BY <1>9
    <2>2. state'[Leader] = state[Leader]
      BY <1>0, <1>9, <2>1 DEF ActivateCapability, Record, TypeOK
    <2> QED
      BY <1>2, <2>2
  <1>10. ASSUME NEW v \in Validator, Kill(v) PROVE Goal
    BY <1>2, <1>10 DEF Kill
  <1>11. ASSUME UNCHANGED vars PROVE Goal
    BY <1>2, <1>11 DEF vars
  <1>12. Goal
    BY <1>3, <1>4, <1>5, <1>7, <1>8, <1>9, <1>10, <1>11 DEF Next, PromptNext, FaultNext
  <1> QED
    BY <1>1, <1>12

(* Calls come to draw on a capability only in CommitPay.                   *)
LEMMA DrawnShrinks ==
    ASSUME EngineInv, [Next]_vars, \A c \in Call : ~CommitPay(c)
    PROVE  \A k : Drawn(k)' \subseteq Drawn(k)
  <1>1. \A c \in Call : pc'[c] \in Committed => pc[c] \in Committed
    BY EntersCommitted DEF EngineInv
  <1> QED
    BY <1>1 DEF Drawn

(* Fewer draws on the same allowance.                                      *)
LEMMA BudgetKept ==
    ASSUME EngineInv, BudgetInv, NEW k \in CapabilityId, Drawn(k)' \subseteq Drawn(k),
           up'[Leader] => /\ up[Leader]
                          /\ k \in state'[Leader].active <=> k \in state[Leader].active
                          /\ state'[Leader].remaining[k] = state[Leader].remaining[k]
    PROVE  /\ SumOf(AmountOf, Drawn(k)') <= Cap[k].maximum_total
           /\ up'[Leader] =>
                 IF k \in state'[Leader].active
                 THEN state'[Leader].remaining[k] + SumOf(AmountOf, Drawn(k)') <= Cap[k].maximum_total
                 ELSE Drawn(k)' = {}
  <1>1. PICK S : S = Drawn(k)'
    OBVIOUS
  <1>2. S \in SUBSET Drawn(k) /\ IsFiniteSet(Drawn(k)) /\ SumOf(AmountOf, S) \in Nat
        /\ SumOf(AmountOf, Drawn(k)) \in Nat /\ Cap[k].maximum_total \in Nat
    BY <1>1, DrawnType
  <1>3. SumOf(AmountOf, S) <= SumOf(AmountOf, Drawn(k))
    BY <1>2, DrawnType, SumSubset DEF Drawn
  <1>4. state[Leader].remaining[k] \in Nat
    BY EngineAssumption DEF EngineInv, TypeOK, ShardStates
  <1>5. SumOf(AmountOf, S) <= Cap[k].maximum_total
    BY <1>2, <1>3 DEF BudgetInv
  <1>6. ASSUME up'[Leader]
        PROVE  IF k \in state'[Leader].active
               THEN state'[Leader].remaining[k] + SumOf(AmountOf, S) <= Cap[k].maximum_total
               ELSE S = {}
    BY <1>2, <1>3, <1>4, <1>6 DEF BudgetInv
  <1> QED
    BY <1>1, <1>5, <1>6

(* A commit draws what it takes off the allowance.                         *)
LEMMA BudgetCommit ==
    ASSUME RefineInv, BudgetInv, NEW c \in Call, CommitPay(c)
    PROVE  BudgetInv'
  <1> USE DEF storeVars, nodeVars, netVars, payVars, fenceVars, boundVars
  <1>0. EngineInv /\ TypeOK /\ Leader \in Validator /\ state[Leader] \in ShardStates
    BY EngineAssumption DEF RefineInv, EngineInv, TypeOK
  <1>1. PICK b : b = Body(c)
    OBVIOUS
  <1>2. PICK k0 : k0 = b.capability_id
    OBVIOUS
  <1>3. /\ pc[c] = "persisting" /\ up[Leader] /\ up' = up /\ b \in PayCommitBody
        /\ ~is_consumed(state[Leader], b) /\ k0 \in CapabilityId /\ b.amount \in Nat
        /\ b.amount = AmountOf[c]
    <2>1. pc[c] = "persisting" /\ up' = up
      BY DEF CommitPay
    <2>2. up[Leader] /\ ~is_consumed(state[Leader], b)
      BY <1>1, <2>1 DEF RefineInv, SeqInv, OneCall, FreshUntilCommit, PayActive, Running, Early
    <2> QED
      BY <1>1, <1>2, <2>1, <2>2, BodyType DEF PayCommitBody, AmountOf
  <1>4. CASE ~CanConsume(state[Leader], b)
    <2>1. state' = state /\ pc' = [pc EXCEPT ![c] = "failed"]
      BY <1>0, <1>1, <1>3, <1>4 DEF CommitPay, durable_commit, TypeOK
    <2>2. \A d \in Call : pc'[d] \in Committed => pc[d] \in Committed
      BY <1>0, <2>1 DEF TypeOK, Committed
    <2>3. \A k : Drawn(k)' \subseteq Drawn(k)
      BY <2>2 DEF Drawn
    <2> QED
      BY <1>0, <1>3, <2>1, <2>3, BudgetKept DEF BudgetInv
  <1>5. CASE CanConsume(state[Leader], b)
    <2>1. state'[Leader] = consume_pay(state[Leader], b)
      BY <1>0, <1>1, <1>3, <1>5 DEF CommitPay, durable_commit, TypeOK
    <2>2. /\ state'[Leader].active = state[Leader].active
          /\ \A k \in CapabilityId : state'[Leader].remaining[k]
               = IF k = k0 THEN state[Leader].remaining[k] - b.amount ELSE state[Leader].remaining[k]
      BY <1>0, <1>2, <1>3, <2>1 DEF consume_pay, ShardStates
    <2>3. \E p \in Committed : pc' = [pc EXCEPT ![c] = p]
      BY <1>1, <1>5 DEF CommitPay, Committed
    <2>4. \A d \in Call : pc'[d] \in Committed <=> pc[d] \in Committed \/ d = c
      BY <1>0, <2>3 DEF TypeOK
    <2>5. ASSUME NEW k \in CapabilityId
          PROVE  /\ SumOf(AmountOf, Drawn(k)') <= Cap[k].maximum_total
                 /\ IF k \in state'[Leader].active
                    THEN state'[Leader].remaining[k] + SumOf(AmountOf, Drawn(k)') <= Cap[k].maximum_total
                    ELSE Drawn(k)' = {}
      <3>1. CASE k # k0
        <4>1. Drawn(k)' = Drawn(k)
          BY <1>1, <1>2, <2>4, <3>1 DEF Drawn
        <4> QED
          BY <1>3, <2>2, <3>1, <4>1 DEF BudgetInv
      <3>2. CASE k = k0
        <4>1. k \in state[Leader].active /\ b.amount <= state[Leader].remaining[k]
          BY <1>2, <1>5, <3>2 DEF CanConsume
        <4>2. Drawn(k)' = Drawn(k) \cup {c} /\ c \notin Drawn(k)
          BY <1>1, <1>2, <1>3, <2>4, <3>2 DEF Drawn, Committed
        <4>3. SumOf(AmountOf, Drawn(k) \cup {c}) = AmountOf[c] + SumOf(AmountOf, Drawn(k))
          <5>1. \A d \in Drawn(k) \cup {c} : AmountOf[d] \in Int
            BY DrawnType DEF Drawn
          <5>2. IsFiniteSet(Drawn(k))
            BY DrawnType
          <5> QED
            BY <4>2, <5>1, <5>2, SumAdd
        <4>4. /\ SumOf(AmountOf, Drawn(k)) \in Nat /\ Cap[k].maximum_total \in Nat
              /\ state[Leader].remaining[k] \in Nat
          BY <1>0, DrawnType DEF ShardStates
        <4>5. state[Leader].remaining[k] + SumOf(AmountOf, Drawn(k)) <= Cap[k].maximum_total
          BY <1>3, <4>1 DEF BudgetInv
        <4>6. state'[Leader].remaining[k] = state[Leader].remaining[k] - b.amount
          BY <2>2, <3>2
        <4>7. SumOf(AmountOf, Drawn(k)') = b.amount + SumOf(AmountOf, Drawn(k))
          BY <1>3, <4>2, <4>3
        <4> QED
          BY <1>3, <2>2, <4>1, <4>4, <4>5, <4>6, <4>7
      <3> QED
        BY <3>1, <3>2
    <2> QED
      BY <1>3, <2>5 DEF BudgetInv
  <1> QED
    BY <1>4, <1>5

(* The first activation at the leader: nothing was drawn yet.              *)
LEMMA BudgetActivate ==
    ASSUME EngineInv, BudgetInv, NEW k0 \in CapabilityId, ActivateCapability(Leader, k0),
           k0 \notin state[Leader].active
    PROVE  BudgetInv'
  <1> USE DEF storeVars, nodeVars, netVars, payVars, fenceVars, boundVars
  <1>0. TypeOK /\ Leader \in Validator /\ state[Leader] \in ShardStates
    BY EngineAssumption DEF EngineInv, TypeOK
  <1>1. up[Leader] /\ up' = up /\ pc' = pc
    BY DEF ActivateCapability
  <1>2. state'[Leader] = activate_capability(state[Leader], k0)
    BY <1>0 DEF ActivateCapability, Record, apply_record, Activated, TypeOK
  <1>3. /\ state'[Leader].active = state[Leader].active \cup {k0}
        /\ \A k \in CapabilityId : state'[Leader].remaining[k]
             = IF k = k0 THEN Cap[k0].maximum_total ELSE state[Leader].remaining[k]
    BY <1>0, <1>2 DEF activate_capability, ShardStates
  <1>4. \A k : Drawn(k)' = Drawn(k)
    BY <1>1 DEF Drawn
  <1>5. Drawn(k0) = {} /\ SumOf(AmountOf, {}) = 0 /\ Cap[k0].maximum_total \in Nat
    BY <1>1, SumEmpty, DrawnType DEF BudgetInv
  <1>6. ASSUME NEW k \in CapabilityId
        PROVE  /\ SumOf(AmountOf, Drawn(k)) <= Cap[k].maximum_total
               /\ IF k \in state'[Leader].active
                  THEN state'[Leader].remaining[k] + SumOf(AmountOf, Drawn(k)) <= Cap[k].maximum_total
                  ELSE Drawn(k) = {}
    <2>1. CASE k = k0
      <3>1. state'[Leader].remaining[k0] = Cap[k0].maximum_total /\ k0 \in state'[Leader].active
        BY <1>3
      <3> QED
        BY ONLY <1>5, <2>1, <3>1
    <2>2. CASE k # k0
      BY <1>1, <1>3, <2>2 DEF BudgetInv
    <2> QED
      BY <2>1, <2>2
  <1> QED
    BY <1>1, <1>4, <1>6 DEF BudgetInv

(* Accepted spend never exceeds what the issuer signed over, as long as    *)
(* one PAY at a time is served and no capability is activated a second     *)
(* time at the leader; fences, kills, restarts and torn logs do not        *)
(* matter (consume_pay, activate_capability, handle_pay).                  *)
THEOREM SpendIsBounded ==
    Spec /\ []OnePay /\ NeverRefilled => []SpendWithinIssued
  <1> DEFINE First == \A k \in CapabilityId :
                         k \in state[Leader].active => ~ActivateCapability(Leader, k)
  <1>1. Init => BudgetInv
    <2> SUFFICES ASSUME Init PROVE BudgetInv
      OBVIOUS
    <2>1. \A k : Drawn(k) = {}
      BY DEF Init, Drawn, Committed
    <2>2. state[Leader].active = {}
      BY EngineAssumption DEF Init, EmptyState
    <2>3. SumOf(AmountOf, {}) = 0
      BY SumEmpty
    <2>4. \A k \in CapabilityId : Cap[k].maximum_total \in Nat
      BY DrawnType
    <2>5. ASSUME NEW k \in CapabilityId
          PROVE  SumOf(AmountOf, Drawn(k)) <= Cap[k].maximum_total
      <3>1. PICK spent : spent = SumOf(AmountOf, Drawn(k))
        OBVIOUS
      <3>2. spent = 0
        BY <2>1, <2>3, <3>1, Zenon
      <3>3. spent <= Cap[k].maximum_total
        BY <2>4, <3>2
      <3> QED
        BY <3>1, <3>3, Zenon
    <2> QED
      BY <2>1, <2>2, <2>5 DEF BudgetInv
  <1>2. ASSUME RefineInv, BudgetInv, [Next]_vars, [First]_vars PROVE BudgetInv'
    <2>0. EngineInv /\ TypeOK
      BY <1>2 DEF RefineInv, EngineInv
    <2>1. ASSUME NEW c \in Call, CommitPay(c) PROVE BudgetInv'
      BY <1>2, <2>1, BudgetCommit
    <2>2. ASSUME NEW k \in CapabilityId, ActivateCapability(Leader, k) PROVE BudgetInv'
      <3>1. activations' # activations
        <4>1. /\ activations' = [activations EXCEPT ![Leader][k] = @ + 1]
              /\ activations \in [Validator -> [CapabilityId -> Nat]] /\ Leader \in Validator
          BY <2>0, <2>2, EngineAssumption DEF ActivateCapability, TypeOK
        <4>2. activations'[Leader][k] = activations[Leader][k] + 1 /\ activations[Leader][k] \in Nat
          BY <4>1
        <4> QED
          BY <4>2
      <3>2. First
        BY <1>2, <3>1 DEF vars, boundVars
      <3> QED
        BY <1>2, <2>0, <2>2, <3>2, BudgetActivate
    <2>3. ASSUME \A c \in Call : ~CommitPay(c), \A k \in CapabilityId : ~ActivateCapability(Leader, k)
          PROVE  BudgetInv'
      <3>1. \A k : Drawn(k)' \subseteq Drawn(k)
        BY <1>2, <2>0, <2>3, DrawnShrinks
      <3>2. up'[Leader] => /\ up[Leader] /\ state'[Leader].active = state[Leader].active
                           /\ state'[Leader].remaining = state[Leader].remaining
        BY <1>2, <2>0, <2>3, LeaderKeeps
      <3> QED
        BY <1>2, <2>0, <3>1, <3>2, BudgetKept DEF BudgetInv
    <2> QED
      BY <2>1, <2>2, <2>3
  <1>3. BudgetInv => SpendWithinIssued
    <2> SUFFICES ASSUME BudgetInv, NEW k \in CapabilityId
                 PROVE  MapThenSumSet(LAMBDA c : Body(c).amount,
                                      {c \in Accepted : Body(c).capability_id = k})
                          <= Cap[k].maximum_total
      BY DEF SpendWithinIssued
    <2>1. PICK S : S = {c \in Accepted : Body(c).capability_id = k}
      OBVIOUS
    <2>2. S \in SUBSET Drawn(k) /\ S \in SUBSET Call
      BY <2>1 DEF Drawn, Accepted, Committed
    <2>3. SumOf(AmountOf, S) <= SumOf(AmountOf, Drawn(k))
      BY <2>2, DrawnType, SumSubset DEF Drawn
    <2>4. SumOf(AmountOf, Drawn(k)) <= Cap[k].maximum_total
      BY DEF BudgetInv
    <2>5. /\ SumOf(AmountOf, S) \in Nat /\ SumOf(AmountOf, Drawn(k)) \in Nat
          /\ Cap[k].maximum_total \in Nat
      BY <2>2, DrawnType
    <2>6. SumOf(AmountOf, S) <= Cap[k].maximum_total
      BY <2>3, <2>4, <2>5
    <2>7. MapThenSumSet(LAMBDA c : Body(c).amount, S) = SumOf(AmountOf, S)
      BY <2>2, AmountFold
    <2> QED
      BY <2>1, <2>6, <2>7
  <1> HIDE DEF First
  <1>4. NeverRefilled <=> [][First]_vars
    BY PTL DEF NeverRefilled, First
  <1> QED
    BY <1>1, <1>2, <1>3, <1>4, RefineInvariant, PTL DEF Spec
=============================================================================
