----------------------- MODULE GlobalConsensusProofs -----------------------
(***************************************************************************)
(* Proofs about GlobalConsensus, for any committee, any number of calls    *)
(* and any ledger: what the certificates say of the blocks, and that every *)
(* validator executes the certified blocks in their order.                 *)
(***************************************************************************)
EXTENDS GlobalConsensus, FiniteSetTheorems, SequenceTheorems, TLAPS

(* The leader's blocks have different rounds, all used up; the followers   *)
(* have theirs from the leader, and every one it proposed that they read.  *)
DagInv ==
    /\ \A b \in dag[Leader].blocks : b.round < dag[Leader].next_round
    /\ \A b1, b2 \in dag[Leader].blocks : b1.round = b2.round => b1 = b2
    /\ \A f \in Follower : dag[f].blocks \subseteq dag[Leader].blocks
    /\ \A i \in 1..Len(sent) :
          sent[i].type = "Propose" => sent[i].block \in dag[Leader].blocks
    /\ \A f \in Follower : \A i \in 1..read[f] :
          sent[i].type = "Propose" => sent[i].block \in dag[f].blocks

Started(c) == pc[c] \notin {"idle", "killed"}

(* Every call that has started has proposed a block of its own, and its    *)
(* votes, counted or in the inbox, come from validators that have it.      *)
CallInv ==
    /\ \A c \in Call : Started(c) =>
          \E i \in 1..Len(sent) : sent[i].type = "Propose" /\ sent[i].block.round = round[c]
    /\ \A c, d \in Call : Started(c) /\ Started(d) /\ round[c] = round[d] => c = d
    /\ \A m \in replies : HasBlock(m.voter, m.digest)
    /\ \A c \in Call : Started(c) => \A v \in votes[c] : HasBlock(v, round[c])
    /\ \A c \in Call : pc[c] \in {"committing", "applying"} => Cardinality(votes[c]) >= need

(* The chain is the certificates the leader sent, each after the proposal  *)
(* of its block, and the ledgers they lead to.                             *)
ChainInv ==
    /\ chain \in Seq({chain[i] : i \in DOMAIN chain})
    /\ \A i \in 1..Len(chain) :
          /\ chain[i].at \in 1..Len(sent)
          /\ sent[chain[i].at].type = "Commit"
          /\ sent[chain[i].at].digest = chain[i].block.round
          /\ Cardinality(sent[chain[i].at].votes) >= need
          /\ chain[i].block \in dag[Leader].blocks
          /\ \E j \in 1..(chain[i].at - 1) :
                sent[j].type = "Propose" /\ sent[j].block = chain[i].block
          /\ chain[i].state = apply_block_txs(StateAt(i - 1), chain[i].block.txs).state
    /\ \A k \in 1..Len(sent) :
          sent[k].type = "Commit" => \E i \in 1..Len(chain) : chain[i].at = k
    /\ \A i, j \in 1..Len(chain) : i < j => chain[i].at < chain[j].at
    /\ \A i \in 1..Len(chain), c \in Call :
          Started(c) /\ chain[i].block.round = round[c] => pc[c] \in {"applying", "ok", "refused"}
    /\ CertifiedByQuorum

(* A follower has executed the blocks whose certificates it has read; the  *)
(* leader all, or all but the one in whose commit section it is.           *)
ExecInv ==
    /\ \A f \in Follower : \A i \in 1..Len(chain) : i <= applied[f] <=> chain[i].at <= read[f]
    /\ Unlocked => applied[Leader] = Len(chain)
    /\ \A c \in Call : pc[c] = "applying" =>
          /\ Len(chain) > 0 /\ applied[Leader] = Len(chain) - 1
          /\ chain[Len(chain)].block.round = round[c]
    /\ \A c, d \in Call : pc[c] = "applying" /\ pc[d] = "applying" => c = d
    /\ LedgersAgree

ConsensusInv == TypeOK /\ DagInv /\ CallInv /\ ChainInv /\ ExecInv

-----------------------------------------------------------------------------
DagSet == [blocks : SUBSET Block, tips : Seq(Nat), next_round : Nat]

(* insert adds the block and keeps no more than MaxTips tips.              *)
LEMMA InsertFacts ==
    ASSUME NEW d \in DagSet, Len(d.tips) <= MaxTips, NEW b \in Block
    PROVE  /\ insert(d, b) \in DagSet /\ Len(insert(d, b).tips) <= MaxTips
           /\ insert(d, b).blocks = d.blocks \cup {b}
           /\ insert(d, b).next_round = d.next_round
  <1> DEFINE tips == Append(d.tips, b.round)
             excess == IF Len(tips) > MaxTips THEN Len(tips) - MaxTips ELSE 0
             kept == SubSeq(tips, excess + 1, Len(tips))
  <1>1. d.tips \in Seq(Nat) /\ b.round \in Nat /\ d.blocks \in SUBSET Block /\ d.next_round \in Nat
    BY DEF DagSet, Block
  <1>2. tips \in Seq(Nat) /\ Len(tips) = Len(d.tips) + 1 /\ Len(tips) \in Nat
    BY <1>1
  <1>3. excess \in Nat /\ excess <= Len(tips) /\ Len(tips) - excess <= MaxTips
    <2> HIDE DEF tips
    <2> QED
      BY <1>2, ConsensusAssumption
  <1>4. kept \in Seq(Nat) /\ Len(kept) <= MaxTips
    <2> HIDE DEF tips, excess
    <2>1. excess + 1 \in 1..(Len(tips) + 1) /\ Len(tips) \in excess..Len(tips)
      BY <1>2, <1>3
    <2>2. kept \in Seq(Nat)
      <3>1. PICK t \in Seq(Nat) : t = tips
        BY <1>2
      <3>2. PICK e \in Nat : e = excess
        BY <1>3
      <3>3. \A k \in (e + 1)..Len(t) : t[k] \in Nat
        BY ONLY <3>1, <3>2
      <3>4. SubSeq(t, e + 1, Len(t)) \in Seq(Nat)
        BY ONLY <3>1, <3>2, <3>3
      <3> QED
        BY <3>1, <3>2, <3>4
    <2>3. Len(kept) = IF excess + 1 <= Len(tips) THEN Len(tips) - excess ELSE 0
      BY <1>2, <1>3
    <2> QED
      BY <1>2, <1>3, <2>2, <2>3, ConsensusAssumption
  <1>5. insert(d, b) = [d EXCEPT !.blocks = @ \cup {b}, !.tips = kept]
    BY DEF insert
  <1> HIDE DEF kept
  <1> QED
    BY <1>1, <1>4, <1>5 DEF DagSet

(* propose inserts a block with the next round and uses that round up.     *)
LEMMA ProposeFacts ==
    ASSUME NEW d \in DagSet, Len(d.tips) <= MaxTips, NEW c \in Call
    PROVE  /\ NextBlock(d, Txs[c]) \in Block /\ NextBlock(d, Txs[c]).round = d.next_round
           /\ propose(d, Txs[c]) \in DagSet /\ Len(propose(d, Txs[c]).tips) <= MaxTips
           /\ propose(d, Txs[c]).blocks = d.blocks \cup {NextBlock(d, Txs[c])}
           /\ propose(d, Txs[c]).next_round = d.next_round + 1
  <1> DEFINE b == NextBlock(d, Txs[c])
             e == insert(d, b)
  <1>1. b \in Block /\ b.round = d.next_round
    BY DEF NextBlock, Block, DagSet
  <1> HIDE DEF b
  <1>2. /\ e \in DagSet /\ Len(e.tips) <= MaxTips
        /\ e.blocks = d.blocks \cup {b} /\ e.next_round = d.next_round
    BY <1>1, InsertFacts
  <1>3. propose(d, Txs[c]) = [e EXCEPT !.next_round = @ + 1]
    BY DEF propose, b
  <1> HIDE DEF e
  <1>4. /\ propose(d, Txs[c]) \in DagSet /\ propose(d, Txs[c]).tips = e.tips
        /\ propose(d, Txs[c]).blocks = e.blocks /\ propose(d, Txs[c]).next_round = e.next_round + 1
    BY <1>2, <1>3 DEF DagSet
  <1> QED
    BY <1>1, <1>2, <1>4 DEF b

(* A block of the leader's is found by its round, and so is a follower's.  *)
LEMMA BlockFound ==
    ASSUME TypeOK, DagInv, NEW v \in Validator, NEW b \in dag[v].blocks
    PROVE  HasBlock(v, b.round) /\ BlockOf(v, b.round) = b
  <1>1. dag[v].blocks \subseteq dag[Leader].blocks
    BY DEF DagInv, Follower
  <1>2. \A e \in dag[v].blocks : e.round = b.round => e = b
    BY <1>1 DEF DagInv
  <1> DEFINE e == CHOOSE e \in dag[v].blocks : e.round = b.round
  <1>3. e \in dag[v].blocks /\ e.round = b.round
    OBVIOUS
  <1> HIDE DEF e
  <1>4. e = b
    BY <1>2, <1>3
  <1> QED
    BY <1>4 DEF HasBlock, BlockOf, e

(* Nothing is certified or executed when nothing has been proposed.        *)
LEMMA ConsensusInit == Init => ConsensusInv
  <1> SUFFICES ASSUME Init PROVE ConsensusInv
    OBVIOUS
  <1> USE ConsensusAssumption
  <1>1. TypeOK
    BY DEF Init, TypeOK, EmptyDag, Follower, Running
  <1>2. DagInv
    BY DEF Init, DagInv, EmptyDag, Follower
  <1>3. CallInv
    BY DEF Init, CallInv, Started
  <1>4. ChainInv
    BY DEF Init, ChainInv, CertifiedByQuorum
  <1>5. ExecInv
    BY DEF Init, ExecInv, LedgersAgree, StateAt, Follower
  <1> QED
    BY <1>1, <1>2, <1>3, <1>4, <1>5 DEF ConsensusInv

(* Steps of a call that send nothing and end no commit section.            *)
LEMMA QuietNext ==
    ASSUME ConsensusInv, TypeOK', UNCHANGED <<dag, ledger, applied, sent, read, round, chain>>,
           replies' \subseteq replies,
           \A c \in Call : /\ Started(c)' => Started(c)
                           /\ pc'[c] = "applying" <=> pc[c] = "applying"
                           /\ pc[c] \in {"ok", "refused"} => pc'[c] = pc[c]
                           /\ Started(c)' => \A v \in votes'[c] : HasBlock(v, round[c])
                           /\ pc'[c] \in {"committing", "applying"} => Cardinality(votes'[c]) >= need
    PROVE  ConsensusInv'
  <1>1. DagInv'
    BY DEF ConsensusInv, DagInv
  <1>2. CallInv'
    BY DEF ConsensusInv, CallInv, HasBlock
  <1>3. ChainInv'
    <2>1. CertifiedByQuorum'
      BY DEF ConsensusInv, ChainInv, CertifiedByQuorum, HasBlock
    <2>2. \A i \in 1..Len(chain), c \in Call :
            Started(c)' /\ chain[i].block.round = round[c] => pc'[c] \in {"applying", "ok", "refused"}
      BY DEF ConsensusInv, ChainInv
    <2>3. \A n : StateAt(n)' = StateAt(n)
      BY DEF StateAt
    <2> QED
      BY <2>1, <2>2, <2>3 DEF ConsensusInv, ChainInv
  <1>4. ExecInv'
    BY DEF ConsensusInv, ExecInv, LedgersAgree, StateAt, Unlocked
  <1> QED
    BY <1>1, <1>2, <1>3, <1>4 DEF ConsensusInv

(* The steps to which QuietNext applies: a submission to a killed leader,  *)
(* a turn of the vote loop, its deadline, and a kill.                      *)
LEMMA QuietSteps ==
    ASSUME ConsensusInv,
           \/ \E c \in Call : SubmitToKilled(c) \/ DrainVotes(c) \/ Timeout(c)
           \/ \E v \in Validator : Kill(v)
           \/ UNCHANGED vars
    PROVE  ConsensusInv'
  <1> USE DEF nodeVars, netVars, callVars
  <1>1. ASSUME NEW c \in Call, SubmitToKilled(c) PROVE ConsensusInv'
    <2>1. TypeOK'
      BY <1>1 DEF ConsensusInv, TypeOK, SubmitToKilled
    <2>2. \A d \in Call : pc'[d] = IF d = c THEN "killed" ELSE pc[d]
      BY <1>1 DEF ConsensusInv, TypeOK, SubmitToKilled
    <2> QED
      BY <1>1, <2>1, <2>2, QuietNext DEF SubmitToKilled, ConsensusInv, CallInv, Started
  <1>2. ASSUME NEW c \in Call, DrainVotes(c) PROVE ConsensusInv'
    <2> DEFINE got == votes[c] \cup {v \in Validator : Vote(round[c], v) \in replies}
               next == IF Cardinality(got) >= need THEN "committing" ELSE pc[c]
    <2>1. /\ pc[c] = "voting" /\ replies' = {}
          /\ votes' = [votes EXCEPT ![c] = got] /\ pc' = [pc EXCEPT ![c] = next]
          /\ UNCHANGED <<nodeVars, sent, read, round, chain>>
      BY <1>2 DEF DrainVotes
    <2>2. got \in SUBSET Validator /\ next \in {"voting", "committing"}
          /\ (next = "committing" => Cardinality(got) >= need)
      BY <2>1 DEF ConsensusInv, TypeOK
    <2>3. \A v \in got : HasBlock(v, round[c])
      <3>1. \A v \in Validator : Vote(round[c], v).voter = v /\ Vote(round[c], v).digest = round[c]
        BY DEF Vote
      <3> QED
        BY <2>1, <3>1 DEF ConsensusInv, CallInv, Started
    <2> HIDE DEF got, next
    <2>4. TypeOK'
      BY <2>1, <2>2 DEF ConsensusInv, TypeOK, Running
    <2>5. \A d \in Call : /\ pc'[d] = IF d = c THEN next ELSE pc[d]
                          /\ votes'[d] = IF d = c THEN got ELSE votes[d]
      BY <2>1 DEF ConsensusInv, TypeOK
    <2> QED
      BY <2>1, <2>2, <2>3, <2>4, <2>5, QuietNext DEF ConsensusInv, CallInv, Started
  <1>3. ASSUME NEW c \in Call, Timeout(c) PROVE ConsensusInv'
    <2>1. TypeOK'
      BY <1>3 DEF ConsensusInv, TypeOK, Timeout
    <2>2. \A d \in Call : pc'[d] = IF d = c THEN "failed" ELSE pc[d]
      BY <1>3 DEF ConsensusInv, TypeOK, Timeout
    <2> QED
      BY <1>3, <2>1, <2>2, QuietNext DEF Timeout, ConsensusInv, CallInv, Started
  <1>4. ASSUME NEW v \in Validator, Kill(v) PROVE ConsensusInv'
    <2>1. TypeOK'
      BY <1>4 DEF ConsensusInv, TypeOK, Kill
    <2> QED
      BY <1>4, <2>1, QuietNext DEF Kill, ConsensusInv, CallInv, Started
  <1>5. ASSUME UNCHANGED vars PROVE ConsensusInv'
    <2>1. TypeOK'
      BY <1>5 DEF ConsensusInv, TypeOK, vars
    <2> QED
      BY <1>5, <2>1, QuietNext DEF vars, ConsensusInv, CallInv, Started
  <1> QED
    BY <1>1, <1>2, <1>3, <1>4, <1>5

(* A proposal: a block nobody has certified yet.                           *)
LEMMA SubmitStep ==
    ASSUME ConsensusInv, NEW c \in Call, Submit(c)
    PROVE  ConsensusInv'
  <1> USE DEF nodeVars, netVars, callVars
  <1>b. PICK b : b = NextBlock(dag[Leader], Txs[c])
    OBVIOUS
  <1> DEFINE m == Propose(b)
  <1>0. TypeOK /\ DagInv /\ CallInv /\ ChainInv /\ ExecInv
    BY DEF ConsensusInv
  <1>1. /\ Leader \in Validator /\ dag[Leader] \in DagSet /\ Len(dag[Leader].tips) <= MaxTips
    BY <1>0, ConsensusAssumption DEF TypeOK, DagSet
  <1>2. /\ b \in Block /\ b.round = dag[Leader].next_round
        /\ propose(dag[Leader], Txs[c]) \in DagSet
        /\ Len(propose(dag[Leader], Txs[c]).tips) <= MaxTips
        /\ propose(dag[Leader], Txs[c]).blocks = dag[Leader].blocks \cup {b}
        /\ propose(dag[Leader], Txs[c]).next_round = dag[Leader].next_round + 1
    BY <1>1, <1>b, ProposeFacts
  <1>3. /\ dag' \in [Validator -> DagSet]
        /\ dag'[Leader].blocks = dag[Leader].blocks \cup {b}
        /\ dag'[Leader].next_round = dag[Leader].next_round + 1
        /\ \A v \in Validator : Len(dag'[v].tips) <= MaxTips
        /\ \A v \in Follower : dag'[v] = dag[v]
        /\ \A v \in Validator : dag[v].blocks \subseteq dag'[v].blocks
    BY <1>0, <1>1, <1>2 DEF Submit, TypeOK, DagSet, Follower
  <1>4. m \in Message /\ m.type = "Propose" /\ m.block = b
    BY <1>2 DEF Propose, Message
  <1>5. /\ sent \in Seq(Message) /\ sent' \in Seq(Message) /\ Len(sent') = Len(sent) + 1
        /\ sent'[Len(sent) + 1] = m /\ \A i \in 1..Len(sent) : sent'[i] = sent[i]
        /\ Len(sent) \in Nat
    <2>1. sent' = Append(sent, m) /\ sent \in Seq(Message)
      BY <1>0, <1>b DEF Submit, Broadcast, TypeOK
    <2> HIDE DEF m
    <2> QED
      BY <1>4, <2>1
  <1>6. /\ \A d \in Call : pc'[d] = IF d = c THEN "voting" ELSE pc[d]
        /\ \A d \in Call : round'[d] = IF d = c THEN b.round ELSE round[d]
        /\ \A d \in Call : votes'[d] = IF d = c THEN {Leader} ELSE votes[d]
        /\ pc[c] = "idle" /\ Unlocked
        /\ UNCHANGED <<ledger, alive, applied, replies, chain, read>>
    BY <1>0, <1>2 DEF Submit, Broadcast, TypeOK
  <1>7. \A e \in dag[Leader].blocks : e.round \in Nat /\ e.round < b.round
    BY <1>0, <1>1, <1>2 DEF DagInv, DagSet, Block
  <1>8. b.round \in Nat
    BY <1>2 DEF Block
  <1>9. TypeOK'
    <2>1. pc' \in [Call -> Running \cup {"idle", "ok", "refused", "failed", "killed"}]
          /\ round' \in [Call -> Nat] /\ votes' \in [Call -> SUBSET Validator]
      BY <1>0, <1>1, <1>2, <1>8 DEF Submit, TypeOK, Running, DagSet
    <2>2. read' \in [Follower -> 0..Len(sent')]
      BY <1>0, <1>5, <1>6 DEF TypeOK
    <2> HIDE DEF m
    <2> QED
      BY <1>0, <1>3, <1>5, <1>6, <2>1, <2>2 DEF TypeOK, DagSet
  <1> HIDE DEF m
  <1>10. DagInv'
    <2>1. \A e \in dag'[Leader].blocks : e.round < dag'[Leader].next_round
      BY <1>1, <1>2, <1>3, <1>7, <1>8
    <2>2. \A e1, e2 \in dag'[Leader].blocks : e1.round = e2.round => e1 = e2
      BY <1>0, <1>3, <1>7, <1>8 DEF DagInv
    <2>3. \A f \in Follower : dag'[f].blocks \subseteq dag'[Leader].blocks
      BY <1>0, <1>3 DEF DagInv
    <2>4. \A i \in 1..Len(sent') : sent'[i].type = "Propose" => sent'[i].block \in dag'[Leader].blocks
      BY <1>0, <1>3, <1>4, <1>5 DEF DagInv
    <2>5. \A f \in Follower : \A i \in 1..read'[f] :
             sent'[i].type = "Propose" => sent'[i].block \in dag'[f].blocks
      <3>1. \A f \in Follower : read[f] \in Nat /\ read[f] <= Len(sent)
        BY <1>0, <1>5 DEF TypeOK
      <3> QED
        BY <1>0, <1>3, <1>5, <1>6, <3>1 DEF DagInv
    <2> QED
      BY <2>1, <2>2, <2>3, <2>4, <2>5 DEF DagInv
  <1>11. \A v \in Validator : \A r : HasBlock(v, r) => HasBlock(v, r)'
    BY <1>3 DEF HasBlock
  <1>12. \A d \in Call : Started(d) => \E e \in dag[Leader].blocks : e.round = round[d]
    BY <1>0 DEF CallInv, DagInv
  <1>13. \A d \in Call : Started(d)' => d = c \/ (Started(d) /\ d # c)
    BY <1>6 DEF Started
  <1>14. CallInv'
    <2>1. \A d \in Call : Started(d)' =>
            \E i \in 1..Len(sent') : sent'[i].type = "Propose" /\ sent'[i].block.round = round'[d]
      <3> SUFFICES ASSUME NEW d \in Call, Started(d)'
                   PROVE  \E i \in 1..Len(sent') : sent'[i].type = "Propose"
                                                   /\ sent'[i].block.round = round'[d]
        OBVIOUS
      <3>1. CASE d = c
        BY <1>4, <1>5, <1>6, <3>1
      <3>2. CASE d # c
        <4>1. PICK i \in 1..Len(sent) : sent[i].type = "Propose" /\ sent[i].block.round = round[d]
          BY <1>0, <1>13, <3>2 DEF CallInv
        <4>2. i \in 1..Len(sent')
          BY <1>5
        <4> QED
          BY <1>5, <1>6, <3>2, <4>1, <4>2
      <3> QED
        BY <3>1, <3>2
    <2>2. \A d, e \in Call : Started(d)' /\ Started(e)' /\ round'[d] = round'[e] => d = e
      <3> SUFFICES ASSUME NEW d \in Call, NEW e \in Call, Started(d)', Started(e)',
                          round'[d] = round'[e], d # e
                   PROVE  FALSE
        OBVIOUS
      <3>1. \A k \in Call : Started(k) => round[k] # b.round
        BY <1>7, <1>8, <1>12
      <3> QED
        BY <1>0, <1>6, <1>13, <3>1 DEF CallInv
    <2>3. \A r \in replies' : HasBlock(r.voter, r.digest)'
      <3>1. \A r \in replies : r.voter \in Validator
        BY <1>0 DEF TypeOK
      <3> QED
        BY <1>0, <1>6, <1>11, <3>1 DEF CallInv
    <2>4. \A d \in Call : Started(d)' => \A v \in votes'[d] : HasBlock(v, round[d])'
      <3>1. HasBlock(Leader, b.round)'
        BY <1>3 DEF HasBlock
      <3>2. \A d \in Call : votes[d] \subseteq Validator
        BY <1>0 DEF TypeOK
      <3>3. \A d \in Call \ {c} : Started(d)' => \A v \in votes[d] : HasBlock(v, round[d])
        BY <1>0, <1>13 DEF CallInv
      <3>4. \A d \in Call \ {c} : Started(d)' => \A v \in votes'[d] : HasBlock(v, round[d])'
        BY <1>3, <1>6, <3>2, <3>3 DEF HasBlock
      <3>5. \A v \in votes'[c] : HasBlock(v, round[c])'
        BY <1>6, <3>1 DEF HasBlock
      <3> QED
        BY <3>4, <3>5
    <2>5. \A d \in Call : pc'[d] \in {"committing", "applying"} => Cardinality(votes'[d]) >= need
      BY <1>0, <1>6 DEF CallInv
    <2> QED
      BY <2>1, <2>2, <2>3, <2>4, <2>5 DEF CallInv
  <1>15. ChainInv'
    <2>1. \A n : StateAt(n)' = StateAt(n)
      BY <1>6 DEF StateAt
    <2>0. \A i \in 1..Len(chain) : chain[i].at \in 1..Len(sent)
      BY <1>0 DEF ChainInv
    <2>2. \A i \in 1..Len(chain) :
            /\ chain[i].at \in 1..Len(sent') /\ sent'[chain[i].at] = sent[chain[i].at]
            /\ \A j \in 1..(chain[i].at - 1) : sent'[j] = sent[j]
      BY <1>5, <2>0
    <2>3. \A k \in 1..Len(sent') :
            sent'[k].type = "Commit" => \E i \in 1..Len(chain) : chain[i].at = k
      <3>1. \A k \in 1..Len(sent) :
              sent[k].type = "Commit" => \E i \in 1..Len(chain) : chain[i].at = k
        BY <1>0 DEF ChainInv
      <3> QED
        BY <1>4, <1>5, <3>1
    <2>4. \A i \in 1..Len(chain), d \in Call :
            Started(d)' /\ chain[i].block.round = round'[d] => pc'[d] \in {"applying", "ok", "refused"}
      <3>1. \A i \in 1..Len(chain) : chain[i].block.round \in Nat /\ chain[i].block.round # b.round
        <4>1. \A i \in 1..Len(chain) : chain[i].block \in dag[Leader].blocks
          BY <1>0 DEF ChainInv
        <4> QED
          BY <1>7, <1>8, <4>1
      <3>2. \A i \in 1..Len(chain), d \in Call :
              Started(d) /\ chain[i].block.round = round[d] => pc[d] \in {"applying", "ok", "refused"}
        BY <1>0 DEF ChainInv
      <3> QED
        BY <1>6, <1>13, <3>1, <3>2
    <2>5. CertifiedByQuorum'
      <3> SUFFICES ASSUME NEW i \in DOMAIN chain
                   PROVE  Cardinality({v \in Validator : HasBlock(v, chain[i].block.round)'}) >= need
        BY <1>6 DEF CertifiedByQuorum, HasBlock
      <3> DEFINE Q == {v \in Validator : HasBlock(v, chain[i].block.round)}
                 R == {v \in Validator : HasBlock(v, chain[i].block.round)'}
      <3>1. Q \subseteq R /\ IsFiniteSet(R)
        BY <1>3, <1>6, ConsensusAssumption, FS_Subset DEF HasBlock
      <3>2. Cardinality(Q) >= need
        BY <1>0 DEF ChainInv, CertifiedByQuorum
      <3> HIDE DEF Q, R
      <3>3. Cardinality(Q) <= Cardinality(R) /\ Cardinality(Q) \in Nat /\ Cardinality(R) \in Nat
        BY <3>1, FS_Subset, FS_CardinalityType
      <3>4. Cardinality(R) >= need
        BY <3>2, <3>3 DEF need
      <3> QED
        BY <3>4 DEF R
    <2>6. \A i \in 1..Len(chain) : chain[i].block \in dag'[Leader].blocks
      BY <1>0, <1>3 DEF ChainInv
    <2>7. \A i \in 1..Len(chain) :
             /\ sent'[chain[i].at].type = "Commit"
             /\ sent'[chain[i].at].digest = chain[i].block.round
             /\ Cardinality(sent'[chain[i].at].votes) >= need
             /\ \E j \in 1..(chain[i].at - 1) :
                   sent'[j].type = "Propose" /\ sent'[j].block = chain[i].block
             /\ chain[i].state = apply_block_txs(StateAt(i - 1), chain[i].block.txs).state
      <3> TAKE i \in 1..Len(chain)
      <3>1. PICK j \in 1..(chain[i].at - 1) : sent[j].type = "Propose" /\ sent[j].block = chain[i].block
        BY <1>0 DEF ChainInv
      <3>2. sent'[j] = sent[j] /\ sent'[chain[i].at] = sent[chain[i].at]
        BY <2>2
      <3> QED
        BY <1>0, <3>1, <3>2 DEF ChainInv
    <2>8. chain \in Seq({chain[i] : i \in DOMAIN chain})
          /\ \A i, j \in 1..Len(chain) : i < j => chain[i].at < chain[j].at
      BY <1>0 DEF ChainInv
    <2> QED
      BY <1>6, <2>1, <2>2, <2>3, <2>4, <2>5, <2>6, <2>7, <2>8 DEF ChainInv
  <1>16. ExecInv'
    BY <1>0, <1>6 DEF ExecInv, LedgersAgree, StateAt, Unlocked
  <1> QED
    BY <1>9, <1>10, <1>14, <1>15, <1>16 DEF ConsensusInv

(* A certificate leaves: the chain grows by the block of the call.         *)
LEMMA SendCommitStep ==
    ASSUME ConsensusInv, NEW c \in Call, SendCommit(c)
    PROVE  ConsensusInv'
  <1> USE DEF nodeVars, netVars, callVars
  <1>0. TypeOK /\ DagInv /\ CallInv /\ ChainInv /\ ExecInv
    BY DEF ConsensusInv
  <1>1. PICK j0 \in 1..Len(sent) : sent[j0].type = "Propose" /\ sent[j0].block.round = round[c]
    BY <1>0 DEF SendCommit, CallInv, Started
  <1>2. PICK b : b = sent[j0].block
    OBVIOUS
  <1>3. b \in dag[Leader].blocks /\ b.round = round[c] /\ Leader \in Validator
    BY <1>0, <1>1, <1>2, ConsensusAssumption DEF DagInv
  <1>4. BlockOf(Leader, round[c]) = b
    BY <1>0, <1>3, BlockFound
  <1>5. PICK m : m = Commit(round[c], votes[c])
    OBVIOUS
  <1>6. /\ m \in Message /\ m.type = "Commit" /\ m.digest = round[c] /\ m.votes = votes[c]
        /\ round[c] \in Nat
    BY <1>0, <1>5 DEF Commit, Message, TypeOK
  <1>7. /\ sent \in Seq(Message) /\ sent' \in Seq(Message) /\ Len(sent') = Len(sent) + 1
        /\ sent'[Len(sent) + 1] = m /\ \A i \in 1..Len(sent) : sent'[i] = sent[i]
        /\ Len(sent) \in Nat
    <2>1. sent' = Append(sent, m) /\ sent \in Seq(Message)
      BY <1>0, <1>5 DEF SendCommit, Broadcast, TypeOK
    <2> QED
      BY <1>6, <2>1
  <1>8. PICK e : e = [block |-> b, at |-> Len(sent) + 1, state |-> apply_block_txs(Tip, b.txs).state]
    OBVIOUS
  <1>9. /\ e.block = b /\ e.at = Len(sent) + 1 /\ e.state = apply_block_txs(Tip, b.txs).state
    BY <1>8
  <1>10. /\ Len(chain) \in Nat /\ Len(chain') = Len(chain) + 1
         /\ chain'[Len(chain) + 1] = e /\ \A i \in 1..Len(chain) : chain'[i] = chain[i]
         /\ chain' \in Seq({chain'[i] : i \in DOMAIN chain'})
    <2> DEFINE S == {chain[i] : i \in DOMAIN chain}
    <2>1. chain' = Append(chain, e)
      BY <1>4, <1>8 DEF SendCommit
    <2>2. chain \in Seq(S)
      BY <1>0 DEF ChainInv
    <2> HIDE DEF S
    <2>3. chain \in Seq(S \cup {e})
      BY <2>2
    <2>4. chain' \in Seq(S \cup {e}) /\ Len(chain) \in Nat /\ Len(chain') = Len(chain) + 1
          /\ chain'[Len(chain) + 1] = e /\ \A i \in 1..Len(chain) : chain'[i] = chain[i]
      BY <2>1, <2>3
    <2>5. chain' \in Seq({chain'[i] : i \in DOMAIN chain'})
      BY <2>4
    <2> QED
      BY <2>4, <2>5
  <1>11. /\ pc[c] = "committing" /\ Unlocked
         /\ \A d \in Call : pc'[d] = IF d = c THEN "applying" ELSE pc[d]
         /\ UNCHANGED <<dag, ledger, alive, applied, replies, round, votes, read>>
    BY <1>0 DEF SendCommit, Broadcast, TypeOK
  <1>12. \A d \in Call : Started(d)' <=> Started(d)
    BY <1>11 DEF Started
  <1>13. TypeOK'
    <2>1. read' \in [Follower -> 0..Len(sent')] /\ applied' \in [Validator -> 0..Len(chain')]
      BY <1>0, <1>7, <1>10, <1>11 DEF TypeOK
    <2>2. pc' \in [Call -> Running \cup {"idle", "ok", "refused", "failed", "killed"}]
      BY <1>0 DEF SendCommit, TypeOK, Running
    <2> QED
      BY <1>0, <1>7, <1>11, <2>1, <2>2 DEF TypeOK
  <1>14. DagInv'
    <2>1. \A i \in 1..Len(sent') : sent'[i].type = "Propose" => sent'[i].block \in dag[Leader].blocks
      <3>1. \A i \in 1..Len(sent') : i \in 1..Len(sent) \/ i = Len(sent) + 1
        BY <1>7
      <3>2. m.type # "Propose"
        BY <1>6
      <3> QED
        BY <1>0, <1>7, <3>1, <3>2 DEF DagInv
    <2>2. \A f \in Follower : \A i \in 1..read[f] :
             sent'[i].type = "Propose" => sent'[i].block \in dag[f].blocks
      <3>1. \A f \in Follower : read[f] \in Nat /\ read[f] <= Len(sent)
        BY <1>0, <1>7 DEF TypeOK
      <3> QED
        BY <1>0, <1>7, <3>1 DEF DagInv
    <2> QED
      BY <1>0, <1>11, <2>1, <2>2 DEF DagInv
  <1>15. CallInv'
    <2>1. \A d \in Call : Started(d) =>
            \E i \in 1..Len(sent') : sent'[i].type = "Propose" /\ sent'[i].block.round = round[d]
      <3> SUFFICES ASSUME NEW d \in Call, Started(d)
                   PROVE  \E i \in 1..Len(sent') : sent'[i].type = "Propose"
                                                   /\ sent'[i].block.round = round[d]
        OBVIOUS
      <3>1. PICK i \in 1..Len(sent) : sent[i].type = "Propose" /\ sent[i].block.round = round[d]
        BY <1>0 DEF CallInv
      <3>2. i \in 1..Len(sent')
        BY <1>7
      <3> QED
        BY <1>7, <3>1, <3>2
    <2>2. \A d \in Call : pc'[d] \in {"committing", "applying"} => Cardinality(votes[d]) >= need
      BY <1>0, <1>11 DEF CallInv
    <2>3. \A v, r : HasBlock(v, r)' <=> HasBlock(v, r)
      BY <1>11 DEF HasBlock
    <2> QED
      BY <1>0, <1>11, <1>12, <2>1, <2>2, <2>3 DEF CallInv, HasBlock
  <1>16. \A n \in 0..Len(chain) : StateAt(n)' = StateAt(n)
    BY <1>10 DEF StateAt
  <1>17. ChainInv'
    <2>n. PICK n \in Nat : n = Len(chain) + 1
      BY <1>10
    <2>0. \A i \in 1..Len(chain) : chain[i].at \in 1..Len(sent) /\ i \in Nat /\ i - 1 \in 0..Len(chain)
      BY <1>0, <1>10 DEF ChainInv
    <2>1. \A i \in 1..Len(chain) :
            /\ chain[i].at \in 1..Len(sent') /\ sent'[chain[i].at] = sent[chain[i].at]
            /\ \A j \in 1..(chain[i].at - 1) : sent'[j] = sent[j]
      <3> TAKE i \in 1..Len(chain)
      <3>1. chain[i].at \in 1..Len(sent)
        BY <2>0
      <3>2. chain[i].at \in 1..Len(sent') /\ \A j \in 1..(chain[i].at - 1) : j \in 1..Len(sent)
        BY <1>7, <3>1
      <3> QED
        BY <1>7, <3>1, <3>2
    <2>2. ASSUME NEW i \in 1..Len(chain)
          PROVE  /\ chain'[i].at \in 1..Len(sent')
                 /\ sent'[chain'[i].at].type = "Commit"
                 /\ sent'[chain'[i].at].digest = chain'[i].block.round
                 /\ Cardinality(sent'[chain'[i].at].votes) >= need
                 /\ chain'[i].block \in dag'[Leader].blocks
                 /\ \E j \in 1..(chain'[i].at - 1) :
                       sent'[j].type = "Propose" /\ sent'[j].block = chain'[i].block
                 /\ chain'[i].state = apply_block_txs(StateAt(i - 1)', chain'[i].block.txs).state
      <3>1. PICK j \in 1..(chain[i].at - 1) : sent[j].type = "Propose" /\ sent[j].block = chain[i].block
        BY <1>0 DEF ChainInv
      <3>2. sent'[j] = sent[j] /\ sent'[chain[i].at] = sent[chain[i].at]
            /\ chain[i].at \in 1..Len(sent') /\ chain'[i] = chain[i]
        BY <1>10, <2>1
      <3>3. StateAt(i - 1)' = StateAt(i - 1)
        BY <1>16, <2>0
      <3>4. /\ sent[chain[i].at].type = "Commit"
            /\ sent[chain[i].at].digest = chain[i].block.round
            /\ Cardinality(sent[chain[i].at].votes) >= need
            /\ chain[i].block \in dag[Leader].blocks
            /\ chain[i].state = apply_block_txs(StateAt(i - 1), chain[i].block.txs).state
        BY <1>0 DEF ChainInv
      <3> QED
        BY <1>11, <3>1, <3>2, <3>3, <3>4
    <2>3. /\ chain'[n].at \in 1..Len(sent')
          /\ sent'[chain'[n].at].type = "Commit"
          /\ sent'[chain'[n].at].digest = chain'[n].block.round
          /\ Cardinality(sent'[chain'[n].at].votes) >= need
          /\ chain'[n].block \in dag'[Leader].blocks
          /\ \E j \in 1..(chain'[n].at - 1) :
                sent'[j].type = "Propose" /\ sent'[j].block = chain'[n].block
          /\ chain'[n].state = apply_block_txs(StateAt(n - 1)', chain'[n].block.txs).state
      <3>1. n - 1 = Len(chain) /\ Len(chain) \in 0..Len(chain)
        BY <1>10, <2>n
      <3>2. StateAt(n - 1)' = Tip
        BY <1>16, <3>1 DEF Tip
      <3>3. Cardinality(votes[c]) >= need
        BY <1>0, <1>11 DEF CallInv
      <3>4. j0 \in 1..(Len(sent) + 1 - 1) /\ sent'[j0] = sent[j0]
        BY <1>7
      <3>5. Len(sent) + 1 \in 1..Len(sent')
        BY <1>7
      <3>6. chain'[n] = e
        BY <1>10, <2>n
      <3>7. \E j \in 1..(chain'[n].at - 1) : sent'[j].type = "Propose" /\ sent'[j].block = chain'[n].block
        BY <1>1, <1>2, <1>9, <3>4, <3>6
      <3>8. sent'[chain'[n].at] = m /\ chain'[n].at \in 1..Len(sent')
        BY <1>7, <1>9, <3>5, <3>6
      <3>9. chain'[n].block \in dag'[Leader].blocks /\ chain'[n].block.round = round[c]
        BY <1>3, <1>9, <1>11, <3>6
      <3>10. chain'[n].state = apply_block_txs(StateAt(n - 1)', chain'[n].block.txs).state
        BY <1>9, <3>2, <3>6
      <3> QED
        BY <1>6, <3>3, <3>7, <3>8, <3>9, <3>10
    <2>4. \A i \in 1..Len(chain') : i \in 1..Len(chain) \/ i = n
      BY <1>10, <2>n
    <2>5. \A k \in 1..Len(sent') :
            sent'[k].type = "Commit" => \E i \in 1..Len(chain') : chain'[i].at = k
      <3> SUFFICES ASSUME NEW k \in 1..Len(sent'), sent'[k].type = "Commit"
                   PROVE  \E i \in 1..Len(chain') : chain'[i].at = k
        OBVIOUS
      <3>1. CASE k = Len(sent) + 1
        BY <1>9, <1>10, <3>1
      <3>2. CASE k # Len(sent) + 1
        <4>1. k \in 1..Len(sent) /\ sent'[k] = sent[k]
          BY <1>7, <3>2
        <4>2. PICK i \in 1..Len(chain) : chain[i].at = k
          BY <1>0, <4>1 DEF ChainInv
        <4> QED
          BY <1>10, <4>2
      <3> QED
        BY <3>1, <3>2
    <2>6. \A i, j \in 1..Len(chain') : i < j => chain'[i].at < chain'[j].at
      <3> SUFFICES ASSUME NEW i \in 1..Len(chain'), NEW j \in 1..Len(chain'), i < j
                   PROVE  chain'[i].at < chain'[j].at
        OBVIOUS
      <3>1. i \in 1..Len(chain) /\ chain'[i].at = chain[i].at
        BY <1>10
      <3>2. CASE j = n
        BY <1>7, <1>9, <1>10, <2>0, <2>n, <3>1, <3>2
      <3>3. CASE j # n
        <4>1. j \in 1..Len(chain) /\ chain'[j].at = chain[j].at
          BY <1>10, <2>4, <3>3
        <4> QED
          BY <1>0, <3>1, <4>1 DEF ChainInv
      <3> QED
        BY <3>2, <3>3
    <2>7. \A i \in 1..Len(chain'), d \in Call :
            Started(d)' /\ chain'[i].block.round = round'[d] => pc'[d] \in {"applying", "ok", "refused"}
      <3> SUFFICES ASSUME NEW i \in 1..Len(chain'), NEW d \in Call, Started(d),
                          chain'[i].block.round = round[d]
                   PROVE  pc'[d] \in {"applying", "ok", "refused"}
        BY <1>11, <1>12
      <3>1. CASE i = n
        <4>1. Started(c) /\ round[c] = round[d]
          BY <1>3, <1>9, <1>10, <1>11, <2>n, <3>1 DEF Started
        <4>2. c = d
          BY <1>0, <4>1 DEF CallInv
        <4> QED
          BY <1>11, <4>2
      <3>2. CASE i # n
        <4>1. i \in 1..Len(chain) /\ chain'[i] = chain[i]
          BY <1>10, <2>4, <3>2
        <4>2. pc[d] \in {"applying", "ok", "refused"}
          BY <1>0, <4>1 DEF ChainInv
        <4> QED
          BY <1>11, <4>2
      <3> QED
        BY <3>1, <3>2
    <2>8. CertifiedByQuorum'
      <3> SUFFICES ASSUME NEW i \in 1..Len(chain')
                   PROVE  Cardinality({v \in Validator : HasBlock(v, chain[i].block.round)'}) >= need
        BY <1>10 DEF CertifiedByQuorum
      <3>1. CASE i = n
        <4> DEFINE R == {v \in Validator : HasBlock(v, chain[i].block.round)'}
        <4>1. chain'[i].block.round = round[c]
          BY <1>3, <1>9, <1>10, <2>n, <3>1
        <4>2. \A v \in votes[c] : v \in Validator /\ HasBlock(v, round[c])
          BY <1>0, <1>11 DEF CallInv, Started, TypeOK
        <4>3. votes[c] \subseteq R /\ IsFiniteSet(R)
          BY <1>11, <4>1, <4>2, ConsensusAssumption, FS_Subset DEF HasBlock
        <4>4. Cardinality(votes[c]) >= need
          BY <1>0, <1>11 DEF CallInv
        <4> HIDE DEF R
        <4>5. /\ Cardinality(votes[c]) <= Cardinality(R)
              /\ Cardinality(votes[c]) \in Nat /\ Cardinality(R) \in Nat
          BY <4>3, FS_Subset, FS_CardinalityType
        <4>6. Cardinality(R) >= need
          BY <4>4, <4>5 DEF need
        <4> QED
          BY <4>6 DEF R
      <3>2. CASE i # n
        <4>1. i \in 1..Len(chain) /\ chain'[i] = chain[i] /\ i \in DOMAIN chain
          <5>1. DOMAIN chain = 1..Len(chain)
            BY <1>0 DEF ChainInv
          <5> QED
            BY <1>10, <2>4, <3>2, <5>1
        <4>2. Cardinality({v \in Validator : HasBlock(v, chain[i].block.round)}) >= need
          BY <1>0, <4>1 DEF ChainInv, CertifiedByQuorum
        <4>3. {v \in Validator : HasBlock(v, chain[i].block.round)'}
                = {v \in Validator : HasBlock(v, chain[i].block.round)}
          BY <1>11, <4>1 DEF HasBlock
        <4> QED
          BY <4>2, <4>3
      <3> QED
        BY <3>1, <3>2
    <2>9. ASSUME NEW i \in 1..Len(chain')
          PROVE  /\ chain'[i].at \in 1..Len(sent')
                 /\ sent'[chain'[i].at].type = "Commit"
                 /\ sent'[chain'[i].at].digest = chain'[i].block.round
                 /\ Cardinality(sent'[chain'[i].at].votes) >= need
                 /\ chain'[i].block \in dag'[Leader].blocks
                 /\ \E j \in 1..(chain'[i].at - 1) :
                       sent'[j].type = "Propose" /\ sent'[j].block = chain'[i].block
                 /\ chain'[i].state = apply_block_txs(StateAt(i - 1)', chain'[i].block.txs).state
      BY <2>2, <2>3, <2>4
    <2> QED
      BY <1>10, <2>5, <2>6, <2>7, <2>8, <2>9 DEF ChainInv
  <1>18. ExecInv'
    <2>1. \A f \in Follower : \A i \in 1..Len(chain') : i <= applied[f] <=> chain'[i].at <= read[f]
      <3> SUFFICES ASSUME NEW f \in Follower, NEW i \in 1..Len(chain')
                   PROVE  i <= applied[f] <=> chain'[i].at <= read[f]
        OBVIOUS
      <3>1. read[f] \in 0..Len(sent) /\ applied[f] \in 0..Len(chain)
        BY <1>0 DEF TypeOK, Follower
      <3>2. CASE i = Len(chain) + 1
        BY <1>7, <1>9, <1>10, <3>1, <3>2
      <3>3. CASE i # Len(chain) + 1
        <4>1. i \in 1..Len(chain) /\ chain'[i] = chain[i]
          BY <1>10, <3>3
        <4> QED
          BY <1>0, <4>1 DEF ExecInv
      <3> QED
        BY <3>2, <3>3
    <2>2. ~Unlocked'
      BY <1>11 DEF Unlocked
    <2>3. \A d \in Call : pc'[d] = "applying" => d = c
      BY <1>11 DEF Unlocked
    <2>4. Len(chain') > 0 /\ applied[Leader] = Len(chain') - 1
          /\ chain'[Len(chain')].block.round = round[c]
      BY <1>0, <1>3, <1>9, <1>10, <1>11 DEF ExecInv
    <2>5. LedgersAgree'
      <3> SUFFICES ASSUME NEW v \in Validator PROVE ledger'[v] = StateAt(applied[v])'
        BY DEF LedgersAgree
      <3>1. applied[v] \in 0..Len(chain) /\ applied' = applied /\ ledger' = ledger
        BY <1>0, <1>11 DEF TypeOK
      <3>2. ledger[v] = StateAt(applied[v])
        BY <1>0 DEF ExecInv, LedgersAgree
      <3> QED
        BY <1>10, <3>1, <3>2 DEF StateAt
    <2> QED
      BY <1>11, <2>1, <2>2, <2>3, <2>4, <2>5 DEF ExecInv
  <1> QED
    BY <1>13, <1>14, <1>15, <1>17, <1>18 DEF ConsensusInv

(* Executing the next block of the chain keeps a validator's ledger on it. *)
LEMMA ExecuteNext ==
    ASSUME ConsensusInv, chain' = chain, NEW v \in Validator,
           NEW i \in 1..Len(chain), applied[v] = i - 1, Execute(v, chain[i].block)
    PROVE  /\ LedgersAgree'
           /\ applied' \in [Validator -> 0..Len(chain)] /\ DOMAIN ledger' = Validator
           /\ \A w \in Validator : applied'[w] = IF w = v THEN i ELSE applied[w]
  <1>0. TypeOK /\ ChainInv /\ LedgersAgree
    BY DEF ConsensusInv, ExecInv
  <1>1. /\ applied \in [Validator -> 0..Len(chain)] /\ DOMAIN ledger = Validator
        /\ Len(chain) \in Nat
    BY <1>0 DEF TypeOK, ChainInv
  <1>2. \A w \in Validator : applied'[w] = IF w = v THEN i ELSE applied[w]
    BY <1>1 DEF Execute
  <1>3. applied' \in [Validator -> 0..Len(chain)]
    BY <1>1 DEF Execute
  <1>4. PICK s : s = apply_block_txs(ledger[v], chain[i].block.txs).state
    OBVIOUS
  <1>5. ledger' = [ledger EXCEPT ![v] = s]
    BY <1>4 DEF Execute
  <1>6. DOMAIN ledger' = Validator /\ \A w \in Validator : ledger'[w] = IF w = v THEN s ELSE ledger[w]
    BY <1>1, <1>5
  <1>7. s = chain[i].state
    <2>1. ledger[v] = StateAt(i - 1)
      BY <1>0 DEF LedgersAgree
    <2>2. chain[i].state = apply_block_txs(StateAt(i - 1), chain[i].block.txs).state
      BY <1>0 DEF ChainInv
    <2> QED
      BY <1>4, <2>1, <2>2
  <1>8. ASSUME NEW w \in Validator PROVE ledger'[w] = StateAt(applied[w])'
    <2>1. CASE w = v
      BY <1>2, <1>6, <1>7, <2>1 DEF StateAt
    <2>2. CASE w # v
      <3>1. ledger'[w] = StateAt(applied[w]) /\ applied'[w] = applied[w]
        BY <1>0, <1>2, <1>6, <2>2 DEF LedgersAgree
      <3> QED
        BY <3>1 DEF StateAt
    <2> QED
      BY <2>1, <2>2
  <1> QED
    BY <1>2, <1>3, <1>6, <1>8 DEF LedgersAgree

(* What a step that leaves mempools, messages and chain alone, and starts  *)
(* or fails no call, keeps of the chain's facts.                           *)
LEMMA ChainKept ==
    ASSUME ConsensusInv, UNCHANGED <<dag, sent, round, chain>>,
           \A c \in Call : /\ Started(c)' => Started(c)
                           /\ pc[c] \in {"applying", "ok", "refused"}
                                => pc'[c] \in {"applying", "ok", "refused"}
    PROVE  ChainInv'
  <1>0. ChainInv /\ dag' = dag /\ sent' = sent /\ round' = round /\ chain' = chain
    BY DEF ConsensusInv
  <1>1. CertifiedByQuorum'
    <2>1. CertifiedByQuorum
      BY <1>0 DEF ChainInv
    <2> QED
      BY <1>0, <2>1 DEF CertifiedByQuorum, HasBlock
  <1>2. \A i \in 1..Len(chain), c \in Call :
          Started(c)' /\ chain[i].block.round = round[c] => pc'[c] \in {"applying", "ok", "refused"}
    BY <1>0 DEF ChainInv
  <1>3. \A n : StateAt(n)' = StateAt(n)
    BY <1>0 DEF StateAt
  <1>4. (\A i \in 1..Len(chain) :
            /\ chain[i].at \in 1..Len(sent)
            /\ sent[chain[i].at].type = "Commit"
            /\ sent[chain[i].at].digest = chain[i].block.round
            /\ Cardinality(sent[chain[i].at].votes) >= need
            /\ chain[i].block \in dag[Leader].blocks
            /\ \E j \in 1..(chain[i].at - 1) :
                  sent[j].type = "Propose" /\ sent[j].block = chain[i].block
            /\ chain[i].state = apply_block_txs(StateAt(i - 1), chain[i].block.txs).state)'
    <2>1. \A i \in 1..Len(chain) :
            /\ chain[i].at \in 1..Len(sent)
            /\ sent[chain[i].at].type = "Commit"
            /\ sent[chain[i].at].digest = chain[i].block.round
            /\ Cardinality(sent[chain[i].at].votes) >= need
            /\ chain[i].block \in dag[Leader].blocks
            /\ \E j \in 1..(chain[i].at - 1) :
                  sent[j].type = "Propose" /\ sent[j].block = chain[i].block
            /\ chain[i].state = apply_block_txs(StateAt(i - 1), chain[i].block.txs).state
      BY <1>0 DEF ChainInv
    <2>2. dag' = dag /\ sent' = sent /\ chain' = chain
      BY <1>0
    <2> QED
      BY ONLY <1>3, <2>1, <2>2
  <1>5. /\ chain \in Seq({chain[i] : i \in DOMAIN chain})
        /\ \A k \in 1..Len(sent) : sent[k].type = "Commit" => \E i \in 1..Len(chain) : chain[i].at = k
        /\ \A i, j \in 1..Len(chain) : i < j => chain[i].at < chain[j].at
    BY <1>0 DEF ChainInv
  <1>6. sent' = sent /\ chain' = chain /\ round' = round
    BY <1>0
  <1>7. (\A i \in 1..Len(chain), c \in Call :
            Started(c) /\ chain[i].block.round = round[c] => pc[c] \in {"applying", "ok", "refused"})'
    BY ONLY <1>2, <1>6
  <1>8. (/\ chain \in Seq({chain[i] : i \in DOMAIN chain})
         /\ \A n \in 1..Len(sent) : sent[n].type = "Commit" => \E i \in 1..Len(chain) : chain[i].at = n
         /\ \A i, j \in 1..Len(chain) : i < j => chain[i].at < chain[j].at)'
    BY ONLY <1>5, <1>6
  <1> QED
    BY ONLY <1>1, <1>4, <1>7, <1>8 DEF ChainInv

(* The leader executes the block it has just certified.                    *)
LEMMA ApplyCommitStep ==
    ASSUME ConsensusInv, NEW c \in Call, ApplyCommit(c)
    PROVE  ConsensusInv'
  <1> USE DEF nodeVars, netVars, callVars
  <1>0. TypeOK /\ DagInv /\ CallInv /\ ChainInv /\ ExecInv /\ Leader \in Validator
    BY ConsensusAssumption DEF ConsensusInv
  <1>1. PICK n : n = Len(chain)
    OBVIOUS
  <1>2. pc[c] = "applying" /\ n \in Nat /\ n \in 1..Len(chain) /\ applied[Leader] = n - 1
        /\ chain[n].block.round = round[c]
    <2>1. pc[c] = "applying" /\ Len(chain) \in Nat
      BY <1>0 DEF ApplyCommit, ChainInv
    <2> QED
      BY <1>0, <1>1, <2>1 DEF ExecInv
  <1>3. chain[n].block \in dag[Leader].blocks
    BY <1>0, <1>2 DEF ChainInv
  <1>4. BlockOf(Leader, round[c]) = chain[n].block
    BY <1>0, <1>2, <1>3, BlockFound
  <1>5. Execute(Leader, chain[n].block) /\ UNCHANGED <<dag, alive, sent, read, replies, round, votes, chain>>
    BY <1>4 DEF ApplyCommit
  <1>6. /\ LedgersAgree'
        /\ applied' \in [Validator -> 0..Len(chain)] /\ DOMAIN ledger' = Validator
        /\ \A w \in Validator : applied'[w] = IF w = Leader THEN n ELSE applied[w]
    BY <1>0, <1>2, <1>5, ExecuteNext
  <1>7. PICK r \in {"ok", "refused"} : pc' = [pc EXCEPT ![c] = r]
    BY DEF ApplyCommit
  <1>8. pc \in [Call -> Running \cup {"idle", "ok", "refused", "failed", "killed"}]
    BY <1>0 DEF TypeOK
  <1>9. \A d \in Call : pc'[d] = IF d = c THEN r ELSE pc[d]
    BY <1>7, <1>8
  <1>10. TypeOK'
    <2>1. pc' \in [Call -> Running \cup {"idle", "ok", "refused", "failed", "killed"}]
      BY <1>7, <1>8
    <2> QED
      BY <1>0, <1>5, <1>6, <2>1 DEF TypeOK
  <1>11. DagInv'
    BY <1>0, <1>5 DEF DagInv
  <1>12. \A d \in Call : Started(d)' <=> Started(d)
    BY <1>2, <1>9 DEF Started
  <1>13. CallInv'
    <2>1. \A d \in Call : pc'[d] \in {"committing", "applying"} => pc[d] \in {"committing", "applying"}
      BY <1>9
    <2> QED
      BY <1>0, <1>5, <1>12, <2>1 DEF CallInv, HasBlock
  <1>14. ChainInv'
    <2>1. \A d \in Call : /\ Started(d)' => Started(d)
                          /\ pc[d] \in {"applying", "ok", "refused"}
                               => pc'[d] \in {"applying", "ok", "refused"}
      BY <1>9, <1>12
    <2> QED
      BY <1>5, <2>1, ChainKept
  <1>15. ExecInv'
    <2>1. \A d \in Call : pc'[d] # "applying"
      BY <1>0, <1>2, <1>9 DEF ExecInv
    <2>2. applied'[Leader] = Len(chain)
      BY <1>0, <1>1, <1>6
    <2>3. \A f \in Follower : \A i \in 1..Len(chain) : i <= applied'[f] <=> chain[i].at <= read[f]
      BY <1>0, <1>6 DEF ExecInv, Follower
    <2> QED
      BY <1>5, <1>6, <2>1, <2>2, <2>3 DEF ExecInv
  <1> QED
    BY <1>10, <1>11, <1>13, <1>14, <1>15 DEF ConsensusInv

(* A follower inserts a proposed block and votes for it.                   *)
LEMMA OnProposeStep ==
    ASSUME ConsensusInv, NEW f \in Follower, OnPropose(f)
    PROVE  ConsensusInv'
  <1> USE DEF nodeVars, netVars, callVars
  <1>0. /\ TypeOK /\ DagInv /\ CallInv /\ ChainInv /\ ExecInv
        /\ f \in Validator /\ Leader \in Validator /\ f # Leader
    BY ConsensusAssumption DEF ConsensusInv, Follower
  <1>1. PICK k : k = read[f] + 1
    OBVIOUS
  <1>2. PICK b : b = sent[k].block
    OBVIOUS
  <1>3. /\ sent \in Seq(Message) /\ Len(sent) \in Nat /\ read \in [Follower -> 0..Len(sent)]
        /\ k \in 1..Len(sent) /\ sent[k].type = "Propose" /\ read' = [read EXCEPT ![f] = k]
        /\ dag' = [dag EXCEPT ![f] = insert(dag[f], b)]
        /\ replies' = replies \cup {Vote(b.round, f)}
        /\ UNCHANGED <<ledger, alive, applied, sent, pc, round, votes, chain>>
    <2>1. sent \in Seq(Message) /\ Len(sent) \in Nat /\ read \in [Follower -> 0..Len(sent)]
      BY <1>0 DEF TypeOK
    <2>2. k \in 1..Len(sent)
      BY <1>1, <2>1 DEF OnPropose, Receive
    <2> QED
      BY <1>1, <1>2, <2>1, <2>2 DEF OnPropose, Receive, Oldest
  <1>4. b \in dag[Leader].blocks /\ b \in Block /\ b.round \in Nat
    <2>1. b \in dag[Leader].blocks
      BY <1>0, <1>2, <1>3 DEF DagInv
    <2>2. b \in Block
      BY <1>0, <2>1 DEF TypeOK
    <2> QED
      BY <2>1, <2>2 DEF Block
  <1>5. /\ insert(dag[f], b) \in DagSet /\ Len(insert(dag[f], b).tips) <= MaxTips
        /\ insert(dag[f], b).blocks = dag[f].blocks \cup {b}
    <2>1. dag[f] \in DagSet /\ Len(dag[f].tips) <= MaxTips
      BY <1>0 DEF TypeOK, DagSet
    <2> QED
      BY <1>4, <2>1, InsertFacts
  <1>6. /\ dag' \in [Validator -> DagSet] /\ dag'[Leader] = dag[Leader]
        /\ dag'[f].blocks = dag[f].blocks \cup {b}
        /\ \A v \in Validator : Len(dag'[v].tips) <= MaxTips
        /\ \A v \in Validator \ {f} : dag'[v] = dag[v]
        /\ \A v \in Validator : dag[v].blocks \subseteq dag'[v].blocks
    BY <1>0, <1>3, <1>5 DEF TypeOK, DagSet
  <1>7. \A g \in Follower : /\ read'[g] = IF g = f THEN k ELSE read[g]
                            /\ read[g] \in Nat /\ read[g] <= Len(sent)
    BY <1>3
  <1>8. TypeOK'
    <2>1. read' \in [Follower -> 0..Len(sent)]
      BY <1>3
    <2>2. replies' \subseteq [digest : Nat, voter : Validator]
      BY <1>0, <1>3, <1>4 DEF TypeOK, Vote
    <2> QED
      BY <1>0, <1>3, <1>6, <2>1, <2>2 DEF TypeOK, DagSet
  <1>9. DagInv'
    <2>1. \A g \in Follower : dag'[g].blocks \subseteq dag[Leader].blocks
      BY <1>0, <1>4, <1>6 DEF DagInv, Follower
    <2>2. \A g \in Follower : \A i \in 1..read'[g] :
             sent[i].type = "Propose" => sent[i].block \in dag'[g].blocks
      <3> SUFFICES ASSUME NEW g \in Follower, NEW i \in 1..read'[g], sent[i].type = "Propose"
                   PROVE  sent[i].block \in dag'[g].blocks
        OBVIOUS
      <3>1. CASE g = f /\ i = k
        BY <1>2, <1>6, <3>1
      <3>2. CASE ~(g = f /\ i = k)
        <4>1. i \in 1..read[g]
          BY <1>1, <1>7, <3>2
        <4>2. sent[i].block \in dag[g].blocks
          BY <1>0, <4>1 DEF DagInv
        <4> QED
          BY <1>6, <4>2 DEF Follower
      <3> QED
        BY <3>1, <3>2
    <2>3. /\ \A e \in dag[Leader].blocks : e.round < dag[Leader].next_round
          /\ \A b1, b2 \in dag[Leader].blocks : b1.round = b2.round => b1 = b2
          /\ \A i \in 1..Len(sent) : sent[i].type = "Propose" => sent[i].block \in dag[Leader].blocks
      BY <1>0 DEF DagInv
    <2> QED
      BY <1>3, <1>6, <2>1, <2>2, <2>3 DEF DagInv
  <1>10. \A v \in Validator : \A r : HasBlock(v, r) => HasBlock(v, r)'
    BY <1>6 DEF HasBlock
  <1>11. \A d \in Call : Started(d)' <=> Started(d)
    BY <1>3 DEF Started
  <1>12. CallInv'
    <2>1. \A r \in replies' : HasBlock(r.voter, r.digest)'
      <3>1. \A r \in replies : r.voter \in Validator /\ HasBlock(r.voter, r.digest)
        BY <1>0 DEF TypeOK, CallInv
      <3>2. Vote(b.round, f).voter = f /\ Vote(b.round, f).digest = b.round
        BY DEF Vote
      <3>3. HasBlock(f, b.round)'
        BY <1>6 DEF HasBlock
      <3> QED
        BY <1>3, <1>10, <3>1, <3>2, <3>3
    <2>2. \A d \in Call : Started(d)' => \A v \in votes'[d] : HasBlock(v, round[d])'
      <3>1. \A d \in Call : Started(d) => \A v \in votes[d] : v \in Validator /\ HasBlock(v, round[d])
        BY <1>0 DEF TypeOK, CallInv
      <3> QED
        BY <1>3, <1>6, <1>11, <3>1 DEF HasBlock
    <2>3. /\ \A c \in Call : Started(c) =>
               \E i \in 1..Len(sent) : sent[i].type = "Propose" /\ sent[i].block.round = round[c]
          /\ \A c, d \in Call : Started(c) /\ Started(d) /\ round[c] = round[d] => c = d
          /\ \A c \in Call : pc[c] \in {"committing", "applying"} => Cardinality(votes[c]) >= need
      BY <1>0 DEF CallInv
    <2> QED
      BY <1>3, <1>11, <2>1, <2>2, <2>3 DEF CallInv
  <1>13. ChainInv'
    <2>1. \A n : StateAt(n)' = StateAt(n)
      BY <1>3 DEF StateAt
    <2>2. CertifiedByQuorum'
      <3> SUFFICES ASSUME NEW i \in DOMAIN chain
                   PROVE  Cardinality({v \in Validator : HasBlock(v, chain[i].block.round)'}) >= need
        BY <1>3 DEF CertifiedByQuorum, HasBlock
      <3> DEFINE Q == {v \in Validator : HasBlock(v, chain[i].block.round)}
                 R == {v \in Validator : HasBlock(v, chain[i].block.round)'}
      <3>1. Q \subseteq R /\ IsFiniteSet(R)
        BY <1>3, <1>6, ConsensusAssumption, FS_Subset DEF HasBlock
      <3>2. Cardinality(Q) >= need
        BY <1>0 DEF ChainInv, CertifiedByQuorum
      <3> HIDE DEF Q, R
      <3>3. Cardinality(Q) <= Cardinality(R) /\ Cardinality(Q) \in Nat /\ Cardinality(R) \in Nat
        BY <3>1, FS_Subset, FS_CardinalityType
      <3>4. Cardinality(R) >= need
        BY <3>2, <3>3 DEF need
      <3> QED
        BY <3>4 DEF R
    <2>3. /\ chain' = chain /\ sent' = sent /\ round' = round /\ pc' = pc
          /\ dag'[Leader].blocks = dag[Leader].blocks
      BY <1>3, <1>6
    <2>4. /\ chain \in Seq({chain[i] : i \in DOMAIN chain})
          /\ \A n \in 1..Len(sent) : sent[n].type = "Commit" => \E i \in 1..Len(chain) : chain[i].at = n
          /\ \A i, j \in 1..Len(chain) : i < j => chain[i].at < chain[j].at
          /\ \A i \in 1..Len(chain), d \in Call :
                Started(d) /\ chain[i].block.round = round[d] => pc[d] \in {"applying", "ok", "refused"}
      BY <1>0 DEF ChainInv
    <2>5. \A i \in 1..Len(chain) :
            /\ chain[i].at \in 1..Len(sent)
            /\ sent[chain[i].at].type = "Commit"
            /\ sent[chain[i].at].digest = chain[i].block.round
            /\ Cardinality(sent[chain[i].at].votes) >= need
            /\ chain[i].block \in dag[Leader].blocks
            /\ \E j \in 1..(chain[i].at - 1) :
                  sent[j].type = "Propose" /\ sent[j].block = chain[i].block
            /\ chain[i].state = apply_block_txs(StateAt(i - 1), chain[i].block.txs).state
      BY <1>0 DEF ChainInv
    <2>6. (\A i \in 1..Len(chain) :
              /\ chain[i].at \in 1..Len(sent)
              /\ sent[chain[i].at].type = "Commit"
              /\ sent[chain[i].at].digest = chain[i].block.round
              /\ Cardinality(sent[chain[i].at].votes) >= need
              /\ chain[i].block \in dag[Leader].blocks
              /\ \E j \in 1..(chain[i].at - 1) :
                    sent[j].type = "Propose" /\ sent[j].block = chain[i].block
              /\ chain[i].state = apply_block_txs(StateAt(i - 1), chain[i].block.txs).state)'
      BY ONLY <2>1, <2>3, <2>5
    <2>7. (/\ chain \in Seq({chain[i] : i \in DOMAIN chain})
           /\ \A n \in 1..Len(sent) : sent[n].type = "Commit" => \E i \in 1..Len(chain) : chain[i].at = n
           /\ \A i, j \in 1..Len(chain) : i < j => chain[i].at < chain[j].at)'
      BY ONLY <2>3, <2>4
    <2>8. (\A i \in 1..Len(chain), d \in Call :
              Started(d) /\ chain[i].block.round = round[d] => pc[d] \in {"applying", "ok", "refused"})'
      BY ONLY <1>11, <2>3, <2>4
    <2> QED
      BY ONLY <2>2, <2>6, <2>7, <2>8 DEF ChainInv
  <1>14. ExecInv'
    <2>1. \A g \in Follower : \A i \in 1..Len(chain) : i <= applied[g] <=> chain[i].at <= read'[g]
      <3> SUFFICES ASSUME NEW g \in Follower, NEW i \in 1..Len(chain)
                   PROVE  i <= applied[g] <=> chain[i].at <= read'[g]
        OBVIOUS
      <3>1. /\ i <= applied[g] <=> chain[i].at <= read[g]
            /\ chain[i].at \in 1..Len(sent) /\ sent[chain[i].at].type = "Commit"
        BY <1>0 DEF ExecInv, ChainInv
      <3>2. chain[i].at # k
        BY <1>3, <3>1
      <3>3. chain[i].at <= read[g] <=> chain[i].at <= read'[g]
        BY <1>1, <1>7, <3>1, <3>2
      <3> QED
        BY <3>1, <3>3
    <2>2. LedgersAgree'
      BY <1>0, <1>3 DEF ExecInv, LedgersAgree, StateAt
    <2> QED
      BY <1>0, <1>3, <2>1, <2>2 DEF ExecInv, Unlocked
  <1> QED
    BY <1>8, <1>9, <1>12, <1>13, <1>14 DEF ConsensusInv

(* A follower executes the block of a certificate: it is certified, known, *)
(* and the next of the chain.                                              *)
LEMMA OnCommitStep ==
    ASSUME ConsensusInv, NEW f \in Follower, OnCommit(f)
    PROVE  ConsensusInv'
  <1> USE DEF nodeVars, netVars, callVars
  <1>0. /\ TypeOK /\ DagInv /\ CallInv /\ ChainInv /\ ExecInv
        /\ f \in Validator /\ Leader \in Validator /\ f # Leader
    BY ConsensusAssumption DEF ConsensusInv, Follower
  <1>1. PICK k : k = read[f] + 1
    OBVIOUS
  <1>2. /\ Len(sent) \in Nat /\ read \in [Follower -> 0..Len(sent)]
        /\ Len(chain) \in Nat /\ applied[f] \in 0..Len(chain) /\ read[f] \in Nat
    BY <1>0 DEF TypeOK, ChainInv
  <1>3. /\ k \in 1..Len(sent) /\ sent[k].type = "Commit" /\ read' = [read EXCEPT ![f] = k]
        /\ UNCHANGED <<dag, replies, alive, sent, pc, round, votes, chain>>
    <2>1. k \in 1..Len(sent)
      BY <1>1, <1>2 DEF OnCommit, Receive
    <2> QED
      BY <1>1, <2>1 DEF OnCommit, Receive, Oldest
  <1>4. PICK i \in 1..Len(chain) : chain[i].at = k
    BY <1>0, <1>3 DEF ChainInv
  <1>5. /\ sent[k].digest = chain[i].block.round /\ Cardinality(sent[k].votes) >= need
        /\ \E j \in 1..(k - 1) : sent[j].type = "Propose" /\ sent[j].block = chain[i].block
    BY <1>0, <1>4 DEF ChainInv
  <1>6. chain[i].block \in dag[f].blocks
    <2>1. PICK j \in 1..(k - 1) : sent[j].type = "Propose" /\ sent[j].block = chain[i].block
      BY <1>5
    <2>2. j \in 1..read[f]
      BY <1>1, <1>2
    <2> QED
      BY <1>0, <2>1, <2>2 DEF DagInv
  <1>7. HasBlock(f, chain[i].block.round) /\ BlockOf(f, chain[i].block.round) = chain[i].block
    BY <1>0, <1>6, BlockFound
  <1>8. Execute(f, chain[i].block)
    BY <1>1, <1>5, <1>7 DEF OnCommit, Certified, Oldest
  <1>9. \A j \in 1..Len(chain) : j <= applied[f] <=> chain[j].at <= read[f]
    BY <1>0 DEF ExecInv
  <1>10. \A p, q \in 1..Len(chain) : p < q => chain[p].at < chain[q].at
    BY <1>0 DEF ChainInv
  <1>11. \A j \in 1..Len(chain) : chain[j].at \in 1..Len(sent)
    BY <1>0 DEF ChainInv
  <1>12. applied[f] = i - 1
    <2>1. ~(i <= applied[f])
      BY <1>1, <1>2, <1>4, <1>9
    <2>2. ASSUME i - 1 > applied[f] PROVE FALSE
      <3>1. i - 1 \in 1..Len(chain) /\ i - 1 < i
        BY <1>2, <2>2
      <3>2. chain[i - 1].at < k
        BY <1>4, <1>10, <3>1
      <3>3. chain[i - 1].at <= read[f]
        BY <1>1, <1>2, <1>11, <3>1, <3>2
      <3>4. i - 1 <= applied[f]
        BY <1>9, <3>1, <3>3
      <3> QED
        BY <1>2, <2>2, <3>4
    <2> QED
      BY <1>2, <2>1, <2>2
  <1>13. /\ LedgersAgree'
         /\ applied' \in [Validator -> 0..Len(chain)] /\ DOMAIN ledger' = Validator
         /\ \A w \in Validator : applied'[w] = IF w = f THEN i ELSE applied[w]
    BY <1>0, <1>3, <1>8, <1>12, ExecuteNext
  <1>14. \A g \in Follower : read'[g] = IF g = f THEN k ELSE read[g]
    BY <1>2, <1>3
  <1>15. TypeOK'
    <2>1. read' \in [Follower -> 0..Len(sent)]
      BY <1>2, <1>3
    <2> QED
      BY <1>0, <1>3, <1>13, <2>1 DEF TypeOK
  <1>16. DagInv'
    <2>1. \A g \in Follower : \A j \in 1..read'[g] :
             sent[j].type = "Propose" => sent[j].block \in dag[g].blocks
      <3> SUFFICES ASSUME NEW g \in Follower, NEW j \in 1..read'[g], sent[j].type = "Propose"
                   PROVE  sent[j].block \in dag[g].blocks
        OBVIOUS
      <3>1. j # k
        BY <1>3
      <3>2. j \in 1..read[g]
        BY <1>1, <1>2, <1>14, <3>1
      <3> QED
        BY <1>0, <3>2 DEF DagInv
    <2> QED
      BY <1>0, <1>3, <2>1 DEF DagInv
  <1>17. CallInv'
    BY <1>0, <1>3 DEF CallInv, HasBlock, Started
  <1>18. ChainInv'
    <2>1. \A d \in Call : /\ Started(d)' => Started(d)
                          /\ pc[d] \in {"applying", "ok", "refused"}
                               => pc'[d] \in {"applying", "ok", "refused"}
      BY <1>3 DEF Started
    <2> QED
      BY <1>3, <2>1, ChainKept
  <1>19. ExecInv'
    <2>1. \A g \in Follower : \A j \in 1..Len(chain) : j <= applied'[g] <=> chain[j].at <= read'[g]
      <3> SUFFICES ASSUME NEW g \in Follower, NEW j \in 1..Len(chain)
                   PROVE  j <= applied'[g] <=> chain[j].at <= read'[g]
        OBVIOUS
      <3>1. CASE g # f
        <4>1. applied'[g] = applied[g] /\ read'[g] = read[g]
          BY <1>13, <1>14, <3>1 DEF Follower
        <4> QED
          BY <1>0, <4>1 DEF ExecInv
      <3>2. CASE g = f
        <4>1. applied'[g] = i /\ read'[g] = k
          BY <1>0, <1>13, <1>14, <3>2
        <4>2. chain[j].at \in Nat /\ chain[i].at \in Nat
          BY <1>11
        <4>3. j < i => chain[j].at < k
          BY <1>4, <1>10
        <4>4. i < j => k < chain[j].at
          BY <1>4, <1>10
        <4> QED
          BY <1>4, <4>1, <4>2, <4>3, <4>4
      <3> QED
        BY <3>1, <3>2
    <2>2. applied'[Leader] = applied[Leader]
      BY <1>0, <1>13
    <2> QED
      BY <1>0, <1>3, <1>13, <2>1, <2>2 DEF ExecInv, Unlocked
  <1> QED
    BY <1>15, <1>16, <1>17, <1>18, <1>19 DEF ConsensusInv

-----------------------------------------------------------------------------
(* The inductive invariant: every proposal reaches the mempools it is read *)
(* into, every vote comes from a validator that has the block, and every   *)
(* certificate is executed at its place in the chain.                      *)
THEOREM ConsensusInvariant == Spec => []ConsensusInv
  <1>1. ASSUME ConsensusInv, [Next]_vars PROVE ConsensusInv'
    <2>1. ASSUME NEW c \in Call, Submit(c) PROVE ConsensusInv'
      BY <1>1, <2>1, SubmitStep
    <2>2. ASSUME NEW c \in Call, SendCommit(c) PROVE ConsensusInv'
      BY <1>1, <2>2, SendCommitStep
    <2>3. ASSUME NEW c \in Call, ApplyCommit(c) PROVE ConsensusInv'
      BY <1>1, <2>3, ApplyCommitStep
    <2>4. ASSUME NEW f \in Follower, PumpNext(f) PROVE ConsensusInv'
      BY <1>1, <2>4, OnProposeStep, OnCommitStep DEF PumpNext
    <2>5. ASSUME \/ \E c \in Call : SubmitToKilled(c) \/ DrainVotes(c) \/ Timeout(c)
                 \/ \E v \in Validator : Kill(v)
                 \/ UNCHANGED vars
          PROVE  ConsensusInv'
      BY <1>1, <2>5, QuietSteps
    <2> QED
      BY <1>1, <2>1, <2>2, <2>3, <2>4, <2>5 DEF Next
  <1> QED
    BY <1>1, ConsensusInit, PTL DEF Spec

(* Mempools, messages, calls and histories keep their types; a mempool     *)
(* never remembers more than MaxTips tips (DagMempool, ConsensusMsg).      *)
THEOREM ConsensusTypeOK == Spec => []TypeOK
  <1>1. ConsensusInv => TypeOK
    BY DEF ConsensusInv
  <1> QED
    BY <1>1, ConsensusInvariant, PTL

(* Whatever the interleaving, every validator's ledger is the one that the *)
(* certified blocks lead to up to some point (submit_and_commit,           *)
(* handle_msg).                                                            *)
THEOREM LedgersAgreeHolds == Spec => []LedgersAgree
  <1>1. ConsensusInv => LedgersAgree
    BY DEF ConsensusInv, ExecInv
  <1> QED
    BY <1>1, ConsensusInvariant, PTL

(* Behind every certificate stands a quorum that has the block (the vote   *)
(* loop of submit_and_commit).                                             *)
THEOREM CertifiedByQuorumHolds == Spec => []CertifiedByQuorum
  <1>1. ConsensusInv => CertifiedByQuorum
    BY DEF ConsensusInv, ChainInv
  <1> QED
    BY <1>1, ConsensusInvariant, PTL

(* The block of a call that returned QuorumFailed is never certified.      *)
THEOREM FailedLeavesNoTraceHolds == Spec => []FailedLeavesNoTrace
  <1>1. ConsensusInv => FailedLeavesNoTrace
    <2> SUFFICES ASSUME ConsensusInv, NEW c \in Call, pc[c] = "failed", NEW i \in DOMAIN chain,
                        chain[i].block.round = round[c]
                 PROVE  FALSE
      BY DEF FailedLeavesNoTrace
    <2>1. i \in 1..Len(chain)
      BY DEF ConsensusInv, ChainInv
    <2> QED
      BY <2>1 DEF ConsensusInv, ChainInv, Started
  <1> QED
    BY <1>1, ConsensusInvariant, PTL
=============================================================================
