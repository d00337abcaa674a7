-------------------------- MODULE GlobalConsensus --------------------------
(***************************************************************************)
(* The global consensus (crates/consensus): a leader that runs             *)
(* submit_and_commit, and followers whose pumps handle what it broadcasts. *)
(* An action is one section of code that holds a validator's mutex; the    *)
(* commit section is cut in two after its broadcast.                       *)
(*                                                                         *)
(* Only the leader submits, as in cluster4, so it authors every block and  *)
(* a block's round stands for its digest.  A follower acts on what the     *)
(* leader broadcasts and ignores the votes of others, so its inbox is what *)
(* it has not read of one FIFO log.  The leader takes everything out of    *)
(* its inbox at once, so that is a set.                                    *)
(***************************************************************************)
EXTENDS Naturals, FiniteSets, Sequences

CONSTANTS
    Validator, Leader,
    Call, Txs,      \* submit_and_commit calls, and the transactions of each
    Genesis,        \* GlobalState::new
    apply(_, _),    \* GlobalState::apply: the state after it, and its result
    MaxTips,        \* how many tips the mempool remembers: 16
    MaxInFlight,    \* bound: calls the leader serves at the same time
    MaxKills,       \* bound: validators that are killed
    MaxMore         \* bound: further proposals AnchorOrdersAllOnce looks at

ASSUME ConsensusAssumption ==
    /\ Leader \in Validator /\ IsFiniteSet(Validator) /\ IsFiniteSet(Call)
    /\ DOMAIN Txs = Call
    /\ MaxTips \in Nat \ {0} /\ MaxInFlight \in Nat /\ MaxKills \in Nat /\ MaxMore \in Nat

VARIABLES
    dag,            \* ValidatorInner.dag
    ledger,         \* ValidatorInner.state
    alive,
    sent, read,     \* the leader's broadcasts, and how many a follower has read
    replies,        \* unread votes in the leader's inbox
    pc, round, votes,   \* calls: progress, the block proposed, its votes
    chain,          \* history: the certificates in the order they were sent, with
                    \* the ledger their blocks lead to one after the other
    applied         \* history: how many blocks a validator has executed

nodeVars == <<dag, ledger, alive, applied>>
netVars  == <<sent, read, replies>>
callVars == <<pc, round, votes>>
vars == <<nodeVars, netVars, callVars, chain>>

Follower == Validator \ {Leader}

(* The number of votes a certificate needs, whatever the committee.        *)
need == 3

Block == [round : Nat, parents : Seq(Nat), txs : {Txs[c] : c \in Call}]

EmptyDag == [blocks |-> {}, tips |-> <<>>, next_round |-> 0]

(* A faulty variant: the oldest tips are kept.                             *)
insert_keeps_oldest(d, b) ==
    [d EXCEPT !.blocks = @ \cup {b},
              !.tips = IF Len(@) < MaxTips THEN Append(@, b.round) ELSE @]

(* DagMempool::insert: tips are the last blocks inserted.                  *)
insert(d, b) ==
    LET tips == Append(d.tips, b.round)
        excess == IF Len(tips) > MaxTips THEN Len(tips) - MaxTips ELSE 0
    IN  [d EXCEPT !.blocks = @ \cup {b}, !.tips = SubSeq(tips, excess + 1, Len(tips))]

(* DagMempool::propose: the next block names all tips as its parents.      *)
NextBlock(d, txs) == [round |-> d.next_round, parents |-> d.tips, txs |-> txs]

propose(d, txs) == [insert(d, NextBlock(d, txs)) EXCEPT !.next_round = @ + 1]

BlockOf(v, r) == CHOOSE b \in dag[v].blocks : b.round = r
HasBlock(v, r) == \E b \in dag[v].blocks : b.round = r

(* apply_block_txs: in order, up to the first transaction that is refused  *)
(* for another reason than that its checkpoint is already final.  What was *)
(* applied before stays.                                                   *)
apply_block_txs(st, txs) ==
    LET run[i \in 0..Len(txs)] ==
            IF i = 0 THEN [state |-> st, result |-> "ok"]
            ELSE LET before == run[i - 1]
                     r == apply(before.state, txs[i])
                 IN  IF before.result = "err" THEN before
                     ELSE [state |-> r.state,
                           result |-> IF r.result = "err" THEN "err" ELSE "ok"]
    IN  run[Len(txs)]

Propose(b) == [type |-> "Propose", block |-> b]
Commit(r, q) == [type |-> "Commit", digest |-> r, votes |-> q]
Vote(r, v) == [digest |-> r, voter |-> v]

Broadcast(m) == sent' = Append(sent, m) /\ UNCHANGED read

Running == {"voting", "committing", "applying"}
Active == {c \in Call : pc[c] \in Running}

(* A faulty variant: the commit section unlocks after its broadcast.       *)
Unlocked_AfterBroadcast == TRUE

(* Nobody is inside the commit section, which holds the leader's mutex.    *)
Unlocked == \A c \in Call : pc[c] # "applying"

-----------------------------------------------------------------------------
Init ==
    /\ dag = [v \in Validator |-> EmptyDag]
    /\ ledger = [v \in Validator |-> Genesis]
    /\ alive = [v \in Validator |-> TRUE]
    /\ sent = <<>>
    /\ read = [f \in Follower |-> 0]
    /\ replies = {}
    /\ pc = [c \in Call |-> "idle"]
    /\ round = [c \in Call |-> 0]
    /\ votes = [c \in Call |-> {}]
    /\ chain = <<>>
    /\ applied = [v \in Validator |-> 0]

(* submit_and_commit, first section: propose.  The leader's own vote is    *)
(* the first in the tally.                                                 *)
Submit(c) ==
    /\ pc[c] = "idle" /\ Unlocked /\ Cardinality(Active) < MaxInFlight
    /\ alive[Leader]
    /\ dag' = [dag EXCEPT ![Leader] = propose(@, Txs[c])]
    /\ Broadcast(Propose(NextBlock(dag[Leader], Txs[c])))
    /\ round' = [round EXCEPT ![c] = dag[Leader].next_round]
    /\ votes' = [votes EXCEPT ![c] = {Leader}]
    /\ pc' = [pc EXCEPT ![c] = "voting"]
    /\ UNCHANGED <<ledger, alive, applied, replies, chain>>

SubmitToKilled(c) ==
    /\ pc[c] = "idle" /\ Unlocked /\ Cardinality(Active) < MaxInFlight
    /\ ~alive[Leader]
    /\ pc' = [pc EXCEPT ![c] = "killed"]
    /\ UNCHANGED <<nodeVars, netVars, round, votes, chain>>

(* A faulty variant: a vote counts whatever block it is for.               *)
DrainVotes_AnyDigest(c) ==
    /\ pc[c] = "voting" /\ replies # {} /\ Unlocked
    /\ LET got == votes[c] \cup {m.voter : m \in replies}
       IN  /\ votes' = [votes EXCEPT ![c] = got]
           /\ pc' = [pc EXCEPT ![c] = IF Cardinality(got) >= need THEN "committing" ELSE @]
    /\ replies' = {}
    /\ UNCHANGED <<nodeVars, sent, read, round, chain>>

(* One turn of the vote loop empties the inbox: votes for the block of     *)
(* another call are taken out and lost.                                    *)
DrainVotes(c) ==
    /\ pc[c] = "voting" /\ replies # {} /\ Unlocked
    /\ LET got == votes[c] \cup {v \in Validator : Vote(round[c], v) \in replies}
       IN  /\ votes' = [votes EXCEPT ![c] = got]
           /\ pc' = [pc EXCEPT ![c] = IF Cardinality(got) >= need THEN "committing" ELSE @]
    /\ replies' = {}
    /\ UNCHANGED <<nodeVars, sent, read, round, chain>>

(* A faulty variant: the deadline is still looked at after the broadcast.  *)
Timeout_AfterCommit(c) ==
    /\ pc[c] \in {"voting", "applying"}
    /\ pc' = [pc EXCEPT ![c] = "failed"]
    /\ UNCHANGED <<nodeVars, netVars, round, votes, chain>>

(* The deadline passes in the vote loop: QuorumFailed.                     *)
Timeout(c) ==
    /\ pc[c] = "voting"
    /\ pc' = [pc EXCEPT ![c] = "failed"]
    /\ UNCHANGED <<nodeVars, netVars, round, votes, chain>>

(* The ledger after every certified block.                                 *)
StateAt(n) == IF n = 0 THEN Genesis ELSE chain[n].state
Tip == StateAt(Len(chain))

(* Commit section: the certificate leaves first ...                        *)
SendCommit(c) ==
    /\ pc[c] = "committing" /\ Unlocked
    /\ Broadcast(Commit(round[c], votes[c]))
    /\ chain' = Append(chain, LET b == BlockOf(Leader, round[c])
                              IN  [block |-> b, at |-> Len(sent) + 1,
                                   state |-> apply_block_txs(Tip, b.txs).state])
    /\ pc' = [pc EXCEPT ![c] = "applying"]
    /\ UNCHANGED <<nodeVars, replies, round, votes>>

Execute(v, b) ==
    /\ ledger' = [ledger EXCEPT ![v] = apply_block_txs(@, b.txs).state]
    /\ applied' = [applied EXCEPT ![v] = @ + 1]

(* ... then the block is executed.  The caller is told Ok without waiting  *)
(* for the followers, or the error of the transaction that was refused.    *)
ApplyCommit(c) ==
    LET b == BlockOf(Leader, round[c]) IN
    /\ pc[c] = "applying"
    /\ Execute(Leader, b)
    /\ pc' = [pc EXCEPT ![c] = IF apply_block_txs(ledger[Leader], b.txs).result = "ok"
                               THEN "ok" ELSE "refused"]
    /\ UNCHANGED <<dag, alive, netVars, round, votes, chain>>

-----------------------------------------------------------------------------
(* A follower's pump handles the oldest message (handle_msg).              *)
Oldest(f) == sent[read[f] + 1]

Receive(f, type) ==
    /\ alive[f]
    /\ read[f] < Len(sent) /\ Oldest(f).type = type
    /\ read' = [read EXCEPT ![f] = @ + 1]
    /\ UNCHANGED <<alive, sent, callVars, chain>>

(* A faulty variant: a block is executed as soon as it is proposed.        *)
OnPropose_Executes(f) ==
    /\ Receive(f, "Propose")
    /\ LET b == Oldest(f).block
       IN  /\ dag' = [dag EXCEPT ![f] = insert(@, b)]
           /\ replies' = replies \cup {Vote(b.round, f)}
           /\ Execute(f, b)

OnPropose(f) ==
    /\ Receive(f, "Propose")
    /\ LET b == Oldest(f).block
       IN  /\ dag' = [dag EXCEPT ![f] = insert(@, b)]
           /\ replies' = replies \cup {Vote(b.round, f)}
    /\ UNCHANGED <<ledger, applied>>

(* A faulty variant: peer_keys does not hold the follower's own key, and   *)
(* its own vote is not counted.                                            *)
Certified_PeersOnly(f, m) == Cardinality(m.votes \ {f}) >= need

Certified(f, m) == Cardinality(m.votes) >= need

(* A certified block is executed if the block is known; an error is        *)
(* ignored.                                                                *)
OnCommit(f) ==
    /\ Receive(f, "Commit")
    /\ LET m == Oldest(f)
       IN  IF Certified(f, m) /\ HasBlock(f, m.digest)
           THEN Execute(f, BlockOf(f, m.digest))
           ELSE UNCHANGED <<ledger, applied>>
    /\ UNCHANGED <<dag, replies>>

(* kill: nothing new is accepted and a follower's pump stops; the leader's *)
(* running calls go on.                                                    *)
Kill(v) ==
    /\ alive[v] /\ (v = Leader => Unlocked)
    /\ Cardinality({w \in Validator : ~alive[w]}) < MaxKills
    /\ alive' = [alive EXCEPT ![v] = FALSE]
    /\ UNCHANGED <<dag, ledger, applied, netVars, callVars, chain>>

PumpNext(f) == OnPropose(f) \/ OnCommit(f)

Next ==
    \/ \E c \in Call :
          \/ Submit(c) \/ SubmitToKilled(c) \/ DrainVotes(c) \/ Timeout(c)
          \/ SendCommit(c) \/ ApplyCommit(c)
    \/ \E f \in Follower : PumpNext(f)
    \/ \E v \in Validator : Kill(v)

(* Fairness: cluster4 spawns a pump per follower that loops every          *)
(* millisecond, and nothing can stop a leader inside its commit section.   *)
(* Less is assumed: while some of these can step, not all stand still.     *)
Fairness ==
    /\ WF_vars(\E f \in Follower : PumpNext(f))
    /\ WF_vars(\E c \in Call : ApplyCommit(c))

Spec == Init /\ [][Next]_vars /\ Fairness

-----------------------------------------------------------------------------
Message ==
    [type : {"Propose"}, block : Block]
        \cup [type : {"Commit"}, digest : Nat, votes : SUBSET Validator]

(* Type invariant of the validators, their channel and the running calls.  *)
TypeOK ==
    /\ dag \in [Validator -> [blocks : SUBSET Block, tips : Seq(Nat), next_round : Nat]]
    /\ \A v \in Validator : Len(dag[v].tips) <= MaxTips
    /\ DOMAIN ledger = Validator
    /\ alive \in [Validator -> BOOLEAN]
    /\ sent \in Seq(Message)
    /\ read \in [Follower -> 0..Len(sent)]
    /\ replies \subseteq [digest : Nat, voter : Validator]
    /\ pc \in [Call -> Running \cup {"idle", "ok", "refused", "failed", "killed"}]
    /\ round \in [Call -> Nat]
    /\ votes \in [Call -> SUBSET Validator]
    /\ applied \in [Validator -> 0..Len(chain)]

(* Every validator's ledger, the leader's and those of the killed ones     *)
(* included, is the one the certified blocks lead to, executed one after   *)
(* the other up to some point: nobody skips a block, executes one twice or *)
(* out of order, or gets further than the others inside a block that stops *)
(* at a refused transaction (submit_and_commit, handle_msg).               *)
LedgersAgree == \A v \in Validator : ledger[v] = StateAt(applied[v])

(* Behind every certificate stands a quorum that has the block, although   *)
(* overlapping calls take votes out of one inbox (the vote loop).          *)
CertifiedByQuorum ==
    \A i \in DOMAIN chain :
        Cardinality({v \in Validator : HasBlock(v, chain[i].block.round)}) >= need

(* A call that returned QuorumFailed has left no trace and may be repeated *)
(* safely: its block is never certified, however late its votes arrive.    *)
FailedLeavesNoTrace ==
    \A c \in Call : pc[c] = "failed" => \A i \in DOMAIN chain : chain[i].block.round # round[c]

(* DagMempool::ordered_txs_from_anchor, with blocks for their              *)
(* transactions: depth first from the anchor, oldest parent first.         *)
Pop(d, w) ==
    LET id == w.stack[Len(w.stack)]
        rest == SubSeq(w.stack, 1, Len(w.stack) - 1)
        ps == (CHOOSE b \in d.blocks : b.round = id).parents
    IN  IF w.stack = <<>> THEN w
        ELSE IF id \in w.seen THEN [w EXCEPT !.stack = rest]
        ELSE IF \A b \in d.blocks : b.round # id
             THEN [w EXCEPT !.stack = rest, !.seen = @ \cup {id}]
        ELSE [stack |-> rest \o [i \in 1..Len(ps) |-> ps[Len(ps) + 1 - i]],
              seen |-> w.seen \cup {id}, out |-> Append(w.out, id)]

ordered_txs_from_anchor(d, anchor) ==
    LET walk[n \in Nat] == IF n = 0 THEN [stack |-> <<anchor>>, seen |-> {}, out |-> <<>>]
                                    ELSE Pop(d, walk[n - 1])
    IN  walk[1 + MaxTips * Cardinality(d.blocks)].out

(* The newest block of a mempool orders all of it: walking back from it    *)
(* meets every block exactly once.                                         *)
OrdersAllOnce(d) ==
    LET rounds == {b.round : b \in d.blocks}
        newest == CHOOSE r \in rounds : \A q \in rounds : q <= r
        order == ordered_txs_from_anchor(d, newest)
    IN  rounds # {} => /\ {order[i] : i \in DOMAIN order} = rounds
                       /\ Len(order) = Cardinality(rounds)

(* The mempool after n more proposals.                                     *)
Grown(d, n) ==
    LET g[i \in 0..n] == IF i = 0 THEN d ELSE propose(g[i - 1], <<>>) IN g[n]

(* No insertion loses a transaction from the order or makes it appear      *)
(* twice, although a block names no more than MaxTips parents: at every    *)
(* validator, and at the leader also after MaxMore further proposals       *)
(* (DagMempool).                                                           *)
AnchorOrdersAllOnce ==
    [][/\ \A f \in Follower : dag'[f] # dag[f] => OrdersAllOnce(dag'[f])
       /\ dag'[Leader] # dag[Leader] => OrdersAllOnce(Grown(dag'[Leader], MaxMore))]_vars

(* The leader answers without waiting for anybody, but in the end every    *)
(* certified block has reached the ledger of every validator that is not   *)
(* killed (submit_and_commit, pump).                                       *)
CommitsReachEveryone ==
    <>[](\A v \in Validator : alive[v] => applied[v] = Len(chain))
=============================================================================
