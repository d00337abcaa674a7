---------------------------- MODULE SpendLedger ----------------------------
(***************************************************************************)
(* What a shard promises its clients, without validators, messages, logs   *)
(* or timeouts: one ledger in which a slot (a sequence of a capability in  *)
(* an epoch) is spent at most once and answered at most once, answers are  *)
(* numbered in the order of spending, and a fenced epoch is spent no more. *)
(* A slot may be spent without ever being answered.                        *)
(***************************************************************************)
EXTENDS Naturals

CONSTANTS
    Call,           \* the requests clients make
    SlotOf,         \* Call -> the slot each asks for
    Epoch, EpochOf  \* Call -> the epoch of that slot

VARIABLES
    serving,        \* FALSE once the ledger has stopped for good
    spent,          \* slots
    position,       \* how many were spent
    fenced,         \* epochs
    answer          \* Call -> position given to it, 0 while it has none

vars == <<serving, spent, position, fenced, answer>>

Answered == {c \in Call : answer[c] # 0}

Init ==
    /\ serving = TRUE
    /\ spent = {}
    /\ position = 0
    /\ fenced = {}
    /\ answer = [c \in Call |-> 0]

Spend(c) ==
    /\ serving
    /\ SlotOf[c] \notin spent
    /\ EpochOf[c] \notin fenced
    /\ spent' = spent \cup {SlotOf[c]}
    /\ position' = position + 1
    /\ UNCHANGED <<serving, fenced, answer>>

Accept(c) ==
    /\ serving
    /\ c \notin Answered
    /\ SlotOf[c] \in spent
    /\ \A d \in Answered : SlotOf[d] # SlotOf[c] /\ answer[d] < position
    /\ answer' = [answer EXCEPT ![c] = position]
    /\ UNCHANGED <<serving, spent, position, fenced>>

Fence(e) ==
    /\ serving
    /\ fenced' = fenced \cup {e}
    /\ UNCHANGED <<serving, spent, position, answer>>

(* The ledger is lost and will not be served again; answers given remain.  *)
Stop ==
    /\ serving
    /\ serving' = FALSE
    /\ spent' = {} /\ position' = 0 /\ fenced' = {}
    /\ UNCHANGED answer

Next ==
    \/ \E c \in Call : Spend(c) \/ Accept(c)
    \/ \E e \in Epoch : Fence(e)
    \/ Stop

Spec == Init /\ [][Next]_vars
=============================================================================
