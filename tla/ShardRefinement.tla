-------------------------- MODULE ShardRefinement --------------------------
(***************************************************************************)
(* The engine of ShardEngine as an implementation of SpendLedger.  The     *)
(* leader's memory is the ledger: a slot is spent when the leader has      *)
(* committed it, whatever followers did before, and answered when          *)
(* handle_pay returns.  A leader whose log does not replay stops it.       *)
(***************************************************************************)
EXTENDS ShardEngine

Ledger == INSTANCE SpendLedger WITH
    SlotOf   <- [c \in Call |-> Key(Body(c))],
    EpochOf  <- [c \in Call |-> Body(c).epoch],
    serving  <- up[Leader],
    spent    <- state[Leader].consumed,
    position <- state[Leader].commit_index,
    fenced   <- {e \in Epoch : FencedIn(Leader, e)},
    answer   <- [c \in Call |-> IF c \in Accepted THEN index[c] ELSE 0]

(* Seen through the leader's memory, the committee with its messages,      *)
(* timeouts, restarts and torn logs does nothing SpendLedger does not      *)
(* allow (handle_pay, fence_epoch, activate_capability, open_engine).      *)
ImplementsSpendLedger == Ledger!Spec
=============================================================================
