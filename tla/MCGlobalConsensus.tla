------------------------ MODULE MCGlobalConsensus ------------------------
(***************************************************************************)
(* An instance of GlobalConsensus for TLC: the four validators of          *)
(* cluster4, and a ledger with the three transactions of its tests on one  *)
(* account and one shard.                                                  *)
(***************************************************************************)
EXTENDS GlobalConsensus

CONSTANTS v1, v2, v3, v4, settle, rival

MCValidator == {v1, v2, v3, v4}

Fund(n)     == [type |-> "GenesisFund", amount |-> n]
Allocate(n) == [type |-> "AllocateShardAllowance", amount |-> n]
Seal(r)     == [type |-> "CheckpointFinalized", root |-> r]

MCGenesis == [available |-> 0, outstanding |-> 0, locked |-> 0, root |-> ""]

Returns(st, res) == [state |-> st, result |-> res]

(* GlobalState::apply on that account; each checkpoint settles 1.          *)
MCapply(st, tx) ==
    CASE tx.type = "GenesisFund" -> Returns([st EXCEPT !.available = @ + tx.amount], "ok")
      [] tx.type = "AllocateShardAllowance" ->
            IF st.available < tx.amount THEN Returns(st, "err")
            ELSE Returns([st EXCEPT !.available = @ - tx.amount, !.outstanding = @ + tx.amount], "ok")
      [] tx.type = "CheckpointFinalized" ->
            IF st.root # "" THEN Returns(st, IF st.root = tx.root THEN "already" ELSE "err")
            ELSE IF st.outstanding < 1 THEN Returns(st, "err")
            ELSE Returns([st EXCEPT !.outstanding = @ - 1, !.locked = @ + 1, !.root = tx.root], "ok")

(* `rival' fails at once before `settle', and stops in its middle after    *)
(* it: one root is already final, the other conflicts.                     *)
MCTxs ==
    [c \in {settle, rival} |->
        IF c = settle THEN <<Fund(2), Allocate(1), Seal("r1")>>
                      ELSE <<Seal("r1"), Fund(1), Seal("r2"), Fund(1)>>]
=============================================================================
