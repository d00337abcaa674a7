---------------------------- MODULE MCSettlement ----------------------------
(***************************************************************************)
(* An instance of Settlement for TLC: one payment, that is served again    *)
(* and again and billed differently, two witnesses, and one checkpoint for *)
(* the first height that is signed with another key than the shard's.      *)
(***************************************************************************)
EXTENDS Settlement

CONSTANTS p1, r0

MCmax_amount == [p \in {p1} |-> 2]
MCOtherHeader ==
    {[shard_id |-> Shard, epoch |-> 1, root |-> r0, height |-> 1, tx_count |-> 1,
      exposure |-> 1, sealed_at |-> 0]}
Symmetry == Permutations(Witness)
=============================================================================
