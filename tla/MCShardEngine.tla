--------------------------- MODULE MCShardEngine ---------------------------
(***************************************************************************)
(* Instances of ShardEngine for TLC: the four-validator committee of       *)
(* testkit.rs, one capability, and short workloads.                        *)
(***************************************************************************)
EXTENDS ShardRefinement, TLC

CONSTANTS v1, v2, v3, v4, first, retry, fork, second, beyond, Workload, FenceWorkload

MCValidator == {v1, v2, v3, v4}
(* Followers may be exchanged, and so may the two calls with one PAY.      *)
Interchangeable == Permutations({v2, v3, v4}) \cup Permutations(Workload \cap {first, retry})

(* The allowance covers `fork' and `second' below but not `first' and      *)
(* `second'.                                                               *)
Issued(e, total) ==
    [shard_id |-> "FRA-004", agent_id |-> "agent", epoch |-> e,
     currency |-> "EUR", maximum_total |-> total, maximum_per_call |-> 3,
     service_scope |-> {"inference"}, sequence_start |-> 1, sequence_end |-> 3,
     valid_from |-> 10, valid_until |-> 20, signed |-> TRUE]

MCCapA == [k \in {"capA"} |-> Issued(1, 3)]

Order(cap, e, seq, amount, hash) ==
    [pay |-> [capability_id |-> cap, epoch |-> e, sequence |-> seq,
              agent_id |-> "agent", service_id |-> "inference",
              amount |-> amount, currency |-> "EUR", request_hash |-> hash,
              max_amount |-> 3, expiry |-> 15, verified |-> TRUE],
     now |-> 12]

(* What each call asks for.                                                *)
RequestOf(c) ==
    CASE c \in {first, retry} -> Order("capA", 1, 1, 2, "h1")  \* the client sends it again
      [] c = fork   -> Order("capA", 1, 1, 1, "h2")   \* another request, same sequence
      [] c = second -> Order("capA", 1, 2, 2, "h1")   \* more than `first' leaves over
      [] c = beyond -> Order("capA", 1, 4, 1, "h1")   \* past sequence_end

MCRequest == [c \in Workload |-> RequestOf(c)]
MCFences == [k \in FenceWorkload |-> 1]
=============================================================================
