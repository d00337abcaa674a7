------------------------------- MODULE Merkle -------------------------------
(***************************************************************************)
(* The Merkle tree over the receipts of a checkpoint                       *)
(* (crates/shard/src/merkle.rs).  A leaf is a record; the hash of a pair   *)
(* is the pair itself, so that no two pairs have the same hash.            *)
(***************************************************************************)
EXTENDS Naturals, Sequences, FiniteSets

(* A faulty variant: the two children are hashed in no particular order.   *)
hash_pair_unordered(l, r) == [children |-> {l, r}]

hash_pair(l, r) == [left |-> l, right |-> r]

(* A level with an odd number of nodes is closed with its last one again.  *)
Padded(level) ==
    IF Len(level) % 2 = 1 THEN Append(level, level[Len(level)]) ELSE level

NextLevel(level) ==
    LET full == Padded(level)
    IN  [i \in 1..(Len(full) \div 2) |-> hash_pair(full[2 * i - 1], full[2 * i])]

(* The levels from the leaves (0) up; n leaves have at most n levels.      *)
Levels(leaves) ==
    LET up[n \in 0..Len(leaves)] ==
            IF n = 0 THEN leaves
            ELSE LET below == up[n - 1]
                 IN  IF Len(below) > 1 THEN NextLevel(below) ELSE below
    IN  up

Height(leaves) == LET up == Levels(leaves) IN Cardinality({n \in DOMAIN up : Len(up[n]) > 1})

merkle_root(leaves) ==
    IF leaves = <<>> THEN "empty-merkle" ELSE Levels(leaves)[Len(leaves)][1]

(* Positions count from 0.                                                 *)
sibling_idx(idx) == IF idx % 2 = 0 THEN idx + 1 ELSE idx - 1

(* The position of a leaf's ancestor in each of the levels 0 to n.         *)
Halved(index, n) ==
    LET idx[k \in 0..n] == IF k = 0 THEN index ELSE idx[k - 1] \div 2 IN idx

merkle_proof(leaves, index) ==
    LET up == Levels(leaves)
        idx == Halved(index, Height(leaves))
    IN  [index |-> index,
         siblings |-> [k \in 1..Height(leaves) |->
                          LET level == Padded(up[k - 1])
                          IN  level[1 + sibling_idx(idx[k - 1])]]]

(* A faulty variant: the index is not halved from one level to the next.   *)
verify_merkle_proof_unhalved(leaf, proof, root) ==
    LET hash[k \in 0..Len(proof.siblings)] ==
            IF k = 0 THEN leaf
            ELSE IF proof.index % 2 = 0
                 THEN hash_pair(hash[k - 1], proof.siblings[k])
                 ELSE hash_pair(proof.siblings[k], hash[k - 1])
    IN  hash[Len(proof.siblings)] = root

verify_merkle_proof(leaf, proof, root) ==
    LET idx == Halved(proof.index, Len(proof.siblings))
        hash[k \in 0..Len(proof.siblings)] ==
            IF k = 0 THEN leaf
            ELSE IF idx[k - 1] % 2 = 0
                 THEN hash_pair(hash[k - 1], proof.siblings[k])
                 ELSE hash_pair(proof.siblings[k], hash[k - 1])
    IN  hash[Len(proof.siblings)] = root
=============================================================================
