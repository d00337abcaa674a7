-------------------------- MODULE SettlementProofs --------------------------
(***************************************************************************)
(* Proofs about Settlement, for any payments, amounts, witnesses, limits   *)
(* and bounds: the way of a receipt from the log to the ledger.            *)
(***************************************************************************)
EXTENDS Settlement, MerkleProofs

(* The receipts there can be, and what each bills.                         *)
Receipt == [id : Nat, pay : Pay, actual_amount : Amount]
Billed == [r \in Receipt |-> r.actual_amount]

(* The receipts are numbered as they come; a batch takes at least one, so  *)
(* that heights do not outrun receipts.                                    *)
LogInv ==
    /\ served \subseteq Receipt /\ IsFiniteSet(served) /\ Cardinality(served) <= MaxServed
    /\ \A r \in served : r.id < Cardinality(served)
    /\ log \in Seq(served)
    /\ next_height \in Nat \ {0} /\ next_height - 1 + Len(log) <= Cardinality(served)
    /\ exposure = Total(ToSet(log))
    /\ restarts \in Nat

(* What stands in a sealed header is true of its batch; the heights one    *)
(* process seals grow, and another process reads a later clock.            *)
HeaderInv(c) ==
    /\ c = [header |-> c.header, batch |-> c.batch]
    /\ c.batch \in Seq(served) /\ c.batch # <<>> /\ Len(c.batch) <= MaxServed
    /\ c.header.shard_id = Shard /\ c.header.epoch \in Epoch
    /\ c.header.root = merkle_root(leaves(c.batch))
    /\ c.header.height \in 1..MaxServed
    /\ c.header.tx_count = Len(c.batch)
    /\ c.header.exposure = Total(ToSet(c.batch))
    /\ c.header.sealed_at \in 0..restarts
    /\ c.header.sealed_at = restarts => c.header.height < next_height

(* Batches are disjoint, from the log and from each other, and their       *)
(* headers differ; without a restart no receipt is lost.                   *)
BatchInv ==
    /\ \A c \in sealed : HeaderInv(c) /\ ToSet(c.batch) \cap ToSet(log) = {}
    /\ \A c, d \in sealed : c # d => c.header # d.header /\ ToSet(c.batch) \cap ToSet(d.batch) = {}
    /\ restarts = 0 => \A r \in served \ ToSet(log) : \E c \in sealed : r \in ToSet(c.batch)

(* The ledger's accounts: what was not settled is available or in escrow.  *)
CheckpointKey == {Shard} \X Epoch \X (1..MaxServed)
Escrow == <<Shard, Account>>
LedgerInv ==
    /\ known = {Account}
    /\ available \in [{Account} -> Nat] /\ locked \in [{Account} -> Nat]
    /\ stake = [a \in {Account} |-> 0]
    /\ escrows \subseteq {Escrow}
    /\ shard_outstanding \in [{Shard} \X {Account} -> Nat]
    /\ Escrow \notin escrows => shard_outstanding[Escrow] = 0
    /\ total_supply = Funds
    /\ available[Account] + shard_outstanding[Escrow] + locked[Account] = Funds
    /\ finalized = [k \in CheckpointKey |-> finalized[k]]

(* The shard's batches that were settled, and their receipts.              *)
Paid == {c \in sealed : \E s \in ByShard : s.header = c.header}
PaidReceipts == UNION {ToSet(c.batch) : c \in Paid}

Witnessed(s) == {w \in Witness : \E sig \in s.sigs : sig.witness = w /\ sig.saw = s.header}

(* What is settled was signed, witnessed and is final under its key; what  *)
(* is final was settled; and the ledger moved what the shard's batches     *)
(* bill and the others carry.                                              *)
SettledInv ==
    /\ IsFiniteSet(settled)
    /\ \A s \in settled : /\ s.signer = ShardKey => s.header \in Headers
                          /\ Key(s.header) \in CheckpointKey
                          /\ s.header.exposure \in Nat /\ s.header.root # None
                          /\ finalized[Key(s.header)] = s.header.root
                          /\ Cardinality(Witnessed(s)) >= witnesses_required
    /\ \A s, t \in settled : Key(s.header) = Key(t.header) => s = t
    /\ \A k \in CheckpointKey : finalized[k] # None =>
          \E s \in settled : Key(s.header) = k /\ s.header.root = finalized[k]
    /\ locked[Account] = Total(PaidReceipts) + Carried(settled \ ByShard)

KeysInv == DOMAIN by_key \subseteq {Shard} \X Epoch \X Nat

SettlementInv == LogInv /\ BatchInv /\ LedgerInv /\ SettledInv /\ KeysInv

-----------------------------------------------------------------------------
(* Total adds up what receipts bill.                                       *)
LEMMA TotalFold ==
    ASSUME NEW S \in SUBSET Receipt
    PROVE  Total(S) = SumOf(Billed, S)
  <1> DEFINE Is(g) == g = [t \in SUBSET S |->
                             IF t = {} THEN 0
                             ELSE (CHOOSE r \in t : TRUE).actual_amount
                                  + g[t \ {CHOOSE r \in t : TRUE}]]
  <1>1. \A t \in SUBSET S : t # {} => Billed[Pick(t)] = Pick(t).actual_amount
    BY PickIn DEF Billed
  <1>2. ASSUME NEW g PROVE Is(g) <=> IsSums(Billed, S, g)
    <2>1. \A t \in SUBSET S :
             SumStep(Billed, g, t) = IF t = {} THEN 0
                                     ELSE (CHOOSE r \in t : TRUE).actual_amount
                                          + g[t \ {CHOOSE r \in t : TRUE}]
      BY <1>1 DEF SumStep, Pick
    <2> QED
      BY <2>1 DEF IsSums
  <1>3. Total(S) = (CHOOSE g : Is(g))[S]
    BY DEF Total, MapThenSumSet, MapThenFoldSet
  <1>4. (CHOOSE g : Is(g)) = (CHOOSE g : IsSums(Billed, S, g))
    <2> HIDE DEF Is
    <2> QED
      BY <1>2, Zenon
  <1> QED
    BY <1>3, <1>4 DEF SumOf, Sums

(* What a receipt bills is a number.                                       *)
LEMMA BilledType ==
    \A r \in Receipt : Billed[r] \in Nat /\ Billed[r] = r.actual_amount /\ r.actual_amount \in Nat
                       /\ leaf(r) \in [pay : Pay, actual_amount : Amount]
  BY CheckpointAssumption DEF Receipt, Billed, leaf

(* Nothing bills nothing.                                                  *)
LEMMA TotalEmpty == Total({}) = 0
  BY TotalFold, SumEmpty

(* Totals are numbers.                                                     *)
LEMMA TotalNat ==
    ASSUME NEW S \in SUBSET Receipt, IsFiniteSet(S)
    PROVE  Total(S) \in Nat
  <1>1. \A r \in S : Billed[r] \in Nat
    BY BilledType
  <1> QED
    BY <1>1, TotalFold, SumNat

(* One receipt more.                                                       *)
LEMMA TotalAdd ==
    ASSUME NEW S \in SUBSET Receipt, IsFiniteSet(S), NEW r \in Receipt \ S
    PROVE  Total(S \cup {r}) = Total(S) + r.actual_amount
  <1>1. \A x \in S \cup {r} : Billed[x] \in Int
    BY BilledType
  <1>2. SumOf(Billed, S \cup {r}) = Billed[r] + SumOf(Billed, S)
    BY <1>1, SumAdd
  <1>3. Total(S) = SumOf(Billed, S) /\ Total(S \cup {r}) = SumOf(Billed, S \cup {r})
    BY TotalFold
  <1>4. Total(S) \in Nat /\ Billed[r] = r.actual_amount /\ r.actual_amount \in Nat
    BY TotalNat, BilledType
  <1> QED
    BY <1>2, <1>3, <1>4

(* The totals of disjoint sets of receipts add up.                         *)
LEMMA TotalUnion ==
    ASSUME NEW S \in SUBSET Receipt, IsFiniteSet(S),
           NEW T \in SUBSET Receipt, IsFiniteSet(T), S \cap T = {}
    PROVE  Total(S \cup T) = Total(S) + Total(T)
  <1> DEFINE F == {U \in SUBSET T : Total(S \cup U) # Total(S) + Total(U)}
  <1>1. SUFFICES ASSUME F # {} PROVE FALSE
    OBVIOUS
  <1>2. PICK U \in F : \A V \in F : V \subseteq U => V = U
    <2>1. F \in SUBSET SUBSET T
      OBVIOUS
    <2> HIDE DEF F
    <2> QED
      BY <1>1, <2>1, SmallestSubset
  <1>3. CASE U = {}
    <2>1. Total(S \cup U) = Total(S) /\ Total(U) = 0
      <3>1. S \cup U = S
        BY <1>3
      <3> QED
        BY <1>3, <3>1, TotalEmpty, Zenon
    <2> QED
      BY <1>2, <2>1, TotalNat
  <1>4. CASE U # {}
    <2>1. PICK r \in U : TRUE
      BY <1>4
    <2>2. PICK V : V = U \ {r}
      OBVIOUS
    <2>3. V \in SUBSET T /\ V # U /\ V \subseteq U /\ IsFiniteSet(V)
      BY <1>2, <2>1, <2>2, FS_Subset
    <2>4. V \notin F
      BY <1>2, <2>3
    <2>5. Total(S \cup V) = Total(S) + Total(V)
      BY <2>3, <2>4
    <2>6. r \in Receipt \ V /\ r \in Receipt \ (S \cup V) /\ V \in SUBSET Receipt
          /\ S \cup V \in SUBSET Receipt
      BY <1>2, <2>1, <2>2, <2>3
    <2>7. IsFiniteSet(S \cup V)
      BY <2>3, FS_Union
    <2>8. Total(V \cup {r}) = Total(V) + r.actual_amount
      BY <2>3, <2>6, TotalAdd
    <2>9. Total((S \cup V) \cup {r}) = Total(S \cup V) + r.actual_amount
      BY <2>6, <2>7, TotalAdd
    <2>10. V \cup {r} = U /\ (S \cup V) \cup {r} = S \cup U
      BY <2>1, <2>2
    <2>11. Total(U) = Total(V) + r.actual_amount /\ Total(S \cup U) = Total(S \cup V) + r.actual_amount
      BY <2>8, <2>9, <2>10, Zenon
    <2>12. Total(S) \in Nat /\ Total(V) \in Nat /\ r.actual_amount \in Nat
      BY <2>3, <2>6, TotalNat, BilledType
    <2>13. Total(S \cup U) = Total(S) + Total(U)
      BY <2>5, <2>11, <2>12
    <2> QED
      BY <1>2, <2>13
  <1> QED
    BY <1>3, <1>4

(* Carried adds up what checkpoints carry.                                 *)
LEMMA CarriedFold ==
    ASSUME NEW S, NEW T \in SUBSET S
    PROVE  Carried(T) = SumOf([s \in S |-> s.header.exposure], T)
  <1> DEFINE f == [s \in S |-> s.header.exposure]
             Is(g) == g = [t \in SUBSET T |->
                             IF t = {} THEN 0
                             ELSE (CHOOSE s \in t : TRUE).header.exposure
                                  + g[t \ {CHOOSE s \in t : TRUE}]]
  <1>1. \A t \in SUBSET T : t # {} => f[Pick(t)] = Pick(t).header.exposure
    BY PickIn
  <1>2. ASSUME NEW g PROVE Is(g) <=> IsSums(f, T, g)
    <2>1. \A t \in SUBSET T :
             SumStep(f, g, t) = IF t = {} THEN 0
                                ELSE (CHOOSE s \in t : TRUE).header.exposure
                                     + g[t \ {CHOOSE s \in t : TRUE}]
      <3> HIDE DEF f
      <3> QED
        BY <1>1 DEF SumStep, Pick
    <2> HIDE DEF f
    <2> QED
      BY <2>1 DEF IsSums
  <1>3. Carried(T) = (CHOOSE g : Is(g))[T]
    BY DEF Carried, MapThenSumSet, MapThenFoldSet
  <1>4. (CHOOSE g : Is(g)) = (CHOOSE g : IsSums(f, T, g))
    <2> HIDE DEF Is, f
    <2> QED
      BY <1>2, Zenon
  <1> QED
    BY <1>3, <1>4 DEF SumOf, Sums

(* No checkpoint carries nothing; one more adds what it carries.           *)
LEMMA CarriedEmpty == Carried({}) = 0
  BY CarriedFold, SumEmpty

LEMMA CarriedAdd ==
    ASSUME NEW S, IsFiniteSet(S), \A s \in S : s.header.exposure \in Nat,
           NEW n, n \notin S, n.header.exposure \in Nat
    PROVE  /\ Carried(S) \in Nat
           /\ Carried(S \cup {n}) = Carried(S) + n.header.exposure
  <1> DEFINE f == [s \in S \cup {n} |-> s.header.exposure]
  <1>1. Carried(S) = SumOf(f, S) /\ Carried(S \cup {n}) = SumOf(f, S \cup {n})
    <2>1. S \in SUBSET (S \cup {n}) /\ S \cup {n} \in SUBSET (S \cup {n})
      OBVIOUS
    <2> QED
      BY <2>1, CarriedFold
  <1>2. f[n] = n.header.exposure /\ \A s \in S \cup {n} : f[s] \in Nat /\ f[s] \in Int
    OBVIOUS
  <1> HIDE DEF f
  <1>3. SumOf(f, S) \in Nat
    BY <1>2, SumNat
  <1>4. SumOf(f, S \cup {n}) = f[n] + SumOf(f, S)
    BY <1>2, SumAdd
  <1> QED
    BY <1>1, <1>2, <1>3, <1>4

-----------------------------------------------------------------------------
(* The elements of a sequence.                                             *)
LEMMA ElementsFacts ==
    /\ ToSet(<<>>) = {}
    /\ \A X : \A s \in Seq(X) : /\ ToSet(s) \subseteq X /\ (s # <<>> => ToSet(s) # {})
                                /\ (IsFiniteSet(X) => IsFiniteSet(ToSet(s)))
    /\ \A X : \A s \in Seq(X), x \in X : ToSet(Append(s, x)) = ToSet(s) \cup {x}
  <1>1. ToSet(<<>>) = {}
    BY DEF ToSet
  <1>2. ASSUME NEW X, NEW s \in Seq(X)
        PROVE  ToSet(s) \subseteq X /\ (s # <<>> => ToSet(s) # {})
    <2>1. ToSet(s) \subseteq X
      BY DEF ToSet
    <2>2. s # <<>> => 1 \in DOMAIN s
      OBVIOUS
    <2> QED
      BY <2>1, <2>2 DEF ToSet
  <1>3. ASSUME NEW X, NEW s \in Seq(X), NEW x \in X
        PROVE  ToSet(Append(s, x)) = ToSet(s) \cup {x}
    <2>1. PICK t : t = Append(s, x)
      OBVIOUS
    <2>2. /\ DOMAIN t = 1..(Len(s) + 1) /\ Len(s) \in Nat /\ DOMAIN s = 1..Len(s)
          /\ t[Len(s) + 1] = x /\ \A i \in 1..Len(s) : t[i] = s[i]
      BY <2>1
    <2>3. ToSet(t) = ToSet(s) \cup {x}
      BY <2>2 DEF ToSet
    <2> QED
      BY <2>1, <2>3
  <1>4. \A X : \A s \in Seq(X) : IsFiniteSet(X) => IsFiniteSet(ToSet(s))
    BY <1>2, FS_Subset
  <1> QED
    BY <1>1, <1>2, <1>3, <1>4

(* The leaves of a batch are a list of its length, and its root is a root. *)
LEMMA LeavesFacts ==
    ASSUME NEW s \in Seq(Receipt), Len(s) <= MaxServed
    PROVE  IsList(leaves(s), Len(s)) /\ merkle_root(leaves(s)) # None
  <1> DEFINE Leaf == [pay : Pay, actual_amount : Amount]
  <1>1. leaves(s) = [i \in 1..Len(s) |-> leaf(s[i])] /\ Len(s) \in 0..MaxServed
    BY CheckpointAssumption DEF leaves
  <1>2. \A i \in 1..Len(s) : leaf(s[i]) \in Leaf
    BY BilledType
  <1> HIDE DEF Leaf
  <1>3. leaves(s) \in [1..Len(s) -> Leaf]
    BY <1>1, <1>2
  <1>4. leaves(s) \in SeqOf(Leaf, MaxServed)
    BY <1>1, <1>3 DEF SeqOf
  <1>5. merkle_root(leaves(s)) # None
    BY <1>4, SettlementAssumption DEF Leaf
  <1>6. IsList(leaves(s), Len(s))
    <2>1. PICK w : w = leaves(s)
      OBVIOUS
    <2>2. w \in [1..Len(s) -> Leaf] /\ Len(s) \in Nat
      BY <1>1, <1>3, <2>1
    <2>3. IsList(w, Len(s))
      BY <2>2 DEF IsList
    <2> QED
      BY <2>1, <2>3
  <1> QED
    BY <1>5, <1>6

-----------------------------------------------------------------------------
(* Of the two kinds of transaction that are submitted here, apply runs the *)
(* handler or refuses.                                                     *)
LEMMA ApplyCases ==
    ASSUME NEW tx, L1!apply(tx), tx.type \in {"AllocateShardAllowance", "CheckpointFinalized"}
    PROVE  L1!AllocateShardAllowance(tx) \/ L1!CheckpointFinalized(tx) \/ L1!Refuse(tx)
  <1>1. ~L1!GenesisFund(tx) /\ ~L1!Stake(tx) /\ ~L1!Unstake(tx) /\ ~L1!SlashConflict(tx)
    BY DEF L1!GenesisFund, L1!Stake, L1!Unstake, L1!SlashConflict
  <1>2. ~L1!RegisterAgent(tx) /\ ~L1!SuspendAgent(tx) /\ ~L1!UpdateReputation(tx)
    BY DEF L1!RegisterAgent, L1!SuspendAgent, L1!UpdateReputation
  <1>3. ~L1!DeployContract(tx) /\ ~L1!CallContract(tx)
    BY DEF L1!DeployContract, L1!CallContract
  <1>4. ~L1!OpenDispute(tx) /\ ~L1!ResolveDispute(tx)
    BY DEF L1!OpenDispute, L1!ResolveDispute
  <1>5. ~L1!RegisterAsset(tx) /\ ~L1!MintAsset(tx) /\ ~L1!TransferAsset(tx) /\ ~L1!SpotTrade(tx)
    BY DEF L1!RegisterAsset, L1!MintAsset, L1!TransferAsset, L1!SpotTrade
  <1> QED
    BY <1>1, <1>2, <1>3, <1>4, <1>5 DEF L1!apply

(* The parts of the ledger the invariant speaks of.                        *)
accounts == <<known, available, locked, stake, total_supply, escrows, shard_outstanding, finalized>>

(* A refused transaction changes nothing.                                  *)
LEMMA RefusedKeeps ==
    ASSUME NEW tx, L1!Refuse(tx)
    PROVE  UNCHANGED accounts
  BY DEF L1!Refuse, L1!ledgerVars, L1!accountVars, L1!escrowVars, accounts

(* An allowance moves from the account to the escrow.                      *)
LEMMA AllocateMoves ==
    ASSUME LedgerInv, NEW n \in Allowance, AllocateShardAllowance(n)
    PROVE  LedgerInv' /\ locked' = locked /\ finalized' = finalized
  <1>1. PICK tx : tx = [type |-> "AllocateShardAllowance", account |-> Account,
                        shard_id |-> Shard, amount |-> n]
    OBVIOUS
  <1>2. /\ tx.type = "AllocateShardAllowance" /\ tx.account = Account
        /\ tx.shard_id = Shard /\ tx.amount = n
    BY <1>1
  <1>3. L1!apply(tx)
    BY <1>1 DEF AllocateShardAllowance
  <1>4. ~L1!CheckpointFinalized(tx)
    BY <1>2 DEF L1!CheckpointFinalized
  <1>5. CASE L1!Refuse(tx)
    BY <1>5, RefusedKeeps DEF accounts, LedgerInv, CheckpointKey
  <1>6. CASE L1!AllocateShardAllowance(tx)
    <2>1. /\ n <= available[Account]
          /\ available' = [available EXCEPT ![Account] = @ - n]
          /\ escrows' = escrows \cup {Escrow}
          /\ shard_outstanding' = [shard_outstanding EXCEPT ![Escrow] = @ + n]
      BY <1>2, <1>6 DEF L1!AllocateShardAllowance, L1!CanAllocate, Escrow
    <2>2. UNCHANGED <<known, locked, stake, total_supply, finalized>>
      BY <1>6 DEF L1!AllocateShardAllowance
    <2>3. n \in Nat
      BY SettlementAssumption
    <2>4. Escrow \in {Shard} \X {Account}
      BY DEF Escrow
    <2>5. /\ available' \in [{Account} -> Nat] /\ available'[Account] = available[Account] - n
          /\ available[Account] \in Nat
      BY <2>1, <2>3 DEF LedgerInv
    <2>6. /\ shard_outstanding' \in [{Shard} \X {Account} -> Nat]
          /\ shard_outstanding'[Escrow] = shard_outstanding[Escrow] + n
          /\ shard_outstanding[Escrow] \in Nat
      BY <2>1, <2>3, <2>4 DEF LedgerInv
    <2>7. available'[Account] + shard_outstanding'[Escrow] + locked'[Account] = Funds
      <3>1. available[Account] + shard_outstanding[Escrow] + locked[Account] = Funds
            /\ locked[Account] \in Nat
        BY DEF LedgerInv
      <3> QED
        BY <2>2, <2>3, <2>5, <2>6, <3>1
    <2>8. escrows' \subseteq {Escrow} /\ Escrow \in escrows'
      BY <2>1 DEF LedgerInv
    <2>9. /\ known' = {Account} /\ locked' \in [{Account} -> Nat]
          /\ stake' = [a \in {Account} |-> 0] /\ total_supply' = Funds
          /\ finalized' = [k \in CheckpointKey |-> finalized'[k]]
      BY <2>2 DEF LedgerInv
    <2> QED
      BY <2>2, <2>5, <2>6, <2>7, <2>8, <2>9 DEF LedgerInv, Escrow, CheckpointKey
  <1> QED
    BY <1>2, <1>3, <1>4, <1>5, <1>6, ApplyCases

(* A finalized checkpoint moves its exposure from the escrow to the locked *)
(* balance, once for its key and only with its witnesses.                  *)
LEMMA SubmitMoves ==
    ASSUME LedgerInv, NEW cp, NEW sigs, SubmitCheckpoint(cp, sigs),
           Key(cp.header) \in CheckpointKey, Key(cp.header)[1] = Shard, cp.header.exposure \in Nat
    PROVE  /\ LedgerInv'
           /\ \/ locked' = locked /\ finalized' = finalized
              \/ /\ verify_witnessed(cp, sigs)
                 /\ finalized[Key(cp.header)] = None
                 /\ finalized' = [finalized EXCEPT ![Key(cp.header)] = cp.header.root]
                 /\ locked'[Account] = locked[Account] + cp.header.exposure
  <1>1. PICK tx : tx = [type |-> "CheckpointFinalized", key |-> Key(cp.header),
                        root |-> cp.header.root, exposure |-> cp.header.exposure,
                        witnessed |-> verify_witnessed(cp, sigs), account |-> Account]
    OBVIOUS
  <1>2. /\ tx.type = "CheckpointFinalized" /\ tx.key = Key(cp.header) /\ tx.account = Account
        /\ tx.root = cp.header.root /\ tx.exposure = cp.header.exposure
    BY <1>1
  <1>2a. tx.witnessed = verify_witnessed(cp, sigs)
    BY <1>1
  <1>3. L1!apply(tx)
    BY <1>1 DEF SubmitCheckpoint
  <1>4. ~L1!AllocateShardAllowance(tx)
    BY <1>2 DEF L1!AllocateShardAllowance
  <1>5. CASE L1!Refuse(tx)
    BY <1>5, RefusedKeeps DEF accounts, LedgerInv, CheckpointKey
  <1>6. CASE L1!CheckpointFinalized(tx)
    <2> DEFINE n == cp.header.exposure
    <2>0. Account \in known /\ n \in Nat
      BY DEF LedgerInv
    <2>1. L1!CanFinalize(tx)
      BY <1>6 DEF L1!CheckpointFinalized
    <2>2. /\ tx.witnessed /\ finalized[Key(cp.header)] = None
          /\ Escrow \in escrows /\ n <= shard_outstanding[Escrow]
      BY <1>2, <2>1 DEF L1!CanFinalize, Escrow
    <2>3. /\ shard_outstanding' = [shard_outstanding EXCEPT ![Escrow] = @ - n]
          /\ locked' = [locked EXCEPT ![Account] = @ + n]
          /\ finalized' = [finalized EXCEPT ![Key(cp.header)] = cp.header.root]
      BY <1>2, <1>6, <2>0 DEF L1!CheckpointFinalized, Escrow
    <2>4. UNCHANGED <<known, available, stake, total_supply, escrows>>
      BY <1>6 DEF L1!CheckpointFinalized
    <2>5. /\ locked' \in [{Account} -> Nat] /\ locked'[Account] = locked[Account] + n
          /\ locked[Account] \in Nat
      BY <2>0, <2>3 DEF LedgerInv
    <2>6. /\ shard_outstanding' \in [{Shard} \X {Account} -> Nat]
          /\ shard_outstanding'[Escrow] = shard_outstanding[Escrow] - n
          /\ shard_outstanding[Escrow] \in Nat
      <3>1. Escrow \in {Shard} \X {Account}
        BY DEF Escrow
      <3> QED
        BY <2>0, <2>2, <2>3, <3>1 DEF LedgerInv
    <2>7. available'[Account] + shard_outstanding'[Escrow] + locked'[Account] = Funds
      <3>1. available[Account] + shard_outstanding[Escrow] + locked[Account] = Funds
            /\ available[Account] \in Nat
        BY DEF LedgerInv
      <3> QED
        BY <2>0, <2>4, <2>5, <2>6, <3>1
    <2>8. finalized' = [k \in CheckpointKey |-> finalized'[k]]
      BY <2>3 DEF LedgerInv
    <2>9. LedgerInv'
      BY <2>2, <2>4, <2>5, <2>6, <2>7, <2>8 DEF LedgerInv, Escrow, CheckpointKey
    <2> QED
      BY <1>2a, <2>2, <2>3, <2>5, <2>9
  <1> QED
    BY <1>2, <1>3, <1>4, <1>5, <1>6, ApplyCases

-----------------------------------------------------------------------------
(* A list of signatures that verifies holds, for as many witnesses as are  *)
(* required, one that was made for this very header.                       *)
LEMMA EnoughWitnesses ==
    ASSUME NEW cp, NEW sigs \in SigLists(cp), verify_witnessed(cp, sigs)
    PROVE  Cardinality(Witnessed([header |-> cp.header, signer |-> cp.shard_signer_pubkey,
                                  sigs |-> ToSet(sigs)])) >= witnesses_required
  <1> DEFINE fit == {t \in Alike(Key(cp.header)) : verify_signed_checkpoint(cp)}
             made == {countersign(w, Signed(t.header, t.key, t)) : w \in Witness, t \in fit}
             s == [header |-> cp.header, signer |-> cp.shard_signer_pubkey, sigs |-> ToSet(sigs)]
  <1>1. PICK m \in 0..MaxSigs : sigs \in [1..m -> made]
    BY DEF SigLists, SeqOf
  <1>2. ASSUME NEW i \in 1..m
        PROVE  sigs[i].witness \in Witness /\ sigs[i].saw = cp.header
    <2>1. PICK w \in Witness, t \in fit : sigs[i] = countersign(w, Signed(t.header, t.key, t))
      <3>1. sigs[i] \in made
        BY <1>1
      <3> QED
        BY <3>1
    <2>2. /\ sigs[i].witness = w /\ sigs[i].saw = t.header
          /\ sigs[i].signature = witness_body(Signed(t.header, t.key, t))
      BY <2>1 DEF countersign, Signed
    <2>3. i \in DOMAIN sigs
      BY <1>1
    <2>4. witness_body(Signed(t.header, t.key, t)) = witness_body(cp)
      BY <2>2, <2>3 DEF verify_witnessed, verify_witness_sig
    <2>5. t = cp.shard_signature
      BY <2>4 DEF witness_body, Signed
    <2>6. cp.shard_signature.header = cp.header
      BY DEF verify_witnessed, verify_signed_checkpoint, Signature
    <2> QED
      BY <2>2, <2>5, <2>6
  <1>3. DOMAIN sigs = 1..m /\ m \in Nat /\ Len(sigs) = m
    <2> HIDE DEF made
    <2> QED
      BY <1>1, CheckpointAssumption
  <1>4. m >= witnesses_required /\ \A i, j \in 1..m : i # j => sigs[i].witness # sigs[j].witness
    BY <1>3 DEF verify_witnessed
  <1>5. \A i \in 1..m : sigs[i].witness \in Witnessed(s)
    <2>1. \A i \in 1..m : sigs[i] \in ToSet(sigs)
      BY <1>3 DEF ToSet
    <2> QED
      BY <1>2, <2>1 DEF Witnessed
  <1> DEFINE f == [i \in 1..m |-> sigs[i].witness]
  <1>6. IsFiniteSet(Witnessed(s))
    <2>1. Witnessed(s) \subseteq Witness
      BY DEF Witnessed
    <2> QED
      BY <2>1, CheckpointAssumption, FS_Subset
  <1>7. f \in Injection(1..m, Witnessed(s))
    <2> HIDE DEF s
    <2> QED
      BY <1>4, <1>5 DEF Injection, IsInjective
  <1>8. Cardinality(1..m) <= Cardinality(Witnessed(s))
    <2> HIDE DEF s, f
    <2> QED
      BY <1>6, <1>7, FS_Injection
  <1>9. Cardinality(1..m) = m
    BY <1>3, FS_Interval
  <1>10. Cardinality(Witnessed(s)) \in Nat
    BY <1>6, FS_CardinalityType
  <1> QED
    BY <1>3, <1>4, <1>8, <1>9, <1>10, CheckpointAssumption

(* A sealed header's key is one the ledger has a place for.                *)
LEMMA HeaderFacts ==
    ASSUME LogInv, BatchInv, NEW c \in sealed
    PROVE  /\ Key(c.header) \in CheckpointKey /\ Key(c.header)[1] = Shard
           /\ c.header.exposure \in Nat /\ c.header.root # None
           /\ ToSet(c.batch) \in SUBSET Receipt /\ IsFiniteSet(ToSet(c.batch))
           /\ Total(ToSet(c.batch)) = c.header.exposure /\ c.header \in Headers
           /\ c.batch \in Seq(Receipt)
  <1>1. HeaderInv(c)
    BY DEF BatchInv
  <1>2. Key(c.header) = <<c.header.shard_id, c.header.epoch, c.header.height>>
    BY DEF Key
  <1>3. c.header.shard_id = Shard /\ c.header.epoch \in Epoch /\ c.header.height \in 1..MaxServed
    BY <1>1 DEF HeaderInv
  <1>4. Key(c.header) \in CheckpointKey /\ Key(c.header)[1] = Shard
    BY <1>2, <1>3 DEF CheckpointKey
  <1>5. c.batch \in Seq(served) /\ served \subseteq Receipt /\ IsFiniteSet(served)
    BY <1>1 DEF HeaderInv, LogInv
  <1>6. c.batch \in Seq(Receipt)
    BY <1>5
  <1>7. ToSet(c.batch) \subseteq served /\ IsFiniteSet(ToSet(c.batch))
    BY <1>5, ElementsFacts
  <1>8. c.header.root = merkle_root(leaves(c.batch)) /\ Len(c.batch) <= MaxServed
        /\ c.header.exposure = Total(ToSet(c.batch))
    BY <1>1 DEF HeaderInv
  <1>9. c.header.root # None
    BY <1>6, <1>8, LeavesFacts
  <1>10. Total(ToSet(c.batch)) \in Nat
    BY <1>5, <1>7, TotalNat
  <1>11. c.header \in Headers
    BY DEF Headers
  <1> QED
    BY <1>4, <1>5, <1>6, <1>7, <1>8, <1>9, <1>10, <1>11

(* At the start there is nothing but the account's funds.                  *)
LEMMA SettlementInit == Init => SettlementInv
  <1> SUFFICES ASSUME Init PROVE SettlementInv
    OBVIOUS
  <1>1. LogInv
    <2>1. served = {} /\ log = <<>> /\ exposure = 0 /\ next_height = 1 /\ restarts = 0
      BY DEF Init, CPInit
    <2>2. IsFiniteSet({}) /\ Cardinality({}) = 0
      BY FS_EmptySet
    <2>3. ToSet(log) = {} /\ Total({}) = 0
      BY <2>1, ElementsFacts, TotalEmpty
    <2>4. exposure = Total(ToSet(log))
      BY <2>1, <2>3, Zenon
    <2> QED
      BY <2>1, <2>2, <2>4, CheckpointAssumption DEF LogInv
  <1>2. BatchInv
    BY DEF Init, CPInit, BatchInv
  <1>3. LedgerInv
    <2>1. /\ known = {Account} /\ available = [a \in {Account} |-> Funds]
          /\ locked = [a \in {Account} |-> 0] /\ stake = [a \in {Account} |-> 0]
          /\ escrows = {} /\ shard_outstanding = [k \in {Shard} \X {Account} |-> 0]
          /\ finalized = [k \in CheckpointKey |-> None]
      BY DEF Init, L1!Init, CheckpointKey
    <2>2. total_supply = Funds
      <3> DEFINE G == [a \in {Account} |-> Funds]
      <3>1. total_supply = SumOf(G, DOMAIN G)
        BY DEF Init, L1!Init, L1!SumOver, L1!MapThenSumSet, L1!MapThenFoldSet, SumOf, Sums, IsSums,
               SumStep, Pick
      <3>2. DOMAIN G = {} \cup {Account} /\ G[Account] = Funds
        OBVIOUS
      <3> HIDE DEF G
      <3>4. SumOf(G, {} \cup {Account}) = G[Account] + SumOf(G, {})
        <4>1. \A y \in {} \cup {Account} : G[y] \in Int
          BY <3>2, SettlementAssumption
        <4> QED
          BY <4>1, FS_EmptySet, SumAdd
      <3>5. total_supply = Funds + 0
        BY <3>1, <3>2, <3>4, SumEmpty, Zenon
      <3> QED
        BY <3>5, SettlementAssumption
    <2>3. Escrow \in {Shard} \X {Account}
      BY DEF Escrow
    <2> QED
      BY <2>1, <2>2, <2>3, SettlementAssumption DEF LedgerInv
  <1>4. SettledInv
    <2>1. settled = {} /\ sealed = {} /\ locked[Account] = 0
      BY DEF Init, CPInit, L1!Init
    <2>2. finalized = [k \in CheckpointKey |-> None]
      BY DEF Init, L1!Init, CheckpointKey
    <2>3. PaidReceipts = {}
      BY <2>1 DEF PaidReceipts, Paid
    <2>4. locked[Account] = Total(PaidReceipts) + Carried(settled \ ByShard)
      <3>1. Total(PaidReceipts) = 0
        BY <2>3, TotalEmpty, Zenon
      <3>2. settled \ ByShard = {}
        BY <2>1
      <3>3. Carried(settled \ ByShard) = 0
        BY <3>2, CarriedEmpty, Zenon
      <3> QED
        BY <2>1, <3>1, <3>3
    <2> QED
      BY <2>1, <2>2, <2>4, FS_EmptySet DEF SettledInv
  <1>5. KeysInv
    BY DEF Init, CPInit, KeysInv
  <1> QED
    BY <1>1, <1>2, <1>3, <1>4, <1>5 DEF SettlementInv

-----------------------------------------------------------------------------
(* A receipt that is appended is new, and in no sealed batch.              *)
LEMMA CompleteStep ==
    ASSUME SettlementInv, NEW p \in Pay, NEW n \in Amount, complete_payment_proof(p, n),
           UNCHANGED <<ledgerVars, settled>>
    PROVE  SettlementInv'
  <1> USE DEF SettlementInv
  <1>1. PICK r : r = [id |-> Cardinality(served), pay |-> p, actual_amount |-> n]
    OBVIOUS
  <1>2. /\ Cardinality(served) < MaxServed
        /\ log' = Append(log, r) /\ exposure' = exposure + r.actual_amount
        /\ served' = served \cup {r}
        /\ UNCHANGED <<next_height, sealed, restarts, by_key>>
    BY <1>1 DEF complete_payment_proof, append
  <1>3. /\ served \subseteq Receipt /\ IsFiniteSet(served) /\ Cardinality(served) \in Nat
        /\ log \in Seq(served) /\ exposure = Total(ToSet(log))
    BY FS_CardinalityType DEF LogInv
  <1>4. r \in Receipt /\ r.id = Cardinality(served) /\ r.actual_amount = n
    BY <1>1, <1>3 DEF Receipt
  <1>5. r \notin served
    <2>1. \A x \in served : x.id < Cardinality(served)
      BY DEF LogInv
    <2> QED
      BY <1>3, <1>4, <2>1
  <1>6. IsFiniteSet(served') /\ Cardinality(served') = Cardinality(served) + 1
    BY <1>2, <1>3, <1>5, FS_AddElement
  <1>7. ToSet(log') = ToSet(log) \cup {r} /\ ToSet(log) \subseteq served /\ IsFiniteSet(ToSet(log))
        /\ log' \in Seq(served') /\ Len(log') = Len(log) + 1 /\ Len(log) \in Nat
    <2>1. log \in Seq(served') /\ r \in served'
      BY <1>2, <1>3
    <2>2. ToSet(Append(log, r)) = ToSet(log) \cup {r}
      BY <2>1, ElementsFacts
    <2>3. ToSet(log) \subseteq served /\ IsFiniteSet(ToSet(log))
      BY <1>3, ElementsFacts
    <2>4. Append(log, r) \in Seq(served') /\ Len(Append(log, r)) = Len(log) + 1 /\ Len(log) \in Nat
      BY <2>1
    <2> QED
      BY <1>2, <2>2, <2>3, <2>4
  <1>8. Total(ToSet(log')) = exposure'
    <2>1. Total(ToSet(log) \cup {r}) = Total(ToSet(log)) + r.actual_amount
      BY <1>3, <1>4, <1>5, <1>7, TotalAdd
    <2> QED
      BY <1>2, <1>3, <1>7, <2>1, Zenon
  <1>9. LogInv'
    <2>1. \A x \in served' : x.id < Cardinality(served')
      <3>1. \A x \in served : x.id < Cardinality(served) /\ x.id \in Nat
        BY <1>3 DEF LogInv, Receipt
      <3> QED
        BY <1>2, <1>3, <1>4, <1>6, <3>1
    <2>2. next_height' \in Nat \ {0} /\ next_height' - 1 + Len(log') <= Cardinality(served')
      BY <1>2, <1>3, <1>6, <1>7 DEF LogInv
    <2>3. served' \subseteq Receipt /\ Cardinality(served') <= MaxServed /\ restarts' \in Nat
      BY <1>2, <1>3, <1>4, <1>6, CheckpointAssumption DEF LogInv
    <2> QED
      BY <1>6, <1>7, <1>8, <2>1, <2>2, <2>3 DEF LogInv
  <1>10. BatchInv'
    <2>1. ASSUME NEW c \in sealed
          PROVE  HeaderInv(c)' /\ ToSet(c.batch) \cap ToSet(log') = {}
      <3>1. HeaderInv(c) /\ ToSet(c.batch) \cap ToSet(log) = {}
        BY DEF BatchInv
      <3>2. c.batch \in Seq(served) /\ c.batch \in Seq(served')
        BY <1>2, <3>1 DEF HeaderInv
      <3>3. ToSet(c.batch) \subseteq served
        BY <3>2, ElementsFacts
      <3>4. HeaderInv(c)'
        BY <1>2, <3>1, <3>2 DEF HeaderInv
      <3> QED
        BY <1>5, <1>7, <3>1, <3>3, <3>4
    <2>2. \A c, d \in sealed' : c # d =>
             c.header # d.header /\ ToSet(c.batch) \cap ToSet(d.batch) = {}
      BY <1>2 DEF BatchInv
    <2>3. restarts' = 0 => \A x \in served' \ ToSet(log') : \E c \in sealed' : x \in ToSet(c.batch)
      BY <1>2, <1>7 DEF BatchInv
    <2> QED
      BY <1>2, <2>1, <2>2, <2>3 DEF BatchInv
  <1>11. LedgerInv' /\ KeysInv' /\ SettledInv'
    BY <1>2 DEF LedgerInv, CheckpointKey, KeysInv, SettledInv, Headers, Witnessed, PaidReceipts,
                Paid, ByShard, ledgerVars
  <1> QED
    BY <1>9, <1>10, <1>11

(* A batch that is sealed is made of receipts that were in none before,    *)
(* under a header that was never signed.                                   *)
LEMMA SealStep ==
    ASSUME SettlementInv, NEW e \in Epoch, force_seal(e), UNCHANGED <<ledgerVars, settled>>
    PROVE  SettlementInv'
  <1> USE DEF SettlementInv
  <1>1. PICK b : b = [header |-> Header(e), batch |-> log]
    OBVIOUS
  <1>2. /\ log # <<>> /\ sealed' = sealed \cup {b} /\ next_height' = next_height + 1
        /\ log' = <<>> /\ exposure' = 0
        /\ UNCHANGED <<served, restarts, by_key>>
    BY <1>1 DEF force_seal, clear_sealed
  <1>3. /\ served \subseteq Receipt /\ IsFiniteSet(served) /\ Cardinality(served) \in Nat
        /\ Cardinality(served) <= MaxServed /\ MaxServed \in Nat
        /\ log \in Seq(served) /\ exposure = Total(ToSet(log))
        /\ next_height \in Nat \ {0} /\ next_height - 1 + Len(log) <= Cardinality(served)
        /\ restarts \in Nat
    BY FS_CardinalityType, CheckpointAssumption DEF LogInv
  <1>4. Len(log) \in Nat \ {0} /\ Len(log) <= MaxServed /\ next_height \in 1..MaxServed
    BY <1>2, <1>3
  <1>5. /\ b = [header |-> b.header, batch |-> b.batch] /\ b.batch = log
        /\ b.header.shard_id = Shard /\ b.header.epoch = e
        /\ b.header.root = merkle_root(leaves(log)) /\ b.header.height = next_height
        /\ b.header.tx_count = Len(log) /\ b.header.exposure = exposure
        /\ b.header.sealed_at = restarts
    BY <1>1 DEF Header
  <1>6. \A c \in sealed : c.header # b.header
    <2>1. \A c \in sealed : HeaderInv(c)
      BY DEF BatchInv
    <2>2. \A c \in sealed : c.header.sealed_at = restarts =>
             c.header.height < next_height /\ c.header.height \in Nat
      BY <2>1 DEF HeaderInv
    <2> QED
      BY <1>3, <1>5, <2>2
  <1>7. HeaderInv(b)'
    <2>1. b.header.sealed_at \in 0..restarts
      BY <1>3, <1>5
    <2>2. b.header.height \in 1..MaxServed /\ b.header.height < next_height + 1
      BY <1>3, <1>4, <1>5
    <2>3. b.header.exposure = Total(ToSet(b.batch))
      BY <1>3, <1>5, Zenon
    <2> QED
      BY <1>2, <1>3, <1>4, <1>5, <2>1, <2>2, <2>3 DEF HeaderInv
  <1>8. ToSet(log') = {}
    BY <1>2, ElementsFacts
  <1>9. LogInv'
    <2>1. exposure' = Total(ToSet(log'))
      BY <1>2, <1>8, TotalEmpty, Zenon
    <2>2. next_height' \in Nat \ {0} /\ next_height' - 1 + Len(log') <= Cardinality(served')
      <3>1. Len(log') = 0
        BY <1>2
      <3> QED
        BY <1>2, <1>3, <1>4, <3>1
    <2>3. log' \in Seq(served')
      BY <1>2
    <2> QED
      BY <1>2, <1>3, <2>1, <2>2, <2>3 DEF LogInv
  <1>10. BatchInv'
    <2>1. \A c \in sealed' : HeaderInv(c)' /\ ToSet(c.batch) \cap ToSet(log') = {}
      <3>1. ASSUME NEW c \in sealed PROVE HeaderInv(c)'
        <4>1. HeaderInv(c)
          BY DEF BatchInv
        <4>2. c.header.sealed_at = restarts =>
                c.header.height < next_height + 1 /\ c.header.height \in Nat
          BY <1>3, <4>1 DEF HeaderInv
        <4> QED
          BY <1>2, <4>1, <4>2 DEF HeaderInv
      <3> QED
        BY <1>2, <1>7, <1>8, <3>1
    <2>2. ASSUME NEW c \in sealed', NEW d \in sealed', c # d
          PROVE  c.header # d.header /\ ToSet(c.batch) \cap ToSet(d.batch) = {}
      <3>1. \A x \in sealed : x.header # b.header /\ ToSet(x.batch) \cap ToSet(b.batch) = {}
        BY <1>5, <1>6 DEF BatchInv
      <3> QED
        BY <1>2, <2>2, <3>1 DEF BatchInv
    <2>3. restarts' = 0 => \A x \in served' \ ToSet(log') : \E c \in sealed' : x \in ToSet(c.batch)
      <3>1. ASSUME restarts = 0, NEW x \in served PROVE \E c \in sealed' : x \in ToSet(c.batch)
        <4>1. x \in ToSet(log) \/ \E c \in sealed : x \in ToSet(c.batch)
          BY <3>1 DEF BatchInv
        <4> QED
          BY <1>2, <1>5, <4>1
      <3> QED
        BY <1>2, <3>1
    <2> QED
      BY <2>1, <2>2, <2>3 DEF BatchInv
  <1>11. LedgerInv' /\ KeysInv'
    BY <1>2 DEF LedgerInv, CheckpointKey, KeysInv, ledgerVars
  <1>12. SettledInv'
    <2>1. \A s \in ByShard : s.header \in Headers
      BY DEF SettledInv, ByShard
    <2>2. \A s \in ByShard : s.header # b.header
      BY <1>6, <2>1 DEF Headers
    <2>3. Headers \subseteq Headers'
      BY <1>2 DEF Headers
    <2>4. finalized' = finalized /\ settled' = settled /\ locked' = locked
      BY DEF ledgerVars
    <2>5. ByShard' = ByShard
      BY <2>4 DEF ByShard
    <2>6. Paid' = Paid
      BY <1>2, <2>2, <2>5 DEF Paid
    <2>7. PaidReceipts' = PaidReceipts
      BY <2>6 DEF PaidReceipts
    <2>8. locked[Account] = Total(PaidReceipts) + Carried(settled \ ByShard)
      BY DEF SettledInv
    <2>9. locked'[Account] = Total(PaidReceipts') + Carried(settled' \ ByShard')
      BY <2>4, <2>5, <2>7, <2>8, Zenon
    <2>10. \A s \in settled : Witnessed(s)' = Witnessed(s)
      BY DEF Witnessed
    <2> QED
      BY <2>3, <2>4, <2>9, <2>10 DEF SettledInv, CheckpointKey
  <1> QED
    BY <1>9, <1>10, <1>11, <1>12

(* A restart loses the log, and the next headers bear a later clock.       *)
LEMMA RestartStep ==
    ASSUME SettlementInv, Restart, UNCHANGED <<ledgerVars, settled>>
    PROVE  SettlementInv'
  <1> USE DEF SettlementInv
  <1>1. /\ restarts' = restarts + 1 /\ log' = <<>> /\ exposure' = 0 /\ next_height' = 1
        /\ UNCHANGED <<sealed, served, by_key>>
    BY DEF Restart
  <1>2. ToSet(log') = {}
    BY <1>1, ElementsFacts
  <1>3. restarts \in Nat /\ IsFiniteSet(served) /\ Cardinality(served) \in Nat
    BY FS_CardinalityType DEF LogInv
  <1>4. LogInv'
    <2>1. exposure' = Total(ToSet(log'))
      BY <1>1, <1>2, TotalEmpty, Zenon
    <2>2. log' \in Seq(served') /\ Len(log') = 0
      BY <1>1
    <2> QED
      BY <1>1, <1>3, <2>1, <2>2 DEF LogInv
  <1>5. BatchInv'
    <2>1. ASSUME NEW c \in sealed PROVE HeaderInv(c)'
      <3>1. HeaderInv(c)
        BY DEF BatchInv
      <3>2. c.header.sealed_at \in 0..restarts' /\ c.header.sealed_at # restarts'
        BY <1>1, <1>3, <3>1 DEF HeaderInv
      <3> QED
        BY <1>1, <3>1, <3>2 DEF HeaderInv
    <2>2. restarts' # 0
      BY <1>1, <1>3
    <2>3. \A c, d \in sealed' : c # d =>
             c.header # d.header /\ ToSet(c.batch) \cap ToSet(d.batch) = {}
      BY <1>1 DEF BatchInv
    <2> QED
      BY <1>1, <1>2, <2>1, <2>2, <2>3 DEF BatchInv
  <1>6. LedgerInv' /\ KeysInv' /\ SettledInv'
    BY <1>1 DEF LedgerInv, CheckpointKey, KeysInv, SettledInv, Headers, Witnessed, PaidReceipts,
                Paid, ByShard, ledgerVars
  <1> QED
    BY <1>4, <1>5, <1>6

(* What neither the shard nor the WitnessSet does leaves the invariants of *)
(* the log and of the batches alone.                                       *)
LEMMA ShardKept ==
    ASSUME LogInv, BatchInv, UNCHANGED shardVars
    PROVE  LogInv' /\ BatchInv'
  <1>1. LogInv'
    BY DEF LogInv, shardVars
  <1>2. BatchInv'
    BY DEF BatchInv, HeaderInv, shardVars
  <1> QED
    BY <1>1, <1>2

(* Whatever is presented has a key the ledger has a place for, and what    *)
(* names the shard's key carries a sealed header.                          *)
LEMMA PresentedFacts ==
    ASSUME LogInv, BatchInv, NEW cp \in Presented
    PROVE  /\ cp.shard_signer_pubkey = ShardKey => cp.header \in Headers
           /\ Key(cp.header) \in CheckpointKey /\ Key(cp.header)[1] = Shard
           /\ cp.header.exposure \in Nat /\ cp.header.root # None
  <1>1. PICK s \in Signatures : \E t : cp = Signed(s.header, s.key, t)
    BY DEF Presented
  <1>2. cp.header = s.header /\ cp.shard_signer_pubkey = s.key
    BY <1>1 DEF Signed
  <1>3. CASE \E h \in Headers : s = Signature(ShardKey, h)
    <2>1. PICK c \in sealed : s = Signature(ShardKey, c.header)
      BY <1>3 DEF Headers
    <2>2. cp.header = c.header
      BY <1>2, <2>1 DEF Signature
    <2> QED
      BY <2>2, HeaderFacts
  <1>4. CASE \E k \in OtherKey, h \in OtherHeader : s = Signature(k, h)
    <2>1. PICK k \in OtherKey, h \in OtherHeader : s = Signature(k, h)
      BY <1>4
    <2>2. cp.header = h /\ cp.shard_signer_pubkey = k
      BY <1>2, <2>1 DEF Signature
    <2>3. Key(h) \in CheckpointKey /\ Key(h)[1] = Shard
      BY CheckpointAssumption DEF Key, CheckpointKey
    <2> QED
      BY <2>2, <2>3, CheckpointAssumption, SettlementAssumption
  <1> QED
    BY <1>3, <1>4 DEF Signatures

(* WitnessSet::accept adds one key.                                        *)
LEMMA AcceptStep ==
    ASSUME SettlementInv, NEW cp \in Presented, NEW sigs, accept(cp, sigs),
           UNCHANGED <<ledgerVars, settled>>
    PROVE  SettlementInv'
  <1> USE DEF SettlementInv
  <1>1. LogInv' /\ BatchInv'
    BY ShardKept DEF accept
  <1>2. LedgerInv'
    BY DEF LedgerInv, CheckpointKey, ledgerVars
  <1>3. sealed' = sealed
    BY DEF accept, shardVars
  <1>4. SettledInv'
    BY <1>3 DEF SettledInv, Headers, Witnessed, PaidReceipts, Paid, ByShard, ledgerVars
  <1>5. KeysInv'
    <2>1. Key(cp.header) \in {Shard} \X Epoch \X Nat
      BY PresentedFacts DEF CheckpointKey
    <2>2. DOMAIN by_key' = DOMAIN by_key \cup {Key(cp.header)}
      BY DEF accept
    <2> QED
      BY <2>1, <2>2 DEF KeysInv
  <1> QED
    BY <1>1, <1>2, <1>4, <1>5

(* An allowance settles nothing.                                           *)
LEMMA AllocateStep ==
    ASSUME SettlementInv, NEW n \in Allowance, AllocateShardAllowance(n)
    PROVE  SettlementInv'
  <1> USE DEF SettlementInv
  <1>1. UNCHANGED <<cpVars, settled>>
    BY DEF AllocateShardAllowance
  <1>2. LogInv' /\ BatchInv' /\ sealed' = sealed /\ by_key' = by_key
    BY <1>1, ShardKept DEF cpVars, shardVars
  <1>3. LedgerInv' /\ locked' = locked /\ finalized' = finalized
    BY AllocateMoves
  <1>4. SettledInv' /\ KeysInv'
    BY <1>1, <1>2, <1>3 DEF SettledInv, KeysInv, Headers, Witnessed, PaidReceipts, Paid, ByShard
  <1> QED
    BY <1>2, <1>3, <1>4

(* A checkpoint that is finalized pays for a batch that was not paid, or   *)
(* moves what it carries.                                                  *)
LEMMA SubmitStep ==
    ASSUME SettlementInv, NEW cp \in Presented, NEW sigs \in SigLists(cp), SubmitCheckpoint(cp, sigs)
    PROVE  SettlementInv'
  <1> USE DEF SettlementInv
  <1> DEFINE h == cp.header
             k == Key(cp.header)
             new == [header |-> cp.header, signer |-> cp.shard_signer_pubkey, sigs |-> ToSet(sigs)]
             rest == settled \ ByShard
  <1>1. UNCHANGED cpVars
    BY DEF SubmitCheckpoint
  <1>2. LogInv' /\ BatchInv' /\ sealed' = sealed /\ by_key' = by_key /\ Headers' = Headers
    BY <1>1, ShardKept DEF cpVars, shardVars, Headers
  <1>3. KeysInv'
    BY <1>2 DEF KeysInv
  <1>4. /\ cp.shard_signer_pubkey = ShardKey => h \in Headers
        /\ k \in CheckpointKey /\ k[1] = Shard /\ h.exposure \in Nat /\ h.root # None
    BY PresentedFacts
  <1>5. /\ LedgerInv'
        /\ \/ locked' = locked /\ finalized' = finalized
           \/ /\ verify_witnessed(cp, sigs)
              /\ finalized[k] = None
              /\ finalized' = [finalized EXCEPT ![k] = h.root]
              /\ locked'[Account] = locked[Account] + h.exposure
    BY <1>4, SubmitMoves
  <1>6. CASE locked' = locked /\ finalized' = finalized
    <2>1. settled' = settled
      BY <1>6 DEF SubmitCheckpoint
    <2>2. SettledInv'
      BY <1>2, <1>6, <2>1 DEF SettledInv, CheckpointKey, Headers, Witnessed, PaidReceipts, Paid, ByShard
    <2> QED
      BY <1>2, <1>3, <1>5, <2>2
  <1>7. CASE /\ verify_witnessed(cp, sigs)
             /\ finalized[k] = None
             /\ finalized' = [finalized EXCEPT ![k] = h.root]
             /\ locked'[Account] = locked[Account] + h.exposure
    <2>1. finalized' # finalized /\ finalized'[k] = h.root /\ \A j \in CheckpointKey \ {k} : finalized'[j] = finalized[j]
      <3>1. DOMAIN finalized = CheckpointKey
        BY DEF LedgerInv
      <3> QED
        BY <1>4, <1>7, <3>1
    <2>2. settled' = settled \cup {new}
      BY <2>1 DEF SubmitCheckpoint
    <2>3. /\ new.header = h /\ new.signer = cp.shard_signer_pubkey
          /\ Cardinality(Witnessed(new)) >= witnesses_required
      BY <1>7, EnoughWitnesses
    <2>4. (\A s \in settled : Key(s.header) # k) /\ new \notin settled
      <3>1. \A s \in settled : Key(s.header) # k
        BY <1>7 DEF SettledInv
      <3> QED
        BY <2>3, <3>1
    <2>5. PICK paid : paid = Total(PaidReceipts)
      OBVIOUS
    <2>6. PICK carried : carried = Carried(rest)
      OBVIOUS
    <2>7. locked[Account] = paid + carried
      BY <2>5, <2>6 DEF SettledInv
    <2>8. IsFiniteSet(rest) /\ new \notin rest /\ \A s \in rest : s.header.exposure \in Nat
      <3>1. rest \subseteq settled
        OBVIOUS
      <3>2. IsFiniteSet(settled) /\ \A s \in settled : s.header.exposure \in Nat
        BY DEF SettledInv
      <3> HIDE DEF rest, new
      <3> QED
        BY <2>4, <3>1, <3>2, FS_Subset
    <2>9. /\ carried \in Nat /\ Carried(rest \cup {new}) = carried + h.exposure
      <3>1. new.header.exposure \in Nat /\ new.header.exposure = h.exposure
        BY <1>4, <2>3
      <3> HIDE DEF rest, new
      <3> QED
        BY <2>6, <2>8, <3>1, CarriedAdd
    <2>10. paid \in Nat /\ PaidReceipts \in SUBSET Receipt /\ IsFiniteSet(PaidReceipts)
      <3>1. \A d \in sealed : ToSet(d.batch) \subseteq served
        BY ElementsFacts DEF BatchInv, HeaderInv
      <3>2. PaidReceipts \subseteq served
        BY <3>1 DEF PaidReceipts, Paid
      <3>3. PaidReceipts \in SUBSET Receipt /\ IsFiniteSet(PaidReceipts)
        BY <3>2, FS_Subset DEF LogInv
      <3> QED
        BY <2>5, <3>3, TotalNat
    <2>11. ASSUME cp.shard_signer_pubkey = ShardKey
           PROVE  locked'[Account] = Total(PaidReceipts') + Carried(settled' \ ByShard')
      <3>1. ByShard' = ByShard \cup {new} /\ settled' \ ByShard' = rest
        BY <2>2, <2>3, <2>4, <2>11 DEF ByShard
      <3>2. PICK c \in sealed : c.header = h
        BY <1>4, <2>11 DEF Headers
      <3>3. c \notin Paid
        BY <2>4, <3>2 DEF Paid, ByShard
      <3>4. Paid' = Paid \cup {c}
        <4>1. \A d \in sealed : d.header = h => d = c
          BY <3>2 DEF BatchInv
        <4> QED
          BY <1>2, <2>3, <3>1, <3>2, <4>1 DEF Paid
      <3>5. PaidReceipts' = PaidReceipts \cup ToSet(c.batch) /\ PaidReceipts \cap ToSet(c.batch) = {}
        <4>1. \A d \in Paid : ToSet(d.batch) \cap ToSet(c.batch) = {}
          BY <3>3 DEF BatchInv, Paid
        <4> QED
          BY <3>4, <4>1 DEF PaidReceipts
      <3>6. /\ ToSet(c.batch) \in SUBSET Receipt /\ IsFiniteSet(ToSet(c.batch))
            /\ Total(ToSet(c.batch)) = h.exposure
        BY <3>2, HeaderFacts
      <3>7. Total(PaidReceipts \cup ToSet(c.batch)) = paid + h.exposure
        BY <2>5, <2>10, <3>5, <3>6, TotalUnion
      <3>8. Total(PaidReceipts') = paid + h.exposure
        BY <3>5, <3>7, Zenon
      <3>9. Carried(settled' \ ByShard') = carried
        BY <2>6, <3>1, Zenon
      <3>10. locked'[Account] = (paid + h.exposure) + carried
        BY <1>4, <1>7, <2>7, <2>9, <2>10
      <3> QED
        BY <3>8, <3>9, <3>10, Zenon
    <2>12. ASSUME cp.shard_signer_pubkey # ShardKey
           PROVE  locked'[Account] = Total(PaidReceipts') + Carried(settled' \ ByShard')
      <3>1. ByShard' = ByShard /\ settled' \ ByShard' = rest \cup {new}
        BY <2>2, <2>3, <2>4, <2>12 DEF ByShard
      <3>2. PaidReceipts' = PaidReceipts
        BY <1>2, <3>1 DEF PaidReceipts, Paid
      <3>3. Total(PaidReceipts') = paid
        BY <2>5, <3>2, Zenon
      <3>4. Carried(settled' \ ByShard') = carried + h.exposure
        BY <2>9, <3>1, Zenon
      <3>5. locked'[Account] = paid + (carried + h.exposure)
        BY <1>4, <1>7, <2>7, <2>9, <2>10
      <3> QED
        BY <3>3, <3>4, <3>5, Zenon
    <2>13. locked'[Account] = Total(PaidReceipts') + Carried(settled' \ ByShard')
      BY <2>11, <2>12, Zenon
    <2>14. ASSUME NEW s \in settled'
           PROVE  /\ s.signer = ShardKey => s.header \in Headers'
                  /\ Key(s.header) \in CheckpointKey
                  /\ s.header.exposure \in Nat /\ s.header.root # None
                  /\ finalized'[Key(s.header)] = s.header.root
                  /\ Cardinality(Witnessed(s)') >= witnesses_required
      <3>1. Witnessed(s)' = Witnessed(s)
        BY DEF Witnessed
      <3>2. CASE s = new
        BY <1>2, <1>4, <2>1, <2>3, <3>1, <3>2
      <3>3. CASE s \in settled
        BY <1>2, <2>1, <2>4, <3>1, <3>3 DEF SettledInv
      <3> QED
        BY <2>2, <3>2, <3>3
    <2>15. \A s, t \in settled' : Key(s.header) = Key(t.header) => s = t
      BY <2>2, <2>3, <2>4 DEF SettledInv
    <2>16. ASSUME NEW j \in CheckpointKey, finalized'[j] # None
           PROVE  \E s \in settled' : Key(s.header) = j /\ s.header.root = finalized'[j]
      <3>1. CASE j = k
        BY <2>1, <2>2, <2>3, <3>1
      <3>2. CASE j # k
        BY <2>1, <2>2, <2>16, <3>2 DEF SettledInv
      <3> QED
        BY <3>1, <3>2
    <2>17. IsFiniteSet(settled')
      BY <2>2, FS_AddElement DEF SettledInv
    <2>18. SettledInv'
      BY <2>13, <2>14, <2>15, <2>16, <2>17 DEF SettledInv, CheckpointKey
    <2> QED
      BY <1>2, <1>3, <1>5, <2>18
  <1> QED
    BY <1>5, <1>6, <1>7

-----------------------------------------------------------------------------
(* The invariant holds in every reachable state.                           *)
THEOREM SettlementInvariant ==
    Spec => []SettlementInv
  <1>1. SettlementInv /\ [Next]_vars => SettlementInv'
    <2> SUFFICES ASSUME SettlementInv, [Next]_vars PROVE SettlementInv'
      OBVIOUS
    <2>1. ASSUME ShardNext, UNCHANGED <<ledgerVars, settled>> PROVE SettlementInv'
      <3>1. ASSUME NEW p \in Pay, NEW n \in Amount, complete_payment_proof(p, n) PROVE SettlementInv'
        BY <2>1, <3>1, CompleteStep
      <3>2. ASSUME NEW e \in Epoch, force_seal(e) \/ maybe_seal(e) PROVE SettlementInv'
        BY <2>1, <3>2, SealStep DEF maybe_seal
      <3>3. ASSUME Restart PROVE SettlementInv'
        BY <2>1, <3>3, RestartStep
      <3> QED
        BY <2>1, <3>1, <3>2, <3>3 DEF ShardNext
    <2>2. ASSUME NEW n \in Allowance, AllocateShardAllowance(n) PROVE SettlementInv'
      BY <2>2, AllocateStep
    <2>3. ASSUME NEW cp \in Presented, NEW sigs \in SigLists(cp), accept(cp, sigs),
                 UNCHANGED <<ledgerVars, settled>>
          PROVE  SettlementInv'
      BY <2>3, AcceptStep
    <2>4. ASSUME NEW cp \in Presented, NEW sigs \in SigLists(cp), SubmitCheckpoint(cp, sigs)
          PROVE  SettlementInv'
      BY <2>4, SubmitStep
    <2>5. CASE UNCHANGED vars
      <3>1. LogInv' /\ BatchInv'
        BY <2>5, ShardKept DEF vars, cpVars, SettlementInv
      <3>2. LedgerInv' /\ KeysInv' /\ SettledInv'
        BY <2>5 DEF SettlementInv, LedgerInv, CheckpointKey, KeysInv, SettledInv, Headers, Witnessed,
                    PaidReceipts, Paid, ByShard, vars, cpVars, shardVars, ledgerVars
      <3> QED
        BY <3>1, <3>2 DEF SettlementInv
    <2> QED
      BY <2>1, <2>2, <2>3, <2>4, <2>5 DEF Next
  <1> QED
    BY <1>1, SettlementInit, PTL DEF Spec

(* With one account and one shard the ledger's sums have one term.         *)
LEMMA OneTerm ==
    ASSUME NEW f, NEW x, f[x] \in Int
    PROVE  SumOf(f, {x}) = f[x]
  <1>1. SumOf(f, {} \cup {x}) = f[x] + SumOf(f, {})
    <2>1. \A y \in {} \cup {x} : f[y] \in Int
      OBVIOUS
    <2> QED
      BY <2>1, FS_EmptySet, SumAdd
  <1>2. {} \cup {x} = {x}
    OBVIOUS
  <1>3. SumOf(f, {x}) = f[x] + 0
    BY <1>1, <1>2, SumEmpty, Zenon
  <1> QED
    BY <1>3

(* The ledger's books balance.                                             *)
LEMMA BooksBalance ==
    LedgerInv => L1!Conservation
  <1> SUFFICES ASSUME LedgerInv PROVE L1!Conservation
    OBVIOUS
  <1>1. /\ available[Account] \in Nat /\ locked[Account] \in Nat /\ stake[Account] = 0
        /\ shard_outstanding[Escrow] \in Nat
    BY DEF LedgerInv, Escrow
  <1>2. L1!available_sum = available[Account]
    <2>1. L1!available_sum = SumOf(available, known)
      BY DEF L1!available_sum, L1!SumOver, L1!MapThenSumSet, L1!MapThenFoldSet, SumOf, Sums, IsSums,
             SumStep, Pick
    <2>2. SumOf(available, {Account}) = available[Account]
      BY <1>1, OneTerm
    <2> QED
      BY <2>1, <2>2, Zenon DEF LedgerInv
  <1>3. L1!shard_outstanding_sum = shard_outstanding[Escrow]
    <2>1. L1!shard_outstanding_sum = SumOf(shard_outstanding, escrows)
      BY DEF L1!shard_outstanding_sum, L1!SumOver, L1!MapThenSumSet, L1!MapThenFoldSet, SumOf, Sums,
             IsSums, SumStep, Pick
    <2>2. CASE Escrow \in escrows
      <3>1. escrows = {Escrow}
        BY <2>2 DEF LedgerInv
      <3>2. SumOf(shard_outstanding, {Escrow}) = shard_outstanding[Escrow]
        BY <1>1, OneTerm
      <3> QED
        BY <2>1, <3>1, <3>2, Zenon
    <2>3. CASE Escrow \notin escrows
      <3>1. escrows = {} /\ shard_outstanding[Escrow] = 0
        BY <2>3 DEF LedgerInv
      <3> QED
        BY <2>1, <3>1, SumEmpty, Zenon
    <2> QED
      BY <2>2, <2>3
  <1>4. L1!SumOver(known, LAMBDA a : locked[a] + stake[a]) = locked[Account]
    <2> DEFINE held == [a \in known |-> locked[a] + stake[a]]
    <2>1. L1!SumOver(known, LAMBDA a : locked[a] + stake[a])
            = MapThenSumSet(LAMBDA a : locked[a] + stake[a], known)
      BY DEF L1!SumOver, L1!MapThenSumSet, L1!MapThenFoldSet, MapThenSumSet, MapThenFoldSet
    <2>2. MapThenSumSet(LAMBDA a : locked[a] + stake[a], known) = SumOf(held, known)
      BY PairFold
    <2>3. held[Account] = locked[Account] /\ known = {Account}
      BY <1>1 DEF LedgerInv
    <2> HIDE DEF held
    <2>4. SumOf(held, {Account}) = held[Account]
      <3>1. PICK h : h = held
        OBVIOUS
      <3>2. h[Account] \in Int
        BY <1>1, <2>3, <3>1
      <3>3. SumOf(h, {Account}) = h[Account]
        BY <3>2, OneTerm
      <3> QED
        BY <3>1, <3>3, Zenon
    <2> QED
      BY <2>1, <2>2, <2>3, <2>4, Zenon
  <1>5. L1!SumOver(L1!OpenDisputes, LAMBDA d : disputes[d].bond) = 0
    <2> DEFINE none == [d \in {} |-> 0]
               Is(g) == g = [t \in SUBSET L1!OpenDisputes |->
                               IF t = {} THEN 0
                               ELSE disputes[CHOOSE d \in t : TRUE].bond
                                    + g[t \ {CHOOSE d \in t : TRUE}]]
    <2>1. L1!OpenDisputes = {}
      BY DEF L1!OpenDisputes
    <2>2. ASSUME NEW g PROVE Is(g) <=> IsSums(none, L1!OpenDisputes, g)
      <3>1. \A t \in SUBSET L1!OpenDisputes : t = {}
        BY <2>1
      <3> QED
        BY <3>1 DEF IsSums, SumStep
    <2>3. L1!SumOver(L1!OpenDisputes, LAMBDA d : disputes[d].bond) = (CHOOSE g : Is(g))[L1!OpenDisputes]
      BY DEF L1!SumOver, L1!MapThenSumSet, L1!MapThenFoldSet
    <2>4. (CHOOSE g : Is(g)) = (CHOOSE g : IsSums(none, L1!OpenDisputes, g))
      <3> HIDE DEF Is, none
      <3> QED
        BY <2>2, Zenon
    <2>5. L1!SumOver(L1!OpenDisputes, LAMBDA d : disputes[d].bond) = SumOf(none, L1!OpenDisputes)
      BY <2>3, <2>4 DEF SumOf, Sums
    <2> QED
      BY <2>1, <2>5, SumEmpty, Zenon
  <1>6. L1!locked_sum = locked[Account] + 0
    BY <1>4, <1>5, Zenon DEF L1!locked_sum
  <1> QED
    BY <1>1, <1>2, <1>3, <1>6 DEF L1!Conservation, LedgerInv

(* The shard's log, the sealed headers, the WitnessSet and the ledger keep *)
(* their shape, and the ledger's books balance.                            *)
THEOREM SettlementTypeOK ==
    Spec => []TypeOK
  <1>1. SettlementInv => TypeOK
    <2> SUFFICES ASSUME SettlementInv PROVE TypeOK
      OBVIOUS
    <2> USE DEF SettlementInv
    <2>1. ToSet(log) \subseteq served
      BY ElementsFacts DEF LogInv
    <2>2. exposure \in Nat
      <3>1. ToSet(log) \in SUBSET Receipt /\ IsFiniteSet(ToSet(log)) /\ exposure = Total(ToSet(log))
        BY <2>1, FS_Subset DEF LogInv
      <3> QED
        BY <3>1, TotalNat
    <2>3. next_height \in 1..MaxServed + 1
      <3>1. Cardinality(served) \in Nat /\ Len(log) \in Nat /\ MaxServed \in Nat
        BY FS_CardinalityType, CheckpointAssumption DEF LogInv
      <3> QED
        BY <3>1 DEF LogInv
    <2>4. ASSUME NEW c \in sealed PROVE c.header.tx_count \in 1..MaxServed /\ c.header.exposure \in Nat
      <3>1. c.batch \in Seq(served) /\ c.batch # <<>> /\ Len(c.batch) <= MaxServed
            /\ c.header.tx_count = Len(c.batch)
        BY DEF BatchInv, HeaderInv
      <3>2. Len(c.batch) \in 1..MaxServed
        BY <3>1, CheckpointAssumption
      <3> QED
        BY <3>1, <3>2, HeaderFacts
    <2>5. \A h \in Headers : h.tx_count \in 1..MaxServed /\ h.exposure \in Nat
      BY <2>4 DEF Headers
    <2> QED
      BY <2>1, <2>2, <2>3, <2>5, BooksBalance DEF TypeOK, KeysInv
  <1> QED
    BY <1>1, SettlementInvariant, PTL

(* A receipt is in the log or in one sealed batch, never in two, and only  *)
(* a restart loses it (append, force_seal, clear_sealed).                  *)
THEOREM ReceiptInOneBatch ==
    Spec => []EachReceiptInOneBatch
  <1>1. SettlementInv => EachReceiptInOneBatch
    <2> SUFFICES ASSUME SettlementInv, NEW r \in served
                 PROVE  LET places == Cardinality({c \in sealed : r \in ToSet(c.batch)})
                                        + (IF r \in ToSet(log) THEN 1 ELSE 0)
                        IN  places = 1 \/ (restarts > 0 /\ places = 0)
      BY DEF EachReceiptInOneBatch
    <2> USE DEF SettlementInv
    <2>1. PICK B : B = {c \in sealed : r \in ToSet(c.batch)}
      OBVIOUS
    <2>2. \A c, d \in B : c = d
      BY <2>1 DEF BatchInv
    <2>3. B # {} => r \notin ToSet(log)
      BY <2>1 DEF BatchInv
    <2>4. B = {} => restarts > 0 \/ r \in ToSet(log)
      BY <2>1 DEF BatchInv, LogInv
    <2>5. CASE B = {}
      <3>1. Cardinality(B) = 0
        BY <2>5, FS_EmptySet
      <3> QED
        BY <2>1, <2>4, <2>5, <3>1
    <2>6. CASE B # {}
      <3>1. PICK c : B = {c}
        BY <2>2, <2>6
      <3>2. Cardinality(B) = 1
        BY <3>1, FS_Singleton
      <3> QED
        BY <2>1, <2>3, <2>6, <3>2
    <2> QED
      BY <2>5, <2>6
  <1> QED
    BY <1>1, SettlementInvariant, PTL

(* What the ledger moved out of the escrow is what services billed in the  *)
(* finalized batches that the shard signed, each receipt once, and what    *)
(* finalized checkpoints with another key carry (append, force_seal,       *)
(* apply_checkpoint).                                                      *)
THEOREM SettledIsBilledHolds ==
    Spec => []SettledIsBilled
  <1>1. SettlementInv => SettledIsBilled
    <2> SUFFICES ASSUME SettlementInv PROVE SettledIsBilled
      OBVIOUS
    <2> USE DEF SettlementInv
    <2>1. \A c \in sealed : Batch(c.header) = ToSet(c.batch)
      <3> SUFFICES ASSUME NEW c \in sealed PROVE Batch(c.header) = ToSet(c.batch)
        OBVIOUS
      <3>1. \A d \in sealed : d.header = c.header => d = c
        BY DEF BatchInv
      <3>2. (CHOOSE d \in sealed : d.header = c.header) = c
        BY <3>1
      <3> QED
        BY <3>2 DEF Batch
    <2>2. UNION {Batch(s.header) : s \in ByShard} = PaidReceipts
      <3>1. ASSUME NEW s \in ByShard PROVE \E c \in Paid : s.header = c.header /\ Batch(s.header) = ToSet(c.batch)
        <4>1. PICK c \in sealed : s.header = c.header
          BY DEF SettledInv, Headers, ByShard
        <4> QED
          BY <2>1, <4>1 DEF Paid
      <3>2. ASSUME NEW c \in Paid PROVE \E s \in ByShard : Batch(s.header) = ToSet(c.batch)
        BY <2>1 DEF Paid
      <3>3. UNION {Batch(s.header) : s \in ByShard} \subseteq PaidReceipts
        BY <3>1 DEF PaidReceipts
      <3>4. PaidReceipts \subseteq UNION {Batch(s.header) : s \in ByShard}
        BY <3>2 DEF PaidReceipts
      <3> QED
        BY <3>3, <3>4
    <2>3. locked[Account] = Total(UNION {Batch(s.header) : s \in ByShard}) + Carried(settled \ ByShard)
      BY <2>2, Zenon DEF SettledInv
    <2>4. DOMAIN finalized = CheckpointKey
      BY DEF LedgerInv
    <2> QED
      BY <2>3, <2>4 DEF SettledIsBilled, SettledInv
  <1> QED
    BY <1>1, SettlementInvariant, PTL

(* Behind a finalized checkpoint stand enough witnesses that signed this   *)
(* very header (verify_witnessed).                                         *)
THEOREM FinalizedWasWitnessed ==
    Spec => []FinalizedIsWitnessed
  <1>1. SettlementInv => FinalizedIsWitnessed
    BY DEF SettlementInv, SettledInv, Witnessed, FinalizedIsWitnessed
  <1> QED
    BY <1>1, SettlementInvariant, PTL

(* A signed root stands for one batch, in trees of every size              *)
(* (merkle_root, CheckpointHeader).                                        *)
THEOREM RootStandsForBatch ==
    Spec => []RootCommitsToBatch
  <1>1. SettlementInv => RootCommitsToBatch
    <2> SUFFICES ASSUME SettlementInv, NEW c \in sealed, NEW d \in sealed,
                        c.header.root = d.header.root, c.header.tx_count = d.header.tx_count
                 PROVE  leaves(c.batch) = leaves(d.batch)
      BY DEF RootCommitsToBatch
    <2> USE DEF SettlementInv
    <2>1. \A x \in sealed :
             /\ x.batch \in Seq(Receipt) /\ x.batch # <<>> /\ Len(x.batch) <= MaxServed
             /\ x.header.root = merkle_root(leaves(x.batch)) /\ x.header.tx_count = Len(x.batch)
      BY HeaderFacts DEF BatchInv, HeaderInv
    <2>2. PICK N : N = Len(c.batch)
      OBVIOUS
    <2>3. N \in Nat \ {0} /\ N = Len(d.batch)
      BY <2>1, <2>2
    <2>4. IsList(leaves(c.batch), N) /\ IsList(leaves(d.batch), N)
      BY <2>1, <2>2, <2>3, LeavesFacts
    <2>5. merkle_root(leaves(c.batch)) = merkle_root(leaves(d.batch))
      BY <2>1
    <2> QED
      BY <2>3, <2>4, <2>5, RootFixesLeaves
  <1> QED
    BY <1>1, SettlementInvariant, PTL

(* What the ledger or a WitnessSet has accepted is never replaced, however *)
(* often the shard seals its heights again (apply_checkpoint, accept).     *)
THEOREM HistoryStands ==
    Spec => HistoryNotRewritten
  <1> DEFINE Kept == /\ \A k \in DOMAIN finalized : finalized[k] # None => finalized'[k] = finalized[k]
                     /\ \A k \in DOMAIN by_key : by_key'[k] = by_key[k]
  <1>1. SettlementInv /\ [Next]_vars => [Kept]_vars
    <2> SUFFICES ASSUME SettlementInv, [Next]_vars PROVE Kept
      OBVIOUS
    <2> USE DEF SettlementInv
    <2>1. CASE finalized' = finalized /\ by_key' = by_key
      BY <2>1
    <2>2. ASSUME ShardNext, UNCHANGED <<ledgerVars, settled>> PROVE Kept
      <3>1. by_key' = by_key
        BY <2>2 DEF ShardNext, complete_payment_proof, force_seal, maybe_seal, Restart
      <3> QED
        BY <2>1, <2>2, <3>1 DEF ledgerVars
    <2>3. ASSUME NEW n \in Allowance, AllocateShardAllowance(n) PROVE Kept
      BY <2>1, <2>3, AllocateMoves DEF AllocateShardAllowance, cpVars
    <2>4. ASSUME NEW cp, NEW sigs, accept(cp, sigs), UNCHANGED <<ledgerVars, settled>> PROVE Kept
      <3>1. \A k \in DOMAIN by_key : k # Key(cp.header) /\ by_key'[k] = by_key[k]
        BY <2>4 DEF accept
      <3> QED
        BY <2>4, <3>1 DEF ledgerVars
    <2>5. ASSUME NEW cp \in Presented, NEW sigs, SubmitCheckpoint(cp, sigs) PROVE Kept
      <3>1. by_key' = by_key
        BY <2>5 DEF SubmitCheckpoint, cpVars
      <3>2. \/ finalized' = finalized
            \/ /\ finalized[Key(cp.header)] = None
               /\ finalized' = [finalized EXCEPT ![Key(cp.header)] = cp.header.root]
        BY <2>5, PresentedFacts, SubmitMoves
      <3> QED
        BY <2>1, <3>1, <3>2
    <2>6. CASE UNCHANGED vars
      BY <2>1, <2>6 DEF vars, cpVars, ledgerVars
    <2> QED
      BY <2>2, <2>3, <2>4, <2>5, <2>6 DEF Next
  <1> QED
    BY <1>1, SettlementInvariant, PTL DEF Spec, HistoryNotRewritten

(* Every receipt of a batch has a proof that verifies against the root the *)
(* shard signs, in trees of every size (merkle_proof, verify_merkle_proof).*)
THEOREM InclusionIsProvable ==
    Spec => InclusionProvable
  <1> DEFINE Trees == \A n \in 1..MaxLeaves :
                         LET ls == [i \in 1..n |-> [leaf |-> i]] IN Provable(ls, merkle_root(ls))
             Sealed == \A c \in sealed' \ sealed : Provable(leaves(c.batch), c.header.root)
  <1>1. ASSUME NEW ls, NEW N \in Nat \ {0}, IsList(ls, N) PROVE Provable(ls, merkle_root(ls))
    <2>1. Len(ls) = N
      BY <1>1, ListLen
    <2>2. ASSUME NEW i \in 1..N
          PROVE  verify_merkle_proof(ls[i], merkle_proof(ls, i - 1), merkle_root(ls))
      <3>1. PICK j : j = i - 1
        OBVIOUS
      <3>2. j \in 0..(N - 1) /\ j + 1 = i
        BY <3>1
      <3>3. verify_merkle_proof(ls[j + 1], merkle_proof(ls, j), merkle_root(ls))
        BY <1>1, <3>2, EveryLeafProvable
      <3> QED
        BY <3>1, <3>2, <3>3, Zenon
    <2> QED
      BY <2>1, <2>2 DEF Provable
  <1>2. Trees
    <2> SUFFICES ASSUME NEW n \in 1..MaxLeaves
                 PROVE  Provable([i \in 1..n |-> [leaf |-> i]], merkle_root([i \in 1..n |-> [leaf |-> i]]))
      OBVIOUS
    <2>1. PICK ls : ls = [i \in 1..n |-> [leaf |-> i]]
      OBVIOUS
    <2>2. n \in Nat \ {0}
      BY SettlementAssumption
    <2>3. IsList(ls, n)
      BY <2>1, <2>2 DEF IsList
    <2> QED
      BY <1>1, <2>1, <2>2, <2>3
  <1>3. SettlementInv' => [Sealed]_vars
    <2> SUFFICES ASSUME SettlementInv', NEW c \in sealed'
                 PROVE  Provable(leaves(c.batch), c.header.root)
      OBVIOUS
    <2>1. /\ HeaderInv(c)' /\ served' \subseteq Receipt
      BY DEF SettlementInv, BatchInv, LogInv
    <2>2. /\ c.batch \in Seq(Receipt) /\ c.batch # <<>> /\ Len(c.batch) <= MaxServed
          /\ c.header.root = merkle_root(leaves(c.batch))
      BY <2>1 DEF HeaderInv
    <2>3. Len(c.batch) \in Nat \ {0} /\ IsList(leaves(c.batch), Len(c.batch))
      BY <2>2, LeavesFacts
    <2>4. Provable(leaves(c.batch), merkle_root(leaves(c.batch)))
      BY <1>1, <2>3
    <2> QED
      BY <2>2, <2>4
  <1> QED
    BY <1>2, <1>3, SettlementInvariant, PTL DEF InclusionProvable
=============================================================================
