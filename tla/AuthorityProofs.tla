-------------------------- MODULE AuthorityProofs --------------------------
(***************************************************************************)
(* Proofs about Authority, for any accounts, agents, shards, epochs,       *)
(* amounts and attestations.                                               *)
(***************************************************************************)
EXTENDS Authority, SumTheorems

(* Every number that is on a capability is used up, and no account was     *)
(* funded later than now.                                                  *)
CounterInv ==
    /\ IsFiniteSet(DOMAIN outstanding)
    /\ \A c \in DOMAIN outstanding : c[5] < next_cap_counter
    /\ \A a \in AccountId : funded_at[a] <= next_cap_counter

(* The shares of an account, and what FloatPartitioned adds up, as sums of *)
(* functions.                                                              *)
Shares(a) == [s \in ShardId |-> Share(a, s)]
Allocated(a) == SumOf(Shares(a), ShardId)
IssuedOf(a) == SumOf(outstanding, IssuedSince(a))
Partitioned(a) ==
    floats[a] # None => floats[a].reserve + Allocated(a) + IssuedOf(a) <= floats[a].total

AuthorityInv ==
    /\ TypeOK /\ CounterInv
    /\ \A a \in AccountId : Partitioned(a)
    /\ IssuedToApprovedOnly

-----------------------------------------------------------------------------
(* The shares that FloatPartitioned adds up are those of Shares.           *)
LEMMA ShareFold ==
    ASSUME NEW a
    PROVE  MapThenSumSet(LAMBDA s : Share(a, s), ShardId) = Allocated(a)
  <1> DEFINE f == Shares(a)
             Is(g) == g = [t \in SUBSET ShardId |->
                             IF t = {} THEN 0
                             ELSE Share(a, CHOOSE s \in t : TRUE) + g[t \ {CHOOSE s \in t : TRUE}]]
  <1>1. \A t \in SUBSET ShardId : t # {} => f[Pick(t)] = Share(a, Pick(t))
    BY PickIn DEF Shares
  <1>2. ASSUME NEW g PROVE Is(g) <=> IsSums(f, ShardId, g)
    <2>1. \A t \in SUBSET ShardId :
             SumStep(f, g, t) = IF t = {} THEN 0
                                ELSE Share(a, CHOOSE s \in t : TRUE)
                                     + g[t \ {CHOOSE s \in t : TRUE}]
      <3> HIDE DEF f
      <3> QED
        BY <1>1 DEF SumStep, Pick
    <2> HIDE DEF f
    <2> QED
      BY <2>1 DEF IsSums
  <1>3. MapThenSumSet(LAMBDA s : Share(a, s), ShardId) = (CHOOSE g : Is(g))[ShardId]
    BY DEF MapThenSumSet, MapThenFoldSet
  <1>4. (CHOOSE g : Is(g)) = (CHOOSE g : IsSums(f, ShardId, g))
    <2> HIDE DEF Is, f
    <2> QED
      BY <1>2, Zenon
  <1> QED
    BY <1>3, <1>4 DEF Allocated, SumOf, Sums

(* FloatPartitioned says that every account is partitioned.                *)
LEMMA PartitionedAll == FloatPartitioned <=> \A a \in AccountId : Partitioned(a)
  <1>1. ASSUME NEW a PROVE MapThenSumSet(LAMBDA c : outstanding[c], IssuedSince(a)) = IssuedOf(a)
    BY SumIsFold DEF IssuedOf
  <1> QED
    BY <1>1, ShareFold DEF FloatPartitioned, Partitioned

(* Shares and issued amounts are natural numbers, and so are their sums.   *)
LEMMA Amounts ==
    ASSUME TypeOK, CounterInv, NEW a \in AccountId, floats[a] # None
    PROVE  /\ floats[a] \in AccountFloat
           /\ \A s \in ShardId : Shares(a)[s] \in Nat /\ Shares(a)[s] = Share(a, s)
           /\ Allocated(a) \in Nat /\ IssuedOf(a) \in Nat
           /\ IsFiniteSet(IssuedSince(a))
           /\ floats[a].reserve \in Nat /\ floats[a].total \in Nat
  <1>1. floats[a] \in AccountFloat
    BY DEF TypeOK
  <1>2. \A s \in ShardId : Shares(a)[s] \in Nat /\ Shares(a)[s] = Share(a, s)
    BY <1>1 DEF Shares, Share, AccountFloat
  <1>3. Allocated(a) \in Nat
    BY <1>2, SumNat, AuthorityAssumption DEF Allocated
  <1>4. IsFiniteSet(IssuedSince(a)) /\ IssuedSince(a) \subseteq DOMAIN outstanding
    BY FS_Subset DEF CounterInv, IssuedSince
  <1>5. IssuedOf(a) \in Nat
    BY <1>4, SumNat DEF TypeOK, IssuedOf
  <1> QED
    BY <1>1, <1>2, <1>3, <1>4, <1>5 DEF AccountFloat

(* An account whose float, issued capabilities and funding time stay is    *)
(* partitioned as before.                                                  *)
LEMMA PartitionedKept ==
    ASSUME TypeOK, CounterInv, NEW a \in AccountId, Partitioned(a),
           floats'[a] = floats[a], IssuedSince(a)' = IssuedSince(a),
           \A c \in IssuedSince(a) : outstanding'[c] = outstanding[c]
    PROVE  Partitioned(a)'
  <1>1. Shares(a)' = Shares(a)
    BY DEF Shares, Share
  <1>2. IsFiniteSet(IssuedSince(a))
    BY FS_Subset DEF CounterInv, IssuedSince
  <1>3. SumOf(outstanding', IssuedSince(a)) = SumOf(outstanding, IssuedSince(a))
    BY <1>2, SumEqual
  <1>4. IssuedOf(a)' = IssuedOf(a)
    BY <1>3 DEF IssuedOf
  <1>5. Allocated(a)' = Allocated(a)
    BY <1>1 DEF Allocated
  <1> QED
    BY <1>4, <1>5 DEF Partitioned

(* Nothing is funded or issued at the start.                               *)
LEMMA AuthorityInit == Init => AuthorityInv
  <1> SUFFICES ASSUME Init PROVE AuthorityInv
    OBVIOUS
  <1> USE AuthorityAssumption DEF Init
  <1>1. TypeOK
    BY DEF TypeOK
  <1>2. CounterInv
    BY FS_EmptySet DEF CounterInv
  <1>3. \A a \in AccountId : Partitioned(a)
    BY DEF Partitioned
  <1>4. IssuedToApprovedOnly
    BY DEF IssuedToApprovedOnly
  <1> QED
    BY <1>1, <1>2, <1>3, <1>4 DEF AuthorityInv

(* fund: the whole float is in reserve, and everything issued is older.    *)
LEMMA FundStep ==
    ASSUME AuthorityInv, NEW a \in AccountId, NEW total \in Amount, fund(a, total)
    PROVE  AuthorityInv'
  <1> DEFINE fresh == [total |-> total, reserve |-> total,
                       shard_allowances |-> [s \in ShardId |-> None]]
  <1>0. /\ TypeOK /\ CounterInv /\ IssuedToApprovedOnly /\ \A b \in AccountId : Partitioned(b)
    BY DEF AuthorityInv
  <1>1. /\ floats' = [floats EXCEPT ![a] = fresh]
        /\ funded_at' = [funded_at EXCEPT ![a] = next_cap_counter]
        /\ UNCHANGED <<outstanding, fenced_epochs, next_cap_counter, grounds>>
    BY DEF fund
  <1>2. fresh \in AccountFloat /\ total \in Nat /\ fresh # None
    BY AuthorityAssumption DEF AccountFloat
  <1>3. /\ fresh.reserve = total /\ fresh.total = total
        /\ \A s \in ShardId : fresh.shard_allowances[s] = None
    OBVIOUS
  <1> HIDE DEF fresh
  <1>4. TypeOK'
    BY <1>0, <1>1, <1>2 DEF TypeOK
  <1>5. \A b \in AccountId : /\ floats'[b] = IF b = a THEN fresh ELSE floats[b]
                             /\ funded_at'[b] = IF b = a THEN next_cap_counter ELSE funded_at[b]
    BY <1>0, <1>1 DEF TypeOK
  <1>6. CounterInv'
    BY <1>0, <1>1, <1>5 DEF CounterInv, TypeOK
  <1>7. ASSUME NEW b \in AccountId PROVE Partitioned(b)'
    <2>1. CASE b # a
      <3>1. IssuedSince(b)' = IssuedSince(b)
        BY <1>1, <1>5, <2>1 DEF IssuedSince
      <3> QED
        BY <1>0, <1>1, <1>5, <2>1, <3>1, PartitionedKept
    <2>2. CASE b = a
      <3>1. IssuedSince(a)' = {}
        <4>1. \A c \in DOMAIN outstanding : c[5] \in Nat /\ c[5] < next_cap_counter
          BY <1>0 DEF TypeOK, CounterInv, CapabilityId
        <4>2. next_cap_counter \in Nat
          BY <1>0 DEF TypeOK
        <4> QED
          BY <1>1, <1>5, <4>1, <4>2 DEF IssuedSince
      <3>2. IssuedOf(a)' = 0
        BY <3>1, SumEmpty DEF IssuedOf
      <3>3. \A s \in ShardId : Shares(a)'[s] = 0
        BY <1>3, <1>5 DEF Shares, Share
      <3>4. Allocated(a)' = 0
        <4>1. PICK h : h = Shares(a)'
          OBVIOUS
        <4>2. SumOf(h, ShardId) = 0
          BY <3>3, <4>1, SumZero, AuthorityAssumption
        <4> QED
          BY <4>1, <4>2 DEF Allocated
      <3> QED
        BY <1>2, <1>3, <1>5, <2>2, <3>2, <3>4 DEF Partitioned
    <2> QED
      BY <2>1, <2>2
  <1>8. IssuedToApprovedOnly'
    BY <1>0, <1>1 DEF IssuedToApprovedOnly
  <1> QED
    BY <1>4, <1>6, <1>7, <1>8 DEF AuthorityInv

(* A share that changes by n: the sum of the shares changes by n.          *)
LEMMA AllocatedShift ==
    ASSUME TypeOK, CounterInv, NEW a \in AccountId, floats[a] # None, floats'[a] \in AccountFloat,
           NEW s \in ShardId, NEW n \in Int, Share(a, s)' = Share(a, s) + n,
           \A t \in ShardId \ {s} :
              floats'[a].shard_allowances[t] = floats[a].shard_allowances[t]
    PROVE  Allocated(a)' = Allocated(a) + n
  <1>1. PICK h : h = Shares(a)'
    OBVIOUS
  <1>2. \A t \in ShardId : Shares(a)[t] \in Int
    BY Amounts
  <1>3. h[s] = Shares(a)[s] + n
    BY <1>1 DEF Shares
  <1>4. \A t \in ShardId \ {s} : h[t] = Shares(a)[t]
    BY <1>1 DEF Shares, Share
  <1>5. SumOf(h, ShardId) = SumOf(Shares(a), ShardId) + n
    BY <1>2, <1>3, <1>4, SumShift, AuthorityAssumption
  <1> QED
    BY <1>1, <1>5 DEF Allocated

(* allocate: what leaves the reserve goes to one share.                    *)
LEMMA AllocateStep ==
    ASSUME AuthorityInv, NEW a \in AccountId, NEW s \in ShardId, NEW amount \in Amount,
           allocate(a, s, amount)
    PROVE  AuthorityInv'
  <1>0. /\ TypeOK /\ CounterInv /\ IssuedToApprovedOnly /\ \A b \in AccountId : Partitioned(b)
    BY DEF AuthorityInv
  <1>1. /\ floats[a] # None /\ amount <= floats[a].reserve
        /\ UNCHANGED <<outstanding, fenced_epochs, next_cap_counter, funded_at, grounds>>
    BY DEF allocate
  <1>2. /\ floats[a] \in AccountFloat /\ floats[a].reserve \in Nat /\ amount \in Nat
        /\ Share(a, s) \in Nat
        /\ floats[a].shard_allowances \in [ShardId -> Nat \cup {None}] /\ floats[a].total \in Nat
    BY <1>0, <1>1, Amounts, AuthorityAssumption DEF AccountFloat
  <1>3. PICK x : x = [total |-> floats[a].total, reserve |-> floats[a].reserve - amount,
                      shard_allowances |->
                         [floats[a].shard_allowances EXCEPT ![s] = Share(a, s) + amount]]
    OBVIOUS
  <1>4. floats' = [floats EXCEPT ![a] = x]
    <2>1. floats \in [AccountId -> AccountFloat \cup {None}]
      BY <1>0 DEF TypeOK
    <2>2. PICK y : y = [floats[a] EXCEPT !.reserve = floats[a].reserve - amount]
      OBVIOUS
    <2>3. /\ y.shard_allowances = floats[a].shard_allowances
          /\ [y EXCEPT !.shard_allowances =
                          [y.shard_allowances EXCEPT ![s] = Share(a, s) + amount]] = x
      <3>1. y = [total |-> floats[a].total, reserve |-> floats[a].reserve - amount,
                 shard_allowances |-> floats[a].shard_allowances]
        BY <1>2, <2>2 DEF AccountFloat
      <3>2. PICK h : h = [floats[a].shard_allowances EXCEPT ![s] = Share(a, s) + amount]
        OBVIOUS
      <3>3. [y EXCEPT !.shard_allowances = h] = x
        BY <1>3, <3>1, <3>2
      <3> QED
        BY <3>1, <3>2, <3>3
    <2>4. PICK g : g = [floats EXCEPT ![a] = y]
      OBVIOUS
    <2>5. g[a] = y /\ [g EXCEPT ![a] = x] = [floats EXCEPT ![a] = x]
      BY <2>1, <2>4
    <2>6. floats' = [g EXCEPT ![a] = [g[a] EXCEPT !.shard_allowances =
                        [g[a].shard_allowances EXCEPT ![s] = Share(a, s) + amount]]]
      BY <2>2, <2>4 DEF allocate
    <2> QED
      BY <2>3, <2>5, <2>6
  <1>5. /\ x \in AccountFloat /\ x # None /\ x.total = floats[a].total
        /\ x.reserve = floats[a].reserve - amount
        /\ x.shard_allowances[s] = Share(a, s) + amount
        /\ \A t \in ShardId \ {s} : x.shard_allowances[t] = floats[a].shard_allowances[t]
    BY <1>1, <1>2, <1>3, AuthorityAssumption DEF AccountFloat
  <1>6. \A b \in AccountId : floats'[b] = IF b = a THEN x ELSE floats[b]
    BY <1>0, <1>4 DEF TypeOK
  <1>7. TypeOK'
    BY <1>0, <1>1, <1>4, <1>5 DEF TypeOK
  <1>8. CounterInv'
    BY <1>0, <1>1 DEF CounterInv
  <1>9. \A b \in AccountId : IssuedSince(b)' = IssuedSince(b)
    BY <1>1 DEF IssuedSince
  <1>10. ASSUME NEW b \in AccountId PROVE Partitioned(b)'
    <2>1. CASE b # a
      BY <1>0, <1>1, <1>6, <1>9, <2>1, PartitionedKept
    <2>2. CASE b = a
      <3>1. Share(a, s)' = Share(a, s) + amount
        <4>1. x.shard_allowances[s] # None
          BY <1>2, <1>5, AuthorityAssumption
        <4> QED
          BY <1>5, <1>6, <4>1 DEF Share
      <3>2. Allocated(a)' = Allocated(a) + amount
        BY <1>0, <1>1, <1>2, <1>5, <1>6, <3>1, AllocatedShift
      <3>3. IssuedOf(a)' = IssuedOf(a)
        BY <1>1, <1>9 DEF IssuedOf
      <3>4. Allocated(a) \in Nat /\ IssuedOf(a) \in Nat
        BY <1>0, <1>1, Amounts
      <3>5. floats[a].reserve + Allocated(a) + IssuedOf(a) <= floats[a].total
        BY <1>0, <1>1 DEF Partitioned
      <3>6. (floats[a].reserve - amount) + (Allocated(a) + amount) + IssuedOf(a) <= floats[a].total
        BY <1>2, <3>4, <3>5
      <3> QED
        BY <1>5, <1>6, <2>2, <3>2, <3>3, <3>6 DEF Partitioned
    <2> QED
      BY <2>1, <2>2
  <1>11. IssuedToApprovedOnly'
    BY <1>0, <1>1 DEF IssuedToApprovedOnly
  <1> QED
    BY <1>7, <1>8, <1>10, <1>11 DEF AuthorityInv

(* What a signature that verify_evidence accepts was made for is what the  *)
(* policy approves.                                                        *)
LEMMA EvidenceApproved ==
    ASSUME NEW ev \in Evidence, verify_evidence(ev)
    PROVE  \A sig \in ev.platform_signature : Approved(sig.saw)
  <1>1. PICK sig \in ev.platform_signature :
           sig.key = ev.platform_pubkey /\ sig.body = evidence_bytes(ev)
    BY DEF verify_evidence
  <1>2. PICK m : m = sig.saw
    OBVIOUS
  <1>3. /\ m = Measured(m.binary_hash, m.config_hash, m.version, m.hardware_id)
        /\ ev.platform_signature = sign_evidence(sig.key, m).platform_signature
    BY <1>1, <1>2, AuthorityAssumption DEF SignedByPlatform
  <1>4. PICK e : e = [m EXCEPT !.platform_pubkey = sig.key]
    OBVIOUS
  <1>5. /\ e.binary_hash = m.binary_hash /\ e.config_hash = m.config_hash
        /\ e.version = m.version /\ e.hardware_id = m.hardware_id
        /\ DOMAIN e = {"binary_hash", "config_hash", "version", "hardware_id",
                       "platform_pubkey", "platform_signature"}
    BY <1>3, <1>4 DEF Measured
  <1>6. sign_evidence(sig.key, m).platform_signature
          = {[key |-> sig.key, body |-> evidence_bytes(e), saw |-> m]}
    <2>1. PICK g : g = {[key |-> sig.key, body |-> evidence_bytes(e), saw |-> m]}
      OBVIOUS
    <2>2. sign_evidence(sig.key, m) = [e EXCEPT !.platform_signature = g]
      BY <1>4, <2>1 DEF sign_evidence
    <2> QED
      BY <1>5, <2>1, <2>2
  <1>7. sig = [key |-> sig.key, body |-> evidence_bytes(e), saw |-> m]
        /\ \A other \in ev.platform_signature : other = sig
    BY <1>1, <1>3, <1>6
  <1>8. evidence_bytes(e) = evidence_bytes(ev)
    BY <1>1, <1>7
  <1>9. /\ m.binary_hash = ev.binary_hash /\ m.config_hash = ev.config_hash
        /\ m.version = ev.version /\ m.hardware_id = ev.hardware_id
    BY <1>5, <1>8 DEF evidence_bytes
  <1>10. Approved(m)
    BY <1>9 DEF verify_evidence, Approved
  <1> QED
    BY <1>2, <1>7, <1>10

(* The identifier of the next capability is a new one.                     *)
LEMMA NewIdentifier ==
    ASSUME TypeOK, CounterInv, NEW req \in IssueRequest
    PROVE  /\ capability_id(req) \in CapabilityId /\ capability_id(req) \notin DOMAIN outstanding
           /\ capability_id(req)[1] = req.account_id /\ capability_id(req)[5] = next_cap_counter
           /\ req.account_id \in AccountId /\ req.shard_id \in ShardId
           /\ req.maximum_total \in Amount /\ req.maximum_total \in Nat
  <1>1. /\ req.account_id \in AccountId /\ req.agent_id \in AgentId /\ req.shard_id \in ShardId
        /\ req.epoch \in Epoch /\ req.maximum_total \in Amount
    BY DEF IssueRequest
  <1>2. req.maximum_total \in Nat
    BY <1>1, AuthorityAssumption
  <1>3. next_cap_counter \in Nat
    BY DEF TypeOK
  <1>4. capability_id(req) \in CapabilityId /\ capability_id(req)[1] = req.account_id
        /\ capability_id(req)[5] = next_cap_counter
    BY <1>1, <1>3 DEF capability_id, CapabilityId
  <1>5. capability_id(req) \notin DOMAIN outstanding
    BY <1>3, <1>4 DEF CounterInv
  <1> QED
    BY <1>1, <1>2, <1>4, <1>5

(* issue_capability: what a share loses is at most what is then signed.    *)
LEMMA IssueStep ==
    ASSUME AuthorityInv, NEW req \in IssueRequest, NEW ev \in Evidence, NEW sealed \in BOOLEAN,
           issue_capability(req, ev, sealed)
    PROVE  AuthorityInv'
  <1>0. /\ TypeOK /\ CounterInv /\ IssuedToApprovedOnly /\ \A b \in AccountId : Partitioned(b)
    BY DEF AuthorityInv
  <1>1. PICK a, s, n, id : /\ a = req.account_id /\ s = req.shard_id /\ n = req.maximum_total
                           /\ id = capability_id(req)
    OBVIOUS
  <1>2. /\ a \in AccountId /\ s \in ShardId /\ n \in Nat
        /\ id \in CapabilityId /\ id \notin DOMAIN outstanding
        /\ id[1] = a /\ id[5] = next_cap_counter
    BY <1>0, <1>1, NewIdentifier
  <1>3. /\ verify_evidence(ev) /\ floats[a] # None /\ floats[a].shard_allowances[s] # None
        /\ n <= floats[a].shard_allowances[s]
        /\ floats' = [floats EXCEPT ![a].shard_allowances[s] = @ - n]
        /\ next_cap_counter' = next_cap_counter + 1
        /\ outstanding' = IF sealed THEN WithCapability(outstanding, id, n) ELSE outstanding
        /\ grounds' = IF sealed THEN grounds \cup {sig.saw : sig \in ev.platform_signature}
                      ELSE grounds
        /\ UNCHANGED <<fenced_epochs, funded_at>>
    BY <1>1 DEF issue_capability, CanIssue, Debit
  <1>4. /\ floats[a] \in AccountFloat /\ floats[a].reserve \in Nat /\ floats[a].total \in Nat
        /\ floats[a].shard_allowances \in [ShardId -> Nat \cup {None}]
        /\ floats[a].shard_allowances[s] \in Nat
        /\ Share(a, s) = floats[a].shard_allowances[s]
    BY <1>0, <1>2, <1>3, Amounts DEF AccountFloat, Share
  <1>5. PICK x : x = [total |-> floats[a].total, reserve |-> floats[a].reserve,
                      shard_allowances |->
                         [floats[a].shard_allowances EXCEPT ![s] = floats[a].shard_allowances[s] - n]]
    OBVIOUS
  <1>6. floats' = [floats EXCEPT ![a] = x]
    <2>1. PICK h : h = [floats[a].shard_allowances EXCEPT ![s] = floats[a].shard_allowances[s] - n]
      OBVIOUS
    <2>2. [floats[a] EXCEPT !.shard_allowances = h] = x
      BY <1>4, <1>5, <2>1 DEF AccountFloat
    <2>3. floats' = [floats EXCEPT ![a] = [floats[a] EXCEPT !.shard_allowances = h]]
      BY <1>3, <2>1
    <2> QED
      BY <2>2, <2>3
  <1>7. /\ x \in AccountFloat /\ x # None /\ x.total = floats[a].total
        /\ x.reserve = floats[a].reserve
        /\ x.shard_allowances[s] = floats[a].shard_allowances[s] - n
        /\ x.shard_allowances[s] \in Nat
        /\ \A t \in ShardId \ {s} : x.shard_allowances[t] = floats[a].shard_allowances[t]
    BY <1>2, <1>3, <1>4, <1>5, AuthorityAssumption DEF AccountFloat
  <1>8. \A b \in AccountId : floats'[b] = IF b = a THEN x ELSE floats[b]
    BY <1>0, <1>6 DEF TypeOK
  <1>9. /\ DOMAIN outstanding' = IF sealed THEN DOMAIN outstanding \cup {id} ELSE DOMAIN outstanding
        /\ \A c \in DOMAIN outstanding : outstanding'[c] = outstanding[c]
        /\ sealed => outstanding'[id] = n
    BY <1>2, <1>3 DEF WithCapability
  <1>10. TypeOK'
    <2>0. floats' \in [AccountId -> AccountFloat \cup {None}]
      BY <1>0, <1>6, <1>7 DEF TypeOK
    <2>1. /\ next_cap_counter' \in Nat /\ funded_at' \in [AccountId -> Nat]
          /\ fenced_epochs' \in [ShardId -> Epoch \cup {None}]
      <3>1. next_cap_counter' = next_cap_counter + 1 /\ UNCHANGED <<fenced_epochs, funded_at>>
        BY <1>3
      <3> QED
        BY <1>0, <3>1 DEF TypeOK
    <2>2. DOMAIN outstanding' \subseteq CapabilityId
          /\ \A c \in DOMAIN outstanding' : outstanding'[c] \in Nat
      BY <1>0, <1>2, <1>9 DEF TypeOK
    <2> QED
      BY <2>0, <2>1, <2>2 DEF TypeOK
  <1>11. CounterInv'
    <2>1. /\ IsFiniteSet(DOMAIN outstanding) /\ \A c \in DOMAIN outstanding : c[5] < next_cap_counter
          /\ \A c \in DOMAIN outstanding : c[5] \in Nat /\ next_cap_counter \in Nat
          /\ \A b \in AccountId : funded_at[b] <= next_cap_counter /\ funded_at[b] \in Nat
      BY <1>0 DEF CounterInv, TypeOK, CapabilityId
    <2>2. next_cap_counter \in Nat
      BY <1>0 DEF TypeOK
    <2>3. IsFiniteSet(DOMAIN outstanding')
      BY <1>9, <2>1, FS_AddElement
    <2>4. \A c \in DOMAIN outstanding' : c[5] < next_cap_counter'
      BY <1>2, <1>3, <1>9, <2>1, <2>2
    <2>5. \A b \in AccountId : funded_at'[b] <= next_cap_counter'
      BY <1>3, <2>1, <2>2
    <2> QED
      BY <2>3, <2>4, <2>5 DEF CounterInv
  <1>12. \A b \in AccountId : IssuedSince(b)' = IF sealed /\ b = a THEN IssuedSince(b) \cup {id}
                                               ELSE IssuedSince(b)
    <2>1. funded_at[a] <= next_cap_counter
      BY <1>0, <1>2 DEF CounterInv
    <2>2. id[5] >= funded_at[a]
      BY <1>0, <1>2, <2>1 DEF TypeOK
    <2> QED
      BY <1>2, <1>3, <1>9, <2>2 DEF IssuedSince
  <1>13. ASSUME NEW b \in AccountId PROVE Partitioned(b)'
    <2>1. CASE b # a
      <3>1. \A c \in IssuedSince(b) : outstanding'[c] = outstanding[c]
        BY <1>9 DEF IssuedSince
      <3> QED
        BY <1>0, <1>8, <1>12, <2>1, <3>1, PartitionedKept
    <2>2. CASE b = a
      <3>1. Share(a, s)' = Share(a, s) + (0 - n)
        <4>1. x.shard_allowances[s] # None
          BY <1>7, AuthorityAssumption
        <4>2. Share(a, s)' = x.shard_allowances[s]
          BY <1>2, <1>8, <4>1 DEF Share
        <4> QED
          BY <1>2, <1>4, <1>7, <4>2
      <3>2. Allocated(a)' = Allocated(a) + (0 - n)
        BY <1>0, <1>2, <1>3, <1>7, <1>8, <3>1, AllocatedShift
      <3>3. Allocated(a) \in Nat /\ IssuedOf(a) \in Nat /\ IsFiniteSet(IssuedSince(a))
        BY <1>0, <1>2, <1>3, Amounts
      <3>4. IssuedOf(a)' = IssuedOf(a) \/ IssuedOf(a)' = IssuedOf(a) + n
        <4>1. IssuedSince(a) \subseteq DOMAIN outstanding
          BY DEF IssuedSince
        <4>2. SumOf(outstanding', IssuedSince(a)) = SumOf(outstanding, IssuedSince(a))
          BY <1>9, <3>3, <4>1, SumEqual
        <4>3. CASE sealed
          <5>1. id \notin IssuedSince(a)
            BY <1>2, <4>1
          <5>2. \A c \in IssuedSince(a) \cup {id} : outstanding'[c] \in Int
            BY <1>0, <1>2, <1>9, <4>1, <4>3 DEF TypeOK
          <5>3. SumOf(outstanding', IssuedSince(a) \cup {id})
                  = outstanding'[id] + SumOf(outstanding', IssuedSince(a))
            BY <3>3, <5>1, <5>2, SumAdd
          <5>4. IssuedOf(a)' = n + IssuedOf(a)
            BY <1>2, <1>9, <1>12, <4>2, <4>3, <5>3 DEF IssuedOf
          <5> QED
            BY <1>2, <3>3, <5>4
        <4>4. CASE ~sealed
          BY <1>2, <1>12, <4>2, <4>4 DEF IssuedOf
        <4> QED
          BY <4>3, <4>4
      <3>5. floats[a].reserve + Allocated(a) + IssuedOf(a) <= floats[a].total
        BY <1>0, <1>2, <1>3 DEF Partitioned
      <3>6. floats[a].reserve + Allocated(a)' + IssuedOf(a)' <= floats[a].total
        BY <1>2, <1>4, <3>2, <3>3, <3>4, <3>5
      <3> QED
        BY <1>7, <1>8, <2>2, <3>6 DEF Partitioned
    <2> QED
      BY <2>1, <2>2
  <1>14. IssuedToApprovedOnly'
    BY <1>0, <1>3, EvidenceApproved DEF IssuedToApprovedOnly
  <1> QED
    BY <1>10, <1>11, <1>13, <1>14 DEF AuthorityInv

(* Fencing, or nothing at all, leaves the floats alone.                    *)
LEMMA FenceStep ==
    ASSUME AuthorityInv,
           (\E s \in ShardId, e \in Epoch : fence_epoch(s, e)) \/ UNCHANGED vars
    PROVE  AuthorityInv'
  <1>0. /\ TypeOK /\ CounterInv /\ IssuedToApprovedOnly /\ \A b \in AccountId : Partitioned(b)
    BY DEF AuthorityInv
  <1>1. UNCHANGED <<floats, outstanding, next_cap_counter, funded_at, grounds>>
    BY DEF fence_epoch, vars
  <1>2. fenced_epochs' \in [ShardId -> Epoch \cup {None}]
    BY <1>0 DEF fence_epoch, vars, TypeOK
  <1>3. TypeOK'
    BY <1>0, <1>1, <1>2 DEF TypeOK
  <1>4. CounterInv' /\ IssuedToApprovedOnly'
    BY <1>0, <1>1 DEF CounterInv, IssuedToApprovedOnly
  <1>5. \A b \in AccountId : IssuedSince(b)' = IssuedSince(b)
    BY <1>1 DEF IssuedSince
  <1>6. \A b \in AccountId : Partitioned(b)'
    BY <1>0, <1>1, <1>5, PartitionedKept
  <1> QED
    BY <1>3, <1>4, <1>6 DEF AuthorityInv

-----------------------------------------------------------------------------
(* The inductive invariant: the floats are partitioned and no number is on *)
(* two capabilities.                                                       *)
THEOREM AuthorityInvariant == Spec => []AuthorityInv
  <1>1. ASSUME AuthorityInv, [Next]_vars PROVE AuthorityInv'
    BY <1>1, FundStep, AllocateStep, IssueStep, FenceStep DEF Next
  <1> QED
    BY <1>1, AuthorityInit, PTL DEF Spec

(* The authority's maps and its counter keep their types (issuer.rs).      *)
THEOREM AuthorityTypeOK == Spec => []TypeOK
  <1>1. AuthorityInv => TypeOK
    BY DEF AuthorityInv
  <1> QED
    BY <1>1, AuthorityInvariant, PTL

(* Reserve, shares and capabilities of an account never add up to more     *)
(* than it was last funded with, whatever is funded, allocated and issued  *)
(* in whatever order, seals that fail included.                            *)
THEOREM FloatPartitionedHolds == Spec => []FloatPartitioned
  <1>1. AuthorityInv => FloatPartitioned
    BY PartitionedAll DEF AuthorityInv
  <1> QED
    BY <1>1, AuthorityInvariant, PTL

(* Capabilities are issued only on what an approved machine measured.      *)
THEOREM IssuedToApprovedHolds == Spec => []IssuedToApprovedOnly
  <1>1. AuthorityInv => IssuedToApprovedOnly
    BY DEF AuthorityInv
  <1> QED
    BY <1>1, AuthorityInvariant, PTL

(* No step of the authority replaces a capability that is outstanding.     *)
THEOREM IdentifiersUnique == Spec => CapabilityIdsUnique
  <1> DEFINE Kept == \A c \in DOMAIN outstanding :
                        c \in DOMAIN outstanding' /\ outstanding'[c] = outstanding[c]
  <1>1. ASSUME AuthorityInv, Next PROVE Kept
    <2>1. ASSUME NEW req \in IssueRequest, NEW ev \in Evidence, NEW sealed \in BOOLEAN,
                 issue_capability(req, ev, sealed)
          PROVE  Kept
      <3>1. capability_id(req) \notin DOMAIN outstanding
        BY <1>1, NewIdentifier DEF AuthorityInv
      <3> QED
        BY <2>1, <3>1 DEF issue_capability, WithCapability
    <2> QED
      BY <1>1, <2>1 DEF Next, fund, allocate, fence_epoch
  <1>2. AuthorityInv /\ [Next]_vars => [Kept]_vars
    BY <1>1
  <1> QED
    BY <1>2, AuthorityInvariant, PTL DEF Spec, CapabilityIdsUnique
=============================================================================
