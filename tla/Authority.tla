----------------------------- MODULE Authority -----------------------------
(***************************************************************************)
(* The capability authority (crates/authority/src/issuer.rs): it divides   *)
(* the float of an account among shards and signs capabilities against the *)
(* shares.  Its methods take &mut self, so each is one step.               *)
(*                                                                         *)
(* Whether the hybrid seal succeeds is an input.  A capability is known by *)
(* the tuple its identifier is the hash of.                                *)
(***************************************************************************)
EXTENDS Attestation, Naturals, FiniteSets, FiniteSetsExt

CONSTANTS
    AccountId, AgentId, ShardId, Epoch,
    None,           \* "not in the map"
    Evidence,       \* attestations that come with requests
    Amount,         \* amounts that are funded, allocated and requested
    MaxCounter      \* bound: capabilities are issued up to this number

(* Nobody but a platform makes its signature: what an attestation carries  *)
(* is what sign_evidence made of some measurement, if it carries anything. *)
SignedByPlatform(ev) ==
    \A sig \in ev.platform_signature :
        LET m == sig.saw
        IN  /\ m = Measured(m.binary_hash, m.config_hash, m.version, m.hardware_id)
            /\ ev.platform_signature = sign_evidence(sig.key, m).platform_signature

VARIABLES
    floats,         \* accounts: AccountId -> AccountFloat, or None
    outstanding,    \* CapabilityId -> maximum_total, on the issued ones
    fenced_epochs,  \* ShardId -> Epoch, or None
    next_cap_counter,
    funded_at,      \* history: the counter at the last fund of an account
    grounds         \* history: what was measured where capabilities were issued

vars == <<floats, outstanding, fenced_epochs, next_cap_counter, funded_at, grounds>>

(* struct AccountFloat; a shard without an entry has share None.           *)
AccountFloat == [total : Nat, reserve : Nat, shard_allowances : [ShardId -> Nat \cup {None}]]

ASSUME AuthorityAssumption ==
    /\ IsFiniteSet(ShardId) /\ Amount \subseteq Nat /\ Epoch \subseteq Nat
    /\ None \notin Nat /\ None \notin AccountFloat
    /\ \A ev \in Evidence : SignedByPlatform(ev)

(* struct IssueRequest: what the ledger of the authority depends on.       *)
IssueRequest ==
    [account_id : AccountId, agent_id : AgentId, shard_id : ShardId, epoch : Epoch,
     maximum_total : Amount]

CapabilityId == AccountId \X AgentId \X ShardId \X Epoch \X Nat
capability_id(req) ==
    <<req.account_id, req.agent_id, req.shard_id, req.epoch, next_cap_counter>>

-----------------------------------------------------------------------------
Init ==
    /\ floats = [a \in AccountId |-> None]
    /\ outstanding = [c \in {} |-> 0]
    /\ fenced_epochs = [s \in ShardId |-> None]
    /\ next_cap_counter = 1
    /\ funded_at = [a \in AccountId |-> 1]
    /\ grounds = {}

(* A faulty form: what the shards were allocated earlier is kept.          *)
fund_keeps_shares(a, total) ==
    /\ floats' = [floats EXCEPT ![a] =
                    IF @ = None
                    THEN [total |-> total, reserve |-> total,
                          shard_allowances |-> [s \in ShardId |-> None]]
                    ELSE [@ EXCEPT !.total = total, !.reserve = total]]
    /\ funded_at' = [funded_at EXCEPT ![a] = next_cap_counter]
    /\ UNCHANGED <<outstanding, fenced_epochs, next_cap_counter, grounds>>

(* fund replaces the float: allowances of an earlier one are forgotten,    *)
(* the capabilities issued from it are not.                                *)
fund(a, total) ==
    /\ floats' = [floats EXCEPT ![a] =
                    [total |-> total, reserve |-> total,
                     shard_allowances |-> [s \in ShardId |-> None]]]
    /\ funded_at' = [funded_at EXCEPT ![a] = next_cap_counter]
    /\ UNCHANGED <<outstanding, fenced_epochs, next_cap_counter, grounds>>

Share(a, s) ==
    IF floats[a].shard_allowances[s] = None THEN 0 ELSE floats[a].shard_allowances[s]

allocate(a, s, amount) ==
    /\ floats[a] # None
    /\ amount <= floats[a].reserve
    /\ floats' = [floats EXCEPT ![a].reserve = @ - amount,
                                ![a].shard_allowances[s] = Share(a, s) + amount]
    /\ UNCHANGED <<outstanding, fenced_epochs, next_cap_counter, funded_at, grounds>>

(* A faulty form: the request is not compared with the share.              *)
CanIssue_Unbounded(req, ev) ==
    /\ verify_evidence(ev)
    /\ floats[req.account_id] # None
    /\ floats[req.account_id].shard_allowances[req.shard_id] # None

(* The checks of issue_capability.  The epoch is not compared with the     *)
(* fenced ones.                                                            *)
CanIssue(req, ev) ==
    /\ verify_evidence(ev)
    /\ floats[req.account_id] # None
    /\ floats[req.account_id].shard_allowances[req.shard_id] # None
    /\ req.maximum_total <= floats[req.account_id].shard_allowances[req.shard_id]

Debit(req) ==
    floats' = [floats EXCEPT ![req.account_id].shard_allowances[req.shard_id] = @ - req.maximum_total]

WithCapability(out, c, amount) ==
    [d \in DOMAIN out \cup {c} |-> IF d = c THEN amount ELSE out[d]]

(* A faulty form: the counter is not advanced.                             *)
issue_same_counter(req, ev, sealed) ==
    /\ CanIssue(req, ev)
    /\ Debit(req)
    /\ outstanding' = IF sealed
                      THEN WithCapability(outstanding, capability_id(req), req.maximum_total)
                      ELSE outstanding
    /\ UNCHANGED <<fenced_epochs, next_cap_counter, funded_at, grounds>>

(* The share is debited and the number used up before the seal can fail;   *)
(* nothing gives them back.                                                *)
issue_capability(req, ev, sealed) ==
    /\ CanIssue(req, ev)
    /\ Debit(req)
    /\ next_cap_counter' = next_cap_counter + 1
    /\ outstanding' = IF sealed
                      THEN WithCapability(outstanding, capability_id(req), req.maximum_total)
                      ELSE outstanding
    /\ grounds' = IF sealed THEN grounds \cup {sig.saw : sig \in ev.platform_signature} ELSE grounds
    /\ UNCHANGED <<fenced_epochs, funded_at>>

(* The last call wins, whatever the order of the epochs.                   *)
fence_epoch(s, e) ==
    /\ fenced_epochs' = [fenced_epochs EXCEPT ![s] = e]
    /\ UNCHANGED <<floats, outstanding, next_cap_counter, funded_at, grounds>>

is_epoch_fenced(s, e) == fenced_epochs[s] # None /\ fenced_epochs[s] >= e

(* A call that is refused changes nothing, and is a stuttering step.       *)
Next ==
    \/ \E a \in AccountId, total \in Amount : fund(a, total)
    \/ \E a \in AccountId, s \in ShardId, amount \in Amount : allocate(a, s, amount)
    \/ \E req \in IssueRequest, ev \in Evidence, sealed \in BOOLEAN :
          next_cap_counter < MaxCounter /\ issue_capability(req, ev, sealed)
    \/ \E s \in ShardId, e \in Epoch : fence_epoch(s, e)

Spec == Init /\ [][Next]_vars

-----------------------------------------------------------------------------
(* Type invariant of the authority's ledger.                               *)
TypeOK ==
    /\ floats \in [AccountId -> AccountFloat \cup {None}]
    /\ DOMAIN outstanding \subseteq CapabilityId
    /\ \A c \in DOMAIN outstanding : outstanding[c] \in Nat
    /\ fenced_epochs \in [ShardId -> Epoch \cup {None}]
    /\ next_cap_counter \in Nat
    /\ funded_at \in [AccountId -> Nat]

(* The capabilities signed for an account since it was last funded, what   *)
(* its shards may still draw and what is in reserve never add up to more   *)
(* than the account was funded with, although shards draw without asking   *)
(* each other.  Capabilities from before that are not counted, and stay    *)
(* spendable next to these (fund, allocate, issue_capability).             *)
IssuedSince(a) == {c \in DOMAIN outstanding : c[1] = a /\ c[5] >= funded_at[a]}
FloatPartitioned ==
    \A a \in AccountId :
        floats[a] # None =>
            floats[a].reserve
              + MapThenSumSet(LAMBDA s : Share(a, s), ShardId)
              + MapThenSumSet(LAMBDA c : outstanding[c], IssuedSince(a))
            <= floats[a].total

(* No capability is issued twice under one identifier, which the shards    *)
(* key their spent sequences with: what is outstanding is never replaced,  *)
(* not even when equal requests are repeated.                              *)
CapabilityIdsUnique ==
    [][\A c \in DOMAIN outstanding :
          c \in DOMAIN outstanding' /\ outstanding'[c] = outstanding[c]]_vars

(* A capability is issued only on what an approved machine measured on     *)
(* itself, not on what somebody says next to another machine's signature   *)
(* (verify_evidence, issue_capability).                                    *)
IssuedToApprovedOnly == \A m \in grounds : Approved(m)

(* A fence bounds the risk of its epoch: the epoch stays fenced, and what  *)
(* capabilities for it may spend does not grow (fence_epoch,               *)
(* issue_capability).                                                      *)
Issued(s, e) ==
    MapThenSumSet(LAMBDA c : outstanding[c], {c \in DOMAIN outstanding : c[3] = s /\ c[4] = e})
FenceBoundsRisk ==
    [][\A s \in ShardId, e \in Epoch :
          is_epoch_fenced(s, e) => is_epoch_fenced(s, e)' /\ Issued(s, e)' = Issued(s, e)]_vars
=============================================================================
