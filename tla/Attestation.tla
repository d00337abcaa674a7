---------------------------- MODULE Attestation ----------------------------
(***************************************************************************)
(* Attestation evidence and its check against a policy                     *)
(* (crates/attest).  A signature is the signed body with the key; `saw' is *)
(* history: what the platform measured when it signed.                     *)
(***************************************************************************)
CONSTANTS policy     \* AttestationPolicy

(* A faulty variant: the hardware is not part of what is signed.           *)
evidence_bytes_software(ev) ==
    [binary_hash |-> ev.binary_hash, config_hash |-> ev.config_hash,
     version |-> ev.version, platform_pubkey |-> ev.platform_pubkey]

evidence_bytes(ev) ==
    [binary_hash |-> ev.binary_hash, config_hash |-> ev.config_hash,
     version |-> ev.version, hardware_id |-> ev.hardware_id,
     platform_pubkey |-> ev.platform_pubkey]

(* What a platform measures, without key and signature yet.                *)
Measured(binary, config, version, hardware) ==
    [binary_hash |-> binary, config_hash |-> config, version |-> version,
     hardware_id |-> hardware, platform_pubkey |-> "", platform_signature |-> {}]

sign_evidence(platform, m) ==
    LET ev == [m EXCEPT !.platform_pubkey = platform]
    IN  [ev EXCEPT !.platform_signature =
            {[key |-> platform, body |-> evidence_bytes(ev), saw |-> m]}]

Approved(ev) ==
    /\ ev.binary_hash \in policy.approved_binary_hashes
    /\ ev.config_hash \in policy.approved_config_hashes
    /\ ev.version \in policy.approved_versions
    /\ ev.hardware_id \in policy.approved_hardware_ids

(* The key in the evidence must be the one of the policy and must have     *)
(* signed all of it; no signature is no evidence.                          *)
verify_evidence(ev) ==
    /\ ev.platform_pubkey = policy.platform_pubkey
    /\ Approved(ev)
    /\ \E sig \in ev.platform_signature :
          sig.key = ev.platform_pubkey /\ sig.body = evidence_bytes(ev)
=============================================================================
