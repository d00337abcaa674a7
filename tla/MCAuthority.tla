---------------------------- MODULE MCAuthority ----------------------------
(***************************************************************************)
(* An instance of Authority for TLC: one account, one agent, two shards    *)
(* whose names may be exchanged.                                           *)
(***************************************************************************)
EXTENDS Authority, TLC

CONSTANTS fra, ams

MCShards == {fra, ams}

(* A passing attestation, one of a machine nobody approved, its claims put *)
(* next to either signature, another platform's, and one without.          *)
MCpolicy ==
    [approved_binary_hashes |-> {"edge"}, approved_config_hashes |-> {"cfg"},
     approved_versions |-> {"0.1.0"}, approved_hardware_ids |-> {"hw1"},
     platform_pubkey |-> "platform"]
Good == Measured("edge", "cfg", "0.1.0", "hw1")
Passing == sign_evidence("platform", Good)
Elsewhere == sign_evidence("platform", [Good EXCEPT !.hardware_id = "hw2"])
Patched == sign_evidence("platform", [Good EXCEPT !.binary_hash = "patched"])
MCEvidence ==
    {Passing, Elsewhere, Patched, sign_evidence("other", Good),
     [Elsewhere EXCEPT !.hardware_id = "hw1"], [Patched EXCEPT !.binary_hash = "edge"],
     [Passing EXCEPT !.platform_signature = {}]}
Interchangeable == Permutations(MCShards)
=============================================================================
