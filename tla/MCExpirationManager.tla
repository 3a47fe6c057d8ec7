------------------------ MODULE MCExpirationManager ------------------------
(***************************************************************************)
(* Small instances of ExpirationManager for TLC.                           *)
(***************************************************************************)
EXTENDS ExpirationManager, TLC

CONSTANTS l1, l2, c1, c2

MCPrefixes == {Lease}

MCConfig == {[default_lease_ttl |-> 1, max_lease_ttl |-> 2]}

MCTwoConfigs == {[default_lease_ttl |-> 1, max_lease_ttl |-> 2],
                 [default_lease_ttl |-> 1, max_lease_ttl |-> 1]}

MCSymmetry == Permutations(Lease) \cup Permutations(Client)
=============================================================================
