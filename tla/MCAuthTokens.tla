---------------------------- MODULE MCAuthTokens ----------------------------
(***************************************************************************)
(* Small instances of AuthTokens for TLC.                                  *)
(***************************************************************************)
EXTENDS AuthTokens, TLC

CONSTANTS r1, r2, t1, t2, root, user

MCConfig == [default_lease_ttl |-> 1, max_lease_ttl |-> 1]
MCConfigs == {MCConfig}
MCSymmetry == Permutations(Request) \cup Permutations(Token)
=============================================================================
