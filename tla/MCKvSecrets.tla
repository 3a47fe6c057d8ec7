---------------------------- MODULE MCKvSecrets ----------------------------
(***************************************************************************)
(* Small instances of KvSecrets for TLC.                                   *)
(***************************************************************************)
EXTENDS KvSecrets, TLC

CONSTANTS r1, r2, r3, k1, d1, d2, d3, d4

MCSymmetry == Permutations(Request) \cup Permutations(Data)
=============================================================================
