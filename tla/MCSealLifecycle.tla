-------------------------- MODULE MCSealLifecycle --------------------------
(***************************************************************************)
(* Small instances of SealLifecycle for TLC.                               *)
(***************************************************************************)
EXTENDS SealLifecycle

CONSTANTS r1, r2, s1, s2, s3, root, child

MCInitParams == {[shares |-> 2, threshold |-> 1], [shares |-> 2, threshold |-> 2]}

MCOneOfOne == {[shares |-> 1, threshold |-> 1]}
=============================================================================
