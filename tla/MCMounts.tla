------------------------------ MODULE MCMounts ------------------------------
(***************************************************************************)
(* Small instances of Mounts for TLC.                                      *)
(***************************************************************************)
EXTENDS Mounts, TLC

CONSTANTS r1, r2, n0, n1, n2, m1, m2, s1, p, pc

\* pc lies below p.
MCCovers == {<<p, p>>, <<pc, pc>>, <<p, pc>>} \cap (Path \X Path)

MCSymmetry == Permutations(Request) \cup Permutations(MountId) \cup Permutations(Namespace \ {Root})
=============================================================================
