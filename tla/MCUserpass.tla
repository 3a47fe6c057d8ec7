----------------------------- MODULE MCUserpass -----------------------------
(***************************************************************************)
(* Small instances of Userpass for TLC.                                    *)
(***************************************************************************)
EXTENDS Userpass, TLC

MCSymmetry ==
    Permutations(Request) \cup Permutations(Mount) \cup Permutations(User) \cup Permutations(Password)
    \cup Permutations(Entity)
=============================================================================
