--------------------------- MODULE MCPsqlBackend ---------------------------
(***************************************************************************)
(* Small instances of PsqlBackend for TLC.                                 *)
(***************************************************************************)
EXTENDS PsqlBackend, TLC

CONSTANTS r1, r2, m, d1, d2, foo, u1

\* The users of one role.
MCRoleOf == [s \in {u1} |-> foo]
=============================================================================
