---------------------------- MODULE MCMigrations ----------------------------
(***************************************************************************)
(* A key/value mount, whose second release gives it the users table of the *)
(* test of migrator.rs, drops a table and adds one with a foreign key to a *)
(* table of the server, and whose third renames one, which is refused; and *)
(* a userpass mount, whose second release has a mistake.                   *)
(***************************************************************************)
EXTENDS Migrations

CONSTANTS kv, psql, userpass

\* The statements of the Postgres backend find the tables that its one script
\* makes; its mounts would behave in the instance like those of kv in the
\* first release.
ASSUME PsqlFindsItsTables ==
    \A stmt \in PsqlStatements :
        TablesOf(psql, stmt) \subseteq {<<psql, t.table>> : t \in {PsqlScript[i] : i \in DOMAIN PsqlScript}}

Grants ==
    Statement("create_table", "GRANTS",
        {Name("GRANTS", <<"name">>),
         [table |-> "POLICIES", through |-> <<"foreign_key", "name">>, system |-> TRUE, restrict |-> FALSE]})
DropConfig == Statement("drop", "CONFIG", {Name("CONFIG", <<"name">>)})
Rename == Statement("rename_table", "USERS", {Name("USERS", <<"name">>)})

MCScripts ==
    [m \in Mount |->
        IF m = kv
        THEN <<KvScript, <<CreateTable("USERS"), Grants, DropConfig>>, <<Rename>> >>
        ELSE <<UserpassScript, <<CreateTable("CONFIG"), AlterTable("GRANTS")>> >>]

MCStatements ==
    [m \in Mount |-> [k \in Releases |->
        IF m = userpass THEN UserpassStatements
        ELSE IF k = 1 THEN KvStatements
        ELSE {s \in KvStatements : s.table # "CONFIG"} \cup UserpassStatements]]
=============================================================================
