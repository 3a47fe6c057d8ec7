------------------------------ MODULE ScopedSql ------------------------------
(***************************************************************************)
(* How the statements of a backend are confined to the tables of its mount *)
(* (covert-storage/src/scoped_queries.rs), and the statements themselves.  *)
(*                                                                         *)
(* A statement is its kind, the table it makes, changes or drops, and the  *)
(* table names that occur in it.  Each occurrence comes with the syntax    *)
(* nodes on the way from the statement down to the name: the code walks    *)
(* the syntax tree along some edges and not along others, and only puts    *)
(* the mount's prefix before the names it comes to.  Aliases and the names *)
(* of common table expressions, which are no tables, are left out.         *)
(***************************************************************************)
EXTENDS Naturals, Sequences

CONSTANT System     \* the owner of names without a prefix

Exprs == {"binary", "all", "subquery"}
SetExprs == {"select", "set_operation", "insert_body", "query_body"}
Factors == {"table_factor", "derived", "table_function", "nested_join"}

-----------------------------------------------------------------------------
(***************************************************************************)
(* The edges that the walk follows, function by function.  Off the way are *)
(* the WHERE and SET of an UPDATE, the ON of a join, GROUP BY and HAVING   *)
(* ("clause"), and every other expression: parentheses, NOT, IN, EXISTS,   *)
(* functions ("other_expr").                                               *)
(***************************************************************************)

StatementFollows ==
    ({"select_statement", "insert", "create_table", "create_view"} \X {"query"})
    \cup ({"insert", "create_table", "drop", "alter_table", "create_view", "create_index"} \X {"name"})
    \cup ({"update", "delete"} \X Factors)
    \cup ({"delete"} \X Exprs)
    \cup {<<"create_table", "foreign_key">>, <<"foreign_key", "name">>}

QueryFollows == ({"query"} \X SetExprs) \cup {<<"query", "cte">>, <<"cte", "query">>}

SetExprFollows ==
    ({"select"} \X (Exprs \cup Factors \cup {"name"}))
    \cup ({"set_operation"} \X SetExprs)
    \cup {<<"insert_body", "insert">>, <<"query_body", "query">>}

\* Mutant: only a subquery that is the whole expression is found.
ExprFollowsTop == {<<"subquery", "query">>}

ExprFollows == ({"binary", "all"} \X Exprs) \cup {<<"subquery", "query">>}

FactorFollows ==
    {<<"table_factor", "name">>, <<"derived", "query">>}
    \cup ({"table_function"} \X Exprs)
    \cup ({"nested_join"} \X Factors)

Follows == StatementFollows \cup QueryFollows \cup SetExprFollows \cup ExprFollows \cup FactorFollows

Reached(stmt, n) ==
    LET path == <<stmt.kind>> \o n.through
    IN  \A i \in 1 .. Len(path) - 1 : <<path[i], path[i + 1]>> \in Follows

\* The statements that are refused: renaming, everything not listed above, and
\* a foreign key that could keep the server from deleting rows of its own.
Refused(stmt) ==
    \/ stmt.kind \in {"rename_table", "other_statement"}
    \/ \E n \in stmt.names : n.system /\ n.restrict

\* The table that a name stands for when mount m runs the statement:
\* __SYSTEM__ in a foreign key asks for a table of the server.
TableOf(m, stmt, n) ==
    IF Reached(stmt, n) /\ ~ n.system THEN <<m, n.table>> ELSE <<System, n.table>>

TablesOf(m, stmt) == {TableOf(m, stmt, n) : n \in stmt.names}

-----------------------------------------------------------------------------
(***************************************************************************)
(* The scripts and statements of the backends                              *)
(***************************************************************************)

Name(table, through) ==
    [table |-> table, through |-> through, system |-> FALSE, restrict |-> FALSE]

From(through) == through \o <<"table_factor", "name">>

Statement(kind, table, names) == [kind |-> kind, table |-> table, names |-> names]

CreateTable(t) == Statement("create_table", t, {Name(t, <<"name">>)})
AlterTable(t) == Statement("alter_table", t, {Name(t, <<"name">>)})
Select(t) == Statement("select_statement", t, {Name(t, From(<<"query", "select">>))})
Insert(t) == Statement("insert", t, {Name(t, <<"name">>)})
Update(t) == Statement("update", t, {Name(t, From(<<>>))})
Delete(t) == Statement("delete", t, {Name(t, From(<<>>))})

KvScript == <<CreateTable("SECRETS"), CreateTable("CONFIG")>>
PsqlScript == <<CreateTable("CONNECTION"), CreateTable("ROLES")>>
UserpassScript == <<CreateTable("USERS")>>

\* Prune: AND, the comparison, the difference, and the subquery in it
PruneSecrets ==
    Statement("delete", "SECRETS",
        {Name("SECRETS", From(<<>>)),
         Name("SECRETS", From(<<"binary", "binary", "binary", "subquery", "query", "select">>))})

KvStatements ==
    {Select("CONFIG"), Insert("CONFIG"), Select("SECRETS"), Update("SECRETS"), Insert("SECRETS"),
     PruneSecrets}
PsqlStatements ==
    {Insert("CONNECTION"), Select("CONNECTION"), Delete("CONNECTION"), Insert("ROLES"), Select("ROLES")}
UserpassStatements == {Insert("USERS"), Delete("USERS"), Select("USERS"), Update("USERS")}
=============================================================================
