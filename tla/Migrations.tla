----------------------------- MODULE Migrations -----------------------------
(***************************************************************************)
(* The tables of the mounts: the migrations that make them (migrator.rs of *)
(* covert-storage) against the disable that drops them (remove_mount and   *)
(* helpers/sqlite.rs), statement by statement, with failing statements,    *)
(* crashes, and upgrades to a release with more scripts.                   *)
(*                                                                         *)
(* migrate is modelled as its crate offers it: any caller, any stored      *)
(* mount, again after an upgrade, as the crate's test does.  The server    *)
(* itself calls it only once, after it has stored the mount.               *)
(*                                                                         *)
(* SQLite has one writer at a time, and readers see what is committed.  A  *)
(* script holds no statement that begins or ends a transaction.            *)
(***************************************************************************)
EXTENDS Requests, ScopedSql, FiniteSets

CONSTANTS
    Mount,
    Scripts,        \* mount -> the scripts of its backend in the last release, in
                    \* the order of their files; earlier releases have fewer
    Statements,     \* mount, release -> the statements that its backend runs
    Releases,       \* their numbers
    MaxFaults       \* bound: failing statements and restarts

\* Release k has the first k scripts of every backend.
Places(m, k) == UNION {{i} \X (1 .. Len(Scripts[m][i])) : i \in 1 .. k}
AllPlaces(m) == Places(m, Len(Scripts[m]))
Table == UNION {{Scripts[m][p[1]][p[2]].table : p \in AllPlaces(m)} : m \in Mount}

ASSUME MigrationsAssumption ==
    /\ System \notin Mount
    /\ \A m \in Mount :
          /\ Len(Scripts[m]) \in Nat
          /\ \A i \in 1 .. Len(Scripts[m]) : Len(Scripts[m][i]) \in Nat
    /\ None \notin Request \cup Mount
    /\ \A m \in Mount : \A p \in AllPlaces(m) :
          Scripts[m][p[1]][p[2]].kind \in {"create_table", "alter_table", "drop", "rename_table"}
    /\ Releases \subseteq Nat
    /\ MaxFaults \in Nat

VARIABLES
    mounts,         \* MOUNTS
    versions,       \* _BACKEND_STORAGE_MIGRATIONS: pairs of a mount and a version
    tables,         \* the backends' tables: pairs of a mount and a table
    tx,             \* the transaction that is writing, with its uncommitted image
    req,            \* the calls in progress
    release,        \* the number of scripts of the running program
    used,           \* mounts there have ever been
    whole,          \* history: mount -> the last release whose migrate has answered Ok
    cut,            \* history: mounts whose disable was cut short
    faults

committed == <<mounts, versions, tables>>
history == <<used, whole, cut>>
vars == <<mounts, versions, tables, tx, req, release, used, whole, cut, faults>>

NoTx == [by |-> None, versions |-> {}, tables |-> {}]

\* A call: for migrate the latest version found (-1: none), the script and
\* its statement; for disable the tables still to be dropped.
Idle == [pc |-> "idle", mount |-> None, latest |-> 0 - 1, script |-> 0, next |-> 1, todo |-> {}]

Init ==
    /\ mounts = {}
    /\ versions = {}
    /\ tables = {}
    /\ tx = NoTx
    /\ req = [r \in Request |-> Idle]
    /\ release \in Releases
    /\ used = {}
    /\ whole = [m \in Mount |-> 0]
    /\ cut = {}
    /\ faults = 0

SetReq(r, h) == req' = [req EXCEPT ![r] = h]
Done(r) == SetReq(r, Idle)

\* The write lock of the database
Free == tx.by = None

Owned(ts, m) == {t \in ts : t[1] = m}
VersionsOf(vs, m) == {v[2] : v \in {w \in vs : w[1] = m}}

-----------------------------------------------------------------------------
(***************************************************************************)
(* migrate                                                                 *)
(***************************************************************************)

CreateMount(m) ==
    /\ m \notin used
    /\ Free
    /\ mounts' = mounts \cup {m}
    /\ used' = used \cup {m}
    /\ UNCHANGED <<versions, tables, tx, req, release, whole, cut, faults>>

BeginMigrate(r, m) ==
    /\ req[r].pc = "idle"
    /\ m \in mounts
    /\ SetReq(r, [Idle EXCEPT !.pc = "latest", !.mount = m])
    /\ UNCHANGED <<committed, tx, release, history, faults>>

\* SELECT MAX(version)
ReadLatest(r) ==
    /\ req[r].pc = "latest"
    /\ LET applied == VersionsOf(versions, req[r].mount)
           latest == IF applied = {} THEN 0 - 1
                     ELSE CHOOSE v \in applied : \A w \in applied : w <= v
       IN  SetReq(r, [req[r] EXCEPT !.pc = "next", !.latest = latest])
    /\ UNCHANGED <<committed, tx, release, history, faults>>

\* The scripts that the running release has for mount m
Count(m) == IF release < Len(Scripts[m]) THEN release ELSE Len(Scripts[m])

AtScript(r) == req[r].pc = "next" /\ req[r].script < Count(req[r].mount)
Script(r) == Scripts[req[r].mount][req[r].script + 1]

SkipScript(r) ==
    /\ AtScript(r)
    /\ req[r].latest >= req[r].script
    /\ SetReq(r, [req[r] EXCEPT !.script = @ + 1])
    /\ UNCHANGED <<committed, tx, release, history, faults>>

\* ScopedQuery::new looks at the whole script before anything is written.
RefuseScript(r) ==
    /\ AtScript(r)
    /\ req[r].latest < req[r].script
    /\ \E i \in 1 .. Len(Script(r)) : Refused(Script(r)[i])
    /\ Done(r)
    /\ UNCHANGED <<committed, tx, release, history, faults>>

\* Mutant: the version row does not refer to the mount.
InsertVersionUnchecked(r) ==
    /\ AtScript(r)
    /\ req[r].latest < req[r].script
    /\ \A i \in 1 .. Len(Script(r)) : ~ Refused(Script(r)[i])
    /\ Free
    /\ LET row == <<req[r].mount, req[r].script>>
       IN  \/ /\ row \notin versions
              /\ tx' = [by |-> r, versions |-> versions \cup {row}, tables |-> tables]
              /\ SetReq(r, [req[r] EXCEPT !.pc = "run", !.next = 1])
           \/ /\ row \in versions
              /\ Done(r)
              /\ UNCHANGED tx
    /\ UNCHANGED <<committed, release, history, faults>>

\* The transaction begins with the row of the version, for which the mount
\* must be stored, and the version new.
InsertVersion(r) ==
    /\ AtScript(r)
    /\ req[r].latest < req[r].script
    /\ \A i \in 1 .. Len(Script(r)) : ~ Refused(Script(r)[i])
    /\ Free
    /\ LET row == <<req[r].mount, req[r].script>>
       IN  \/ /\ req[r].mount \in mounts
              /\ row \notin versions
              /\ tx' = [by |-> r, versions |-> versions \cup {row}, tables |-> tables]
              /\ SetReq(r, [req[r] EXCEPT !.pc = "run", !.next = 1])
           \/ /\ req[r].mount \notin mounts \/ row \in versions
              /\ Done(r)
              /\ UNCHANGED tx
    /\ UNCHANGED <<committed, release, history, faults>>

\* The tables after a statement
After(m, stmt, ts) ==
    CASE stmt.kind = "create_table" -> ts \cup {<<m, stmt.table>>}
      [] stmt.kind = "drop" -> ts \ {<<m, stmt.table>>}
      [] OTHER -> ts

\* CREATE TABLE IF NOT EXISTS, whatever its foreign keys refer to; other
\* statements need the tables they name.
CanRun(m, stmt, ts) == stmt.kind = "create_table" \/ TablesOf(m, stmt) \subseteq ts

\* Mutant: a transaction that is dropped keeps its writes.
RollbackKeeps(r) ==
    /\ IF tx.by = r THEN versions' = tx.versions /\ tables' = tx.tables
                    ELSE UNCHANGED <<versions, tables>>
    /\ tx' = IF tx.by = r THEN NoTx ELSE tx

\* A call that ends early drops its transaction.
Rollback(r) ==
    /\ tx' = IF tx.by = r THEN NoTx ELSE tx
    /\ UNCHANGED <<versions, tables>>

RunStatement(r) ==
    /\ req[r].pc = "run"
    /\ req[r].next <= Len(Script(r))
    /\ LET stmt == Script(r)[req[r].next]
           m == req[r].mount
       IN  \/ /\ CanRun(m, stmt, tx.tables)
              /\ tx' = [tx EXCEPT !.tables = After(m, stmt, @)]
              /\ SetReq(r, [req[r] EXCEPT !.next = @ + 1])
              /\ UNCHANGED <<versions, tables>>
           \/ /\ ~ CanRun(m, stmt, tx.tables)
              /\ Rollback(r)
              /\ Done(r)
    /\ UNCHANGED <<mounts, release, history, faults>>

Commit(r) ==
    /\ req[r].pc = "run"
    /\ req[r].next > Len(Script(r))
    /\ versions' = tx.versions
    /\ tables' = tx.tables
    /\ tx' = NoTx
    /\ SetReq(r, [req[r] EXCEPT !.pc = "next", !.script = @ + 1])
    /\ UNCHANGED <<mounts, release, history, faults>>

FinishMigrate(r) ==
    /\ req[r].pc = "next"
    /\ req[r].script = Count(req[r].mount)
    /\ whole' = [whole EXCEPT ![req[r].mount] = release]
    /\ Done(r)
    /\ UNCHANGED <<committed, tx, release, used, cut, faults>>

-----------------------------------------------------------------------------
(***************************************************************************)
(* The end of remove_mount                                                 *)
(***************************************************************************)

\* The DELETE cascades to the versions.
BeginDisable(r, m) ==
    /\ req[r].pc = "idle"
    /\ m \in mounts
    /\ Free
    /\ mounts' = mounts \ {m}
    /\ versions' = {v \in versions : v[1] # m}
    /\ SetReq(r, [Idle EXCEPT !.pc = "list", !.mount = m])
    /\ UNCHANGED <<tables, tx, release, history, faults>>

\* get_resources_by_prefix
ListTables(r) ==
    /\ req[r].pc = "list"
    /\ SetReq(r, [req[r] EXCEPT !.pc = "drop", !.todo = Owned(tables, req[r].mount)])
    /\ UNCHANGED <<committed, tx, release, history, faults>>

DropTable(r) ==
    /\ req[r].pc = "drop"
    /\ \/ /\ Free
          /\ \E t \in req[r].todo :
                /\ tables' = tables \ {t}
                /\ SetReq(r, [req[r] EXCEPT !.todo = @ \ {t}])
       \/ /\ req[r].todo = {}
          /\ Done(r)
          /\ UNCHANGED tables
    /\ UNCHANGED <<mounts, versions, tx, release, history, faults>>

-----------------------------------------------------------------------------
(***************************************************************************)
(* Faults                                                                  *)
(***************************************************************************)

Disabling(r) == req[r].pc \in {"list", "drop"}

\* A statement of the call fails: a full disk, a lock that is not had in time.
Fail(r) ==
    /\ faults < MaxFaults
    /\ faults' = faults + 1
    /\ req[r].pc # "idle"
    /\ Rollback(r)
    /\ cut' = IF Disabling(r) THEN cut \cup {req[r].mount} ELSE cut
    /\ Done(r)
    /\ UNCHANGED <<mounts, release, used, whole>>

\* The server goes down, and comes up with the same or a later release.
Restart ==
    /\ faults < MaxFaults
    /\ faults' = faults + 1
    /\ tx' = NoTx
    /\ req' = [r \in Request |-> Idle]
    /\ release' \in {k \in Releases : k >= release}
    /\ cut' = cut \cup {req[r].mount : r \in {q \in Request : Disabling(q)}}
    /\ UNCHANGED <<committed, used, whole>>

Next ==
    \/ \E m \in Mount : CreateMount(m)
    \/ \E r \in Request :
          \/ \E m \in Mount : BeginMigrate(r, m) \/ BeginDisable(r, m)
          \/ ReadLatest(r) \/ SkipScript(r) \/ RefuseScript(r) \/ InsertVersion(r)
          \/ RunStatement(r) \/ Commit(r) \/ FinishMigrate(r)
          \/ ListTables(r) \/ DropTable(r)
          \/ Fail(r)
    \/ Restart

Spec == Init /\ [][Next]_vars

-----------------------------------------------------------------------------
(***************************************************************************)
(* Properties                                                              *)
(***************************************************************************)

Call ==
    [pc : {"idle", "latest", "next", "run", "list", "drop"}, mount : Mount \cup {None},
     latest : Nat \cup {0 - 1}, script : Nat, next : Nat,
     todo : SUBSET (Mount \X Table)]

\* The types of the variables
TypeOK ==
    /\ mounts \subseteq Mount
    /\ versions \subseteq Mount \X Nat
    /\ tables \subseteq Mount \X Table
    /\ tx \in [by : Request \cup {None}, versions : SUBSET (Mount \X Nat),
               tables : SUBSET (Mount \X Table)]
    /\ req \in [Request -> Call]
    /\ release \in Releases
    /\ used \subseteq Mount
    /\ whole \in [Mount -> Nat]
    /\ cut \subseteq Mount
    /\ faults \in Nat

\* The tables that the statements at these places make: those whose last
\* CREATE or DROP is a CREATE.
SchemaOf(m, places) ==
    LET At(p) == Scripts[m][p[1]][p[2]]
        Later(q, p) == q[1] > p[1] \/ (q[1] = p[1] /\ q[2] > p[2])
        Drops(t) == {q \in places : At(q).kind = "drop" /\ At(q).table = t}
    IN  {At(p).table : p \in {q \in places :
            At(q).kind = "create_table" /\ \A d \in Drops(At(q).table) : Later(q, d)}}

\* ... those of the first k scripts
Schema(m, k) == SchemaOf(m, Places(m, k))

\* However migrations of one mount race with each other, fail or are cut off
\* by a crash, the recorded versions are the first ones without a gap, and the
\* tables are those that just these scripts make: no script is applied in
\* part or twice (the transaction in migrate).
MigratedInWhole ==
    \A m \in mounts :
        LET applied == VersionsOf(versions, m)
        IN  /\ applied = 0 .. Cardinality(applied) - 1
            /\ Owned(tables, m) = {<<m, t>> : t \in Schema(m, Cardinality(applied))}

\* A migration that runs while its mount is being disabled leaves no tables
\* behind: those of a mount that is gone are still to be dropped, or the
\* disable was cut short (the foreign key of the versions; remove_mount
\* deletes the row before it lists the tables).
NoTablesLeft ==
    \A t \in tables :
        \/ t[1] \in mounts \cup cut
        \/ \E r \in Request :
              /\ req[r].mount = t[1]
              /\ \/ req[r].pc = "list"
                 \/ req[r].pc = "drop" /\ t \in req[r].todo

\* Once the running release's migrate has answered Ok, every statement of its
\* backends finds the tables it names, and they are those of its own mount:
\* what it names is reached by the walk over the statement and was made by the
\* scripts.
BackendsFindTheirTables ==
    \A m \in mounts :
        whole[m] = release => \A stmt \in Statements[m][release] : TablesOf(m, stmt) \subseteq Owned(tables, m)
=============================================================================
