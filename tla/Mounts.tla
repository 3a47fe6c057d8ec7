------------------------------- MODULE Mounts -------------------------------
(***************************************************************************)
(* Mounts, the router and namespaces of an unsealed Covert server.         *)
(*                                                                         *)
(*   - the tables NAMESPACES, MOUNTS and LEASES with their foreign keys,   *)
(*     and the tables in which each mounted backend keeps its data;        *)
(*   - the router's table, which only the process has;                     *)
(*   - requests: a mount is created or disabled, a namespace is created,   *)
(*     or deleted with everything in it, a backend issues a leased secret; *)
(*   - revocations, by the worker or an operator, whose details are the    *)
(*     subject of ExpirationManager: here they succeed, fail or give up.   *)
(*                                                                         *)
(* No lock spans a request: every await of a handler that matters to       *)
(* others separates two actions.  A mount is known by its id to the router *)
(* and to its tables, and by its namespace and path to everything else.    *)
(* Paths are those that a mount may have: not under sys/, auth/ for        *)
(* credential backends and only for these.                                 *)
(***************************************************************************)
EXTENDS Naturals, Sequences

CONSTANTS
    Request,        \* requests that can be in progress at once
    Namespace,      \* ids of namespaces (v4 UUIDs: never reused)
    Root,           \* the root namespace
    MountId,        \* ids of mounts (v4 UUIDs: never reused)
    Path,           \* mount paths
    Covers,         \* <<p, q>>: q LIKE p || '%'
    Secret,         \* leased secrets
    None,           \* no value
    FaultKinds,     \* which of "cancel" and "reopen" can happen
    MaxFaults       \* bound: how many faults a behaviour has

ASSUME MountsAssumption ==
    /\ Root \in Namespace
    /\ None \notin MountId
    /\ Namespace \cap MountId = {}
    /\ MaxFaults \in Nat
    /\ Covers \subseteq Path \X Path
    /\ \A p \in Path : <<p, p>> \in Covers

VARIABLES
    \* on disk
    namespaces,     \* NAMESPACES but the root
    mounts,         \* MOUNTS
    leases,         \* LEASES
    tables,         \* the mounts whose backend has its tables
    \* elsewhere
    routes,         \* keys of Router::backend_lookup but "system"
    owner,          \* the mount that issued each secret
    live,           \* the secrets that their backend has not revoked
    req,            \* the requests in progress
    \* history
    used,           \* ids that were given to a namespace or a mount
    ready,          \* mounts whose creation succeeded
    stuck,          \* mounts that were left stored and not routed
    registered,     \* secrets whose lease was stored while their mount was
    abandoned,      \* secrets whose lease was given up
    faults          \* how many faults happened

disk    == <<namespaces, mounts, leases, tables>>
backend == <<owner, live>>
history == <<used, ready, stuck, registered, abandoned, faults>>
vars    == <<disk, routes, backend, req, history>>

-----------------------------------------------------------------------------
(***************************************************************************)
(* Types and null values                                                   *)
(***************************************************************************)

Place == [ns : Namespace, path : Path]

Lease == [secret : Secret, at : Place]

\* A call of delete_namespace: the children and the paths still to remove.
Frame == [ns : Namespace, children : SUBSET Namespace, paths : SUBSET Path]

\* The value of pc is the next step of the handler:
\*   mount              insert, migrate;
\*   a leased secret    route, issue, register;
\*   remove_mount       find, list, revoke (and unroute), delete, drop;
\*   delete_namespace   children, mounts (and the deletion of the row).
\* calls is the stack of delete_namespace, empty for any other request.
Handler == [pc    : {"idle", "insert", "migrate", "route", "issue", "register",
                     "find", "list", "revoke", "delete", "drop", "children", "mounts"},
            at    : Place \cup {None},
            id    : MountId \cup {None},
            todo  : SUBSET Lease,
            calls : Seq(Frame)]
Idle == [pc |-> "idle", at |-> None, id |-> None, todo |-> {}, calls |-> << >>]

TypeOK ==
    /\ namespaces \subseteq [id : Namespace, parent : Namespace]
    /\ mounts \subseteq [id : MountId, at : Place]
    /\ leases \subseteq Lease
    /\ tables \subseteq MountId
    /\ routes \subseteq MountId
    /\ owner \in [Secret -> MountId \cup {None}]
    /\ live \subseteq Secret
    /\ req \in [Request -> Handler]
    /\ used \subseteq Namespace \cup MountId
    /\ ready \subseteq MountId
    /\ stuck \subseteq MountId
    /\ registered \subseteq Secret
    /\ abandoned \subseteq Secret
    /\ faults \in Nat

Init ==
    /\ namespaces = {}
    /\ mounts = {}
    /\ leases = {}
    /\ tables = {}
    /\ routes = {}
    /\ owner = [s \in Secret |-> None]
    /\ live = {}
    /\ req = [r \in Request |-> Idle]
    /\ used = {Root}
    /\ ready = {}
    /\ stuck = {}
    /\ registered = {}
    /\ abandoned = {}
    /\ faults = 0

-----------------------------------------------------------------------------
(***************************************************************************)
(* Tables and requests                                                     *)
(***************************************************************************)

Exists(n) == n = Root \/ \E x \in namespaces : x.id = n
Children(n) == {x.id : x \in {y \in namespaces : y.parent = n}}
MountsIn(n) == {m \in mounts : m.at.ns = n}
Stored == {m.id : m \in mounts}

\* longest_prefix: the mount that a request to the path belongs to
Target(m, n, p) ==
    LET prefixes == {x \in MountsIn(n) : <<x.at.path, p>> \in Covers}
    IN  m \in prefixes /\ \A x \in prefixes : <<x.at.path, m.at.path>> \in Covers

\* Request r passes the namespace layer.
MayBegin(r, n) == req[r].pc = "idle" /\ Exists(n)

SetReq(r, h) == req' = [req EXCEPT ![r] = h]
Goto(r, pc) == SetReq(r, [req[r] EXCEPT !.pc = pc])
Done(r) == SetReq(r, Idle)

-----------------------------------------------------------------------------
(***************************************************************************)
(* mount                                                                   *)
(***************************************************************************)

\* No mount covers the path; the backend is created and routed.
BeginMount(r, at, id) ==
    /\ MayBegin(r, at.ns)
    /\ ~ \E m \in MountsIn(at.ns) : <<m.at.path, at.path>> \in Covers
    /\ id \notin used
    /\ used' = used \cup {id}
    /\ routes' = routes \cup {id}
    /\ SetReq(r, [Idle EXCEPT !.pc = "insert", !.at = at, !.id = id])
    /\ UNCHANGED <<disk, backend, ready, stuck, registered, abandoned, faults>>

\* The INSERT, which fails if the namespace was deleted, or the path taken,
\* meanwhile; the route stays (TODO in the code).
InsertMount(r) ==
    /\ req[r].pc = "insert"
    /\ LET at == req[r].at
       IN  \/ /\ Exists(at.ns)
              /\ \A m \in mounts : m.at # at
              /\ mounts' = mounts \cup {[id |-> req[r].id, at |-> at]}
              /\ Goto(r, "migrate")
           \/ /\ ~ Exists(at.ns) \/ \E m \in mounts : m.at = at
              /\ Done(r)
              /\ UNCHANGED mounts
    /\ UNCHANGED <<namespaces, leases, tables, routes, backend, history>>

\* The version row refers to the mount: without it the migration fails.
MigrateMount(r) ==
    /\ req[r].pc = "migrate"
    /\ \/ /\ req[r].id \in Stored
          /\ tables' = tables \cup {req[r].id}
          /\ ready' = ready \cup {req[r].id}
       \/ /\ req[r].id \notin Stored
          /\ UNCHANGED <<tables, ready>>
    /\ Done(r)
    /\ UNCHANGED <<namespaces, mounts, leases, routes, backend, used, stuck, registered, abandoned, faults>>

-----------------------------------------------------------------------------
(***************************************************************************)
(* A backend issues a leased secret                                        *)
(***************************************************************************)

\* Router::route reads the mount ...
BeginIssue(r, n, p) ==
    /\ MayBegin(r, n)
    /\ \E m \in mounts :
          /\ Target(m, n, p)
          /\ SetReq(r, [Idle EXCEPT !.pc = "route", !.at = m.at, !.id = m.id])
    /\ UNCHANGED <<disk, routes, backend, history>>

\* ... and then looks up its backend.
RouteRequest(r) ==
    /\ req[r].pc = "route"
    /\ \/ req[r].id \in routes /\ Goto(r, "issue")
       \/ req[r].id \notin routes /\ Done(r)
    /\ UNCHANGED <<disk, routes, backend, history>>

\* The backend refuses, for want of its tables or for other reasons, or it
\* creates the secret.
Issue(r) ==
    /\ req[r].pc = "issue"
    /\ \/ /\ Done(r)
          /\ UNCHANGED backend
       \/ /\ req[r].id \in tables
          /\ \E s \in Secret :
                /\ owner[s] = None
                /\ owner' = [owner EXCEPT ![s] = req[r].id]
                /\ live' = live \cup {s}
                /\ SetReq(r, [req[r] EXCEPT !.pc = "register",
                                        !.todo = {[secret |-> s, at |-> req[r].at]}])
    /\ UNCHANGED <<disk, routes, history>>

\* The lease names the mount by its path; the INSERT fails if no mount has
\* the path any more, and the secret stays without a lease.
Register(r) ==
    /\ req[r].pc = "register"
    /\ LET here == {m \in mounts : m.at = req[r].at}
       IN  /\ leases' = IF here = {} THEN leases ELSE leases \cup req[r].todo
           /\ registered' = registered \cup
                  {l.secret : l \in {k \in req[r].todo : \E m \in here : m.id = owner[k.secret]}}
    /\ Done(r)
    /\ UNCHANGED <<namespaces, mounts, tables, routes, backend, used, ready, stuck, abandoned, faults>>

-----------------------------------------------------------------------------
(***************************************************************************)
(* Revocation                                                              *)
(***************************************************************************)

\* A revoke request for lease l, which goes to the mount that has its path
\* now: the lease is deleted after a success and after the last failure.
Revoke(l) ==
    \/ /\ \E m \in mounts :
             /\ m.at = l.at
             /\ m.id \in routes
             /\ live' = IF owner[l.secret] = m.id THEN live \ {l.secret} ELSE live
       /\ leases' = leases \ {l}
       /\ UNCHANGED abandoned
    \/ UNCHANGED <<leases, live, abandoned>>
    \/ /\ l \in leases
       /\ leases' = leases \ {l}
       /\ abandoned' = abandoned \cup {l.secret}
       /\ UNCHANGED live

\* By the worker or an operator
RevokeLease ==
    /\ \E l \in leases : Revoke(l)
    /\ UNCHANGED <<namespaces, mounts, tables, routes, owner, req, used, ready, stuck, registered, faults>>

-----------------------------------------------------------------------------
(***************************************************************************)
(* remove_mount                                                            *)
(***************************************************************************)

BeginDisable(r, at) ==
    /\ MayBegin(r, at.ns)
    /\ SetReq(r, [Idle EXCEPT !.pc = "find", !.at = at])
    /\ UNCHANGED <<disk, routes, backend, history>>

\* get_by_path
FindMount(r) ==
    /\ req[r].pc = "find"
    /\ \/ \E m \in mounts :
             /\ m.at = req[r].at
             /\ SetReq(r, [req[r] EXCEPT !.pc = "list", !.id = m.id])
       \/ /\ \A m \in mounts : m.at # req[r].at
          /\ Done(r)
    /\ UNCHANGED <<disk, routes, backend, history>>

\* list_by_mount_prefix: the leases of the mounts that the path covers
ListLeases(r) ==
    /\ req[r].pc = "list"
    /\ LET at == req[r].at
           listed == {l \in leases : l.at.ns = at.ns /\ <<at.path, l.at.path>> \in Covers}
       IN  SetReq(r, [req[r] EXCEPT !.pc = "revoke", !.todo = listed])
    /\ UNCHANGED <<disk, routes, backend, history>>

\* One of the leases listed, which may have been deleted meanwhile; errors
\* are logged.
RevokeListed(r, l) ==
    /\ req[r].pc = "revoke"
    /\ l \in req[r].todo
    /\ Revoke(l)
    /\ SetReq(r, [req[r] EXCEPT !.todo = @ \ {l}])
    /\ UNCHANGED <<namespaces, mounts, tables, routes, owner, used, ready, stuck, registered, faults>>

\* Mutant: the answer of Router::remove is ignored.
UnrouteAnyway(r) ==
    /\ req[r].pc = "revoke"
    /\ req[r].todo = {}
    /\ routes' = routes \ {req[r].id}
    /\ Goto(r, "delete")
    /\ UNCHANGED <<disk, backend, history>>

\* Router::remove: of several requests for one mount, one goes on.
Unroute(r) ==
    /\ req[r].pc = "revoke"
    /\ req[r].todo = {}
    /\ \/ /\ req[r].id \in routes
          /\ routes' = routes \ {req[r].id}
          /\ Goto(r, "delete")
       \/ /\ req[r].id \notin routes
          /\ Done(r)
          /\ UNCHANGED routes
    /\ UNCHANGED <<disk, backend, history>>

\* Mutant: the foreign key of LEASES is not declared.
DeleteMountUnchecked(r) ==
    /\ req[r].pc = "delete"
    /\ mounts' = {m \in mounts : m.at # req[r].at}
    /\ Goto(r, "drop")
    /\ UNCHANGED <<namespaces, leases, tables, routes, backend, history>>

\* Mutant: the tables are dropped first.
DropThenDelete(r) ==
    /\ req[r].pc = "delete"
    /\ tables' = tables \ {req[r].id}
    /\ \/ /\ \A l \in leases : l.at # req[r].at
          /\ mounts' = {m \in mounts : m.at # req[r].at}
          /\ Goto(r, "drop")
          /\ UNCHANGED stuck
       \/ /\ \E l \in leases : l.at = req[r].at
          /\ stuck' = stuck \cup {req[r].id}
          /\ Done(r)
          /\ UNCHANGED mounts
    /\ UNCHANGED <<namespaces, leases, routes, backend, used, ready, registered, abandoned, faults>>

\* remove_by_path, which the foreign key of LEASES refuses while a lease has
\* the path.
DeleteMount(r) ==
    /\ req[r].pc = "delete"
    /\ \/ /\ \A l \in leases : l.at # req[r].at
          /\ mounts' = {m \in mounts : m.at # req[r].at}
          /\ Goto(r, "drop")
          /\ UNCHANGED stuck
       \/ /\ \E l \in leases : l.at = req[r].at
          /\ stuck' = stuck \cup {req[r].id}
          /\ Done(r)
          /\ UNCHANGED mounts
    /\ UNCHANGED <<namespaces, leases, tables, routes, backend, used, ready, registered, abandoned, faults>>

\* The tables of the mount are listed and dropped.  remove_mount returns, to
\* delete_namespace if that called it.
DropTables(r) ==
    /\ req[r].pc = "drop"
    /\ tables' = tables \ {req[r].id}
    /\ IF req[r].calls = << >> THEN Done(r)
       ELSE SetReq(r, [Idle EXCEPT !.pc = "mounts", !.calls = req[r].calls])
    /\ UNCHANGED <<namespaces, mounts, leases, routes, backend, history>>

-----------------------------------------------------------------------------
(***************************************************************************)
(* Namespaces                                                              *)
(***************************************************************************)

CreateNamespace(n, p) ==
    /\ Exists(p)
    /\ n \notin used
    /\ used' = used \cup {n}
    /\ namespaces' = namespaces \cup {[id |-> n, parent |-> p]}
    /\ UNCHANGED <<mounts, leases, tables, routes, backend, req, ready, stuck, registered, abandoned, faults>>

\* A call of delete_namespace, which begins with the list of the children
Call(n) == [ns |-> n, children |-> Children(n), paths |-> {}]

BeginDeleteNamespace(r, n) ==
    /\ req[r].pc = "idle"
    /\ n # Root
    /\ Exists(n)
    /\ SetReq(r, [Idle EXCEPT !.pc = "children", !.calls = <<Call(n)>>])
    /\ UNCHANGED <<disk, routes, backend, history>>

Top(r) == Head(req[r].calls)
Replace(r, pc, frame) ==
    SetReq(r, [req[r] EXCEPT !.pc = pc, !.calls = <<frame>> \o Tail(@)])

DeleteChild(r, c) ==
    /\ req[r].pc = "children"
    /\ c \in Top(r).children
    /\ LET top == [Top(r) EXCEPT !.children = @ \ {c}]
       IN  SetReq(r, [req[r] EXCEPT !.calls = <<Call(c), top>> \o Tail(@)])
    /\ UNCHANGED <<disk, routes, backend, history>>

ListMounts(r) ==
    /\ req[r].pc = "children"
    /\ Top(r).children = {}
    /\ Replace(r, "mounts", [Top(r) EXCEPT !.paths = {m.at.path : m \in MountsIn(Top(r).ns)}])
    /\ UNCHANGED <<disk, routes, backend, history>>

RemoveNext(r, p) ==
    /\ req[r].pc = "mounts"
    /\ p \in Top(r).paths
    /\ LET top == [Top(r) EXCEPT !.paths = @ \ {p}]
       IN  SetReq(r, [req[r] EXCEPT !.pc = "find",
                                    !.at = [ns |-> top.ns, path |-> p],
                                    !.calls = <<top>> \o Tail(@)])
    /\ UNCHANGED <<disk, routes, backend, history>>

\* The row is deleted, which the foreign keys of NAMESPACES and MOUNTS refuse
\* while there are children or mounts, and delete_namespace returns.
DeleteNamespace(r) ==
    /\ req[r].pc = "mounts"
    /\ Top(r).paths = {}
    /\ LET n == Top(r).ns
           empty == Children(n) = {} /\ MountsIn(n) = {}
       IN  \/ /\ Exists(n) /\ empty
              /\ namespaces' = {x \in namespaces : x.id # n}
              /\ IF Len(req[r].calls) = 1 THEN Done(r)
                 ELSE SetReq(r, [req[r] EXCEPT !.pc = "children", !.calls = Tail(@)])
           \/ /\ ~ (Exists(n) /\ empty)
              /\ Done(r)
              /\ UNCHANGED namespaces
    /\ UNCHANGED <<mounts, leases, tables, routes, backend, history>>

-----------------------------------------------------------------------------
(***************************************************************************)
(* Faults                                                                  *)
(***************************************************************************)

Fault(kind) ==
    /\ kind \in FaultKinds
    /\ faults < MaxFaults
    /\ faults' = faults + 1

\* A query fails; or, as long as a secret has no lease yet, the server's
\* timeout drops the lease registration layer.  (A statement that takes effect
\* all the same is the handler's step followed by Cancel.)
Cancel(r) ==
    /\ Fault("cancel")
    /\ req[r].pc # "idle"
    /\ stuck' = IF req[r].pc = "delete" THEN stuck \cup {req[r].id} ELSE stuck
    /\ Done(r)
    /\ UNCHANGED <<disk, routes, backend, used, ready, registered, abandoned>>

\* Mutant: nothing is routed after the unseal.
ReopenWithoutRoutes ==
    /\ Fault("reopen")
    /\ routes' = {}
    /\ req' = [r \in Request |-> Idle]
    /\ UNCHANGED <<disk, backend, used, ready, stuck, registered, abandoned>>

\* The process is restarted, or sealed, and unsealed: the mounts of the root
\* namespace are routed, and those of other namespaces are not.
Reopen ==
    /\ Fault("reopen")
    /\ routes' = {m.id : m \in MountsIn(Root)}
    /\ stuck' = stuck \cup {m.id : m \in mounts \ MountsIn(Root)}
    /\ req' = [r \in Request |-> Idle]
    /\ UNCHANGED <<disk, backend, used, ready, registered, abandoned>>

-----------------------------------------------------------------------------
Begin(r) ==
    \/ \E at \in Place, id \in MountId : BeginMount(r, at, id)
    \/ \E n \in Namespace, p \in Path : BeginIssue(r, n, p)
    \/ \E at \in Place : BeginDisable(r, at)
    \/ \E n \in Namespace : BeginDeleteNamespace(r, n)

HandlerStep(r) ==
    \/ InsertMount(r) \/ MigrateMount(r)
    \/ RouteRequest(r) \/ Issue(r) \/ Register(r)
    \/ FindMount(r) \/ ListLeases(r)
    \/ \E l \in Lease : RevokeListed(r, l)
    \/ Unroute(r) \/ DeleteMount(r) \/ DropTables(r)
    \/ \E c \in Namespace : DeleteChild(r, c)
    \/ ListMounts(r)
    \/ \E p \in Path : RemoveNext(r, p)
    \/ DeleteNamespace(r)

Next ==
    \/ \E r \in Request : Begin(r) \/ HandlerStep(r) \/ Cancel(r)
    \/ \E n, p \in Namespace : CreateNamespace(n, p)
    \/ RevokeLease
    \/ Reopen

Spec == Init /\ [][Next]_vars

-----------------------------------------------------------------------------
(***************************************************************************)
(* Properties                                                              *)
(***************************************************************************)

\* DELETE FROM MOUNTS names a path, not an id: it removes the mount that the
\* request looked up and unrouted, never one that took its path since,
\* however many requests disable and create mounts at one path.
DisableHitsItsMount ==
    [][\A m \in mounts \ mounts' :
          \E r \in Request : req[r].pc = "delete" /\ req[r].id = m.id]_vars

\* A mount is gone only when what it issued is: every secret that had a lease
\* on it is revoked, or was given up by the expiration manager ("ON DELETE
\* RESTRICT to ensure leases are properly revoked when a secret engine is
\* disabled").
LeasesRevokedFirst ==
    \A s \in registered :
        s \in live /\ owner[s] \notin Stored => s \in abandoned

\* A mount that can still be found has its tables: no disable, complete or
\* not, drops the tables of a mount that stays (remove_mount).
StoredHasTables == ready \cap Stored \subseteq tables

\* A stored mount is reachable, but for those whose removal has begun and
\* failed, and those of child namespaces after a restart (mount routes before
\* it stores, remove_mount unroutes before it deletes).
StoredIsRouted ==
    \A m \in mounts :
        \/ m.id \in routes \cup stuck
        \/ \E r \in Request : req[r].pc = "delete" /\ req[r].id = m.id
=============================================================================
