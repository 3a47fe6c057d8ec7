------------------------------ MODULE Userpass ------------------------------
(***************************************************************************)
(* The userpass backend and who its users log in as: the handlers of       *)
(* covert-userpass-auth query by query, with the entities and aliases of   *)
(* the server by which the lease layer turns a login into a token.         *)
(*                                                                         *)
(* One namespace with one path, at which auth mounts follow each other: a  *)
(* login checks the password in the table of the mount that it was routed  *)
(* to, and its alias is looked up by path.  A hash is known by its         *)
(* password.  Entities and the token that follows are AuthTokens' subject, *)
(* the tables that of Migrations.                                          *)
(*                                                                         *)
(* BackendProofs extends this module beside PsqlBackend: hence the names   *)
(* UserpassInit, UserpassNext and UserpassSpec.                            *)
(***************************************************************************)
EXTENDS Requests, FiniteSets

CONSTANTS
    Mount,          \* mounts, one after the other
    User,
    Password,
    Entity

ASSUME UserpassAssumption == None \notin Mount \cup Password \cup Entity

VARIABLES
    mount,          \* the mount that has a row and a route, or None
    tables,         \* the mounts that have a table USERS
    used,           \* mounts there have ever been
    accounts,       \* USERS: mount -> user -> the password, or None
    aliases,        \* ENTITY_ALIASES, with the mount at the path of that time
    handlers        \* the requests in progress

userpassVars == <<mount, tables, used, accounts, aliases, handlers>>

AtRest == [pc |-> "idle", mount |-> None, user |-> None, password |-> None, new |-> None,
           entity |-> None, todo |-> {}, held |-> {}, owners |-> {}]

UserpassInit ==
    /\ mount = None
    /\ tables = {}
    /\ used = {}
    /\ accounts = [m \in Mount |-> [u \in User |-> None]]
    /\ aliases = {}
    /\ handlers = [r \in Request |-> AtRest]

-----------------------------------------------------------------------------
(***************************************************************************)
(* What a login or a change may rely on: held are the passwords that its   *)
(* user had at any time since it arrived; for a login, owners are the      *)
(* entities that its user was an alias of.                                 *)
(***************************************************************************)

OwnersIn(as, m, u) == {a.entity : a \in {b \in as : b.mount = m /\ b.user = u}}

\* The requests h, after a step to the users us and the aliases as
Seen(h, us, as) ==
    [r \in Request |->
        IF h[r].password = None THEN h[r]
        ELSE [h[r] EXCEPT
                !.held = @ \cup ({us[h[r].mount][h[r].user]} \ {None}),
                !.owners = IF h[r].new = None THEN @ \cup OwnersIn(as, h[r].mount, h[r].user) ELSE @]]

SetReq(r, h) == handlers' = Seen([handlers EXCEPT ![r] = h], accounts', aliases')
Done(r) == SetReq(r, AtRest)
NoReq == handlers' = Seen(handlers, accounts', aliases')

-----------------------------------------------------------------------------
(***************************************************************************)
(* The mounts at the path                                                  *)
(***************************************************************************)

CreateMount(m) ==
    /\ mount = None
    /\ m \notin used
    /\ mount' = m
    /\ tables' = tables \cup {m}
    /\ used' = used \cup {m}
    /\ UNCHANGED <<accounts, aliases>>
    /\ NoReq

\* Mutant: the aliases do not refer to the mount.
DisableKeepsAliases ==
    /\ mount # None
    /\ mount' = None
    /\ UNCHANGED <<tables, used, accounts, aliases>>
    /\ NoReq

\* The row is deleted, and the aliases with it; a handler that was called
\* before goes on.
Disable ==
    /\ mount # None
    /\ mount' = None
    /\ aliases' = {}
    /\ UNCHANGED <<tables, used, accounts>>
    /\ NoReq

DropTable(m) ==
    /\ m \in tables \ {mount}
    /\ tables' = tables \ {m}
    /\ accounts' = [accounts EXCEPT ![m] = [u \in User |-> None]]
    /\ UNCHANGED <<mount, used, aliases>>
    /\ NoReq

-----------------------------------------------------------------------------
(***************************************************************************)
(* The aliases of the entities, which are all there                        *)
(***************************************************************************)

BeginAttach(r, e, todo) ==
    /\ handlers[r].pc = "idle"
    /\ UNCHANGED <<mount, tables, used, accounts, aliases>>
    /\ SetReq(r, [AtRest EXCEPT !.pc = "attach", !.entity = e, !.todo = todo])

\* An entity has one alias for a mount; different entities may have the same.
MayAttach(e) ==
    /\ mount # None
    /\ \A a \in aliases : a.entity # e

\* An alias that cannot be attached is passed over.
AttachAlias(r) ==
    /\ handlers[r].pc = "attach"
    /\ LET e == handlers[r].entity
       IN  \E u \in handlers[r].todo :
             /\ \/ MayAttach(e) /\ aliases' = aliases \cup {[mount |-> mount, user |-> u, entity |-> e]}
                \/ UNCHANGED aliases
             /\ UNCHANGED <<mount, tables, used, accounts>>
             /\ IF handlers[r].todo = {u} THEN Done(r)
                ELSE SetReq(r, [handlers[r] EXCEPT !.todo = @ \ {u}])

RemoveAlias(u, e) ==
    /\ aliases' = {a \in aliases : ~ (a.user = u /\ a.entity = e)}
    /\ UNCHANGED <<mount, tables, used, accounts>>
    /\ NoReq

-----------------------------------------------------------------------------
(***************************************************************************)
(* The backend.  A request is routed to the mount there is; each query     *)
(* fails if the table is gone, and may fail otherwise.                     *)
(***************************************************************************)

Route(r, pc, u, p, new) ==
    /\ handlers[r].pc = "idle"
    /\ mount # None
    /\ UNCHANGED <<mount, tables, used, accounts, aliases>>
    /\ SetReq(r, [AtRest EXCEPT !.pc = pc, !.mount = mount, !.user = u, !.password = p, !.new = new])

BeginCreate(r, u, p) == Route(r, "create", u, None, p)
BeginRemove(r, u) == Route(r, "remove", u, None, None)
BeginLogin(r, u, p) == Route(r, "login", u, p, None)
BeginUpdate(r, u, p, new) == Route(r, "update", u, p, new)

SetUser(h, p) == accounts' = [accounts EXCEPT ![h.mount][h.user] = p]

\* INSERT: the name is the key.
CreateUser(r) ==
    /\ handlers[r].pc = "create"
    /\ handlers[r].mount \in tables
    /\ accounts[handlers[r].mount][handlers[r].user] = None
    /\ SetUser(handlers[r], handlers[r].new)
    /\ UNCHANGED <<mount, tables, used, aliases>>
    /\ Done(r)

RemoveUser(r) ==
    /\ handlers[r].pc = "remove"
    /\ handlers[r].mount \in tables
    /\ SetUser(handlers[r], None)
    /\ UNCHANGED <<mount, tables, used, aliases>>
    /\ Done(r)

\* user_by_username_and_password, of login and of update_user_password
CheckPassword(r) ==
    /\ handlers[r].pc \in {"login", "update"}
    /\ handlers[r].mount \in tables
    /\ accounts[handlers[r].mount][handlers[r].user] = handlers[r].password
    /\ UNCHANGED <<mount, tables, used, accounts, aliases>>
    /\ SetReq(r, [handlers[r] EXCEPT !.pc = IF @ = "login" THEN "alias" ELSE "write"])

\* Mutant: INSERT OR REPLACE
UpdateOrInsert(r) ==
    /\ handlers[r].pc = "write"
    /\ handlers[r].mount \in tables
    /\ SetUser(handlers[r], handlers[r].new)
    /\ UNCHANGED <<mount, tables, used, aliases>>
    /\ Done(r)

\* UPDATE; whether there is still a row is not looked at.
UpdatePassword(r) ==
    /\ handlers[r].pc = "write"
    /\ handlers[r].mount \in tables
    /\ IF accounts[handlers[r].mount][handlers[r].user] = None THEN UNCHANGED accounts
       ELSE SetUser(handlers[r], handlers[r].new)
    /\ UNCHANGED <<mount, tables, used, aliases>>
    /\ Done(r)

\* The lease layer: get_entity_from_alias, for the path of the mount.  Of
\* several entities any one may be found.
LookupAlias(r) ==
    /\ handlers[r].pc = "alias"
    /\ UNCHANGED <<mount, tables, used, accounts, aliases>>
    /\ \E a \in {b \in aliases : b.user = handlers[r].user} :
          SetReq(r, [handlers[r] EXCEPT !.pc = "token", !.entity = a.entity])

\* The token is created, and answered.
GiveToken(r) ==
    /\ handlers[r].pc = "token"
    /\ UNCHANGED <<mount, tables, used, accounts, aliases>>
    /\ Done(r)

\* A query finds nothing, a password is wrong, or a query fails.
Refuse(r) ==
    /\ handlers[r].pc # "idle"
    /\ UNCHANGED <<mount, tables, used, accounts, aliases>>
    /\ Done(r)

UserpassNext ==
    \/ \E m \in Mount : CreateMount(m) \/ DropTable(m)
    \/ Disable
    \/ \E e \in Entity, u \in User : RemoveAlias(u, e)
    \/ \E r \in Request :
          \/ \E e \in Entity, todo \in (SUBSET User) \ {{}} : BeginAttach(r, e, todo)
          \/ \E u \in User :
                \/ BeginRemove(r, u)
                \/ \E p \in Password : BeginCreate(r, u, p) \/ BeginLogin(r, u, p)
                \/ \E p, new \in Password : BeginUpdate(r, u, p, new)
          \/ AttachAlias(r)
          \/ CreateUser(r) \/ RemoveUser(r) \/ CheckPassword(r) \/ UpdatePassword(r)
          \/ LookupAlias(r) \/ GiveToken(r)
          \/ Refuse(r)

UserpassSpec == UserpassInit /\ [][UserpassNext]_userpassVars

-----------------------------------------------------------------------------
(***************************************************************************)
(* Properties                                                              *)
(***************************************************************************)

\* Whoever gets a token has given a password that the user had at some time
\* since the login arrived, and gets it for an entity that the user was an
\* alias of meanwhile, in the mount that checked the password: users who were
\* removed or changed, aliases that were removed, and those of an earlier mount
\* at the same path do not count.  Only if that mount was disabled during the
\* login may the alias be one of its successor (login; the foreign key of the
\* aliases; get_entity_from_alias).
LoginsAreJustified ==
    \A r \in Request :
        handlers[r].pc = "token" =>
            /\ handlers[r].password \in handlers[r].held
            /\ handlers[r].entity \in handlers[r].owners \/ handlers[r].mount # mount

\* A user's password is replaced only by a request that has given one which the
\* user had meanwhile, and a user who was removed, by a request that overlaps or
\* by the drop of the table, comes back only by a creation, never by a change
\* that was checked before the removal (update_user_password).
PasswordsAreJustified ==
    [][\A m \in Mount, u \in User :
          accounts'[m][u] \notin {accounts[m][u], None} =>
              \E r \in Request :
                  /\ handlers[r].mount = m /\ handlers[r].user = u
                  /\ handlers[r].new = accounts'[m][u]
                  /\ IF accounts[m][u] = None THEN handlers[r].pc = "create"
                     ELSE handlers[r].pc = "write" /\ handlers[r].password \in handlers[r].held]_userpassVars
=============================================================================
