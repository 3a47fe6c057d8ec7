---------------------------- MODULE PsqlBackend ----------------------------
(***************************************************************************)
(* One mount of the Postgres secrets engine (covert-psql): the connection  *)
(* it stores (table CONNECTION), the connection pool made from it, the     *)
(* read-write lock around the pool, and the requests that configure the    *)
(* connection or create, renew and revoke users of the database.           *)
(*                                                                         *)
(* The lock is tokio's: waiters are served in the order they came, and a   *)
(* reader keeps its guard until its transaction ended.  A handler runs in  *)
(* a task of its own and is not stopped when its caller gives up; only a   *)
(* crash of the process stops it.  Each await is a step of its own.        *)
(*                                                                         *)
(* A connection is named by the database it leads to.  A secret is a       *)
(* username: made for one role, with a fresh UUID.                         *)
(***************************************************************************)
EXTENDS Requests, Naturals, FiniteSets, Sequences

CONSTANTS
    Mounter,    \* new_psql_backend, which opens the pool when it is mounted
    Db,         \* databases
    Secret,     \* usernames
    Role,       \* roles
    RoleOf,     \* the role a username is made for
    Lenient,    \* roles whose revocation_sql succeeds when the user does not
                \* exist (DROP ROLE IF EXISTS)
    MaxFaults   \* bound: how many outages, failing queries and crashes

ASSUME PsqlAssumption ==
    /\ IsFiniteSet(Request)
    /\ Mounter \notin Request
    /\ None \notin Db /\ None \notin Secret /\ None \notin Request \cup {Mounter}
    /\ RoleOf \in [Secret -> Role]
    /\ Lenient \subseteq Role
    /\ MaxFaults \in Nat

VARIABLES
    stored,     \* the row of CONNECTION, or None
    roles,      \* the rows of ROLES
    pool,       \* Context.db: the database the pool is connected to, or None
    queue,      \* who waits for Context.db, first come first served
    req,        \* the requests in progress, and Mounter
    users,      \* the users that exist in each database
    up,         \* databases that can be reached
    \* history
    requested,  \* usernames that were made up
    created,    \* users that were created
    leased,     \* secrets that were answered to a client
    confirmed,  \* secrets whose revocation was answered with success
    alone,      \* a request to set the connection, while it has been the only
                \* request since it began, or None
    disturbed,  \* something came between the pool and the stored connection:
                \* a request beside one that sets it, or a failure
    faults      \* how many faults happened

config  == <<stored, roles, pool>>
history == <<requested, created, leased, confirmed, alone, disturbed, faults>>
vars    == <<config, queue, req, users, up, history>>

-----------------------------------------------------------------------------
Actor == Request \cup {Mounter}

\* What a request waits for, or does next:
\*   connect   verify (unless verification is disabled), store, reset,
\*             lookup, dial, install;  a mount: reset to install;
\*   others    role, guard, then tx, with the guard of a pool; or check and,
\*             if a connection is stored, missing and remove.
\* Those of Locking wait for the lock, a reader at guard.
Locking == {"reset", "install", "guard", "missing"}

Handler == [pc : {"idle", "verify", "store", "lookup", "dial", "role", "check",
                  "remove", "tx"} \cup Locking,
            kind   : {"none", "mount", "connect", "issue", "renew", "revoke"},
            db     : Db \cup {None},
            secret : Secret \cup {None}]

Idle == [pc |-> "idle", kind |-> "none", db |-> None, secret |-> None]

Active == {a \in Actor : req[a].pc # "idle"}

TypeOK ==
    /\ stored \in Db \cup {None}
    /\ roles \subseteq Role
    /\ pool \in Db \cup {None}
    /\ queue \in Seq(Actor)
    /\ req \in [Actor -> Handler]
    /\ \A a \in Actor :
          /\ req[a].pc \in {"verify", "store", "dial", "install", "tx"} => req[a].db \in Db
          /\ req[a].kind \in {"issue", "renew", "revoke"} => req[a].secret \in Secret
    /\ users \in [Db -> SUBSET Secret]
    /\ up \subseteq Db
    /\ requested \subseteq Secret
    /\ created \subseteq Secret
    /\ leased \subseteq Secret
    /\ confirmed \subseteq Secret
    /\ alone \in Request \cup {None}
    /\ disturbed \in BOOLEAN
    /\ faults \in Nat

\* A new mount: the tables exist and are empty.
Init ==
    /\ stored = None
    /\ roles = {}
    /\ pool = None
    /\ queue = <<>>
    /\ req = [a \in Actor |-> Idle]
    /\ users = [d \in Db |-> {}]
    /\ up = Db
    /\ requested = {}
    /\ created = {}
    /\ leased = {}
    /\ confirmed = {}
    /\ alone = None
    /\ disturbed = FALSE
    /\ faults = 0

-----------------------------------------------------------------------------
(***************************************************************************)
(* The lock of the pool                                                    *)
(***************************************************************************)

\* Requests that hold a read guard.
Readers == {a \in Actor : req[a].pc = "tx"}

AtHead(a) == queue # <<>> /\ Head(queue) = a

\* Mutant: a handler works on a clone of the pool, without a guard.
MayWriteEarly(a) == AtHead(a)

\* Mutant: pool() keeps its guard until it has dealt with a missing pool.
MayWriteAfterPool(a) == AtHead(a) /\ \A b \in Actor : req[b].pc \notin {"tx", "check", "missing"}

\* The write lock is free for a.
MayWrite(a) == AtHead(a) /\ Readers = {}

\* a goes on to pc, and queues if that takes the lock; q is the queue without it.
Go(a, pc, q) ==
    /\ req' = [req EXCEPT ![a].pc = pc]
    /\ queue' = IF pc \in Locking THEN Append(q, a) ELSE q

\* a answers.
End(a, q) ==
    /\ req' = [req EXCEPT ![a] = Idle]
    /\ queue' = q

Fault ==
    /\ faults < MaxFaults
    /\ faults' = faults + 1

-----------------------------------------------------------------------------
(***************************************************************************)
(* Requests                                                                *)
(***************************************************************************)

\* Requests come in once the backend is mounted.
Begin(r, h) ==
    /\ req[r] = Idle
    /\ req[Mounter] = Idle
    /\ req' = [req EXCEPT ![r] = h]
    /\ alone' = IF Active = {} /\ h.kind = "connect" THEN r ELSE None
    /\ disturbed' = \/ disturbed
                    \/ h.kind = "connect" /\ Active # {}
                    \/ \E a \in Active : req[a].kind = "connect"
    /\ UNCHANGED <<config, queue, users, up, created, leased, confirmed, faults>>

BeginConnect(r, d) ==
    /\ \E pc \in {"verify", "store"} :
          Begin(r, [pc |-> pc, kind |-> "connect", db |-> d, secret |-> None])
    /\ UNCHANGED requested

Begun(kind, s) == [pc |-> "role", kind |-> kind, db |-> None, secret |-> s]

BeginIssue(r, s) ==
    /\ s \notin requested
    /\ requested' = requested \cup {s}
    /\ Begin(r, Begun("issue", s))

\* The expiration manager asks for a secret that it has a lease of, any
\* number of times.
BeginOther(r, s) ==
    /\ s \in leased
    /\ \E kind \in {"renew", "revoke"} : Begin(r, Begun(kind, s))
    /\ UNCHANGED requested

\* path_role_create: a plain INSERT, which an existing role refuses.
CreateRole(ro) ==
    /\ req[Mounter] = Idle
    /\ ro \notin roles
    /\ roles' = roles \cup {ro}
    /\ UNCHANGED <<stored, pool, queue, req, users, up, history>>

-----------------------------------------------------------------------------
(***************************************************************************)
(* path_connection_write and set_pool                                      *)
(***************************************************************************)

\* A pool of its own is opened, and one connection of it tried.
Verify(a) ==
    /\ req[a].pc = "verify"
    /\ IF req[a].db \in up THEN Go(a, "store", queue) ELSE End(a, queue)
    /\ UNCHANGED <<config, users, up, history>>

Store(a) ==
    /\ req[a].pc = "store"
    /\ stored' = req[a].db
    /\ Go(a, "reset", queue)
    /\ UNCHANGED <<roles, pool, users, up, history>>

\* reset_db: the pool is closed under the lock, where no connection is out.
Reset(a) ==
    /\ req[a].pc = "reset"
    /\ MayWrite(a)
    /\ pool' = None
    /\ Go(a, "lookup", Tail(queue))
    /\ UNCHANGED <<stored, roles, users, up, history>>

\* The connection is read back; another request may have replaced or removed
\* it.
Lookup(a) ==
    /\ req[a].pc = "lookup"
    /\ IF stored = None
       THEN End(a, queue)
       ELSE /\ req' = [req EXCEPT ![a].pc = "dial", ![a].db = stored]
            /\ UNCHANGED queue
    /\ UNCHANGED <<config, users, up, history>>

\* Mutant: dials until the database answers.
DialUntilUp(a) ==
    /\ req[a].pc = "dial"
    /\ req[a].db \in up
    /\ Go(a, "install", queue)
    /\ UNCHANGED <<config, users, up, history>>

\* pool_from_config, without the lock.
Dial(a) ==
    /\ req[a].pc = "dial"
    /\ \/ /\ req[a].db \in up
          /\ Go(a, "install", queue)
          /\ UNCHANGED disturbed
       \/ /\ req[a].db \notin up
          /\ End(a, queue)
          /\ disturbed' = TRUE
    /\ UNCHANGED <<config, users, up, requested, created, leased, confirmed, alone, faults>>

\* Mutant: the new pool is dropped, the one in the Context stays.
InstallDropped(a) ==
    /\ req[a].pc = "install"
    /\ MayWrite(a)
    /\ disturbed' = (disturbed /\ alone # a)
    /\ End(a, Tail(queue))
    /\ UNCHANGED <<config, users, up, requested, created, leased, confirmed, alone, faults>>

\* A pool that another request installed meanwhile is overwritten, not closed.
Install(a) ==
    /\ req[a].pc = "install"
    /\ MayWrite(a)
    /\ pool' = req[a].db
    /\ disturbed' = (disturbed /\ alone # a)
    /\ End(a, Tail(queue))
    /\ UNCHANGED <<stored, roles, users, up, requested, created, leased, confirmed, alone, faults>>

-----------------------------------------------------------------------------
(***************************************************************************)
(* The other handlers, and pool()                                          *)
(***************************************************************************)

\* role_repo.get
FindRole(a) ==
    /\ req[a].pc = "role"
    /\ IF RoleOf[req[a].secret] \in roles THEN Go(a, "guard", queue) ELSE End(a, queue)
    /\ UNCHANGED <<config, users, up, history>>

\* The read guard is granted; without a pool it is dropped at once.
Guard(a) ==
    /\ req[a].pc = "guard"
    /\ AtHead(a)
    /\ req' = [req EXCEPT ![a].pc = IF pool = None THEN "check" ELSE "tx", ![a].db = pool]
    /\ queue' = Tail(queue)
    /\ UNCHANGED <<config, users, up, history>>

\* Is a connection stored?
Check(a) ==
    /\ req[a].pc = "check"
    /\ IF stored = None THEN End(a, queue) ELSE Go(a, "missing", queue)
    /\ UNCHANGED <<config, users, up, history>>

\* handle_missing_pool_for_configured_connection resets the pool, which may
\* be there by now ...
Missing(a) ==
    /\ req[a].pc = "missing"
    /\ MayWrite(a)
    /\ pool' = None
    /\ Go(a, "remove", Tail(queue))
    /\ UNCHANGED <<stored, roles, users, up, history>>

\* ... and removes the stored connection.
Remove(a) ==
    /\ req[a].pc = "remove"
    /\ stored' = None
    /\ End(a, queue)
    /\ UNCHANGED <<roles, pool, users, up, history>>

-----------------------------------------------------------------------------
(***************************************************************************)
(* Transactions in the database                                            *)
(***************************************************************************)

\* The secrets of the requests in C, of one kind, that are at work in d.
Touched(C, kind, d) == {s \in Secret : \E a \in C :
    req[a].kind = kind /\ req[a].db = d /\ req[a].secret = s}

\* The transactions of C are committed.
Commit(C) ==
    /\ users' = [d \in Db |-> (users[d] \cup Touched(C, "issue", d)) \ Touched(C, "revoke", d)]
    /\ created' = created \cup UNION {Touched(C, "issue", d) : d \in Db}

\* Mutant: an error of the database is taken for an answer.
RefusedNever(a) == FALSE

\* The database refuses a statement: the user to alter or drop is not there.
Refused(a) ==
    /\ req[a].secret \notin users[req[a].db]
    /\ \/ req[a].kind = "renew"
       \/ req[a].kind = "revoke" /\ RoleOf[req[a].secret] \notin Lenient

Succeed(a) ==
    /\ req[a].pc = "tx"
    /\ req[a].db \in up
    /\ ~ Refused(a)
    /\ Commit({a})
    /\ leased' = IF req[a].kind = "issue" THEN leased \cup {req[a].secret} ELSE leased
    /\ confirmed' = IF req[a].kind = "revoke" THEN confirmed \cup {req[a].secret} ELSE confirmed
    /\ End(a, queue)
    /\ UNCHANGED <<config, up, requested, alone, disturbed, faults>>

\* The statement is refused, or no connection is to be had: an error.
Fail(a) ==
    /\ req[a].pc = "tx"
    /\ req[a].db \notin up \/ Refused(a)
    /\ End(a, queue)
    /\ UNCHANGED <<config, users, up, history>>

\* The connection breaks: an error, though the commit may have been done.
Break(a) ==
    /\ req[a].pc = "tx"
    /\ Fault
    /\ ~ Refused(a)
    /\ \E C \in SUBSET {a} : Commit(C)
    /\ End(a, queue)
    /\ UNCHANGED <<config, up, requested, leased, confirmed, alone, disturbed>>

-----------------------------------------------------------------------------
(***************************************************************************)
(* Faults                                                                  *)
(***************************************************************************)

Outage(d) ==
    /\ d \in up
    /\ Fault
    /\ up' = up \ {d}
    /\ UNCHANGED <<config, queue, req, users, requested, created, leased, confirmed, alone, disturbed>>

Recovery(d) ==
    /\ d \notin up
    /\ up' = up \cup {d}
    /\ UNCHANGED <<config, queue, req, users, history>>

\* A query to Covert's own storage fails: the handler answers an error.
StorageFails(a) ==
    /\ req[a].pc \in {"store", "lookup", "role", "check", "remove"}
    /\ Fault
    /\ End(a, queue)
    /\ disturbed' = (disturbed \/ req[a].pc \in {"lookup", "remove"})
    /\ UNCHANGED <<config, users, up, requested, created, leased, confirmed, alone>>

\* The process dies, with some of its transactions committed; it is started
\* and unsealed again, and the backend mounted.
Restart ==
    /\ Fault
    /\ \E C \in SUBSET {a \in Readers : ~ Refused(a)} : Commit(C)
    /\ req' = [a \in Actor |-> IF a = Mounter
                               THEN [Idle EXCEPT !.pc = "reset", !.kind = "mount"] ELSE Idle]
    /\ queue' = <<Mounter>>
    /\ pool' = None
    /\ alone' = None
    /\ disturbed' = FALSE
    /\ UNCHANGED <<stored, roles, up, requested, leased, confirmed>>

-----------------------------------------------------------------------------
Step(a) ==
    \/ Verify(a) \/ Store(a) \/ Reset(a) \/ Lookup(a) \/ Dial(a) \/ Install(a)
    \/ FindRole(a) \/ Guard(a) \/ Check(a) \/ Missing(a) \/ Remove(a)
    \/ Succeed(a) \/ Fail(a)

Next ==
    \/ \E r \in Request :
          \/ \E d \in Db : BeginConnect(r, d)
          \/ \E s \in Secret : BeginIssue(r, s) \/ BeginOther(r, s)
    \/ \E ro \in Role : CreateRole(ro)
    \/ \E a \in Actor : Step(a) \/ Break(a) \/ StorageFails(a)
    \/ \E d \in Db : Outage(d) \/ Recovery(d)
    \/ Restart

\* A handler is a task of the runtime, and a database that is up answers.
Fairness == \A a \in Actor : WF_vars(Step(a))

Spec == Init /\ [][Next]_vars /\ Fairness

-----------------------------------------------------------------------------
(***************************************************************************)
(* Properties                                                              *)
(***************************************************************************)

\* The pool of a guard stays in place, open, until the transaction ended,
\* whatever reset_db, set_pool and pool() do meanwhile.
NoPoolClosedInUse == \A a \in Readers : pool = req[a].db

\* The handlers never all wait for the lock of Context.db, nor for each other:
\* as long as one is in progress, one of them has a step to do, or its turn at
\* the lock.  A writer's turn has come when it is the first in the queue and no
\* guard is held, not even by a request that waits itself: pool() gives its
\* read guard back before handle_missing_pool_for_configured_connection takes
\* the write lock.
SomeoneCanGoOn ==
    Active # {} => \E a \in Active :
        \/ req[a].pc \notin Locking
        \/ IF req[a].pc = "guard" THEN AtHead(a) ELSE MayWrite(a)

\* After path_connection_write or a mount that no other request and no
\* failure came between, the pool leads where the stored connection says, and
\* there is none if none is stored: pool() has no reason to remove the row.
AgreeWhenUndisturbed == (~ disturbed /\ Active = {}) => pool = stored

\* What became of each secret, in the words of LeasedSecrets.
SecretIs == [s \in Secret |-> IF \E d \in Db : s \in users[d] THEN "live"
                              ELSE IF s \in created THEN "gone" ELSE "none"]

\* A revocation with a strict revocation_sql that was answered with success.
ReallyConfirmed == {s \in confirmed : RoleOf[s] \notin Lenient}

Promise == INSTANCE LeasedSecrets WITH secret <- SecretIs, confirmed <- ReallyConfirmed

\* secret_creds_revoke answers with success only if the user is gone from
\* every database, also when the connection was set to another database
\* after the user was created.  (Not so if the revocation_sql is lenient.)
ImplementsPromise == Promise!Spec

\* No handler waits for ever, whether for the lock or for another request.
EveryRequestEnds == \A a \in Actor : req[a].pc # "idle" ~> req[a].pc = "idle"
=============================================================================
