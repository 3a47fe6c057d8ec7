--------------------------- MODULE SealLifecycle ---------------------------
(***************************************************************************)
(* Initializing, unsealing and sealing a Covert server.                    *)
(*                                                                         *)
(*   - the encrypted pool and its three states, the seal storage (the      *)
(*     configuration and the key shares submitted so far), both on disk;   *)
(*   - what only the process has: the router's table, the revocation       *)
(*     workers (every unseal spawns one, every seal stops one through a    *)
(*     channel of capacity 1), and the key that encrypts the key shares;   *)
(*   - requests: init, unseal, seal and the creation of a mount.  The      *)
(*     state of the pool is read when a request enters (the storage state  *)
(*     layer) and may have changed when its handler runs;                  *)
(*   - requests that end early, when a query fails, and restarts of the    *)
(*     process.  The server's timeout and a client that disconnects end    *)
(*     none: a handler runs in a task of its own (SyncService).            *)
(***************************************************************************)
EXTENDS Naturals, FiniteSets

CONSTANTS
    Request,        \* requests that can be in progress at once
    Share,          \* key shares, dealt by this server or not
    InitParams,     \* the bodies of init requests
    RootMount,      \* ids of mounts of the root namespace (v4 UUIDs)
    ChildMount,     \* ids of mounts of other namespaces
    None,           \* no value
    MaxCancels,     \* bound: requests that end early, per life of the process
    SealAlone,      \* TRUE: a seal overlaps no other request
    InstantScan     \* TRUE: no seal between the worker's pull and its peek

Mount == RootMount \cup ChildMount

ASSUME SealAssumption ==
    /\ IsFiniteSet(Request)
    /\ IsFiniteSet(Share)
    /\ InitParams \subseteq [shares : Nat, threshold : Nat]
    /\ None \notin InitParams
    /\ RootMount \cap ChildMount = {}
    /\ MaxCancels \in Nat
    /\ SealAlone \in BOOLEAN
    /\ InstantScan \in BOOLEAN

VARIABLES
    \* on disk
    pool,           \* EncryptedPool::state; sealed by a restart
    config,         \* the row of SEAL_CONFIG
    shares,         \* key shares that this process encrypted
    stale,          \* KEY_SHARES has a row that another process encrypted
    namespace,      \* the root namespace exists
    mounts,         \* ids in MOUNTS
    \* in memory
    routes,         \* keys of Router::backend_lookup but "system"
    worker,         \* the start() that holds the lock on shutdown_rx
    queued,         \* calls of start() that wait for that lock
    stops,          \* messages in the shutdown channel
    req,            \* the requests in progress
    \* history
    dealt,          \* how the master key was split
    submitted,      \* shares that this process has stored
    cancels,        \* requests of this process that ended early
    lost,           \* among them, those that had unsealed the pool: no worker
    halfway,        \* the pool is unsealed, and its request was one of them
    unstored        \* mounts routed since the unseal whose creation was one

disk    == <<pool, config, shares, stale, namespace, mounts>>
workers == <<worker, queued, stops>>
failed  == <<cancels, lost, halfway, unstored>>
history == <<dealt, submitted, failed>>
vars    == <<disk, routes, workers, req, history>>

-----------------------------------------------------------------------------
(***************************************************************************)
(* Types and null values                                                   *)
(***************************************************************************)

\* The value of pc is the next step of the handler:
\*   init    setconfig, create;
\*   unseal  insert, reject (clear, then fail), clear, open, forget, migrate,
\*           list, route (and spawn);
\*   seal    seal, stop, unroute;
\*   mount   store.
Handler == [pc : {"idle", "setconfig", "create", "insert", "reject", "clear", "open", "forget",
                  "migrate", "list", "route", "seal", "stop", "unroute", "store"},
            params : InitParams \cup {None},
            todo   : SUBSET (Share \cup Mount)]
Idle == [pc |-> "idle", params |-> None, todo |-> {}]

Deal == [threshold : Nat, shares : SUBSET Share]
NoDeal == [threshold |-> 0, shares |-> {}]

TypeOK ==
    /\ pool \in {"uninitialized", "sealed", "unsealed"}
    /\ config \in InitParams \cup {None}
    /\ shares \subseteq Share
    /\ stale \in BOOLEAN
    /\ namespace \in BOOLEAN
    /\ mounts \subseteq Mount
    /\ routes \subseteq Mount
    /\ worker \in {"none", "pull", "peek", "idle"}
    /\ queued \in Nat
    /\ stops \in 0 .. 1
    /\ req \in [Request -> Handler]
    /\ dealt \in Deal
    /\ submitted \subseteq Share
    /\ cancels \in 0 .. MaxCancels
    /\ lost \in Nat
    /\ halfway \in BOOLEAN
    /\ unstored \subseteq Mount

Init ==
    /\ pool = "uninitialized"
    /\ config = None
    /\ shares = {}
    /\ stale = FALSE
    /\ namespace = FALSE
    /\ mounts = {}
    /\ routes = {}
    /\ worker = "none"
    /\ queued = 0
    /\ stops = 0
    /\ req = [r \in Request |-> Idle]
    /\ dealt = NoDeal
    /\ submitted = {}
    /\ cancels = 0
    /\ lost = 0
    /\ halfway = FALSE
    /\ unstored = {}

-----------------------------------------------------------------------------
(***************************************************************************)
(* Requests                                                                *)
(***************************************************************************)

Sealing(r) == req[r].pc \in {"seal", "stop", "unroute"}

\* An unseal that has unsealed the pool and not spawned its worker
Opening(r) == req[r].pc \in {"forget", "migrate", "list", "route"}

Quiescent == \A r \in Request : req[r].pc = "idle"

\* Request r passes the storage state layer, for a route that is open in the
\* given state of the pool.
MayBegin(r, state) ==
    /\ req[r].pc = "idle"
    /\ pool = state
    /\ SealAlone => \A q \in Request : ~ Sealing(q)

SetReq(r, h) == req' = [req EXCEPT ![r] = h]
Goto(r, pc) == SetReq(r, [req[r] EXCEPT !.pc = pc])
Done(r) == SetReq(r, Idle)

-----------------------------------------------------------------------------
(***************************************************************************)
(* handle_initialize                                                       *)
(***************************************************************************)

\* The sanity check of the parameters comes first.
BeginInit(r, p) ==
    /\ MayBegin(r, "uninitialized")
    /\ p.threshold # 0
    /\ p.threshold <= p.shares
    /\ SetReq(r, [Idle EXCEPT !.pc = "setconfig", !.params = p])
    /\ UNCHANGED <<disk, routes, workers, history>>

\* Mutant: INSERT OR REPLACE.
ReplaceConfig(r) ==
    /\ req[r].pc = "setconfig"
    /\ config' = req[r].params
    /\ Goto(r, "create")
    /\ UNCHANGED <<pool, shares, stale, namespace, mounts, routes, workers, history>>

\* set_config: an INSERT that the constraint CONFIG_LOCK refuses when there is
\* a row already.
SetConfig(r) ==
    /\ req[r].pc = "setconfig"
    /\ \/ /\ config = None
          /\ config' = req[r].params
          /\ Goto(r, "create")
       \/ /\ config # None
          /\ Done(r)
          /\ UNCHANGED config
    /\ UNCHANGED <<pool, shares, stale, namespace, mounts, routes, workers, history>>

\* pool.initialize creates the encrypted file under a new master key, which
\* is split with the parameters of this request.
Create(r) ==
    /\ req[r].pc = "create"
    /\ \/ /\ pool = "uninitialized"
          /\ pool' = "sealed"
          /\ \E S \in SUBSET Share :
                /\ Cardinality(S) = req[r].params.shares
                /\ dealt' = [threshold |-> req[r].params.threshold, shares |-> S]
       \/ /\ pool # "uninitialized"
          /\ UNCHANGED <<pool, dealt>>
    /\ Done(r)
    /\ UNCHANGED <<config, shares, stale, namespace, mounts, routes, workers, submitted, failed>>

-----------------------------------------------------------------------------
(***************************************************************************)
(* handle_unseal                                                           *)
(***************************************************************************)

\* The configuration is read: one that is missing ends the request.
BeginUnseal(r, S) ==
    /\ MayBegin(r, "sealed")
    /\ config # None
    /\ SetReq(r, [Idle EXCEPT !.pc = "insert", !.todo = S])
    /\ UNCHANGED <<disk, routes, workers, history>>

InsertKeyShare(r, s) ==
    /\ req[r].pc = "insert"
    /\ s \in req[r].todo
    /\ shares' = shares \cup {s}
    /\ submitted' = submitted \cup {s}
    /\ SetReq(r, [req[r] EXCEPT !.todo = @ \ {s}])
    /\ UNCHANGED <<pool, config, stale, namespace, mounts, routes, workers, dealt, failed>>

\* The shares recover the master key: they are all genuine, and enough.
Genuine(S) == S \subseteq dealt.shares /\ Cardinality(S) >= dealt.threshold

\* get_key_shares, which drops duplicates, and construct_master_key.  Whether
\* a wrong share fails here or gives a wrong key, which pool.unseal refuses,
\* the shares are cleared and the request fails.
ReadKeyShares(r) ==
    /\ req[r].pc = "insert"
    /\ req[r].todo = {}
    /\ \/ stale /\ Goto(r, "reject")
       \/ ~ stale /\ Cardinality(shares) < config.threshold /\ Done(r)
       \/ ~ stale /\ Cardinality(shares) >= config.threshold
            /\ Goto(r, IF Genuine(shares) THEN "clear" ELSE "reject")
    /\ UNCHANGED <<disk, routes, workers, history>>

\* DELETE FROM KEY_SHARES, whoever stored them.
ClearKeyShares(r) ==
    /\ \/ req[r].pc = "reject" /\ Done(r)
       \/ req[r].pc = "clear" /\ Goto(r, "open")
       \/ req[r].pc = "forget" /\ Goto(r, "migrate")
    /\ shares' = {}
    /\ stale' = FALSE
    /\ UNCHANGED <<pool, config, namespace, mounts, routes, workers, history>>

\* pool.unseal: another request may have unsealed the pool meanwhile.
Open(r) ==
    /\ req[r].pc = "open"
    /\ \/ pool = "sealed" /\ pool' = "unsealed" /\ halfway' = FALSE /\ Goto(r, "forget")
       \/ pool # "sealed" /\ Done(r) /\ UNCHANGED <<pool, halfway>>
    /\ UNCHANGED <<config, shares, stale, namespace, mounts, routes, workers, dealt, submitted,
                   cancels, lost, unstored>>

\* The migrations, and the root namespace, which is created the first time.
\* Every query fails if the pool has been sealed again.
Migrate(r) ==
    /\ req[r].pc = "migrate"
    /\ \/ pool = "unsealed" /\ namespace' = TRUE /\ Goto(r, "list")
       \/ pool # "unsealed" /\ Done(r) /\ UNCHANGED namespace
    /\ UNCHANGED <<pool, config, shares, stale, mounts, routes, workers, history>>

\* mount.list of the root namespace
ListMounts(r) ==
    /\ req[r].pc = "list"
    /\ \/ /\ pool = "unsealed"
          /\ SetReq(r, [req[r] EXCEPT !.pc = "route", !.todo = mounts \cap RootMount])
       \/ pool # "unsealed" /\ Done(r)
    /\ UNCHANGED <<disk, routes, workers, history>>

\* mount_route_entry, for which the pool may be sealed
RouteMount(r, m) ==
    /\ req[r].pc = "route"
    /\ m \in req[r].todo
    /\ routes' = routes \cup {m}
    /\ SetReq(r, [req[r] EXCEPT !.todo = @ \ {m}])
    /\ UNCHANGED <<disk, workers, history>>

\* The new start() runs at once or waits for the lock of the one before.
\* (The root token created afterwards changes nothing that is modelled.)
Spawn(r) ==
    /\ req[r].pc = "route"
    /\ req[r].todo = {}
    /\ \/ worker = "none" /\ worker' = "pull" /\ UNCHANGED queued
       \/ worker # "none" /\ queued' = queued + 1 /\ UNCHANGED worker
    /\ Done(r)
    /\ UNCHANGED <<disk, routes, stops, history>>

-----------------------------------------------------------------------------
(***************************************************************************)
(* handle_seal                                                             *)
(***************************************************************************)

\* The namespace layer finds the root namespace only once it was created.
BeginSeal(r) ==
    /\ MayBegin(r, "unsealed")
    /\ namespace
    /\ SealAlone => Quiescent
    /\ SetReq(r, [Idle EXCEPT !.pc = "seal"])
    /\ UNCHANGED <<disk, routes, workers, history>>

\* Mutant: the worker is not stopped.
SealWithoutStop(r) ==
    /\ req[r].pc = "seal"
    /\ \/ /\ pool = "unsealed"
          /\ pool' = "sealed"
          /\ Goto(r, "unroute")
       \/ pool # "unsealed" /\ Done(r) /\ UNCHANGED pool
    /\ UNCHANGED <<config, shares, stale, namespace, mounts, routes, workers, history>>

\* pool.seal
Seal(r) ==
    /\ req[r].pc = "seal"
    /\ \/ /\ pool = "unsealed"
          /\ InstantScan => worker # "peek"
          /\ pool' = "sealed"
          /\ Goto(r, "stop")
       \/ pool # "unsealed" /\ Done(r) /\ UNCHANGED pool
    /\ UNCHANGED <<config, shares, stale, namespace, mounts, routes, workers, history>>

\* expiration_manager.stop: send waits while the channel is full.
Stop(r) ==
    /\ req[r].pc = "stop"
    /\ stops = 0
    /\ stops' = 1
    /\ Goto(r, "unroute")
    /\ UNCHANGED <<disk, routes, worker, queued, history>>

\* Mutant: the routes survive the seal.
UnrouteNothing(r) ==
    /\ req[r].pc = "unroute"
    /\ Done(r)
    /\ UNCHANGED <<disk, routes, workers, history>>

\* clear_mounts and mount_system
Unroute(r) ==
    /\ req[r].pc = "unroute"
    /\ routes' = {}
    /\ unstored' = {}
    /\ Done(r)
    /\ UNCHANGED <<disk, workers, dealt, submitted, cancels, lost, halfway>>

-----------------------------------------------------------------------------
(***************************************************************************)
(* mount, as far as sealing is concerned                                   *)
(***************************************************************************)

\* The backend is routed first, and stored afterwards.
BeginMount(r, m) ==
    /\ MayBegin(r, "unsealed")
    /\ namespace
    /\ m \notin mounts \cup routes
    /\ \A q \in Request : req[q].pc = "store" => m \notin req[q].todo
    /\ routes' = routes \cup {m}
    /\ SetReq(r, [Idle EXCEPT !.pc = "store", !.todo = {m}])
    /\ UNCHANGED <<disk, workers, history>>

StoreMount(r) ==
    /\ req[r].pc = "store"
    /\ mounts' = IF pool = "unsealed" THEN mounts \cup req[r].todo ELSE mounts
    /\ Done(r)
    /\ UNCHANGED <<pool, config, shares, stale, namespace, routes, workers, history>>

-----------------------------------------------------------------------------
(***************************************************************************)
(* The revocation workers (ExpirationManager::start)                       *)
(***************************************************************************)

\* Mutant: the lock is never released.
KeepLock == worker' = "none" /\ UNCHANGED queued

\* start() returns and releases the lock, which the next call takes.
Release ==
    \/ queued = 0 /\ worker' = "none" /\ UNCHANGED queued
    \/ queued > 0 /\ worker' = "pull" /\ queued' = queued - 1

\* No lease has expired.  (While the pool is sealed the query fails, and the
\* worker tries again 500 ms later.)
Pull ==
    /\ worker = "pull"
    /\ pool = "unsealed"
    /\ worker' = "peek"
    /\ UNCHANGED <<disk, routes, queued, stops, req, history>>

\* The query fails while the pool is sealed, and `?` ends start().
Peek ==
    /\ worker = "peek"
    /\ \/ pool = "unsealed" /\ worker' = "idle" /\ UNCHANGED queued
       \/ pool # "unsealed" /\ Release
    /\ UNCHANGED <<disk, routes, stops, req, history>>

\* A lease was registered, or the next one expires.
Wake ==
    /\ worker = "idle"
    /\ worker' = "pull"
    /\ UNCHANGED <<disk, routes, queued, stops, req, history>>

\* shutdown_rx.recv()
ReceiveStop ==
    /\ worker = "idle"
    /\ stops > 0
    /\ stops' = stops - 1
    /\ Release
    /\ UNCHANGED <<disk, routes, req, history>>

-----------------------------------------------------------------------------
(***************************************************************************)
(* Faults                                                                  *)
(***************************************************************************)

\* A query fails.  (One that takes effect all the same is the handler's step
\* followed by Cancel.)  The seal handler has no query that could fail.
Cancel(r) ==
    /\ req[r].pc # "idle"
    /\ ~ Sealing(r)
    /\ cancels < MaxCancels
    /\ cancels' = cancels + 1
    /\ lost' = IF Opening(r) THEN lost + 1 ELSE lost
    /\ halfway' = (halfway \/ Opening(r))
    /\ unstored' = IF req[r].pc = "store" THEN unstored \cup req[r].todo ELSE unstored
    /\ Done(r)
    /\ UNCHANGED <<disk, routes, workers, dealt, submitted>>

\* Mutant: the key that encrypts the key shares survives.
RestartWithKey ==
    /\ pool' = IF pool = "uninitialized" THEN pool ELSE "sealed"
    /\ routes' = {}
    /\ worker' = "none"
    /\ queued' = 0
    /\ stops' = 0
    /\ req' = [r \in Request |-> Idle]
    /\ submitted' = {}
    /\ cancels' = 0
    /\ lost' = 0
    /\ halfway' = FALSE
    /\ unstored' = {}
    /\ UNCHANGED <<config, shares, stale, namespace, mounts, dealt>>

\* The process dies and is started again: the pool is sealed if its file
\* exists, and a new key makes the stored key shares unreadable.
Restart ==
    /\ pool' = IF pool = "uninitialized" THEN pool ELSE "sealed"
    /\ shares' = {}
    /\ stale' = (stale \/ shares # {})
    /\ routes' = {}
    /\ worker' = "none"
    /\ queued' = 0
    /\ stops' = 0
    /\ req' = [r \in Request |-> Idle]
    /\ submitted' = {}
    /\ cancels' = 0
    /\ lost' = 0
    /\ halfway' = FALSE
    /\ unstored' = {}
    /\ UNCHANGED <<config, namespace, mounts, dealt>>

-----------------------------------------------------------------------------
HandlerStep(r) ==
    \/ SetConfig(r) \/ Create(r)
    \/ \E s \in Share : InsertKeyShare(r, s)
    \/ ReadKeyShares(r) \/ ClearKeyShares(r) \/ Open(r) \/ Migrate(r) \/ ListMounts(r)
    \/ \E m \in Mount : RouteMount(r, m)
    \/ Spawn(r)
    \/ Seal(r) \/ Stop(r) \/ Unroute(r)
    \/ StoreMount(r)

Begin(r) ==
    \/ \E p \in InitParams : BeginInit(r, p)
    \/ \E S \in SUBSET Share : BeginUnseal(r, S)
    \/ BeginSeal(r)
    \/ \E m \in Mount : BeginMount(r, m)

WorkerStep == Pull \/ Peek \/ ReceiveStop

Next ==
    \/ \E r \in Request : Begin(r) \/ HandlerStep(r) \/ Cancel(r)
    \/ WorkerStep \/ Wake
    \/ Restart

Spec == Init /\ [][Next]_vars

(***************************************************************************)
(* Fairness: the runtime polls the worker and the handlers; select! picks a*)
(* ready branch at random, so a message in the channel is not passed over  *)
(* for ever.                                                               *)
(***************************************************************************)
Fairness ==
    /\ WF_vars(Pull \/ Peek)
    /\ SF_vars(ReceiveStop)
    /\ \A r \in Request : WF_vars(HandlerStep(r))

FairSpec == Spec /\ Fairness

-----------------------------------------------------------------------------
(***************************************************************************)
(* Properties                                                              *)
(***************************************************************************)

\* However many init requests run, one set of shares is dealt at most, and
\* the configuration that unseal works with is the one it was dealt with
\* ("Used to ensure that maximum one config is ever inserted").
ConfigMatchesDeal ==
    pool # "uninitialized" => config # None /\ config.threshold = dealt.threshold

\* The pool is unsealed only once this process was given threshold different
\* genuine shares, whatever rows earlier processes left in KEY_SHARES and
\* however requests that insert, read and clear them interleave
\* (get_key_shares, construct_master_key).
UnsealNeedsThreshold ==
    pool = "unsealed" => Cardinality(submitted \cap dealt.shares) >= dealt.threshold

Workers == queued + (IF worker = "none" THEN 0 ELSE 1)

\* When no request is in progress, there is one worker for every stop message
\* that is still to be received, and one more while the pool is unsealed: every
\* unseal brings its worker and every seal its message.  An unseal that failed
\* after pool.unseal brought none, and lacks for good: the message of the seal
\* that follows is left over (unseal spawns, stop).
WorkersMatchStops ==
    Quiescent => Workers + lost = stops + (IF pool = "unsealed" THEN 1 ELSE 0)

\* When no request is in progress, the router knows no mount while the pool is
\* sealed.  While it is unsealed, it knows every mount of the root namespace,
\* unless its unseal failed after pool.unseal, and none that is not stored, but
\* those whose creation failed halfway (seal, unseal, mount).
RoutesMatchMounts ==
    Quiescent =>
        IF pool = "unsealed"
        THEN /\ halfway \/ mounts \cap RootMount \subseteq routes
             /\ routes \subseteq mounts \cup unstored
        ELSE routes = {}

\* An unsealed server ends up with a single worker, which nothing is about to
\* stop: the workers of earlier unseals go, the last one stays ("Start
\* expiration manager").  Unless an unseal of this process failed halfway.
ManagerTakesOver ==
    (Quiescent /\ lost = 0 /\ pool = "unsealed")
        ~> (pool # "unsealed" \/ lost > 0 \/ (worker # "none" /\ queued = 0 /\ stops = 0))

\* A server that was unsealed without an error runs the revocation worker.
UnsealedServerRevokes ==
    Quiescent /\ lost = 0 /\ pool = "unsealed" => worker # "none"
=============================================================================
