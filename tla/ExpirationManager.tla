------------------------- MODULE ExpirationManager -------------------------
(***************************************************************************)
(* Leases of Covert: how they are registered, renewed and revoked.         *)
(*                                                                         *)
(*   - the revocation worker (ExpirationManager::start), one loop that     *)
(*     pulls expired leases, revokes the batch concurrently and otherwise  *)
(*     sleeps until the next expiry, a registration or a shutdown;         *)
(*   - requests (Client): a request that issues a leased secret or token   *)
(*     (the lease registration layer), renews a lease, or revokes one      *)
(*     lease or every lease of a mount prefix;                             *)
(*   - the LEASES table, the backends that own the leased secrets, the     *)
(*     clock, and the faults: storage errors, cancelled requests, crashes. *)
(*                                                                         *)
(* A backend handles a request in a task of its own (SyncService), so a    *)
(* caller that gives up, the client or revocation_timeout, does not stop   *)
(* it: the handler goes on and may take effect later.  Only the layers     *)
(* around the backend, lease registration here, are dropped at an await.   *)
(*                                                                         *)
(* Every await of the source that separates a read from the write that     *)
(* depends on it separates two actions here, so an actor works on a copy   *)
(* of the row (le) that other actors may have changed meanwhile.           *)
(* Leases of all namespaces share one table; a lease's id stands for the   *)
(* pair (id, namespace_id) every query uses.                               *)
(***************************************************************************)
EXTENDS Ttl, FiniteSets

CONSTANTS
    Lease,          \* lease ids (v4 UUIDs: never reused)
    Client,         \* requests that can be in progress at once
    Worker,         \* the revocation worker, as an owner of revocations
    IssueTtls,      \* TTLs that a backend may give a secret, or None
    RenewTtls,      \* TTLs that a renewal may ask for, or None
    Prefixes,       \* sets of leases that one mount prefix matches
    RetryTimeout,   \* revocation_retry_timeout
    MaxRetries,     \* revocation_max_retries
    Batch,          \* revocation_worker_concurrency: leases pulled at once
    FaultKinds,     \* which of "storage", "cancel" and "crash" can happen
    MaxFaults,      \* bound: how many faults a behaviour has
    LastRequest,    \* bound: the last instant at which a request begins or a
                    \* secret is issued
    MaxTime,        \* bound: the last instant
    InstantScan     \* TRUE: pull and peek take less than one unit of time

ASSUME LeaseAssumption ==
    /\ None \notin Lease
    /\ IsFiniteSet(Client)
    /\ Worker \notin Client
    /\ Prefixes \subseteq SUBSET Lease
    /\ IssueTtls \subseteq Nat \cup {None}
    /\ RenewTtls \subseteq Nat \cup {None}
    /\ RetryTimeout \in Nat
    /\ MaxRetries \in Nat \ {0}
    /\ Batch \in Nat \ {0}
    /\ MaxFaults \in Nat
    /\ LastRequest \in Nat
    /\ MaxTime \in Nat
    /\ InstantScan \in BOOLEAN

VARIABLES
    clock,      \* Clock::now()
    config,     \* the MountConfig stored with the mount
    leases,     \* ids that have a row in LEASES
    row,        \* the rows; NullRow where there is none
    permit,     \* the permit stored in background_task (tokio Notify)
    worker,     \* the loop of ExpirationManager::start
    revocation, \* revoke_lease_entry in progress, per owner and lease
    client,     \* the other state of each request
    backend,    \* the leased secrets, as the backends hold them
    registered, \* history: ids that ever had a row
    failures,   \* history: failed revoke requests per lease
    faults      \* how many faults happened

tables   == <<leases, row, registered>>
history  == <<failures, faults>>
vars     == <<clock, config, tables, permit, worker, revocation, client, backend, history>>

-----------------------------------------------------------------------------
(***************************************************************************)
(* Types and null values                                                   *)
(***************************************************************************)

Actor == Client \cup {Worker}

\* The columns of LEASES that the control depends on.
Row == [issued_at : Nat, expires_at : Nat, attempts : Nat]
NullRow == [issued_at |-> 0, expires_at |-> 0, attempts |-> 0]

\* send: not answered yet; ok and failed: answered, the table not yet written.
Revocation == [stage : {"none", "send", "ok", "failed"}, le : Row]
NoRevocation == [stage |-> "none", le |-> NullRow]

\* issue and renew: waiting for the backend; register: the secret exists, the
\* row is being inserted; write: the new expiry is computed, the row not yet
\* updated.
Request == [pc     : {"idle", "issue", "register", "renew", "write"},
            lease  : Lease \cup {None},
            le     : Row,
            config : Configs \cup {None},
            ttl    : Nat]
Idle == [pc |-> "idle", lease |-> None, le |-> NullRow, config |-> None, ttl |-> 0]

\* leaving: a revoke request for the live secret timed out, but its handler
\* is still running.
SecretState == {"none", "live", "leaving", "gone"}

\* now: the clock as read before the pull; wake: when the sleep ends, None
\* for std::future::pending().  dead: start() has returned.
Loop == [pc : {"pull", "peek", "wait", "revoke", "dead"}, now : Nat, wake : Nat \cup {None}]
Scan(now) == [pc |-> "pull", now |-> now, wake |-> None]
Peeking == [pc |-> "peek", now |-> 0, wake |-> None]
Waiting(wake) == [pc |-> "wait", now |-> 0, wake |-> wake]
Batching == [pc |-> "revoke", now |-> 0, wake |-> None]
Dead == [pc |-> "dead", now |-> 0, wake |-> None]

TypeOK ==
    /\ clock \in Nat
    /\ config \in Configs
    /\ leases \subseteq Lease
    /\ row \in [Lease -> Row]
    /\ permit \in BOOLEAN
    /\ worker \in Loop
    /\ revocation \in [Actor -> [Lease -> Revocation]]
    /\ client \in [Client -> Request]
    /\ backend \in [Lease -> SecretState]
    /\ registered \subseteq Lease
    /\ failures \in [Lease -> Nat]
    /\ faults \in Nat

Init ==
    /\ clock = 0
    /\ config \in Configs
    /\ leases = {}
    /\ row = [l \in Lease |-> NullRow]
    /\ permit = FALSE
    /\ worker = Scan(0)
    /\ revocation = [a \in Actor |-> [l \in Lease |-> NoRevocation]]
    /\ client = [c \in Client |-> Idle]
    /\ backend = [l \in Lease |-> "none"]
    /\ registered = {}
    /\ failures = [l \in Lease |-> 0]
    /\ faults = 0

-----------------------------------------------------------------------------
(***************************************************************************)
(* The LEASES table (repos/lease.rs)                                       *)
(***************************************************************************)

Insert(l, le) ==
    /\ leases' = leases \cup {l}
    /\ row' = [row EXCEPT ![l] = le]
    /\ registered' = registered \cup {l}

Delete(l) ==
    /\ leases' = leases \ {l}
    /\ row' = [row EXCEPT ![l] = NullRow]
    /\ UNCHANGED registered

\* Mutant: an upsert, which brings back the row of a deleted lease.
Upsert(l, new) ==
    /\ row' = [row EXCEPT ![l] = new]
    /\ leases' = leases \cup {l}
    /\ UNCHANGED registered

\* UPDATE ... WHERE id = ...: no row, no change (the caller gets NotFound).
Update(l, new) ==
    /\ row' = IF l \in leases THEN [row EXCEPT ![l] = new] ELSE row
    /\ UNCHANGED <<leases, registered>>

\* The rows that pull(Batch, before) may return: the earliest to expire first.
Expired(before) == {l \in leases : row[l].expires_at <= before}

Pulled(S, before) ==
    /\ S \subseteq Expired(before)
    /\ Cardinality(S) = IF Cardinality(Expired(before)) < Batch
                        THEN Cardinality(Expired(before)) ELSE Batch
    /\ \A l \in S, m \in Expired(before) \ S : row[l].expires_at <= row[m].expires_at

\* Mutant: ORDER BY expires_at DESC.
PeekedLast(l) == l \in leases /\ \A m \in leases : row[l].expires_at >= row[m].expires_at

\* The row that peek() returns, if there is one.
Peeked(l) == l \in leases /\ \A m \in leases : row[l].expires_at <= row[m].expires_at

-----------------------------------------------------------------------------
(***************************************************************************)
(* Time, configuration and faults                                          *)
(***************************************************************************)

Tick ==
    /\ clock < MaxTime
    /\ InstantScan => worker.pc \notin {"pull", "peek"}
    /\ clock' = clock + 1
    /\ UNCHANGED <<config, tables, permit, worker, revocation, client, backend, history>>

\* handle_update_mount: the mount's TTLs change while renewals are in progress.
UpdateMount ==
    /\ config' \in Configs \ {config}
    /\ UNCHANGED <<clock, tables, permit, worker, revocation, client, backend, history>>

Fault(kind) ==
    /\ kind \in FaultKinds
    /\ faults < MaxFaults
    /\ faults' = faults + 1

\* The process dies and, some time later, is started and unsealed again: the
\* table and the backends survive, the worker is started anew.  What a backend
\* sent to the system that keeps the secret may still take effect.
Crash ==
    /\ Fault("crash")
    /\ clock' \in clock .. MaxTime
    /\ permit' = FALSE
    /\ worker' = Scan(clock')
    /\ revocation' = [a \in Actor |-> [l \in Lease |-> NoRevocation]]
    /\ client' = [c \in Client |-> Idle]
    /\ UNCHANGED <<config, tables, backend, failures>>

-----------------------------------------------------------------------------
(***************************************************************************)
(* revoke_lease_entry                                                      *)
(***************************************************************************)

SetRevocation(a, l, r) == revocation' = [revocation EXCEPT ![a][l] = r]

\* Every lease of S is looked up, and its revocation starts on that copy.
Begin(a, S) ==
    revocation' = [revocation EXCEPT ![a] =
        [l \in Lease |-> IF l \in S THEN [stage |-> "send", le |-> row[l]] ELSE @[l]]]

\* Mutant: the failure being handled is counted twice.
ExhaustedEarly(le) == le.attempts + 2 >= MaxRetries

Exhausted(le) == le.attempts + 1 >= MaxRetries

\* le.expires_at + revocation_retry_timeout
NextExpiry(le) == le.expires_at + RetryTimeout

\* The backend's handler outlives the revoke request that timed out.
Outlive(l) ==
    /\ backend[l] = "live"
    /\ backend' = [backend EXCEPT ![l] = "leaving"]

\* send_lease_revoke_request.  The request can fail before it is sent (the
\* namespace lookup), in the backend, or by revocation_timeout; after a
\* timeout the backend may have revoked the secret, or may still be at it.
SendRevoke(a, l) ==
    /\ revocation[a][l].stage = "send"
    /\ \/ /\ SetRevocation(a, l, [NoRevocation EXCEPT !.stage = "ok"])
          /\ backend' = [backend EXCEPT ![l] = "gone"]
          /\ UNCHANGED failures
       \/ /\ SetRevocation(a, l, [revocation[a][l] EXCEPT !.stage = "failed"])
          /\ \/ UNCHANGED backend
             \/ backend' = [backend EXCEPT ![l] = "gone"]
             \/ Outlive(l)
          /\ failures' = [failures EXCEPT ![l] = @ + 1]
    /\ UNCHANGED <<clock, config, tables, permit, worker, client, faults>>

\* The handler of a request that timed out ends at last: the secret is gone,
\* whatever became of its lease meanwhile, or the handler failed.
LateRevoke(l) ==
    /\ backend[l] = "leaving"
    /\ \E outcome \in {"gone", "live"} : backend' = [backend EXCEPT ![l] = outcome]
    /\ UNCHANGED <<clock, config, tables, permit, worker, revocation, client, history>>

\* The backend revoked the secret: the lease is deleted.
DeleteRevoked(a, l) ==
    /\ revocation[a][l].stage = "ok"
    /\ Delete(l)
    /\ SetRevocation(a, l, NoRevocation)
    /\ UNCHANGED <<clock, config, permit, worker, client, backend, history>>

\* Too many failures: the lease is deleted though its secret may live on.
DeleteExhausted(a, l) ==
    /\ revocation[a][l].stage = "failed"
    /\ Exhausted(revocation[a][l].le)
    /\ Delete(l)
    /\ SetRevocation(a, l, NoRevocation)
    /\ UNCHANGED <<clock, config, permit, worker, client, backend, history>>

\* increment_failed_revocation_attempts adds 1 to the column, but the new
\* expiry is computed from the copy.
RecordFailure(a, l) ==
    /\ revocation[a][l].stage = "failed"
    /\ ~ Exhausted(revocation[a][l].le)
    /\ Update(l, [row[l] EXCEPT !.attempts = @ + 1,
                                !.expires_at = NextExpiry(revocation[a][l].le)])
    /\ SetRevocation(a, l, NoRevocation)
    /\ UNCHANGED <<clock, config, permit, worker, client, backend, history>>

\* The last query fails: an error is logged, the row stays as it is.
RevocationWriteFails(a, l) ==
    /\ revocation[a][l].stage \in {"ok", "failed"}
    /\ Fault("storage")
    /\ SetRevocation(a, l, NoRevocation)
    /\ UNCHANGED <<clock, config, tables, permit, worker, client, backend, failures>>

RevokeStep(a, l) ==
    \/ SendRevoke(a, l)
    \/ DeleteRevoked(a, l)
    \/ DeleteExhausted(a, l)
    \/ RecordFailure(a, l)

Revoking(a) == \E l \in Lease : revocation[a][l].stage # "none"

-----------------------------------------------------------------------------
(***************************************************************************)
(* The revocation worker (ExpirationManager::start)                        *)
(***************************************************************************)

\* The clock was read when the iteration began.  Some leases expired: all of
\* the batch is revoked concurrently.  None did: the worker goes on to peek.
Pull ==
    /\ worker.pc = "pull"
    /\ \E S \in SUBSET Lease :
          /\ Pulled(S, worker.now)
          /\ Begin(Worker, S)
          /\ worker' = IF S = {} THEN Peeking ELSE Batching
    /\ UNCHANGED <<clock, config, tables, permit, client, backend, history>>

\* The query fails: the worker sleeps 500 ms and tries again.
PullFails ==
    /\ worker.pc = "pull"
    /\ Fault("storage")
    /\ worker' = Scan(clock)
    /\ UNCHANGED <<clock, config, tables, permit, revocation, client, backend, failures>>

\* Mutant: the duration is used unchecked.
WakeForUnchecked(l) == row[l].expires_at - clock

\* When to wake up for lease l: to_std().ok() turns a negative duration into
\* None, and so into a future that never resolves.
WakeFor(l) == IF row[l].expires_at >= clock THEN row[l].expires_at ELSE None

Peek ==
    /\ worker.pc = "peek"
    /\ \/ /\ leases = {}
          /\ worker' = Waiting(None)
       \/ \E l \in leases :
             /\ Peeked(l)
             /\ worker' = Waiting(WakeFor(l))
    /\ UNCHANGED <<clock, config, tables, permit, revocation, client, backend, history>>

\* The query fails: `?` ends start(), and nothing starts the worker again.
PeekFails ==
    /\ worker.pc = "peek"
    /\ Fault("storage")
    /\ worker' = Dead
    /\ UNCHANGED <<clock, config, tables, permit, revocation, client, backend, failures>>

\* background_task.notified() consumes the permit.
Notified ==
    /\ worker.pc = "wait"
    /\ permit
    /\ permit' = FALSE
    /\ worker' = Scan(clock)
    /\ UNCHANGED <<clock, config, tables, revocation, client, backend, history>>

\* The sleep until the next expiry is over.
WakeUp ==
    /\ worker.pc = "wait"
    /\ worker.wake # None
    /\ worker.wake <= clock
    /\ worker' = Scan(clock)
    /\ UNCHANGED <<clock, config, tables, permit, revocation, client, backend, history>>

\* The whole batch has been dealt with: the next iteration begins.
BatchDone ==
    /\ worker.pc = "revoke"
    /\ ~ Revoking(Worker)
    /\ worker' = Scan(clock)
    /\ UNCHANGED <<clock, config, tables, permit, revocation, client, backend, history>>

WorkerStep ==
    \/ Pull \/ Peek \/ Notified \/ WakeUp \/ BatchDone
    \/ \E l \in Lease : RevokeStep(Worker, l)

-----------------------------------------------------------------------------
(***************************************************************************)
(* Requests                                                                *)
(***************************************************************************)

Free(c) == client[c].pc = "idle" /\ ~ Revoking(c)

MayBegin(c) == Free(c) /\ clock <= LastRequest

SetClient(c, r) == client' = [client EXCEPT ![c] = r]

\* LeaseEntry::new
NewRow(now, ttl) == [issued_at |-> now, expires_at |-> now + ttl, attempts |-> 0]

\* Router::route: the request goes to the backend with the configuration
\* that the mount has now.
Route(c) ==
    /\ MayBegin(c)
    /\ SetClient(c, [Idle EXCEPT !.pc = "issue", !.config = config])
    /\ UNCHANGED <<clock, config, tables, permit, worker, revocation, backend, history>>

\* The backend answers with a leased secret, or with a login for which the
\* layer creates a token; its lease is not registered yet.
Issue(c, l, ttl) ==
    /\ client[c].pc = "issue"
    /\ clock <= LastRequest
    /\ backend[l] = "none"
    /\ backend' = [backend EXCEPT ![l] = "live"]
    /\ SetClient(c, [Idle EXCEPT !.pc = "register", !.lease = l,
                        !.le = NewRow(clock, CalculateTtl(clock, clock, client[c].config, ttl))])
    /\ UNCHANGED <<clock, config, tables, permit, worker, revocation, history>>

\* Mutant: register without notify_one.
RegisterQuietly(c) ==
    /\ client[c].pc = "register"
    /\ Insert(client[c].lease, client[c].le)
    /\ SetClient(c, Idle)
    /\ UNCHANGED <<clock, config, permit, worker, revocation, backend, history>>

\* register: the row is inserted and the worker notified.
Register(c) ==
    /\ client[c].pc = "register"
    /\ Insert(client[c].lease, client[c].le)
    /\ permit' = TRUE
    /\ SetClient(c, Idle)
    /\ UNCHANGED <<clock, config, worker, revocation, backend, history>>

\* The query fails, and with it the request: the secret stays without a
\* lease, or the lease keeps its expiry though the backend renewed it.
RequestWriteFails(c) ==
    /\ client[c].pc \in {"register", "write"}
    /\ Fault("storage")
    /\ SetClient(c, Idle)
    /\ UNCHANGED <<clock, config, tables, permit, worker, revocation, backend, failures>>

\* renew_lease_entry up to the request to the backend: the row (of which only
\* issued_at is used later), the mount's configuration and the clock are read.
BeginRenew(c, l, ttl) ==
    /\ MayBegin(c)
    /\ l \in leases
    /\ SetClient(c, [pc |-> "renew", lease |-> l, config |-> config,
                     le |-> [NullRow EXCEPT !.issued_at = row[l].issued_at],
                     ttl |-> CalculateTtl(clock, row[l].issued_at, config, ttl)])
    /\ UNCHANGED <<clock, config, tables, permit, worker, revocation, backend, history>>

\* Mutant: the TTL that the backend answered is not capped again.
RenewedUncapped(r) == [r.le EXCEPT !.expires_at = clock + r.ttl]

\* le.expires_at = now + ttl, with the TTL that the backend answered
Renewed(r) ==
    [r.le EXCEPT !.expires_at = clock + CalculateTtl(clock, r.le.issued_at, r.config, r.ttl)]

\* The backend answers with the TTL it was sent, as those of this repository
\* do; the new expiry is computed from the copy of the row and the copy of
\* the configuration.
RenewReply(c) ==
    /\ client[c].pc = "renew"
    /\ SetClient(c, [Idle EXCEPT !.pc = "write", !.lease = client[c].lease,
                                !.le = Renewed(client[c])])
    /\ UNCHANGED <<clock, config, tables, permit, worker, revocation, backend, history>>

\* The backend answers with an error, or, to a request that is not about a
\* lease, without one.
Refused(c) ==
    /\ client[c].pc \in {"issue", "renew"}
    /\ SetClient(c, Idle)
    /\ UNCHANGED <<clock, config, tables, permit, worker, revocation, backend, history>>

\* repos.lease.renew sets the expiry only; the worker is not notified.
WriteRenewal(c) ==
    /\ client[c].pc = "write"
    /\ Update(client[c].lease,
              [row[client[c].lease] EXCEPT !.expires_at = client[c].le.expires_at])
    /\ SetClient(c, Idle)
    /\ UNCHANGED <<clock, config, permit, worker, revocation, backend, history>>

\* revoke_lease_entry_by_id, and revoke_leases_by_mount_prefix
RevokeLeases(c, S) ==
    /\ MayBegin(c)
    /\ S \cap leases # {}
    /\ Begin(c, S \cap leases)
    /\ UNCHANGED <<clock, config, tables, permit, worker, client, backend, history>>

\* The server's request timeout, or a client that disconnects, drops the
\* lease registration layer at an await; renewals and revocations run inside
\* the system backend and go on.  A backend that was issuing a secret goes on
\* too, and nobody registers its lease.  A statement handed to SQLite is
\* executed all the same: the row of a lease that is being registered may be
\* there, but notify_one is never called.
Cancel(c) ==
    /\ client[c].pc \in {"issue", "register"}
    /\ Fault("cancel")
    /\ SetClient(c, Idle)
    /\ \/ UNCHANGED <<tables, backend>>
       \/ /\ client[c].pc = "register"
          /\ Insert(client[c].lease, client[c].le)
          /\ UNCHANGED backend
       \/ /\ client[c].pc = "issue"
          /\ \E l \in Lease : backend[l] = "none" /\ backend' = [backend EXCEPT ![l] = "live"]
          /\ UNCHANGED tables
    /\ UNCHANGED <<clock, config, permit, worker, revocation, failures>>

ClientStep(c) ==
    \/ Route(c)
    \/ \E l \in Lease, ttl \in IssueTtls : Issue(c, l, ttl)
    \/ \E l \in Lease, ttl \in RenewTtls : BeginRenew(c, l, ttl)
    \/ Register(c) \/ RequestWriteFails(c)
    \/ RenewReply(c) \/ Refused(c) \/ WriteRenewal(c)
    \/ \E l \in Lease : RevokeLeases(c, {l})
    \/ \E S \in Prefixes : RevokeLeases(c, S)
    \/ \E l \in Lease : RevokeStep(c, l)
    \/ Cancel(c)

Next ==
    \/ WorkerStep \/ PullFails \/ PeekFails
    \/ \E c \in Client : ClientStep(c)
    \/ \E a \in Actor, l \in Lease : RevocationWriteFails(a, l)
    \/ \E l \in Lease : LateRevoke(l)
    \/ Tick \/ UpdateMount \/ Crash

Spec == Init /\ [][Next]_vars

(***************************************************************************)
(* Fairness: the runtime polls the worker and the tasks of its batch (every*)
(* revoke request ends, by its timeout at the latest), and time passes.    *)
(* Nothing is assumed of the requests: a client may go away at any point.  *)
(***************************************************************************)
Fairness == WF_vars(WorkerStep) /\ WF_vars(Tick)

FairSpec == Spec /\ Fairness

-----------------------------------------------------------------------------
(***************************************************************************)
(* Properties                                                              *)
(***************************************************************************)

\* A lease is given up while its secret is not gone only after the backend
\* failed, or failed to answer in time, MaxRetries revoke requests for it,
\* whoever sent them and however stale the copies they worked on: the failure
\* count of the row, which revoke_lease_entry compares with
\* revocation_max_retries, never runs ahead of the failures that happened.
AbandonedOnlyAfterMaxRetries ==
    \A l \in registered \ leases : backend[l] # "gone" => failures[l] >= MaxRetries

\* No renewal, retry or stale write gives a lease more life than the mount's
\* max_lease_ttl, beyond one RetryTimeout per recorded failure: whatever
\* has not expired yet expires within that bound (calculate_ttl, renew,
\* increment_failed_revocation_attempts).
LifetimeIsBounded ==
    \A l \in leases :
        row[l].expires_at > clock + row[l].attempts * RetryTimeout =>
            \E cfg \in Configs :
                row[l].expires_at <=
                    row[l].issued_at + cfg.max_lease_ttl + row[l].attempts * RetryTimeout

\* While the worker waits and no notification is pending, it will wake up by
\* the time any lease expires ("Future that resolves when the next lease is
\* ready to be revoked", and Notify's stored permit for those registered
\* between the peek and the wait).  It holds while nothing brings an expiry
\* forward, as a renewal does, and a retry computed from a copy that is older
\* than two other retries.
NoOversleep ==
    worker.pc = "wait" /\ ~ permit =>
        \A l \in leases : worker.wake # None /\ worker.wake <= row[l].expires_at

\* Every lease ends: once registered it is eventually revoked or given up,
\* across failing backends, crashes and concurrent revocations.
EveryLeaseEnds == \A l \in Lease : l \in leases ~> l \notin leases

\* The life of each lease, as LeaseLifecycle sees it: a lease that has a row
\* is active, and one whose row is gone is revoked if its secret is.
LeaseStatus ==
    [l \in Lease |-> IF l \in leases THEN "active"
                     ELSE IF l \notin registered THEN "unknown"
                     ELSE IF backend[l] = "gone" THEN "revoked" ELSE "abandoned"]

Lifecycle == INSTANCE LeaseLifecycle WITH status <- LeaseStatus, strikes <- failures

\* The expiration manager implements LeaseLifecycle: no interleaving of
\* stale copies, renewals, retries, cancellations and crashes makes a lease
\* active again once it ended, or ends it in another way.
ImplementsLifecycle == Lifecycle!Spec
=============================================================================
