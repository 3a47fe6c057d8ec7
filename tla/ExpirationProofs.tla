-------------------------- MODULE ExpirationProofs --------------------------
(***************************************************************************)
(* Theorems about ExpirationManager, for every value of its constants.     *)
(***************************************************************************)
EXTENDS ExpirationManager, FiniteSetTheorems, TLAPS

-----------------------------------------------------------------------------
(***************************************************************************)
(* calculate_ttl                                                           *)
(***************************************************************************)

\* calculate_ttl is the requested TTL, cut off at the end of the lease's
\* maximal life and at zero: the nested conditions of the source compute
\* the clamp that its unit test describes.
THEOREM TtlIsClamped ==
    ASSUME NEW now \in Nat, NEW issued_at \in Nat, NEW cfg \in MountConfig,
           NEW ttl \in Nat \cup {None},
           NEW left, left = issued_at + cfg.max_lease_ttl - now
    PROVE  /\ left <= 0 => CalculateTtl(now, issued_at, cfg, ttl) = 0
           /\ left > 0 /\ RequestedTtl(cfg, ttl) <= left =>
                  CalculateTtl(now, issued_at, cfg, ttl) = RequestedTtl(cfg, ttl)
           /\ left > 0 /\ RequestedTtl(cfg, ttl) > left =>
                  CalculateTtl(now, issued_at, cfg, ttl) = left
<1>1. cfg.max_lease_ttl \in Nat /\ cfg.default_lease_ttl \in Nat
  BY DEF MountConfig
<1>2. RequestedTtl(cfg, ttl) \in Nat
  BY <1>1, NoneAssumption DEF RequestedTtl
<1> QED
  BY <1>1, <1>2 DEF CalculateTtl

\* An expiry computed from calculate_ttl is at most the end of the lease's
\* maximal life, or the present instant.
LEMMA TtlCap ==
    ASSUME NEW now \in Nat, NEW issued_at \in Nat, NEW cfg \in MountConfig,
           NEW ttl \in Nat \cup {None}
    PROVE  /\ CalculateTtl(now, issued_at, cfg, ttl) \in Nat
           /\ \/ now + CalculateTtl(now, issued_at, cfg, ttl)
                    <= issued_at + cfg.max_lease_ttl
              \/ CalculateTtl(now, issued_at, cfg, ttl) = 0
<1>1. cfg.max_lease_ttl \in Nat /\ cfg.default_lease_ttl \in Nat
  BY DEF MountConfig
<1>2. RequestedTtl(cfg, ttl) \in Nat
  BY <1>1, NoneAssumption DEF RequestedTtl
<1> QED
  BY <1>1, <1>2 DEF CalculateTtl

-----------------------------------------------------------------------------
(***************************************************************************)
(* Type correctness                                                        *)
(***************************************************************************)

\* A request that waits for the backend has a copy of the mount's
\* configuration, and every request in progress has a lease once the secret
\* exists.
RequestsOK ==
    \A c \in Client :
        /\ client[c].pc \in {"register", "renew", "write"} => client[c].lease \in Lease
        /\ client[c].pc \in {"issue", "renew"} => client[c].config \in Configs

TypeInv == TypeOK /\ RequestsOK

\* The null values have their types.
LEMMA NullTypes ==
    /\ NullRow \in Row
    /\ NoRevocation \in Revocation
    /\ Idle \in Request
    /\ \A n \in Nat : Scan(n) \in Loop
    /\ Peeking \in Loop /\ Batching \in Loop /\ Dead \in Loop
    /\ \A w \in Nat \cup {None} : Waiting(w) \in Loop
BY DEF NullRow, Row, NoRevocation, Revocation, Idle, Request, Scan, Peeking,
       Batching, Dead, Waiting, Loop

\* A row with changed columns is a row.
LEMMA RowUpdate ==
    ASSUME NEW r \in Row, NEW n \in Nat, NEW m \in Nat
    PROVE  /\ [r EXCEPT !.attempts = n, !.expires_at = m] \in Row
           /\ [r EXCEPT !.expires_at = m] \in Row
           /\ [r EXCEPT !.issued_at = m] \in Row
BY DEF Row

\* A new lease is a row.
LEMMA NewRowType ==
    ASSUME NEW now \in Nat, NEW ttl \in Nat
    PROVE  NewRow(now, ttl) \in Row
BY DEF NewRow, Row

\* The manager starts well typed.
LEMMA InitType == Init => TypeInv
<1> SUFFICES ASSUME Init PROVE TypeInv
  OBVIOUS
<1>1. TypeOK
  BY NullTypes DEF Init, TypeOK, SecretState
<1>2. RequestsOK
  BY DEF Init, RequestsOK, Idle
<1> QED
  BY <1>1, <1>2 DEF TypeInv

\* The effect of the table operations on the types.
LEMMA TableTypes ==
    ASSUME TypeInv, NEW l \in Lease
    PROVE  /\ \A le \in Row : Insert(l, le) =>
                leases' \subseteq Lease /\ row' \in [Lease -> Row] /\ registered' \subseteq Lease
           /\ Delete(l) =>
                leases' \subseteq Lease /\ row' \in [Lease -> Row] /\ registered' \subseteq Lease
           /\ \A le \in Row : Update(l, le) =>
                leases' \subseteq Lease /\ row' \in [Lease -> Row] /\ registered' \subseteq Lease
BY NullTypes DEF TypeInv, TypeOK, Insert, Delete, Update

\* A revocation that moves on keeps the types.
LEMMA SetRevocationType ==
    ASSUME TypeInv, NEW a \in Actor, NEW l \in Lease, NEW r \in Revocation,
           SetRevocation(a, l, r)
    PROVE  revocation' \in [Actor -> [Lease -> Revocation]]
BY DEF TypeInv, TypeOK, SetRevocation

\* Revocations that begin keep the types.
LEMMA BeginType ==
    ASSUME TypeInv, NEW a \in Actor, NEW S, Begin(a, S)
    PROVE  revocation' \in [Actor -> [Lease -> Revocation]]
<1>1. \A l \in Lease : [stage |-> "send", le |-> row[l]] \in Revocation
  BY DEF TypeInv, TypeOK, Revocation
<1> QED
  BY <1>1 DEF TypeInv, TypeOK, Begin

\* A request that moves on keeps the types.
LEMMA SetClientType ==
    ASSUME TypeInv, NEW c \in Client, NEW r \in Request, SetClient(c, r),
           r.pc \in {"register", "renew", "write"} => r.lease \in Lease,
           r.pc \in {"issue", "renew"} => r.config \in Configs
    PROVE  client' \in [Client -> Request] /\ RequestsOK'
BY DEF TypeInv, TypeOK, RequestsOK, SetClient

\* A request that ends keeps the types.
LEMMA SetIdleType ==
    ASSUME TypeInv, NEW c \in Client, SetClient(c, Idle)
    PROVE  client' \in [Client -> Request] /\ RequestsOK'
BY NullTypes, SetClientType DEF Idle

\* A step of a revocation keeps the types.
LEMMA RevokeStepType ==
    ASSUME TypeInv, NEW a \in Actor, NEW l \in Lease,
           RevokeStep(a, l) \/ RevocationWriteFails(a, l)
    PROVE  TypeInv'
<1>1. /\ revocation[a][l] \in Revocation
      /\ row[l] \in Row
      /\ NoRevocation \in Revocation
  BY NullTypes DEF TypeInv, TypeOK
<1>2. CASE SendRevoke(a, l)
  <2>1. /\ [NoRevocation EXCEPT !.stage = "ok"] \in Revocation
        /\ [revocation[a][l] EXCEPT !.stage = "failed"] \in Revocation
    BY <1>1 DEF Revocation
  <2>2. revocation' \in [Actor -> [Lease -> Revocation]]
    BY <1>2, <2>1, SetRevocationType DEF SendRevoke
  <2>3. backend' \in [Lease -> SecretState] /\ failures' \in [Lease -> Nat]
    BY <1>2 DEF SendRevoke, Outlive, SecretState, TypeInv, TypeOK
  <2> QED
    BY <1>2, <2>2, <2>3 DEF SendRevoke, TypeInv, TypeOK, RequestsOK, tables
<1>3. CASE DeleteRevoked(a, l) \/ DeleteExhausted(a, l)
  <2>1. Delete(l) /\ SetRevocation(a, l, NoRevocation)
    BY <1>3 DEF DeleteRevoked, DeleteExhausted
  <2>2. revocation' \in [Actor -> [Lease -> Revocation]]
    BY <1>1, <2>1, SetRevocationType
  <2>3. leases' \subseteq Lease /\ row' \in [Lease -> Row] /\ registered' \subseteq Lease
    BY <2>1, TableTypes
  <2> QED
    BY <1>3, <2>2, <2>3
    DEF DeleteRevoked, DeleteExhausted, TypeInv, TypeOK, RequestsOK, history
<1>4. CASE RecordFailure(a, l)
  <2> DEFINE new == [row[l] EXCEPT !.attempts = @ + 1,
                                   !.expires_at = NextExpiry(revocation[a][l].le)]
  <2>0. NextExpiry(revocation[a][l].le) \in Nat
    BY <1>1, LeaseAssumption DEF Row, Revocation, NextExpiry
  <2>1. new \in Row
    <3>1. row[l].attempts + 1 \in Nat
      BY <1>1 DEF Row
    <3> QED
      BY <1>1, <2>0, <3>1, RowUpdate
  <2>2. Update(l, new)
    BY <1>4 DEF RecordFailure
  <2>3. leases' \subseteq Lease /\ row' \in [Lease -> Row] /\ registered' \subseteq Lease
    BY <2>1, <2>2, TableTypes
  <2>4. revocation' \in [Actor -> [Lease -> Revocation]]
    BY <1>1, <1>4, SetRevocationType DEF RecordFailure
  <2> QED
    BY <1>4, <2>3, <2>4 DEF RecordFailure, TypeInv, TypeOK, RequestsOK, history
<1>5. CASE RevocationWriteFails(a, l)
  <2>1. revocation' \in [Actor -> [Lease -> Revocation]]
    BY <1>1, <1>5, SetRevocationType DEF RevocationWriteFails
  <2> QED
    BY <1>5, <2>1 DEF RevocationWriteFails, Fault, TypeInv, TypeOK, RequestsOK, tables
<1> QED
  BY <1>2, <1>3, <1>4, <1>5 DEF RevokeStep

\* A step of the worker keeps the types.
LEMMA WorkerStepType ==
    ASSUME TypeInv,
           \/ Pull \/ PullFails \/ Peek \/ PeekFails
           \/ Notified \/ WakeUp \/ BatchDone
    PROVE  TypeInv'
<1>1. clock \in Nat /\ worker \in Loop /\ Scan(clock) \in Loop
  BY NullTypes DEF TypeInv, TypeOK
<1>2. CASE Pull
  <2>1. worker' \in Loop
    BY <1>2, NullTypes DEF Pull
  <2>2. revocation' \in [Actor -> [Lease -> Revocation]]
    BY <1>2, BeginType DEF Pull, Actor
  <2> QED
    BY <1>2, <2>1, <2>2 DEF Pull, TypeInv, TypeOK, RequestsOK, tables, history
<1>3. CASE Peek
  <2>1. \A l \in leases : WakeFor(l) \in Nat \cup {None}
    BY DEF WakeFor, TypeInv, TypeOK, Row
  <2>2. worker' \in Loop
    BY <1>3, <2>1, NullTypes DEF Peek
  <2> QED
    BY <1>3, <2>2 DEF Peek, TypeInv, TypeOK, RequestsOK, tables, history
<1>4. CASE PullFails \/ PeekFails
  <2>1. worker' \in Loop
    BY <1>1, <1>4, NullTypes DEF PullFails, PeekFails
  <2> QED
    BY <1>4, <2>1 DEF PullFails, PeekFails, Fault, TypeInv, TypeOK, RequestsOK, tables
<1>5. CASE Notified \/ WakeUp \/ BatchDone
  BY <1>1, <1>5 DEF Notified, WakeUp, BatchDone, TypeInv, TypeOK, RequestsOK, tables, history
<1> QED
  BY <1>2, <1>3, <1>4, <1>5

\* An issued secret keeps the types.
LEMMA IssueType ==
    ASSUME TypeInv, NEW c \in Client, NEW l \in Lease, NEW ttl \in IssueTtls,
           Issue(c, l, ttl)
    PROVE  TypeInv'
<1> DEFINE t == CalculateTtl(clock, clock, client[c].config, ttl)
           r == [Idle EXCEPT !.pc = "register", !.lease = l, !.le = NewRow(clock, t)]
<1>0. client[c].config \in MountConfig
  BY ConfigsAssumption DEF Issue, TypeInv, RequestsOK
<1>1. NewRow(clock, t) \in Row
  BY <1>0, TtlCap, NewRowType, LeaseAssumption DEF TypeInv, TypeOK
<1>2. r \in Request /\ r.pc = "register" /\ r.lease \in Lease
  BY <1>1, NullTypes DEF Request, Idle
<1>3. client' \in [Client -> Request] /\ RequestsOK'
  <2>1. SetClient(c, r)
    BY DEF Issue
  <2> QED
    BY <1>2, <2>1, SetClientType
<1>4. backend' \in [Lease -> SecretState]
  BY DEF Issue, SecretState, TypeInv, TypeOK
<1> QED
  BY <1>3, <1>4 DEF Issue, TypeInv, TypeOK, tables, history

\* A routed request keeps the types.
LEMMA RouteType ==
    ASSUME TypeInv, NEW c \in Client, Route(c)
    PROVE  TypeInv'
<1> DEFINE r == [Idle EXCEPT !.pc = "issue", !.config = config]
<1>1. r \in Request /\ r.pc = "issue" /\ r.config \in Configs
  BY NullTypes DEF Request, Idle, TypeInv, TypeOK
<1>2. client' \in [Client -> Request] /\ RequestsOK'
  <2>1. SetClient(c, r)
    BY DEF Route
  <2> QED
    BY <1>1, <2>1, SetClientType
<1> QED
  BY <1>2 DEF Route, TypeInv, TypeOK, tables, history

\* A renewal keeps the types.
LEMMA RenewType ==
    ASSUME TypeInv, NEW c \in Client,
           \/ \E l \in Lease, ttl \in RenewTtls : BeginRenew(c, l, ttl)
           \/ RenewReply(c)
    PROVE  TypeInv'
<1>1. ASSUME NEW l \in Lease, NEW ttl \in RenewTtls, BeginRenew(c, l, ttl)
      PROVE  TypeInv'
  <2> DEFINE t == CalculateTtl(clock, row[l].issued_at, config, ttl)
             r == [pc |-> "renew", lease |-> l, config |-> config,
                   le |-> [NullRow EXCEPT !.issued_at = row[l].issued_at], ttl |-> t]
  <2>1. row[l].issued_at \in Nat
    BY DEF TypeInv, TypeOK, Row
  <2>2. t \in Nat
    BY <2>1, TtlCap, ConfigsAssumption, LeaseAssumption DEF TypeInv, TypeOK
  <2>3. [NullRow EXCEPT !.issued_at = row[l].issued_at] \in Row
    BY <2>1, NullTypes, RowUpdate
  <2>4. r \in Request /\ r.pc = "renew" /\ r.lease \in Lease /\ r.config \in Configs
    BY <2>2, <2>3 DEF Request, TypeInv, TypeOK
  <2>5. SetClient(c, r)
    BY <1>1 DEF BeginRenew
  <2>6. client' \in [Client -> Request] /\ RequestsOK'
    BY <2>4, <2>5, SetClientType
  <2> QED
    BY <1>1, <2>6 DEF BeginRenew, TypeInv, TypeOK, tables, history
<1>2. CASE RenewReply(c)
  <2> DEFINE m == client[c]
             r == [Idle EXCEPT !.pc = "write", !.lease = m.lease, !.le = Renewed(m)]
  <2>1. m \in Request /\ m.lease \in Lease /\ m.config \in Configs /\ m.le \in Row /\ m.ttl \in Nat
    BY <1>2 DEF RenewReply, TypeInv, TypeOK, RequestsOK, Request
  <2>2. clock + CalculateTtl(clock, m.le.issued_at, m.config, m.ttl) \in Nat
    <3>1. clock \in Nat /\ m.le.issued_at \in Nat
      BY <2>1 DEF TypeInv, TypeOK, Row
    <3>2. CalculateTtl(clock, m.le.issued_at, m.config, m.ttl) \in Nat
      BY <2>1, <3>1, TtlCap, ConfigsAssumption
    <3> QED
      BY <3>1, <3>2
  <2>3. Renewed(m) \in Row
    BY <2>1, <2>2, RowUpdate DEF Renewed
  <2>4. r \in Request /\ r.pc = "write" /\ r.lease \in Lease
    BY <2>1, <2>3, NullTypes DEF Request, Idle
  <2>5. client' \in [Client -> Request] /\ RequestsOK'
    <3>1. SetClient(c, r)
      BY <1>2 DEF RenewReply
    <3> QED
      BY <2>4, <3>1, SetClientType
  <2> QED
    BY <1>2, <2>5 DEF RenewReply, TypeInv, TypeOK, tables, history
<1> QED
  BY <1>1, <1>2

\* The last step of a request keeps the types.
LEMMA RequestEndType ==
    ASSUME TypeInv, NEW c \in Client,
           \/ Register(c) \/ RequestWriteFails(c) \/ Refused(c)
           \/ WriteRenewal(c) \/ Cancel(c)
    PROVE  TypeInv'
<1>1. client' \in [Client -> Request] /\ RequestsOK'
  BY SetIdleType DEF Register, RequestWriteFails, Refused, WriteRenewal, Cancel
<1>2. client[c] \in Request /\ client[c].le \in Row
  BY DEF TypeInv, TypeOK, Request
<1>3. CASE Register(c)
  <2>1. leases' \subseteq Lease /\ row' \in [Lease -> Row] /\ registered' \subseteq Lease
    BY <1>2, <1>3, TableTypes DEF Register, TypeInv, RequestsOK
  <2> QED
    BY <1>1, <1>3, <2>1 DEF Register, TypeInv, TypeOK, history
<1>4. CASE RequestWriteFails(c) \/ Refused(c)
  BY <1>1, <1>4 DEF RequestWriteFails, Refused, Fault, TypeInv, TypeOK, tables, history
<1>5. CASE WriteRenewal(c)
  <2> DEFINE l == client[c].lease
             new == [row[l] EXCEPT !.expires_at = client[c].le.expires_at]
  <2>1. l \in Lease
    BY <1>5 DEF WriteRenewal, TypeInv, RequestsOK
  <2>2. new \in Row
    <3>1. row[l] \in Row /\ client[c].le.expires_at \in Nat
      BY <1>2, <2>1 DEF TypeInv, TypeOK, Row
    <3> QED
      BY <3>1, RowUpdate
  <2>3. leases' \subseteq Lease /\ row' \in [Lease -> Row] /\ registered' \subseteq Lease
    <3>1. Update(l, new)
      BY <1>5 DEF WriteRenewal
    <3> QED
      BY <2>1, <2>2, <3>1, TableTypes
  <2> QED
    BY <1>1, <1>5, <2>3 DEF WriteRenewal, TypeInv, TypeOK, history
<1>6. CASE Cancel(c)
  <2>1. leases' \subseteq Lease /\ row' \in [Lease -> Row] /\ registered' \subseteq Lease
    BY <1>2, <1>6, TableTypes DEF Cancel, tables, TypeInv, TypeOK, RequestsOK
  <2>2. backend' \in [Lease -> SecretState]
    BY <1>6 DEF Cancel, SecretState, TypeInv, TypeOK
  <2> QED
    BY <1>1, <1>6, <2>1, <2>2 DEF Cancel, Fault, TypeInv, TypeOK
<1> QED
  BY <1>3, <1>4, <1>5, <1>6

\* Time, configuration changes, crashes and late handlers keep the types.
LEMMA EnvironmentType ==
    ASSUME TypeInv, Tick \/ UpdateMount \/ Crash \/ \E l \in Lease : LateRevoke(l)
    PROVE  TypeInv'
<1>1. CASE Tick
  BY <1>1 DEF Tick, TypeInv, TypeOK, RequestsOK, tables, history
<1>2. CASE UpdateMount
  BY <1>2 DEF UpdateMount, TypeInv, TypeOK, RequestsOK, tables, history
<1>3. CASE Crash
  <2>1. clock' \in Nat
    BY <1>3, LeaseAssumption DEF Crash, TypeInv, TypeOK
  <2>2. worker' \in Loop
    BY <1>3, <2>1, NullTypes DEF Crash
  <2>3. revocation' \in [Actor -> [Lease -> Revocation]] /\ client' \in [Client -> Request]
    BY <1>3, NullTypes DEF Crash
  <2>4. RequestsOK'
    BY <1>3 DEF Crash, RequestsOK, Idle
  <2>5. faults' \in Nat
    BY <1>3 DEF Crash, Fault, TypeInv, TypeOK
  <2>6. /\ UNCHANGED <<config, leases, row, registered, backend, failures>>
        /\ permit' = FALSE
    BY <1>3 DEF Crash, tables
  <2>7. TypeOK'
    BY <2>1, <2>2, <2>3, <2>5, <2>6 DEF TypeInv, TypeOK
  <2> QED
    BY <2>4, <2>7 DEF TypeInv
<1>4. CASE \E l \in Lease : LateRevoke(l)
  BY <1>4 DEF LateRevoke, SecretState, TypeInv, TypeOK, RequestsOK, tables, history
<1> QED
  BY <1>1, <1>2, <1>3, <1>4

\* A request to revoke keeps the types.
LEMMA RevokeLeasesType ==
    ASSUME TypeInv, NEW c \in Client, NEW S, RevokeLeases(c, S)
    PROVE  TypeInv'
<1>1. revocation' \in [Actor -> [Lease -> Revocation]]
  BY BeginType DEF RevokeLeases, Actor
<1> QED
  BY <1>1 DEF RevokeLeases, TypeInv, TypeOK, RequestsOK, tables, history

\* Next, split into the cases that the proofs treat.
LEMMA NextCases ==
    ASSUME Next
    PROVE  \/ \/ Pull \/ PullFails \/ Peek \/ PeekFails
              \/ Notified \/ WakeUp \/ BatchDone
           \/ \E a \in Actor, l \in Lease : RevokeStep(a, l) \/ RevocationWriteFails(a, l)
           \/ \E c \in Client : Route(c)
           \/ \E c \in Client, l \in Lease, ttl \in IssueTtls : Issue(c, l, ttl)
           \/ \E c \in Client :
                 \/ \E l \in Lease, ttl \in RenewTtls : BeginRenew(c, l, ttl)
                 \/ RenewReply(c)
           \/ \E c \in Client :
                 \/ Register(c) \/ RequestWriteFails(c) \/ Refused(c)
                 \/ WriteRenewal(c) \/ Cancel(c)
           \/ \E c \in Client : \E S \in SUBSET Lease : RevokeLeases(c, S)
           \/ Tick \/ UpdateMount \/ Crash \/ \E l \in Lease : LateRevoke(l)
<1>1. CASE WorkerStep
  BY <1>1 DEF WorkerStep, Actor
<1>2. ASSUME NEW c \in Client, ClientStep(c)
      PROVE  \/ \E l \in Lease : RevokeStep(c, l)
             \/ Route(c)
             \/ \E l \in Lease, ttl \in IssueTtls : Issue(c, l, ttl)
             \/ \E l \in Lease, ttl \in RenewTtls : BeginRenew(c, l, ttl)
             \/ RenewReply(c)
             \/ Register(c) \/ RequestWriteFails(c) \/ Refused(c)
             \/ WriteRenewal(c) \/ Cancel(c)
             \/ \E S \in SUBSET Lease : RevokeLeases(c, S)
  BY <1>2, LeaseAssumption DEF ClientStep
<1> QED
  BY <1>1, <1>2 DEF Next, Actor

\* Every step keeps the types.
LEMMA TypeStep == TypeInv /\ [Next]_vars => TypeInv'
<1> SUFFICES ASSUME TypeInv, [Next]_vars PROVE TypeInv'
  OBVIOUS
<1>1. CASE Next
  BY <1>1, NextCases, WorkerStepType, RevokeStepType, RouteType, IssueType, RenewType,
     RequestEndType, RevokeLeasesType, EnvironmentType
<1>2. CASE UNCHANGED vars
  BY <1>2 DEF vars, tables, history, TypeInv, TypeOK, RequestsOK
<1> QED
  BY <1>1, <1>2

\* Every variable keeps its type, and every request in progress knows its
\* lease.
THEOREM TypeCorrect == Spec => [](TypeOK /\ RequestsOK)
<1>1. Init => TypeInv
  BY InitType
<1>2. TypeInv /\ [Next]_vars => TypeInv'
  BY TypeStep
<1>3. TypeInv => TypeOK /\ RequestsOK
  BY DEF TypeInv
<1> QED
  BY <1>1, <1>2, <1>3, PTL DEF Spec

-----------------------------------------------------------------------------
(***************************************************************************)
(* Failure counts                                                          *)
(***************************************************************************)

\* The owners of a revocation of l that has failed and is not yet recorded.
Failed(l) == {a \in Actor : revocation[a][l].stage = "failed"}

\* The failure count of a row falls short of the failures that happened by
\* those not yet recorded at least; a copy of the row shows no more failures
\* than happened, and one less if its own revocation has failed; a revocation
\* that succeeded left no live secret.
CountsOK(l) ==
    /\ row[l].attempts + Cardinality(Failed(l)) <= failures[l]
    /\ \A a \in Actor :
          /\ revocation[a][l].le.attempts <= failures[l]
          /\ revocation[a][l].stage = "failed" =>
                revocation[a][l].le.attempts + 1 <= failures[l]
          /\ revocation[a][l].stage = "ok" => backend[l] = "gone"

CountInv ==
    /\ leases \subseteq registered
    /\ \A l \in registered : backend[l] # "none"
    /\ \A c \in Client :
          /\ client[c].le.attempts = 0
          /\ client[c].pc = "register" => backend[client[c].lease] # "none"
    /\ \A l \in Lease : CountsOK(l)
    /\ AbandonedOnlyAfterMaxRetries

\* What Begin and SetRevocation do to one revocation.
LEMMA BeginCases ==
    ASSUME TypeInv, NEW a \in Actor, NEW S, Begin(a, S),
           NEW b \in Actor, NEW l \in Lease
    PROVE  \/ revocation'[b][l] = revocation[b][l]
           \/ revocation'[b][l] = [stage |-> "send", le |-> row[l]]
BY DEF TypeInv, TypeOK, Begin

\* What SetRevocation does to every revocation.
LEMMA SetRevocationCases ==
    ASSUME TypeInv, NEW a \in Actor, NEW l \in Lease, NEW r, SetRevocation(a, l, r),
           NEW b \in Actor, NEW m \in Lease
    PROVE  revocation'[b][m] = IF b = a /\ m = l THEN r ELSE revocation[b][m]
BY DEF TypeInv, TypeOK, SetRevocation

\* Finitely many revocations of a lease have failed.
LEMMA FailedFinite ==
    ASSUME NEW l \in Lease
    PROVE  IsFiniteSet(Failed(l)) /\ Cardinality(Failed(l)) \in Nat
<1>1. IsFiniteSet(Actor)
  BY LeaseAssumption, FS_AddElement DEF Actor
<1>2. Failed(l) \subseteq Actor
  BY DEF Failed
<1> QED
  BY <1>1, <1>2, FS_Subset, FS_CardinalityType

\* The manager starts with the counts at zero.
LEMMA CountInit == Init => CountInv
<1> SUFFICES ASSUME Init PROVE CountInv
  OBVIOUS
<1>1. ASSUME NEW l \in Lease PROVE CountsOK(l)
  <2>1. Failed(l) = {}
    BY DEF Init, Failed, NoRevocation
  <2> QED
    BY <2>1, FS_EmptySet DEF Init, CountsOK, NoRevocation, NullRow
<1> QED
  BY <1>1 DEF Init, CountInv, AbandonedOnlyAfterMaxRetries, NullRow, Idle

\* A step that leaves the counts of l as they are: revocations may begin on
\* a copy of the row, go on unchanged or be forgotten.
LEMMA CountsKept ==
    ASSUME TypeInv, CountInv, NEW l \in Lease,
           row'[l].attempts \in Nat, row'[l].attempts <= row[l].attempts,
           failures'[l] = failures[l],
           backend[l] = "gone" => backend'[l] = "gone",
           \A a \in Actor : \/ revocation'[a][l] = revocation[a][l]
                            \/ revocation'[a][l] = [stage |-> "send", le |-> row[l]]
                            \/ revocation'[a][l] = NoRevocation
    PROVE  CountsOK(l)'
<1>1. CountsOK(l)
  BY DEF CountInv
<1>2. Failed(l)' \subseteq Failed(l)
  BY DEF Failed, NoRevocation
<1>3. /\ Cardinality(Failed(l)) \in Nat /\ Cardinality(Failed(l)') \in Nat
      /\ Cardinality(Failed(l)') <= Cardinality(Failed(l))
  BY <1>2, FailedFinite, FS_Subset, FS_CardinalityType
<1>4. row[l].attempts \in Nat /\ failures[l] \in Nat
  BY DEF TypeInv, TypeOK, Row
<1>5. row'[l].attempts + Cardinality(Failed(l)') <= failures'[l]
  BY <1>1, <1>3, <1>4 DEF CountsOK
<1>6. row[l].attempts <= failures[l]
  BY <1>1, <1>3, <1>4 DEF CountsOK
<1> QED
  BY <1>1, <1>4, <1>5, <1>6 DEF CountsOK, NoRevocation, NullRow

\* A step that at most begins revocations.
LEMMA CountBegin ==
    ASSUME TypeInv, CountInv, NEW a \in Actor, NEW S,
           Begin(a, S) \/ UNCHANGED revocation,
           UNCHANGED <<tables, client, backend, failures>>
    PROVE  CountInv'
<1>1. ASSUME NEW l \in Lease PROVE CountsOK(l)'
  <2>1. row'[l].attempts \in Nat /\ row'[l].attempts <= row[l].attempts
    BY DEF tables, TypeInv, TypeOK, Row
  <2> QED
    BY <2>1, BeginCases, CountsKept DEF tables
<1> QED
  BY <1>1 DEF CountInv, AbandonedOnlyAfterMaxRetries, tables

\* A revoke request is answered: a failure is counted before it is recorded.
LEMMA CountSend ==
    ASSUME TypeInv, CountInv, NEW a \in Actor, NEW l \in Lease, SendRevoke(a, l)
    PROVE  CountInv'
<1> DEFINE r == revocation[a][l]
           ok == [NoRevocation EXCEPT !.stage = "ok"]
           failed == [r EXCEPT !.stage = "failed"]
<1>1. /\ r \in Revocation /\ r.stage = "send"
      /\ ok.stage = "ok" /\ ok.le.attempts = 0
      /\ failed.stage = "failed" /\ failed.le = r.le
  BY DEF SendRevoke, TypeInv, TypeOK, Revocation, NoRevocation, NullRow
<1>2. \A m \in Lease :
         /\ failures[m] \in Nat /\ failures'[m] \in Nat /\ failures[m] <= failures'[m]
         /\ \/ backend'[m] = backend[m]
            \/ backend'[m] = "gone"
            \/ backend[m] = "live" /\ backend'[m] = "leaving"
  BY DEF SendRevoke, Outlive, TypeInv, TypeOK
<1>3. UNCHANGED <<leases, row, registered, client>>
  BY DEF SendRevoke, tables
<1>4. ASSUME NEW m \in Lease, m # l PROVE CountsOK(m)'
  <2>1. failures'[m] = failures[m] /\ backend'[m] = backend[m]
    BY <1>4 DEF SendRevoke, Outlive, TypeInv, TypeOK
  <2>2. \A b \in Actor : revocation'[b][m] = revocation[b][m]
    BY <1>4 DEF SendRevoke, SetRevocation, TypeInv, TypeOK
  <2>3. row'[m].attempts \in Nat /\ row'[m].attempts <= row[m].attempts
    BY <1>3 DEF TypeInv, TypeOK, Row
  <2> QED
    BY <1>3, <2>1, <2>2, <2>3, CountsKept
<1>5. ASSUME SetRevocation(a, l, ok), backend'[l] = "gone", UNCHANGED failures
      PROVE  CountsOK(l)'
  <2>1. \A b \in Actor : revocation'[b][l] = IF b = a THEN ok ELSE revocation[b][l]
    BY <1>5, SetRevocationCases
  <2>2. Failed(l)' = Failed(l)
    BY <1>1, <2>1 DEF Failed
  <2>3. CountsOK(l) /\ failures[l] \in Nat
    BY DEF CountInv, TypeInv, TypeOK
  <2>4. row'[l].attempts + Cardinality(Failed(l)') <= failures'[l]
    BY <1>3, <1>5, <2>2, <2>3 DEF CountsOK
  <2>5. ASSUME NEW b \in Actor
        PROVE  /\ revocation'[b][l].le.attempts <= failures'[l]
               /\ revocation'[b][l].stage = "failed" =>
                     revocation'[b][l].le.attempts + 1 <= failures'[l]
               /\ revocation'[b][l].stage = "ok" => backend'[l] = "gone"
    <3>1. CASE b = a
      <4>1. revocation'[b][l] = ok
        BY <2>1, <3>1
      <4>2. 0 <= failures'[l]
        BY <1>5, <2>3
      <4> QED
        BY <1>1, <1>5, <4>1, <4>2
    <3>2. CASE b # a
      BY <1>5, <2>1, <2>3, <3>2 DEF CountsOK
    <3> QED
      BY <3>1, <3>2
  <2> QED
    BY <2>4, <2>5 DEF CountsOK
<1>6. ASSUME SetRevocation(a, l, failed), failures' = [failures EXCEPT ![l] = @ + 1]
      PROVE  CountsOK(l)'
  <2>1. \A b \in Actor : revocation'[b][l] = IF b = a THEN failed ELSE revocation[b][l]
    BY <1>6, SetRevocationCases
  <2>2. Failed(l)' = Failed(l) \cup {a} /\ a \notin Failed(l)
    BY <1>1, <2>1 DEF Failed
  <2>3. Cardinality(Failed(l)') = Cardinality(Failed(l)) + 1 /\ Cardinality(Failed(l)) \in Nat
    BY <2>2, FailedFinite, FS_AddElement
  <2>4. failures'[l] = failures[l] + 1 /\ failures[l] \in Nat /\ row[l].attempts \in Nat
    BY <1>6 DEF TypeInv, TypeOK, Row
  <2>5. CountsOK(l)
    BY DEF CountInv
  <2>6. row'[l].attempts + Cardinality(Failed(l)') <= failures'[l]
    BY <1>3, <2>3, <2>4, <2>5 DEF CountsOK
  <2>7. \A b \in Actor : revocation[b][l].le.attempts \in Nat
    BY DEF TypeInv, TypeOK, Revocation, Row
  <2>8. \A b \in Actor : revocation'[b][l].le = revocation[b][l].le
    BY <1>1, <2>1
  <2>9. \A b \in Actor : revocation'[b][l].le.attempts + 1 <= failures'[l]
    BY <2>4, <2>5, <2>7, <2>8 DEF CountsOK
  <2>10. \A b \in Actor : revocation'[b][l].stage = "ok" => backend'[l] = "gone"
    BY <1>1, <1>2, <2>1, <2>5 DEF CountsOK
  <2>11. \A b \in Actor : revocation'[b][l].le.attempts <= failures'[l]
    BY <1>2, <2>7, <2>8, <2>9
  <2> QED
    BY <2>6, <2>9, <2>10, <2>11 DEF CountsOK
<1>7. CountsOK(l)'
  <2>1. \/ SetRevocation(a, l, ok) /\ backend'[l] = "gone" /\ UNCHANGED failures
        \/ SetRevocation(a, l, failed) /\ failures' = [failures EXCEPT ![l] = @ + 1]
    BY DEF SendRevoke, TypeInv, TypeOK
  <2> QED
    BY <1>5, <1>6, <2>1
<1>8. AbandonedOnlyAfterMaxRetries'
  <2> SUFFICES ASSUME NEW m \in registered \ leases, backend'[m] # "gone"
               PROVE  failures'[m] >= MaxRetries
    BY <1>3 DEF AbandonedOnlyAfterMaxRetries
  <2>1. m \in Lease /\ failures[m] >= MaxRetries
    BY <1>2 DEF CountInv, AbandonedOnlyAfterMaxRetries, TypeInv, TypeOK
  <2> QED
    BY <1>2, <2>1, LeaseAssumption
<1> QED
  BY <1>2, <1>3, <1>4, <1>7, <1>8 DEF CountInv, TypeInv, TypeOK, RequestsOK

\* The answered revocation is written to the table, or forgotten.  The copy
\* may be behind the row, but the failure being recorded is in Failed(l).
LEMMA CountWrite ==
    ASSUME TypeInv, CountInv, NEW a \in Actor, NEW l \in Lease,
           \/ DeleteRevoked(a, l) \/ DeleteExhausted(a, l)
           \/ RecordFailure(a, l) \/ RevocationWriteFails(a, l)
    PROVE  CountInv'
<1> DEFINE r == revocation[a][l]
<1>1. /\ SetRevocation(a, l, NoRevocation)
      /\ UNCHANGED <<client, backend, failures, registered>>
      /\ leases' \subseteq leases
  BY DEF DeleteRevoked, DeleteExhausted, RecordFailure, RevocationWriteFails,
         Delete, Update, tables, history
<1>2. /\ CountsOK(l) /\ r \in Revocation /\ r.le.attempts \in Nat
      /\ row[l] \in Row /\ row[l].attempts \in Nat /\ failures[l] \in Nat
  BY DEF CountInv, TypeInv, TypeOK, Revocation, Row
<1>3. \A b \in Actor, m \in Lease :
        revocation'[b][m] = IF b = a /\ m = l THEN NoRevocation ELSE revocation[b][m]
  BY <1>1, SetRevocationCases
<1>4. ASSUME NEW m \in Lease, row'[m].attempts = row[m].attempts
      PROVE  CountsOK(m)'
  <2>1. row'[m].attempts \in Nat /\ row'[m].attempts <= row[m].attempts
    BY <1>4 DEF TypeInv, TypeOK, Row
  <2> QED
    BY <1>1, <1>3, <2>1, CountsKept
<1>5. \A m \in Lease \ {l} : row'[m] = row[m]
  BY DEF DeleteRevoked, DeleteExhausted, RecordFailure, RevocationWriteFails,
         Delete, Update, tables, TypeInv, TypeOK
<1>6. ASSUME r.stage = "failed", row'[l].attempts = row[l].attempts + 1
      PROVE  CountsOK(l)'
  <2>1. Failed(l)' = Failed(l) \ {a} /\ a \in Failed(l)
    BY <1>3, <1>6 DEF Failed, NoRevocation
  <2>2. /\ Cardinality(Failed(l)') = Cardinality(Failed(l)) - 1
        /\ Cardinality(Failed(l)) \in Nat
    BY <2>1, FailedFinite, FS_RemoveElement
  <2>3. row'[l].attempts + Cardinality(Failed(l)') <= failures'[l]
    BY <1>1, <1>2, <1>6, <2>2 DEF CountsOK
  <2>4. \A b \in Actor :
          /\ revocation'[b][l].le.attempts <= failures'[l]
          /\ revocation'[b][l].stage = "failed" =>
                revocation'[b][l].le.attempts + 1 <= failures'[l]
          /\ revocation'[b][l].stage = "ok" => backend'[l] = "gone"
    BY <1>1, <1>2, <1>3 DEF CountsOK, NoRevocation, NullRow
  <2> QED
    BY <2>3, <2>4 DEF CountsOK
<1>7. ASSUME row'[l].attempts = 0
      PROVE  CountsOK(l)'
  <2>1. Failed(l)' \subseteq Failed(l)
    BY <1>3 DEF Failed, NoRevocation
  <2>2. /\ Cardinality(Failed(l)) \in Nat /\ Cardinality(Failed(l)') \in Nat
        /\ Cardinality(Failed(l)') <= Cardinality(Failed(l))
    BY <2>1, FailedFinite, FS_Subset, FS_CardinalityType
  <2>3. row'[l].attempts + Cardinality(Failed(l)') <= failures'[l]
    BY <1>1, <1>2, <1>7, <2>2 DEF CountsOK
  <2>4. \A b \in Actor :
          /\ revocation'[b][l].le.attempts <= failures'[l]
          /\ revocation'[b][l].stage = "failed" =>
                revocation'[b][l].le.attempts + 1 <= failures'[l]
          /\ revocation'[b][l].stage = "ok" => backend'[l] = "gone"
    BY <1>1, <1>2, <1>3 DEF CountsOK, NoRevocation, NullRow
  <2> QED
    BY <2>3, <2>4 DEF CountsOK
<1>8. \A m \in Lease : CountsOK(m)'
  <2>1. \/ r.stage = "failed" /\ row'[l].attempts = row[l].attempts + 1
        \/ row'[l].attempts = 0
        \/ row'[l].attempts = row[l].attempts
    <3>1. CASE RecordFailure(a, l)
      <4>1. /\ r.stage = "failed"
            /\ \/ row' = row
               \/ row'[l] = [row[l] EXCEPT !.attempts = row[l].attempts + 1,
                                           !.expires_at = NextExpiry(r.le)]
        BY <3>1 DEF RecordFailure, Update, TypeInv, TypeOK
      <4> QED
        BY <1>2, <4>1 DEF Row
    <3>2. CASE DeleteRevoked(a, l) \/ DeleteExhausted(a, l)
      BY <3>2 DEF DeleteRevoked, DeleteExhausted, Delete, TypeInv, TypeOK, NullRow
    <3>3. CASE RevocationWriteFails(a, l)
      BY <3>3 DEF RevocationWriteFails, tables
    <3> QED
      BY <3>1, <3>2, <3>3
  <2>2. CountsOK(l)'
    BY <1>4, <1>6, <1>7, <2>1
  <2> QED
    BY <1>4, <1>5, <2>2
<1>9. AbandonedOnlyAfterMaxRetries'
  <2> SUFFICES ASSUME NEW m \in registered \ leases', backend[m] # "gone"
               PROVE  failures[m] >= MaxRetries
    BY <1>1 DEF AbandonedOnlyAfterMaxRetries
  <2>1. CASE m \notin leases
    BY <2>1 DEF CountInv, AbandonedOnlyAfterMaxRetries
  <2>2. CASE m \in leases
    <3>1. m = l /\ (DeleteRevoked(a, l) \/ DeleteExhausted(a, l))
      BY <2>2 DEF DeleteRevoked, DeleteExhausted, RecordFailure, RevocationWriteFails,
                  Delete, Update, tables
    <3>2. r.stage = "failed" /\ r.le.attempts + 1 >= MaxRetries
      BY <1>2, <3>1 DEF DeleteRevoked, DeleteExhausted, Exhausted, CountsOK
    <3>3. r.le.attempts + 1 <= failures[l]
      BY <1>2, <3>2 DEF CountsOK
    <3> QED
      BY <1>2, <3>1, <3>2, <3>3, LeaseAssumption
  <2> QED
    BY <2>1, <2>2
<1> QED
  BY <1>1, <1>8, <1>9 DEF CountInv

\* What every step of a request has in common: it touches no failure count.
LEMMA CountClient ==
    ASSUME TypeInv, CountInv, NEW c \in Client, NEW r, SetClient(c, r),
           r.le.attempts = 0,
           r.pc = "register" => backend'[r.lease] # "none",
           UNCHANGED failures,
           \A l \in Lease : backend[l] # "none" => backend'[l] = backend[l],
           \A l \in Lease :
              row'[l].attempts \in Nat /\ row'[l].attempts <= row[l].attempts,
           \A a \in Actor, l \in Lease : \/ revocation'[a][l] = revocation[a][l]
                                        \/ revocation'[a][l] = NoRevocation,
           leases' \subseteq registered',
           registered' \ leases' \subseteq registered \ leases,
           \A l \in registered' : l \in registered \/ backend[l] # "none",
           registered' \subseteq Lease
    PROVE  CountInv'
<1>1. ASSUME NEW l \in Lease PROVE CountsOK(l)'
  BY CountsKept DEF CountInv
<1>2. AbandonedOnlyAfterMaxRetries'
  BY DEF CountInv, AbandonedOnlyAfterMaxRetries
<1>3. \A l \in registered' : backend'[l] # "none"
  BY DEF CountInv
<1>4. ASSUME NEW d \in Client
      PROVE  /\ client'[d].le.attempts = 0
             /\ client'[d].pc = "register" => backend'[client'[d].lease] # "none"
  <2>1. client'[d] = IF d = c THEN r ELSE client[d]
    BY DEF SetClient, TypeInv, TypeOK
  <2> QED
    BY <2>1 DEF CountInv, TypeInv, RequestsOK
<1> QED
  BY <1>1, <1>2, <1>3, <1>4 DEF CountInv

\* A step of a request keeps the counts.
LEMMA CountRequest ==
    ASSUME TypeInv, CountInv, NEW c \in Client,
           \/ Route(c)
           \/ \E l \in Lease, ttl \in IssueTtls : Issue(c, l, ttl)
           \/ \E l \in Lease, ttl \in RenewTtls : BeginRenew(c, l, ttl)
           \/ RenewReply(c) \/ Refused(c) \/ WriteRenewal(c)
           \/ Register(c) \/ RequestWriteFails(c) \/ Cancel(c)
    PROVE  CountInv'
<1>1. /\ client[c].le.attempts = 0 /\ client[c].le \in Row
      /\ Idle.le.attempts = 0 /\ Idle.pc = "idle"
      /\ registered \subseteq Lease /\ leases \subseteq registered
      /\ \A l \in Lease : row[l].attempts \in Nat /\ row[l].attempts <= row[l].attempts
  BY DEF CountInv, TypeInv, TypeOK, Request, Idle, NullRow, Row
<1>2. ASSUME NEW l \in Lease, NEW ttl \in IssueTtls, Issue(c, l, ttl)
      PROVE  CountInv'
  <2> DEFINE r == [Idle EXCEPT !.pc = "register", !.lease = l,
                     !.le = NewRow(clock, CalculateTtl(clock, clock, client[c].config, ttl))]
  <2>1. SetClient(c, r) /\ r.le.attempts = 0 /\ r.lease = l
    BY <1>2 DEF Issue, Idle, NewRow
  <2>2. backend'[l] # "none" /\ \A m \in Lease : backend[m] # "none" => backend'[m] = backend[m]
    BY <1>2 DEF Issue, TypeInv, TypeOK
  <2>3. UNCHANGED <<leases, row, registered, revocation, failures>>
    BY <1>2 DEF Issue, tables, history
  <2> QED
    BY <1>1, <2>1, <2>2, <2>3, CountClient
<1>3. ASSUME NEW l \in Lease, NEW ttl \in RenewTtls, BeginRenew(c, l, ttl)
      PROVE  CountInv'
  <2>1. PICK r : SetClient(c, r) /\ r.le.attempts = 0 /\ r.pc = "renew"
    BY <1>3 DEF BeginRenew, NullRow
  <2>2. r.pc # "register"
    BY <2>1
  <2>3. UNCHANGED <<leases, row, registered, revocation, backend, failures>>
    BY <1>3 DEF BeginRenew, tables, history
  <2> QED
    BY <1>1, <2>1, <2>2, <2>3, CountClient
<1>4. CASE RenewReply(c)
  <2> DEFINE r == [Idle EXCEPT !.pc = "write", !.lease = client[c].lease,
                              !.le = Renewed(client[c])]
  <2>1. Renewed(client[c]).attempts = 0
    BY <1>1 DEF Renewed, Row
  <2>2. SetClient(c, r) /\ r.le.attempts = 0 /\ r.pc = "write"
    BY <1>4, <2>1 DEF RenewReply, Idle
  <2>3. r.pc # "register"
    BY <2>2
  <2>4. UNCHANGED <<leases, row, registered, revocation, backend, failures>>
    BY <1>4 DEF RenewReply, tables, history
  <2> QED
    BY <1>1, <2>2, <2>3, <2>4, CountClient
<1>5. CASE Refused(c) \/ RequestWriteFails(c)
  <2>1. SetClient(c, Idle) /\ UNCHANGED <<leases, row, registered, revocation, backend, failures>>
    BY <1>5 DEF Refused, RequestWriteFails, tables, history
  <2> QED
    BY <1>1, <2>1, CountClient
<1>6. CASE WriteRenewal(c)
  <2>1. /\ SetClient(c, Idle)
        /\ UNCHANGED <<leases, registered, revocation, backend, failures>>
    BY <1>6 DEF WriteRenewal, Update, history
  <2>2. \A l \in Lease : row'[l].attempts = row[l].attempts
    BY <1>6 DEF WriteRenewal, Update, TypeInv, TypeOK, Row
  <2> QED
    BY <1>1, <2>1, <2>2, CountClient
<1>7. CASE Register(c) \/ Cancel(c)
  <2> DEFINE l == client[c].lease
  <2>1. /\ SetClient(c, Idle)
        /\ UNCHANGED <<revocation, failures>>
        /\ \/ UNCHANGED <<leases, row, registered>>
           \/ client[c].pc = "register" /\ Insert(l, client[c].le) /\ UNCHANGED backend
    BY <1>7 DEF Register, Cancel, history, tables
  <2>2. \A m \in Lease : backend[m] # "none" => backend'[m] = backend[m]
    BY <1>7 DEF Register, Cancel, TypeInv, TypeOK
  <2>3. CASE UNCHANGED <<leases, row, registered>>
    BY <1>1, <2>1, <2>2, <2>3, CountClient
  <2>4. CASE client[c].pc = "register" /\ Insert(l, client[c].le) /\ UNCHANGED backend
    <3>1. l \in Lease /\ backend[l] # "none"
      BY <2>4 DEF CountInv, TypeInv, RequestsOK
    <3>2. \A m \in Lease : row'[m].attempts \in Nat /\ row'[m].attempts <= row[m].attempts
      BY <1>1, <2>4 DEF Insert, TypeInv, TypeOK
    <3> QED
      BY <1>1, <2>1, <2>2, <2>4, <3>1, <3>2, CountClient DEF Insert
  <2> QED
    BY <2>1, <2>3, <2>4
<1>8. CASE Route(c)
  <2> DEFINE r == [Idle EXCEPT !.pc = "issue", !.config = config]
  <2>1. SetClient(c, r) /\ r.le.attempts = 0 /\ r.pc = "issue"
    BY <1>1, <1>8 DEF Route, Idle
  <2>2. r.pc # "register"
    BY <2>1
  <2>3. UNCHANGED <<leases, row, registered, revocation, backend, failures>>
    BY <1>8 DEF Route, tables, history
  <2> QED
    BY <1>1, <2>1, <2>2, <2>3, CountClient
<1> QED
  BY <1>2, <1>3, <1>4, <1>5, <1>6, <1>7, <1>8

\* Time, configuration changes, crashes and late handlers keep the counts.
LEMMA CountEnvironment ==
    ASSUME TypeInv, CountInv,
           Tick \/ UpdateMount \/ Crash \/ \E l \in Lease : LateRevoke(l)
    PROVE  CountInv'
<1>1. UNCHANGED <<leases, row, registered, failures>>
  BY DEF Tick, UpdateMount, Crash, LateRevoke, tables, history
<1>0. ASSUME NEW l \in Lease
      PROVE  \/ backend'[l] = backend[l]
             \/ backend[l] = "leaving" /\ backend'[l] \in {"gone", "live"}
  BY DEF Tick, UpdateMount, Crash, LateRevoke, TypeInv, TypeOK
<1>2. ASSUME NEW l \in Lease PROVE CountsOK(l)'
  <2>1. row'[l].attempts \in Nat /\ row'[l].attempts <= row[l].attempts
    BY <1>1 DEF TypeInv, TypeOK, Row
  <2>2. \A a \in Actor : \/ revocation'[a][l] = revocation[a][l]
                        \/ revocation'[a][l] = NoRevocation
    BY DEF Tick, UpdateMount, Crash, LateRevoke
  <2> QED
    BY <1>0, <1>1, <2>1, <2>2, CountsKept
<1>3. ASSUME NEW c \in Client
      PROVE  /\ client'[c].le.attempts = 0
             /\ client'[c].pc = "register" => backend'[client'[c].lease] # "none"
  <2>1. client'[c] = client[c] \/ client'[c] = Idle
    BY DEF Tick, UpdateMount, Crash, LateRevoke
  <2> QED
    BY <1>0, <2>1 DEF CountInv, Idle, NullRow, TypeInv, RequestsOK
<1>4. /\ \A l \in registered' : backend'[l] # "none"
      /\ AbandonedOnlyAfterMaxRetries'
  BY <1>0, <1>1 DEF CountInv, AbandonedOnlyAfterMaxRetries, TypeInv, TypeOK
<1> QED
  BY <1>1, <1>2, <1>3, <1>4 DEF CountInv

\* Every step keeps the counts.
LEMMA CountStep == TypeInv /\ CountInv /\ [Next]_vars => CountInv'
<1> SUFFICES ASSUME TypeInv, CountInv, [Next]_vars PROVE CountInv'
  OBVIOUS
<1>1. CASE \/ Pull \/ PullFails \/ Peek \/ PeekFails
           \/ Notified \/ WakeUp \/ BatchDone
  <2>1. \E S : Begin(Worker, S) \/ UNCHANGED revocation
    BY <1>1 DEF Pull, PullFails, Peek, PeekFails, Notified, WakeUp, BatchDone
  <2>2. UNCHANGED <<tables, client, backend, failures>>
    BY <1>1 DEF Pull, PullFails, Peek, PeekFails, Notified, WakeUp, BatchDone, history
  <2> QED
    BY <2>1, <2>2, CountBegin DEF Actor
<1>2. ASSUME NEW c \in Client, NEW S, RevokeLeases(c, S)
      PROVE  CountInv'
  BY <1>2, CountBegin DEF RevokeLeases, Actor, history
<1>3. ASSUME NEW a \in Actor, NEW l \in Lease,
             RevokeStep(a, l) \/ RevocationWriteFails(a, l)
      PROVE  CountInv'
  BY <1>3, CountSend, CountWrite DEF RevokeStep
<1>4. CASE UNCHANGED vars
  BY <1>4, CountBegin DEF vars, history, Actor
<1>5. CASE Next
  BY <1>1, <1>2, <1>3, <1>5, NextCases, CountRequest, CountEnvironment
<1> QED
  BY <1>4, <1>5

\* A lease is given up only after MaxRetries revoke requests for it failed,
\* for any number of concurrent revocations and stale copies of its row.
THEOREM AbandonmentIsJustified == Spec => []AbandonedOnlyAfterMaxRetries
<1>1. Init => TypeInv /\ CountInv
  BY InitType, CountInit
<1>2. TypeInv /\ CountInv /\ [Next]_vars => (TypeInv /\ CountInv)'
  BY TypeStep, CountStep
<1>3. TypeInv /\ CountInv => AbandonedOnlyAfterMaxRetries
  BY DEF CountInv
<1> QED
  BY <1>1, <1>2, <1>3, PTL DEF Spec

-----------------------------------------------------------------------------
(***************************************************************************)
(* Lifetimes                                                               *)
(***************************************************************************)

\* What LifetimeIsBounded says of a row, said of any copy of one: it expires
\* within the maximal life of the lease, or by now, but for the delays of the
\* retries it records.
Within(le, now) ==
    \/ le.expires_at <= now + le.attempts * RetryTimeout
    \/ \E cfg \in Configs :
          le.expires_at <= le.issued_at + cfg.max_lease_ttl + le.attempts * RetryTimeout

\* A copy of the row of l agrees with the row while there is one, but for a
\* failure count that may be behind.
CopyOK(l, le) ==
    /\ l \in registered
    /\ l \in leases => le.issued_at = row[l].issued_at /\ le.attempts <= row[l].attempts

RevocationLife(a, l) ==
    revocation[a][l].stage \in {"send", "failed"} =>
        CopyOK(l, revocation[a][l].le) /\ Within(revocation[a][l].le, clock)

RequestLife(c) ==
    /\ client[c].pc # "idle" => Within(client[c].le, clock)
    /\ client[c].pc \in {"renew", "write"} => CopyOK(client[c].lease, client[c].le)

\* A lease that is being registered has no row yet, and is registered by one
\* request only.
Registering(c) ==
    client[c].pc = "register" =>
        /\ client[c].lease \notin registered
        /\ \A d \in Client \ {c} :
              client[d].pc = "register" => client[d].lease # client[c].lease

LifeInv ==
    /\ \A l \in leases : Within(row[l], clock)
    /\ \A a \in Actor, l \in Lease : RevocationLife(a, l)
    /\ \A c \in Client : RequestLife(c) /\ Registering(c)

\* RetryTimeout taken a or b times.
LEMMA Times ==
    ASSUME NEW a \in Nat, NEW b \in Nat, a <= b
    PROVE  /\ a * RetryTimeout \in Nat
           /\ a * RetryTimeout <= b * RetryTimeout
           /\ (a + 1) * RetryTimeout = a * RetryTimeout + RetryTimeout
BY LeaseAssumption

\* The maximal life of a configuration is a natural number.
LEMMA MaxLife ==
    ASSUME NEW cfg \in Configs
    PROVE  cfg.max_lease_ttl \in Nat
BY ConfigsAssumption DEF MountConfig

\* What is within bounds now is so later.
LEMMA WithinLater ==
    ASSUME NEW le \in Row, NEW now \in Nat, NEW later \in Nat, now <= later,
           Within(le, now)
    PROVE  Within(le, later)
<1>1. le.expires_at \in Nat /\ le.attempts * RetryTimeout \in Nat
  BY LeaseAssumption DEF Row
<1> QED
  BY <1>1 DEF Within

\* A retry delays the expiry by RetryTimeout and is counted once, and a copy
\* that is behind the row only makes the new expiry earlier.
LEMMA WithinRetry ==
    ASSUME NEW le \in Row, NEW r \in Row, NEW now \in Nat, Within(le, now),
           le.issued_at = r.issued_at, le.attempts <= r.attempts
    PROVE  Within([r EXCEPT !.attempts = @ + 1, !.expires_at = NextExpiry(le)], now)
<1> DEFINE new == [r EXCEPT !.attempts = @ + 1, !.expires_at = NextExpiry(le)]
<1>1. /\ new.issued_at = le.issued_at
      /\ new.attempts = r.attempts + 1
      /\ new.expires_at = le.expires_at + RetryTimeout
  BY DEF Row, NextExpiry
<1>2. /\ le.expires_at \in Nat /\ le.issued_at \in Nat
      /\ le.attempts \in Nat /\ r.attempts \in Nat /\ RetryTimeout \in Nat
  BY LeaseAssumption DEF Row
<1>3. /\ le.attempts * RetryTimeout \in Nat /\ r.attempts * RetryTimeout \in Nat
      /\ le.attempts * RetryTimeout <= r.attempts * RetryTimeout
      /\ (r.attempts + 1) * RetryTimeout = r.attempts * RetryTimeout + RetryTimeout
  BY <1>2, Times
<1>4. CASE le.expires_at <= now + le.attempts * RetryTimeout
  BY <1>1, <1>2, <1>3, <1>4 DEF Within
<1>5. CASE \E cfg \in Configs :
             le.expires_at <= le.issued_at + cfg.max_lease_ttl + le.attempts * RetryTimeout
  <2>1. PICK cfg \in Configs :
             le.expires_at <= le.issued_at + cfg.max_lease_ttl + le.attempts * RetryTimeout
    BY <1>5
  <2>2. new.expires_at <= new.issued_at + cfg.max_lease_ttl + new.attempts * RetryTimeout
    BY <1>1, <1>2, <1>3, <2>1, MaxLife
  <2> QED
    BY <2>2 DEF Within
<1> QED
  BY <1>4, <1>5 DEF Within

\* A renewal moves the expiry of the copy, which no retry delayed, to the row.
LEMMA WithinRenewal ==
    ASSUME NEW le \in Row, NEW r \in Row, NEW now \in Nat, Within(le, now),
           le.issued_at = r.issued_at, le.attempts <= r.attempts
    PROVE  Within([r EXCEPT !.expires_at = le.expires_at], now)
<1> DEFINE new == [r EXCEPT !.expires_at = le.expires_at]
<1>1. /\ new.issued_at = le.issued_at
      /\ new.attempts = r.attempts
      /\ new.expires_at = le.expires_at
  BY DEF Row
<1>2. /\ le.expires_at \in Nat /\ le.issued_at \in Nat
      /\ le.attempts \in Nat /\ r.attempts \in Nat
  BY DEF Row
<1>3. /\ le.attempts * RetryTimeout \in Nat /\ r.attempts * RetryTimeout \in Nat
      /\ le.attempts * RetryTimeout <= r.attempts * RetryTimeout
  BY <1>2, Times
<1>4. CASE le.expires_at <= now + le.attempts * RetryTimeout
  BY <1>1, <1>2, <1>3, <1>4 DEF Within
<1>5. CASE \E cfg \in Configs :
             le.expires_at <= le.issued_at + cfg.max_lease_ttl + le.attempts * RetryTimeout
  <2>1. PICK cfg \in Configs :
             le.expires_at <= le.issued_at + cfg.max_lease_ttl + le.attempts * RetryTimeout
    BY <1>5
  <2>2. new.expires_at <= new.issued_at + cfg.max_lease_ttl + new.attempts * RetryTimeout
    BY <1>1, <1>2, <1>3, <2>1, MaxLife
  <2> QED
    BY <2>2 DEF Within
<1> QED
  BY <1>4, <1>5 DEF Within

\* An expiry computed with calculate_ttl.
LEMMA WithinTtl ==
    ASSUME NEW le \in Row, NEW now \in Nat, NEW cfg \in Configs,
           NEW ttl \in Nat \cup {None},
           le.expires_at = now + CalculateTtl(now, le.issued_at, cfg, ttl)
    PROVE  Within(le, now)
<1>1. /\ le.expires_at \in Nat /\ le.issued_at \in Nat
      /\ le.attempts * RetryTimeout \in Nat
      /\ cfg \in MountConfig /\ cfg.max_lease_ttl \in Nat
  BY LeaseAssumption, ConfigsAssumption, MaxLife DEF Row
<1>2. LET t == CalculateTtl(now, le.issued_at, cfg, ttl)
      IN  t \in Nat /\ (now + t <= le.issued_at + cfg.max_lease_ttl \/ t = 0)
  BY <1>1, TtlCap
<1> QED
  BY <1>1, <1>2 DEF Within
\* The manager starts with no lease.
LEMMA LifeInit == Init => LifeInv
BY DEF Init, LifeInv, RevocationLife, RequestLife, Registering, NoRevocation, Idle

\* Time passes: what was within its bound stays so.
LEMMA LifeTime ==
    ASSUME TypeInv, NEW later \in Nat, clock <= later
    PROVE  /\ \A l \in Lease : Within(row[l], clock) => Within(row[l], later)
           /\ \A a \in Actor, l \in Lease :
                 Within(revocation[a][l].le, clock) => Within(revocation[a][l].le, later)
           /\ \A c \in Client :
                 Within(client[c].le, clock) => Within(client[c].le, later)
<1>1. /\ \A l \in Lease : row[l] \in Row
      /\ \A a \in Actor, l \in Lease : revocation[a][l].le \in Row
      /\ \A c \in Client : client[c].le \in Row
  BY DEF TypeInv, TypeOK, Revocation, Request
<1>2. clock \in Nat
  BY DEF TypeInv, TypeOK
<1> QED
  BY <1>1, <1>2, WithinLater

\* Time, configuration changes and crashes keep the bounds on lifetimes.
LEMMA LifeEnvironment ==
    ASSUME TypeInv, LifeInv, Tick \/ UpdateMount \/ Crash
    PROVE  LifeInv'
<1>1. clock' \in Nat /\ clock <= clock'
  BY LeaseAssumption DEF Tick, UpdateMount, Crash, TypeInv, TypeOK
<1>2. UNCHANGED <<leases, row, registered>>
  BY DEF Tick, UpdateMount, Crash, tables
<1>3. \A l \in leases' : Within(row'[l], clock')
  BY <1>1, <1>2, LifeTime DEF LifeInv, TypeInv, TypeOK
<1>4. ASSUME NEW a \in Actor, NEW l \in Lease PROVE RevocationLife(a, l)'
  <2>1. CASE revocation'[a][l] = NoRevocation
    BY <2>1 DEF RevocationLife, NoRevocation
  <2>2. CASE revocation'[a][l] = revocation[a][l]
    BY <1>1, <1>2, <2>2, LifeTime DEF LifeInv, RevocationLife, CopyOK
  <2> QED
    BY <2>1, <2>2 DEF Tick, UpdateMount, Crash
<1>5. ASSUME NEW c \in Client PROVE RequestLife(c)' /\ Registering(c)'
  <2>1. CASE client' = client
    BY <1>1, <1>2, <2>1, LifeTime DEF LifeInv, RequestLife, Registering, CopyOK
  <2>2. CASE client' = [d \in Client |-> Idle]
    BY <2>2 DEF RequestLife, Registering, Idle
  <2> QED
    BY <2>1, <2>2 DEF Tick, UpdateMount, Crash
<1> QED
  BY <1>3, <1>4, <1>5 DEF LifeInv

\* A step that at most begins revocations, of leases that have a row.
LEMMA LifeBegin ==
    ASSUME TypeInv, CountInv, LifeInv, NEW a \in Actor, NEW S \in SUBSET leases,
           Begin(a, S) \/ UNCHANGED revocation,
           UNCHANGED <<tables, client, clock>>
    PROVE  LifeInv'
<1>1. UNCHANGED <<leases, row, registered>>
  BY DEF tables
<1>2. ASSUME NEW b \in Actor, NEW l \in Lease PROVE RevocationLife(b, l)'
  <2>1. CASE revocation'[b][l] = revocation[b][l]
    BY <1>1, <2>1 DEF LifeInv, RevocationLife, CopyOK
  <2>2. CASE revocation'[b][l] = [stage |-> "send", le |-> row[l]] /\ l \in leases
    <3>1. row[l].attempts <= row[l].attempts /\ l \in registered
      BY <2>2 DEF CountInv, TypeInv, TypeOK, Row
    <3> QED
      BY <1>1, <2>2, <3>1 DEF LifeInv, RevocationLife, CopyOK
  <2> QED
    BY <2>1, <2>2 DEF Begin, TypeInv, TypeOK
<1>3. ASSUME NEW c \in Client PROVE RequestLife(c)' /\ Registering(c)'
  BY <1>1 DEF LifeInv, RequestLife, Registering, CopyOK
<1> QED
  BY <1>1, <1>2, <1>3 DEF LifeInv

\* A revocation goes on: its copy of the row stays, or is forgotten.
LEMMA LifeRevoke ==
    ASSUME TypeInv, LifeInv, NEW a \in Actor, NEW l \in Lease,
           RevokeStep(a, l) \/ RevocationWriteFails(a, l)
    PROVE  LifeInv'
<1> DEFINE r == revocation[a][l]
<1>1. UNCHANGED <<client, clock, registered>> /\ leases' \subseteq leases
  BY DEF RevokeStep, SendRevoke, DeleteRevoked, DeleteExhausted, RecordFailure,
         RevocationWriteFails, Delete, Update, tables
<1>2. \A m \in Lease :
        /\ row[m] \in Row /\ row[m].attempts \in Nat /\ revocation[a][m].le \in Row
        /\ \A b \in Actor : revocation[b][m].le.attempts \in Nat
        /\ \A c \in Client : client[c].le.attempts \in Nat
  BY DEF TypeInv, TypeOK, Row, Revocation, Request
<1>3. ASSUME NEW m \in leases'
      PROVE  \/ row'[m] = row[m]
             \/ /\ m = l /\ r.stage = "failed"
                /\ row'[m] = [row[m] EXCEPT !.attempts = @ + 1,
                                            !.expires_at = NextExpiry(r.le)]
  BY DEF RevokeStep, SendRevoke, DeleteRevoked, DeleteExhausted, RecordFailure,
         RevocationWriteFails, Delete, Update, tables, TypeInv, TypeOK
<1>4. \A m \in leases' :
        /\ Within(row'[m], clock)
        /\ row'[m].issued_at = row[m].issued_at
        /\ row[m].attempts <= row'[m].attempts
        /\ row'[m].attempts \in Nat
  <2> SUFFICES ASSUME NEW m \in leases'
               PROVE  /\ Within(row'[m], clock)
                      /\ row'[m].issued_at = row[m].issued_at
                      /\ row[m].attempts <= row'[m].attempts
                      /\ row'[m].attempts \in Nat
    OBVIOUS
  <2>0. m \in leases /\ m \in Lease
    BY <1>1 DEF TypeInv, TypeOK
  <2>1. CASE row'[m] = row[m]
    BY <1>2, <2>0, <2>1 DEF LifeInv
  <2>2. CASE /\ m = l /\ r.stage = "failed"
             /\ row'[m] = [row[m] EXCEPT !.attempts = @ + 1,
                                         !.expires_at = NextExpiry(r.le)]
    <3>1. CopyOK(l, r.le) /\ Within(r.le, clock)
      BY <2>2 DEF LifeInv, RevocationLife
    <3>2. Within(row'[m], clock)
      <4>1. /\ r.le \in Row /\ row[m] \in Row /\ clock \in Nat
            /\ r.le.issued_at = row[m].issued_at /\ r.le.attempts <= row[m].attempts
        BY <1>2, <2>0, <2>2, <3>1 DEF CopyOK, TypeInv, TypeOK
      <4>2. Within([row[m] EXCEPT !.attempts = @ + 1, !.expires_at = NextExpiry(r.le)], clock)
        BY <3>1, <4>1, WithinRetry
      <4> QED
        BY <2>2, <4>2
    <3>3. row'[m].issued_at = row[m].issued_at /\ row'[m].attempts = row[m].attempts + 1
      BY <1>2, <2>0, <2>2 DEF Row
    <3> QED
      BY <1>2, <2>0, <3>2, <3>3
  <2> QED
    BY <1>3, <2>1, <2>2
<1>5. ASSUME NEW m \in Lease, NEW le, le.attempts \in Nat, CopyOK(m, le)
      PROVE  CopyOK(m, le)'
  BY <1>1, <1>2, <1>4, <1>5 DEF CopyOK
<1>6. ASSUME NEW b \in Actor, NEW m \in Lease PROVE RevocationLife(b, m)'
  <2>1. /\ revocation'[b][m].stage \in {"send", "failed"} =>
              revocation[b][m].stage \in {"send", "failed"}
        /\ revocation'[b][m].stage \in {"send", "failed"} =>
              revocation'[b][m].le = revocation[b][m].le
    <3>1. PICK new :
             /\ SetRevocation(a, l, new)
             /\ \/ new.stage \notin {"send", "failed"}
                \/ r.stage = "send" /\ new.le = r.le
      <4>1. CASE SendRevoke(a, l)
        <5>1. [NoRevocation EXCEPT !.stage = "ok"].stage = "ok"
          BY DEF NoRevocation
        <5>2. [r EXCEPT !.stage = "failed"].le = r.le
          BY DEF TypeInv, TypeOK, Revocation
        <5> QED
          BY <4>1, <5>1, <5>2 DEF SendRevoke
      <4>2. CASE ~ SendRevoke(a, l)
        BY <4>2 DEF RevokeStep, DeleteRevoked, DeleteExhausted, RecordFailure,
                    RevocationWriteFails, NoRevocation
      <4> QED
        BY <4>1, <4>2
    <3>2. revocation'[b][m] = IF b = a /\ m = l THEN new ELSE revocation[b][m]
      BY <3>1, SetRevocationCases
    <3> QED
      BY <3>1, <3>2
  <2> QED
    BY <1>1, <1>2, <1>5, <2>1 DEF LifeInv, RevocationLife
<1>7. ASSUME NEW c \in Client PROVE RequestLife(c)' /\ Registering(c)'
  <2>1. client[c].pc \in {"register", "renew", "write"} => client[c].lease \in Lease
    BY DEF TypeInv, RequestsOK
  <2> QED
    BY <1>1, <1>2, <1>5, <2>1 DEF LifeInv, RequestLife, Registering
<1> QED
  BY <1>1, <1>4, <1>6, <1>7 DEF LifeInv

\* A step of a request, given what it does to the table and to its own state.
LEMMA LifeClient ==
    ASSUME TypeInv, LifeInv, NEW c \in Client, NEW r, SetClient(c, r),
           UNCHANGED clock,
           \A a \in Actor, l \in Lease : \/ revocation'[a][l] = revocation[a][l]
                                        \/ revocation'[a][l] = NoRevocation,
           \A l \in leases' : Within(row'[l], clock),
           \A l \in Lease, le \in Row : CopyOK(l, le) => CopyOK(l, le)',
           r.pc # "idle" => Within(r.le, clock),
           r.pc \in {"renew", "write"} => CopyOK(r.lease, r.le)',
           \A d \in Client : client[d].pc = "register" /\ d # c =>
               /\ client[d].lease \notin registered'
               /\ r.pc = "register" => client[d].lease # r.lease,
           r.pc = "register" => r.lease \notin registered'
    PROVE  LifeInv'
<1>1. ASSUME NEW a \in Actor, NEW l \in Lease PROVE RevocationLife(a, l)'
  <2>1. revocation[a][l].le \in Row
    BY DEF TypeInv, TypeOK, Revocation
  <2> QED
    BY <2>1 DEF LifeInv, RevocationLife, NoRevocation
<1>2. ASSUME NEW d \in Client PROVE RequestLife(d)' /\ Registering(d)'
  <2>1. \A e \in Client : client'[e] = IF e = c THEN r ELSE client[e]
    BY DEF SetClient, TypeInv, TypeOK
  <2>2. client[d].le \in Row /\ (client[d].pc \in {"renew", "write"} => client[d].lease \in Lease)
    BY DEF TypeInv, TypeOK, RequestsOK, Request
  <2>3. RequestLife(d)'
    <3>1. CASE d = c
      BY <2>1, <3>1 DEF RequestLife
    <3>2. CASE d # c
      BY <2>1, <2>2, <3>2 DEF LifeInv, RequestLife
    <3> QED
      BY <3>1, <3>2
  <2>4. Registering(d)'
    BY <2>1 DEF LifeInv, Registering
  <2> QED
    BY <2>3, <2>4
<1> QED
  BY <1>1, <1>2 DEF LifeInv

\* A step of a request that leaves the table alone.
LEMMA LifeOffTable ==
    ASSUME TypeInv, LifeInv, NEW c \in Client, NEW r, SetClient(c, r),
           UNCHANGED <<tables, clock>>,
           \A a \in Actor, l \in Lease : \/ revocation'[a][l] = revocation[a][l]
                                        \/ revocation'[a][l] = NoRevocation,
           r.pc # "idle" => Within(r.le, clock),
           r.pc \in {"renew", "write"} => CopyOK(r.lease, r.le),
           r.pc = "register" =>
               /\ r.lease \notin registered
               /\ \A d \in Client : client[d].pc = "register" => client[d].lease # r.lease
    PROVE  LifeInv'
<1>1. UNCHANGED <<leases, row, registered>>
  BY DEF tables
<1>2. \A l, le : CopyOK(l, le) => CopyOK(l, le)'
  BY <1>1 DEF CopyOK
<1> QED
  BY <1>1, <1>2, LifeClient DEF LifeInv, Registering

\* A new lease is within bounds.
LEMMA LifeIssue ==
    ASSUME TypeInv, CountInv, LifeInv, NEW c \in Client, NEW l \in Lease,
           NEW ttl \in IssueTtls, Issue(c, l, ttl)
    PROVE  LifeInv'
<1> DEFINE t == CalculateTtl(clock, clock, client[c].config, ttl)
           r == [Idle EXCEPT !.pc = "register", !.lease = l, !.le = NewRow(clock, t)]
<1>0. /\ clock \in Nat /\ client[c].config \in Configs /\ client[c].config \in MountConfig
      /\ ttl \in Nat \cup {None}
  BY ConfigsAssumption, LeaseAssumption DEF Issue, TypeInv, TypeOK, RequestsOK
<1>1. t \in Nat
  BY <1>0, TtlCap
<1>2. /\ SetClient(c, r) /\ r.pc = "register" /\ r.lease = l /\ r.le = NewRow(clock, t)
  BY DEF Issue, Idle
<1>3. Within(r.le, clock)
  <2>1. r.le \in Row /\ r.le.issued_at = clock /\ r.le.expires_at = clock + t
    BY <1>0, <1>1, <1>2, NewRowType DEF NewRow
  <2> QED
    BY <1>0, <2>1, WithinTtl
<1>4. /\ l \notin registered
      /\ \A d \in Client : client[d].pc = "register" => client[d].lease # l
  BY DEF Issue, CountInv
<1>5. UNCHANGED <<tables, clock, revocation>>
  BY DEF Issue
<1> QED
  BY <1>2, <1>3, <1>4, <1>5, LifeOffTable

\* A renewal is computed within bounds.
LEMMA LifeRenew ==
    ASSUME TypeInv, CountInv, LifeInv, NEW c \in Client,
           \/ Route(c)
           \/ \E l \in Lease, ttl \in RenewTtls : BeginRenew(c, l, ttl)
           \/ RenewReply(c) \/ Refused(c) \/ RequestWriteFails(c)
    PROVE  LifeInv'
<1>1. UNCHANGED <<tables, clock, revocation>>
  BY DEF Route, BeginRenew, RenewReply, Refused, RequestWriteFails
<1>2. ASSUME NEW l \in Lease, NEW ttl \in RenewTtls, BeginRenew(c, l, ttl)
      PROVE  LifeInv'
  <2> DEFINE le == [NullRow EXCEPT !.issued_at = row[l].issued_at]
             r == [pc |-> "renew", lease |-> l, config |-> config, le |-> le,
                   ttl |-> CalculateTtl(clock, row[l].issued_at, config, ttl)]
  <2>1. /\ le.issued_at = row[l].issued_at /\ le.expires_at = 0 /\ le.attempts = 0
        /\ clock \in Nat /\ row[l].attempts \in Nat /\ RetryTimeout \in Nat
    BY LeaseAssumption DEF NullRow, TypeInv, TypeOK, Row
  <2>2. Within(le, clock)
    BY <2>1 DEF Within
  <2>3. CopyOK(l, le)
    BY <1>2, <2>1 DEF BeginRenew, CopyOK, CountInv
  <2>4. SetClient(c, r) /\ r.pc # "register"
    BY <1>2 DEF BeginRenew
  <2> QED
    BY <1>1, <2>2, <2>3, <2>4, LifeOffTable
<1>3. CASE RenewReply(c)
  <2> DEFINE m == client[c]
             r == [Idle EXCEPT !.pc = "write", !.lease = m.lease, !.le = Renewed(m)]
  <2>1. /\ m.le \in Row /\ m.config \in Configs /\ m.ttl \in Nat /\ clock \in Nat
        /\ CopyOK(m.lease, m.le)
    BY <1>3 DEF RenewReply, TypeInv, TypeOK, RequestsOK, Request, LifeInv, RequestLife
  <2>2. /\ Renewed(m).issued_at = m.le.issued_at
        /\ Renewed(m).attempts = m.le.attempts
        /\ Renewed(m).expires_at = clock + CalculateTtl(clock, m.le.issued_at, m.config, m.ttl)
    BY <2>1 DEF Renewed, Row
  <2>3. Renewed(m) \in Row
    <3>1. m.le.issued_at \in Nat
      BY <2>1 DEF Row
    <3>2. CalculateTtl(clock, m.le.issued_at, m.config, m.ttl) \in Nat
      BY <2>1, <3>1, TtlCap, ConfigsAssumption
    <3>3. clock + CalculateTtl(clock, m.le.issued_at, m.config, m.ttl) \in Nat
      BY <2>1, <3>2
    <3> QED
      BY <2>1, <3>3, RowUpdate DEF Renewed
  <2>4. Within(Renewed(m), clock)
    <3>1. m.ttl \in Nat \cup {None}
      BY <2>1
    <3>2. Renewed(m).expires_at =
              clock + CalculateTtl(clock, Renewed(m).issued_at, m.config, m.ttl)
      BY <2>2
    <3> QED
      BY <2>1, <2>3, <3>1, <3>2, WithinTtl
  <2>5. CopyOK(m.lease, Renewed(m))
    BY <2>1, <2>2 DEF CopyOK
  <2>6. /\ SetClient(c, r) /\ r.pc = "write"
        /\ r.lease = m.lease /\ r.le = Renewed(m)
    BY <1>3 DEF RenewReply, Idle
  <2>7. r.pc # "register"
    BY <2>6
  <2> QED
    BY <1>1, <2>4, <2>5, <2>6, <2>7, LifeOffTable
<1>4. CASE Refused(c) \/ RequestWriteFails(c)
  <2>1. SetClient(c, Idle) /\ Idle.pc = "idle"
    BY <1>4 DEF Refused, RequestWriteFails, Idle
  <2> QED
    BY <1>1, <2>1, LifeOffTable
<1>5. CASE Route(c)
  <2> DEFINE r == [Idle EXCEPT !.pc = "issue", !.config = config]
  <2>1. SetClient(c, r) /\ r.pc = "issue" /\ r.le = NullRow
    BY <1>5 DEF Route, Idle
  <2>2. NullRow.expires_at = 0 /\ NullRow.attempts = 0 /\ clock \in Nat /\ RetryTimeout \in Nat
    BY LeaseAssumption DEF NullRow, TypeInv, TypeOK
  <2>3. Within(r.le, clock)
    BY <2>1, <2>2 DEF Within
  <2>4. r.pc \notin {"renew", "write", "register"}
    BY <2>1
  <2> QED
    BY <1>1, <2>1, <2>3, <2>4, LifeOffTable
<1> QED
  BY <1>2, <1>3, <1>4, <1>5

\* The row of a lease that is being registered appears: no copy of it exists,
\* and no other request registers it.
LEMMA LifeInsert ==
    ASSUME TypeInv, CountInv, LifeInv, NEW c \in Client,
           client[c].pc = "register", Insert(client[c].lease, client[c].le),
           SetClient(c, Idle), UNCHANGED clock,
           \A a \in Actor, l \in Lease : \/ revocation'[a][l] = revocation[a][l]
                                        \/ revocation'[a][l] = NoRevocation
    PROVE  LifeInv'
<1> DEFINE n == client[c].lease
<1>1. n \in Lease /\ n \notin registered /\ n \notin leases /\ Within(client[c].le, clock)
  BY DEF LifeInv, Registering, RequestLife, CountInv, TypeInv, RequestsOK
<1>2. /\ leases' = leases \cup {n} /\ registered' = registered \cup {n}
      /\ row'[n] = client[c].le /\ \A l \in leases : row'[l] = row[l]
  BY <1>1 DEF Insert, TypeInv, TypeOK
<1>3. \A l \in leases' : Within(row'[l], clock)
  BY <1>1, <1>2 DEF LifeInv
<1>4. \A l \in Lease, le \in Row : CopyOK(l, le) => CopyOK(l, le)'
  BY <1>1, <1>2 DEF CopyOK
<1>5. \A d \in Client : client[d].pc = "register" /\ d # c =>
        client[d].lease \notin registered'
  BY <1>2 DEF LifeInv, Registering
<1>6. Idle.pc = "idle"
  BY DEF Idle
<1> QED
  BY <1>3, <1>4, <1>5, <1>6, LifeClient

\* A renewal is written within bounds.
LEMMA LifeWriteRenewal ==
    ASSUME TypeInv, LifeInv, NEW c \in Client, WriteRenewal(c)
    PROVE  LifeInv'
<1> DEFINE n == client[c].lease
           le == client[c].le
           new == [row[n] EXCEPT !.expires_at = le.expires_at]
<1>1. /\ SetClient(c, Idle) /\ Update(n, new) /\ UNCHANGED <<clock, revocation>>
      /\ UNCHANGED <<leases, registered>>
  BY DEF WriteRenewal, Update
<1>2. /\ n \in Lease /\ le \in Row /\ row[n] \in Row /\ clock \in Nat
      /\ CopyOK(n, le) /\ Within(le, clock)
  BY DEF WriteRenewal, LifeInv, RequestLife, TypeInv, TypeOK, RequestsOK, Request
<1>3. n \in leases => Within(new, clock)
  BY <1>2, WithinRenewal DEF CopyOK
<1>4. new.issued_at = row[n].issued_at /\ new.attempts = row[n].attempts
  BY <1>2 DEF Row
<1>5. \A l \in Lease : row'[l] = IF l = n /\ n \in leases THEN new ELSE row[l]
  BY <1>1, <1>2 DEF Update, TypeInv, TypeOK
<1>6. \A l \in leases' : Within(row'[l], clock)
  BY <1>1, <1>3, <1>5 DEF LifeInv, TypeInv, TypeOK
<1>7. \A l \in Lease, copy \in Row : CopyOK(l, copy) => CopyOK(l, copy)'
  BY <1>1, <1>4, <1>5 DEF CopyOK
<1>8. Idle.pc = "idle"
  BY DEF Idle
<1>9. \A d \in Client : client[d].pc = "register" => client[d].lease \notin registered'
  BY <1>1 DEF LifeInv, Registering
<1> QED
  BY <1>1, <1>6, <1>7, <1>8, <1>9, LifeClient

\* The last step of a request keeps the bounds.
LEMMA LifeEnd ==
    ASSUME TypeInv, CountInv, LifeInv, NEW c \in Client, Register(c) \/ Cancel(c)
    PROVE  LifeInv'
<1>1. /\ SetClient(c, Idle) /\ UNCHANGED clock
      /\ \/ UNCHANGED tables
         \/ client[c].pc = "register" /\ Insert(client[c].lease, client[c].le)
  BY DEF Register, Cancel
<1>2. \A a \in Actor, l \in Lease : \/ revocation'[a][l] = revocation[a][l]
                                   \/ revocation'[a][l] = NoRevocation
  BY DEF Register, Cancel, TypeInv, TypeOK
<1>3. Idle.pc = "idle"
  BY DEF Idle
<1> QED
  BY <1>1, <1>2, <1>3, LifeInsert, LifeOffTable

\* Every step keeps the bounds on lifetimes.
LEMMA LifeStep == TypeInv /\ CountInv /\ LifeInv /\ [Next]_vars => LifeInv'
<1> SUFFICES ASSUME TypeInv, CountInv, LifeInv, [Next]_vars PROVE LifeInv'
  OBVIOUS
<1>1. CASE \/ Pull \/ PullFails \/ Peek \/ PeekFails
           \/ Notified \/ WakeUp \/ BatchDone
  <2>1. \E S \in SUBSET leases : Begin(Worker, S) \/ UNCHANGED revocation
    BY <1>1 DEF Pull, Pulled, Expired, PullFails, Peek, PeekFails, Notified, WakeUp, BatchDone
  <2>2. UNCHANGED <<tables, client, clock>>
    BY <1>1 DEF Pull, PullFails, Peek, PeekFails, Notified, WakeUp, BatchDone
  <2> QED
    BY <2>1, <2>2, LifeBegin DEF Actor
<1>2. ASSUME NEW c \in Client, NEW S, RevokeLeases(c, S)
      PROVE  LifeInv'
  <2>1. Begin(c, S \cap leases) /\ UNCHANGED <<tables, client, clock>>
    BY <1>2 DEF RevokeLeases
  <2> QED
    BY <2>1, LifeBegin DEF Actor
<1>3. ASSUME NEW a \in Actor, NEW l \in Lease,
             RevokeStep(a, l) \/ RevocationWriteFails(a, l)
      PROVE  LifeInv'
  BY <1>3, LifeRevoke
<1>4. CASE UNCHANGED vars \/ \E l \in Lease : LateRevoke(l)
  <2>1. UNCHANGED <<tables, client, clock, revocation>>
    BY <1>4 DEF vars, LateRevoke
  <2> QED
    BY <2>1, LifeBegin DEF Actor
<1>5. ASSUME NEW c \in Client,
             \/ Route(c)
             \/ \E l \in Lease, ttl \in IssueTtls : Issue(c, l, ttl)
             \/ \E l \in Lease, ttl \in RenewTtls : BeginRenew(c, l, ttl)
             \/ RenewReply(c) \/ Refused(c) \/ WriteRenewal(c)
             \/ Register(c) \/ RequestWriteFails(c) \/ Cancel(c)
      PROVE  LifeInv'
  BY <1>5, LifeIssue, LifeRenew, LifeWriteRenewal, LifeEnd
<1>6. CASE Next
  BY <1>1, <1>2, <1>3, <1>4, <1>5, <1>6, NextCases, LifeEnvironment
<1> QED
  BY <1>4, <1>6

IInv == TypeInv /\ CountInv /\ LifeInv

\* The three invariants hold in every reachable state.
LEMMA IInvCorrect == Spec => []IInv
<1>1. Init => IInv
  BY InitType, CountInit, LifeInit DEF IInv
<1>2. IInv /\ [Next]_vars => IInv'
  BY TypeStep, CountStep, LifeStep DEF IInv
<1> QED
  BY <1>1, <1>2, PTL DEF Spec

\* No interleaving of renewals, retries and changes of the mount's
\* configuration gives a lease more life than the longest max_lease_ttl and
\* one RetryTimeout per recorded failure.
THEOREM LifetimeBounded == Spec => []LifetimeIsBounded
<1>1. ASSUME IInv PROVE LifetimeIsBounded
  <2> SUFFICES ASSUME NEW l \in leases,
                      row[l].expires_at > clock + row[l].attempts * RetryTimeout
               PROVE  \E cfg \in Configs :
                         row[l].expires_at <=
                             row[l].issued_at + cfg.max_lease_ttl
                               + row[l].attempts * RetryTimeout
    BY DEF LifetimeIsBounded
  <2>1. Within(row[l], clock)
    BY <1>1 DEF IInv, LifeInv
  <2>2. /\ row[l].expires_at \in Nat /\ clock \in Nat
        /\ row[l].attempts * RetryTimeout \in Nat
    BY <1>1, LeaseAssumption DEF IInv, TypeInv, TypeOK, Row
  <2> QED
    BY <2>1, <2>2 DEF Within
<1> QED
  BY <1>1, IInvCorrect, PTL

-----------------------------------------------------------------------------
(***************************************************************************)
(* The worker's sleep                                                      *)
(***************************************************************************)

\* What NoOversleep needs: no time passes between pull and peek; no renewal,
\* which may bring an expiry forward; no request dropped after its row was
\* inserted and before notify_one; and no second retry, so that every copy a
\* retry computes the new expiry from shows the row as it was registered.
\* Each of the four is necessary: without it a row may come to expire before
\* the worker's wake-up.
Undisturbed ==
    /\ InstantScan
    /\ RenewTtls = {}
    /\ "cancel" \notin FaultKinds
    /\ MaxRetries <= 2

\* A copy without failures shows the expiry the lease was registered with,
\* and the row is there, or one RetryTimeout later once a retry was recorded.
RetryOK(a, l) ==
    /\ revocation[a][l].stage \in {"send", "failed"}
    /\ l \in leases
    /\ revocation[a][l].le.attempts = 0
    =>  row[l].expires_at = revocation[a][l].le.expires_at
                              + (IF row[l].attempts = 0 THEN 0 ELSE RetryTimeout)

\* The worker pulls with the current time; when it goes on to peek, no lease
\* has expired; when it waits, NoOversleep.
Watchful ==
    /\ worker.pc = "pull" => worker.now = clock
    /\ worker.pc = "peek" /\ ~ permit => \A l \in leases : clock < row[l].expires_at
    /\ NoOversleep

SleepInv ==
    /\ IsFiniteSet(leases)
    /\ \A c \in Client : client[c].pc \notin {"renew", "write"}
    /\ \A a \in Actor, l \in Lease : RetryOK(a, l)
    /\ Watchful

\* The worker starts with a scan.
LEMMA SleepInit == Init => SleepInv
<1> SUFFICES ASSUME Init PROVE SleepInv
  OBVIOUS
<1>1. IsFiniteSet(leases)
  BY FS_EmptySet DEF Init
<1>2. \A a \in Actor, l \in Lease : RetryOK(a, l)
  BY DEF Init, RetryOK, NoRevocation
<1>3. Watchful
  BY DEF Init, Watchful, NoOversleep, Scan
<1> QED
  BY <1>1, <1>2, <1>3 DEF Init, SleepInv, Idle

\* No expiry is brought forward, and the worker does not move.
LEMMA WatchfulKept ==
    ASSUME TypeInv, Watchful, worker' = worker, clock' = clock, permit' = permit,
           leases' \subseteq leases, row' \in [Lease -> Row],
           \A l \in leases' : row'[l].expires_at >= row[l].expires_at
    PROVE  Watchful'
<1>1. /\ clock \in Nat /\ worker.wake \in Nat \cup {None}
      /\ \A l \in leases' : row[l].expires_at \in Nat /\ row'[l].expires_at \in Nat
  BY DEF TypeInv, TypeOK, Loop, Row
<1>2. worker'.pc = "peek" /\ ~ permit' => \A l \in leases' : clock' < row'[l].expires_at
  BY <1>1 DEF Watchful
<1>3. ASSUME worker.pc = "wait", ~ permit, NEW l \in leases'
      PROVE  worker.wake # None /\ worker.wake <= row'[l].expires_at
  <2>1. worker.wake # None /\ worker.wake <= row[l].expires_at
    BY <1>3 DEF Watchful, NoOversleep
  <2>2. worker.wake \in Nat
    BY <1>1, <2>1
  <2> QED
    BY <1>1, <2>1, <2>2
<1> QED
  BY <1>2, <1>3 DEF Watchful, NoOversleep

\* The rows stay as they are, or go; the copies too, or they are made anew.
LEMMA RetriesKept ==
    ASSUME TypeInv, \A a \in Actor, l \in Lease : RetryOK(a, l),
           leases' \subseteq leases, \A l \in leases' : row'[l] = row[l],
           \A a \in Actor, l \in Lease :
              \/ revocation'[a][l] = revocation[a][l]
              \/ revocation'[a][l] = [stage |-> "send", le |-> row[l]]
              \/ revocation'[a][l].stage \notin {"send", "failed"}
              \/ /\ revocation[a][l].stage = "send"
                 /\ revocation'[a][l].le = revocation[a][l].le
    PROVE  \A a \in Actor, l \in Lease : RetryOK(a, l)'
<1> SUFFICES ASSUME NEW a \in Actor, NEW l \in Lease,
                    revocation'[a][l].stage \in {"send", "failed"}, l \in leases',
                    revocation'[a][l].le.attempts = 0
             PROVE  row[l].expires_at = revocation'[a][l].le.expires_at
                                + (IF row[l].attempts = 0 THEN 0 ELSE RetryTimeout)
  BY DEF RetryOK
<1>1. CASE revocation'[a][l] = [stage |-> "send", le |-> row[l]]
  <2>1. row[l].expires_at \in Nat
    BY DEF TypeInv, TypeOK, Row
  <2> QED
    BY <1>1, <2>1
<1>2. CASE /\ revocation[a][l].stage \in {"send", "failed"}
           /\ revocation'[a][l].le = revocation[a][l].le
  BY <1>2 DEF RetryOK
<1> QED
  BY <1>1, <1>2

\* A step of the worker.
LEMMA SleepWorker ==
    ASSUME TypeInv, SleepInv,
           \/ Pull \/ PullFails \/ Peek \/ PeekFails
           \/ Notified \/ WakeUp \/ BatchDone
    PROVE  SleepInv'
<1>1. UNCHANGED <<clock, leases, row, client>>
  BY DEF Pull, PullFails, Peek, PeekFails, Notified, WakeUp, BatchDone, tables
<1>2. \A a \in Actor, l \in Lease : RetryOK(a, l)'
  <2>1. \A a \in Actor, l \in Lease :
           \/ revocation'[a][l] = revocation[a][l]
           \/ revocation'[a][l] = [stage |-> "send", le |-> row[l]]
    <3>1. UNCHANGED revocation \/ \E S \in SUBSET Lease : Begin(Worker, S)
      BY DEF Pull, PullFails, Peek, PeekFails, Notified, WakeUp, BatchDone
    <3> QED
      BY <3>1, BeginCases DEF Actor
  <2> QED
    BY <1>1, <2>1, RetriesKept DEF SleepInv
<1>3. /\ clock \in Nat /\ worker \in Loop
      /\ \A l \in leases : l \in Lease /\ row[l].expires_at \in Nat
  BY DEF TypeInv, TypeOK, Row
<1>4. Watchful'
  <2>1. CASE Pull
    <3>1. PICK S \in SUBSET Lease :
             /\ Pulled(S, worker.now)
             /\ worker' = IF S = {} THEN Peeking ELSE Batching
      BY <2>1 DEF Pull
    <3>2. worker.now = clock
      BY <2>1 DEF Pull, SleepInv, Watchful
    <3>3. CASE S = {}
      <4> DEFINE E == Expired(worker.now)
      <4>1. IsFiniteSet(E) /\ Cardinality(E) \in Nat
        <5>1. E \subseteq leases
          BY DEF Expired
        <5> QED
          BY <5>1, FS_Subset, FS_CardinalityType DEF SleepInv
      <4>2. 0 = IF Cardinality(E) < Batch THEN Cardinality(E) ELSE Batch
        BY <3>1, <3>3, FS_EmptySet DEF Pulled
      <4>3. Cardinality(E) = 0
        BY <4>1, <4>2, LeaseAssumption
      <4>4. E = {}
        BY <4>1, <4>3, FS_EmptySet
      <4>5. \A l \in leases : clock < row[l].expires_at
        BY <1>3, <3>2, <4>4 DEF Expired
      <4>6. worker'.pc = "peek"
        BY <3>1, <3>3 DEF Peeking
      <4> QED
        BY <1>1, <4>5, <4>6 DEF Watchful, NoOversleep
    <3>4. CASE S # {}
      BY <3>1, <3>4 DEF Batching, Watchful, NoOversleep
    <3> QED
      BY <3>3, <3>4
  <2>2. CASE Peek
    <3>1. PICK w : worker' = Waiting(w) /\ \/ leases = {}
                                           \/ \E l \in leases : Peeked(l) /\ w = WakeFor(l)
      BY <2>2 DEF Peek
    <3>2. permit' = permit /\ worker.pc = "peek"
      BY <2>2 DEF Peek
    <3>3. worker'.pc = "wait" /\ worker'.wake = w
      BY <3>1 DEF Waiting
    <3>4. ASSUME ~ permit, NEW m \in leases
          PROVE  w # None /\ w <= row[m].expires_at
      <4>1. PICK l \in leases : Peeked(l) /\ w = WakeFor(l)
        BY <3>1, <3>4
      <4>2. clock < row[l].expires_at
        BY <3>2, <3>4 DEF SleepInv, Watchful
      <4>3. w = row[l].expires_at
        BY <1>3, <4>1, <4>2 DEF WakeFor
      <4>4. w \in Nat /\ w <= row[m].expires_at
        BY <1>3, <4>1, <4>3 DEF Peeked
      <4> QED
        BY <4>4, NoneAssumption
    <3> QED
      BY <1>1, <3>2, <3>3, <3>4 DEF Watchful, NoOversleep
  <2>3. CASE PeekFails
    BY <2>3 DEF PeekFails, Dead, Watchful, NoOversleep
  <2>4. CASE PullFails \/ Notified \/ WakeUp \/ BatchDone
    <3>1. worker' = Scan(clock)
      BY <2>4 DEF PullFails, Notified, WakeUp, BatchDone
    <3> QED
      BY <1>1, <3>1 DEF Scan, Watchful, NoOversleep
  <2> QED
    BY <2>1, <2>2, <2>3, <2>4
<1> QED
  BY <1>1, <1>2, <1>4 DEF SleepInv

\* A step of a revocation.  Only a copy without failures is retried, and
\* every such copy leads to the same new expiry, so none is brought forward.
LEMMA SleepRevocation ==
    ASSUME TypeInv, LifeInv, SleepInv, Undisturbed, NEW a \in Actor, NEW l \in Lease,
           RevokeStep(a, l) \/ RevocationWriteFails(a, l)
    PROVE  SleepInv'
<1> DEFINE r == revocation[a][l]
<1>1. UNCHANGED <<clock, worker, client>> /\ permit' = permit
  BY DEF RevokeStep, SendRevoke, DeleteRevoked, DeleteExhausted, RecordFailure,
         RevocationWriteFails
<1>2. leases' \subseteq leases /\ row' \in [Lease -> Row]
  <2>1. leases' \subseteq leases
    BY DEF RevokeStep, SendRevoke, DeleteRevoked, DeleteExhausted, RecordFailure,
           RevocationWriteFails, Delete, Update, tables
  <2>2. TypeInv'
    BY RevokeStepType
  <2> QED
    BY <2>1, <2>2 DEF TypeInv, TypeOK
<1>3. /\ r \in Revocation /\ r.le.expires_at \in Nat /\ r.le.attempts \in Nat
      /\ \A m \in Lease : row[m].expires_at \in Nat /\ row[m].attempts \in Nat
  BY DEF TypeInv, TypeOK, Revocation, Row
<1>4. IsFiniteSet(leases')
  BY <1>2, FS_Subset DEF SleepInv
<1>5. ASSUME \A m \in leases' : row'[m] = row[m],
             \A b \in Actor, m \in Lease :
                \/ revocation'[b][m] = revocation[b][m]
                \/ revocation'[b][m].stage \notin {"send", "failed"}
                \/ /\ revocation[b][m].stage = "send"
                   /\ revocation'[b][m].le = revocation[b][m].le
      PROVE  SleepInv'
  <2>1. \A b \in Actor, m \in Lease : RetryOK(b, m)'
    BY <1>2, <1>5, RetriesKept DEF SleepInv
  <2>2. \A m \in leases' : row'[m].expires_at >= row[m].expires_at
    BY <1>2, <1>3, <1>5 DEF TypeInv, TypeOK
  <2>3. Watchful'
    BY <1>1, <1>2, <2>2, WatchfulKept DEF SleepInv
  <2> QED
    BY <1>1, <1>4, <2>1, <2>3 DEF SleepInv
<1>6. CASE SendRevoke(a, l)
  <2> DEFINE ok == [NoRevocation EXCEPT !.stage = "ok"]
             failed == [r EXCEPT !.stage = "failed"]
  <2>1. r.stage = "send" /\ ok.stage = "ok" /\ failed.le = r.le
    BY <1>3, <1>6 DEF SendRevoke, Revocation, NoRevocation
  <2>2. SetRevocation(a, l, ok) \/ SetRevocation(a, l, failed)
    BY <1>6 DEF SendRevoke
  <2>3. \A b \in Actor, m \in Lease :
           \/ revocation'[b][m] = revocation[b][m]
           \/ revocation'[b][m].stage \notin {"send", "failed"}
           \/ /\ revocation[b][m].stage = "send"
              /\ revocation'[b][m].le = revocation[b][m].le
    <3> HIDE DEF ok, failed
    <3>1. \A b \in Actor, m \in Lease :
            \/ revocation'[b][m] = revocation[b][m]
            \/ b = a /\ m = l /\ revocation'[b][m] \in {ok, failed}
      BY <2>2, SetRevocationCases
    <3> QED
      BY <2>1, <3>1
  <2>4. UNCHANGED <<leases, row>>
    BY <1>6 DEF SendRevoke, tables
  <2> QED
    BY <1>5, <2>3, <2>4
<1>7. CASE DeleteRevoked(a, l) \/ DeleteExhausted(a, l) \/ RevocationWriteFails(a, l)
  <2>1. SetRevocation(a, l, NoRevocation)
    BY <1>7 DEF DeleteRevoked, DeleteExhausted, RevocationWriteFails
  <2>2. \A b \in Actor, m \in Lease :
           \/ revocation'[b][m] = revocation[b][m]
           \/ revocation'[b][m].stage \notin {"send", "failed"}
    BY <2>1, SetRevocationCases DEF NoRevocation
  <2>3. \A m \in leases' : row'[m] = row[m]
    BY <1>7 DEF DeleteRevoked, DeleteExhausted, RevocationWriteFails, Delete, tables,
                TypeInv, TypeOK
  <2> QED
    BY <1>5, <2>2, <2>3
<1>8. CASE RecordFailure(a, l)
  <2>1. \A b \in Actor, m \in Lease :
           \/ revocation'[b][m] = revocation[b][m]
           \/ revocation'[b][m].stage \notin {"send", "failed"}
    BY <1>8, SetRevocationCases DEF RecordFailure, NoRevocation
  <2>2. CASE l \notin leases
    BY <1>5, <1>8, <2>1, <2>2 DEF RecordFailure, Update
  <2>3. CASE l \in leases
    <3>1. r.stage = "failed" /\ r.le.attempts = 0
      BY <1>3, <1>8, LeaseAssumption DEF RecordFailure, Exhausted, Undisturbed
    <3>2. row[l].expires_at = r.le.expires_at
                                + (IF row[l].attempts = 0 THEN 0 ELSE RetryTimeout)
      BY <2>3, <3>1 DEF SleepInv, RetryOK
    <3>3. /\ leases' = leases
          /\ \A m \in Lease \ {l} : row'[m] = row[m]
          /\ row'[l] = [row[l] EXCEPT !.attempts = row[l].attempts + 1,
                                      !.expires_at = NextExpiry(r.le)]
      BY <1>8, <2>3 DEF RecordFailure, Update, TypeInv, TypeOK
    <3>4. row'[l].expires_at = r.le.expires_at + RetryTimeout /\ row'[l].attempts # 0
      <4>1. row[l] \in Row
        BY DEF TypeInv, TypeOK
      <4> QED
        BY <1>3, <3>3, <4>1 DEF NextExpiry, Row
    <3>5. \A m \in leases' : row'[m].expires_at >= row[m].expires_at
      <4>1. row'[l].expires_at >= row[l].expires_at
        BY <1>3, <3>2, <3>4, LeaseAssumption
      <4>2. \A m \in leases : m \in Lease
        BY DEF TypeInv, TypeOK
      <4>3. \A m \in leases : m # l => row'[m].expires_at >= row[m].expires_at
        <5>1. \A m \in leases : m # l => row'[m] = row[m]
          BY <3>3, <4>2
        <5>2. \A m \in leases : row[m].expires_at >= row[m].expires_at
          BY <1>3, <4>2
        <5> QED
          BY <5>1, <5>2
      <4> QED
        BY <3>3, <4>1, <4>3
    <3>6. Watchful'
      BY <1>1, <1>2, <3>5, WatchfulKept DEF SleepInv
    <3>7. ASSUME NEW b \in Actor, NEW m \in Lease PROVE RetryOK(b, m)'
      <4>1. CASE revocation'[b][m].stage \notin {"send", "failed"}
        BY <4>1 DEF RetryOK
      <4>2. CASE revocation'[b][m] = revocation[b][m] /\ m # l
        <5>1. RetryOK(b, m) /\ row'[m] = row[m]
          BY <3>3, <4>2 DEF SleepInv
        <5> QED
          BY <3>3, <4>2, <5>1 DEF RetryOK
      <4>3. CASE /\ revocation'[b][m] = revocation[b][m] /\ m = l
                 /\ revocation[b][l].stage \in {"send", "failed"}
                 /\ revocation[b][l].le.attempts = 0
        <5>1. row[l].expires_at = revocation[b][l].le.expires_at
                                + (IF row[l].attempts = 0 THEN 0 ELSE RetryTimeout)
          BY <2>3, <4>3 DEF SleepInv, RetryOK
        <5>2. revocation[b][l].le.expires_at \in Nat
          BY DEF TypeInv, TypeOK, Revocation, Row
        <5>3. revocation[b][l].le.expires_at = r.le.expires_at
          BY <1>3, <3>2, <5>1, <5>2, LeaseAssumption
        <5> QED
          BY <3>4, <4>3, <5>3 DEF RetryOK
      <4>4. CASE /\ revocation'[b][m] = revocation[b][m] /\ m = l
                 /\ ~ (/\ revocation[b][l].stage \in {"send", "failed"}
                       /\ revocation[b][l].le.attempts = 0)
        BY <4>4 DEF RetryOK
      <4> QED
        BY <2>1, <4>1, <4>2, <4>3, <4>4
    <3> QED
      BY <1>1, <1>4, <3>6, <3>7 DEF SleepInv
  <2> QED
    BY <2>2, <2>3
<1> QED
  BY <1>6, <1>7, <1>8 DEF RevokeStep

\* A request registers its lease: nobody has a copy of the row yet, and the
\* worker is notified.
LEMMA SleepRegister ==
    ASSUME TypeInv, LifeInv, SleepInv, NEW c \in Client, Register(c)
    PROVE  SleepInv'
<1> DEFINE n == client[c].lease
<1>1. n \in Lease /\ n \notin registered
  BY DEF Register, LifeInv, Registering, TypeInv, RequestsOK
<1>2. /\ leases' = leases \cup {n} /\ \A l \in Lease \ {n} : row'[l] = row[l]
      /\ permit' /\ UNCHANGED <<clock, worker, revocation>> /\ SetClient(c, Idle)
  BY <1>1 DEF Register, Insert, TypeInv, TypeOK
<1>3. IsFiniteSet(leases')
  BY <1>2, FS_AddElement DEF SleepInv
<1>4. ASSUME NEW a \in Actor, NEW l \in Lease PROVE RetryOK(a, l)'
  <2>1. CASE revocation[a][l].stage \in {"send", "failed"}
    <3>1. l \in registered
      BY <2>1 DEF LifeInv, RevocationLife, CopyOK
    <3>2. RetryOK(a, l) /\ l # n
      BY <1>1, <3>1 DEF SleepInv
    <3> QED
      BY <1>2, <3>2 DEF RetryOK
  <2>2. CASE revocation[a][l].stage \notin {"send", "failed"}
    BY <1>2, <2>2 DEF RetryOK
  <2> QED
    BY <2>1, <2>2
<1>5. Watchful'
  BY <1>2 DEF SleepInv, Watchful, NoOversleep
<1>6. \A d \in Client : client'[d].pc \notin {"renew", "write"}
  BY <1>2 DEF SleepInv, SetClient, Idle, TypeInv, TypeOK
<1> QED
  BY <1>3, <1>4, <1>5, <1>6 DEF SleepInv

\* A step that touches neither the table nor the worker.
LEMMA SleepOff ==
    ASSUME TypeInv, SleepInv, UNCHANGED <<leases, row, worker, clock>>, permit' = permit,
           \A c \in Client : client'[c].pc \notin {"renew", "write"},
           \A a \in Actor, l \in Lease :
              \/ revocation'[a][l] = revocation[a][l]
              \/ revocation'[a][l] = [stage |-> "send", le |-> row[l]]
    PROVE  SleepInv'
<1>1. \A a \in Actor, l \in Lease : RetryOK(a, l)'
  BY RetriesKept DEF SleepInv
<1>2. row' \in [Lease -> Row] /\ leases' \subseteq leases
      /\ \A l \in leases' : row'[l].expires_at >= row[l].expires_at
  BY DEF TypeInv, TypeOK, Row
<1>3. Watchful'
  BY <1>2, WatchfulKept DEF SleepInv
<1> QED
  BY <1>1, <1>3 DEF SleepInv

\* A step of a request other than register: none writes an expiry.
LEMMA SleepRequest ==
    ASSUME TypeInv, SleepInv, Undisturbed, NEW c \in Client,
           \/ Route(c)
           \/ \E l \in Lease, ttl \in IssueTtls : Issue(c, l, ttl)
           \/ \E l \in Lease, ttl \in RenewTtls : BeginRenew(c, l, ttl)
           \/ RenewReply(c) \/ RequestWriteFails(c) \/ Refused(c)
           \/ WriteRenewal(c) \/ Cancel(c)
           \/ \E S \in SUBSET Lease : RevokeLeases(c, S)
    PROVE  SleepInv'
<1>0. client[c].pc \notin {"renew", "write"} /\ ~ Cancel(c)
  BY DEF SleepInv, Undisturbed, Cancel, Fault
<1>1. CASE \E S \in SUBSET Lease : RevokeLeases(c, S)
  <2>1. PICK S \in SUBSET Lease : RevokeLeases(c, S)
    BY <1>1
  <2>2. Begin(c, S \cap leases)
    BY <2>1 DEF RevokeLeases
  <2>3. \A a \in Actor, l \in Lease :
              \/ revocation'[a][l] = revocation[a][l]
              \/ revocation'[a][l] = [stage |-> "send", le |-> row[l]]
    BY <2>2, BeginCases DEF Actor
  <2>4. UNCHANGED <<leases, row, worker, clock, client>> /\ permit' = permit
    BY <2>1 DEF RevokeLeases, tables
  <2> QED
    BY <2>3, <2>4, SleepOff DEF SleepInv
<1>2. CASE Route(c) \/ RequestWriteFails(c) \/ Refused(c)
           \/ \E l \in Lease, ttl \in IssueTtls : Issue(c, l, ttl)
  <2>1. UNCHANGED <<leases, row, worker, clock, revocation>> /\ permit' = permit
    BY <1>2 DEF Route, Issue, RequestWriteFails, Refused, tables
  <2>2. \E r : SetClient(c, r) /\ r.pc \notin {"renew", "write"}
    <3>1. CASE Route(c)
      <4> DEFINE r == [Idle EXCEPT !.pc = "issue", !.config = config]
      <4>1. SetClient(c, r)
        BY <3>1 DEF Route
      <4>2. r.pc = "issue"
        BY DEF Idle
      <4> QED
        BY <4>1, <4>2
    <3>2. CASE RequestWriteFails(c) \/ Refused(c)
      BY <3>2 DEF RequestWriteFails, Refused, Idle
    <3>3. ASSUME NEW l \in Lease, NEW ttl \in IssueTtls, Issue(c, l, ttl)
          PROVE  \E r : SetClient(c, r) /\ r.pc \notin {"renew", "write"}
      <4> DEFINE r == [Idle EXCEPT !.pc = "register", !.lease = l,
                          !.le = NewRow(clock, CalculateTtl(clock, clock, client[c].config, ttl))]
      <4>1. SetClient(c, r)
        BY <3>3 DEF Issue
      <4>2. r.pc = "register"
        BY DEF Idle
      <4> QED
        BY <4>1, <4>2
    <3> QED
      BY <1>2, <3>1, <3>2, <3>3
  <2>3. \A d \in Client : client'[d].pc \notin {"renew", "write"}
    BY <2>2 DEF SetClient, SleepInv, TypeInv, TypeOK
  <2> QED
    BY <2>1, <2>3, SleepOff
<1> QED
  BY <1>0, <1>1, <1>2 DEF RenewReply, WriteRenewal, Undisturbed

\* Time passes only between scans, and a crash starts a new one.
LEMMA SleepEnvironment ==
    ASSUME TypeInv, SleepInv, Undisturbed,
           Tick \/ UpdateMount \/ Crash \/ \E l \in Lease : LateRevoke(l)
    PROVE  SleepInv'
<1>1. CASE Tick
  <2>1. UNCHANGED <<leases, row, worker, client, revocation>> /\ permit' = permit
    BY <1>1 DEF Tick, tables
  <2>2. worker.pc \notin {"pull", "peek"}
    BY <1>1 DEF Tick, Undisturbed
  <2>3. Watchful'
    BY <2>1, <2>2 DEF SleepInv, Watchful, NoOversleep
  <2> QED
    BY <2>1, <2>3 DEF SleepInv, RetryOK
<1>2. CASE UpdateMount \/ \E l \in Lease : LateRevoke(l)
  <2>1. /\ UNCHANGED <<leases, row, worker, clock, client, revocation>>
        /\ permit' = permit
    BY <1>2 DEF UpdateMount, LateRevoke, tables
  <2> QED
    BY <2>1, SleepOff DEF SleepInv
<1>3. CASE Crash
  <2>1. /\ UNCHANGED <<leases, row>>
        /\ worker' = Scan(clock')
        /\ client' = [c \in Client |-> Idle]
        /\ revocation' = [a \in Actor |-> [l \in Lease |-> NoRevocation]]
    BY <1>3 DEF Crash, tables
  <2>2. Watchful'
    BY <2>1 DEF Scan, Watchful, NoOversleep
  <2>3. \A a \in Actor, l \in Lease : RetryOK(a, l)'
    BY <2>1 DEF RetryOK, NoRevocation
  <2> QED
    BY <2>1, <2>2, <2>3 DEF SleepInv, Idle
<1> QED
  BY <1>1, <1>2, <1>3

\* Every step keeps the worker watchful.
LEMMA SleepStep ==
    ASSUME Undisturbed
    PROVE  IInv /\ SleepInv /\ [Next]_vars => SleepInv'
<1> SUFFICES ASSUME IInv, SleepInv, [Next]_vars PROVE SleepInv'
  OBVIOUS
<1>1. TypeInv /\ LifeInv
  BY DEF IInv
<1>2. CASE Next
  BY <1>1, <1>2, NextCases, SleepWorker, SleepRevocation, SleepRegister, SleepRequest,
     SleepEnvironment
<1>3. CASE UNCHANGED vars
  <2>1. /\ UNCHANGED <<leases, row, worker, clock, client, revocation>>
        /\ permit' = permit
    BY <1>3 DEF vars, tables
  <2> QED
    BY <1>1, <2>1, SleepOff DEF SleepInv
<1> QED
  BY <1>2, <1>3

\* Whatever requests and crashes do, the worker that waits without a pending
\* notification wakes up by the time any lease expires, provided that nothing
\* brings an expiry forward: the stored permit of Notify covers every lease
\* registered between the peek and the wait.
THEOREM NeverOversleeps ==
    ASSUME Undisturbed
    PROVE  Spec => []NoOversleep
<1>1. Init => SleepInv
  BY SleepInit
<1>2. IInv /\ SleepInv /\ [Next]_vars => SleepInv'
  BY SleepStep
<1>3. SleepInv => NoOversleep
  BY DEF SleepInv, Watchful
<1> QED
  BY <1>1, <1>2, <1>3, IInvCorrect, PTL DEF Spec

-----------------------------------------------------------------------------
(***************************************************************************)
(* ExpirationManager implements LeaseLifecycle: the initial states map to  *)
(* initial states, and every step of a state satisfying IInv maps to a     *)
(* step of LeaseLifecycle or to a stutter.                                 *)
(***************************************************************************)

\* The abstract status of l, read from the three variables it depends on.
LEMMA StatusCases ==
    ASSUME IInv, NEW l \in Lease
    PROVE  /\ LeaseStatus \in [Lease -> {"unknown", "active", "revoked", "abandoned"}]
           /\ l \in leases => LeaseStatus[l] = "active"
           /\ l \notin registered => LeaseStatus[l] = "unknown"
           /\ l \in registered \ leases =>
                LeaseStatus[l] = IF backend[l] = "gone" THEN "revoked" ELSE "abandoned"
BY DEF LeaseStatus, IInv, CountInv

\* A step that changes the status of at most one lease.
LEMMA StatusChange ==
    ASSUME NEW l \in Lease,
           \A m \in Lease \ {l} :
              /\ (m \in leases) = (m \in leases')
              /\ (m \in registered) = (m \in registered')
              /\ backend'[m] = backend[m]
    PROVE  LeaseStatus' = [LeaseStatus EXCEPT ![l] = LeaseStatus'[l]]
BY DEF LeaseStatus

\* A lease whose row and secret stay keeps its status.
LEMMA StatusKept ==
    ASSUME leases' = leases, registered' = registered,
           \A l \in Lease : (backend[l] = "gone") = (backend'[l] = "gone")
    PROVE  LeaseStatus' = LeaseStatus
BY DEF LeaseStatus

\* A row appears.
LEMMA RefineInsert ==
    ASSUME IInv, IInv', NEW c \in Client, client[c].pc = "register",
           Insert(client[c].lease, client[c].le), UNCHANGED <<backend, failures>>
    PROVE  Lifecycle!Next
<1> DEFINE l == client[c].lease
<1>1. l \in Lease /\ l \notin registered
  BY DEF IInv, TypeInv, RequestsOK, LifeInv, Registering
<1>2. LeaseStatus[l] = "unknown" /\ LeaseStatus'[l] = "active"
  <2>1. l \in leases'
    BY DEF Insert
  <2> QED
    BY <1>1, <2>1, StatusCases DEF LeaseStatus
<1>3. LeaseStatus' = [LeaseStatus EXCEPT ![l] = "active"]
  BY <1>1, <1>2, StatusChange DEF Insert
<1>4. Lifecycle!Begin(l)
  BY <1>2, <1>3 DEF Lifecycle!Begin, Lifecycle!Become
<1> QED
  BY <1>1, <1>4 DEF Lifecycle!Next

\* A row is deleted: the secret is gone, or MaxRetries revocations failed.
LEMMA RefineDelete ==
    ASSUME IInv, IInv', NEW a \in Actor, NEW l \in Lease,
           DeleteRevoked(a, l) \/ DeleteExhausted(a, l)
    PROVE  [Lifecycle!Next]_Lifecycle!vars
<1>1. /\ Delete(l) /\ UNCHANGED <<backend, failures, registered>>
  BY DEF DeleteRevoked, DeleteExhausted, Delete, history
<1>2. CASE l \notin leases
  <2>1. leases' = leases
    BY <1>1, <1>2 DEF Delete
  <2>2. LeaseStatus' = LeaseStatus
    BY <1>1, <2>1, StatusKept
  <2> QED
    BY <1>1, <2>2 DEF Lifecycle!vars
<1>3. CASE l \in leases
  <2>1. l \in registered \ leases' /\ l \in registered
    BY <1>1, <1>3 DEF Delete, IInv, CountInv
  <2>2. LeaseStatus[l] = "active"
    BY <1>3 DEF LeaseStatus
  <2>3. LeaseStatus'[l] = IF backend[l] = "gone" THEN "revoked" ELSE "abandoned"
    BY <1>1, <2>1 DEF LeaseStatus
  <2>4. LeaseStatus' = [LeaseStatus EXCEPT ![l] = LeaseStatus'[l]]
    BY <1>1, StatusChange DEF Delete
  <2>5. CASE backend[l] = "gone"
    BY <1>1, <2>2, <2>3, <2>4, <2>5
    DEF Lifecycle!Next, Lifecycle!Revoke, Lifecycle!Become
  <2>6. CASE backend[l] # "gone"
    <3>2. failures[l] >= MaxRetries
      BY <1>1, <2>1, <2>6 DEF IInv, CountInv, AbandonedOnlyAfterMaxRetries
    <3>3. Lifecycle!Abandon(l)
      BY <1>1, <2>2, <2>3, <2>4, <2>6, <3>2 DEF Lifecycle!Abandon, Lifecycle!Become
    <3> QED
      BY <3>3 DEF Lifecycle!Next
  <2> QED
    BY <2>5, <2>6
<1> QED
  BY <1>2, <1>3

\* A revoke request is answered.
LEMMA RefineSend ==
    ASSUME IInv, IInv', NEW a \in Actor, NEW l \in Lease, SendRevoke(a, l)
    PROVE  [Lifecycle!Next]_Lifecycle!vars
<1>1. /\ UNCHANGED <<leases, registered>>
      /\ \/ backend' = backend
         \/ backend' = [backend EXCEPT ![l] = "gone"]
         \/ backend[l] = "live" /\ backend' = [backend EXCEPT ![l] = "leaving"]
  BY DEF SendRevoke, Outlive, tables
<1>2. l \in registered
  BY DEF SendRevoke, IInv, LifeInv, RevocationLife, CopyOK
<1>3. \A m \in Lease \ {l} : backend'[m] = backend[m]
  BY <1>1 DEF IInv, TypeInv, TypeOK
<1>4. LeaseStatus' = [LeaseStatus EXCEPT ![l] = LeaseStatus'[l]]
  BY <1>1, <1>3, StatusChange
<1>5. /\ LeaseStatus[l] # "unknown"
      /\ \/ LeaseStatus' = LeaseStatus
         \/ LeaseStatus[l] = "abandoned" /\ LeaseStatus'[l] = "revoked"
  <2>1. \/ backend'[l] = backend[l]
        \/ backend'[l] = "gone"
        \/ backend[l] = "live" /\ backend'[l] = "leaving"
    BY <1>1 DEF IInv, TypeInv, TypeOK
  <2>2. CASE LeaseStatus'[l] = LeaseStatus[l]
    <3>1. LeaseStatus' = LeaseStatus
      BY <1>4, <2>2 DEF LeaseStatus
    <3> QED
      BY <1>2, <3>1 DEF LeaseStatus
  <2>3. CASE LeaseStatus'[l] # LeaseStatus[l]
    BY <1>1, <1>2, <2>1, <2>3 DEF LeaseStatus
  <2> QED
    BY <2>2, <2>3
<1>6. CASE UNCHANGED failures
  <2>1. CASE LeaseStatus' = LeaseStatus
    BY <1>6, <2>1 DEF Lifecycle!vars
  <2>2. CASE LeaseStatus[l] = "abandoned" /\ LeaseStatus'[l] = "revoked"
    BY <1>4, <1>6, <2>2 DEF Lifecycle!Next, Lifecycle!Revoke, Lifecycle!Become
  <2> QED
    BY <1>5, <2>1, <2>2
<1>7. CASE failures' = [failures EXCEPT ![l] = @ + 1]
  <2>1. Lifecycle!Strike(l)
    BY <1>4, <1>5, <1>7 DEF Lifecycle!Strike, Lifecycle!Become
  <2> QED
    BY <2>1 DEF Lifecycle!Next
<1> QED
  BY <1>6, <1>7 DEF SendRevoke

\* Every other step leaves the rows that exist, the failures and the secrets
\* of registered leases alone.
LEMMA RefineStutter ==
    ASSUME UNCHANGED <<leases, registered, failures>>,
           \A l \in Lease : (backend[l] = "gone") = (backend'[l] = "gone")
    PROVE  UNCHANGED Lifecycle!vars
BY StatusKept DEF Lifecycle!vars

\* A revoke request that timed out takes effect after all: the secret of an
\* abandoned lease may go, that of an active one leaves the lease active.
LEMMA RefineLate ==
    ASSUME IInv, NEW l \in Lease, LateRevoke(l)
    PROVE  [Lifecycle!Next]_Lifecycle!vars
<1>1. /\ UNCHANGED <<leases, registered, failures>>
      /\ backend[l] = "leaving"
      /\ \A m \in Lease \ {l} : backend'[m] = backend[m]
  BY DEF LateRevoke, tables, history, IInv, TypeInv, TypeOK
<1>2. LeaseStatus' = [LeaseStatus EXCEPT ![l] = LeaseStatus'[l]]
  BY <1>1, StatusChange
<1>3. CASE LeaseStatus'[l] = LeaseStatus[l]
  <2>1. LeaseStatus' = LeaseStatus
    BY <1>2, <1>3 DEF LeaseStatus
  <2> QED
    BY <1>1, <2>1 DEF Lifecycle!vars
<1>4. CASE LeaseStatus'[l] # LeaseStatus[l]
  <2>1. LeaseStatus[l] = "abandoned" /\ LeaseStatus'[l] = "revoked"
    BY <1>1, <1>4 DEF LeaseStatus
  <2> QED
    BY <1>1, <1>2, <2>1 DEF Lifecycle!Next, Lifecycle!Revoke, Lifecycle!Become
<1> QED
  BY <1>3, <1>4

\* Every step is a step of LeaseLifecycle, or none.
LEMMA RefineStep ==
    IInv /\ IInv' /\ [Next]_vars => [Lifecycle!Next]_Lifecycle!vars
<1> SUFFICES ASSUME IInv, IInv', [Next]_vars
             PROVE  [Lifecycle!Next]_Lifecycle!vars
  OBVIOUS
<1>1. CASE \/ Pull \/ PullFails \/ Peek \/ PeekFails
           \/ Notified \/ WakeUp \/ BatchDone
           \/ Tick \/ UpdateMount \/ Crash
  <2>1. UNCHANGED <<leases, registered, failures, backend>>
    BY <1>1 DEF Pull, PullFails, Peek, PeekFails, Notified, WakeUp, BatchDone,
                Tick, UpdateMount, Crash, tables, history
  <2> QED
    BY <2>1, RefineStutter
<1>2. ASSUME NEW a \in Actor, NEW l \in Lease,
             RevokeStep(a, l) \/ RevocationWriteFails(a, l)
      PROVE  [Lifecycle!Next]_Lifecycle!vars
  <2>1. CASE RecordFailure(a, l) \/ RevocationWriteFails(a, l)
    <3>1. UNCHANGED <<leases, registered, failures, backend>>
      BY <2>1 DEF RecordFailure, RevocationWriteFails, Update, tables, history
    <3> QED
      BY <3>1, RefineStutter
  <2> QED
    BY <1>2, <2>1, RefineSend, RefineDelete DEF RevokeStep
<1>3. ASSUME NEW c \in Client, NEW l \in Lease, NEW ttl \in IssueTtls, Issue(c, l, ttl)
      PROVE  [Lifecycle!Next]_Lifecycle!vars
  <2>1. UNCHANGED <<leases, registered, failures>>
    BY <1>3 DEF Issue, tables, history
  <2>2. \A m \in Lease : (backend[m] = "gone") = (backend'[m] = "gone")
    BY <1>3 DEF Issue, IInv, TypeInv, TypeOK
  <2> QED
    BY <2>1, <2>2, RefineStutter
<1>4. ASSUME NEW c \in Client,
             \/ Route(c)
             \/ \E l \in Lease, ttl \in RenewTtls : BeginRenew(c, l, ttl)
             \/ RenewReply(c) \/ Refused(c) \/ WriteRenewal(c) \/ RequestWriteFails(c)
             \/ \E S \in SUBSET Lease : RevokeLeases(c, S)
      PROVE  [Lifecycle!Next]_Lifecycle!vars
  <2>1. UNCHANGED <<leases, registered, failures, backend>>
    BY <1>4 DEF Route, BeginRenew, RenewReply, Refused, WriteRenewal, RequestWriteFails,
                RevokeLeases, Update, tables, history
  <2> QED
    BY <2>1, RefineStutter
<1>5. ASSUME NEW c \in Client, Register(c) \/ Cancel(c)
      PROVE  [Lifecycle!Next]_Lifecycle!vars
  <2>1. /\ UNCHANGED failures
        /\ \/ UNCHANGED tables
           \/ /\ client[c].pc = "register" /\ Insert(client[c].lease, client[c].le)
              /\ UNCHANGED backend
    BY <1>5 DEF Register, Cancel, history
  <2>2. \A m \in Lease : (backend[m] = "gone") = (backend'[m] = "gone")
    BY <1>5 DEF Register, Cancel, IInv, TypeInv, TypeOK
  <2> QED
    BY <2>1, <2>2, RefineInsert, RefineStutter DEF tables
<1>8. ASSUME NEW l \in Lease, LateRevoke(l)
      PROVE  [Lifecycle!Next]_Lifecycle!vars
  BY <1>8, RefineLate
<1>6. CASE UNCHANGED vars
  BY <1>6, RefineStutter DEF vars, tables, history
<1>7. CASE Next
  BY <1>1, <1>2, <1>3, <1>4, <1>5, <1>7, <1>8, NextCases
<1> QED
  BY <1>6, <1>7

\* The expiration manager implements LeaseLifecycle: each lease is registered
\* once and ends once, revoked or abandoned after MaxRetries failures, however
\* stale copies, renewals, retries, cancellations and crashes interleave.
THEOREM LifecycleImplemented == Spec => ImplementsLifecycle
<1>1. Init => Lifecycle!Init
  BY DEF Init, Lifecycle!Init, LeaseStatus
<1>2. IInv /\ IInv' /\ [Next]_vars => [Lifecycle!Next]_Lifecycle!vars
  BY RefineStep
<1> QED
  BY <1>1, <1>2, IInvCorrect, PTL DEF Spec, ImplementsLifecycle, Lifecycle!Spec
=============================================================================
