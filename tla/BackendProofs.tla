---------------------------- MODULE BackendProofs ----------------------------
(***************************************************************************)
(* Theorems on two of the backends. On PsqlBackend: the pool and the       *)
(* stored connection agree unless requests or failures come between, the   *)
(* handlers do not block each other, and no user is left behind by a       *)
(* revocation that was confirmed. On Userpass: what a request relies on    *)
(* when it changes a password or gets a token was true at an instant since *)
(* it arrived.                                                             *)
(***************************************************************************)
EXTENDS PsqlBackend, Userpass, TLAPS

(***************************************************************************)
(* Types                                                                   *)
(***************************************************************************)

Pc == {"idle", "verify", "store", "lookup", "dial", "role", "check", "remove", "tx"} \cup Locking

\* No request in progress is a state of a request.
LEMMA IdleType == Idle \in Handler
BY DEF Idle, Handler

\* What TypeOK says of the handlers
Handlers ==
    /\ req \in [Actor -> Handler]
    /\ \A a \in Actor :
          /\ req[a].pc \in {"verify", "store", "dial", "install", "tx"} => req[a].db \in Db
          /\ req[a].kind \in {"issue", "renew", "revoke"} => req[a].secret \in Secret

\* One handler's record is replaced.
LEMMA SetTypes ==
    ASSUME TypeOK, NEW a \in Actor, NEW h \in Handler, req' = [req EXCEPT ![a] = h],
           h.pc \in {"verify", "store", "dial", "install", "tx"} => h.db \in Db,
           h.kind \in {"issue", "renew", "revoke"} => h.secret \in Secret
    PROVE  /\ Handlers'
           /\ req'[a] = h
           /\ \A b \in Actor \ {a} : req'[b] = req[b]
<1>1. /\ req' \in [Actor -> Handler]
      /\ req'[a] = h
      /\ \A b \in Actor \ {a} : req'[b] = req[b]
  BY DEF TypeOK
<1>2. QED
  BY <1>1 DEF TypeOK, Handlers

\* A request that goes on to its next step keeps its data.
LEMMA GoTypes ==
    ASSUME TypeOK, NEW a \in Actor, NEW pc \in Pc, NEW q \in Seq(Actor), Go(a, pc, q),
           pc \in {"verify", "store", "dial", "install", "tx"} => req[a].db \in Db
    PROVE  Handlers' /\ queue' \in Seq(Actor)
<1> DEFINE h == [req[a] EXCEPT !.pc = pc]
<1>1. /\ h \in Handler
      /\ h.pc = pc /\ h.db = req[a].db /\ h.kind = req[a].kind /\ h.secret = req[a].secret
  BY DEF TypeOK, Handler, Pc
<1>2. req' = [req EXCEPT ![a] = h]
  BY DEF Go
<1>3. queue' \in Seq(Actor)
  BY DEF Go
<1>4. QED
  BY <1>1, <1>2, <1>3, SetTypes DEF TypeOK

\* A request ends and the queue for the lock stays a queue.
LEMMA EndTypes ==
    ASSUME TypeOK, NEW a \in Actor, NEW q \in Seq(Actor), End(a, q)
    PROVE  Handlers' /\ queue' \in Seq(Actor)
<1>1. req' = [req EXCEPT ![a] = Idle] /\ queue' = q
  BY DEF End
<1>2. QED
  BY <1>1, SetTypes, IdleType DEF Idle

\* The queue without its head is a queue.
LEMMA TailType ==
    ASSUME TypeOK, NEW a \in Actor, AtHead(a)
    PROVE  Tail(queue) \in Seq(Actor)
BY DEF TypeOK, AtHead

\* The backend starts well typed.
LEMMA InitTypes == Init => TypeOK
<1> SUFFICES ASSUME Init PROVE TypeOK
  OBVIOUS
<1>1. queue \in Seq(Actor)
  BY DEF Init
<1>2. req \in [Actor -> Handler] /\ \A a \in Actor : req[a] = Idle
  BY IdleType DEF Init
<1>3. users \in [Db -> SUBSET Secret] /\ faults \in Nat
  BY DEF Init
<1>4. QED
  BY <1>1, <1>2, <1>3 DEF Init, TypeOK, Idle

\* What all arriving requests have in common.
LEMMA BeginTypes ==
    ASSUME TypeOK, NEW r \in Request, NEW h \in Handler, Begin(r, h),
           h.pc \in {"verify", "store"} => h.db \in Db, h.pc \in {"verify", "store", "role"},
           h.kind \in {"issue", "renew", "revoke"} => h.secret \in Secret,
           requested' \subseteq Secret
    PROVE  TypeOK'
<1>1. r \in Actor
  BY DEF Actor
<1>2. /\ req' \in [Actor -> Handler]
      /\ req'[r] = h
      /\ \A b \in Actor \ {r} : req'[b] = req[b]
  BY <1>1 DEF Begin, TypeOK
<1>3. alone' \in Request \cup {None} /\ disturbed' \in BOOLEAN
  BY DEF Begin, TypeOK
<1>4. QED
  BY <1>1, <1>2, <1>3 DEF Begin, TypeOK, config

\* Requests arrive: the types are kept.
LEMMA ArrivalTypes ==
    ASSUME TypeOK, NEW r \in Request,
           \/ \E d \in Db : BeginConnect(r, d)
           \/ \E s \in Secret : BeginIssue(r, s) \/ BeginOther(r, s)
    PROVE  TypeOK'
<1>1. ASSUME NEW d \in Db, BeginConnect(r, d) PROVE TypeOK'
  <2>1. PICK pc \in {"verify", "store"} : Begin(r, [pc |-> pc, kind |-> "connect", db |-> d, secret |-> None])
    BY <1>1 DEF BeginConnect
  <2>2. [pc |-> pc, kind |-> "connect", db |-> d, secret |-> None] \in Handler
    BY DEF Handler
  <2>3. requested' \subseteq Secret
    BY <1>1 DEF BeginConnect, TypeOK
  <2>4. QED
    BY <2>1, <2>2, <2>3, BeginTypes
<1>2. ASSUME NEW s \in Secret, NEW kind \in {"issue", "renew", "revoke"}, Begin(r, Begun(kind, s)),
             requested' \subseteq Secret
      PROVE  TypeOK'
  <2>1. Begun(kind, s) \in Handler
    BY DEF Handler, Begun
  <2>2. QED
    BY <1>2, <2>1, BeginTypes DEF Begun
<1>3. ASSUME NEW s \in Secret, BeginIssue(r, s) PROVE TypeOK'
  BY <1>2, <1>3 DEF BeginIssue, TypeOK
<1>4. ASSUME NEW s \in Secret, BeginOther(r, s) PROVE TypeOK'
  BY <1>2, <1>4 DEF BeginOther, TypeOK
<1>5. QED
  BY <1>1, <1>3, <1>4

\* The steps of a request that sets the connection, and of the one that looks
\* it up and dials: the types are kept.
LEMMA ConnectTypes ==
    ASSUME TypeOK, NEW a \in Actor, Verify(a) \/ Store(a) \/ Reset(a) \/ Lookup(a) \/ Dial(a) \/ Install(a)
    PROVE  TypeOK'
<1>1. CASE Verify(a)
  BY <1>1, GoTypes, EndTypes DEF Verify, TypeOK, Handlers, Pc, Idle, config, history
<1>2. CASE Store(a)
  BY <1>2, GoTypes DEF Store, TypeOK, Handlers, Pc, Locking, history
<1>3. CASE Reset(a)
  BY <1>3, GoTypes, TailType DEF Reset, MayWrite, TypeOK, Handlers, Pc, history
<1>4. CASE Lookup(a)
  <2>1. CASE stored = None
    BY <1>4, <2>1, EndTypes DEF Lookup, TypeOK, Handlers, config, history
  <2>2. CASE stored # None
    <3> DEFINE h == [req[a] EXCEPT !.pc = "dial", !.db = stored]
    <3>1. h \in Handler /\ h.pc = "dial" /\ h.db = stored /\ h.kind = req[a].kind /\ h.secret = req[a].secret
      BY <2>2 DEF TypeOK, Handler
    <3>2. req' = [req EXCEPT ![a] = h]
      BY <1>4, <2>2 DEF Lookup, TypeOK
    <3>3. Handlers'
      BY <2>2, <3>1, <3>2, SetTypes DEF TypeOK
    <3>4. QED
      BY <1>4, <2>2, <3>3 DEF Lookup, TypeOK, Handlers, config, history
  <2>3. QED
    BY <2>1, <2>2
<1>5. CASE Dial(a)
  BY <1>5, GoTypes, EndTypes DEF Dial, TypeOK, Handlers, Pc, Locking, config
<1>6. CASE Install(a)
  BY <1>6, EndTypes, TailType DEF Install, MayWrite, TypeOK, Handlers
<1>7. QED
  BY <1>1, <1>2, <1>3, <1>4, <1>5, <1>6

\* The other steps of a request that uses the pool, and its failures: the
\* types are kept.
LEMMA OtherTypes ==
    ASSUME TypeOK, NEW a \in Actor,
           FindRole(a) \/ Guard(a) \/ Check(a) \/ Missing(a) \/ Remove(a) \/ Fail(a) \/ StorageFails(a)
    PROVE  TypeOK'
<1>1. CASE FindRole(a)
  BY <1>1, GoTypes, EndTypes DEF FindRole, TypeOK, Handlers, Pc, Locking, config, history
<1>2. CASE Guard(a)
  <2> DEFINE pc == IF pool = None THEN "check" ELSE "tx"
  <2>1. [req[a] EXCEPT !.pc = pc, !.db = pool] \in Handler
    BY DEF TypeOK, Handler
  <2>2. QED
    BY <1>2, <2>1, TailType, SetTypes DEF Guard, TypeOK, Handlers, config, history
<1>3. CASE Check(a)
  BY <1>3, GoTypes, EndTypes DEF Check, TypeOK, Handlers, Pc, Locking, config, history
<1>4. CASE Missing(a)
  BY <1>4, GoTypes, TailType DEF Missing, MayWrite, TypeOK, Handlers, Pc, history
<1>5. CASE Remove(a)
  BY <1>5, EndTypes DEF Remove, TypeOK, Handlers, history
<1>6. CASE Fail(a)
  BY <1>6, EndTypes DEF Fail, TypeOK, Handlers, config, history
<1>7. CASE StorageFails(a)
  BY <1>7, EndTypes DEF StorageFails, Fault, TypeOK, Handlers, config
<1>8. QED
  BY <1>1, <1>2, <1>3, <1>4, <1>5, <1>6, <1>7

\* Transactions that commit together create and drop users of the databases.
LEMMA CommitTypes ==
    ASSUME TypeOK, NEW C \in SUBSET Actor, Commit(C)
    PROVE  users' \in [Db -> SUBSET Secret] /\ created' \subseteq Secret
BY DEF TypeOK, Commit, Touched

\* A transaction commits, the connection breaks or the server restarts: the
\* types are kept.
LEMMA CommitStepTypes ==
    ASSUME TypeOK, (\E a \in Actor : Succeed(a) \/ Break(a)) \/ Restart
    PROVE  TypeOK'
<1>1. ASSUME NEW a \in Actor, Succeed(a) PROVE TypeOK'
  BY <1>1, EndTypes, CommitTypes DEF Succeed, TypeOK, Handlers, config
<1>2. ASSUME NEW a \in Actor, Break(a) PROVE TypeOK'
  BY <1>2, EndTypes, CommitTypes DEF Break, Fault, TypeOK, Handlers, config
<1>3. ASSUME Restart PROVE TypeOK'
  <2> DEFINE m == [Idle EXCEPT !.pc = "reset", !.kind = "mount"]
  <2>1. Mounter \in Actor
    BY DEF Actor
  <2>2. m \in Handler /\ m.pc = "reset" /\ m.kind = "mount"
    BY DEF Idle, Handler, Locking
  <2>3. /\ req' \in [Actor -> Handler]
        /\ \A a \in Actor : req'[a] = IF a = Mounter THEN m ELSE Idle
    BY <1>3, <2>2, IdleType DEF Restart
  <2>4. queue' \in Seq(Actor)
    BY <1>3, <2>1 DEF Restart
  <2>5. users' \in [Db -> SUBSET Secret] /\ created' \subseteq Secret
    BY <1>3, CommitTypes DEF Restart, Readers
  <2>6. Idle.pc = "idle" /\ Idle.kind = "none"
    BY DEF Idle
  <2>7. Handlers'
    <3> HIDE DEF m
    <3>1. QED
      BY <2>2, <2>3, <2>6 DEF Handlers
  <2>8. /\ pool' = None /\ alone' = None /\ disturbed' = FALSE
        /\ faults' \in Nat
        /\ UNCHANGED <<stored, roles, up, requested, leased, confirmed>>
    BY <1>3 DEF Restart, Fault, TypeOK
  <2>9. QED
    BY <2>4, <2>5, <2>7, <2>8 DEF TypeOK, Handlers
<1>4. QED
  BY <1>1, <1>2, <1>3

\* Every step keeps the types.
LEMMA StepTypes == TypeOK /\ [Next]_vars => TypeOK'
<1> SUFFICES ASSUME TypeOK, [Next]_vars PROVE TypeOK'
  OBVIOUS
<1>1. ASSUME NEW ro \in Role, CreateRole(ro) PROVE TypeOK'
  BY <1>1 DEF CreateRole, TypeOK, history
<1>2. ASSUME NEW d \in Db, Outage(d) \/ Recovery(d) PROVE TypeOK'
  BY <1>2 DEF Outage, Recovery, Fault, TypeOK, config, history
<1>3. CASE UNCHANGED vars
  BY <1>3 DEF TypeOK, vars, config, history
<1>4. ASSUME NEW a \in Actor, Step(a) \/ Break(a) \/ StorageFails(a) PROVE TypeOK'
  BY <1>4, ConnectTypes, OtherTypes, CommitStepTypes DEF Step
<1>5. QED
  BY <1>1, <1>2, <1>3, <1>4, ArrivalTypes, CommitStepTypes DEF Next

\* Every variable of the Postgres backend keeps its type, and a request that
\* has passed its first step knows its database and its secret.
THEOREM TypeCorrect == Spec => []TypeOK
BY InitTypes, StepTypes, PTL DEF Spec

(***************************************************************************)
(* The lock                                                                *)
(***************************************************************************)

\* What a step of a handler does to the handlers.
LEMMA GoIs ==
    ASSUME TypeOK, NEW a \in Actor, NEW pc, NEW q, Go(a, pc, q)
    PROVE  /\ req'[a].pc = pc /\ req'[a].db = req[a].db
           /\ req'[a].kind = req[a].kind /\ req'[a].secret = req[a].secret
           /\ \A b \in Actor \ {a} : req'[b] = req[b]
BY DEF Go, TypeOK, Handler

\* What End does to the requests.
LEMMA EndIs ==
    ASSUME TypeOK, NEW a \in Actor, NEW q, End(a, q)
    PROVE  /\ req'[a] = Idle /\ req'[a].pc = "idle" /\ req'[a].kind = "none"
           /\ \A b \in Actor \ {a} : req'[b] = req[b]
BY DEF End, TypeOK, Idle

\* What an arriving request does to the requests.
LEMMA BeginIs ==
    ASSUME TypeOK, NEW r \in Request,
           \/ \E d \in Db : BeginConnect(r, d)
           \/ \E s \in Secret : BeginIssue(r, s) \/ BeginOther(r, s)
    PROVE  /\ req'[r].pc \in {"verify", "store", "role"}
           /\ req'[r].pc # "role" <=> req'[r].kind = "connect"
           /\ req'[r].pc = "role" <=> req'[r].kind \in {"issue", "renew", "revoke"}
           /\ \A b \in Actor \ {r} : req'[b] = req[b]
           /\ pool' = pool
<1>1. r \in Actor
  BY DEF Actor
<1>2. ASSUME NEW h, Begin(r, h) PROVE req'[r] = h /\ \A b \in Actor \ {r} : req'[b] = req[b]
  BY <1>1, <1>2 DEF Begin, TypeOK
<1>3. ASSUME NEW d \in Db, NEW pc \in {"verify", "store"},
             Begin(r, [pc |-> pc, kind |-> "connect", db |-> d, secret |-> None])
      PROVE  /\ req'[r].pc = pc /\ req'[r].kind = "connect"
             /\ \A b \in Actor \ {r} : req'[b] = req[b]
  BY <1>2, <1>3
<1>4. ASSUME NEW s \in Secret, NEW kind \in {"issue", "renew", "revoke"}, Begin(r, Begun(kind, s))
      PROVE  /\ req'[r].pc = "role" /\ req'[r].kind = kind
             /\ \A b \in Actor \ {r} : req'[b] = req[b]
  BY <1>2, <1>4 DEF Begun
<1>5. pool' = pool
  BY DEF BeginConnect, BeginIssue, BeginOther, Begin, config
<1>6. QED
  BY <1>3, <1>4, <1>5 DEF BeginConnect, BeginIssue, BeginOther

\* A step of a request closes a pool only as the only holder of the lock:
\* readers and the writer of the RwLock exclude each other.
LEMMA StepLock ==
    ASSUME TypeOK, NoPoolClosedInUse, NEW a \in Actor, Step(a) \/ Break(a) \/ StorageFails(a)
    PROVE  NoPoolClosedInUse'
<1>1. ASSUME NEW pc \in Pc \ {"tx"}, NEW q, Go(a, pc, q), pool' = pool \/ Readers = {}
      PROVE  NoPoolClosedInUse'
  BY <1>1, GoIs DEF NoPoolClosedInUse, Readers
<1>2. ASSUME NEW q, End(a, q), pool' = pool \/ Readers = {}
      PROVE  NoPoolClosedInUse'
  BY <1>2, EndIs DEF NoPoolClosedInUse, Readers
<1>3. CASE Verify(a) \/ Store(a) \/ Reset(a) \/ Dial(a) \/ Install(a)
  BY <1>1, <1>2, <1>3 DEF Verify, Store, Reset, Dial, Install, MayWrite, Pc, Locking, config
<1>4. CASE Lookup(a)
  <2>1. CASE stored = None
    BY <1>2, <1>4, <2>1 DEF Lookup, config
  <2>2. CASE stored # None
    <3>1. /\ req'[a].pc = "dial" /\ pool' = pool
          /\ \A b \in Actor \ {a} : req'[b] = req[b]
      BY <1>4, <2>2 DEF Lookup, config, TypeOK, Handler
    <3>2. QED
      BY <3>1 DEF NoPoolClosedInUse, Readers
  <2>3. QED
    BY <2>1, <2>2
<1>5. CASE FindRole(a) \/ Check(a) \/ Missing(a) \/ Remove(a)
  BY <1>1, <1>2, <1>5 DEF FindRole, Check, Missing, Remove, MayWrite, Pc, Locking, config
<1>6. CASE Guard(a)
  BY <1>6 DEF Guard, config, TypeOK, NoPoolClosedInUse, Readers, Handler
<1>7. CASE Succeed(a) \/ Fail(a) \/ Break(a) \/ StorageFails(a)
  BY <1>2, <1>7 DEF Succeed, Fail, Break, StorageFails, config
<1>8. QED
  BY <1>3, <1>4, <1>5, <1>6, <1>7 DEF Step

\* Every step keeps the lock discipline; the invariant is inductive as it
\* stands.
LEMMA NextLock == TypeOK /\ NoPoolClosedInUse /\ [Next]_vars => NoPoolClosedInUse'
<1> SUFFICES ASSUME TypeOK, NoPoolClosedInUse, [Next]_vars PROVE NoPoolClosedInUse'
  OBVIOUS
<1>1. ASSUME NEW r \in Request,
             \/ \E d \in Db : BeginConnect(r, d)
             \/ \E s \in Secret : BeginIssue(r, s) \/ BeginOther(r, s)
      PROVE  NoPoolClosedInUse'
  BY <1>1, BeginIs DEF NoPoolClosedInUse, Readers, Actor
<1>2. CASE UNCHANGED <<req, pool>>
  BY <1>2 DEF NoPoolClosedInUse, Readers
<1>3. ASSUME NEW ro \in Role, CreateRole(ro) PROVE UNCHANGED <<req, pool>>
  BY <1>3 DEF CreateRole
<1>4. ASSUME NEW d \in Db, Outage(d) \/ Recovery(d) PROVE UNCHANGED <<req, pool>>
  BY <1>4 DEF Outage, Recovery, config
<1>5. CASE UNCHANGED vars
  BY <1>2, <1>5 DEF vars, config
<1>6. CASE Restart
  BY <1>6 DEF Restart, NoPoolClosedInUse, Readers, Idle
<1>7. QED
  BY <1>1, <1>2, <1>3, <1>4, <1>5, <1>6, StepLock DEF Next

\* The pool of a guard stays in place and open until the transaction of the
\* handler ended: reset_db and set_pool wait for the write lock.
THEOREM NoReaderLosesItsPool == Spec => []NoPoolClosedInUse
<1>1. Init => NoPoolClosedInUse
  BY DEF Init, NoPoolClosedInUse, Readers, Idle
<1>2. QED
  BY <1>1, TypeCorrect, NextLock, PTL DEF Spec

(***************************************************************************)
(* The pool and the stored connection                                      *)
(***************************************************************************)

Opening == {"reset", "lookup", "dial", "install"}

Opens(a) == req[a].kind \in {"connect", "mount"}

KindOK(a) ==
    /\ req[a].kind = "none" <=> req[a].pc = "idle"
    /\ req[a].kind = "mount" => a = Mounter /\ req[a].pc \in Opening
    /\ req[a].kind = "connect" => a # Mounter /\ req[a].pc \in {"verify", "store"} \cup Opening
    /\ req[a].kind \in {"issue", "renew", "revoke"} =>
          a # Mounter /\ req[a].pc \in {"role", "guard", "check", "missing", "remove", "tx"}

\* Nothing came between what a does.
Sole(a) == a \in {Mounter, alone} \/ ~ disturbed

Kinds == \A a \in Actor : KindOK(a)

Solitude ==
    /\ req[Mounter].pc # "idle" => Active = {Mounter}
    /\ alone # None => Active \subseteq {alone} /\ req[alone].kind \in {"none", "connect"}
    /\ ~ disturbed => \A a \in Active : Opens(a) => Active = {a}

InStepAt(a) ==
    /\ req[a].pc = "lookup" => pool = None
    /\ req[a].pc \in {"dial", "install"} => req[a].db = stored

InStep == \A a \in Actor : Sole(a) => InStepAt(a)

NothingRemoved ==
    ~ disturbed => \A a \in Actor :
        /\ req[a].pc \notin {"missing", "remove"}
        /\ req[a].pc = "check" => stored = None

Agree == (~ disturbed /\ \A a \in Actor : req[a].pc \notin Opening) => pool = stored

ConfigInv == TypeOK /\ Kinds /\ Solitude /\ InStep /\ NothingRemoved /\ Agree

\* The backend starts with no connection stored and no pool.
LEMMA ConfigInit == Init => ConfigInv
<1> SUFFICES ASSUME Init PROVE ConfigInv
  OBVIOUS
<1>1. \A a \in Actor : req[a] = Idle
  BY DEF Init
<1>2. Mounter \in Actor /\ alone = None /\ pool = None /\ stored = None
  BY DEF Init, Actor
<1>3. QED
  BY <1>1, <1>2, InitTypes
     DEF ConfigInv, Kinds, KindOK, Solitude, InStep, InStepAt, NothingRemoved, Agree,
         Active, Opens, Opening, Idle

\* While one that opens the pool is sole, nobody else is at work.
LEMMA SoleOpener ==
    ASSUME ConfigInv, NEW a \in Active, NEW b \in Actor, Sole(b),
           req[b].pc \in Opening \/ (Opens(b) /\ b \in Active)
    PROVE  a = b
<1>1. req[b].pc # "idle" /\ b \in Active
  BY DEF Active, Opening
<1>2. Opens(b)
  BY <1>1 DEF ConfigInv, Kinds, KindOK, Opens, Opening, TypeOK, Handler
<1>3. CASE b = Mounter
  BY <1>1, <1>3 DEF ConfigInv, Solitude
<1>4. CASE b = alone /\ b # Mounter
  <2>1. alone # None
    BY <1>4, PsqlAssumption DEF Actor
  <2>2. QED
    BY <1>4, <2>1 DEF ConfigInv, Solitude
<1>5. CASE ~ disturbed
  BY <1>1, <1>2, <1>5 DEF ConfigInv, Solitude
<1>6. QED
  BY <1>3, <1>4, <1>5 DEF Sole

\* What a step of a does to the handlers, whichever it is.
LEMMA StepKeeps ==
    ASSUME ConfigInv, NEW a \in Actor, Step(a) \/ Break(a) \/ StorageFails(a)
    PROVE  /\ a \in Active
           /\ \A b \in Actor \ {a} : req'[b] = req[b]
           /\ req'[a] = Idle \/ (req'[a].kind = req[a].kind /\ req'[a].secret = req[a].secret)
           /\ KindOK(a)'
           /\ alone' = alone
           /\ ~ disturbed' => ~ disturbed \/ (alone = a /\ req'[a] = Idle)
<1> DEFINE Goes(pc) == /\ req'[a].pc = pc /\ req'[a].kind = req[a].kind
                       /\ req'[a].secret = req[a].secret
                       /\ \A b \in Actor \ {a} : req'[b] = req[b]
           Ends == req'[a] = Idle /\ \A b \in Actor \ {a} : req'[b] = req[b]
           Others == /\ alone' = alone
                     /\ ~ disturbed' => ~ disturbed \/ (alone = a /\ Ends)
<1>0. TypeOK /\ KindOK(a) /\ req[a] \in Handler
  BY DEF ConfigInv, Kinds, TypeOK
<1>1. /\ \A pc, q : Go(a, pc, q) => Goes(pc)
      /\ \A q : End(a, q) => Ends
  BY <1>0, GoIs, EndIs
<1>2. ASSUME NEW pc \in Pc, Goes(pc), pc # "idle", req[a].pc # "idle",
             req[a].kind = "mount" => pc \in Opening,
             req[a].kind = "connect" => pc \in {"verify", "store"} \cup Opening,
             req[a].kind \in {"issue", "renew", "revoke"} => pc \in {"role", "guard", "check", "missing", "remove", "tx"}
      PROVE  KindOK(a)'
  BY <1>0, <1>2 DEF KindOK
<1>3. Ends => KindOK(a)'
  BY DEF KindOK, Idle
<1>4. CASE Verify(a)
  BY <1>0, <1>1, <1>2, <1>3, <1>4 DEF Verify, KindOK, Opening, Pc, Locking, Active, Handler, history
<1>5. CASE Store(a) \/ Reset(a)
  BY <1>0, <1>1, <1>2, <1>3, <1>5 DEF Store, Reset, KindOK, Opening, Pc, Locking, Active, Handler, history
<1>6. CASE Lookup(a)
  <2>1. stored # None => Goes("dial")
    BY <1>0, <1>6 DEF Lookup, TypeOK, Handler
  <2>2. stored = None => Ends
    BY <1>1, <1>6 DEF Lookup
  <2>3. KindOK(a)'
    BY <1>0, <1>2, <1>3, <1>6, <2>1, <2>2 DEF Lookup, KindOK, Opening, Pc, Locking, Handler
  <2>4. QED
    BY <1>6, <2>1, <2>2, <2>3 DEF Lookup, Active, history
<1>7. CASE Dial(a) \/ Install(a)
  BY <1>0, <1>1, <1>2, <1>3, <1>7 DEF Dial, Install, KindOK, Opening, Pc, Locking, Active, Handler, TypeOK
<1>8. CASE FindRole(a)
  BY <1>0, <1>1, <1>2, <1>3, <1>8 DEF FindRole, KindOK, Opening, Pc, Locking, Active, Handler, history
<1>9. CASE Guard(a)
  <2>1. \E pc \in {"check", "tx"} : Goes(pc)
    BY <1>0, <1>9 DEF Guard, TypeOK, Handler
  <2>2. KindOK(a)'
    BY <1>0, <1>2, <1>9, <2>1 DEF Guard, KindOK, Opening, Pc, Locking, Handler
  <2>3. QED
    BY <1>9, <2>1, <2>2 DEF Guard, Active, history
<1>10. CASE Check(a) \/ Missing(a)
  BY <1>0, <1>1, <1>2, <1>3, <1>10 DEF Check, Missing, KindOK, Opening, Pc, Locking, Active, Handler, history
<1>11. CASE Remove(a) \/ Succeed(a) \/ Fail(a) \/ Break(a) \/ StorageFails(a)
  BY <1>0, <1>1, <1>3, <1>11 DEF Remove, Succeed, Fail, Break, StorageFails, Active, history, TypeOK
<1>12. QED
  BY <1>4, <1>5, <1>6, <1>7, <1>8, <1>9, <1>10, <1>11 DEF Step

\* A request that replaces the connection is alone with it: the kinds of the
\* requests at each step, and who may be there at once.
LEMMA StepSolitude ==
    ASSUME ConfigInv, NEW a \in Actor, Step(a) \/ Break(a) \/ StorageFails(a)
    PROVE  Kinds' /\ Solitude'
<1>1. /\ a \in Active
      /\ \A b \in Actor \ {a} : req'[b] = req[b]
      /\ req'[a] = Idle \/ req'[a].kind = req[a].kind
      /\ KindOK(a)'
      /\ alone' = alone
      /\ ~ disturbed' => ~ disturbed \/ (alone = a /\ req'[a] = Idle)
  BY StepKeeps
<1>2. Kinds'
  BY <1>1 DEF ConfigInv, Kinds, KindOK
<1>3. Active' \subseteq Active
  BY <1>1 DEF Active
<1>4. \A b \in Actor : Opens(b)' => Opens(b)
  BY <1>1 DEF Opens, Idle
<1>5. (req[Mounter].pc # "idle" => Active = {Mounter})'
  <2>1. SUFFICES ASSUME req'[Mounter].pc # "idle" PROVE Active' = {Mounter}
    OBVIOUS
  <2>2. Mounter \in Active'
    BY <2>1 DEF Active, Actor
  <2>3. QED
    BY <1>3, <2>2 DEF Active, ConfigInv, Solitude
<1>6. (alone # None => Active \subseteq {alone} /\ req[alone].kind \in {"none", "connect"})'
  <2>1. alone # None => alone \in Actor
    BY DEF ConfigInv, TypeOK, Actor
  <2>2. alone # None => req'[alone].kind \in {"none", "connect"}
    BY <1>1, <2>1 DEF ConfigInv, Solitude, Idle
  <2>3. QED
    BY <1>1, <1>3, <2>2 DEF ConfigInv, Solitude
<1>7. (~ disturbed => \A b \in Active : Opens(b) => Active = {b})'
  <2>1. CASE ~ disturbed
    <3>1. SUFFICES ASSUME NEW b \in Active', Opens(b)' PROVE Active' = {b}
      OBVIOUS
    <3>2. b \in Active /\ Opens(b)
      BY <1>3, <1>4, <3>1 DEF Active
    <3>3. Active = {b}
      BY <2>1, <3>2 DEF ConfigInv, Solitude
    <3>4. QED
      BY <1>3, <3>1, <3>3
  <2>2. CASE alone = a /\ req'[a] = Idle
    <3>1. a # None
      BY PsqlAssumption DEF Actor
    <3>2. Active' = {}
      BY <1>1, <1>3, <2>2, <3>1 DEF ConfigInv, Solitude, Active, Idle
    <3>3. QED
      BY <3>2
  <2>3. QED
    BY <1>1, <2>1, <2>2
<1>8. QED
  BY <1>2, <1>5, <1>6, <1>7 DEF Solitude

RemovesNot(a) ==
    /\ req[a].pc \notin {"missing", "remove"}
    /\ req[a].pc = "check" => stored = None

\* The others: those that are sole open nothing.
LEMMA StepOthers ==
    ASSUME ConfigInv, NEW a \in Actor, Step(a) \/ Break(a) \/ StorageFails(a),
           NEW b \in Actor \ {a}
    PROVE  /\ Sole(b)' => req'[b].pc \notin Opening
           /\ ~ disturbed' => RemovesNot(b)'
<1>1. /\ a \in Active
      /\ req'[b] = req[b]
      /\ alone' = alone
      /\ ~ disturbed' => ~ disturbed \/ (alone = a /\ req'[a] = Idle)
  BY StepKeeps
<1>2. Sole(b) => req[b].pc \notin Opening
  BY <1>1, SoleOpener
<1>3. CASE alone = a
  <2>1. Active \subseteq {a}
    BY <1>3, PsqlAssumption DEF ConfigInv, Solitude, Actor
  <2>2. req[b].pc = "idle"
    BY <2>1 DEF Active
  <2>3. QED
    BY <1>1, <2>2 DEF Opening, RemovesNot
<1>4. CASE alone # a
  <2>1. Sole(b)' => Sole(b)
    BY <1>1, <1>4 DEF Sole
  <2>2. ASSUME ~ disturbed' PROVE RemovesNot(b)'
    <3>1. ~ disturbed /\ RemovesNot(b)
      BY <1>1, <1>4, <2>2 DEF ConfigInv, NothingRemoved, RemovesNot
    <3>2. CASE stored' = stored
      BY <1>1, <3>1, <3>2 DEF RemovesNot
    <3>3. CASE Store(a)
      <4>1. Opens(a)
        BY <3>3 DEF Store, ConfigInv, Kinds, KindOK, Opens, Opening, TypeOK, Handler
      <4>2. b \notin Active
        BY <1>1, <3>1, <4>1, SoleOpener DEF Sole
      <4>3. QED
        BY <1>1, <4>2 DEF Active, RemovesNot
    <3>4. CASE Remove(a)
      BY <3>1, <3>4 DEF Remove, ConfigInv, NothingRemoved
    <3>5. stored' = stored \/ Store(a) \/ Remove(a)
      BY DEF Step, Verify, Reset, Lookup, Dial, Install, FindRole, Guard, Check, Missing,
             Succeed, Fail, Break, StorageFails, config
    <3>6. QED
      BY <3>2, <3>3, <3>4, <3>5
  <2>3. QED
    BY <1>1, <1>2, <2>1, <2>2
<1>5. QED
  BY <1>3, <1>4

\* And a itself.
LEMMA StepSelf ==
    ASSUME ConfigInv, NEW a \in Actor, Step(a) \/ Break(a) \/ StorageFails(a)
    PROVE  /\ Sole(a)' => InStepAt(a)'
           /\ ~ disturbed' => RemovesNot(a)'
           /\ Agree'
<1> DEFINE Goal == /\ Sole(a)' => InStepAt(a)'
                   /\ ~ disturbed' => RemovesNot(a)'
                   /\ Agree'
           Goes(pc) == /\ req'[a].pc = pc /\ req'[a].db = req[a].db
                       /\ \A b \in Actor \ {a} : req'[b] = req[b]
           Ends == /\ req'[a].pc = "idle"
                   /\ \A b \in Actor \ {a} : req'[b] = req[b]
<1>0. TypeOK /\ a \in Active
  BY StepKeeps DEF ConfigInv
<1>1. /\ \A pc, q : Go(a, pc, q) => Goes(pc)
      /\ \A q : End(a, q) => Ends
  BY <1>0, GoIs, EndIs
<1>2. Agree /\ (Sole(a) => InStepAt(a)) /\ (~ disturbed => RemovesNot(a))
  BY DEF ConfigInv, InStep, NothingRemoved, RemovesNot
\* When nothing is disturbed and a does not open, nobody does.
<1>3. ASSUME ~ disturbed, ~ Opens(a) PROVE pool = stored /\ \A b \in Actor : req[b].pc \notin Opening
  <2>1. \A b \in Actor : req[b].pc \in Opening => a = b
    BY <1>0, <1>3, SoleOpener DEF Sole
  <2>2. req[a].pc \notin Opening
    BY <1>3 DEF ConfigInv, Kinds, KindOK, Opening, Opens, TypeOK, Handler
  <2>3. QED
    BY <1>2, <1>3, <2>1, <2>2 DEF Agree
<1>4. CASE Verify(a)
  BY <1>1, <1>2, <1>4 DEF Verify, Agree, InStepAt, RemovesNot, Opening, config, history
<1>5. CASE Store(a) \/ Reset(a)
  BY <1>1, <1>5 DEF Store, Reset, Agree, InStepAt, RemovesNot, Opening, config, history
<1>6. CASE Lookup(a)
  <2>1. CASE stored = None
    BY <1>1, <1>2, <1>6, <2>1 DEF Lookup, Agree, InStepAt, RemovesNot, Sole, config, history
  <2>2. CASE stored # None
    <3>1. req'[a].pc = "dial" /\ req'[a].db = stored
      BY <1>0, <1>6, <2>2 DEF Lookup, TypeOK, Handler
    <3>2. QED
      BY <1>6, <3>1 DEF Lookup, Agree, InStepAt, RemovesNot, Opening, config, history
  <2>3. QED
    BY <2>1, <2>2
<1>7. CASE Dial(a)
  BY <1>1, <1>2, <1>7 DEF Dial, Agree, InStepAt, RemovesNot, Opening, Sole, config
<1>8. CASE Install(a)
  BY <1>1, <1>2, <1>8 DEF Install, Agree, InStepAt, RemovesNot, Opening, Sole
<1>9. CASE FindRole(a) \/ Check(a) \/ Missing(a) \/ Remove(a) \/ Guard(a) \/ Succeed(a) \/ Fail(a)
           \/ Break(a) 
  <2>1. ~ Opens(a)
    BY <1>9 DEF ConfigInv, Kinds, KindOK, Opens, Opening, FindRole, Check, Missing, Remove, Guard,
                Succeed, Fail, Break
  <2>2. disturbed' = disturbed
    BY <1>9 DEF FindRole, Check, Missing, Remove, Guard, Succeed, Fail, Break, history
  <2>3. CASE FindRole(a) \/ Succeed(a) \/ Fail(a) \/ Break(a)
    BY <1>1, <1>3, <2>1, <2>2, <2>3
       DEF FindRole, Succeed, Fail, Break, Agree, InStepAt, RemovesNot, config
  <2>4. CASE Check(a)
    BY <1>1, <1>2, <1>3, <2>1, <2>2, <2>4 DEF Check, Agree, InStepAt, RemovesNot, config
  <2>5. CASE Missing(a) \/ Remove(a)
    BY <1>1, <1>2, <2>2, <2>5 DEF Missing, Remove, Agree, InStepAt, RemovesNot
  <2>6. CASE Guard(a)
    <3>1. req'[a].pc = (IF pool = None THEN "check" ELSE "tx")
      BY <1>0, <2>6 DEF Guard, TypeOK, Handler
    <3>2. QED
      BY <1>3, <2>1, <2>2, <2>6, <3>1 DEF Guard, Agree, InStepAt, RemovesNot, config
  <2>7. QED
    BY <1>9, <2>3, <2>4, <2>5, <2>6
<1>10. CASE StorageFails(a)
  <2>1. Ends /\ UNCHANGED <<stored, pool, alone>>
    BY <1>1, <1>10 DEF StorageFails, config
  <2>2. ~ disturbed' => ~ disturbed /\ req[a].pc \notin Opening
    BY <1>10 DEF StorageFails, Opening
  <2>3. QED
    BY <1>2, <2>1, <2>2 DEF Agree, InStepAt, RemovesNot
<1>11. QED
  BY <1>4, <1>5, <1>6, <1>7, <1>8, <1>9, <1>10 DEF Step

\* A step of a request keeps the configuration invariant.
LEMMA StepConfig ==
    ASSUME ConfigInv, NEW a \in Actor, Step(a) \/ Break(a) \/ StorageFails(a)
    PROVE  ConfigInv'
<1>1. TypeOK'
  BY StepTypes DEF ConfigInv, Next
<1>2. Kinds' /\ Solitude'
  BY StepSolitude
<1>3. Agree' /\ \A b \in Actor : (Sole(b)' => InStepAt(b)') /\ (~ disturbed' => RemovesNot(b)')
  BY StepSelf, StepOthers DEF InStepAt, Opening
<1>4. InStep' /\ NothingRemoved'
  BY <1>3 DEF InStep, NothingRemoved, RemovesNot
<1>5. QED
  BY <1>1, <1>2, <1>3, <1>4 DEF ConfigInv

\* An arriving request keeps the configuration invariant.
LEMMA BeginConfig ==
    ASSUME ConfigInv, NEW r \in Request,
           \/ \E d \in Db : BeginConnect(r, d)
           \/ \E s \in Secret : BeginIssue(r, s) \/ BeginOther(r, s)
    PROVE  ConfigInv'
<1>0. TypeOK /\ r \in Actor /\ r # Mounter /\ r # None
  BY PsqlAssumption DEF ConfigInv, Actor
<1>1. /\ req'[r].pc \in {"verify", "store", "role"}
      /\ req'[r].pc # "role" <=> req'[r].kind = "connect"
      /\ req'[r].pc = "role" <=> req'[r].kind \in {"issue", "renew", "revoke"}
      /\ \A b \in Actor \ {r} : req'[b] = req[b]
  BY <1>0, BeginIs
<1>2. PICK h : Begin(r, h)
  BY DEF BeginConnect, BeginIssue, BeginOther
<1>3. req'[r] = h /\ req[r] = Idle /\ req[Mounter] = Idle /\ UNCHANGED <<stored, pool>>
  BY <1>0, <1>2 DEF Begin, TypeOK, config
<1>4. /\ alone' = IF Active = {} /\ h.kind = "connect" THEN r ELSE None
      /\ disturbed' = \/ disturbed
                      \/ h.kind = "connect" /\ Active # {}
                      \/ \E a \in Active : req[a].kind = "connect"
  BY <1>2 DEF Begin
<1>5. TypeOK'
  BY <1>0, ArrivalTypes
<1>6. /\ req[r].pc = "idle" /\ req[Mounter].pc = "idle" /\ req'[Mounter].pc = "idle"
      /\ r \notin Active /\ Active' = Active \cup {r}
  BY <1>0, <1>1, <1>3 DEF Active, Idle, Actor
<1>7. KindOK(r)'
  BY <1>0, <1>1, <1>5 DEF KindOK, TypeOK, Handler
<1>8. Kinds'
  BY <1>1, <1>7 DEF ConfigInv, Kinds, KindOK
<1>9. \A b \in Active : Opens(b) => req[b].kind = "connect"
  BY <1>6 DEF ConfigInv, Kinds, KindOK, Opens, Active
<1>10. (alone # None => Active \subseteq {alone} /\ req[alone].kind \in {"none", "connect"})'
  BY <1>3, <1>4, <1>6
<1>11. (~ disturbed => \A a \in Active : Opens(a) => Active = {a})'
  <2> SUFFICES ASSUME ~ disturbed', NEW a \in Active', Opens(a)' PROVE Active' = {a}
    OBVIOUS
  <2>1. CASE a = r
    BY <1>1, <1>3, <1>4, <1>6, <1>8, <2>1 DEF Opens, Kinds, KindOK
  <2>2. CASE a # r
    BY <1>1, <1>4, <1>6, <1>9, <2>2 DEF Opens, Active
  <2>3. QED
    BY <2>1, <2>2
<1>12. Solitude'
  BY <1>6, <1>10, <1>11 DEF Solitude
<1>13. \A b \in Actor : req'[b].pc \in Opening => req[b].pc = req'[b].pc /\ b # r
  BY <1>1 DEF Opening
<1>14. InStep'
  <2> SUFFICES ASSUME NEW b \in Actor, Sole(b)' PROVE InStepAt(b)'
    BY DEF InStep
  <2>1. CASE b = r \/ Sole(b)
    BY <1>1, <1>3, <2>1 DEF ConfigInv, InStep, InStepAt
  <2>2. CASE b # r /\ ~ Sole(b)
    <3>1. b = alone' /\ alone' = None
      BY <1>4, <2>2 DEF Sole
    <3>2. b \in Request
      BY <2>2 DEF Sole, Actor
    <3>3. QED
      BY <3>1, <3>2, PsqlAssumption
  <2>3. QED
    BY <2>1, <2>2
<1>15. NothingRemoved'
  BY <1>1, <1>3, <1>4 DEF ConfigInv, NothingRemoved
<1>16. Agree'
  BY <1>1, <1>3, <1>4, <1>6 DEF ConfigInv, Agree, Opening
<1>17. QED
  BY <1>5, <1>8, <1>12, <1>14, <1>15, <1>16 DEF ConfigInv

\* A restart forgets the pool and keeps the stored connection.
LEMMA RestartConfig == ASSUME ConfigInv, Restart PROVE ConfigInv'
<1>1. TypeOK'
  BY CommitStepTypes DEF ConfigInv
<1>2. Mounter \in Actor
  BY DEF Actor
<1>3. /\ req'[Mounter].pc = "reset" /\ req'[Mounter].kind = "mount"
      /\ \A a \in Actor \ {Mounter} : req'[a] = Idle
      /\ alone' = None
  BY <1>2 DEF Restart, Idle
<1>4. Active' = {Mounter}
  BY <1>2, <1>3 DEF Active, Idle
<1>5. QED
  BY <1>1, <1>2, <1>3, <1>4
     DEF ConfigInv, Kinds, KindOK, Solitude, InStep, InStepAt, NothingRemoved, Agree, Opens, Opening, Idle

\* Every step keeps the configuration invariant.
LEMMA NextConfig == ConfigInv /\ [Next]_vars => ConfigInv'
<1> SUFFICES ASSUME ConfigInv, [Next]_vars PROVE ConfigInv'
  OBVIOUS
<1>1. CASE UNCHANGED <<req, stored, pool, alone, disturbed>>
  <2>1. TypeOK'
    BY StepTypes DEF ConfigInv
  <2>2. QED
    BY <1>1, <2>1 DEF ConfigInv, Kinds, KindOK, Solitude, InStep, InStepAt, NothingRemoved, Agree,
                      Active, Opens, Sole
<1>2. ASSUME NEW ro \in Role, CreateRole(ro) PROVE UNCHANGED <<req, stored, pool, alone, disturbed>>
  BY <1>2 DEF CreateRole, history
<1>3. ASSUME NEW d \in Db, Outage(d) \/ Recovery(d)
      PROVE  UNCHANGED <<req, stored, pool, alone, disturbed>>
  BY <1>3 DEF Outage, Recovery, config, history
<1>4. CASE UNCHANGED vars
  BY <1>1, <1>4 DEF vars, config, history
<1>5. QED
  BY <1>1, <1>2, <1>3, <1>4, BeginConfig, StepConfig, RestartConfig DEF Next

\* After path_connection_write or a mount that no other request and no failure
\* came between, the pool leads where the stored connection says.
THEOREM AgreementProved == Spec => []AgreeWhenUndisturbed
<1>1. ConfigInv => AgreeWhenUndisturbed
  BY DEF ConfigInv, Agree, AgreeWhenUndisturbed, Active, Opening
<1>2. QED
  BY <1>1, ConfigInit, NextConfig, PTL DEF Spec

(***************************************************************************)
(* The secrets                                                             *)
(***************************************************************************)

\* Requests at work on a secret of their own, or on one that was answered.
WorkOK ==
    /\ \A a \in Actor : req[a].kind \in {"renew", "revoke"} => req[a].secret \in leased
    /\ \A a \in Actor : req[a].kind = "issue" => req[a].secret \in requested \ created
    /\ \A a, b \in Actor :
          req[a].kind = "issue" /\ req[b].kind = "issue" /\ req[a].secret = req[b].secret => a = b

UsersOK ==
    /\ \A d \in Db : users[d] \subseteq created
    /\ \A d, e \in Db, s \in Secret : s \in users[d] /\ s \in users[e] => d = e

SecretInv ==
    /\ leased \subseteq created
    /\ created \subseteq requested
    /\ WorkOK
    /\ UsersOK

Born(C) == {s \in Secret : \E a \in C : req[a].kind = "issue" /\ req[a].secret = s}
Dead(C) == {s \in Secret : \E a \in C : req[a].kind = "revoke" /\ req[a].secret = s /\ s \in users[req[a].db]}

\* What a commit creates and drops: secrets requested and not created before,
\* and secrets created before.
LEMMA BornAndDead ==
    ASSUME TypeOK, SecretInv, NEW C \in SUBSET Readers
    PROVE  /\ Born(C) \in SUBSET Secret /\ Dead(C) \in SUBSET Secret
           /\ Born(C) \cap created = {}
           /\ Dead(C) \subseteq created
           /\ Born(C) \subseteq requested
           /\ \A s \in Secret, d \in Db :
                 /\ s \in Touched(C, "issue", d) => s \in Born(C)
                 /\ s \in Touched(C, "revoke", d) => s \in leased /\ (s \in users[d] => s \in Dead(C))
<1>1. \A a \in C : a \in Actor /\ req[a].db \in Db
  BY DEF Readers, TypeOK
<1>2. \A a \in C : /\ req[a].kind = "issue" => req[a].secret \in requested \ created
                   /\ req[a].kind = "revoke" => req[a].secret \in leased
  BY <1>1 DEF SecretInv, WorkOK
<1>3. QED
  BY <1>1, <1>2 DEF Born, Dead, Touched, SecretInv

\* After a commit, a secret is a user of some database if it was born, of none
\* if it died, and as before otherwise.
LEMMA CommitDoes ==
    ASSUME TypeOK, SecretInv, NEW C \in SUBSET Readers, Commit(C)
    PROVE  /\ created' = created \cup Born(C)
           /\ UsersOK'
           /\ \A s \in Secret :
                 /\ s \in Born(C) => \E d \in Db : s \in users'[d]
                 /\ s \in Dead(C) => (\E d \in Db : s \in users[d]) /\ ~ \E d \in Db : s \in users'[d]
                 /\ s \notin Born(C) \cup Dead(C) => \A d \in Db : s \in users'[d] <=> s \in users[d]
<1>1. \A a \in C : a \in Actor /\ req[a].db \in Db
  BY DEF Readers, TypeOK
<1>2. /\ Born(C) \cap created = {}
      /\ Dead(C) \subseteq created
      /\ \A s \in Secret, d \in Db :
            /\ s \in Touched(C, "issue", d) => s \in Born(C)
            /\ s \in Touched(C, "revoke", d) => s \in leased /\ (s \in users[d] => s \in Dead(C))
  BY BornAndDead
<1>3. \A s \in Born(C) : \E d \in Db : s \in Touched(C, "issue", d)
  BY <1>1 DEF Born, Touched
<1>4. created' = created \cup Born(C)
  <2>1. \A s : s \in UNION {Touched(C, "issue", d) : d \in Db} <=> s \in Born(C)
    BY <1>2, <1>3 DEF Touched, Born
  <2>2. QED
    BY <2>1 DEF Commit
<1>5. \A s \in Secret, d \in Db :
        s \in users'[d] <=> (s \in users[d] \/ s \in Touched(C, "issue", d)) /\ s \notin Touched(C, "revoke", d)
  BY DEF Commit
<1>6. \A s \in Born(C), d \in Db : s \notin users[d] /\ s \notin Touched(C, "revoke", d) /\ s \in Secret
  BY <1>2 DEF SecretInv, UsersOK, Born
<1>7. \A s \in Born(C), d, e \in Db : s \in Touched(C, "issue", d) /\ s \in Touched(C, "issue", e) => d = e
  BY <1>1 DEF Touched, SecretInv, WorkOK
<1>8. users' \in [Db -> SUBSET Secret]
  BY CommitTypes DEF Readers
<1>9. UsersOK'
  <2>1. \A d \in Db : users'[d] \subseteq created'
    BY <1>2, <1>4, <1>5, <1>8 DEF SecretInv, UsersOK
  <2>2. ASSUME NEW d \in Db, NEW e \in Db, NEW s \in Secret, s \in users'[d], s \in users'[e]
        PROVE  d = e
    <3>1. CASE s \in Born(C)
      BY <1>5, <1>6, <1>7, <2>2, <3>1
    <3>2. CASE s \notin Born(C)
      BY <1>2, <1>5, <2>2, <3>2 DEF SecretInv, UsersOK
    <3>3. QED
      BY <3>1, <3>2
  <2>3. QED
    BY <2>1, <2>2 DEF UsersOK
<1>10. ASSUME NEW s \in Secret, s \in Born(C) PROVE \E d \in Db : s \in users'[d]
  BY <1>3, <1>5, <1>6, <1>10
<1>11. ASSUME NEW s \in Secret, s \in Dead(C)
       PROVE  (\E d \in Db : s \in users[d]) /\ ~ \E d \in Db : s \in users'[d]
  <2>1. PICK a \in C : req[a].kind = "revoke" /\ req[a].secret = s /\ s \in users[req[a].db]
    BY <1>11 DEF Dead
  <2>2. s \in Touched(C, "revoke", req[a].db) /\ req[a].db \in Db
    BY <1>1, <2>1 DEF Touched
  <2>3. s \notin Born(C)
    BY <1>2, <1>11
  <2>4. \A d \in Db : s \in users'[d] => d = req[a].db
    BY <1>2, <1>5, <2>1, <2>2, <2>3 DEF SecretInv, UsersOK
  <2>5. QED
    BY <1>5, <2>1, <2>2, <2>4
<1>12. ASSUME NEW s \in Secret, s \notin Born(C) \cup Dead(C), NEW d \in Db
       PROVE  s \in users'[d] <=> s \in users[d]
  BY <1>2, <1>5, <1>12
<1>13. QED
  BY <1>4, <1>9, <1>10, <1>11, <1>12

\* A commit is a step of the abstract specification.
LEMMA CommitChanges ==
    ASSUME TypeOK, SecretInv, NEW C \in SUBSET Readers, Commit(C)
    PROVE  Promise!Change(Born(C), Dead(C))
<1>1. /\ Born(C) \cap created = {}
      /\ Dead(C) \subseteq created
  BY BornAndDead
<1>2. /\ created' = created \cup Born(C)
      /\ \A s \in Secret :
            /\ s \in Born(C) => \E d \in Db : s \in users'[d]
            /\ s \in Dead(C) => (\E d \in Db : s \in users[d]) /\ ~ \E d \in Db : s \in users'[d]
            /\ s \notin Born(C) \cup Dead(C) => \A d \in Db : s \in users'[d] <=> s \in users[d]
  BY CommitDoes
<1>3. ASSUME NEW s \in Secret, s \in Born(C) PROVE SecretIs[s] = "none" /\ SecretIs'[s] = "live"
  BY <1>1, <1>2, <1>3 DEF SecretIs, SecretInv, UsersOK
<1>4. ASSUME NEW s \in Secret, s \in Dead(C) PROVE SecretIs[s] = "live" /\ SecretIs'[s] = "gone"
  BY <1>1, <1>2, <1>4 DEF SecretIs
<1>5. ASSUME NEW s \in Secret, s \notin Born(C) \cup Dead(C) PROVE SecretIs'[s] = SecretIs[s]
  BY <1>2, <1>5 DEF SecretIs
<1>6. /\ \A s \in Born(C) : s \in Secret
      /\ \A s \in Dead(C) : s \in Secret
  BY DEF Born, Dead
<1>7. SecretIs' = [s \in Secret |-> IF s \in Born(C) THEN "live"
                                    ELSE IF s \in Dead(C) THEN "gone" ELSE SecretIs[s]]
  <2>1. SecretIs' = [s \in Secret |-> SecretIs'[s]]
    BY DEF SecretIs
  <2> HIDE DEF SecretIs
  <2>2. QED
    BY <1>3, <1>4, <1>5, <1>1, <2>1
<1>8. QED
  BY <1>3, <1>4, <1>6, <1>7 DEF Promise!Change

\* A request that ends takes nothing from the others.
LEMMA EndWork ==
    ASSUME TypeOK, WorkOK, NEW a \in Actor, NEW q, End(a, q), requested' = requested, leased \subseteq leased',
           created' = created \/ (req[a].kind = "issue" /\ created' = created \cup {req[a].secret})
    PROVE  WorkOK'
<1>1. req'[a].kind = "none" /\ \A b \in Actor \ {a} : req'[b] = req[b]
  BY EndIs
<1>2. QED
  BY <1>1 DEF WorkOK

\* A step of a request is a step of the abstract specification, or none.
LEMMA StepSecrets ==
    ASSUME ConfigInv, SecretInv, NEW a \in Actor, Step(a) \/ Break(a) \/ StorageFails(a)
    PROVE  SecretInv' /\ [Promise!Next]_Promise!vars
<1>1. /\ \A b \in Actor \ {a} : req'[b] = req[b]
      /\ req'[a] = Idle \/ (req'[a].kind = req[a].kind /\ req'[a].secret = req[a].secret)
  BY StepKeeps
<1>2. TypeOK
  BY DEF ConfigInv
<1>3. CASE UNCHANGED <<users, requested, created, leased, confirmed>>
  <2>1. SecretInv'
    BY <1>1, <1>3 DEF SecretInv, WorkOK, UsersOK, Idle
  <2>2. UNCHANGED <<SecretIs, ReallyConfirmed>>
    BY <1>3 DEF SecretIs, ReallyConfirmed
  <2>3. QED
    BY <2>1, <2>2 DEF Promise!vars
<1>4. ASSUME NEW C \in SUBSET {a}, req[a].pc = "tx", Commit(C)
      PROVE  /\ C \in SUBSET Readers
             /\ created' = created \/ (req[a].kind = "issue" /\ created' = created \cup {req[a].secret})
             /\ UsersOK'
             /\ Born(C) \in SUBSET Secret /\ Dead(C) \in SUBSET Secret
             /\ Promise!Change(Born(C), Dead(C))
             /\ created \subseteq created' /\ created' \subseteq requested
             /\ C = {a} /\ req[a].kind = "issue" => req[a].secret \in created'
  <2>1. C \in SUBSET Readers
    BY <1>4 DEF Readers
  <2>2. /\ created' = created \cup Born(C) /\ UsersOK' /\ Promise!Change(Born(C), Dead(C))
        /\ Born(C) \in SUBSET Secret /\ Dead(C) \in SUBSET Secret /\ Born(C) \subseteq requested
    BY <1>2, <1>4, <2>1, CommitDoes, CommitChanges, BornAndDead
  <2>3. Born(C) = {} \/ (req[a].kind = "issue" /\ Born(C) = {req[a].secret})
    BY DEF Born
  <2>4. C = {a} /\ req[a].kind = "issue" => req[a].secret \in Born(C)
    BY <1>2 DEF Born, TypeOK
  <2>5. QED
    BY <2>1, <2>2, <2>3, <2>4 DEF SecretInv
<1>5. CASE Break(a)
  <2>1. PICK C \in SUBSET {a} : Commit(C)
    BY <1>5 DEF Break
  <2>2. req[a].pc = "tx" /\ End(a, queue) /\ UNCHANGED <<requested, leased, confirmed>>
    BY <1>5 DEF Break
  <2>3. WorkOK'
    BY <1>2, <1>4, <2>1, <2>2, EndWork DEF SecretInv
  <2>4. UNCHANGED ReallyConfirmed
    BY <2>2 DEF ReallyConfirmed
  <2>5. Promise!Next
    BY <1>4, <2>1, <2>2, <2>4 DEF Promise!Next
  <2>6. QED
    BY <1>4, <2>1, <2>2, <2>3, <2>5 DEF SecretInv
<1>6. CASE Succeed(a)
  <2>1. /\ req[a].pc = "tx" /\ End(a, queue) /\ Commit({a}) /\ ~ Refused(a) /\ requested' = requested
        /\ leased' = IF req[a].kind = "issue" THEN leased \cup {req[a].secret} ELSE leased
        /\ confirmed' = IF req[a].kind = "revoke" THEN confirmed \cup {req[a].secret} ELSE confirmed
    BY <1>6 DEF Succeed
  <2>2. WorkOK'
    BY <1>2, <1>4, <2>1, EndWork DEF SecretInv
  <2>3. SecretInv'
    BY <1>4, <2>1, <2>2 DEF SecretInv
  <2>4. CASE req[a].kind = "revoke" /\ RoleOf[req[a].secret] \notin Lenient
    <3>1. req[a].secret \in Secret /\ req[a].secret \in users[req[a].db]
      BY <1>2, <2>1, <2>4 DEF Refused, TypeOK
    <3>2. Born({a}) = {} /\ Dead({a}) = {req[a].secret}
      BY <2>4, <3>1 DEF Born, Dead
    <3>3. ReallyConfirmed' = ReallyConfirmed \cup {req[a].secret}
      BY <2>1, <2>4 DEF ReallyConfirmed
    <3>4. Promise!Confirm(req[a].secret)
      BY <1>4, <2>1, <3>2, <3>3 DEF Promise!Confirm
    <3>5. QED
      BY <2>3, <3>1, <3>4 DEF Promise!Next
  <2>5. CASE ~ (req[a].kind = "revoke" /\ RoleOf[req[a].secret] \notin Lenient)
    <3>1. ReallyConfirmed' = ReallyConfirmed
      BY <2>1, <2>5 DEF ReallyConfirmed
    <3>2. QED
      BY <1>4, <2>1, <2>3, <3>1 DEF Promise!Next
  <2>6. QED
    BY <2>4, <2>5
<1>7. UNCHANGED <<users, requested, created, leased, confirmed>> \/ Break(a) \/ Succeed(a)
  BY DEF Step, Verify, Store, Reset, Lookup, Dial, Install, FindRole, Guard, Check, Missing, Remove,
         Fail, StorageFails, history
<1>8. QED
  BY <1>3, <1>5, <1>6, <1>7

\* An arriving request is no step of the abstract specification.
LEMMA BeginSecrets ==
    ASSUME ConfigInv, SecretInv, NEW r \in Request,
           \/ \E d \in Db : BeginConnect(r, d)
           \/ \E s \in Secret : BeginIssue(r, s) \/ BeginOther(r, s)
    PROVE  SecretInv' /\ UNCHANGED Promise!vars
<1>0. TypeOK /\ r \in Actor
  BY DEF ConfigInv, Actor
<1>1. ASSUME NEW h, Begin(r, h) PROVE req'[r] = h /\ \A b \in Actor \ {r} : req'[b] = req[b]
  BY <1>0, <1>1 DEF Begin, TypeOK
<1>2. UNCHANGED <<users, created, leased, confirmed>>
  BY DEF BeginConnect, BeginIssue, BeginOther, Begin
<1>3. UNCHANGED Promise!vars
  BY <1>2 DEF Promise!vars, SecretIs, ReallyConfirmed
<1>4. ASSUME NEW d \in Db, BeginConnect(r, d) PROVE WorkOK' /\ requested' = requested
  <2>1. PICK pc \in {"verify", "store"} : Begin(r, [pc |-> pc, kind |-> "connect", db |-> d, secret |-> None])
    BY <1>4 DEF BeginConnect
  <2>2. req'[r].kind = "connect" /\ \A b \in Actor \ {r} : req'[b] = req[b]
    BY <1>1, <2>1
  <2>3. requested' = requested
    BY <1>4 DEF BeginConnect
  <2>4. QED
    BY <1>2, <2>2, <2>3 DEF SecretInv, WorkOK
<1>5. ASSUME NEW s \in Secret, BeginIssue(r, s) PROVE WorkOK' /\ requested \subseteq requested'
  <2>1. s \notin requested /\ requested' = requested \cup {s} /\ Begin(r, Begun("issue", s))
    BY <1>5 DEF BeginIssue
  <2>2. req'[r].kind = "issue" /\ req'[r].secret = s /\ \A b \in Actor \ {r} : req'[b] = req[b]
    BY <1>1, <2>1 DEF Begun
  <2>3. s \notin created
    BY <2>1 DEF SecretInv
  <2>4. QED
    BY <1>2, <2>1, <2>2, <2>3 DEF SecretInv, WorkOK
<1>6. ASSUME NEW s \in Secret, BeginOther(r, s) PROVE WorkOK' /\ requested' = requested
  <2>1. PICK kind \in {"renew", "revoke"} : Begin(r, Begun(kind, s))
    BY <1>6 DEF BeginOther
  <2>2. req'[r].kind = kind /\ req'[r].secret = s /\ \A b \in Actor \ {r} : req'[b] = req[b]
    BY <1>1, <2>1 DEF Begun
  <2>3. s \in leased /\ requested' = requested
    BY <1>6 DEF BeginOther
  <2>4. QED
    BY <1>2, <2>2, <2>3 DEF SecretInv, WorkOK
<1>7. WorkOK' /\ requested \subseteq requested'
  BY <1>4, <1>5, <1>6
<1>8. QED
  BY <1>2, <1>3, <1>7 DEF SecretInv, UsersOK

\* A restart is a step of the abstract specification or none: transactions the
\* database had received may still commit.
LEMMA RestartSecrets ==
    ASSUME ConfigInv, SecretInv, Restart
    PROVE  SecretInv' /\ [Promise!Next]_Promise!vars
<1>1. PICK C \in SUBSET {a \in Readers : ~ Refused(a)} : Commit(C)
  BY DEF Restart
<1>2. C \in SUBSET Readers /\ TypeOK
  BY DEF ConfigInv
<1>3. /\ created' = created \cup Born(C) /\ UsersOK' /\ Promise!Change(Born(C), Dead(C))
      /\ Born(C) \in SUBSET Secret /\ Dead(C) \in SUBSET Secret /\ Born(C) \subseteq requested
  BY <1>1, <1>2, CommitDoes, CommitChanges, BornAndDead
<1>4. UNCHANGED <<requested, leased, confirmed>>
  BY DEF Restart
<1>5. \A a \in Actor : req'[a].kind \in {"none", "mount"}
  BY DEF Restart, Idle
<1>6. SecretInv'
  BY <1>3, <1>4, <1>5 DEF SecretInv, WorkOK
<1>7. UNCHANGED ReallyConfirmed
  BY <1>4 DEF ReallyConfirmed
<1>8. QED
  BY <1>3, <1>6, <1>7 DEF Promise!Next

\* Every step is a step of the abstract specification, or none.
LEMMA NextSecrets ==
    ConfigInv /\ SecretInv /\ [Next]_vars => SecretInv' /\ [Promise!Next]_Promise!vars
<1> SUFFICES ASSUME ConfigInv, SecretInv, [Next]_vars
             PROVE  SecretInv' /\ [Promise!Next]_Promise!vars
  OBVIOUS
<1>1. CASE UNCHANGED <<req, users, requested, created, leased, confirmed>>
  BY <1>1 DEF SecretInv, WorkOK, UsersOK, Promise!vars, SecretIs, ReallyConfirmed
<1>2. ASSUME NEW ro \in Role, CreateRole(ro)
      PROVE  UNCHANGED <<req, users, requested, created, leased, confirmed>>
  BY <1>2 DEF CreateRole, history
<1>3. ASSUME NEW d \in Db, Outage(d) \/ Recovery(d)
      PROVE  UNCHANGED <<req, users, requested, created, leased, confirmed>>
  BY <1>3 DEF Outage, Recovery, history
<1>4. CASE UNCHANGED vars
  BY <1>1, <1>4 DEF vars, history
<1>5. QED
  BY <1>1, <1>2, <1>3, <1>4, BeginSecrets, StepSecrets, RestartSecrets DEF Next

\* The initial states map to initial states.
LEMMA SecretInit == Init => SecretInv /\ Promise!Init
<1> SUFFICES ASSUME Init PROVE SecretInv /\ Promise!Init
  OBVIOUS
<1>1. /\ \A d \in Db : users[d] = {}
      /\ created = {} /\ leased = {} /\ confirmed = {}
      /\ \A a \in Actor : req[a].kind = "none"
  BY DEF Init, Idle
<1>2. SecretIs = [s \in Secret |-> "none"] /\ ReallyConfirmed = {}
  BY <1>1 DEF SecretIs, ReallyConfirmed
<1>3. QED
  BY <1>1, <1>2 DEF SecretInv, WorkOK, UsersOK, Promise!Init, Init

\* The Postgres backend implements LeasedSecrets: whatever becomes of the
\* connection, the transactions and the process meanwhile, a secret comes into
\* being once, and secret_creds_revoke is answered with success only when its
\* user is gone, for good (unless the revocation_sql is lenient).
THEOREM PromiseKept == Spec => ImplementsPromise
BY ConfigInit, NextConfig, SecretInit, NextSecrets, PTL DEF Spec, ImplementsPromise, Promise!Spec

(***************************************************************************)
(* The queue for the lock                                                  *)
(***************************************************************************)

Waiting == {a \in Actor : req[a].pc \in Locking}

\* The queue q holds each of W once, and nobody else.
InLine(q, W) ==
    /\ \A i \in 1 .. Len(q) : q[i] \in W
    /\ \A a \in W : \E i \in 1 .. Len(q) : q[i] = a
    /\ \A i, j \in 1 .. Len(q) : q[i] = q[j] => i = j

QueueOK == InLine(queue, Waiting)

\* Whoever does not wait yet can queue.
LEMMA AppendLine ==
    ASSUME NEW q \in Seq(Actor), NEW W, InLine(q, W), NEW a \in Actor, a \notin W
    PROVE  InLine(Append(q, a), W \cup {a})
<1>1. /\ Len(Append(q, a)) = Len(q) + 1 /\ Len(q) \in Nat
      /\ Append(q, a)[Len(q) + 1] = a
      /\ \A i \in 1 .. Len(q) : Append(q, a)[i] = q[i]
  OBVIOUS
<1>2. \A i \in 1 .. Len(q) : q[i] # a
  BY DEF InLine
<1>3. QED
  BY <1>1, <1>2 DEF InLine

\* The first of the queue leaves it.
LEMMA TailLine ==
    ASSUME NEW q \in Seq(Actor), NEW W, InLine(q, W), q # <<>>
    PROVE  InLine(Tail(q), W \ {Head(q)})
<1>1. /\ Len(q) \in Nat /\ Len(q) > 0 /\ Len(Tail(q)) = Len(q) - 1
      /\ Head(q) = q[1]
      /\ \A i \in 1 .. Len(Tail(q)) : Tail(q)[i] = q[i + 1]
  OBVIOUS
<1>2. \A i \in 1 .. Len(Tail(q)) : i + 1 \in 1 .. Len(q) /\ i + 1 # 1
  BY <1>1
<1>3. \A i \in 1 .. Len(Tail(q)) : Tail(q)[i] \in W \ {Head(q)}
  BY <1>1, <1>2 DEF InLine
<1>4. ASSUME NEW a \in W \ {Head(q)} PROVE \E i \in 1 .. Len(Tail(q)) : Tail(q)[i] = a
  <2>1. PICK i \in 1 .. Len(q) : q[i] = a
    BY DEF InLine
  <2>2. i - 1 \in 1 .. Len(Tail(q)) /\ (i - 1) + 1 = i
    BY <1>1, <1>4, <2>1
  <2>3. QED
    BY <1>1, <2>1, <2>2
<1>5. ASSUME NEW i \in 1 .. Len(Tail(q)), NEW j \in 1 .. Len(Tail(q)), Tail(q)[i] = Tail(q)[j]
      PROVE  i = j
  <2>1. i + 1 = j + 1
    BY <1>1, <1>2, <1>5 DEF InLine
  <2>2. QED
    BY <2>1
<1>6. QED
  BY <1>3, <1>4, <1>5 DEF InLine

\* What is left of the queue when a has its turn, or never was in it
Left(a, q) == q \in Seq(Actor) /\ InLine(q, Waiting \ {a})

\* A request that is not waiting has no place in the queue.
LEMMA LeftOutside ==
    ASSUME TypeOK, QueueOK, NEW a \in Actor, req[a].pc \notin Locking
    PROVE  Left(a, queue)
<1>1. Waiting \ {a} = Waiting
  BY DEF Waiting
<1>2. QED
  BY <1>1 DEF Left, QueueOK, TypeOK

\* A request whose turn it is leaves the others in the queue.
LEMMA LeftAtHead ==
    ASSUME TypeOK, QueueOK, NEW a \in Actor, AtHead(a)
    PROVE  Left(a, Tail(queue))
<1>1. queue \in Seq(Actor) /\ queue # <<>> /\ Head(queue) = a
  BY DEF TypeOK, AtHead
<1>2. QED
  BY <1>1, TailLine, TailType DEF Left, QueueOK

\* A request that goes on queues exactly if it waits from then on.
LEMMA GoQueue ==
    ASSUME TypeOK, NEW a \in Actor, NEW pc, NEW q, Left(a, q), Go(a, pc, q)
    PROVE  QueueOK'
<1>1. req'[a].pc = pc /\ \A b \in Actor \ {a} : req'[b] = req[b]
  BY GoIs
<1>2. CASE pc \in Locking
  <2>1. Waiting' = (Waiting \ {a}) \cup {a} /\ queue' = Append(q, a)
    BY <1>1, <1>2 DEF Waiting, Go
  <2>2. QED
    BY <2>1, AppendLine DEF Left, QueueOK
<1>3. CASE pc \notin Locking
  <2>1. Waiting' = Waiting \ {a} /\ queue' = q
    BY <1>1, <1>3 DEF Waiting, Go
  <2>2. QED
    BY <2>1 DEF Left, QueueOK
<1>4. QED
  BY <1>2, <1>3

\* A request that does not wait from then on has left the queue.
LEMMA LeaveQueue ==
    ASSUME TypeOK, NEW a \in Actor, Left(a, queue'), req'[a].pc \notin Locking,
           \A b \in Actor \ {a} : req'[b] = req[b]
    PROVE  QueueOK'
<1>1. Waiting' = Waiting \ {a}
  BY DEF Waiting
<1>2. QED
  BY <1>1 DEF Left, QueueOK

\* The same of one that ends.
LEMMA EndQueue ==
    ASSUME TypeOK, NEW a \in Actor, NEW q, Left(a, q), End(a, q)
    PROVE  QueueOK'
<1>1. req'[a].pc \notin Locking /\ \A b \in Actor \ {a} : req'[b] = req[b]
  BY EndIs DEF Locking
<1>2. queue' = q
  BY DEF End
<1>3. QED
  BY <1>1, <1>2, LeaveQueue

\* Every step of a handler leaves the queue in order.
LEMMA StepQueue ==
    ASSUME TypeOK, QueueOK, NEW a \in Actor, Step(a) \/ Break(a) \/ StorageFails(a)
    PROVE  QueueOK'
<1>1. CASE Verify(a) \/ Store(a) \/ Dial(a) \/ FindRole(a) \/ Check(a) \/ Remove(a)
           \/ Succeed(a) \/ Fail(a) \/ Break(a) \/ StorageFails(a)
  <2>1. Left(a, queue)
    BY <1>1, LeftOutside DEF Verify, Store, Dial, FindRole, Check, Remove, Succeed, Fail, Break,
       StorageFails, Locking
  <2>2. (\E pc \in Pc : Go(a, pc, queue)) \/ End(a, queue)
    BY <1>1 DEF Verify, Store, Dial, FindRole, Check, Remove, Succeed, Fail, Break, StorageFails,
       Pc, Locking
  <2>3. QED
    BY <2>1, <2>2, GoQueue, EndQueue
<1>2. CASE Reset(a) \/ Install(a) \/ Missing(a)
  <2>1. Left(a, Tail(queue))
    BY <1>2, LeftAtHead DEF Reset, Install, Missing, MayWrite
  <2>2. (\E pc \in Pc : Go(a, pc, Tail(queue))) \/ End(a, Tail(queue))
    BY <1>2 DEF Reset, Install, Missing, Pc, Locking
  <2>3. QED
    BY <2>1, <2>2, GoQueue, EndQueue
<1>3. CASE Guard(a)
  <2>1. Left(a, queue')
    BY <1>3, LeftAtHead DEF Guard
  <2>2. req'[a].pc \in {"check", "tx"} /\ \A b \in Actor \ {a} : req'[b] = req[b]
    BY <1>3 DEF Guard, TypeOK, Handler
  <2>3. QED
    BY <2>1, <2>2, LeaveQueue DEF Locking
<1>4. CASE Lookup(a)
  <2>1. Left(a, queue)
    BY <1>4, LeftOutside DEF Lookup, Locking
  <2>2. CASE stored = None
    BY <1>4, <2>1, <2>2, EndQueue DEF Lookup
  <2>3. CASE stored # None
    <3>1. queue' = queue /\ req'[a].pc = "dial" /\ \A b \in Actor \ {a} : req'[b] = req[b]
      BY <1>4, <2>3 DEF Lookup, TypeOK, Handler
    <3>2. QED
      BY <2>1, <3>1, LeaveQueue DEF Locking
  <2>4. QED
    BY <2>2, <2>3
<1>5. QED
  BY <1>1, <1>2, <1>3, <1>4 DEF Step

\* The queue is in order from the start, and after every step.
LEMMA NextQueue ==
    /\ Init => QueueOK
    /\ TypeOK /\ QueueOK /\ [Next]_vars => QueueOK'
<1>1. ASSUME Init PROVE QueueOK
  <2>1. queue = <<>> /\ Waiting = {}
    BY <1>1 DEF Init, Waiting, Idle, Locking
  <2>2. QED
    BY <2>1 DEF QueueOK, InLine
<1>2. ASSUME TypeOK, QueueOK, [Next]_vars PROVE QueueOK'
  <2>1. ASSUME UNCHANGED <<queue, req>> PROVE QueueOK'
    BY <1>2, <2>1 DEF QueueOK, InLine, Waiting
  <2>2. ASSUME NEW r \in Request,
               \/ \E d \in Db : BeginConnect(r, d)
               \/ \E s \in Secret : BeginIssue(r, s) \/ BeginOther(r, s)
        PROVE  QueueOK'
    <3>1. r \in Actor
      BY DEF Actor
    <3>2. req[r] = Idle /\ queue' = queue
      BY <2>2 DEF BeginConnect, BeginIssue, BeginOther, Begin
    <3>3. Left(r, queue')
      BY <1>2, <3>1, <3>2, LeftOutside DEF Idle, Locking
    <3>4. req'[r].pc \notin Locking /\ \A b \in Actor \ {r} : req'[b] = req[b]
      BY <1>2, <2>2, BeginIs DEF Locking
    <3>5. QED
      BY <1>2, <3>1, <3>3, <3>4, LeaveQueue
  <2>3. CASE Restart
    <3>1. \A a \in Actor : req'[a].pc = IF a = Mounter THEN "reset" ELSE "idle"
      BY <2>3 DEF Restart, Idle
    <3>2. Waiting' = {Mounter} /\ queue' = <<Mounter>>
      BY <2>3, <3>1 DEF Waiting, Restart, Actor, Locking
    <3>3. QED
      BY <3>2 DEF QueueOK, InLine
  <2>4. QED
    BY <1>2, <2>1, <2>2, <2>3, StepQueue DEF Next, CreateRole, Outage, Recovery, vars, config, history
<1>3. QED
  BY <1>1, <1>2

\* Whatever the requests, outages and crashes: the handlers of a mount of the
\* Postgres backend never wait for the lock of the pool all at once, and
\* whoever is first in its queue has its turn as soon as no guard is held.
THEOREM NoDeadlock == Spec => []SomeoneCanGoOn
<1>1. TypeOK /\ QueueOK => SomeoneCanGoOn
  <2> SUFFICES ASSUME TypeOK, QueueOK, NEW b \in Active, \A a \in Active : req[a].pc \in Locking
               PROVE  \E a \in Active : IF req[a].pc = "guard" THEN AtHead(a) ELSE MayWrite(a)
    BY DEF SomeoneCanGoOn
  <2>1. b \in Waiting
    BY DEF Waiting, Active
  <2>2. queue \in Seq(Actor) /\ queue # <<>>
    BY <2>1 DEF QueueOK, InLine, TypeOK
  <2>3. Head(queue) \in Waiting
    BY <2>2 DEF QueueOK, InLine
  <2>4. Head(queue) \in Active /\ AtHead(Head(queue))
    BY <2>2, <2>3 DEF Waiting, Active, AtHead, Locking
  <2>5. Readers = {}
    BY DEF Readers, Active, Locking
  <2>6. QED
    BY <2>4, <2>5 DEF MayWrite
<1>2. QED
  BY <1>1, NextQueue, TypeCorrect, PTL DEF Spec

-----------------------------------------------------------------------------
(***************************************************************************)
(* Userpass: the inductive invariant                                       *)
(***************************************************************************)

Users == [Mount -> [User -> Password \cup {None}]]

Alias == [mount : Mount, user : User, entity : Entity]

UserHandler ==
    [pc : {"idle", "attach", "create", "remove", "login", "update", "alias", "token", "write"},
     mount : Mount \cup {None}, user : User \cup {None}, password : Password \cup {None},
     new : Password \cup {None}, entity : Entity \cup {None}, todo : SUBSET User,
     held : SUBSET Password, owners : SUBSET Entity]

\* What a handler has according to where it is
HandlerHas(h) ==
    /\ h.pc \notin {"idle", "attach"} => h.mount \in Mount /\ h.user \in User
    /\ h.pc \in {"login", "update", "alias", "token", "write"} <=> h.password # None
    /\ h.pc \in {"login", "alias", "token"} => h.new = None
    /\ h.pc \in {"create", "update", "write"} => h.new \in Password
    /\ h.pc = "attach" => h.entity \in Entity

\* Handler h, with m at the path and the mounts in u used: past the check its
\* password was its user's; past the look-up its entity was an owner, unless
\* the mount has changed, and a mount that was used does not come back.
HandlerOK(h, m, u) ==
    /\ h \in UserHandler
    /\ HandlerHas(h)
    /\ h.mount \in u \cup {None}
    /\ h.pc \in {"alias", "token", "write"} => h.password \in h.held
    /\ h.pc = "token" => h.entity \in h.owners \/ h.mount # m

\* The same of a handler before its step is noted: the password may be the
\* user's only now.
Ready(h, m, u, us) ==
    /\ h \in UserHandler
    /\ HandlerHas(h)
    /\ h.mount \in u \cup {None}
    /\ h.pc \in {"alias", "token", "write"} =>
          h.password \in h.held \/ us[h.mount][h.user] = h.password
    /\ h.pc = "token" => h.entity \in h.owners \/ h.mount # m

\* The owners of h include those that its user is an alias of now.
OwnersSeen(h, as) ==
    h.pc \in {"login", "alias", "token"} => OwnersIn(as, h.mount, h.user) \subseteq h.owners

Inv ==
    /\ mount \in used \cup {None}
    /\ used \subseteq Mount
    /\ tables \subseteq Mount
    /\ accounts \in Users
    /\ aliases \subseteq Alias
    /\ \A a \in aliases : a.mount = mount
    /\ handlers \in [Request -> UserHandler]
    /\ \A r \in Request : HandlerOK(handlers[r], mount, used) /\ OwnersSeen(handlers[r], aliases)

-----------------------------------------------------------------------------
(***************************************************************************)
(* Lemmas                                                                  *)
(***************************************************************************)

\* What Userpass assumes
LEMMA NoneApart ==
    None \notin Mount \cup Password \cup Entity
BY UserpassAssumption

SeenOne(h, us, as) ==
    IF h.password = None THEN h
    ELSE [h EXCEPT
            !.held = @ \cup ({us[h.mount][h.user]} \ {None}),
            !.owners = IF h.new = None THEN @ \cup OwnersIn(as, h.mount, h.user) ELSE @]

\* The owners are entities.
LEMMA OwnersType ==
    ASSUME NEW as \in SUBSET Alias, NEW m, NEW u
    PROVE  OwnersIn(as, m, u) \subseteq Entity
BY DEF OwnersIn, Alias

\* Noting what has been seen changes nothing else about a request, and keeps
\* what is known of it.
LEMMA SeenOneOK ==
    ASSUME NEW m, NEW u, NEW us \in Users, NEW as \in SUBSET Alias, NEW h, Ready(h, m, u, us)
    PROVE  /\ HandlerOK(SeenOne(h, us, as), m, u)
           /\ OwnersSeen(SeenOne(h, us, as), as)
<1>1. h \in UserHandler /\ HandlerHas(h)
  BY DEF Ready
<1>2. CASE h.password = None
  <2>1. SeenOne(h, us, as) = h
    BY <1>2 DEF SeenOne
  <2>2. OwnersSeen(h, as)
    BY <1>1, <1>2 DEF OwnersSeen, HandlerHas
  <2>3. HandlerOK(h, m, u)
    BY <1>1, <1>2 DEF HandlerOK, HandlerHas, Ready
  <2>4. QED
    BY <2>1, <2>2, <2>3
<1>3. CASE h.password # None
  <2>1. h.mount \in Mount /\ h.user \in User
    BY <1>1, <1>3 DEF HandlerHas
  <2>2. us[h.mount][h.user] \in Password \cup {None}
    BY <2>1 DEF Users
  <2> DEFINE now == {us[h.mount][h.user]} \ {None}
             own == OwnersIn(as, h.mount, h.user)
             owners == IF h.new = None THEN h.owners \cup own ELSE h.owners
             held == h.held \cup now
             g == [h EXCEPT !.held = held, !.owners = owners]
  <2>3. now \subseteq Password /\ own \subseteq Entity
    BY <2>2, OwnersType
  <2>4. h.held \in SUBSET Password /\ h.owners \in SUBSET Entity
    BY <1>1 DEF UserHandler
  <2>5. held \in SUBSET Password /\ owners \in SUBSET Entity
    BY <2>3, <2>4
  <2>6. SeenOne(h, us, as) = g
    BY <1>3, <1>1 DEF SeenOne, UserHandler
  <2>7. h.held \subseteq held /\ h.owners \subseteq owners
    OBVIOUS
  <2>8. h.new = None => own \subseteq owners
    OBVIOUS
  <2> HIDE DEF now, own, owners, held
  <2>9. /\ g \in UserHandler
        /\ g.pc = h.pc /\ g.mount = h.mount /\ g.user = h.user
        /\ g.password = h.password /\ g.new = h.new /\ g.entity = h.entity
        /\ g.held = held /\ g.owners = owners
    BY <1>1, <2>5 DEF UserHandler
  <2> HIDE DEF g
  <2>10. HandlerOK(g, m, u)
    BY <2>9, <2>7, <1>3 DEF HandlerOK, HandlerHas, Ready, held, now
  <2>11. OwnersSeen(g, as)
    BY <2>9, <2>8, <1>1 DEF OwnersSeen, HandlerHas, own
  <2>12. QED
    BY <2>6, <2>10, <2>11
<1>4. QED
  BY <1>2, <1>3

\* The same for all requests
LEMMA SeenOK ==
    ASSUME NEW m, NEW u, NEW us \in Users, NEW as \in SUBSET Alias,
           NEW f, \A r \in Request : Ready(f[r], m, u, us)
    PROVE  /\ Seen(f, us, as) \in [Request -> UserHandler]
           /\ \A r \in Request : HandlerOK(Seen(f, us, as)[r], m, u) /\ OwnersSeen(Seen(f, us, as)[r], as)
<1>1. Seen(f, us, as) = [r \in Request |-> SeenOne(f[r], us, as)]
  BY DEF Seen, SeenOne
<1>2. \A r \in Request : HandlerOK(SeenOne(f[r], us, as), m, u) /\ OwnersSeen(SeenOne(f[r], us, as), as)
  BY SeenOneOK
<1>3. \A r \in Request : SeenOne(f[r], us, as) \in UserHandler
  BY <1>2 DEF HandlerOK
<1>4. QED
  BY <1>1, <1>2, <1>3

\* A request in order is in order with any accounts.
LEMMA OKReady ==
    ASSUME NEW m, NEW u, NEW us, NEW h, HandlerOK(h, m, u)
    PROVE  Ready(h, m, u, us)
BY DEF HandlerOK, Ready

\* What is known of a request stays true when the mount at the path is gone
\* or a new one, and more were used.
LEMMA MountChange ==
    ASSUME NEW m, NEW u, NEW n, NEW v, NEW h, HandlerOK(h, m, u),
           n = m \/ n \notin u, n = None => n \notin Mount, u \subseteq v
    PROVE  HandlerOK(h, n, v)
BY NoneApart DEF HandlerOK, HandlerHas

\* An idle request needs nothing.
LEMMA IdleOK ==
    ASSUME NEW m, NEW u
    PROVE  HandlerOK(AtRest, m, u)
BY NoneApart DEF HandlerOK, HandlerHas, UserHandler, AtRest

\* The requests after a step, with the users and aliases it leaves
ReqOK ==
    /\ handlers' \in [Request -> UserHandler]
    /\ \A r \in Request : HandlerOK(handlers'[r], mount', used') /\ OwnersSeen(handlers'[r], aliases')

\* A step of one request keeps the other requests in order.
LEMMA SetReqOK ==
    ASSUME Inv, NEW r \in Request, NEW h, Ready(h, mount, used, accounts'), SetReq(r, h),
           accounts' \in Users, aliases' \in SUBSET Alias, UNCHANGED <<mount, used>>
    PROVE  ReqOK
<1> DEFINE f == [handlers EXCEPT ![r] = h]
<1>1. \A q \in Request : Ready(f[q], mount, used, accounts')
  BY OKReady DEF Inv
<1>2. handlers' = Seen(f, accounts', aliases')
  BY DEF SetReq
<1> HIDE DEF f
<1>3. QED
  BY <1>1, <1>2, SeenOK DEF ReqOK

\* A step of no request keeps all requests in order.
LEMMA NoReqOK ==
    ASSUME Inv, NoReq, accounts' \in Users, aliases' \in SUBSET Alias,
           mount' = mount \/ mount' \notin used, mount' = None => mount' \notin Mount,
           used \subseteq used'
    PROVE  ReqOK
<1>1. \A q \in Request : Ready(handlers[q], mount', used', accounts')
  BY MountChange, OKReady DEF Inv
<1>2. handlers' = Seen(handlers, accounts', aliases')
  BY DEF NoReq
<1>3. QED
  BY <1>1, <1>2, SeenOK DEF ReqOK

\* What a request changes when the mount stays
LEMMA SameMount ==
    ASSUME Inv, ReqOK, UNCHANGED <<mount, tables, used>>, accounts' \in Users,
           aliases' \in SUBSET Alias, \A a \in aliases' : a.mount = mount
    PROVE  Inv'
BY DEF Inv, ReqOK

\* A handler that ends
LEMMA DoneOK ==
    ASSUME Inv, NEW r \in Request, Done(r), UNCHANGED <<mount, tables, used>>,
           accounts' \in Users, aliases' \in SUBSET Alias, \A a \in aliases' : a.mount = mount
    PROVE  Inv'
<1>1. ReqOK
  BY SetReqOK, IdleOK, OKReady DEF Done
<1>2. QED
  BY <1>1, SameMount

\* A handler that goes on as h, and writes nothing
LEMMA GoOnOK ==
    ASSUME Inv, NEW r \in Request, NEW h, Ready(h, mount, used, accounts), SetReq(r, h),
           UNCHANGED <<mount, tables, used, accounts, aliases>>
    PROVE  Inv'
<1>1. accounts' \in Users /\ aliases' \in SUBSET Alias /\ \A a \in aliases' : a.mount = mount
  BY DEF Inv
<1>2. ReqOK
  BY <1>1, SetReqOK
<1>3. QED
  BY <1>1, <1>2, SameMount

\* Replacing a password, or removing a user
LEMMA SetUserType ==
    ASSUME accounts \in Users, NEW h, NEW p \in Password \cup {None}, SetUser(h, p)
    PROVE  accounts' \in Users
BY DEF SetUser, Users

-----------------------------------------------------------------------------
(***************************************************************************)
(* The invariant is inductive                                              *)
(***************************************************************************)

\* The userpass backend starts with the invariant: no account, no request.
LEMMA InitInv ==
    UserpassInit => Inv
<1> SUFFICES ASSUME UserpassInit PROVE Inv
  OBVIOUS
<1>1. /\ mount = None /\ tables = {} /\ used = {} /\ aliases = {}
      /\ accounts = [m \in Mount |-> [u \in User |-> None]] /\ handlers = [r \in Request |-> AtRest]
  BY DEF UserpassInit
<1>2. HandlerOK(AtRest, mount, used)
  BY IdleOK
<1>3. AtRest \in UserHandler
  BY <1>2 DEF HandlerOK
<1>4. OwnersSeen(AtRest, aliases)
  BY DEF OwnersSeen, AtRest
<1>5. handlers \in [Request -> UserHandler]
  BY <1>1, <1>3
<1>6. accounts \in Users
  BY <1>1 DEF Users
<1>7. \A r \in Request : HandlerOK(handlers[r], mount, used) /\ OwnersSeen(handlers[r], aliases)
  BY <1>1, <1>2, <1>4
<1>8. QED
  BY <1>1, <1>5, <1>6, <1>7 DEF Inv

\* The mount is created, disabled and its tables dropped.
LEMMA MountSteps ==
    ASSUME Inv
    PROVE  /\ \A m \in Mount : CreateMount(m) \/ DropTable(m) => Inv'
           /\ Disable => Inv'
<1>1. ASSUME NEW m \in Mount, CreateMount(m) PROVE Inv'
  <2>1. accounts' \in Users /\ aliases' \in SUBSET Alias /\ used' \subseteq Mount /\ tables' \subseteq Mount
    BY <1>1 DEF CreateMount, Inv
  <2>2. m # None
    BY NoneApart
  <2>3. ReqOK
    BY <1>1, <2>1, <2>2, NoReqOK DEF CreateMount
  <2>4. aliases = {}
    BY <1>1, NoneApart DEF CreateMount, Inv, Alias
  <2>5. QED
    BY <1>1, <2>1, <2>3, <2>4 DEF CreateMount, Inv, ReqOK
<1>2. ASSUME NEW m \in Mount, DropTable(m) PROVE Inv'
  <2>1. accounts' \in Users /\ aliases' \in SUBSET Alias /\ tables' \subseteq Mount
    BY <1>2 DEF DropTable, Inv, Users
  <2>2. ReqOK
    BY <1>2, <2>1, NoReqOK, NoneApart DEF DropTable, Inv
  <2>3. QED
    BY <1>2, <2>1, <2>2 DEF DropTable, Inv, ReqOK
<1>3. ASSUME Disable PROVE Inv'
  <2>1. accounts' \in Users /\ aliases' \in SUBSET Alias
    BY <1>3 DEF Disable, Inv
  <2>2. None \notin used
    BY NoneApart DEF Inv
  <2>3. ReqOK
    BY <1>3, <2>1, <2>2, NoReqOK, NoneApart DEF Disable
  <2>4. QED
    BY <1>3, <2>1, <2>3 DEF Disable, Inv, ReqOK
<1>4. QED
  BY <1>1, <1>2, <1>3

\* Aliases are attached and removed.
LEMMA AliasSteps ==
    ASSUME Inv
    PROVE  /\ \A e \in Entity, u \in User : RemoveAlias(u, e) => Inv'
           /\ \A r \in Request, e \in Entity, todo \in SUBSET User : BeginAttach(r, e, todo) => Inv'
           /\ \A r \in Request : AttachAlias(r) => Inv'
<1>1. ASSUME NEW e \in Entity, NEW u \in User, RemoveAlias(u, e) PROVE Inv'
  <2>1. accounts' \in Users /\ aliases' \in SUBSET Alias /\ \A a \in aliases' : a.mount = mount
    BY <1>1 DEF RemoveAlias, Inv
  <2>2. mount' = mount /\ (mount = None => mount \notin Mount) /\ used' = used
    BY <1>1, NoneApart DEF RemoveAlias
  <2>3. ReqOK
    BY <1>1, <2>1, <2>2, NoReqOK DEF RemoveAlias
  <2>4. QED
    BY <1>1, <2>1, <2>3, SameMount DEF RemoveAlias
<1>2. ASSUME NEW r \in Request, NEW e \in Entity, NEW todo \in SUBSET User, BeginAttach(r, e, todo)
      PROVE  Inv'
  <2> DEFINE h == [AtRest EXCEPT !.pc = "attach", !.entity = e, !.todo = todo]
  <2>1. HandlerOK(h, mount, used)
    BY NoneApart DEF HandlerOK, HandlerHas, UserHandler, AtRest
  <2>2. QED
    BY <1>2, <2>1, OKReady, GoOnOK DEF BeginAttach
<1>3. ASSUME NEW r \in Request, AttachAlias(r) PROVE Inv'
  <2>1. PICK u \in handlers[r].todo :
           /\ \/ MayAttach(handlers[r].entity)
                 /\ aliases' = aliases \cup {[mount |-> mount, user |-> u, entity |-> handlers[r].entity]}
              \/ UNCHANGED aliases
           /\ UNCHANGED <<mount, tables, used, accounts>>
           /\ IF handlers[r].todo = {u} THEN Done(r) ELSE SetReq(r, [handlers[r] EXCEPT !.todo = @ \ {u}])
    BY <1>3 DEF AttachAlias
  <2>2. HandlerOK(handlers[r], mount, used) /\ handlers[r].pc = "attach"
    BY <1>3 DEF AttachAlias, Inv
  <2>3. u \in User /\ handlers[r].entity \in Entity
    BY <2>2 DEF HandlerOK, HandlerHas, UserHandler
  <2>4. accounts' \in Users /\ aliases' \in SUBSET Alias /\ \A a \in aliases' : a.mount = mount
    <3>1. CASE UNCHANGED aliases
      BY <2>1, <3>1 DEF Inv
    <3>2. CASE /\ MayAttach(handlers[r].entity)
               /\ aliases' = aliases \cup {[mount |-> mount, user |-> u, entity |-> handlers[r].entity]}
      <4>1. mount \in Mount
        BY <3>2 DEF MayAttach, Inv
      <4>2. [mount |-> mount, user |-> u, entity |-> handlers[r].entity] \in Alias
        BY <4>1, <2>3 DEF Alias
      <4>3. QED
        BY <2>1, <3>2, <4>2 DEF Inv
    <3>3. QED
      BY <2>1, <3>1, <3>2
  <2>5. CASE Done(r)
    BY <2>1, <2>4, <2>5, DoneOK
  <2>6. CASE SetReq(r, [handlers[r] EXCEPT !.todo = @ \ {u}])
    <3> DEFINE h == [handlers[r] EXCEPT !.todo = @ \ {u}]
    <3>1. HandlerOK(h, mount, used)
      BY <2>2 DEF HandlerOK, HandlerHas, UserHandler
    <3>2. ReqOK
      BY <2>1, <2>4, <2>6, <3>1, OKReady, SetReqOK
    <3>3. QED
      BY <2>1, <2>4, <3>2, SameMount
  <2>7. QED
    BY <2>1, <2>5, <2>6
<1>4. QED
  BY <1>1, <1>2, <1>3

\* A request arrives.
LEMMA BeginSteps ==
    ASSUME Inv, NEW r \in Request, NEW u \in User,
           NEW pc, NEW p \in Password \cup {None}, NEW new \in Password \cup {None},
           \/ pc = "create" /\ p = None /\ new # None
           \/ pc = "remove" /\ p = None /\ new = None
           \/ pc = "login" /\ p # None /\ new = None
           \/ pc = "update" /\ p # None /\ new # None,
           Route(r, pc, u, p, new)
    PROVE  Inv'
<1> DEFINE h == [AtRest EXCEPT !.pc = pc, !.mount = mount, !.user = u, !.password = p, !.new = new]
<1>1. mount \in Mount /\ mount \in used
  BY DEF Route, Inv
<1>2. HandlerOK(h, mount, used)
  BY <1>1, NoneApart DEF HandlerOK, HandlerHas, UserHandler, AtRest
<1>3. QED
  BY <1>2, OKReady, GoOnOK DEF Route

\* Past the check the password is the user's: it is noted in the same step.
LEMMA CheckSteps ==
    ASSUME Inv, NEW r \in Request, CheckPassword(r)
    PROVE  Inv'
<1> DEFINE h == [handlers[r] EXCEPT !.pc = IF @ = "login" THEN "alias" ELSE "write"]
<1>1. /\ HandlerOK(handlers[r], mount, used)
      /\ handlers[r].pc \in {"login", "update"}
      /\ accounts[handlers[r].mount][handlers[r].user] = handlers[r].password
  BY DEF CheckPassword, Inv
<1>2. Ready(h, mount, used, accounts)
  BY <1>1 DEF Ready, HandlerOK, HandlerHas, UserHandler
<1>3. SetReq(r, h) /\ UNCHANGED <<mount, tables, used, accounts, aliases>>
  BY DEF CheckPassword
<1>4. QED
  BY <1>2, <1>3, GoOnOK

\* The steps of a request at the backend and in the layer that creates the
\* token.
LEMMA BackendSteps ==
    ASSUME Inv, NEW r \in Request
    PROVE  /\ CreateUser(r) \/ RemoveUser(r) \/ UpdatePassword(r) => Inv'
           /\ LookupAlias(r) => Inv'
           /\ GiveToken(r) \/ Refuse(r) => Inv'
<1>1. HandlerOK(handlers[r], mount, used) /\ OwnersSeen(handlers[r], aliases)
  BY DEF Inv
<1>2. aliases \in SUBSET Alias /\ \A a \in aliases : a.mount = mount
  BY DEF Inv
<1>3. ASSUME CreateUser(r) \/ UpdatePassword(r) \/ RemoveUser(r) PROVE Inv'
  <2>1. handlers[r].new \in Password \cup {None}
    BY <1>1 DEF HandlerOK, UserHandler
  <2>2. accounts' \in Users
    BY <1>3, <2>1, SetUserType DEF CreateUser, UpdatePassword, RemoveUser, Inv
  <2>3. Done(r) /\ UNCHANGED <<mount, tables, used, aliases>>
    BY <1>3 DEF CreateUser, UpdatePassword, RemoveUser
  <2>4. QED
    BY <1>2, <2>2, <2>3, DoneOK
<1>4. ASSUME LookupAlias(r) PROVE Inv'
  <2>1. PICK a \in aliases :
           a.user = handlers[r].user /\ SetReq(r, [handlers[r] EXCEPT !.pc = "token", !.entity = a.entity])
    BY <1>4 DEF LookupAlias
  <2> DEFINE h == [handlers[r] EXCEPT !.pc = "token", !.entity = a.entity]
  <2>2. handlers[r].pc = "alias" /\ UNCHANGED <<mount, tables, used, accounts, aliases>>
    BY <1>4 DEF LookupAlias
  <2>3. a.mount = mount /\ a.entity \in Entity
    BY <1>2, <2>1 DEF Alias
  <2>4. handlers[r].mount = mount => a.entity \in handlers[r].owners
    BY <1>1, <2>1, <2>2, <2>3 DEF OwnersSeen, OwnersIn
  <2>5. HandlerOK(h, mount, used)
    BY <1>1, <2>2, <2>3, <2>4 DEF HandlerOK, HandlerHas, UserHandler
  <2>6. QED
    BY <2>1, <2>2, <2>5, OKReady, GoOnOK
<1>5. ASSUME GiveToken(r) \/ Refuse(r) PROVE Inv'
  <2>1. Done(r) /\ UNCHANGED <<mount, tables, used, accounts, aliases>>
    BY <1>5 DEF GiveToken, Refuse
  <2>2. accounts' \in Users
    BY <2>1 DEF Inv
  <2>3. QED
    BY <1>2, <2>1, <2>2, DoneOK
<1>6. QED
  BY <1>3, <1>4, <1>5

\* Every step keeps the invariant.
LEMMA StepInv ==
    Inv /\ [UserpassNext]_userpassVars => Inv'
<1> SUFFICES ASSUME Inv, [UserpassNext]_userpassVars PROVE Inv'
  OBVIOUS
<1>1. CASE UNCHANGED userpassVars
  BY <1>1 DEF userpassVars, Inv
<1>2. ASSUME NEW m \in Mount, CreateMount(m) \/ DropTable(m) PROVE Inv'
  BY <1>2, MountSteps
<1>3. CASE Disable
  BY <1>3, MountSteps
<1>4. ASSUME NEW e \in Entity, NEW u \in User, RemoveAlias(u, e) PROVE Inv'
  BY <1>4, AliasSteps
<1>5. ASSUME NEW r \in Request, NEW e \in Entity, NEW todo \in (SUBSET User) \ {{}}, BeginAttach(r, e, todo)
      PROVE  Inv'
  BY <1>5, AliasSteps
<1>6. ASSUME NEW r \in Request, AttachAlias(r) PROVE Inv'
  BY <1>6, AliasSteps
<1>7. ASSUME NEW r \in Request, NEW u \in User, BeginRemove(r, u) PROVE Inv'
  BY <1>7, BeginSteps DEF BeginRemove
<1>8. ASSUME NEW r \in Request, NEW u \in User, NEW p \in Password, BeginCreate(r, u, p) PROVE Inv'
  BY <1>8, BeginSteps, NoneApart DEF BeginCreate
<1>9. ASSUME NEW r \in Request, NEW u \in User, NEW p \in Password, BeginLogin(r, u, p) PROVE Inv'
  BY <1>9, BeginSteps, NoneApart DEF BeginLogin
<1>10. ASSUME NEW r \in Request, NEW u \in User, NEW p \in Password, NEW new \in Password,
              BeginUpdate(r, u, p, new)
       PROVE  Inv'
  BY <1>10, BeginSteps, NoneApart DEF BeginUpdate
<1>11. ASSUME NEW r \in Request, CheckPassword(r) PROVE Inv'
  BY <1>11, CheckSteps
<1>12. ASSUME NEW r \in Request,
              \/ CreateUser(r) \/ RemoveUser(r) \/ UpdatePassword(r) \/ LookupAlias(r)
              \/ GiveToken(r) \/ Refuse(r)
       PROVE  Inv'
  BY <1>12, BackendSteps
<1>13. QED
  BY <1>1, <1>2, <1>3, <1>4, <1>5, <1>6, <1>7, <1>8, <1>9, <1>10, <1>11, <1>12 DEF UserpassNext

\* The invariant holds in every reachable state.
LEMMA Invariance ==
    UserpassSpec => []Inv
BY InitInv, StepInv, PTL DEF UserpassSpec

-----------------------------------------------------------------------------
(***************************************************************************)
(* The theorems                                                            *)
(***************************************************************************)

\* Whoever gets a token gave a password that the user had since the login
\* arrived, for an entity that the user was an alias of meanwhile, or the mount
\* was disabled during the login (login, get_entity_from_alias).
THEOREM LoginsCorrect ==
    UserpassSpec => []LoginsAreJustified
<1>1. Inv => LoginsAreJustified
  BY DEF Inv, HandlerOK, LoginsAreJustified
<1>2. QED
  BY <1>1, Invariance, PTL

\* What a step does to USERS
LEMMA UsersStep ==
    ASSUME Inv, UserpassNext, NEW m \in Mount, NEW u \in User, accounts'[m][u] \notin {accounts[m][u], None}
    PROVE  \E r \in Request :
              /\ handlers[r].mount = m /\ handlers[r].user = u
              /\ handlers[r].new = accounts'[m][u]
              /\ IF accounts[m][u] = None THEN handlers[r].pc = "create"
                 ELSE handlers[r].pc = "write" /\ handlers[r].password \in handlers[r].held
<1>1. accounts # accounts'
  OBVIOUS
<1>2. \A n \in Mount : DropTable(n) => accounts'[m][u] \in {accounts[m][u], None}
  BY DEF DropTable, Inv, Users
<1>3. \A r \in Request : RemoveUser(r) => accounts'[m][u] \in {accounts[m][u], None}
  BY DEF RemoveUser, SetUser, Inv, Users
<1>4. PICK r \in Request : CreateUser(r) \/ UpdatePassword(r)
  BY <1>1, <1>2, <1>3 DEF UserpassNext, CreateMount, Disable, RemoveAlias, BeginAttach, BeginRemove, BeginCreate,
     BeginLogin, BeginUpdate, Route, AttachAlias, CheckPassword, LookupAlias, GiveToken, Refuse
<1>5. SetUser(handlers[r], handlers[r].new)
  BY <1>1, <1>4 DEF CreateUser, UpdatePassword
<1>6. handlers[r].mount = m /\ handlers[r].user = u /\ accounts'[m][u] = handlers[r].new
  BY <1>5 DEF SetUser, Inv, Users
<1>7. HandlerOK(handlers[r], mount, used)
  BY DEF Inv
<1>8. QED
  BY <1>1, <1>4, <1>6, <1>7 DEF CreateUser, UpdatePassword, HandlerOK

\* A password is replaced only by a request that gave one the user had
\* meanwhile, and a removed user comes back only by a creation
\* (update_user_password, create).
THEOREM PasswordsCorrect ==
    UserpassSpec => PasswordsAreJustified
<1>1. Inv /\ [UserpassNext]_userpassVars =>
        [\A m \in Mount, u \in User :
          accounts'[m][u] \notin {accounts[m][u], None} =>
              \E r \in Request :
                  /\ handlers[r].mount = m /\ handlers[r].user = u
                  /\ handlers[r].new = accounts'[m][u]
                  /\ IF accounts[m][u] = None THEN handlers[r].pc = "create"
                     ELSE handlers[r].pc = "write" /\ handlers[r].password \in handlers[r].held]_userpassVars
  BY UsersStep
<1>2. QED
  BY <1>1, Invariance, PTL DEF UserpassSpec, PasswordsAreJustified
=============================================================================
