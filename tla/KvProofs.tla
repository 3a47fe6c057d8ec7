------------------------------ MODULE KvProofs -------------------------------
(***************************************************************************)
(* Theorems about KvSecrets, for every value of its constants.             *)
(***************************************************************************)
EXTENDS KvSecrets, FiniteSetTheorems, TLAPS

-----------------------------------------------------------------------------
(***************************************************************************)
(* Type correctness                                                        *)
(***************************************************************************)

Adding == {"insert", "load", "default", "prune", "answer"}

\* A handler knows the key it works on, but for read_config, an add what it
\* stores, and an update what it does.
Sound(h) ==
    /\ h.pc \notin {"idle", "load", "default"} => h.key # None
    /\ h.pc \in Adding /\ h.key # None => h.datum # None
    /\ h.pc = "update" => h.op # "none"

HandlersOK == \A r \in Request : Sound(req[r])

TypeInv == TypeOK /\ HandlersOK

LEMMA IdleType ==
    Idle \in Handler /\ Idle.pc = "idle" /\ Idle.key = None
BY DEF Idle, Handler

LEMMA TypeInit == Init => TypeInv
BY IdleType DEF Init, TypeInv, TypeOK, HandlersOK, Sound, Adding

\* How a step of request r changes the requests.
Becomes(r, h) ==
    /\ h \in Handler
    /\ req' \in [Request -> Handler]
    /\ req'[r] = h
    /\ \A q \in Request : q # r => req'[q] = req[q]

LEMMA SetReqEffect ==
    ASSUME TypeInv, NEW r \in Request, NEW h \in Handler, SetReq(r, h)
    PROVE  Becomes(r, h)
BY DEF SetReq, Becomes, TypeInv, TypeOK

LEMMA GotoEffect ==
    ASSUME TypeInv, NEW r \in Request, NEW pc \in {"load", "default", "answer"}, Goto(r, pc)
    PROVE  Becomes(r, [req[r] EXCEPT !.pc = pc])
<1>1. [req[r] EXCEPT !.pc = pc] \in Handler
  BY DEF TypeInv, TypeOK, Handler
<1> QED
  BY <1>1, SetReqEffect DEF Goto

LEMMA DoneEffect ==
    ASSUME TypeInv, NEW r \in Request, Done(r)
    PROVE  Becomes(r, Idle)
BY IdleType, SetReqEffect DEF Done

LEMMA ConfiguredEffect ==
    ASSUME TypeInv, NEW r \in Request, NEW n \in Nat, Configured(r, n)
    PROVE  \/ req[r].key = None /\ Becomes(r, Idle)
           \/ req[r].key # None /\ Becomes(r, [req[r] EXCEPT !.pc = "prune", !.max = n])
<1>1. [req[r] EXCEPT !.pc = "prune", !.max = n] \in Handler
  BY DEF TypeInv, TypeOK, Handler
<1> QED
  BY <1>1, DoneEffect, SetReqEffect DEF Configured

LEMMA BeginAddEffect ==
    ASSUME TypeInv, NEW r \in Request, NEW k \in Key, NEW d \in Data, BeginAdd(r, k, d)
    PROVE  \E v \in Nat :
              Becomes(r, [Idle EXCEPT !.pc = "insert", !.key = k, !.version = v, !.datum = d])
<1>1. PICK v \in Versions(k) \cup {0} :
          SetReq(r, [Idle EXCEPT !.pc = "insert", !.key = k, !.version = v + 1, !.datum = d])
  BY DEF BeginAdd
<1>2. v + 1 \in Nat
  BY <1>1 DEF Versions, Rows, TypeInv, TypeOK, Secret
<1>3. [Idle EXCEPT !.pc = "insert", !.key = k, !.version = v + 1, !.datum = d] \in Handler
  BY <1>2 DEF Idle, Handler
<1> QED
  BY <1>1, <1>2, <1>3, SetReqEffect

LEMMA BeginReadEffect ==
    ASSUME TypeInv, NEW r \in Request, NEW k \in Key, BeginRead(r, k)
    PROVE  \E v \in Versions(k) \cup {0} :
              /\ v \in Nat
              /\ IsMaxVersion(k, v)
              /\ Becomes(r, [Idle EXCEPT !.pc = "get", !.key = k, !.version = v])
<1>1. PICK v \in Versions(k) \cup {0} :
          /\ IsMaxVersion(k, v)
          /\ SetReq(r, [Idle EXCEPT !.pc = "get", !.key = k, !.version = v])
  BY DEF BeginRead
<1>2. v \in Nat
  BY <1>1 DEF Versions, Rows, TypeInv, TypeOK, Secret
<1>3. [Idle EXCEPT !.pc = "get", !.key = k, !.version = v] \in Handler
  BY <1>2 DEF Idle, Handler
<1> QED
  BY <1>1, <1>2, <1>3, SetReqEffect

LEMMA BeginUpdateEffect ==
    ASSUME TypeInv, NEW r \in Request, NEW k \in Key, NEW op \in {"delete", "undelete", "destroy"},
           NEW vs \in SUBSET (1..MaxVersion), BeginUpdate(r, k, op, vs)
    PROVE  Becomes(r, [Idle EXCEPT !.pc = "update", !.key = k, !.op = op, !.todo = vs])
<1>1. vs \subseteq Nat
  BY KvAssumption
<1>2. [Idle EXCEPT !.pc = "update", !.key = k, !.op = op, !.todo = vs] \in Handler
  BY <1>1 DEF Idle, Handler
<1> QED
  BY <1>2, SetReqEffect DEF BeginUpdate

LEMMA UpdateEffect ==
    ASSUME TypeInv, NEW r \in Request, NEW v \in 1..MaxVersion, Update(r, v)
    PROVE  \/ Becomes(r, Idle)
           \/ Becomes(r, [req[r] EXCEPT !.todo = @ \ {v}])
<1>1. [req[r] EXCEPT !.todo = @ \ {v}] \in Handler
  BY DEF TypeInv, TypeOK, Handler
<1> QED
  BY <1>1, DoneEffect, SetReqEffect DEF Update

-----------------------------------------------------------------------------
(***************************************************************************)
(* Each step keeps the types: first the requests, then the tables          *)
(***************************************************************************)

ReqInv == req \in [Request -> Handler] /\ HandlersOK

LEMMA BecomesReqInv ==
    ASSUME TypeInv, NEW r \in Request, NEW h, Becomes(r, h), Sound(h)
    PROVE  ReqInv'
BY DEF Becomes, ReqInv, TypeInv, TypeOK, HandlersOK

LEMMA IdleReqInv ==
    ASSUME TypeInv, NEW r \in Request, Becomes(r, Idle)
    PROVE  ReqInv'
BY IdleType, BecomesReqInv DEF Adding, Sound

LEMMA ConfiguredReqInv ==
    ASSUME TypeInv, NEW r \in Request, NEW n \in Nat, req[r].pc \in {"load", "default"},
           Configured(r, n)
    PROVE  ReqInv'
<1>1. CASE Becomes(r, Idle)
  BY <1>1, IdleReqInv
<1>2. CASE req[r].key # None /\ Becomes(r, [req[r] EXCEPT !.pc = "prune", !.max = n])
  <2> DEFINE h == [req[r] EXCEPT !.pc = "prune", !.max = n]
  <2>1. req[r] \in Handler
    BY DEF TypeInv, TypeOK
  <2>2. h.pc = "prune" /\ h.key = req[r].key /\ h.datum = req[r].datum
    BY <2>1 DEF Handler
  <2>3. req[r].datum # None
    BY <1>2 DEF TypeInv, HandlersOK, Sound, Adding
  <2> HIDE DEF h
  <2> QED
    BY <1>2, <2>2, <2>3, BecomesReqInv DEF h, Sound
<1> QED
  BY <1>1, <1>2, ConfiguredEffect

LEMMA GotoReqInv ==
    ASSUME TypeInv, NEW r \in Request, NEW pc \in {"load", "default", "answer"},
           req[r].pc \in Adding, pc = "answer" => req[r].pc = "prune", Goto(r, pc)
    PROVE  ReqInv'
<1> DEFINE h == [req[r] EXCEPT !.pc = pc]
<1>1. req[r] \in Handler
  BY DEF TypeInv, TypeOK
<1>2. h.pc = pc /\ h.key = req[r].key /\ h.datum = req[r].datum
  BY <1>1 DEF Handler
<1>3. Becomes(r, h)
  BY GotoEffect
<1>4. /\ pc = "answer" => req[r].key # None
      /\ req[r].key # None => req[r].datum # None
  BY DEF TypeInv, HandlersOK, Sound
<1> HIDE DEF h
<1> QED
  BY <1>2, <1>3, <1>4, BecomesReqInv DEF Sound

LEMMA ReadConfigEffect ==
    ASSUME TypeInv, NEW r \in Request, BeginReadConfig(r)
    PROVE  Becomes(r, [Idle EXCEPT !.pc = "load"]) /\ ReqInv'
<1>1. [Idle EXCEPT !.pc = "load"] \in Handler
  BY DEF Idle, Handler
<1>2. Becomes(r, [Idle EXCEPT !.pc = "load"])
  BY <1>1, SetReqEffect DEF BeginReadConfig
<1>3. Sound([Idle EXCEPT !.pc = "load"])
  BY DEF Idle, Sound, Adding
<1> QED
  BY <1>2, <1>3, BecomesReqInv

LEMMA BeginReqInv ==
    ASSUME TypeInv, NEW r \in Request, NEW k \in Key,
           \/ \E d \in Data : BeginAdd(r, k, d)
           \/ BeginRead(r, k)
           \/ \E op \in {"delete", "undelete", "destroy"}, vs \in SUBSET (1..MaxVersion) :
                 BeginUpdate(r, k, op, vs)
    PROVE  ReqInv'
<1> USE KvAssumption, BecomesReqInv DEF Adding, Sound
<1>1. ASSUME NEW d \in Data, BeginAdd(r, k, d)
      PROVE  ReqInv'
  <2>1. PICK v \in Nat :
            Becomes(r, [Idle EXCEPT !.pc = "insert", !.key = k, !.version = v, !.datum = d])
    BY <1>1, BeginAddEffect
  <2> QED
    BY <2>1 DEF Idle
<1>2. CASE BeginRead(r, k)
  <2>1. PICK v \in Versions(k) \cup {0} :
            Becomes(r, [Idle EXCEPT !.pc = "get", !.key = k, !.version = v])
    BY <1>2, BeginReadEffect
  <2> QED
    BY <2>1 DEF Idle
<1>3. ASSUME NEW op \in {"delete", "undelete", "destroy"}, NEW vs \in SUBSET (1..MaxVersion),
             BeginUpdate(r, k, op, vs)
      PROVE  ReqInv'
  <2>1. Becomes(r, [Idle EXCEPT !.pc = "update", !.key = k, !.op = op, !.todo = vs])
    BY <1>3, BeginUpdateEffect
  <2> QED
    BY <2>1 DEF Idle
<1> QED
  BY <1>1, <1>2, <1>3

LEMMA UpdateReqInv ==
    ASSUME TypeInv, NEW r \in Request, NEW v \in 1..MaxVersion, Update(r, v)
    PROVE  ReqInv'
<1>1. CASE Becomes(r, Idle)
  BY <1>1, IdleReqInv
<1>2. CASE Becomes(r, [req[r] EXCEPT !.todo = @ \ {v}])
  <2> DEFINE h == [req[r] EXCEPT !.todo = @ \ {v}]
  <2>1. req[r] \in Handler
    BY DEF TypeInv, TypeOK
  <2>2. h.pc = req[r].pc /\ h.key = req[r].key /\ h.op = req[r].op
    BY <2>1 DEF Handler
  <2>3. req[r].pc = "update" /\ req[r].key # None /\ req[r].op # "none"
    BY DEF Update, TypeInv, HandlersOK, Sound
  <2> HIDE DEF h
  <2> QED
    BY <1>2, <2>2, <2>3, BecomesReqInv DEF h, Sound, Adding
<1> QED
  BY <1>1, <1>2, UpdateEffect

\* What an UPDATE makes of a row is a row with its key and version.
LEMMA UpdatedType ==
    ASSUME NEW op \in {"delete", "undelete", "destroy"}, NEW x \in Secret
    PROVE  /\ Updated(op, x) \in Secret
           /\ Updated(op, x).key = x.key
           /\ Updated(op, x).version = x.version
           /\ Updated(op, x).value \in {x.value, None}
BY DEF Updated, Secret

LEMMA NewSecretType ==
    ASSUME TypeInv, NEW r \in Request, req[r].pc = "insert"
    PROVE  /\ NewSecret(r) \in Secret
           /\ NewSecret(r).key = req[r].key
           /\ NewSecret(r).version = req[r].version
           /\ NewSecret(r).value = req[r].datum
           /\ NewSecret(r).value # None
           /\ NewSecret(r).destroyed = FALSE
<1>1. req[r] \in Handler /\ req[r].key # None /\ req[r].datum # None
  BY DEF TypeInv, TypeOK, HandlersOK, Sound, Adding
<1> QED
  BY <1>1 DEF NewSecret, Secret, Handler

LEMMA TypeStep == TypeInv /\ [Next]_vars => TypeInv'
<1> SUFFICES ASSUME TypeInv, [Next]_vars
             PROVE  TypeInv'
  OBVIOUS
<1> USE KvAssumption
<1>1. /\ secrets \subseteq Secret /\ config \in Nat \cup {None} /\ req \in [Request -> Handler]
      /\ used \subseteq Data /\ acked \subseteq Add /\ limit \in [Key -> Nat]
      /\ unpruned \in [Key -> Nat] /\ faults \in Nat
  BY DEF TypeInv, TypeOK
<1>2. /\ \A r \in Request : req[r] \in Handler
      /\ HandlersOK
  BY DEF TypeInv, TypeOK
<1> USE DEF history
<1>3. ASSUME NEW n \in Limits, SetConfig(n)
      PROVE  TypeInv'
  BY <1>1, <1>3 DEF SetConfig, TypeInv, TypeOK, HandlersOK, Sound
<1>4. ASSUME NEW r \in Request, NEW k \in Key, NEW d \in Data, BeginAdd(r, k, d)
      PROVE  TypeInv'
  BY <1>1, <1>4, BeginReqInv DEF BeginAdd, TypeInv, TypeOK, ReqInv
<1>5. ASSUME NEW r \in Request, Insert(r)
      PROVE  TypeInv'
  <2>1. ReqInv'
    BY <1>5, GotoReqInv, DoneEffect, IdleReqInv DEF Insert, Adding
  <2>2. secrets' \subseteq Secret
    <3>1. req[r].pc = "insert"
      BY <1>5 DEF Insert
    <3>2. NewSecret(r) \in Secret
      BY <3>1, NewSecretType
    <3> QED
      BY <1>1, <1>5, <3>2 DEF Insert
  <2> QED
    BY <1>1, <1>5, <2>1, <2>2 DEF Insert, TypeInv, TypeOK, ReqInv
<1>6. ASSUME NEW r \in Request, LoadConfig(r)
      PROVE  TypeInv'
  <2>1. ReqInv'
    BY <1>1, <1>6, GotoReqInv, ConfiguredReqInv DEF LoadConfig, Adding
  <2> QED
    BY <1>1, <1>6, <2>1 DEF LoadConfig, TypeInv, TypeOK, ReqInv
<1>7. ASSUME NEW r \in Request, StoreDefault(r)
      PROVE  TypeInv'
  <2>1. ReqInv'
    BY <1>7, ConfiguredReqInv DEF StoreDefault
  <2> QED
    BY <1>1, <1>7, <2>1 DEF StoreDefault, TypeInv, TypeOK, ReqInv
<1>8. ASSUME NEW r \in Request, Prune(r)
      PROVE  TypeInv'
  <2>1. ReqInv'
    BY <1>8, GotoReqInv DEF Prune, Adding
  <2>2. secrets' \subseteq Secret
    BY <1>1, <1>8 DEF Prune
  <2>3. limit' \in [Key -> Nat]
    BY <1>1, <1>2, <1>8 DEF Prune, Handler
  <2> QED
    BY <1>1, <1>8, <2>1, <2>2, <2>3 DEF Prune, TypeInv, TypeOK, ReqInv
<1>9. ASSUME NEW r \in Request, Answer(r)
      PROVE  TypeInv'
  <2>1. ReqInv'
    BY <1>9, DoneEffect, IdleReqInv DEF Answer
  <2>2. req[r].key \in Key /\ req[r].datum \in Data /\ req[r].version \in Nat
    BY <1>2, <1>9 DEF Answer, HandlersOK, Sound, Adding, Handler
  <2>3. acked' \subseteq Add
    BY <1>1, <1>9, <2>2 DEF Answer, Add
  <2> QED
    BY <1>1, <1>9, <2>1, <2>3 DEF Answer, TypeInv, TypeOK, ReqInv
<1>10. ASSUME NEW r \in Request, BeginReadConfig(r)
       PROVE  TypeInv'
  BY <1>1, <1>10, ReadConfigEffect DEF BeginReadConfig, TypeInv, TypeOK, ReqInv
<1>11. ASSUME NEW r \in Request, NEW k \in Key, BeginRead(r, k)
       PROVE  TypeInv'
  BY <1>1, <1>11, BeginReqInv DEF BeginRead, TypeInv, TypeOK, ReqInv
<1>12. ASSUME NEW r \in Request, Get(r)
       PROVE  TypeInv'
  BY <1>1, <1>12, DoneEffect, IdleReqInv DEF Get, TypeInv, TypeOK, ReqInv
<1>13. ASSUME NEW r \in Request, NEW k \in Key, NEW op \in {"delete", "undelete", "destroy"},
              NEW vs \in SUBSET (1..MaxVersion), BeginUpdate(r, k, op, vs)
       PROVE  TypeInv'
  BY <1>1, <1>13, BeginReqInv DEF BeginUpdate, TypeInv, TypeOK, ReqInv
<1>14. ASSUME NEW r \in Request, NEW v \in 1..MaxVersion, Update(r, v)
       PROVE  TypeInv'
  <2>1. ReqInv'
    BY <1>14, UpdateReqInv
  <2>2. req[r].op \in {"delete", "undelete", "destroy"}
    BY <1>2, <1>14 DEF Update, HandlersOK, Sound, Handler
  <2>3. \A x \in secrets : Updated(req[r].op, x) \in Secret
    BY <1>1, <2>2, UpdatedType
  <2>4. secrets' \subseteq Secret /\ faults' \in Nat
    BY <1>1, <1>14, <2>3 DEF Update
  <2> QED
    BY <1>1, <1>14, <2>1, <2>4 DEF Update, TypeInv, TypeOK, ReqInv
<1>15. ASSUME NEW r \in Request, Cancel(r)
       PROVE  TypeInv'
  <2>1. ReqInv'
    BY <1>15, DoneEffect, IdleReqInv DEF Cancel
  <2>2. unpruned' \in [Key -> Nat]
    BY <1>1, <1>2, <1>15 DEF Cancel, Handler
  <2> QED
    BY <1>1, <1>15, <2>1, <2>2 DEF Cancel, TypeInv, TypeOK, ReqInv
<1>16. CASE UNCHANGED vars
  BY <1>1, <1>16 DEF vars, TypeInv, TypeOK, HandlersOK, Sound
<1> QED
  BY <1>3, <1>4, <1>5, <1>6, <1>7, <1>8, <1>9, <1>10, <1>11, <1>12, <1>13, <1>14, <1>15, <1>16
     DEF Next

\* Every variable keeps its type: in particular a prune always knows the
\* max_versions that it was configured with (config.load).
THEOREM TypeCorrect == Spec => []TypeOK
<1>1. TypeInv => TypeOK
  BY DEF TypeInv
<1> QED
  BY <1>1, TypeInit, TypeStep, PTL DEF Spec

-----------------------------------------------------------------------------
(***************************************************************************)
(* What the steps do to the rows                                           *)
(***************************************************************************)

\* The primary key of SECRETS and its CHECK
RowsDistinct ==
    \A x, y \in secrets : x.key = y.key /\ x.version = y.version => x = y

DestroyedRows == \A x \in secrets : x.destroyed => x.deleted /\ x.value = None

\* A key has finitely many versions, and so a newest one.
HasMax(S) == S = {} \/ \E v \in S : \A w \in S : w <= v

RowsInv ==
    /\ RowsDistinct
    /\ DestroyedRows
    /\ \A k \in Key : IsFiniteSet(Versions(k)) /\ HasMax(Versions(k))

LEMMA VersionsType ==
    ASSUME TypeInv, NEW k \in Key
    PROVE  Versions(k) \subseteq Nat
BY DEF Versions, Rows, TypeInv, TypeOK, Secret

LEMMA InsertRows ==
    ASSUME TypeInv, NEW r \in Request, req[r].pc = "insert",
           secrets' = secrets \cup {NewSecret(r)}, NEW k \in Key
    PROVE  Versions(k)' = IF k = req[r].key THEN Versions(k) \cup {req[r].version}
                          ELSE Versions(k)
<1> DEFINE new == NewSecret(r)
           key == req[r].key
<1>1. new.key = key /\ new.version = req[r].version
  BY NewSecretType
<1>2. secrets' = secrets \cup {new}
  OBVIOUS
<1> HIDE DEF new, key
<1>3. \A v : v \in Versions(k) <=> \E x \in secrets : x.key = k /\ x.version = v
  BY DEF Versions, Rows
<1>4. \A v : v \in Versions(k)' <=> \E x \in secrets' : x.key = k /\ x.version = v
  BY DEF Versions, Rows
<1>5. \A v : v \in Versions(k)' <=> v \in Versions(k) \/ (k = key /\ v = new.version)
  BY <1>1, <1>2, <1>3, <1>4
<1> QED
  BY <1>1, <1>5 DEF key

\* What a prune of key k to n versions leaves of the versions S.
Newest(S, n) == {v \in S : ~ \E w \in S : v + n <= w}

LEMMA PruneRows ==
    ASSUME TypeInv, NEW r \in Request, Prune(r), NEW k \in Key
    PROVE  /\ secrets' \subseteq secrets
           /\ Versions(k)' = IF k = req[r].key THEN Newest(Versions(k), req[r].max)
                             ELSE Versions(k)
<1> DEFINE key == req[r].key
           n == req[r].max
<1>1. secrets' = {x \in secrets : ~ (x.key = key /\ \E y \in Rows(key) : x.version + n <= y.version)}
  BY DEF Prune
<1> HIDE DEF key, n
<1>2. \A v : v \in Versions(k) <=> \E x \in secrets : x.key = k /\ x.version = v
  BY DEF Versions, Rows
<1>3. \A v : v \in Versions(k)' <=> \E x \in secrets' : x.key = k /\ x.version = v
  BY DEF Versions, Rows
<1>4. CASE k = key
  <2>1. \A x \in secrets : (\E y \in Rows(key) : x.version + n <= y.version)
                               <=> \E w \in Versions(k) : x.version + n <= w
    BY <1>4 DEF Versions
  <2>2. \A x : x \in secrets' <=>
            x \in secrets /\ ~ (x.key = k /\ \E w \in Versions(k) : x.version + n <= w)
    BY <1>1, <1>4, <2>1
  <2>3. \A v : v \in Versions(k)' <=> v \in Versions(k) /\ ~ \E w \in Versions(k) : v + n <= w
    BY <1>2, <1>3, <2>2
  <2> QED
    BY <1>1, <1>4, <2>3 DEF Newest, key, n
<1>5. CASE k # key
  <2>1. \A v : v \in Versions(k)' <=> v \in Versions(k)
    BY <1>1, <1>2, <1>3, <1>5
  <2> QED
    BY <1>1, <1>5, <2>1 DEF key
<1> QED
  BY <1>4, <1>5

\* An UPDATE changes rows in place.
LEMMA UpdateRows ==
    ASSUME TypeInv, RowsInv, NEW r \in Request, NEW v \in 1..MaxVersion, Update(r, v)
    PROVE  /\ \A x \in secrets : \E y \in secrets' :
                  /\ y.key = x.key /\ y.version = x.version /\ y.value \in {x.value, None}
           /\ \A y \in secrets' : \E x \in secrets :
                  /\ y.key = x.key /\ y.version = x.version /\ y.value \in {x.value, None}
                  /\ x.destroyed => y = x
                  /\ y.destroyed => y.deleted /\ y.value = None
                  /\ y \in {x, Updated(req[r].op, x)}
           /\ RowsDistinct'
           /\ \A k \in Key : Versions(k)' = Versions(k)
<1> DEFINE op == req[r].op
           hit(x) == x.key = req[r].key /\ x.version = v
           new(x) == IF hit(x) THEN Updated(op, x) ELSE x
<1>1. op \in {"delete", "undelete", "destroy"}
  BY DEF Update, TypeInv, TypeOK, HandlersOK, Sound, Handler
<1>2. ASSUME NEW x \in secrets
      PROVE  /\ x \in Secret
             /\ Updated(op, x).key = x.key /\ Updated(op, x).version = x.version
             /\ Updated(op, x).value \in {x.value, None}
             /\ x.destroyed => Updated(op, x) = x
             /\ Updated(op, x).destroyed => Updated(op, x).deleted /\ Updated(op, x).value = None
  <2>1. x \in Secret /\ (x.destroyed => x.deleted /\ x.value = None)
    BY DEF TypeInv, TypeOK, RowsInv, DestroyedRows
  <2>2. x.destroyed => Updated(op, x) = x
    BY <1>1, <2>1 DEF Updated, Secret
  <2>3. Updated(op, x).destroyed => Updated(op, x).deleted /\ Updated(op, x).value = None
    BY <1>1, <2>1 DEF Updated, Secret
  <2> QED
    BY <1>1, <2>1, <2>2, <2>3, UpdatedType
<1>3. \/ secrets' = {new(x) : x \in secrets}
      \/ secrets' = secrets
  BY DEF Update
<1>4. \A x \in secrets :
          /\ new(x).key = x.key /\ new(x).version = x.version /\ new(x).value \in {x.value, None}
          /\ x.destroyed => new(x) = x
          /\ new(x).destroyed => new(x).deleted /\ new(x).value = None
          /\ new(x) \in {x, Updated(op, x)}
  BY <1>2 DEF RowsInv, DestroyedRows
<1> HIDE DEF new
<1>5. \A x \in secrets : \E y \in secrets' :
          /\ y.key = x.key /\ y.version = x.version /\ y.value \in {x.value, None}
  BY <1>3, <1>4
<1>6. \A y \in secrets' : \E x \in secrets :
          /\ y.key = x.key /\ y.version = x.version /\ y.value \in {x.value, None}
          /\ x.destroyed => y = x
          /\ y.destroyed => y.deleted /\ y.value = None
          /\ y \in {x, Updated(op, x)}
  BY <1>3, <1>4 DEF RowsInv, DestroyedRows
<1>7. RowsDistinct'
  BY <1>3, <1>4 DEF RowsInv, RowsDistinct
<1>8. \A k \in Key : Versions(k)' = Versions(k)
  BY <1>5, <1>6 DEF Versions, Rows
<1> QED
  BY <1>5, <1>6, <1>7, <1>8

\* The steps that write SECRETS
Inserted(r) ==
    /\ req[r].pc = "insert"
    /\ req[r].version \notin Versions(req[r].key)
    /\ secrets' = secrets \cup {NewSecret(r)}

LEMMA WriteSteps ==
    ASSUME [Next]_vars
    PROVE  \/ UNCHANGED secrets
           \/ \E r \in Request : Inserted(r)
           \/ \E r \in Request : Prune(r)
           \/ \E r \in Request, v \in 1..MaxVersion : Update(r, v)
<1>1. CASE \E r \in Request : Insert(r)
  BY <1>1 DEF Insert, Inserted
<1> QED
  BY <1>1 DEF Next, vars, SetConfig, BeginAdd, LoadConfig, StoreDefault, Answer, BeginReadConfig,
              BeginRead, Get, BeginUpdate, Cancel

LEMMA RowsInit == Init => RowsInv
<1>1. Init => \A k \in Key : Versions(k) = {}
  BY DEF Init, Versions, Rows
<1> QED
  BY <1>1, FS_EmptySet DEF Init, RowsInv, RowsDistinct, DestroyedRows, HasMax

LEMMA MaxAdded ==
    ASSUME NEW S \in SUBSET Nat, NEW v \in Nat, HasMax(S)
    PROVE  HasMax(S \cup {v})
<1>1. CASE S = {}
  BY <1>1 DEF HasMax
<1>2. ASSUME NEW m \in S, \A w \in S : w <= m
      PROVE  HasMax(S \cup {v})
  BY <1>2 DEF HasMax
<1> QED
  BY <1>1, <1>2 DEF HasMax

\* A prune that keeps anything keeps the newest version.
LEMMA MaxPruned ==
    ASSUME NEW S \in SUBSET Nat, NEW n \in Nat, HasMax(S)
    PROVE  /\ HasMax(Newest(S, n))
           /\ n # 0 => \A w \in S : \E v \in Newest(S, n) : w <= v
<1>1. CASE S = {}
  BY <1>1 DEF HasMax, Newest
<1>2. CASE n = 0
  <2>1. \A v \in S : v + n <= v
    BY <1>2
  <2>2. Newest(S, n) = {}
    BY <2>1 DEF Newest
  <2> QED
    BY <1>2, <2>2 DEF HasMax
<1>3. CASE S # {} /\ n # 0
  <2>1. PICK m \in S : \A w \in S : w <= m
    BY <1>3 DEF HasMax
  <2>2. m \in Newest(S, n)
    BY <1>3, <2>1 DEF Newest
  <2>3. Newest(S, n) \subseteq S
    BY DEF Newest
  <2> QED
    BY <2>1, <2>2, <2>3 DEF HasMax
<1> QED
  BY <1>1, <1>2, <1>3

LEMMA RowsStep == TypeInv /\ RowsInv /\ [Next]_vars => RowsInv'
<1> SUFFICES ASSUME TypeInv, RowsInv, [Next]_vars
             PROVE  RowsInv'
  OBVIOUS
<1>0. \A k \in Key : Versions(k) \subseteq Nat /\ IsFiniteSet(Versions(k)) /\ HasMax(Versions(k))
  BY VersionsType DEF RowsInv
<1>1. CASE UNCHANGED secrets
  BY <1>1 DEF RowsInv, RowsDistinct, DestroyedRows, Versions, Rows
<1>2. ASSUME NEW r \in Request, Inserted(r)
      PROVE  RowsInv'
  <2>1. /\ secrets' = secrets \cup {NewSecret(r)} /\ req[r].pc = "insert"
        /\ req[r] \in Handler
    BY <1>2 DEF Inserted, TypeInv, TypeOK
  <2>2. /\ NewSecret(r).key = req[r].key /\ NewSecret(r).version = req[r].version
        /\ NewSecret(r).destroyed = FALSE
    BY <2>1, NewSecretType
  <2>3. \A x \in secrets : ~ (x.key = req[r].key /\ x.version = req[r].version)
    BY <1>2 DEF Inserted, Versions, Rows
  <2>4. RowsDistinct' /\ DestroyedRows'
    BY <2>1, <2>2, <2>3 DEF RowsInv, RowsDistinct, DestroyedRows
  <2>5. ASSUME NEW k \in Key
        PROVE  (IsFiniteSet(Versions(k)) /\ HasMax(Versions(k)))'
    <3>1. CASE Versions(k)' = Versions(k)
      BY <1>0, <3>1
    <3>2. CASE Versions(k)' = Versions(k) \cup {req[r].version}
      <4>1. req[r].version \in Nat
        BY <2>1 DEF Handler
      <4> QED
        BY <1>0, <3>2, <4>1, FS_AddElement, MaxAdded
    <3> QED
      BY <2>1, <3>1, <3>2, InsertRows
  <2> QED
    BY <2>4, <2>5 DEF RowsInv
<1>3. ASSUME NEW r \in Request, Prune(r)
      PROVE  RowsInv'
  <2>1. \A k \in Key : /\ secrets' \subseteq secrets
                       /\ Versions(k)' = IF k = req[r].key THEN Newest(Versions(k), req[r].max)
                                         ELSE Versions(k)
    BY <1>3, PruneRows
  <2>2. RowsDistinct' /\ DestroyedRows'
    BY <1>3 DEF RowsInv, RowsDistinct, DestroyedRows, Prune
  <2>3. req[r].max \in Nat
    BY DEF TypeInv, TypeOK, Handler
  <2>4. ASSUME NEW k \in Key
        PROVE  (IsFiniteSet(Versions(k)) /\ HasMax(Versions(k)))'
    <3>1. CASE Versions(k)' = Versions(k)
      BY <1>0, <3>1
    <3>2. CASE Versions(k)' = Newest(Versions(k), req[r].max)
      <4>1. HasMax(Versions(k))'
        BY <1>0, <2>3, <3>2, MaxPruned
      <4>2. Versions(k)' \in SUBSET Versions(k)
        BY <3>2 DEF Newest
      <4> QED
        BY <1>0, <4>1, <4>2, FS_Subset
    <3> QED
      BY <2>1, <3>1, <3>2
  <2> QED
    BY <2>2, <2>4 DEF RowsInv
<1>4. ASSUME NEW r \in Request, NEW v \in 1..MaxVersion, Update(r, v)
      PROVE  RowsInv'
  <2>1. /\ RowsDistinct'
        /\ \A y \in secrets' : y.destroyed => y.deleted /\ y.value = None
        /\ \A k \in Key : Versions(k)' = Versions(k)
    BY <1>4, UpdateRows
  <2>2. \A k \in Key : (IsFiniteSet(Versions(k)) /\ HasMax(Versions(k)))'
    BY <1>0, <2>1
  <2> QED
    BY <2>1, <2>2 DEF RowsInv, DestroyedRows
<1> QED
  BY <1>1, <1>2, <1>3, <1>4, WriteSteps

-----------------------------------------------------------------------------
\* A version keeps its value until it is destroyed, and a destroyed one never
\* changes again (insert, recover, hard_delete).
THEOREM FinalCorrect == Spec => DestroyedIsFinal
<1> DEFINE Final == \A x \in secrets, y \in secrets' :
                        x.key = y.key /\ x.version = y.version =>
                            /\ y.value \in {x.value, None}
                            /\ x.destroyed => y = x
<1>1. TypeInv /\ RowsInv /\ [Next]_vars => Final
  <2> SUFFICES ASSUME TypeInv, RowsInv, [Next]_vars
               PROVE  Final
    OBVIOUS
  <2>1. CASE secrets' \subseteq secrets
    BY <2>1 DEF RowsInv, RowsDistinct
  <2>2. ASSUME NEW r \in Request, Inserted(r)
        PROVE  Final
    <3>1. /\ secrets' = secrets \cup {NewSecret(r)}
          /\ NewSecret(r).key = req[r].key /\ NewSecret(r).version = req[r].version
      BY <2>2, NewSecretType DEF Inserted
    <3>2. \A x \in secrets : ~ (x.key = req[r].key /\ x.version = req[r].version)
      BY <2>2 DEF Inserted, Versions, Rows
    <3> QED
      BY <3>1, <3>2 DEF RowsInv, RowsDistinct
  <2>3. ASSUME NEW r \in Request, Prune(r)
        PROVE  secrets' \subseteq secrets
    BY <2>3 DEF Prune
  <2>4. ASSUME NEW r \in Request, NEW v \in 1..MaxVersion, Update(r, v)
        PROVE  Final
    <3>1. \A y \in secrets' : \E x \in secrets :
              /\ y.key = x.key /\ y.version = x.version /\ y.value \in {x.value, None}
              /\ x.destroyed => y = x
      BY <2>4, UpdateRows
    <3> QED
      BY <3>1 DEF RowsInv, RowsDistinct
  <2> QED
    BY <2>1, <2>2, <2>3, <2>4, WriteSteps
<1>2. TypeInv /\ RowsInv /\ [Next]_vars => [Final]_vars
  BY <1>1
<1> QED
  BY <1>2, TypeInit, TypeStep, RowsInit, RowsStep, PTL DEF Spec, DestroyedIsFinal

-----------------------------------------------------------------------------
(***************************************************************************)
(* Acknowledged writes and versions that are being read                    *)
(***************************************************************************)

Max_versions == Limits \cup {DefaultLimit}

\* Every prune is configured with a max_versions that was set, or the default.
LimitInv ==
    /\ config \in Max_versions \cup {None}
    /\ \A r \in Request : req[r].pc = "prune" => req[r].max \in Max_versions

LEMMA ConfiguredLimit ==
    ASSUME TypeInv, LimitInv, NEW r \in Request, NEW n \in Max_versions, Configured(r, n)
    PROVE  \A q \in Request : req'[q].pc = "prune" => req'[q].max \in Max_versions
<1>1. n \in Nat /\ req[r] \in Handler
  BY KvAssumption DEF Max_versions, TypeInv, TypeOK
<1>2. [req[r] EXCEPT !.pc = "prune", !.max = n].max = n
  BY <1>1 DEF Handler
<1>3. CASE Becomes(r, Idle)
  BY <1>3, IdleType DEF Becomes, LimitInv
<1>4. CASE Becomes(r, [req[r] EXCEPT !.pc = "prune", !.max = n])
  <2> DEFINE h == [req[r] EXCEPT !.pc = "prune", !.max = n]
  <2>1. Becomes(r, h) /\ h.max = n
    BY <1>2, <1>4
  <2> HIDE DEF h
  <2> QED
    BY <2>1 DEF Becomes, LimitInv
<1> QED
  BY <1>1, <1>3, <1>4, ConfiguredEffect

\* A step of request r after which it is not about to prune
LEMMA OtherLimit ==
    ASSUME LimitInv, NEW r \in Request, NEW h, Becomes(r, h), h.pc # "prune", UNCHANGED config
    PROVE  LimitInv'
BY DEF LimitInv, Becomes

LEMMA LimitStep == TypeInv /\ LimitInv /\ [Next]_vars => LimitInv'
<1> SUFFICES ASSUME TypeInv, LimitInv, [Next]_vars
             PROVE  LimitInv'
  OBVIOUS
<1> USE DEF history
<1>0. \A r \in Request : req[r] \in Handler
  BY DEF TypeInv, TypeOK
<1>1. ASSUME NEW n \in Limits, SetConfig(n)
      PROVE  LimitInv'
  BY <1>1 DEF SetConfig, LimitInv, Max_versions
<1>2. ASSUME NEW r \in Request, NEW k \in Key, NEW d \in Data, BeginAdd(r, k, d)
      PROVE  LimitInv'
  <2>1. PICK v \in Nat :
            Becomes(r, [Idle EXCEPT !.pc = "insert", !.key = k, !.version = v, !.datum = d])
    BY <1>2, BeginAddEffect
  <2> QED
    BY <1>2, <2>1, OtherLimit DEF BeginAdd, Idle
<1>3. ASSUME NEW r \in Request, NEW pc \in {"load", "default", "answer"}, Goto(r, pc), UNCHANGED config
      PROVE  LimitInv'
  <2>1. Becomes(r, [req[r] EXCEPT !.pc = pc])
    BY <1>3, GotoEffect
  <2>2. [req[r] EXCEPT !.pc = pc].pc = pc
    BY <1>0 DEF Handler
  <2> QED
    BY <1>3, <2>1, <2>2, OtherLimit
<1>4. ASSUME NEW r \in Request, Done(r), UNCHANGED config
      PROVE  LimitInv'
  BY <1>4, DoneEffect, IdleType, OtherLimit
<1>5. ASSUME NEW r \in Request, Insert(r)
      PROVE  LimitInv'
  BY <1>3, <1>4, <1>5 DEF Insert
<1>6. ASSUME NEW r \in Request, LoadConfig(r)
      PROVE  LimitInv'
  <2>1. CASE config # None /\ Configured(r, config) /\ UNCHANGED config
    <3>1. config \in Max_versions
      BY <2>1 DEF LimitInv
    <3> QED
      BY <2>1, <3>1, ConfiguredLimit DEF LimitInv
  <2> QED
    BY <1>3, <1>6, <2>1 DEF LoadConfig
<1>7. ASSUME NEW r \in Request, StoreDefault(r)
      PROVE  LimitInv'
  BY <1>7, ConfiguredLimit DEF StoreDefault, LimitInv, Max_versions
<1>8. ASSUME NEW r \in Request, Prune(r)
      PROVE  LimitInv'
  BY <1>3, <1>8 DEF Prune
<1>9. ASSUME NEW r \in Request, Answer(r) \/ Get(r) \/ Cancel(r)
      PROVE  LimitInv'
  BY <1>4, <1>9 DEF Answer, Get, Cancel
<1>10. ASSUME NEW r \in Request, BeginReadConfig(r)
       PROVE  LimitInv'
  BY <1>10, ReadConfigEffect, OtherLimit DEF BeginReadConfig, Idle
<1>11. ASSUME NEW r \in Request, NEW k \in Key, BeginRead(r, k)
       PROVE  LimitInv'
  <2>1. PICK v \in Nat : Becomes(r, [Idle EXCEPT !.pc = "get", !.key = k, !.version = v])
    BY <1>11, BeginReadEffect
  <2> QED
    BY <1>11, <2>1, OtherLimit DEF BeginRead, Idle
<1>12. ASSUME NEW r \in Request, NEW k \in Key, NEW op \in {"delete", "undelete", "destroy"},
              NEW vs \in SUBSET (1..MaxVersion), BeginUpdate(r, k, op, vs)
       PROVE  LimitInv'
  <2>1. Becomes(r, [Idle EXCEPT !.pc = "update", !.key = k, !.op = op, !.todo = vs])
    BY <1>12, BeginUpdateEffect
  <2> QED
    BY <1>12, <2>1, OtherLimit DEF BeginUpdate, Idle
<1>13. ASSUME NEW r \in Request, NEW v \in 1..MaxVersion, Update(r, v)
       PROVE  LimitInv'
  <2>1. [req[r] EXCEPT !.todo = @ \ {v}].pc # "prune"
    BY <1>0, <1>13 DEF Update, Handler
  <2> QED
    BY <1>13, <2>1, UpdateEffect, IdleType, OtherLimit DEF Update
<1>14. CASE UNCHANGED vars
  BY <1>14 DEF vars, LimitInv
<1> QED
  BY <1>1, <1>2, <1>5, <1>6, <1>7, <1>8, <1>9, <1>10, <1>11, <1>12, <1>13, <1>14 DEF Next

\* Where max_versions is never 0, the newest version only grows: whatever is
\* outdated stays so.
LEMMA OutdatedKept ==
    ASSUME TypeInv, RowsInv, LimitInv, 0 \notin Limits, [Next]_vars, NEW k \in Key, NEW v \in Nat
    PROVE  /\ \A w \in Versions(k) : \E m \in Versions(k)' : w <= m
           /\ Outdated(k, v) => Outdated(k, v)'
<1>0. Versions(k) \in SUBSET Nat /\ HasMax(Versions(k)) /\ Versions(k)' \subseteq Nat
  <2>1. TypeInv'
    BY TypeStep
  <2>2. Versions(k)' \subseteq Nat
    BY <2>1 DEF Versions, Rows, TypeInv, TypeOK, Secret
  <2> QED
    BY <2>2, VersionsType DEF RowsInv
<1>1. \A w \in Versions(k) : \E m \in Versions(k)' : w <= m
  <2>1. CASE Versions(k) \subseteq Versions(k)'
    BY <1>0, <2>1
  <2>2. CASE UNCHANGED secrets
    BY <2>1, <2>2 DEF Versions, Rows
  <2>3. ASSUME NEW r \in Request, Inserted(r)
        PROVE  Versions(k) \subseteq Versions(k)'
    BY <2>3, InsertRows DEF Inserted
  <2>4. ASSUME NEW r \in Request, Prune(r)
        PROVE  \A w \in Versions(k) : \E m \in Versions(k)' : w <= m
    <3>1. req[r].max \in Nat /\ req[r].max # 0
      BY <2>4, KvAssumption DEF LimitInv, Max_versions, Prune
    <3>2. \/ Versions(k)' = Versions(k)
          \/ Versions(k)' = Newest(Versions(k), req[r].max)
      BY <2>4, PruneRows
    <3> QED
      BY <1>0, <2>1, <3>1, <3>2, MaxPruned
  <2>5. ASSUME NEW r \in Request, NEW u \in 1..MaxVersion, Update(r, u)
        PROVE  Versions(k) \subseteq Versions(k)'
    BY <2>5, UpdateRows
  <2> QED
    BY <2>1, <2>2, <2>3, <2>4, <2>5, WriteSteps
<1>2. ASSUME NEW n \in Max_versions, NEW w \in Versions(k), v + n <= w
      PROVE  \E m \in Versions(k)' : v + n <= m
  <2>1. PICK m \in Versions(k)' : w <= m
    BY <1>1
  <2>2. n \in Nat
    BY KvAssumption DEF Max_versions
  <2> QED
    BY <1>0, <1>2, <2>1, <2>2
<1> QED
  BY <1>1, <1>2 DEF Outdated, Max_versions

\* A version of key k that a prune removes is outdated.
LEMMA PrunedOutdated ==
    ASSUME TypeInv, RowsInv, LimitInv, 0 \notin Limits, [Next]_vars,
           NEW r \in Request, Prune(r), NEW k \in Key, NEW v \in Versions(k), v \notin Versions(k)'
    PROVE  Outdated(k, v)'
<1>1. k = req[r].key /\ v \notin Newest(Versions(k), req[r].max)
  BY PruneRows
<1>2. req[r].max \in Max_versions
  BY DEF LimitInv, Prune
<1>3. PICK w \in Versions(k) : v + req[r].max <= w
  BY <1>1 DEF Newest
<1>4. Outdated(k, v)
  BY <1>2, <1>3 DEF Outdated, Max_versions
<1>5. v \in Nat
  BY VersionsType
<1> QED
  BY <1>4, <1>5, OutdatedKept

\* A version that exists stays, with its value, or is outdated.
Holds(k, v, d) == \E x \in Rows(k) : x.version = v /\ x.value \in {d, None}
Kept(k, v, d) == Holds(k, v, d) \/ Outdated(k, v)

LEMMA KeptStep ==
    ASSUME TypeInv, RowsInv, LimitInv, 0 \notin Limits, [Next]_vars,
           NEW k \in Key, NEW v \in Nat, NEW d
    PROVE  /\ Kept(k, v, d) => Kept(k, v, d)'
           /\ v \in Versions(k) \/ Outdated(k, v) => (v \in Versions(k) \/ Outdated(k, v))'
<1>1. Outdated(k, v) => Outdated(k, v)'
  BY OutdatedKept
<1>2. ASSUME NEW x \in secrets, x.key = k, x.version = v
      PROVE  \/ \E y \in secrets' : y.key = k /\ y.version = v /\ y.value \in {x.value, None}
             \/ Outdated(k, v)'
  <2>1. CASE x \in secrets'
    BY <1>2, <2>1
  <2>2. ASSUME NEW r \in Request, Prune(r), x \notin secrets'
        PROVE  Outdated(k, v)'
    <3>1. v \in Versions(k)
      BY <1>2 DEF Versions, Rows
    <3>2. v \notin Versions(k)'
      <4>1. ASSUME NEW y \in secrets', y.key = k, y.version = v
            PROVE  FALSE
        <5>1. y \in secrets
          BY <2>2 DEF Prune
        <5> QED
          BY <1>2, <2>2, <4>1, <5>1 DEF RowsInv, RowsDistinct
      <4> QED
        BY <4>1 DEF Versions, Rows
    <3> QED
      BY <2>2, <3>1, <3>2, PrunedOutdated
  <2>3. ASSUME NEW r \in Request, NEW u \in 1..MaxVersion, Update(r, u)
        PROVE  \E y \in secrets' : y.key = k /\ y.version = v /\ y.value \in {x.value, None}
    BY <1>2, <2>3, UpdateRows
  <2> QED
    BY <2>1, <2>2, <2>3, WriteSteps DEF Inserted
<1>3. Holds(k, v, d) => Kept(k, v, d)'
  <2>1. ASSUME NEW x \in secrets, x.key = k, x.version = v, x.value \in {d, None}
        PROVE  Kept(k, v, d)'
    BY <1>2, <2>1 DEF Kept, Holds, Rows
  <2> QED
    BY <2>1 DEF Holds, Rows
<1>4. v \in Versions(k) => (v \in Versions(k) \/ Outdated(k, v))'
  <2>1. ASSUME NEW x \in secrets, x.key = k, x.version = v
        PROVE  (v \in Versions(k) \/ Outdated(k, v))'
    BY <1>2, <2>1 DEF Versions, Rows
  <2> QED
    BY <2>1 DEF Versions, Rows
<1> QED
  BY <1>1, <1>3, <1>4 DEF Kept

\* What was acknowledged, and what an add has stored but not yet answered, is
\* kept; so is the version that a read has chosen.
AckInv ==
    /\ \A a \in acked : Kept(a.key, a.version, a.datum)
    /\ \A r \in Request :
          req[r].pc \in {"load", "default", "prune", "answer"} /\ req[r].key # None =>
              Kept(req[r].key, req[r].version, req[r].datum)

ReadInv ==
    \A r \in Request :
        req[r].pc = "get" /\ req[r].version # 0 =>
            req[r].version \in Versions(req[r].key) \/ Outdated(req[r].key, req[r].version)

Stored == {"load", "default", "prune", "answer"}

\* What a step keeps of AckInv and ReadInv, if they promise nothing more, or
\* what they promise holds.
LEMMA PromisesKept ==
    ASSUME TypeInv, RowsInv, LimitInv, 0 \notin Limits, [Next]_vars, AckInv, ReadInv,
           acked' \subseteq acked \cup {a \in Add : Kept(a.key, a.version, a.datum)},
           \A q \in Request :
               \/ req'[q].pc \notin Stored \cup {"get"}
               \/ req'[q].key = None /\ req'[q].pc # "get"
               \/ /\ req[q].pc \in Stored /\ req'[q].pc \in Stored
                  /\ req'[q].key = req[q].key /\ req'[q].version = req[q].version
                  /\ req'[q].datum = req[q].datum
               \/ req'[q] = req[q]
               \/ req'[q].pc \in Stored /\ Kept(req[q].key, req[q].version, req[q].datum)'
               \/ req'[q].pc = "get" /\ (req[q].version # 0 => req[q].version \in Versions(req[q].key))'
    PROVE  AckInv' /\ ReadInv'
<1>0. \A r \in Request : req[r] \in Handler
  BY DEF TypeInv, TypeOK
<1>1. ASSUME NEW a \in acked'
      PROVE  Kept(a.key, a.version, a.datum)'
  <2>1. a \in Add /\ Kept(a.key, a.version, a.datum)
    BY DEF AckInv, TypeInv, TypeOK
  <2>2. PICK k \in Key, v \in Nat, d \in Data : a = [key |-> k, version |-> v, datum |-> d]
    BY <2>1 DEF Add
  <2>3. Kept(k, v, d)
    BY <2>1, <2>2
  <2>4. Kept(k, v, d)'
    BY <2>3, KeptStep
  <2> QED
    BY <2>2, <2>4
<1>2. ASSUME NEW q \in Request, req'[q].pc \in Stored, req'[q].key # None,
             ~ Kept(req[q].key, req[q].version, req[q].datum)'
      PROVE  FALSE
  <2>1. /\ req[q].pc \in Stored
        /\ req'[q].key = req[q].key /\ req'[q].version = req[q].version
        /\ req'[q].datum = req[q].datum
    BY <1>2 DEF Stored
  <2>2. PICK k, v, d : k = req[q].key /\ v = req[q].version /\ d = req[q].datum
    OBVIOUS
  <2>3. k \in Key /\ v \in Nat
    BY <1>0, <1>2, <2>1, <2>2 DEF Handler
  <2>4. Kept(k, v, d)
    BY <1>2, <2>1, <2>2 DEF AckInv, Stored
  <2>5. Kept(k, v, d)'
    BY <2>3, <2>4, KeptStep
  <2> QED
    BY <1>2, <2>1, <2>2, <2>5
<1>3. ASSUME NEW q \in Request, req'[q].pc = "get", req'[q].version # 0,
             ~ (req[q].version \in Versions(req[q].key) \/ Outdated(req[q].key, req[q].version))'
      PROVE  FALSE
  <2>1. req'[q] = req[q]
    BY <1>3 DEF Stored
  <2>2. PICK k, v : k = req[q].key /\ v = req[q].version
    OBVIOUS
  <2>3. k \in Key /\ v \in Nat
    BY <1>0, <1>3, <2>1, <2>2 DEF Handler, TypeInv, HandlersOK, Sound
  <2>4. v \in Versions(k) \/ Outdated(k, v)
    BY <1>3, <2>1, <2>2 DEF ReadInv
  <2>5. (v \in Versions(k) \/ Outdated(k, v))'
    BY <2>3, <2>4, KeptStep
  <2> QED
    BY <1>3, <2>1, <2>2, <2>5
<1> QED
  BY <1>1, <1>2, <1>3 DEF AckInv, ReadInv, Stored

LEMMA PromisesStep ==
    TypeInv /\ RowsInv /\ LimitInv /\ 0 \notin Limits /\ AckInv /\ ReadInv /\ [Next]_vars
        => AckInv' /\ ReadInv'
<1> SUFFICES ASSUME TypeInv, RowsInv, LimitInv, 0 \notin Limits, AckInv, ReadInv, [Next]_vars
             PROVE  AckInv' /\ ReadInv'
  OBVIOUS
<1> USE DEF history
<1>0. \A r \in Request : req[r] \in Handler
  BY DEF TypeInv, TypeOK
<1>1. ASSUME NEW r \in Request, NEW h, Becomes(r, h), h.pc \notin Stored \cup {"get"}, UNCHANGED acked
      PROVE  AckInv' /\ ReadInv'
  BY <1>1, PromisesKept DEF Becomes
<1>2. ASSUME NEW r \in Request, Done(r), UNCHANGED acked
      PROVE  AckInv' /\ ReadInv'
  BY <1>1, <1>2, DoneEffect, IdleType DEF Stored
<1>3. ASSUME NEW r \in Request, NEW h, Becomes(r, h), UNCHANGED acked, h.pc \in Stored,
             req[r].pc \in Stored,
             h.key = req[r].key /\ h.version = req[r].version /\ h.datum = req[r].datum
      PROVE  AckInv' /\ ReadInv'
  BY <1>3, PromisesKept DEF Becomes
<1>4. ASSUME NEW r \in Request, NEW pc \in {"default", "answer"}, Goto(r, pc), req[r].pc \in Stored,
             UNCHANGED acked
      PROVE  AckInv' /\ ReadInv'
  <2> DEFINE h == [req[r] EXCEPT !.pc = pc]
  <2>1. /\ Becomes(r, h) /\ h.pc \in Stored
        /\ h.key = req[r].key /\ h.version = req[r].version /\ h.datum = req[r].datum
    BY <1>0, <1>4, GotoEffect DEF Handler, Stored
  <2> HIDE DEF h
  <2> QED
    BY <1>3, <1>4, <2>1
<1>5. ASSUME NEW r \in Request, NEW n \in Nat, Configured(r, n), req[r].pc \in Stored, UNCHANGED acked
      PROVE  AckInv' /\ ReadInv'
  <2> DEFINE h == [req[r] EXCEPT !.pc = "prune", !.max = n]
  <2>1. /\ h.pc \in Stored
        /\ h.key = req[r].key /\ h.version = req[r].version /\ h.datum = req[r].datum
    BY <1>0 DEF Handler, Stored
  <2>2. Becomes(r, Idle) \/ Becomes(r, h)
    BY <1>5, ConfiguredEffect
  <2> HIDE DEF h
  <2> QED
    BY <1>1, <1>3, <1>5, <2>1, <2>2, IdleType DEF Stored
<1>6. ASSUME NEW r \in Request, NEW k \in Key, NEW d \in Data, BeginAdd(r, k, d)
      PROVE  AckInv' /\ ReadInv'
  <2>1. PICK v \in Nat :
            Becomes(r, [Idle EXCEPT !.pc = "insert", !.key = k, !.version = v, !.datum = d])
    BY <1>6, BeginAddEffect
  <2> QED
    BY <1>1, <1>6, <2>1 DEF BeginAdd, Idle, Stored
<1>7. ASSUME NEW r \in Request, Insert(r)
      PROVE  AckInv' /\ ReadInv'
  <2>1. CASE Inserted(r) /\ Goto(r, "load") /\ UNCHANGED acked
    <3> DEFINE h == [req[r] EXCEPT !.pc = "load"]
    <3>1. /\ Becomes(r, h) /\ h.pc \in Stored
          /\ h.key = req[r].key /\ h.version = req[r].version /\ h.datum = req[r].datum
      BY <1>0, <2>1, GotoEffect DEF Handler, Stored
    <3>2. /\ NewSecret(r) \in secrets'
          /\ NewSecret(r).key = req[r].key /\ NewSecret(r).version = req[r].version
          /\ NewSecret(r).value = req[r].datum
      BY <2>1, NewSecretType DEF Inserted
    <3> HIDE DEF h
    <3>3. Kept(req[r].key, req[r].version, req[r].datum)'
      BY <3>1, <3>2 DEF Becomes, Kept, Holds, Rows
    <3> QED
      BY <2>1, <3>1, <3>3, PromisesKept DEF Becomes
  <2> QED
    BY <1>2, <1>7, <2>1 DEF Insert, Inserted
<1>8. ASSUME NEW r \in Request, LoadConfig(r)
      PROVE  AckInv' /\ ReadInv'
  <2>1. config # None => config \in Nat
    BY DEF TypeInv, TypeOK
  <2> QED
    BY <1>4, <1>5, <1>8, <2>1 DEF LoadConfig, Stored
<1>9. ASSUME NEW r \in Request, StoreDefault(r)
      PROVE  AckInv' /\ ReadInv'
  BY <1>5, <1>9, KvAssumption DEF StoreDefault, Stored
<1>10. ASSUME NEW r \in Request, Prune(r)
       PROVE  AckInv' /\ ReadInv'
  BY <1>4, <1>10 DEF Prune, Stored
<1>11. ASSUME NEW r \in Request, Answer(r)
       PROVE  AckInv' /\ ReadInv'
  <2> DEFINE a == [key |-> req[r].key, version |-> req[r].version, datum |-> req[r].datum]
  <2>1. req[r].key \in Key /\ req[r].datum \in Data /\ req[r].version \in Nat
    BY <1>0, <1>11 DEF Answer, TypeInv, HandlersOK, Sound, Adding, Handler
  <2>2. a \in Add /\ a.key = req[r].key /\ a.version = req[r].version /\ a.datum = req[r].datum
    BY <2>1 DEF Add
  <2>3. acked' = acked \cup {a}
    BY <1>11 DEF Answer
  <2> HIDE DEF a
  <2>4. Kept(a.key, a.version, a.datum)
    BY <1>11, <2>1, <2>2, KvAssumption DEF AckInv, Answer
  <2>5. Becomes(r, Idle)
    BY <1>11, DoneEffect DEF Answer
  <2> QED
    BY <2>2, <2>3, <2>4, <2>5, IdleType, PromisesKept DEF Becomes, Stored
<1>12. ASSUME NEW r \in Request, BeginReadConfig(r)
       PROVE  AckInv' /\ ReadInv'
  <2>1. Becomes(r, [Idle EXCEPT !.pc = "load"]) /\ UNCHANGED acked
    BY <1>12, ReadConfigEffect DEF BeginReadConfig
  <2>2. req'[r].key = None /\ req'[r].pc = "load"
    BY <2>1 DEF Becomes, Idle
  <2> QED
    BY <2>1, <2>2, PromisesKept DEF Becomes
<1>13. ASSUME NEW r \in Request, NEW k \in Key, BeginRead(r, k)
       PROVE  AckInv' /\ ReadInv'
  <2>1. PICK v \in Nat :
            IsMaxVersion(k, v) /\ Becomes(r, [Idle EXCEPT !.pc = "get", !.key = k, !.version = v])
    BY <1>13, BeginReadEffect
  <2>2. /\ req'[r].pc = "get" /\ req'[r].key = k /\ req'[r].version = v
        /\ \A q \in Request : q # r => req'[q] = req[q]
    BY <2>1 DEF Becomes, Idle
  <2>3. v # 0 => v \in Versions(k)'
    BY <1>13, <2>1 DEF IsMaxVersion, BeginRead, Versions, Rows
  <2> QED
    BY <1>13, <2>2, <2>3, PromisesKept DEF BeginRead
<1>14. ASSUME NEW r \in Request, Get(r) \/ Cancel(r)
       PROVE  AckInv' /\ ReadInv'
  BY <1>2, <1>14 DEF Get, Cancel
<1>15. ASSUME NEW r \in Request, NEW k \in Key, NEW op \in {"delete", "undelete", "destroy"},
              NEW vs \in SUBSET (1..MaxVersion), BeginUpdate(r, k, op, vs)
       PROVE  AckInv' /\ ReadInv'
  <2>1. Becomes(r, [Idle EXCEPT !.pc = "update", !.key = k, !.op = op, !.todo = vs])
    BY <1>15, BeginUpdateEffect
  <2> QED
    BY <1>1, <1>15, <2>1 DEF BeginUpdate, Idle, Stored
<1>16. ASSUME NEW r \in Request, NEW v \in 1..MaxVersion, Update(r, v)
       PROVE  AckInv' /\ ReadInv'
  <2>1. [req[r] EXCEPT !.todo = @ \ {v}].pc = "update"
    BY <1>0, <1>16 DEF Update, Handler
  <2> QED
    BY <1>1, <1>16, <2>1, UpdateEffect, IdleType DEF Update, Stored
<1>17. CASE UNCHANGED <<req, acked>>
  BY <1>17, PromisesKept
<1> QED
  BY <1>6, <1>7, <1>8, <1>9, <1>10, <1>11, <1>12, <1>13, <1>14, <1>15, <1>16, <1>17
     DEF Next, SetConfig, vars

KvInv == TypeInv /\ RowsInv /\ LimitInv /\ (0 \notin Limits => AckInv /\ ReadInv)

LEMMA KvInvariant == Spec => []KvInv
<1>1. Init => KvInv
  BY TypeInit, RowsInit, IdleType DEF Init, KvInv, LimitInv, AckInv, ReadInv
<1>2. KvInv /\ [Next]_vars => KvInv'
  BY TypeStep, RowsStep, LimitStep, PromisesStep DEF KvInv
<1> QED
  BY <1>1, <1>2, PTL DEF Spec

\* A write that was acknowledged keeps its version and its value until it is
\* destroyed or max_versions newer versions exist (add_secret).
THEOREM AcknowledgedCorrect == Spec => []AcknowledgedKept
<1>1. KvInv => AcknowledgedKept
  BY DEF KvInv, AckInv, Kept, Holds, AcknowledgedKept
<1> QED
  BY <1>1, KvInvariant, PTL

\* A read of the newest version finds it, or max_versions newer ones exist
\* (read_secret).
THEOREM ReadCorrect == Spec => []LatestFound
<1>1. KvInv => LatestFound
  BY DEF KvInv, ReadInv, LatestFound
<1> QED
  BY <1>1, KvInvariant, PTL

-----------------------------------------------------------------------------
(***************************************************************************)
(* The number of versions                                                  *)
(***************************************************************************)

\* A prune to n versions leaves at most n: they lie less than n apart.
LEMMA NewestBounded ==
    ASSUME NEW S \in SUBSET Nat, NEW n \in Nat, HasMax(S)
    PROVE  /\ IsFiniteSet(Newest(S, n))
           /\ Cardinality(Newest(S, n)) <= n
<1> DEFINE T == Newest(S, n)
<1>1. T \subseteq S /\ \A v, w \in T : w < v + n
  BY DEF Newest
<1>2. HasMax(T)
  BY MaxPruned
<1> HIDE DEF T
<1>3. CASE T = {}
  BY <1>3, FS_EmptySet DEF T
<1>4. ASSUME NEW m \in T, \A w \in T : w <= m
      PROVE  IsFiniteSet(T) /\ Cardinality(T) <= n
  <2>1. m \in Nat /\ m < m + n
    BY <1>1, <1>4
  <2>2. n >= 1 /\ m - n + 1 \in Int
    BY <2>1
  <2>3. T \subseteq (m - n + 1)..m
    <3>1. ASSUME NEW v \in T
          PROVE  v \in (m - n + 1)..m
      <4>1. v \in Nat /\ m < v + n /\ v <= m
        BY <1>1, <1>4
      <4> QED
        BY <2>1, <2>2, <4>1
    <3> QED
      BY <3>1
  <2>4. IsFiniteSet((m - n + 1)..m) /\ Cardinality((m - n + 1)..m) = n
    <3>1. ~ (m - n + 1 > m) /\ m - (m - n + 1) + 1 = n
      BY <2>1, <2>2
    <3> QED
      BY <2>1, <2>2, <3>1, FS_Interval
  <2> QED
    BY <2>3, <2>4, FS_Subset
<1> QED
  BY <1>2, <1>3, <1>4 DEF HasMax, T

LEMMA UnfinishedFinite ==
    ASSUME NEW k \in Key
    PROVE  IsFiniteSet(Unfinished(k)) /\ Cardinality(Unfinished(k)) \in Nat
<1>1. Unfinished(k) \in SUBSET Request
  BY DEF Unfinished
<1> QED
  BY <1>1, KvAssumption, FS_Subset, FS_CardinalityType

Count(k) == limit[k] + Cardinality(Unfinished(k)) + unpruned[k]

LEMMA CountType ==
    ASSUME TypeInv, RowsInv, NEW k \in Key
    PROVE  /\ limit[k] \in Nat /\ unpruned[k] \in Nat /\ Cardinality(Unfinished(k)) \in Nat
           /\ IsFiniteSet(Versions(k)) /\ Cardinality(Versions(k)) \in Nat
BY UnfinishedFinite, FS_CardinalityType DEF TypeInv, TypeOK, RowsInv

Waiting == {"load", "default", "prune"}

\* A step of request r that leaves it waiting for its prune, or not, as before
LEMMA SameUnfinished ==
    ASSUME NEW r \in Request, NEW h, Becomes(r, h), NEW k \in Key,
           h.pc \in Waiting /\ h.key = k <=> req[r].pc \in Waiting /\ req[r].key = k
    PROVE  Unfinished(k)' = Unfinished(k)
BY DEF Becomes, Unfinished, Waiting

\* A step by which request r begins to wait for its prune of k
LEMMA MoreUnfinished ==
    ASSUME NEW r \in Request, NEW h, Becomes(r, h), NEW k \in Key,
           h.pc \in Waiting /\ h.key = k, req[r].pc \notin Waiting
    PROVE  Cardinality(Unfinished(k))' = Cardinality(Unfinished(k)) + 1
<1>1. Unfinished(k)' = Unfinished(k) \cup {r} /\ r \notin Unfinished(k)
  BY DEF Becomes, Unfinished, Waiting
<1> QED
  BY <1>1, UnfinishedFinite, FS_AddElement

\* A step by which request r ends its wait for a prune of k
LEMMA LessUnfinished ==
    ASSUME NEW r \in Request, NEW h, Becomes(r, h), NEW k \in Key,
           h.pc \notin Waiting, req[r].pc \in Waiting /\ req[r].key = k
    PROVE  /\ Cardinality(Unfinished(k))' = Cardinality(Unfinished(k)) - 1
           /\ Cardinality(Unfinished(k))' \in Nat
<1>1. Unfinished(k)' = Unfinished(k) \ {r} /\ r \in Unfinished(k)
  BY DEF Becomes, Unfinished, Waiting
<1>2. /\ IsFiniteSet(Unfinished(k) \ {r})
      /\ Cardinality(Unfinished(k) \ {r}) = Cardinality(Unfinished(k)) - 1
  BY <1>1, UnfinishedFinite, FS_RemoveElement
<1>3. Cardinality(Unfinished(k) \ {r}) \in Nat
  BY <1>2, FS_CardinalityType
<1> QED
  BY <1>1, <1>2, <1>3

\* The steps that write neither SECRETS nor the history of prunes
LEMMA BoundKept ==
    ASSUME VersionsBounded, NEW r \in Request, NEW h, Becomes(r, h),
           h.pc \in Waiting /\ h.key # None => req[r].pc \in Waiting /\ req[r].key = h.key,
           req[r].pc \in Waiting /\ req[r].key # None => h.pc \in Waiting /\ req[r].key = h.key,
           UNCHANGED <<secrets, limit, unpruned>>
    PROVE  VersionsBounded'
<1>1. ASSUME NEW k \in Key
      PROVE  Cardinality(Versions(k))' <= limit'[k] + Cardinality(Unfinished(k))' + unpruned'[k]
  <2>1. Unfinished(k)' = Unfinished(k)
    BY KvAssumption, SameUnfinished
  <2>2. Versions(k)' = Versions(k)
    BY DEF Versions, Rows
  <2> QED
    BY <2>1, <2>2 DEF VersionsBounded
<1> QED
  BY <1>1 DEF VersionsBounded

LEMMA BoundInsert ==
    ASSUME TypeInv, RowsInv, VersionsBounded, NEW r \in Request, Inserted(r), Goto(r, "load"),
           UNCHANGED <<limit, unpruned>>
    PROVE  VersionsBounded'
<1> DEFINE h == [req[r] EXCEPT !.pc = "load"]
<1>1. /\ Becomes(r, h) /\ h.pc \in Waiting /\ h.key = req[r].key
      /\ req[r].pc \notin Waiting /\ req[r].pc = "insert" /\ req[r].version \in Nat
  BY GotoEffect DEF TypeInv, TypeOK, Handler, Waiting, Inserted
<1> HIDE DEF h
<1>2. ASSUME NEW k \in Key
      PROVE  Cardinality(Versions(k))' <= limit'[k] + Cardinality(Unfinished(k))' + unpruned'[k]
  <2>1. Cardinality(Versions(k)) <= limit[k] + Cardinality(Unfinished(k)) + unpruned[k]
    BY DEF VersionsBounded
  <2>2. CASE k = req[r].key
    <3>1. Versions(k)' = Versions(k) \cup {req[r].version}
      BY <1>1, <2>2, InsertRows DEF Inserted
    <3>2. Cardinality(Versions(k))' <= Cardinality(Versions(k)) + 1
      <4>1. IsFiniteSet(Versions(k)) /\ Cardinality(Versions(k)) \in Nat
        BY CountType
      <4>2. \/ Cardinality(Versions(k))' = Cardinality(Versions(k))
            \/ Cardinality(Versions(k))' = Cardinality(Versions(k)) + 1
        BY <3>1, <4>1, FS_AddElement
      <4> QED
        BY <4>1, <4>2
    <3>3. Cardinality(Unfinished(k))' = Cardinality(Unfinished(k)) + 1
      BY <1>1, <2>2, MoreUnfinished
    <3>4. Cardinality(Versions(k))' \in Nat
      BY <3>1, CountType, FS_AddElement, FS_CardinalityType
    <3> QED
      BY <2>1, <3>2, <3>3, <3>4, CountType
  <2>3. CASE k # req[r].key
    <3>1. Versions(k)' = Versions(k)
      BY <1>1, <2>3, InsertRows DEF Inserted
    <3>2. Unfinished(k)' = Unfinished(k)
      BY <1>1, <2>3, SameUnfinished
    <3> QED
      BY <2>1, <3>1, <3>2
  <2> QED
    BY <2>2, <2>3
<1> QED
  BY <1>2 DEF VersionsBounded

LEMMA BoundPrune ==
    ASSUME TypeInv, RowsInv, VersionsBounded, NEW r \in Request, Prune(r)
    PROVE  VersionsBounded'
<1> DEFINE h == [req[r] EXCEPT !.pc = "answer"]
<1>1. /\ Becomes(r, h) /\ h.pc \notin Waiting
      /\ req[r].pc \in Waiting /\ req[r].key \in Key /\ req[r].max \in Nat
  BY GotoEffect DEF Prune, TypeInv, TypeOK, HandlersOK, Sound, Handler, Waiting
<1> HIDE DEF h
<1>2. ASSUME NEW k \in Key
      PROVE  Cardinality(Versions(k))' <= limit'[k] + Cardinality(Unfinished(k))' + unpruned'[k]
  <2>1. Cardinality(Versions(k)) <= limit[k] + Cardinality(Unfinished(k)) + unpruned[k]
    BY DEF VersionsBounded
  <2>2. CASE k = req[r].key
    <3>1. Versions(k)' = Newest(Versions(k), req[r].max)
      BY <2>2, PruneRows
    <3>2. Versions(k) \in SUBSET Nat /\ HasMax(Versions(k))
      BY VersionsType DEF RowsInv
    <3>3. /\ Cardinality(Versions(k))' <= req[r].max
          /\ Cardinality(Versions(k))' \in Nat
      BY <1>1, <3>1, <3>2, NewestBounded, FS_CardinalityType
    <3>4. limit'[k] = req[r].max /\ unpruned'[k] = unpruned[k]
      BY <1>1, <2>2 DEF Prune, TypeInv, TypeOK
    <3>5. Cardinality(Unfinished(k))' \in Nat
      BY <1>1, <2>2, LessUnfinished
    <3> QED
      BY <1>1, <3>3, <3>4, <3>5, CountType
  <2>3. CASE k # req[r].key
    <3>1. Versions(k)' = Versions(k)
      BY <2>3, PruneRows
    <3>2. Unfinished(k)' = Unfinished(k)
      BY <1>1, <2>3, SameUnfinished
    <3>3. limit'[k] = limit[k] /\ unpruned'[k] = unpruned[k]
      BY <2>3 DEF Prune, TypeInv, TypeOK
    <3> QED
      BY <2>1, <3>1, <3>2, <3>3
  <2> QED
    BY <2>2, <2>3
<1> QED
  BY <1>2 DEF VersionsBounded

LEMMA BoundCancel ==
    ASSUME TypeInv, RowsInv, VersionsBounded, NEW r \in Request, Cancel(r)
    PROVE  VersionsBounded'
<1>1. /\ Becomes(r, Idle) /\ Idle.pc \notin Waiting /\ Idle.key = None
      /\ req[r].key \in Key \cup {None}
  BY DoneEffect, IdleType DEF Cancel, Waiting, TypeInv, TypeOK, Handler
<1>2. CASE req[r].pc \in Waiting /\ req[r].key # None
  <2>1. ASSUME NEW k \in Key
        PROVE  Cardinality(Versions(k))' <= limit'[k] + Cardinality(Unfinished(k))' + unpruned'[k]
    <3>1. Cardinality(Versions(k)) <= limit[k] + Cardinality(Unfinished(k)) + unpruned[k]
      BY DEF VersionsBounded
    <3>2. Versions(k)' = Versions(k) /\ limit'[k] = limit[k]
      BY DEF Cancel, Versions, Rows
    <3>3. CASE k = req[r].key
      <4>1. unpruned'[k] = unpruned[k] + 1
        BY <1>2, <3>3 DEF Cancel, Waiting, TypeInv, TypeOK
      <4>2. Cardinality(Unfinished(k))' = Cardinality(Unfinished(k)) - 1
        BY <1>1, <1>2, <3>3, LessUnfinished
      <4> QED
        BY <3>1, <3>2, <4>1, <4>2, CountType
    <3>4. CASE k # req[r].key
      <4>1. unpruned'[k] = unpruned[k]
        BY <1>2, <3>4 DEF Cancel, Waiting, TypeInv, TypeOK
      <4>2. Unfinished(k)' = Unfinished(k)
        BY <1>1, <3>4, SameUnfinished
      <4> QED
        BY <3>1, <3>2, <4>1, <4>2
    <3> QED
      BY <3>3, <3>4
  <2> QED
    BY <2>1 DEF VersionsBounded
<1>3. CASE ~ (req[r].pc \in Waiting /\ req[r].key # None)
  BY <1>1, <1>3, BoundKept DEF Cancel, Waiting
<1> QED
  BY <1>2, <1>3

LEMMA BoundStep == TypeInv /\ RowsInv /\ VersionsBounded /\ [Next]_vars => VersionsBounded'
<1> SUFFICES ASSUME TypeInv, RowsInv, VersionsBounded, [Next]_vars
             PROVE  VersionsBounded'
  OBVIOUS
<1> USE DEF history
<1>0. \A r \in Request : req[r] \in Handler
  BY DEF TypeInv, TypeOK
<1>1. ASSUME NEW r \in Request, NEW h, Becomes(r, h), h.pc \notin Waiting, req[r].pc \notin Waiting,
             UNCHANGED <<secrets, limit, unpruned>>
      PROVE  VersionsBounded'
  BY <1>1, BoundKept
<1>2. ASSUME NEW r \in Request, Done(r), req[r].pc \notin Waiting,
             UNCHANGED <<secrets, limit, unpruned>>
      PROVE  VersionsBounded'
  BY <1>1, <1>2, DoneEffect, IdleType DEF Waiting
<1>3. ASSUME NEW r \in Request, NEW n \in Nat, Configured(r, n), req[r].pc \in Waiting,
             UNCHANGED <<secrets, limit, unpruned>>
      PROVE  VersionsBounded'
  <2> DEFINE h == [req[r] EXCEPT !.pc = "prune", !.max = n]
  <2>1. h.pc \in Waiting /\ h.key = req[r].key
    BY <1>0 DEF Handler, Waiting
  <2>2. \/ req[r].key = None /\ Becomes(r, Idle)
        \/ Becomes(r, h)
    BY <1>3, ConfiguredEffect
  <2> HIDE DEF h
  <2> QED
    BY <1>3, <2>1, <2>2, IdleType, BoundKept DEF Waiting
<1>4. ASSUME NEW r \in Request, NEW k \in Key, NEW d \in Data, BeginAdd(r, k, d)
      PROVE  VersionsBounded'
  <2>1. PICK v \in Nat :
            Becomes(r, [Idle EXCEPT !.pc = "insert", !.key = k, !.version = v, !.datum = d])
    BY <1>4, BeginAddEffect
  <2> QED
    BY <1>1, <1>4, <2>1 DEF BeginAdd, Idle, Waiting
<1>5. ASSUME NEW r \in Request, Insert(r)
      PROVE  VersionsBounded'
  BY <1>2, <1>5, BoundInsert DEF Insert, Inserted, Waiting
<1>6. ASSUME NEW r \in Request, LoadConfig(r)
      PROVE  VersionsBounded'
  <2>1. CASE Goto(r, "default") /\ UNCHANGED <<secrets, limit, unpruned>>
    <3> DEFINE h == [req[r] EXCEPT !.pc = "default"]
    <3>1. Becomes(r, h) /\ h.pc \in Waiting /\ h.key = req[r].key /\ req[r].pc \in Waiting
      BY <1>0, <1>6, <2>1, GotoEffect DEF LoadConfig, Handler, Waiting
    <3> HIDE DEF h
    <3> QED
      BY <2>1, <3>1, BoundKept
  <2>2. config # None => config \in Nat
    BY DEF TypeInv, TypeOK
  <2> QED
    BY <1>3, <1>6, <2>1, <2>2 DEF LoadConfig, Waiting
<1>7. ASSUME NEW r \in Request, StoreDefault(r)
      PROVE  VersionsBounded'
  BY <1>3, <1>7, KvAssumption DEF StoreDefault, Waiting
<1>8. ASSUME NEW r \in Request, Answer(r) \/ Get(r)
      PROVE  VersionsBounded'
  BY <1>2, <1>8 DEF Answer, Get, Waiting
<1>9. ASSUME NEW r \in Request, BeginReadConfig(r)
      PROVE  VersionsBounded'
  <2> DEFINE h == [Idle EXCEPT !.pc = "load"]
  <2>1. Becomes(r, h) /\ h.key = None /\ req[r].pc = "idle"
    BY <1>9, ReadConfigEffect DEF BeginReadConfig, Idle
  <2> HIDE DEF h
  <2> QED
    BY <1>9, <2>1, BoundKept DEF BeginReadConfig, Waiting
<1>10. ASSUME NEW r \in Request, NEW k \in Key, BeginRead(r, k)
       PROVE  VersionsBounded'
  <2>1. PICK v \in Nat : Becomes(r, [Idle EXCEPT !.pc = "get", !.key = k, !.version = v])
    BY <1>10, BeginReadEffect
  <2> QED
    BY <1>1, <1>10, <2>1 DEF BeginRead, Idle, Waiting
<1>11. ASSUME NEW r \in Request, NEW k \in Key, NEW op \in {"delete", "undelete", "destroy"},
              NEW vs \in SUBSET (1..MaxVersion), BeginUpdate(r, k, op, vs)
       PROVE  VersionsBounded'
  <2>1. Becomes(r, [Idle EXCEPT !.pc = "update", !.key = k, !.op = op, !.todo = vs])
    BY <1>11, BeginUpdateEffect
  <2> QED
    BY <1>1, <1>11, <2>1 DEF BeginUpdate, Idle, Waiting
<1>12. ASSUME NEW r \in Request, NEW v \in 1..MaxVersion, Update(r, v)
       PROVE  VersionsBounded'
  <2>1. req[r].pc = "update" /\ UNCHANGED <<limit, unpruned>>
    BY <1>12 DEF Update
  <2>2. PICK h : Becomes(r, h) /\ h.pc \notin Waiting
    <3>1. CASE Becomes(r, Idle)
      <4>1. Idle.pc \notin Waiting
        BY DEF Idle, Waiting
      <4> QED
        BY <3>1, <4>1
    <3>2. CASE Becomes(r, [req[r] EXCEPT !.todo = @ \ {v}])
      <4> DEFINE g == [req[r] EXCEPT !.todo = @ \ {v}]
      <4>1. g.pc \notin Waiting
        BY <1>0, <2>1 DEF Handler, Waiting
      <4>2. Becomes(r, g)
        BY <3>2
      <4> HIDE DEF g
      <4> QED
        BY <4>1, <4>2
    <3> QED
      BY <1>12, <3>1, <3>2, UpdateEffect
  <2>3. ASSUME NEW k \in Key
        PROVE  Versions(k)' = Versions(k) /\ Unfinished(k)' = Unfinished(k)
    BY <1>12, <2>1, <2>2, UpdateRows, SameUnfinished DEF Waiting
  <2>4. ASSUME NEW k \in Key
        PROVE  Cardinality(Versions(k))' <= limit'[k] + Cardinality(Unfinished(k))' + unpruned'[k]
    BY <2>1, <2>3 DEF VersionsBounded
  <2> QED
    BY <2>4 DEF VersionsBounded
<1>13. CASE UNCHANGED <<secrets, req, limit, unpruned>>
  BY <1>13 DEF VersionsBounded, Versions, Rows, Unfinished
<1> QED
  BY <1>4, <1>5, <1>6, <1>7, <1>8, <1>9, <1>10, <1>11, <1>12, <1>13, BoundPrune, BoundCancel
     DEF Next, SetConfig, vars

\* However adds, prunes and changes of the configuration interleave, a key has
\* no more versions than its last prune allowed, besides those of adds that
\* have not pruned (prune_old_versions).
THEOREM BoundCorrect == Spec => []VersionsBounded
<1>1. Init => VersionsBounded
  <2>1. Init => \A k \in Key : Versions(k) = {} /\ Unfinished(k) = {}
    BY IdleType DEF Init, Versions, Rows, Unfinished
  <2> QED
    BY <2>1, FS_EmptySet DEF Init, VersionsBounded
<1>2. KvInv /\ VersionsBounded /\ [Next]_vars => VersionsBounded'
  BY BoundStep DEF KvInv
<1> QED
  BY <1>1, <1>2, KvInvariant, PTL DEF Spec
=============================================================================
