---------------------------- MODULE SealProofs -----------------------------
(***************************************************************************)
(* Theorems about SealLifecycle, for every value of its constants.         *)
(***************************************************************************)
EXTENDS SealLifecycle, FiniteSetTheorems, TLAPS

-----------------------------------------------------------------------------
(***************************************************************************)
(* The inductive invariant                                                 *)
(***************************************************************************)

\* What the handlers know from the steps before.
HandlersOK ==
    \A r \in Request :
        /\ req[r].pc \in {"setconfig", "create"} => req[r].params \in InitParams
        /\ req[r].pc \in {"store", "route"} => req[r].todo \subseteq Mount
        /\ req[r].pc \in {"insert", "clear", "open", "forget"} => pool # "uninitialized"

TypeInv == TypeOK /\ HandlersOK

\* The one init request that got its configuration stored deals the shares.
ConfigInv ==
    /\ \A r \in Request : req[r].pc = "create" => config = req[r].params
    /\ ConfigMatchesDeal

\* This process was given enough genuine shares.
Enough == Cardinality(submitted \cap dealt.shares) >= dealt.threshold

KeyInv ==
    /\ shares \subseteq submitted
    /\ \A r \in Request : req[r].pc \in {"clear", "open"} => Enough
    /\ pool = "unsealed" => Enough

\* When seals overlap nothing, a seal is alone, one request opens the pool at
\* a time, and neither loses the state of the pool it relies on.
AloneInv ==
    SealAlone =>
        /\ \A r, q \in Request : Sealing(r) /\ q # r => req[q].pc = "idle"
        /\ \A r \in Request : req[r].pc = "seal" => pool = "unsealed"
        /\ \A r \in Request : req[r].pc \in {"stop", "unroute"} => pool = "sealed"
        /\ \A r \in Request : Opening(r) \/ req[r].pc = "store" => pool = "unsealed"
        /\ \A r, q \in Request : Opening(r) /\ Opening(q) => r = q

\* One worker is not yet, or no longer, matched by a stop message.
Unmatched ==
    \/ pool = "unsealed" /\ \A r \in Request : ~ Opening(r)
    \/ \E r \in Request : req[r].pc = "stop"

\* Between the steps of unseal and seal too, and no worker is caught by a seal
\* in the middle of its scan.
WorkersInv ==
    SealAlone /\ InstantScan =>
        /\ Workers + lost = stops + (IF Unmatched THEN 1 ELSE 0)
        /\ worker = "peek" => pool = "unsealed"

\* Every mount that is routed and not stored, or the other way round, is one
\* that a request in progress is about to store, or to route, or that a request
\* which failed has left behind.
RoutesInv ==
    SealAlone =>
        /\ \A r \in Request : req[r].pc = "store" => req[r].todo \subseteq routes
        /\ \A r \in Request : req[r].pc = "route" => req[r].todo \subseteq mounts
        /\ pool = "unsealed" =>
              \A m \in routes :
                  \/ m \in mounts \cup unstored
                  \/ \E r \in Request : req[r].pc = "store" /\ m \in req[r].todo
        /\ pool = "unsealed" =>
              \A m \in mounts \cap RootMount :
                  \/ halfway
                  \/ m \in routes
                  \/ \E r \in Request : req[r].pc \in {"forget", "migrate", "list"}
                  \/ \E r \in Request : req[r].pc = "route" /\ m \in req[r].todo
        /\ pool # "unsealed" =>
              routes = {} \/ \E r \in Request : req[r].pc \in {"stop", "unroute"}

-----------------------------------------------------------------------------
(***************************************************************************)
(* Type correctness                                                        *)
(***************************************************************************)

LEMMA IdleType == Idle \in Handler /\ Idle.pc = "idle"
BY DEF Idle, Handler

LEMMA InitType == Init => TypeInv
<1> SUFFICES ASSUME Init PROVE TypeInv
  OBVIOUS
<1>1. req \in [Request -> Handler] /\ \A r \in Request : req[r].pc = "idle"
  BY IdleType DEF Init
<1>2. dealt \in Deal
  BY DEF Init, NoDeal, Deal
<1>3. cancels \in 0 .. MaxCancels /\ stops \in 0 .. 1
  BY SealAssumption DEF Init
<1> QED
  BY <1>1, <1>2, <1>3 DEF Init, TypeInv, TypeOK, HandlersOK

\* How a step of request r changes the requests.
Becomes(r, h) ==
    /\ req' \in [Request -> Handler]
    /\ req'[r] = h
    /\ \A q \in Request : q # r => req'[q] = req[q]

LEMMA SetReqEffect ==
    ASSUME req \in [Request -> Handler], NEW r \in Request, NEW h \in Handler, SetReq(r, h)
    PROVE  Becomes(r, h)
BY DEF SetReq, Becomes

LEMMA DoneEffect ==
    ASSUME req \in [Request -> Handler], NEW r \in Request, Done(r)
    PROVE  Becomes(r, Idle)
BY SetReqEffect, IdleType DEF Done

\* The next step of a handler, with nothing else changed.
GoesTo(r, pc) ==
    /\ Becomes(r, req'[r])
    /\ req'[r].pc = pc
    /\ req'[r].todo = req[r].todo
    /\ req'[r].params = req[r].params

LEMMA GotoEffect ==
    ASSUME req \in [Request -> Handler], NEW r \in Request,
           NEW pc \in {"create", "reject", "clear", "open", "forget", "migrate", "list",
                       "stop", "unroute"},
           Goto(r, pc)
    PROVE  GoesTo(r, pc)
<1> DEFINE h == [req[r] EXCEPT !.pc = pc]
<1>1. req[r] \in Handler
  OBVIOUS
<1>2. h \in Handler /\ h.pc = pc /\ h.todo = req[r].todo /\ h.params = req[r].params
  BY <1>1 DEF Handler
<1>3. SetReq(r, h)
  BY DEF Goto
<1> HIDE DEF h
<1>4. Becomes(r, h)
  BY <1>2, <1>3, SetReqEffect
<1> QED
  BY <1>2, <1>4 DEF GoesTo, Becomes

LEMMA TodoEffect ==
    ASSUME req \in [Request -> Handler], NEW r \in Request, NEW x,
           SetReq(r, [req[r] EXCEPT !.todo = @ \ {x}])
    PROVE  /\ Becomes(r, req'[r])
           /\ req'[r].pc = req[r].pc
           /\ req'[r].todo = req[r].todo \ {x}
<1> DEFINE h == [req[r] EXCEPT !.todo = @ \ {x}]
<1>1. req[r] \in Handler
  OBVIOUS
<1>2. h \in Handler /\ h.pc = req[r].pc /\ h.todo = req[r].todo \ {x}
  BY <1>1 DEF Handler
<1>3. SetReq(r, h)
  OBVIOUS
<1> HIDE DEF h
<1>4. Becomes(r, h)
  BY <1>2, <1>3, SetReqEffect
<1> QED
  BY <1>2, <1>4 DEF Becomes

\* The handlers that the first step of a request, and ListMounts, install.
LEMMA NewHandlers ==
    /\ \A p \in InitParams :
          LET h == [Idle EXCEPT !.pc = "setconfig", !.params = p]
          IN  h \in Handler /\ h.pc = "setconfig" /\ h.params = p
    /\ \A S \in SUBSET Share :
          LET h == [Idle EXCEPT !.pc = "insert", !.todo = S]
          IN  h \in Handler /\ h.pc = "insert"
    /\ \A S \in SUBSET Mount :
          LET h == [Idle EXCEPT !.pc = "store", !.todo = S]
          IN  h \in Handler /\ h.pc = "store" /\ h.todo = S
    /\ \A g \in Handler, S \in SUBSET Mount :
          LET h == [g EXCEPT !.pc = "route", !.todo = S]
          IN  h \in Handler /\ h.pc = "route" /\ h.todo = S
BY DEF Handler, Idle

LEMMA BeginEffect ==
    ASSUME TypeInv, NEW r \in Request
    PROVE  /\ \A p \in InitParams : BeginInit(r, p) =>
                  Becomes(r, req'[r]) /\ req'[r].pc = "setconfig" /\ req'[r].params = p
           /\ \A S \in SUBSET Share : BeginUnseal(r, S) =>
                  Becomes(r, req'[r]) /\ req'[r].pc = "insert"
           /\ BeginSeal(r) => Becomes(r, req'[r]) /\ req'[r].pc = "seal"
           /\ \A m \in Mount : BeginMount(r, m) =>
                  Becomes(r, req'[r]) /\ req'[r].pc = "store" /\ req'[r].todo = {m}
<1>0. req \in [Request -> Handler]
  BY DEF TypeInv, TypeOK
<1>1. ASSUME NEW p \in InitParams, BeginInit(r, p)
      PROVE  Becomes(r, req'[r]) /\ req'[r].pc = "setconfig" /\ req'[r].params = p
  <2> DEFINE h == [Idle EXCEPT !.pc = "setconfig", !.params = p]
  <2>1. h \in Handler /\ h.pc = "setconfig" /\ h.params = p
    BY NewHandlers
  <2>2. SetReq(r, h)
    BY <1>1 DEF BeginInit
  <2> HIDE DEF h
  <2> QED
    BY <1>0, <2>1, <2>2, SetReqEffect DEF Becomes
<1>2. ASSUME NEW S \in SUBSET Share, BeginUnseal(r, S)
      PROVE  Becomes(r, req'[r]) /\ req'[r].pc = "insert"
  <2> DEFINE h == [Idle EXCEPT !.pc = "insert", !.todo = S]
  <2>1. h \in Handler /\ h.pc = "insert"
    BY NewHandlers
  <2>2. SetReq(r, h)
    BY <1>2 DEF BeginUnseal
  <2> HIDE DEF h
  <2> QED
    BY <1>0, <2>1, <2>2, SetReqEffect DEF Becomes
<1>3. ASSUME BeginSeal(r) PROVE Becomes(r, req'[r]) /\ req'[r].pc = "seal"
  <2> DEFINE h == [Idle EXCEPT !.pc = "seal"]
  <2>1. h \in Handler /\ h.pc = "seal"
    BY DEF Handler, Idle
  <2>2. SetReq(r, h)
    BY <1>3 DEF BeginSeal
  <2> HIDE DEF h
  <2> QED
    BY <1>0, <2>1, <2>2, SetReqEffect DEF Becomes
<1>4. ASSUME NEW m \in Mount, BeginMount(r, m)
      PROVE  Becomes(r, req'[r]) /\ req'[r].pc = "store" /\ req'[r].todo = {m}
  <2> DEFINE h == [Idle EXCEPT !.pc = "store", !.todo = {m}]
  <2>0. {m} \in SUBSET Mount
    OBVIOUS
  <2>1. h \in Handler /\ h.pc = "store" /\ h.todo = {m}
    BY <2>0, NewHandlers
  <2>2. SetReq(r, h)
    BY <1>4 DEF BeginMount
  <2> HIDE DEF h
  <2> QED
    BY <1>0, <2>1, <2>2, SetReqEffect DEF Becomes
<1> QED
  BY <1>1, <1>2, <1>3, <1>4

LEMMA BeginType == TypeInv /\ (\E r \in Request : Begin(r)) => TypeInv'
<1> SUFFICES ASSUME TypeInv, NEW r \in Request, Begin(r) PROVE TypeInv'
  OBVIOUS
<1> USE BeginEffect DEF TypeInv, TypeOK, HandlersOK, disk, workers, history, failed, MayBegin, Becomes
<1>1. CASE \E p \in InitParams : BeginInit(r, p)
  <2> PICK p \in InitParams : BeginInit(r, p)
    BY <1>1
  <2>1. Becomes(r, req'[r]) /\ req'[r].pc = "setconfig" /\ req'[r].params = p
    OBVIOUS
  <2> QED
    BY <2>1 DEF BeginInit
<1>2. CASE \E S \in SUBSET Share : BeginUnseal(r, S)
  BY <1>2 DEF BeginUnseal
<1>3. CASE BeginSeal(r)
  BY <1>3 DEF BeginSeal
<1>4. CASE \E m \in Mount : BeginMount(r, m)
  <2> PICK m \in Mount : BeginMount(r, m)
    BY <1>4
  <2>1. Becomes(r, req'[r]) /\ req'[r].pc = "store" /\ req'[r].todo = {m}
    OBVIOUS
  <2>2. /\ req[r].pc = "idle" /\ routes' = routes \cup {m}
        /\ UNCHANGED <<disk, workers, history>>
    BY DEF BeginMount
  <2>3. HandlersOK'
    BY <2>1, <2>2
  <2> QED
    BY <2>1, <2>2, <2>3
<1> QED
  BY <1>1, <1>2, <1>3, <1>4 DEF Begin

LEMMA ListEffect ==
    ASSUME TypeInv, NEW r \in Request, ListMounts(r), pool = "unsealed"
    PROVE  Becomes(r, req'[r]) /\ req'[r].pc = "route" /\ req'[r].todo = mounts \cap RootMount
<1> DEFINE h == [req[r] EXCEPT !.pc = "route", !.todo = mounts \cap RootMount]
<1>0. req \in [Request -> Handler] /\ mounts \cap RootMount \in SUBSET Mount
  BY DEF TypeInv, TypeOK, Mount
<1>1. h \in Handler /\ h.pc = "route" /\ h.todo = mounts \cap RootMount
  BY <1>0, NewHandlers
<1>2. SetReq(r, h)
  BY DEF ListMounts
<1> HIDE DEF h
<1> QED
  BY <1>0, <1>1, <1>2, SetReqEffect DEF Becomes

LEMMA HandlerStepType == TypeInv /\ (\E r \in Request : HandlerStep(r)) => TypeInv'
<1> SUFFICES ASSUME TypeInv, NEW r \in Request, HandlerStep(r) PROVE TypeInv'
  OBVIOUS
<1>0. req \in [Request -> Handler] /\ Idle.pc = "idle"
  BY IdleType DEF TypeInv, TypeOK
<1> USE <1>0 DEF TypeInv, TypeOK, HandlersOK, disk, workers, history, failed, Becomes, GoesTo
<1>1. CASE SetConfig(r)
  BY <1>1, GotoEffect, DoneEffect DEF SetConfig
<1>2. CASE Create(r)
  <2>1. ASSUME NEW S \in SUBSET Share
        PROVE  [threshold |-> req[r].params.threshold, shares |-> S] \in Deal
    BY <1>2, SealAssumption DEF Create, Deal
  <2> QED
    BY <1>2, <2>1, DoneEffect DEF Create
<1>3. CASE \E s \in Share : InsertKeyShare(r, s)
  BY <1>3, TodoEffect DEF InsertKeyShare
<1>4. CASE ReadKeyShares(r)
  BY <1>4, GotoEffect, DoneEffect DEF ReadKeyShares
<1>5. CASE ClearKeyShares(r)
  BY <1>5, GotoEffect, DoneEffect DEF ClearKeyShares
<1>6. CASE Open(r)
  BY <1>6, GotoEffect, DoneEffect DEF Open
<1>7. CASE Migrate(r)
  BY <1>7, GotoEffect, DoneEffect DEF Migrate
<1>8. CASE ListMounts(r)
  BY <1>8, ListEffect, DoneEffect DEF ListMounts, Mount
<1>9. CASE \E m \in Mount : RouteMount(r, m)
  BY <1>9, TodoEffect DEF RouteMount
<1>10. CASE Spawn(r)
  BY <1>10, DoneEffect DEF Spawn
<1>11. CASE Seal(r)
  BY <1>11, GotoEffect, DoneEffect DEF Seal
<1>12. CASE Stop(r)
  BY <1>12, GotoEffect DEF Stop
<1>13. CASE Unroute(r)
  BY <1>13, DoneEffect DEF Unroute
<1>14. CASE StoreMount(r)
  BY <1>14, DoneEffect DEF StoreMount
<1> QED
  BY <1>1, <1>2, <1>3, <1>4, <1>5, <1>6, <1>7, <1>8, <1>9, <1>10, <1>11, <1>12, <1>13, <1>14
     DEF HandlerStep

LEMMA OtherStepType ==
    ASSUME TypeInv,
           (\E r \in Request : Cancel(r)) \/ WorkerStep \/ Wake \/ Restart
    PROVE  TypeInv'
<1> USE DEF TypeInv, TypeOK, HandlersOK, disk, workers, history, failed
<1>i. Idle \in Handler /\ Idle.pc = "idle"
  BY IdleType
<1>1. CASE \E r \in Request : Cancel(r)
  BY <1>i, <1>1, SealAssumption, DoneEffect DEF Cancel, Becomes
<1>2. CASE WorkerStep
  BY <1>2 DEF WorkerStep, Pull, Peek, ReceiveStop, Release
<1>3. CASE Wake
  BY <1>3 DEF Wake
<1>4. CASE Restart
  <2>1. req' \in [Request -> Handler] /\ \A r \in Request : req'[r].pc = "idle"
    BY <1>i, <1>4 DEF Restart
  <2>2. cancels' \in 0 .. MaxCancels /\ lost' \in Nat
    BY <1>4, SealAssumption DEF Restart
  <2>3. /\ pool' \in {"uninitialized", "sealed", "unsealed"} /\ stale' \in BOOLEAN
        /\ shares' \subseteq Share /\ submitted' \subseteq Share
        /\ routes' \subseteq Mount /\ unstored' \subseteq Mount /\ halfway' \in BOOLEAN
        /\ worker' = "none" /\ queued' = 0 /\ stops' = 0
        /\ UNCHANGED <<config, namespace, mounts, dealt>>
    BY <1>4 DEF Restart
  <2> QED
    BY <2>1, <2>2, <2>3
<1> QED
  BY <1>1, <1>2, <1>3, <1>4

LEMMA NextType == TypeInv /\ [Next]_vars => TypeInv'
<1> SUFFICES ASSUME TypeInv, [Next]_vars PROVE TypeInv'
  OBVIOUS
<1>1. CASE Next
  BY <1>1, BeginType, HandlerStepType, OtherStepType DEF Next
<1>2. CASE UNCHANGED vars
  BY <1>2 DEF TypeInv, TypeOK, HandlersOK, vars, disk, workers, history, failed
<1> QED
  BY <1>1, <1>2

\* Every variable keeps its type; the parameters of an init request are known
\* as long as they are needed, and a request that works with key shares runs
\* on a pool that was initialized.
THEOREM TypeCorrect == Spec => []TypeOK
<1>1. Init => TypeInv
  BY InitType
<1>2. TypeInv /\ [Next]_vars => TypeInv'
  BY NextType
<1>3. TypeInv => TypeOK
  BY DEF TypeInv
<1> QED
  BY <1>1, <1>2, <1>3, PTL DEF Spec

-----------------------------------------------------------------------------
(***************************************************************************)
(* One set of shares is dealt                                              *)
(***************************************************************************)

LEMMA ConfigBegin == TypeInv /\ ConfigInv /\ (\E r \in Request : Begin(r)) => ConfigInv'
<1> SUFFICES ASSUME TypeInv, ConfigInv, NEW r \in Request, Begin(r) PROVE ConfigInv'
  OBVIOUS
<1>1. Becomes(r, req'[r]) /\ req'[r].pc \in {"setconfig", "insert", "seal", "store"}
  BY BeginEffect DEF Begin
<1>2. UNCHANGED <<config, pool, dealt>>
  BY DEF Begin, BeginInit, BeginUnseal, BeginSeal, BeginMount, disk, history, failed
<1> QED
  BY <1>1, <1>2 DEF ConfigInv, ConfigMatchesDeal, Becomes

\* The steps of handlers that leave the configuration and the key alone.
LEMMA ConfigFrame ==
    ASSUME TypeInv, ConfigInv, NEW r \in Request, Becomes(r, req'[r]), req'[r].pc # "create",
           UNCHANGED <<config, dealt>>,
           pool' = "uninitialized" => pool = "uninitialized",
           pool = "uninitialized" => pool' = "uninitialized"
    PROVE  ConfigInv'
BY DEF ConfigInv, ConfigMatchesDeal, Becomes

LEMMA ConfigStep == TypeInv /\ ConfigInv /\ [Next]_vars => ConfigInv'
<1> SUFFICES ASSUME TypeInv, ConfigInv, [Next]_vars PROVE ConfigInv'
  OBVIOUS
<1>0. req \in [Request -> Handler] /\ Idle.pc = "idle"
  BY IdleType DEF TypeInv, TypeOK
<1>1. ASSUME NEW r \in Request, SetConfig(r) PROVE ConfigInv'
  <2>1. CASE config = None
    <3>1. pool = "uninitialized" /\ \A q \in Request : req[q].pc # "create"
      BY <2>1, SealAssumption DEF ConfigInv, ConfigMatchesDeal, TypeInv, HandlersOK
    <3>2. GoesTo(r, "create") /\ config' = req[r].params /\ pool' = pool
      BY <1>0, <1>1, <2>1, GotoEffect DEF SetConfig
    <3> QED
      BY <3>1, <3>2 DEF ConfigInv, ConfigMatchesDeal, GoesTo, Becomes
  <2>2. CASE config # None
    BY <1>0, <1>1, <2>2, DoneEffect, ConfigFrame DEF SetConfig, Becomes, history, failed
  <2> QED
    BY <2>1, <2>2
<1>2. ASSUME NEW r \in Request, Create(r) PROVE ConfigInv'
  <2>1. Becomes(r, Idle) /\ config' = config
    BY <1>0, <1>2, DoneEffect DEF Create
  <2>2. CASE pool = "uninitialized"
    <3>1. config = req[r].params /\ req[r].params \in InitParams
      BY <1>2 DEF Create, ConfigInv, TypeInv, HandlersOK
    <3>2. dealt'.threshold = req[r].params.threshold
      BY <1>2, <2>2 DEF Create
    <3> QED
      BY <1>0, <2>1, <3>1, <3>2, SealAssumption DEF ConfigInv, ConfigMatchesDeal, Becomes
  <2>3. CASE pool # "uninitialized"
    <3>1. UNCHANGED <<pool, dealt>>
      BY <1>2, <2>3 DEF Create
    <3> QED
      BY <1>0, <2>1, <3>1 DEF ConfigInv, ConfigMatchesDeal, Becomes
  <2> QED
    BY <2>2, <2>3
<1>3. ASSUME NEW r \in Request, NEW s \in Share, InsertKeyShare(r, s) PROVE ConfigInv'
  BY <1>3, TodoEffect, <1>0, ConfigFrame DEF InsertKeyShare
<1>4. ASSUME NEW r \in Request, ReadKeyShares(r) PROVE ConfigInv'
  <2>1. Becomes(r, req'[r]) /\ req'[r].pc # "create"
    BY <1>0, <1>4, GotoEffect, DoneEffect DEF ReadKeyShares, GoesTo, Becomes
  <2> QED
    BY <1>4, <2>1, ConfigFrame DEF ReadKeyShares, disk, history, failed
<1>5. ASSUME NEW r \in Request, ClearKeyShares(r) PROVE ConfigInv'
  <2>1. Becomes(r, req'[r]) /\ req'[r].pc # "create"
    BY <1>0, <1>5, GotoEffect, DoneEffect DEF ClearKeyShares, GoesTo, Becomes
  <2> QED
    BY <1>5, <2>1, ConfigFrame DEF ClearKeyShares, history, failed
<1>6. ASSUME NEW r \in Request, Open(r) PROVE ConfigInv'
  <2>1. Becomes(r, req'[r]) /\ req'[r].pc # "create"
    BY <1>0, <1>6, GotoEffect, DoneEffect DEF Open, GoesTo, Becomes
  <2> QED
    BY <1>6, <2>1, ConfigFrame DEF Open, history, failed
<1>7. ASSUME NEW r \in Request, Migrate(r) PROVE ConfigInv'
  <2>1. Becomes(r, req'[r]) /\ req'[r].pc # "create"
    BY <1>0, <1>7, GotoEffect, DoneEffect DEF Migrate, GoesTo, Becomes
  <2> QED
    BY <1>7, <2>1, ConfigFrame DEF Migrate, history, failed
<1>8. ASSUME NEW r \in Request, ListMounts(r) PROVE ConfigInv'
  <2>1. Becomes(r, req'[r]) /\ req'[r].pc # "create"
    BY <1>0, <1>8, ListEffect, DoneEffect DEF ListMounts, Becomes
  <2> QED
    BY <1>8, <2>1, ConfigFrame DEF ListMounts, disk, history, failed
<1>9. ASSUME NEW r \in Request, NEW m \in Mount, RouteMount(r, m) PROVE ConfigInv'
  BY <1>9, TodoEffect, <1>0, ConfigFrame DEF RouteMount, disk, history, failed
<1>10. ASSUME NEW r \in Request, Spawn(r) \/ Unroute(r) \/ StoreMount(r) \/ Cancel(r)
       PROVE  ConfigInv'
  <2>1. Becomes(r, Idle)
    BY <1>0, <1>10, DoneEffect DEF Spawn, Unroute, StoreMount, Cancel
  <2> QED
    BY <1>0, <1>10, <2>1, ConfigFrame
       DEF Spawn, Unroute, StoreMount, Cancel, disk, history, failed, Becomes
<1>11. ASSUME NEW r \in Request, Seal(r) PROVE ConfigInv'
  <2>1. Becomes(r, req'[r]) /\ req'[r].pc # "create"
    BY <1>0, <1>11, GotoEffect, DoneEffect DEF Seal, GoesTo, Becomes
  <2> QED
    BY <1>11, <2>1, ConfigFrame DEF Seal, history, failed
<1>12. ASSUME NEW r \in Request, Stop(r) PROVE ConfigInv'
  <2>1. Becomes(r, req'[r]) /\ req'[r].pc # "create"
    BY <1>0, <1>12, GotoEffect DEF Stop, GoesTo, Becomes
  <2> QED
    BY <1>12, <2>1, ConfigFrame DEF Stop, disk, history, failed
<1>13. CASE WorkerStep \/ Wake \/ UNCHANGED vars
  BY <1>13 DEF WorkerStep, Pull, Peek, ReceiveStop, Wake, vars, disk, history, failed, ConfigInv,
       ConfigMatchesDeal
<1>14. CASE Restart
  BY <1>0, <1>14 DEF Restart, ConfigInv, ConfigMatchesDeal
<1> QED
  BY <1>1, <1>2, <1>3, <1>4, <1>5, <1>6, <1>7, <1>8, <1>9, <1>10, <1>11, <1>12, <1>13, <1>14,
     ConfigBegin DEF Next, HandlerStep

\* One set of shares is dealt at most, and the stored configuration has its
\* threshold, however many init requests run and wherever they are cut off.
THEOREM OneDeal == Spec => []ConfigMatchesDeal
<1> DEFINE Inv == TypeInv /\ ConfigInv
<1>1. Init => Inv
  BY InitType, IdleType DEF Init, ConfigInv, ConfigMatchesDeal
<1>2. Inv /\ [Next]_vars => Inv'
  BY NextType, ConfigStep
<1>3. Inv => ConfigMatchesDeal
  BY DEF ConfigInv
<1> QED
  BY <1>1, <1>2, <1>3, PTL DEF Spec

-----------------------------------------------------------------------------
(***************************************************************************)
(* Unsealing takes a threshold of shares                                   *)
(***************************************************************************)

\* Enough is about finite sets of natural size, and stays true when more
\* shares are submitted.
LEMMA EnoughGrows ==
    ASSUME TypeInv, submitted \subseteq submitted', submitted' \subseteq Share,
           dealt' = dealt, Enough
    PROVE  Enough'
<1>1. IsFiniteSet(submitted' \cap dealt.shares)
  BY FS_Subset, SealAssumption
<1>2. submitted \cap dealt.shares \subseteq submitted' \cap dealt.shares
  OBVIOUS
<1>3. /\ Cardinality(submitted \cap dealt.shares) \in Nat
      /\ Cardinality(submitted' \cap dealt.shares) \in Nat
      /\ Cardinality(submitted \cap dealt.shares) <= Cardinality(submitted' \cap dealt.shares)
  BY <1>1, <1>2, FS_Subset, FS_CardinalityType
<1>4. dealt.threshold \in Nat
  BY DEF TypeInv, TypeOK, Deal
<1> QED
  BY <1>3, <1>4 DEF Enough

\* The shares that recover the key were all submitted to this process.
LEMMA GenuineIsEnough ==
    ASSUME TypeInv, shares \subseteq submitted, Genuine(shares)
    PROVE  Enough
<1>1. IsFiniteSet(submitted \cap dealt.shares)
  BY FS_Subset, SealAssumption DEF TypeInv, TypeOK
<1>2. shares \subseteq submitted \cap dealt.shares
  BY DEF Genuine
<1>3. /\ Cardinality(shares) \in Nat
      /\ Cardinality(submitted \cap dealt.shares) \in Nat
      /\ Cardinality(shares) <= Cardinality(submitted \cap dealt.shares)
  BY <1>1, <1>2, FS_Subset, FS_CardinalityType
<1>4. dealt.threshold \in Nat
  BY DEF TypeInv, TypeOK, Deal
<1> QED
  BY <1>3, <1>4 DEF Genuine, Enough

\* The steps that submit no share, deal none and do not unseal.
LEMMA KeyFrame ==
    ASSUME TypeInv, KeyInv, NEW r \in Request, Becomes(r, req'[r]),
           req'[r].pc \in {"clear", "open"} => Enough,
           shares' \subseteq shares, UNCHANGED <<dealt, submitted>>,
           pool' = "unsealed" => pool = "unsealed"
    PROVE  KeyInv'
BY DEF KeyInv, Becomes, Enough

LEMMA KeyBegin == TypeInv /\ KeyInv /\ (\E r \in Request : Begin(r)) => KeyInv'
<1> SUFFICES ASSUME TypeInv, KeyInv, NEW r \in Request, Begin(r) PROVE KeyInv'
  OBVIOUS
<1>1. Becomes(r, req'[r]) /\ req'[r].pc \in {"setconfig", "insert", "seal", "store"}
  BY BeginEffect DEF Begin
<1>2. UNCHANGED <<shares, pool, dealt, submitted>>
  BY DEF Begin, BeginInit, BeginUnseal, BeginSeal, BeginMount, disk, history, failed
<1> QED
  BY <1>1, <1>2, KeyFrame

LEMMA KeyStep == TypeInv /\ KeyInv /\ [Next]_vars => KeyInv'
<1> SUFFICES ASSUME TypeInv, KeyInv, [Next]_vars PROVE KeyInv'
  OBVIOUS
<1>0. req \in [Request -> Handler] /\ Idle.pc = "idle"
  BY IdleType DEF TypeInv, TypeOK
<1>1. ASSUME NEW r \in Request, SetConfig(r) PROVE KeyInv'
  <2>1. Becomes(r, req'[r]) /\ req'[r].pc \notin {"clear", "open"}
    BY <1>0, <1>1, GotoEffect, DoneEffect DEF SetConfig, GoesTo, Becomes
  <2> QED
    BY <1>1, <2>1, KeyFrame DEF SetConfig, history, failed
<1>2. ASSUME NEW r \in Request, Create(r) PROVE KeyInv'
  <2>1. Becomes(r, Idle) /\ UNCHANGED <<shares, submitted>>
    BY <1>0, <1>2, DoneEffect DEF Create
  <2>2. CASE pool = "uninitialized"
    <3>1. pool' = "sealed"
      BY <1>2, <2>2 DEF Create
    <3>2. \A q \in Request : req[q].pc \notin {"clear", "open"}
      BY <2>2 DEF TypeInv, HandlersOK
    <3> QED
      BY <1>0, <2>1, <3>1, <3>2 DEF KeyInv, Becomes
  <2>3. CASE pool # "uninitialized"
    <3>1. UNCHANGED <<pool, dealt>>
      BY <1>2, <2>3 DEF Create
    <3> QED
      BY <1>0, <2>1, <3>1, KeyFrame DEF Becomes
  <2> QED
    BY <2>2, <2>3
<1>3. ASSUME NEW r \in Request, NEW s \in Share, InsertKeyShare(r, s) PROVE KeyInv'
  <2>1. Becomes(r, req'[r]) /\ req'[r].pc = req[r].pc
    BY <1>0, <1>3, TodoEffect DEF InsertKeyShare
  <2>2. submitted \subseteq submitted' /\ submitted' \subseteq Share
    BY <1>3 DEF InsertKeyShare, TypeInv, TypeOK
  <2>3. Enough => Enough'
    BY <1>3, <2>2, EnoughGrows DEF InsertKeyShare
  <2>4. shares' \subseteq submitted' /\ pool' = pool
    BY <1>3 DEF InsertKeyShare, KeyInv
  <2> QED
    BY <2>1, <2>3, <2>4 DEF KeyInv, Becomes
<1>4. ASSUME NEW r \in Request, ReadKeyShares(r) PROVE KeyInv'
  <2>1. Becomes(r, req'[r])
    BY <1>0, <1>4, GotoEffect, DoneEffect DEF ReadKeyShares, GoesTo, Becomes
  <2>2. req'[r].pc \in {"clear", "open"} => Genuine(shares)
    BY <1>0, <1>4, GotoEffect, DoneEffect DEF ReadKeyShares, GoesTo, Becomes
  <2>3. req'[r].pc \in {"clear", "open"} => Enough
    BY <2>2, GenuineIsEnough DEF KeyInv
  <2> QED
    BY <1>4, <2>1, <2>3, KeyFrame DEF ReadKeyShares, disk, history, failed
<1>5. ASSUME NEW r \in Request, ClearKeyShares(r) PROVE KeyInv'
  <2>1. Becomes(r, req'[r]) /\ (req'[r].pc \in {"clear", "open"} => req[r].pc = "clear")
    BY <1>0, <1>5, GotoEffect, DoneEffect DEF ClearKeyShares, GoesTo, Becomes
  <2> QED
    BY <1>5, <2>1, KeyFrame DEF ClearKeyShares, history, failed, KeyInv
<1>6. ASSUME NEW r \in Request, Open(r) PROVE KeyInv'
  <2>1. Becomes(r, req'[r]) /\ req'[r].pc \notin {"clear", "open"}
    BY <1>0, <1>6, GotoEffect, DoneEffect DEF Open, GoesTo, Becomes
  <2>2. UNCHANGED <<shares, dealt, submitted>> /\ Enough
    BY <1>6 DEF Open, history, failed, KeyInv
  <2> QED
    BY <2>1, <2>2 DEF KeyInv, Becomes, Enough
<1>7. ASSUME NEW r \in Request, Migrate(r) PROVE KeyInv'
  <2>1. Becomes(r, req'[r]) /\ req'[r].pc \notin {"clear", "open"}
    BY <1>0, <1>7, GotoEffect, DoneEffect DEF Migrate, GoesTo, Becomes
  <2> QED
    BY <1>7, <2>1, KeyFrame DEF Migrate, history, failed
<1>8. ASSUME NEW r \in Request, ListMounts(r) PROVE KeyInv'
  <2>1. Becomes(r, req'[r]) /\ req'[r].pc \notin {"clear", "open"}
    BY <1>0, <1>8, ListEffect, DoneEffect DEF ListMounts, Becomes
  <2> QED
    BY <1>8, <2>1, KeyFrame DEF ListMounts, disk, history, failed
<1>9. ASSUME NEW r \in Request, NEW m \in Mount, RouteMount(r, m) PROVE KeyInv'
  <2>1. Becomes(r, req'[r]) /\ req'[r].pc \notin {"clear", "open"}
    BY <1>0, <1>9, TodoEffect DEF RouteMount
  <2> QED
    BY <1>9, <2>1, KeyFrame DEF RouteMount, disk, history, failed
<1>10. ASSUME NEW r \in Request, Spawn(r) \/ Unroute(r) \/ StoreMount(r) \/ Cancel(r)
       PROVE  KeyInv'
  <2>1. Becomes(r, req'[r]) /\ req'[r].pc = "idle"
    BY <1>0, <1>10, DoneEffect DEF Spawn, Unroute, StoreMount, Cancel, Becomes
  <2> QED
    BY <1>10, <2>1, KeyFrame DEF Spawn, Unroute, StoreMount, Cancel, disk, history, failed
<1>11. ASSUME NEW r \in Request, Seal(r) PROVE KeyInv'
  <2>1. Becomes(r, req'[r]) /\ req'[r].pc \notin {"clear", "open"}
    BY <1>0, <1>11, GotoEffect, DoneEffect DEF Seal, GoesTo, Becomes
  <2> QED
    BY <1>11, <2>1, KeyFrame DEF Seal, history, failed
<1>12. ASSUME NEW r \in Request, Stop(r) PROVE KeyInv'
  <2>1. Becomes(r, req'[r]) /\ req'[r].pc \notin {"clear", "open"}
    BY <1>0, <1>12, GotoEffect DEF Stop, GoesTo, Becomes
  <2> QED
    BY <1>12, <2>1, KeyFrame DEF Stop, disk, history, failed
<1>13. CASE WorkerStep \/ Wake \/ UNCHANGED vars
  BY <1>13 DEF WorkerStep, Pull, Peek, ReceiveStop, Wake, vars, disk, history, failed, KeyInv, Enough
<1>14. CASE Restart
  BY <1>0, <1>14 DEF Restart, KeyInv, TypeInv, TypeOK
<1> QED
  BY <1>1, <1>2, <1>3, <1>4, <1>5, <1>6, <1>7, <1>8, <1>9, <1>10, <1>11, <1>12, <1>13, <1>14,
     KeyBegin DEF Next, HandlerStep

\* The pool is unsealed only after this process was given as many different
\* genuine shares as the key was split for, however requests interleave and
\* whatever earlier processes left behind.
THEOREM ThresholdNeeded == Spec => []UnsealNeedsThreshold
<1> DEFINE Inv == TypeInv /\ KeyInv
<1>1. Init => Inv
  BY InitType, IdleType DEF Init, KeyInv
<1>2. Inv /\ [Next]_vars => Inv'
  BY NextType, KeyStep
<1>3. Inv => UnsealNeedsThreshold
  BY DEF KeyInv, Enough, UnsealNeedsThreshold
<1> QED
  BY <1>1, <1>2, <1>3, PTL DEF Spec

-----------------------------------------------------------------------------
(***************************************************************************)
(* A seal that is alone                                                    *)
(***************************************************************************)

\* What the steps do to the program counter of their request, and to the
\* pool: the request ends, a seal begins, another request begins or goes on
\* before the pool is open, the pool is opened, the unseal goes on, the pool
\* is sealed, the worker is told to stop.
Ends(r) ==
    /\ req'[r].pc = "idle"
    /\ ~ Opening(r) \/ pool # "unsealed" \/ Spawn(r) \/ Cancel(r)
    /\ req[r].pc # "stop" \/ Cancel(r)
    /\ pool' = pool \/ (pool = "uninitialized" /\ pool' = "sealed")
StartsSeal(r) == BeginSeal(r) /\ req'[r].pc = "seal" /\ pool' = pool
Starts(r) ==
    /\ req[r].pc = "idle" /\ pool' = pool
    /\ SealAlone => \A q \in Request : ~ Sealing(q)
    /\ req'[r].pc \in {"setconfig", "insert"} \/ (req'[r].pc = "store" /\ pool = "unsealed")
Prepares(r) ==
    /\ req[r].pc \in {"setconfig", "insert", "clear"}
    /\ req'[r].pc \in {"create", "insert", "reject", "clear", "open"}
    /\ pool' = pool
Opens(r) == req[r].pc = "open" /\ req'[r].pc = "forget" /\ pool = "sealed" /\ pool' = "unsealed"
Proceeds(r) == Opening(r) /\ req'[r].pc \in {"migrate", "list", "route"} /\ pool' = pool
Seals(r) == req[r].pc = "seal" /\ req'[r].pc = "stop" /\ pool = "unsealed" /\ pool' = "sealed"
Stops(r) == Stop(r) /\ req[r].pc = "stop" /\ req'[r].pc = "unroute" /\ pool' = pool

LEMMA Moves ==
    ASSUME TypeInv, NEW r \in Request, Begin(r) \/ HandlerStep(r) \/ Cancel(r)
    PROVE  /\ Becomes(r, req'[r])
           /\ \/ Ends(r) \/ StartsSeal(r) \/ Starts(r) \/ Prepares(r)
              \/ Opens(r) \/ Proceeds(r) \/ Seals(r) \/ Stops(r)
<1>0. req \in [Request -> Handler] /\ Idle.pc = "idle"
  BY IdleType DEF TypeInv, TypeOK
<1>d. ASSUME Done(r) PROVE Becomes(r, req'[r]) /\ req'[r].pc = "idle"
  BY <1>0, <1>d, DoneEffect DEF Becomes
<1>g. ASSUME NEW pc \in {"create", "reject", "clear", "open", "forget", "migrate", "list",
                         "stop", "unroute"}, Goto(r, pc)
      PROVE  Becomes(r, req'[r]) /\ req'[r].pc = pc
  BY <1>0, <1>g, GotoEffect DEF GoesTo
<1>1. CASE \E p \in InitParams : BeginInit(r, p)
  <2>1. Becomes(r, req'[r]) /\ Starts(r)
    BY <1>1, BeginEffect DEF BeginInit, MayBegin, disk, Starts
  <2> QED
    BY <2>1
<1>2. CASE \E S \in SUBSET Share : BeginUnseal(r, S)
  <2>1. Becomes(r, req'[r]) /\ Starts(r)
    BY <1>2, BeginEffect DEF BeginUnseal, MayBegin, disk, Starts
  <2> QED
    BY <2>1
<1>3. CASE BeginSeal(r)
  <2>1. Becomes(r, req'[r]) /\ StartsSeal(r)
    BY <1>3, BeginEffect DEF BeginSeal, disk, StartsSeal
  <2> QED
    BY <2>1
<1>4. CASE \E m \in Mount : BeginMount(r, m)
  <2>1. Becomes(r, req'[r]) /\ Starts(r)
    BY <1>4, BeginEffect DEF BeginMount, MayBegin, disk, Starts
  <2> QED
    BY <2>1
<1>5. CASE SetConfig(r)
  <2>1. Becomes(r, req'[r]) /\ (Ends(r) \/ Prepares(r))
    BY <1>5, <1>d, <1>g DEF SetConfig, Ends, Prepares, Opening
  <2> QED
    BY <2>1
<1>6. CASE Create(r)
  <2>1. Becomes(r, req'[r]) /\ Ends(r)
    BY <1>6, <1>d DEF Create, Ends, Opening
  <2> QED
    BY <2>1
<1>7. CASE \E s \in Share : InsertKeyShare(r, s)
  <2> PICK s \in Share : InsertKeyShare(r, s)
    BY <1>7
  <2>1. Becomes(r, req'[r]) /\ Prepares(r)
    BY <1>0, TodoEffect DEF InsertKeyShare, Prepares
  <2> QED
    BY <2>1
<1>8. CASE ReadKeyShares(r)
  <2>1. Becomes(r, req'[r]) /\ (Ends(r) \/ Prepares(r))
    BY <1>8, <1>d, <1>g DEF ReadKeyShares, Ends, Prepares, Opening, disk
  <2> QED
    BY <2>1
<1>9. CASE ClearKeyShares(r)
  <2>1. Becomes(r, req'[r]) /\ (Ends(r) \/ Prepares(r) \/ Proceeds(r))
    BY <1>9, <1>d, <1>g DEF ClearKeyShares, Ends, Prepares, Proceeds, Opening
  <2> QED
    BY <2>1
<1>10. CASE Open(r)
  <2>1. Becomes(r, req'[r]) /\ (Ends(r) \/ Opens(r))
    BY <1>10, <1>d, <1>g DEF Open, Ends, Opens, Opening
  <2> QED
    BY <2>1
<1>11. CASE Migrate(r)
  <2>1. Becomes(r, req'[r]) /\ (Ends(r) \/ Proceeds(r))
    BY <1>11, <1>d, <1>g DEF Migrate, Ends, Proceeds, Opening
  <2> QED
    BY <2>1
<1>12. CASE ListMounts(r)
  <2>1. Becomes(r, req'[r]) /\ (Ends(r) \/ Proceeds(r))
    BY <1>12, <1>d, ListEffect DEF ListMounts, Ends, Proceeds, Opening, disk
  <2> QED
    BY <2>1
<1>13. CASE \E m \in Mount : RouteMount(r, m)
  <2> PICK m \in Mount : RouteMount(r, m)
    BY <1>13
  <2>1. Becomes(r, req'[r]) /\ Proceeds(r)
    BY <1>0, TodoEffect DEF RouteMount, Proceeds, Opening, disk
  <2> QED
    BY <2>1
<1>14. CASE Spawn(r) \/ Unroute(r) \/ StoreMount(r) \/ Cancel(r)
  <2>1. Becomes(r, req'[r]) /\ Ends(r)
    BY <1>14, <1>d DEF Spawn, Unroute, StoreMount, Cancel, disk, Ends, Opening
  <2> QED
    BY <2>1
<1>15. CASE Seal(r)
  <2>1. Becomes(r, req'[r]) /\ (Ends(r) \/ Seals(r))
    BY <1>15, <1>d, <1>g DEF Seal, Ends, Seals, Opening
  <2> QED
    BY <2>1
<1>16. CASE Stop(r)
  <2>1. Becomes(r, req'[r]) /\ Stops(r)
    BY <1>16, <1>g DEF Stop, disk, Stops
  <2> QED
    BY <2>1
<1> QED
  BY <1>1, <1>2, <1>3, <1>4, <1>5, <1>6, <1>7, <1>8, <1>9, <1>10, <1>11, <1>12, <1>13, <1>14,
     <1>15, <1>16 DEF Begin, HandlerStep

LEMMA AloneStep == TypeInv /\ AloneInv /\ [Next]_vars => AloneInv'
<1> SUFFICES ASSUME TypeInv, AloneInv, [Next]_vars, SealAlone PROVE AloneInv'
  BY DEF AloneInv
<1>1. ASSUME NEW r \in Request, Begin(r) \/ HandlerStep(r) \/ Cancel(r) PROVE AloneInv'
  <2>0. Becomes(r, req'[r])
    BY <1>1, Moves
  <2> USE <2>0 DEF AloneInv, Sealing, Opening, Becomes
  <2>1. CASE Ends(r)
    BY <2>1 DEF Ends
  <2>2. CASE StartsSeal(r)
    BY <2>2 DEF StartsSeal, BeginSeal, MayBegin, Quiescent
  <2>3. CASE Starts(r)
    BY <2>3 DEF Starts
  <2>4. CASE Prepares(r)
    BY <2>4 DEF Prepares
  <2>5. CASE Opens(r)
    BY <2>5 DEF Opens
  <2>6. CASE Proceeds(r)
    BY <2>6 DEF Proceeds
  <2>7. CASE Seals(r)
    BY <2>7 DEF Seals
  <2>8. CASE Stops(r)
    BY <2>8 DEF Stops
  <2> QED
    BY <1>1, <2>1, <2>2, <2>3, <2>4, <2>5, <2>6, <2>7, <2>8, Moves
<1>2. CASE WorkerStep \/ Wake \/ UNCHANGED vars
  BY <1>2 DEF WorkerStep, Pull, Peek, ReceiveStop, Wake, vars, disk, AloneInv, Sealing, Opening
<1>3. CASE Restart
  BY <1>3, IdleType DEF Restart, AloneInv, Sealing, Opening
<1> QED
  BY <1>1, <1>2, <1>3 DEF Next

-----------------------------------------------------------------------------
(***************************************************************************)
(* Workers and stop messages                                               *)
(***************************************************************************)

\* The steps of a request that does not fail leave alone what is known of
\* those that did, but a new unseal and a seal start afresh.
LEMMA NothingFails ==
    ASSUME TypeInv, NEW r \in Request, Begin(r) \/ HandlerStep(r)
    PROVE  /\ lost' = lost
           /\ \A q \in Request : ~ Cancel(q)
           /\ ~ Open(r) => halfway' = halfway
           /\ ~ Unroute(r) => unstored' = unstored
<1>1. /\ UNCHANGED <<cancels, lost>>
      /\ ~ Open(r) => halfway' = halfway
      /\ ~ Unroute(r) => unstored' = unstored
  BY DEF Begin, HandlerStep, BeginInit, BeginUnseal, BeginSeal, BeginMount, SetConfig, Create,
         InsertKeyShare, ReadKeyShares, ClearKeyShares, Open, Migrate, ListMounts, RouteMount,
         Spawn, Seal, Stop, Unroute, StoreMount, history, failed
<1>2. cancels \in Nat
  BY SealAssumption DEF TypeInv, TypeOK
<1> QED
  BY <1>1, <1>2 DEF Cancel

\* A request that fails leaves an unmatched worker exactly if it was to spawn
\* one.
LEMMA UnmatchedCancel ==
    ASSUME TypeInv, AloneInv, SealAlone, NEW r \in Request, Cancel(r)
    PROVE  IF Opening(r) THEN ~ Unmatched /\ Unmatched' ELSE Unmatched' <=> Unmatched
<1>1. Becomes(r, Idle) /\ pool' = pool /\ ~ Sealing(r) /\ req[r].pc # "idle"
  BY DoneEffect DEF Cancel, TypeInv, TypeOK, disk
<1> QED
  BY <1>1, IdleType DEF AloneInv, Unmatched, Sealing, Opening, Becomes

\* Of the steps that do not fail, only spawning and stopping a worker change
\* whether one is unmatched.
LEMMA UnmatchedFrame ==
    ASSUME TypeInv, AloneInv, SealAlone, NEW r \in Request,
           Begin(r) \/ HandlerStep(r), ~ Spawn(r), ~ Stop(r), ~ Cancel(r)
    PROVE  Unmatched' <=> Unmatched
<1>0. Becomes(r, req'[r])
  BY Moves
<1> USE <1>0 DEF AloneInv, Unmatched, Sealing, Opening, Becomes
<1>1. CASE Ends(r)
  BY <1>1 DEF Ends
<1>2. CASE StartsSeal(r)
  BY <1>2 DEF StartsSeal, BeginSeal, MayBegin
<1>3. CASE Starts(r)
  BY <1>3 DEF Starts
<1>4. CASE Prepares(r)
  BY <1>4 DEF Prepares
<1>5. CASE Opens(r)
  BY <1>5 DEF Opens
<1>6. CASE Proceeds(r)
  BY <1>6 DEF Proceeds
<1>7. CASE Seals(r)
  BY <1>7 DEF Seals
<1>8. CASE Stops(r)
  BY <1>8 DEF Stops
<1> QED
  BY <1>1, <1>2, <1>3, <1>4, <1>5, <1>6, <1>7, <1>8, Moves

LEMMA WorkersStep == TypeInv /\ AloneInv /\ WorkersInv /\ [Next]_vars => WorkersInv'
<1> SUFFICES ASSUME TypeInv, AloneInv, WorkersInv, [Next]_vars,
                    SealAlone, InstantScan
             PROVE  WorkersInv'
  BY DEF WorkersInv
<1>t. queued \in Nat /\ stops \in {0, 1} /\ lost \in Nat
  BY DEF TypeInv, TypeOK
<1>r. CASE Restart
  <2>1. ~ Unmatched'
    BY <1>r, IdleType DEF Restart, Unmatched
  <2> QED
    BY <1>r, <2>1 DEF Restart, WorkersInv, Workers
<1>1. CASE ~ Restart
  <2>i. /\ Workers + lost = stops + (IF Unmatched THEN 1 ELSE 0)
        /\ worker = "peek" => pool = "unsealed"
    BY DEF WorkersInv
  <2>2. ASSUME NEW r \in Request, Begin(r) \/ HandlerStep(r), ~ Spawn(r), ~ Stop(r)
        PROVE  WorkersInv'
    <3>1. (Unmatched' <=> Unmatched) /\ lost' = lost
      BY <2>2, UnmatchedFrame, NothingFails
    <3>2. UNCHANGED <<worker, queued, stops>>
      BY <2>2
         DEF Begin, HandlerStep, BeginInit, BeginUnseal, BeginSeal, BeginMount, SetConfig,
             Create, InsertKeyShare, ReadKeyShares, ClearKeyShares, Open, Migrate, ListMounts,
             RouteMount, Seal, Unroute, StoreMount, workers
    <3>3. worker = "peek" => pool' = "unsealed"
      BY <2>i, <2>2
         DEF Begin, HandlerStep, BeginInit, BeginUnseal, BeginSeal, BeginMount, SetConfig,
             Create, InsertKeyShare, ReadKeyShares, ClearKeyShares, Open, Migrate, ListMounts,
             RouteMount, Seal, Unroute, StoreMount, disk
    <3> QED
      BY <2>i, <3>1, <3>2, <3>3 DEF WorkersInv, Workers
  <2>3. ASSUME NEW r \in Request, Spawn(r) PROVE WorkersInv'
    <3>0. lost' = lost
      BY <2>3 DEF Spawn, history, failed
    <3>1. Becomes(r, req'[r]) /\ req'[r].pc = "idle" /\ Opening(r) /\ UNCHANGED <<pool, stops>>
      BY <2>3, DoneEffect, IdleType DEF TypeInv, TypeOK, Spawn, Becomes, Opening, disk
    <3>2. ~ Unmatched /\ Unmatched'
      BY <3>1 DEF Unmatched, AloneInv, Opening, Sealing, Becomes
    <3>3. Workers' = Workers + 1 /\ (worker' = "peek" => worker = "peek")
      BY <1>t, <2>3 DEF Spawn, Workers
    <3> QED
      <4>1. Workers \in Nat
        BY <1>t DEF Workers
      <4>2. Workers' + lost' = stops' + 1
        BY <1>t, <2>i, <3>0, <3>1, <3>2, <3>3, <4>1
      <4>3. worker' = "peek" => pool' = "unsealed"
        BY <2>i, <3>1, <3>3
      <4> QED
        BY <3>2, <4>2, <4>3 DEF WorkersInv
  <2>4. ASSUME NEW r \in Request, Stop(r) PROVE WorkersInv'
    <3>1. /\ Becomes(r, req'[r]) /\ req[r].pc = "stop" /\ req'[r].pc = "unroute"
          /\ UNCHANGED <<pool, worker, queued>> /\ stops = 0 /\ stops' = 1
          /\ lost' = lost
      BY <2>4, GotoEffect DEF TypeInv, TypeOK, Stop, disk, history, failed, GoesTo
    <3>2. Unmatched /\ ~ Unmatched'
      BY <3>1 DEF Unmatched, AloneInv, Sealing, Becomes
    <3> QED
      BY <1>t, <2>i, <3>1, <3>2 DEF WorkersInv, Workers
  <2>5. ASSUME WorkerStep \/ Wake PROVE WorkersInv'
    <3>1. UNCHANGED <<pool, req, lost>> /\ (Unmatched' <=> Unmatched)
      BY <2>5 DEF WorkerStep, Pull, Peek, ReceiveStop, Wake, disk, history, failed, Unmatched, Opening
    <3>2. \/ Workers' = Workers /\ stops' = stops
          \/ Workers = Workers' + 1 /\ stops = stops' + 1
      BY <1>t, <2>5, <2>i DEF WorkerStep, Pull, Peek, ReceiveStop, Wake, Release, Workers
    <3>3. worker' = "peek" => pool = "unsealed"
      BY <2>5, <2>i DEF WorkerStep, Pull, Peek, ReceiveStop, Wake, Release
    <3>a. queued' \in Nat
      BY <1>t, <2>5 DEF WorkerStep, Pull, Peek, ReceiveStop, Wake, Release
    <3>b. stops' \in Nat
      BY <1>t, <2>5 DEF WorkerStep, Pull, Peek, ReceiveStop, Wake
    <3>c. Workers' \in Nat
      <4>1. Workers' = queued' + 0 \/ Workers' = queued' + 1
        BY DEF Workers
      <4> QED
        BY <3>a, <4>1
    <3>4. PICK v \in Nat, t \in Nat : v = Workers' /\ t = stops'
      BY <3>b, <3>c
    <3>5. \/ v = Workers /\ t = stops
          \/ Workers = v + 1 /\ stops = t + 1
      BY <3>2, <3>4
    <3>6. v + lost = t + (IF Unmatched THEN 1 ELSE 0)
      BY <1>t, <2>i, <3>5
    <3> QED
      BY <3>1, <3>3, <3>4, <3>6 DEF WorkersInv
  <2>6. ASSUME UNCHANGED vars PROVE WorkersInv'
    BY <2>6, <2>i DEF vars, disk, workers, history, failed, WorkersInv, Workers, Unmatched, Opening
  <2>7. ASSUME NEW r \in Request, Cancel(r) PROVE WorkersInv'
    <3>1. UNCHANGED <<pool, worker, queued, stops>>
          /\ lost' = IF Opening(r) THEN lost + 1 ELSE lost
      BY <2>7 DEF Cancel, disk, workers
    <3>2. IF Opening(r) THEN ~ Unmatched /\ Unmatched' ELSE Unmatched' <=> Unmatched
      BY <2>7, UnmatchedCancel
    <3>3. Workers' = Workers /\ Workers \in Nat
      BY <1>t, <3>1 DEF Workers
    <3> QED
      BY <1>t, <2>i, <3>1, <3>2, <3>3 DEF WorkersInv
  <2> QED
    BY <1>1, <2>2, <2>3, <2>4, <2>5, <2>6, <2>7 DEF Next
<1> QED
  BY <1>r, <1>1

LEMMA InitAlone == Init => AloneInv /\ WorkersInv
<1> SUFFICES ASSUME Init PROVE AloneInv /\ WorkersInv
  OBVIOUS
<1>1. \A r \in Request : req[r].pc = "idle"
  BY IdleType DEF Init
<1> QED
  BY <1>1 DEF Init, AloneInv, WorkersInv, Workers, Unmatched, Sealing, Opening

\* As long as seals overlap nothing, every seal gets its stop message to a
\* worker and every unseal its own worker, but those that failed after they had
\* unsealed the pool, for any number of requests, mounts and unseals (unseal
\* spawns, seal stops).
THEOREM WorkersAccounted ==
    ASSUME SealAlone, InstantScan
    PROVE  Spec => []WorkersMatchStops
<1>1. Init => TypeInv /\ AloneInv /\ WorkersInv
  BY InitType, InitAlone
<1>2. TypeInv /\ AloneInv /\ WorkersInv /\ [Next]_vars
        => (TypeInv /\ AloneInv /\ WorkersInv)'
  BY NextType, AloneStep, WorkersStep
<1>3. TypeInv /\ AloneInv /\ WorkersInv => WorkersMatchStops
  <2> SUFFICES ASSUME WorkersInv, Quiescent
               PROVE  Workers + lost = stops + (IF pool = "unsealed" THEN 1 ELSE 0)
    BY DEF WorkersMatchStops
  <2>1. Unmatched <=> pool = "unsealed"
    BY DEF Unmatched, Quiescent, Opening
  <2> QED
    BY <2>1 DEF WorkersInv
<1> QED
  BY <1>1, <1>2, <1>3, PTL DEF Spec

-----------------------------------------------------------------------------
(***************************************************************************)
(* Routes and stored mounts                                                *)
(***************************************************************************)

\* A step of a request that is not about routes, before or after it.
LEMMA RoutesFrame ==
    ASSUME RoutesInv, SealAlone, NEW r \in Request, Becomes(r, req'[r]),
           req[r].pc \notin {"store", "route", "forget", "migrate", "list", "stop", "unroute"},
           req'[r].pc \notin {"store", "route"},
           UNCHANGED <<routes, mounts, halfway, unstored>>, pool' = "unsealed" <=> pool = "unsealed"
    PROVE  RoutesInv'
BY DEF RoutesInv, Becomes

LEMMA RoutesBegin ==
    ASSUME TypeInv, AloneInv, RoutesInv, SealAlone, NEW r \in Request, Begin(r)
    PROVE  RoutesInv'
<1>h. UNCHANGED <<halfway, unstored>>
  BY DEF Begin, BeginInit, BeginUnseal, BeginSeal, BeginMount, history, failed
<1>1. CASE \E p \in InitParams : BeginInit(r, p)
  <2>1. Becomes(r, req'[r]) /\ req'[r].pc = "setconfig"
    BY <1>1, BeginEffect
  <2> QED
    BY <1>h, <1>1, <2>1, RoutesFrame DEF BeginInit, MayBegin, disk
<1>2. CASE \E S \in SUBSET Share : BeginUnseal(r, S)
  <2>1. Becomes(r, req'[r]) /\ req'[r].pc = "insert"
    BY <1>2, BeginEffect
  <2> QED
    BY <1>h, <1>2, <2>1, RoutesFrame DEF BeginUnseal, MayBegin, disk
<1>3. CASE BeginSeal(r)
  <2>1. Becomes(r, req'[r]) /\ req'[r].pc = "seal"
    BY <1>3, BeginEffect
  <2> QED
    BY <1>h, <1>3, <2>1, RoutesFrame DEF BeginSeal, MayBegin, disk
<1>4. CASE \E m \in Mount : BeginMount(r, m)
  <2> PICK m \in Mount : BeginMount(r, m)
    BY <1>4
  <2>1. Becomes(r, req'[r]) /\ req'[r].pc = "store" /\ req'[r].todo = {m}
    BY BeginEffect
  <2>2. /\ req[r].pc = "idle" /\ pool = "unsealed" /\ UNCHANGED <<pool, mounts>>
        /\ routes' = routes \cup {m}
    BY DEF BeginMount, MayBegin, disk
  <2> QED
    BY <1>h, <2>1, <2>2 DEF RoutesInv, Becomes
<1> QED
  BY <1>1, <1>2, <1>3, <1>4 DEF Begin

LEMMA RoutesHandlerStep ==
    ASSUME TypeInv, AloneInv, RoutesInv, SealAlone, NEW r \in Request,
           HandlerStep(r)
    PROVE  RoutesInv'
<1>0. req \in [Request -> Handler] /\ Idle.pc = "idle"
  BY IdleType DEF TypeInv, TypeOK
<1>h. /\ req[r].pc # "open" => halfway' = halfway
      /\ req[r].pc # "unroute" => unstored' = unstored
  BY NothingFails DEF Open, Unroute
<1>d. ASSUME Done(r) PROVE Becomes(r, req'[r]) /\ req'[r].pc = "idle"
  BY <1>0, <1>d, DoneEffect DEF Becomes
<1>g. ASSUME NEW pc \in {"create", "reject", "clear", "open", "forget", "migrate", "list",
                         "stop", "unroute"}, Goto(r, pc)
      PROVE  Becomes(r, req'[r]) /\ req'[r].pc = pc
  BY <1>0, <1>g, GotoEffect DEF GoesTo
<1>a. /\ \A q \in Request : Sealing(r) /\ q # r => req[q].pc = "idle"
      /\ \A q \in Request : Sealing(q) /\ q # r => req[r].pc = "idle"
      /\ req[r].pc \in {"forget", "migrate", "list", "route", "store"} => pool = "unsealed"
      /\ req[r].pc \in {"stop", "unroute"} => pool = "sealed"
      /\ \A q \in Request : req[q].pc = "store" => pool = "unsealed"
  BY DEF AloneInv, Opening
<1>5. CASE SetConfig(r) \/ Create(r) \/ ReadKeyShares(r)
  <2>1. /\ Becomes(r, req'[r]) /\ req[r].pc \in {"setconfig", "create", "insert"}
        /\ req'[r].pc \in {"idle", "create", "reject", "clear"}
        /\ UNCHANGED <<routes, mounts>> /\ (pool' = "unsealed" <=> pool = "unsealed")
    BY <1>5, <1>d, <1>g DEF SetConfig, Create, ReadKeyShares, disk
  <2> QED
    BY <1>h, <2>1, RoutesFrame
<1>6. CASE \E s \in Share : InsertKeyShare(r, s)
  <2> PICK s \in Share : InsertKeyShare(r, s)
    BY <1>6
  <2>1. Becomes(r, req'[r]) /\ req[r].pc = "insert" /\ req'[r].pc = "insert"
    BY <1>0, TodoEffect DEF InsertKeyShare
  <2> QED
    BY <1>h, <2>1, RoutesFrame DEF InsertKeyShare
<1>7. CASE ClearKeyShares(r)
  <2>1. CASE req[r].pc \in {"reject", "clear"}
    <3>1. Becomes(r, req'[r]) /\ req'[r].pc \in {"idle", "open"}
      BY <1>7, <2>1, <1>d, <1>g DEF ClearKeyShares
    <3> QED
      BY <1>h, <1>7, <2>1, <3>1, RoutesFrame DEF ClearKeyShares
  <2>2. CASE req[r].pc = "forget"
    <3>1. Becomes(r, req'[r]) /\ req'[r].pc = "migrate"
      BY <1>7, <2>2, <1>g DEF ClearKeyShares
    <3> QED
      BY <1>h, <1>7, <2>2, <3>1 DEF ClearKeyShares, RoutesInv, Becomes
  <2> QED
    BY <1>7, <2>1, <2>2 DEF ClearKeyShares
<1>8. CASE Open(r)
  <2>1. CASE pool = "sealed"
    <3>1. Becomes(r, req'[r]) /\ req'[r].pc = "forget" /\ req[r].pc = "open"
      BY <1>8, <2>1, <1>g DEF Open
    <3>2. routes = {} /\ \A q \in Request : req[q].pc # "store"
      BY <1>a, <2>1, <3>1 DEF RoutesInv, Sealing
    <3> QED
      BY <1>8, <2>1, <3>1, <3>2 DEF Open, RoutesInv, Becomes
  <2>2. CASE pool # "sealed"
    <3>1. Becomes(r, req'[r]) /\ req'[r].pc = "idle" /\ req[r].pc = "open"
      BY <1>8, <2>2, <1>d DEF Open
    <3> QED
      BY <1>8, <2>2, <3>1, RoutesFrame DEF Open
  <2> QED
    BY <2>1, <2>2
<1>9. CASE Migrate(r)
  <2>1. Becomes(r, req'[r]) /\ req[r].pc = "migrate" /\ req'[r].pc = "list"
    BY <1>9, <1>a, <1>g DEF Migrate
  <2> QED
    BY <1>h, <1>9, <2>1 DEF Migrate, RoutesInv, Becomes
<1>10. CASE ListMounts(r)
  <2>0. req[r].pc = "list" /\ pool = "unsealed" /\ UNCHANGED <<pool, mounts, routes>>
    BY <1>10, <1>a DEF ListMounts, disk
  <2>1. Becomes(r, req'[r]) /\ req'[r].pc = "route" /\ req'[r].todo = mounts \cap RootMount
    BY <1>10, <2>0, ListEffect
  <2> QED
    BY <1>h, <2>0, <2>1 DEF RoutesInv, Becomes
<1>11. CASE \E m \in Mount : RouteMount(r, m)
  <2> PICK m \in Mount : RouteMount(r, m)
    BY <1>11
  <2>0. /\ req[r].pc = "route" /\ m \in req[r].todo /\ UNCHANGED <<pool, mounts>>
        /\ routes' = routes \cup {m}
    BY DEF RouteMount, disk
  <2>1. /\ Becomes(r, req'[r]) /\ req'[r].pc = "route"
        /\ req'[r].todo = req[r].todo \ {m}
    BY <1>0, <2>0, TodoEffect DEF RouteMount
  <2> QED
    BY <1>h, <1>a, <2>0, <2>1 DEF RoutesInv, Becomes
<1>12. CASE Spawn(r)
  <2>1. /\ Becomes(r, req'[r]) /\ req[r].pc = "route" /\ req[r].todo = {}
        /\ req'[r].pc = "idle" /\ UNCHANGED <<pool, mounts, routes>>
    BY <1>12, <1>d DEF Spawn, disk
  <2> QED
    BY <1>h, <1>a, <2>1 DEF RoutesInv, Becomes
<1>13. CASE Seal(r)
  <2>1. CASE pool = "unsealed"
    <3>1. /\ Becomes(r, req'[r]) /\ req[r].pc = "seal" /\ req'[r].pc = "stop"
          /\ pool' = "sealed" /\ UNCHANGED <<mounts, routes>>
      BY <1>13, <2>1, <1>g DEF Seal
    <3>2. \A q \in Request : req'[q].pc \notin {"store", "route"}
      BY <1>a, <3>1 DEF Becomes, Sealing
    <3> QED
      BY <3>1, <3>2 DEF RoutesInv
  <2>2. CASE pool # "unsealed"
    <3>1. Becomes(r, req'[r]) /\ req[r].pc = "seal" /\ req'[r].pc = "idle"
      BY <1>13, <2>2, <1>d DEF Seal
    <3> QED
      BY <1>h, <1>13, <2>2, <3>1, RoutesFrame DEF Seal
  <2> QED
    BY <2>1, <2>2
<1>14. CASE Stop(r)
  <2>1. /\ Becomes(r, req'[r]) /\ req[r].pc = "stop" /\ req'[r].pc = "unroute"
        /\ UNCHANGED <<pool, mounts, routes>>
    BY <1>14, <1>g DEF Stop, disk
  <2> QED
    BY <1>a, <2>1 DEF RoutesInv, Becomes
<1>15. CASE Unroute(r)
  <2>1. /\ Becomes(r, req'[r]) /\ req[r].pc = "unroute" /\ req'[r].pc = "idle"
        /\ UNCHANGED <<pool, mounts>> /\ routes' = {}
    BY <1>15, <1>d DEF Unroute, disk
  <2>2. \A q \in Request : req'[q].pc = "idle"
    BY <1>a, <2>1 DEF Becomes, Sealing
  <2> QED
    BY <1>a, <2>1, <2>2 DEF RoutesInv
<1>16. CASE StoreMount(r)
  <2>1. /\ Becomes(r, req'[r]) /\ req[r].pc = "store" /\ req'[r].pc = "idle"
        /\ UNCHANGED <<pool, routes>> /\ pool = "unsealed"
        /\ mounts' = mounts \cup req[r].todo
    BY <1>16, <1>a, <1>d DEF StoreMount
  <2> QED
    BY <1>h, <2>1 DEF RoutesInv, Becomes
<1> QED
  BY <1>5, <1>6, <1>7, <1>8, <1>9, <1>10, <1>11, <1>12, <1>13, <1>14, <1>15, <1>16
     DEF HandlerStep

LEMMA RoutesStep == TypeInv /\ AloneInv /\ RoutesInv /\ [Next]_vars => RoutesInv'
<1> SUFFICES ASSUME TypeInv, AloneInv, RoutesInv, [Next]_vars, SealAlone
             PROVE  RoutesInv'
  BY DEF RoutesInv
<1>1. CASE Restart
  BY <1>1, IdleType DEF Restart, RoutesInv
<1>2. CASE WorkerStep \/ Wake \/ UNCHANGED vars
  BY <1>2 DEF WorkerStep, Pull, Peek, ReceiveStop, Wake, vars, disk, history, failed, RoutesInv
<1>3. ASSUME NEW r \in Request, Cancel(r) PROVE RoutesInv'
  <2>1. /\ Becomes(r, Idle) /\ UNCHANGED <<pool, mounts, routes>>
        /\ ~ Sealing(r)
        /\ halfway' = (halfway \/ Opening(r))
        /\ unstored' = IF req[r].pc = "store" THEN unstored \cup req[r].todo ELSE unstored
    BY <1>3, DoneEffect DEF Cancel, TypeInv, TypeOK, disk
  <2> QED
    BY <2>1, IdleType DEF RoutesInv, Sealing, Opening, Becomes
<1> QED
  BY <1>1, <1>2, <1>3, RoutesBegin, RoutesHandlerStep DEF Next

\* As long as seals overlap nothing, a server at rest routes the stored mounts of the root namespace and nothing that is not
\* stored, for any number of mounts created and of seals (seal, unseal, mount).
THEOREM RoutesAccounted ==
    ASSUME SealAlone
    PROVE  Spec => []RoutesMatchMounts
<1>1. Init => TypeInv /\ AloneInv /\ RoutesInv
  <2>1. ASSUME Init PROVE \A r \in Request : req[r].pc = "idle"
    BY <2>1, IdleType DEF Init
  <2> QED
    BY <2>1, InitType, InitAlone DEF Init, RoutesInv
<1>2. TypeInv /\ AloneInv /\ RoutesInv /\ [Next]_vars
        => (TypeInv /\ AloneInv /\ RoutesInv)'
  BY NextType, AloneStep, RoutesStep
<1>3. RoutesInv => RoutesMatchMounts
  BY DEF RoutesInv, RoutesMatchMounts, Quiescent
<1> QED
  BY <1>1, <1>2, <1>3, PTL DEF Spec
=============================================================================
