--------------------------- MODULE PipelineProofs ---------------------------
(***************************************************************************)
(* Theorems on RequestPipeline: who gets through to a handler, and who is  *)
(* refused.  In this order: the types; the tree of namespaces and its      *)
(* lineages; names joined by slashes; patterns below a prefix; what the    *)
(* look-ups of is_authorized grant, against what MayCall allows; and the   *)
(* invariant of a request on its way.                                      *)
(***************************************************************************)
EXTENDS RequestPipeline, FiniteSetTheorems, SequenceTheorems, WellFoundedInduction, TLAPS

\* What TypeOK says of the tables, and of a request.
TablesOK ==
    /\ storage \in States
    /\ spaces \subseteq Namespace
    /\ former \subseteq (Namespace \ spaces) \cup (Token \ tokens)
    /\ tokens \subseteq {t \in Token : TokenSpace[t] \in spaces}
    /\ policies \subseteq {p \in Policy : PolicySpace[p] \in spaces}
    /\ attached \subseteq {a \in Attached : a[1] \in tokens /\ a[2] \in policies}
    /\ mounts \subseteq {m \in Mount : MountSpace[m] \in spaces}
    /\ \A n \in spaces : ParentOf[n] \in spaces \cup {None}
    /\ routed \subseteq Mount
    /\ system \in BOOLEAN
    /\ changes \in 0 .. MaxChanges

HandlerOK(h) ==
    /\ h \in Handler
    /\ h.pc # "idle" => h.input \in Input /\ h.seen \in States
    /\ (h.pc \in {"policies", "walk", "path", "mount", "backend"} /\ h.seen = "unsealed")
          => h.ns \in Namespace
    /\ h.pc = "backend" => h.mount \in Mount
    /\ h.pc = "walk" => h.at # None
    /\ h.pc \in {"walk", "path"} => h.of \in Namespace
    /\ h.pc = "done" <=> h.status # None

\* TypeOK, taken apart into the tables and the requests.
LEMMA TypeParts ==
    TypeOK <=> TablesOK /\ req \in [Request -> Handler] /\ \A r \in Request : HandlerOK(req[r])
BY DEF TypeOK, TablesOK, HandlerOK

\* A request that is given a well-typed state leaves the others as they were.
LEMMA UpdateOK ==
    ASSUME TypeOK, NEW r \in Request, NEW h, HandlerOK(h), Update(r, h)
    PROVE  req' \in [Request -> Handler] /\ \A q \in Request : HandlerOK(req'[q])
<1>1. h \in Handler
  BY DEF HandlerOK
<1>2. req \in [Request -> Handler] /\ \A q \in Request : HandlerOK(req[q])
  BY TypeParts
<1>3. req' = [req EXCEPT ![r] = h]
  BY DEF Update
<1>4. req' \in [Request -> Handler]
  BY <1>1, <1>2, <1>3
<1>5. ASSUME NEW q \in Request PROVE HandlerOK(req'[q])
  BY <1>2, <1>3
<1>6. QED
  BY <1>4, <1>5

\* A step of a request leaves the tables alone.
LEMMA StepOK ==
    ASSUME TypeOK, NEW r \in Request, NEW h, HandlerOK(h), Update(r, h),
           UNCHANGED <<storage, tables, router, changes>>
    PROVE  TypeOK'
<1>1. TablesOK'
  BY TypeParts DEF TablesOK, tables, router
<1>2. QED
  BY <1>1, UpdateOK, TypeParts DEF TypeOK, TablesOK, HandlerOK

\* The state of a request in progress is well typed.
LEMMA OfRequest ==
    ASSUME TypeOK, NEW r \in Request
    PROVE  HandlerOK(req[r]) /\ req[r] \in Handler
BY TypeParts

\* An answer ends a request and touches no table.
LEMMA AnswerOK ==
    ASSUME TypeOK, NEW r \in Request, NEW code \in Statuses, req[r].pc # "idle",
           Answer(r, code), UNCHANGED <<storage, tables, router, changes>>
    PROVE  TypeOK'
<1> DEFINE h == [req[r] EXCEPT !.pc = "done", !.status = code]
<1>1. code # None
  BY PipelineAssumption DEF Statuses
<1>2. HandlerOK(h)
  BY <1>1, OfRequest DEF HandlerOK, Handler
<1>3. Update(r, h)
  BY DEF Answer
<1>4. QED
  BY <1>2, <1>3, StepOK

\* The server starts well typed, with no request in progress.
LEMMA InitOK == Init => TypeOK
<1> SUFFICES ASSUME Init PROVE TypeOK
  OBVIOUS
<1>1. TablesOK
  BY PipelineAssumption DEF Init, TablesOK, States
<1>2. Idle \in Handler
  BY EmptySeq DEF Idle, Handler
<1>3. HandlerOK(Idle)
  BY <1>2 DEF Idle, HandlerOK
<1>4. QED
  BY <1>1, <1>2, <1>3, TypeParts DEF Init

\* A request arrives: the types are kept.
LEMMA ArriveOK ==
    ASSUME TypeOK, NEW r \in Request, NEW i \in Input, Arrive(r, i)
    PROVE  TypeOK'
<1> DEFINE h == [Idle EXCEPT !.pc = "namespace", !.input = i, !.seen = storage]
<1>1. storage \in States
  BY DEF TypeOK
<1>2. h \in Handler
  BY <1>1, EmptySeq DEF Idle, Handler
<1>3. HandlerOK(h)
  BY <1>1, <1>2 DEF Idle, HandlerOK
<1>4. QED
  BY <1>3, StepOK DEF Arrive

\* A failed query ends the request: the types are kept.
LEMMA QueryFailsOK ==
    ASSUME TypeOK, NEW r \in Request, QueryFails(r)
    PROVE  TypeOK'
<1>1. req[r].pc # "idle" /\ Answer(r, 500) /\ UNCHANGED <<storage, tables, router, changes>>
  BY DEF QueryFails
<1>2. QED
  BY <1>1, AnswerOK DEF Statuses

\* The namespace is looked up: the types are kept.
LEMMA FindNamespaceOK ==
    ASSUME TypeOK, NEW r \in Request, FindNamespace(r)
    PROVE  TypeOK'
<1>1. req[r].pc = "namespace" /\ UNCHANGED <<storage, tables, router, changes>>
  BY DEF FindNamespace
<1>2. CASE req[r].seen # "unsealed" /\ Update(r, [req[r] EXCEPT !.pc = "policies"])
  <2>1. HandlerOK([req[r] EXCEPT !.pc = "policies"])
    BY <1>1, <1>2, OfRequest DEF HandlerOK, Handler
  <2>2. QED
    BY <1>1, <1>2, <2>1, StepOK
<1>3. ASSUME NEW n \in Namespace, Update(r, [req[r] EXCEPT !.pc = "policies", !.ns = n])
      PROVE  TypeOK'
  <2>1. HandlerOK([req[r] EXCEPT !.pc = "policies", !.ns = n])
    BY <1>1, OfRequest DEF HandlerOK, Handler
  <2>2. QED
    BY <1>1, <1>3, <2>1, StepOK
<1>4. CASE Answer(r, 400)
  BY <1>1, <1>4, AnswerOK DEF Statuses
<1>5. QED
  BY <1>2, <1>3, <1>4 DEF FindNamespace

\* A request past the policies, with the given answer
LEMMA AuthorizedOK ==
    ASSUME NEW h \in Handler, HandlerOK(h), h.pc \in {"policies", "path"}, NEW answer \in BOOLEAN
    PROVE  HandlerOK(Authorized(h, answer))
BY DEF HandlerOK, Handler, Authorized

\* The token and its policies are looked up: the types are kept.
LEMMA FindPoliciesOK ==
    ASSUME TypeOK, NEW r \in Request, FindPolicies(r)
    PROVE  TypeOK'
<1> DEFINE i == req[r].input
           found == TokenPolicies(i.token)
           then == [req[r] EXCEPT !.found = found,
                                  !.allowed = MayCall(i.token, req[r].ns, i.path, i.op),
                                  !.gone = req[r].ns \notin spaces]
           on(p) == [then EXCEPT !.pc = "walk", !.of = PolicySpace[p], !.at = PolicySpace[p]]
<1>1. req[r].pc = "policies" /\ UNCHANGED <<storage, tables, router, changes>>
  BY DEF FindPolicies
<1>2. CASE Update(r, Authorized(req[r], FALSE))
  BY <1>1, <1>2, OfRequest, AuthorizedOK, StepOK
<1>3. found \subseteq Policy
  BY DEF TokenPolicies, TypeOK
<1>4. MayCall(i.token, req[r].ns, i.path, i.op) \in BOOLEAN
  BY DEF MayCall
<1> HIDE DEF found
<1>5. then \in Handler /\ HandlerOK(then) /\ then.pc = "policies"
  BY <1>1, <1>3, <1>4, OfRequest DEF HandlerOK, Handler
<1>6. CASE Update(r, Authorized(then, FALSE))
  BY <1>1, <1>5, <1>6, AuthorizedOK, StepOK
<1>7. ASSUME req[r].seen = "unsealed", NEW p \in found, Update(r, on(p))
      PROVE  TypeOK'
  <2>1. PolicySpace[p] \in Namespace /\ PolicySpace[p] # None
    BY <1>3, PipelineAssumption
  <2>2. req[r].ns \in Namespace
    BY <1>1, <1>7, OfRequest DEF HandlerOK
  <2>3. then.ns = req[r].ns
    OBVIOUS
  <2> HIDE DEF then
  <2>4. HandlerOK(on(p))
    BY <1>5, <2>1, <2>2, <2>3 DEF HandlerOK, Handler
  <2>5. QED
    BY <1>1, <1>7, <2>4, StepOK
<1>8. QED
  BY <1>2, <1>6, <1>7 DEF FindPolicies, found

\* One step of the walk up to the root: the types are kept.
LEMMA WalkOK ==
    ASSUME TypeOK, NEW r \in Request, Walk(r)
    PROVE  TypeOK'
<1> DEFINE n == req[r].at
           next == IF n \in spaces THEN ParentOf[n] ELSE None
           w == IF n \in spaces THEN <<n>> \o req[r].walked ELSE req[r].walked
           h == [req[r] EXCEPT !.walked = w, !.at = next,
                               !.pc = IF next = None THEN "path" ELSE "walk"]
<1>1. req[r].pc = "walk" /\ UNCHANGED <<storage, tables, router, changes>> /\ Update(r, h)
  BY DEF Walk
<1>2. n \in Namespace /\ req[r].walked \in Seq(Namespace)
  BY <1>1, OfRequest DEF HandlerOK, Handler
<1>3. w \in Seq(Namespace)
  BY <1>2
<1>4. next \in Namespace \cup {None}
  BY <1>2, PipelineAssumption
<1> HIDE DEF w, next
<1>5. HandlerOK(h)
  BY <1>1, <1>3, <1>4, OfRequest DEF HandlerOK, Handler
<1>6. QED
  BY <1>1, <1>5, StepOK

\* The decision: the types are kept.
LEMMA AuthorizeOK ==
    ASSUME TypeOK, NEW r \in Request, Authorize(r)
    PROVE  TypeOK'
<1>1. req[r].pc = "path" /\ UNCHANGED <<storage, tables, router, changes>>
  BY DEF Authorize
<1>2. PICK answer \in BOOLEAN : Update(r, Authorized(req[r], answer))
  BY DEF Authorize
<1>3. QED
  BY <1>1, <1>2, OfRequest, AuthorizedOK, StepOK

\* The mount is looked up: the types are kept.
LEMMA FindMountOK ==
    ASSUME TypeOK, NEW r \in Request, FindMount(r)
    PROVE  TypeOK'
<1>1. req[r].pc = "mount" /\ UNCHANGED <<storage, tables, router, changes>>
  BY DEF FindMount
<1>2. CASE Update(r, [req[r] EXCEPT !.pc = "route"])
  <2>1. HandlerOK([req[r] EXCEPT !.pc = "route"])
    BY <1>1, OfRequest DEF HandlerOK, Handler
  <2>2. QED
    BY <1>1, <1>2, <2>1, StepOK
<1>3. ASSUME NEW m \in Mount, req[r].ns # None, Update(r, [req[r] EXCEPT !.pc = "backend", !.mount = m])
      PROVE  TypeOK'
  <2>1. HandlerOK([req[r] EXCEPT !.pc = "backend", !.mount = m])
    BY <1>1, <1>3, OfRequest DEF HandlerOK, Handler
  <2>2. QED
    BY <1>1, <1>3, <2>1, StepOK
<1>4. ASSUME NEW code \in {401, 404, 500}, Answer(r, code) PROVE TypeOK'
  BY <1>1, <1>4, AnswerOK DEF Statuses
<1>5. QED
  BY <1>2, <1>3, <1>4 DEF FindMount

\* The backend is looked up: the types are kept.
LEMMA FindBackendOK ==
    ASSUME TypeOK, NEW r \in Request, FindBackend(r)
    PROVE  TypeOK'
<1>1. req[r].pc = "backend" /\ UNCHANGED <<storage, tables, router, changes>>
  BY DEF FindBackend
<1>2. CASE Update(r, [req[r] EXCEPT !.pc = "route"])
  <2>1. HandlerOK([req[r] EXCEPT !.pc = "route"])
    BY <1>1, OfRequest DEF HandlerOK, Handler
  <2>2. QED
    BY <1>1, <1>2, <2>1, StepOK
<1>3. CASE Answer(r, 500)
  BY <1>1, <1>3, AnswerOK DEF Statuses
<1>4. QED
  BY <1>2, <1>3 DEF FindBackend

\* The handler is called: the types are kept.
LEMMA CallRouteOK ==
    ASSUME TypeOK, NEW r \in Request, CallRoute(r)
    PROVE  TypeOK'
<1>1. req[r].pc = "route" /\ UNCHANGED <<storage, tables, router, changes>>
  BY DEF CallRoute
<1>2. PICK code \in {200, 401, 403, 404} : Answer(r, code)
  BY DEF CallRoute, Refusal
<1>3. QED
  BY <1>1, <1>2, AnswerOK DEF Statuses

\* The handler replies: the types are kept.
LEMMA ReplyOK ==
    ASSUME TypeOK, NEW r \in Request, Reply(r)
    PROVE  TypeOK'
<1>1. Idle \in Handler
  BY EmptySeq DEF Idle, Handler
<1>2. HandlerOK(Idle)
  BY <1>1 DEF Idle, HandlerOK
<1>3. QED
  BY <1>2, StepOK DEF Reply

\* A step of the environment leaves the requests alone.
LEMMA ChangeOK ==
    ASSUME TypeOK, Environment
    PROVE  TypeOK'
<1>1. Change
  BY DEF Environment, EndToken, CreateToken, Attach, CreatePolicy, DeletePolicy, CreateNamespace, DeleteNamespace,
         ChangeMount, ChangeState, ClearMounts
<1>2. req' = req /\ changes' \in 0 .. MaxChanges
  BY <1>1, PipelineAssumption DEF Change, TypeOK
<1>3. TablesOK
  BY TypeParts
<1>4. ASSUME NEW t \in Token, CreateToken(t) PROVE TablesOK'
  BY <1>2, <1>3, <1>4, PipelineAssumption DEF TablesOK, CreateToken, router
<1>5. ASSUME NEW t \in Token, EndToken(t) PROVE TablesOK'
  BY <1>2, <1>3, <1>5, PipelineAssumption DEF TablesOK, EndToken, router
<1>6. ASSUME NEW a \in Attached, Attach(a[1], a[2]) PROVE TablesOK'
  <2>1. a = <<a[1], a[2]>> /\ a[1] \in Token /\ a[2] \in Policy
    BY PipelineAssumption
  <2> DEFINE t == a[1]
             p == a[2]
  <2>2. /\ attached' = IF <<t, p>> \in attached THEN attached \ {<<t, p>>} ELSE attached \cup {<<t, p>>}
        /\ t \in tokens /\ p \in policies
        /\ UNCHANGED <<storage, spaces, former, tokens, policies, mounts, router>>
    BY <1>6 DEF Attach
  <2>3. attached' \subseteq attached \cup {a}
    BY <2>1, <2>2
  <2>4. attached' \subseteq {b \in Attached : b[1] \in tokens /\ b[2] \in policies}
    BY <1>3, <2>2, <2>3 DEF TablesOK
  <2>5. QED
    BY <1>2, <1>3, <2>2, <2>4 DEF TablesOK, router
<1>7. ASSUME NEW p \in Policy, CreatePolicy(p) \/ DeletePolicy(p) PROVE TablesOK'
  BY <1>2, <1>3, <1>7, PipelineAssumption DEF TablesOK, CreatePolicy, DeletePolicy, router
<1>8. ASSUME NEW n \in Namespace, CreateNamespace(n) PROVE TablesOK'
  BY <1>2, <1>3, <1>8, PipelineAssumption DEF TablesOK, CreateNamespace, MayAdd, router
<1>9. ASSUME NEW n \in Namespace, DeleteNamespace(n) PROVE TablesOK'
  <2>1. \A m \in mounts : MountSpace[m] # n
    BY <1>9 DEF DeleteNamespace, MayDelete
  <2>2. \A k \in spaces : ParentOf[k] # n
    BY <1>9 DEF DeleteNamespace, MayDelete
  <2>3. QED
    BY <1>2, <1>3, <1>9, <2>1, <2>2, PipelineAssumption DEF TablesOK, DeleteNamespace, router
<1>10. ASSUME NEW m \in Mount, ChangeMount(m) PROVE TablesOK'
  BY <1>2, <1>3, <1>10, PipelineAssumption DEF TablesOK, ChangeMount
<1>11. ASSUME ChangeState PROVE TablesOK'
  <2>1. storage' \in States /\ UNCHANGED <<spaces, former, tokens, policies, attached, mounts>>
    BY <1>11 DEF ChangeState, States, tables
  <2>2. routed' \subseteq Mount /\ system' \in BOOLEAN
    BY <1>3, <1>11 DEF ChangeState, router, TablesOK
  <2>3. QED
    BY <1>2, <1>3, <2>1, <2>2 DEF TablesOK
<1>12. ASSUME ClearMounts PROVE TablesOK'
  <2>1. /\ UNCHANGED <<storage, spaces, former, tokens, policies, attached, mounts>>
    BY <1>12 DEF ClearMounts, tables
  <2>2. routed' \subseteq Mount /\ system' \in BOOLEAN
    BY <1>3, <1>12 DEF ClearMounts, TablesOK
  <2>3. QED
    BY <1>2, <1>3, <2>1, <2>2 DEF TablesOK
<1>13. TablesOK'
  <2>1. CASE \E t \in Token : CreateToken(t) \/ EndToken(t)
    BY <1>4, <1>5, <2>1
  <2>2. CASE \E a \in Attached : Attach(a[1], a[2])
    BY <1>6, <2>2
  <2>3. CASE \E p \in Policy : CreatePolicy(p) \/ DeletePolicy(p)
    BY <1>7, <2>3
  <2>4. CASE \E n \in Namespace : CreateNamespace(n) \/ DeleteNamespace(n)
    BY <1>8, <1>9, <2>4
  <2>5. CASE \E m \in Mount : ChangeMount(m)
    BY <1>10, <2>5
  <2>6. QED
    BY <1>11, <1>12, <2>1, <2>2, <2>3, <2>4, <2>5 DEF Environment
<1>14. QED
  BY <1>2, <1>13, TypeParts DEF TypeOK, TablesOK

\* Every step keeps the types: one lemma per step of a request above, and the
\* changes to the tables.
LEMMA NextOK ==
    ASSUME TypeOK, [Next]_vars
    PROVE  TypeOK'
<1>1. CASE UNCHANGED vars
  BY <1>1 DEF vars, tables, router, TypeOK
<1>2. ASSUME NEW r \in Request, Step(r) PROVE TypeOK'
  BY <1>2, QueryFailsOK, FindNamespaceOK, FindPoliciesOK, WalkOK, AuthorizeOK, FindMountOK,
     FindBackendOK, CallRouteOK, ReplyOK DEF Step
<1>3. QED
  BY <1>1, <1>2, ArriveOK, ChangeOK DEF Next

\* Every table and every request keeps its type, whatever the order of the
\* lookups of requests and of the changes to namespaces, tokens, policies and
\* mounts.
THEOREM TypeCorrect == Spec => []TypeOK
<1>1. Init => TypeOK
  BY InitOK
<1>2. TypeOK /\ [Next]_vars => TypeOK'
  BY NextOK
<1>3. QED
  BY <1>1, <1>2, PTL DEF Spec

-----------------------------------------------------------------------------
\* A nonempty set of naturals has a least element.
LEMMA LeastNatural ==
    ASSUME NEW S \in SUBSET Nat, S # {}
    PROVE  \E x \in S : \A y \in S : x <= y
<1> DEFINE R == {ss \in Nat \X Nat : ss[1] < ss[2]}
<1>1. IsWellFoundedOn(R, Nat)
  BY NatLessThanWellFounded DEF OpToRel
<1>2. \A x, y \in Nat : x < y => <<x, y>> \in R
  OBVIOUS
<1> HIDE DEF R
<1>3. PICK x \in S : \A y \in S : ~ (<<y, x>> \in R)
  BY <1>1, WFMin
<1>4. ASSUME NEW y \in S PROVE x <= y
  <2>1. x \in Nat /\ y \in Nat
    OBVIOUS
  <2>2. ~ (y < x)
    BY <1>2, <1>3, <2>1
  <2>3. QED
    BY <2>1, <2>2
<1>5. QED
  BY <1>4

\* Induction over the naturals, for a set: the library states it for an
\* operator, which cannot be instantiated here.
LEMMA Induction ==
    ASSUME NEW P \in SUBSET Nat, 0 \in P, \A n \in P : n + 1 \in P
    PROVE  P = Nat
<1> SUFFICES ASSUME P # Nat PROVE FALSE
  OBVIOUS
<1>1. PICK x \in Nat \ P : \A y \in Nat \ P : x <= y
  BY LeastNatural
<1>2. x # 0 /\ x - 1 \in Nat /\ x - 1 \in P
  BY <1>1
<1>3. QED
  BY <1>1, <1>2

-----------------------------------------------------------------------------
\* Induction over the tree of namespaces, along ParentOf.
LEMMA TreeInduction ==
    ASSUME NEW P \in SUBSET Namespace, Root \in P,
           \A n \in Namespace \ {Root} : ParentOf[n] \in P => n \in P
    PROVE  P = Namespace
<1> SUFFICES ASSUME P # Namespace PROVE FALSE
  OBVIOUS
<1>1. PICK depth \in [Namespace -> 1 .. Cardinality(Namespace)] :
             \A n \in Namespace \ {Root} : depth[ParentOf[n]] < depth[n]
  BY PipelineAssumption
<1>2. Cardinality(Namespace) \in Nat
  BY PipelineAssumption, FS_CardinalityType
<1> DEFINE D == {depth[n] : n \in Namespace \ P}
<1>3. D \in SUBSET Nat /\ D # {}
  BY <1>1, <1>2
<1>4. PICK d \in D : \A e \in D : d <= e
  BY <1>3, LeastNatural
<1>5. PICK n \in Namespace \ P : d = depth[n]
  BY <1>4
<1>6. n # Root /\ ParentOf[n] \in Namespace /\ ParentOf[n] \notin P
  BY PipelineAssumption
<1>7. depth[ParentOf[n]] < depth[n] /\ depth[ParentOf[n]] \in D
  BY <1>1, <1>6
<1>8. depth[n] <= depth[ParentOf[n]]
  BY <1>4, <1>5, <1>7
<1>9. depth[n] \in Nat /\ depth[ParentOf[n]] \in Nat
  BY <1>3, <1>4, <1>5, <1>7
<1>10. QED
  BY <1>7, <1>8, <1>9

\* The lineages above some depth can be written down.
IsLineage(f, S) ==
    f = [n \in S |-> IF ParentOf[n] = None THEN <<n>> ELSE Append(f[ParentOf[n]], n)]

\* Lineage, chosen by its recursive equation, satisfies it: there is such a
\* function because the tree is well founded.
LEMMA LineageDef == IsLineage(Lineage, Namespace)
<1>1. PICK depth \in [Namespace -> 1 .. Cardinality(Namespace)] :
             \A n \in Namespace \ {Root} : depth[ParentOf[n]] < depth[n]
  BY PipelineAssumption
<1>2. Cardinality(Namespace) \in Nat
  BY PipelineAssumption, FS_CardinalityType
<1>3. \A n \in Namespace : depth[n] \in Nat
  BY <1>1, <1>2
<1> DEFINE D(k) == {n \in Namespace : depth[n] <= k}
           P == {k \in Nat : \E f : IsLineage(f, D(k))}
<1>4. 0 \in P
  <2>1. D(0) = {}
    BY <1>1, <1>2
  <2>2. IsLineage([n \in {} |-> n], {})
    BY DEF IsLineage
  <2>3. QED
    BY <2>1, <2>2
<1>5. ASSUME NEW k \in P PROVE k + 1 \in P
  <2>1. k \in Nat
    OBVIOUS
  <2>2. PICK f : IsLineage(f, D(k))
    OBVIOUS
  <2> DEFINE g == [n \in D(k + 1) |-> IF ParentOf[n] = None THEN <<n>> ELSE Append(f[ParentOf[n]], n)]
  <2>3. \A n \in D(k) : n \in D(k + 1)
    BY <1>3, <2>1
  <2>4. ASSUME NEW n \in D(k) PROVE g[n] = f[n]
    <3>1. f[n] = IF ParentOf[n] = None THEN <<n>> ELSE Append(f[ParentOf[n]], n)
      BY <2>2 DEF IsLineage
    <3>2. g[n] = IF ParentOf[n] = None THEN <<n>> ELSE Append(f[ParentOf[n]], n)
      BY <2>3
    <3>3. QED
      BY <3>1, <3>2
  <2>5. ASSUME NEW n \in D(k + 1), ParentOf[n] # None PROVE ParentOf[n] \in D(k)
    <3>1. n # Root /\ n \in Namespace /\ ParentOf[n] \in Namespace
      BY <2>5, PipelineAssumption
    <3>2. depth[ParentOf[n]] < depth[n] /\ depth[n] <= k + 1
      BY <1>1, <3>1
    <3>3. depth[ParentOf[n]] <= k
      BY <1>3, <2>1, <3>1, <3>2
    <3>4. QED
      BY <3>1, <3>3
  <2>6. ASSUME NEW n \in D(k + 1)
        PROVE  g[n] = IF ParentOf[n] = None THEN <<n>> ELSE Append(g[ParentOf[n]], n)
    <3>1. g[n] = IF ParentOf[n] = None THEN <<n>> ELSE Append(f[ParentOf[n]], n)
      OBVIOUS
    <3>2. ParentOf[n] # None => g[ParentOf[n]] = f[ParentOf[n]]
      BY <2>4, <2>5
    <3>3. QED
      BY <3>1, <3>2
  <2>7. g = [n \in D(k + 1) |-> g[n]]
    OBVIOUS
  <2> HIDE DEF g, D
  <2>8. IsLineage(g, D(k + 1))
    BY <2>6, <2>7 DEF IsLineage
  <2>9. k + 1 \in Nat
    BY <2>1
  <2>10. QED
    BY <2>8, <2>9
<1> HIDE DEF P
<1>6. P = Nat
  <2>1. P \in SUBSET Nat
    BY DEF P
  <2>2. QED
    BY <1>4, <1>5, <2>1, Induction
<1>7. \E f : IsLineage(f, D(Cardinality(Namespace)))
  BY <1>2, <1>6 DEF P
<1>8. D(Cardinality(Namespace)) = Namespace
  BY <1>1
<1>9. \E f : IsLineage(f, Namespace)
  BY <1>7, <1>8
<1>10. QED
  BY <1>9 DEF IsLineage, Lineage

\* The lineage of a namespace is that of its parent and itself (get_full_path
\* walks the same way, upwards).
LEMMA LineageOf ==
    ASSUME NEW n \in Namespace
    PROVE  Lineage[n] = IF n = Root THEN <<n>> ELSE Append(Lineage[ParentOf[n]], n)
<1>1. ParentOf[n] = None <=> n = Root
  BY PipelineAssumption
<1>2. Lineage[n] = IF ParentOf[n] = None THEN <<n>> ELSE Append(Lineage[ParentOf[n]], n)
  BY LineageDef DEF IsLineage
<1>3. QED
  BY <1>1, <1>2

\* Every namespace but the root has a parent.
LEMMA ParentType ==
    ASSUME NEW n \in Namespace
    PROVE  n # Root => ParentOf[n] \in Namespace
BY PipelineAssumption

\* A lineage begins at the root, goes from parent to child and ends at the namespace; every part of it from the
\* root on is the lineage of its last member.
WellBorn(n) ==
    /\ Lineage[n] \in Seq(Namespace) /\ Depth(n) \in Nat /\ Depth(n) >= 1
    /\ Lineage[n][1] = Root
    /\ Lineage[n][Depth(n)] = n
    /\ \A k \in 2 .. Depth(n) : ParentOf[Lineage[n][k]] = Lineage[n][k - 1]
    /\ \A k \in 1 .. Depth(n) : Lineage[Lineage[n][k]] = SubSeq(Lineage[n], 1, k)

\* A lineage begins at the root, ends at its namespace, and lists each
\* ancestor once, parents before children.
LEMMA Lineages == \A n \in Namespace : WellBorn(n)
<1> DEFINE P == {n \in Namespace : WellBorn(n)}
<1>1. Root \in P
  <2>1. Root \in Namespace /\ Lineage[Root] = <<Root>>
    BY LineageOf, PipelineAssumption
  <2>2. <<Root>> \in Seq(Namespace) /\ Len(<<Root>>) = 1 /\ <<Root>>[1] = Root
    BY <2>1
  <2> DEFINE L == <<Root>>
  <2> HIDE DEF L
  <2>3. L \in Seq(Namespace) /\ Len(L) = 1 /\ L[1] = Root /\ Lineage[Root] = L
    BY <2>1, <2>2 DEF L
  <2>4. SubSeq(L, 1, 1) = L
    BY <2>3, SubSeqFull
  <2>5. \A k \in 1 .. 1 : Lineage[L[k]] = SubSeq(L, 1, k)
    BY <2>3, <2>4
  <2>6. Depth(Root) = 1 /\ Lineage[Root] \in Seq(Namespace) /\ Lineage[Root][1] = Root
    BY <2>3 DEF Depth
  <2>7. \A k \in 2 .. Depth(Root) : ParentOf[Lineage[Root][k]] = Lineage[Root][k - 1]
    BY <2>6
  <2>8. \A k \in 1 .. Depth(Root) : Lineage[Lineage[Root][k]] = SubSeq(Lineage[Root], 1, k)
    BY <2>3, <2>5, <2>6
  <2>9. WellBorn(Root)
    BY <2>6, <2>7, <2>8 DEF WellBorn
  <2>10. QED
    BY <2>1, <2>9
<1>2. ASSUME NEW n \in Namespace \ {Root}, ParentOf[n] \in P PROVE n \in P
  <2> DEFINE p == ParentOf[n]
             L == Lineage[p]
             d == Len(L)
             M == Lineage[n]
  <2>1. p \in Namespace /\ WellBorn(p)
    BY <1>2
  <2>2. L \in Seq(Namespace) /\ d \in Nat /\ d >= 1 /\ L[1] = Root /\ L[d] = p
    BY <2>1 DEF WellBorn, Depth
  <2>3. M = Append(L, n)
    BY LineageOf
  <2> HIDE DEF L, M
  <2>4. M \in Seq(Namespace) /\ Len(M) = d + 1 /\ M[d + 1] = n /\ \A k \in 1 .. d : M[k] = L[k]
    BY <2>2, <2>3
  <2>5. ASSUME NEW k \in 2 .. d + 1 PROVE ParentOf[M[k]] = M[k - 1]
    <3>1. CASE k = d + 1
      BY <2>2, <2>4, <3>1
    <3>2. CASE k \in 2 .. d
      <4>1. ParentOf[L[k]] = L[k - 1]
        BY <2>1, <3>2 DEF WellBorn, Depth, L
      <4>2. M[k] = L[k] /\ M[k - 1] = L[k - 1]
        BY <2>2, <2>4, <3>2
      <4>3. QED
        BY <4>1, <4>2
    <3>3. QED
      BY <2>2, <3>1, <3>2
  <2>6. ASSUME NEW k \in 1 .. d + 1 PROVE Lineage[M[k]] = SubSeq(M, 1, k)
    <3>1. CASE k = d + 1
      <4>1. SubSeq(M, 1, d + 1) = M
        BY <2>4, SubSeqFull
      <4>2. QED
        BY <2>4, <3>1, <4>1 DEF M
    <3>2. CASE k \in 1 .. d
      <4>1. Lineage[L[k]] = SubSeq(L, 1, k)
        BY <2>1, <3>2 DEF WellBorn, Depth, L
      <4>2. SubSeq(M, 1, k) = SubSeq(L, 1, k)
        BY <2>2, <2>4, <3>2
      <4>3. QED
        BY <2>4, <3>2, <4>1, <4>2
    <3>3. QED
      BY <2>2, <3>1, <3>2
  <2>7. M[1] = Root /\ d + 1 \in Nat /\ d + 1 >= 1
    BY <2>2, <2>4
  <2>8. WellBorn(n)
    BY <2>4, <2>5, <2>6, <2>7 DEF WellBorn, Depth, M
  <2>9. QED
    BY <2>8
<1>3. P \in SUBSET Namespace
  OBVIOUS
<1> HIDE DEF P
<1>4. P = Namespace
  BY <1>1, <1>2, <1>3, TreeInduction
<1>5. QED
  BY <1>4 DEF P

\* Where parents of members are members, whole lineages are.
LEMMA LineageWithin ==
    ASSUME NEW S \in SUBSET Namespace, \A n \in S : ParentOf[n] \in S \cup {None},
           NEW n \in S, NEW k \in 1 .. Depth(n)
    PROVE  Lineage[n][k] \in S
<1> DEFINE P == {m \in Namespace : m \in S => \A j \in 1 .. Depth(m) : Lineage[m][j] \in S}
<1>1. Root \in P
  <2>1. Root \in Namespace /\ Lineage[Root] = <<Root>>
    BY LineageOf, PipelineAssumption
  <2>2. QED
    BY <2>1 DEF Depth
<1>2. ASSUME NEW m \in Namespace \ {Root}, ParentOf[m] \in P PROVE m \in P
  <2> SUFFICES ASSUME m \in S, NEW j \in 1 .. Depth(m) PROVE Lineage[m][j] \in S
    OBVIOUS
  <2>1. ParentOf[m] \in S
    BY PipelineAssumption
  <2>2. /\ Lineage[ParentOf[m]] \in Seq(Namespace)
        /\ Lineage[m] = Append(Lineage[ParentOf[m]], m)
    BY <2>1, Lineages, LineageOf DEF WellBorn
  <2>3. CASE j = Len(Lineage[ParentOf[m]]) + 1
    BY <2>2, <2>3
  <2>4. CASE j \in 1 .. Len(Lineage[ParentOf[m]])
    <3>1. Lineage[m][j] = Lineage[ParentOf[m]][j]
      BY <2>2, <2>4
    <3>2. QED
      BY <1>2, <2>1, <2>4, <3>1 DEF Depth
  <2>5. QED
    BY <2>2, <2>3, <2>4 DEF Depth
<1> HIDE DEF P
<1>3. P = Namespace
  <2>1. P \in SUBSET Namespace
    BY DEF P
  <2>2. QED
    BY <1>1, <1>2, <2>1, TreeInduction
<1>4. QED
  BY <1>3 DEF P

\* Two lineages whose first k members have the same names are the same as far.
Apart(n, m) ==
    \A k \in Nat : (/\ k <= Depth(n) /\ k <= Depth(m)
                    /\ \A j \in 1 .. k : NameOf[Lineage[n][j]] = NameOf[Lineage[m][j]])
                 => \A j \in 1 .. k : Lineage[n][j] = Lineage[m][j]

\* While no two siblings that exist have one name, namespaces that exist are
\* apart: their lists of names part at some level.
LEMMA LivingApart ==
    ASSUME NEW S \in SUBSET Namespace, \A n \in S : ParentOf[n] \in S \cup {None},
           \A n, k \in S : Distinct(n, k), NEW n \in S, NEW m \in S
    PROVE  Apart(n, m)
<1>1. WellBorn(n) /\ WellBorn(m)
  BY Lineages
<1>2. Depth(n) \in Nat /\ Depth(n) >= 1 /\ Depth(m) \in Nat /\ Depth(m) >= 1
  BY <1>1 DEF WellBorn
<1> DEFINE Same(k) == \A j \in 1 .. k : Lineage[n][j] = Lineage[m][j]
           Alike(k) == /\ k <= Depth(n) /\ k <= Depth(m)
                       /\ \A j \in 1 .. k : NameOf[Lineage[n][j]] = NameOf[Lineage[m][j]]
           P == {k \in Nat : Alike(k) => Same(k)}
<1>3. 0 \in P
  OBVIOUS
<1>4. ASSUME NEW k \in P PROVE k + 1 \in P
  <2> SUFFICES ASSUME Alike(k + 1) PROVE Same(k + 1)
    OBVIOUS
  <2>1. k \in Nat /\ Same(k)
    <3>1. k \in Nat /\ Alike(k)
      BY <1>2
    <3>2. QED
      BY <3>1
  <2>2. Lineage[n][k + 1] = Lineage[m][k + 1]
    <3>1. CASE k = 0
      BY <1>1, <3>1 DEF WellBorn
    <3>2. CASE k >= 1
      <4> DEFINE x == Lineage[n][k + 1]
                 y == Lineage[m][k + 1]
      <4>1. k + 1 \in 2 .. Depth(n) /\ k + 1 \in 2 .. Depth(m) /\ (k + 1) - 1 = k /\ k \in 1 .. k
        BY <1>2, <2>1, <3>2
      <4>2. ParentOf[x] = Lineage[n][k] /\ ParentOf[y] = Lineage[m][k]
        BY <1>1, <4>1 DEF WellBorn
      <4>3. NameOf[x] = NameOf[y]
        BY <2>1
      <4>4. x \in S /\ y \in S
        BY <1>2, <4>1, LineageWithin
      <4>5. ParentOf[x] = ParentOf[y]
        BY <2>1, <4>1, <4>2
      <4> HIDE DEF x, y
      <4>6. x = y
        BY <4>3, <4>4, <4>5 DEF Distinct
      <4>7. QED
        BY <4>6 DEF x, y
    <3>3. QED
      BY <2>1, <3>1, <3>2
  <2>3. QED
    BY <2>1, <2>2
<1> HIDE DEF P
<1>5. P = Nat
  <2>1. P \in SUBSET Nat
    BY DEF P
  <2>2. QED
    BY <1>3, <1>4, <2>1, Induction
<1>6. QED
  BY <1>5 DEF P, Apart

-----------------------------------------------------------------------------
Char == STRING
Text == Seq(Char)

\* The slash is a character, and a text by itself.
LEMMA SlashChar == Slash \in Char /\ <<Slash>> \in Text
<1>1. Slash \in Char
  BY PipelineAssumption DEF Char
<1>2. QED
  BY <1>1 DEF Text

IsJoin(f, names) ==
    f = [i \in 1 .. Len(names) |->
            IF i = 1 THEN names[1] ELSE f[i - 1] \o <<Slash>> \o names[i]]

\* The recursive equation of Join has a solution for every list of names.
LEMMA JoinExists ==
    ASSUME NEW names \in Seq(Text)
    PROVE  \E f : IsJoin(f, names)
<1> DEFINE Joins(f, k) == f = [i \in 1 .. k |-> IF i = 1 THEN names[1] ELSE f[i - 1] \o <<Slash>> \o names[i]]
           P == {k \in Nat : \E f : Joins(f, k)}
<1>1. 0 \in P
  <2>1. Joins([i \in 1 .. 0 |-> i], 0)
    OBVIOUS
  <2>2. QED
    BY <2>1
<1>2. ASSUME NEW k \in P PROVE k + 1 \in P
  <2>1. k \in Nat /\ k + 1 \in Nat
    OBVIOUS
  <2>2. PICK f : Joins(f, k)
    OBVIOUS
  <2> DEFINE g == [i \in 1 .. k + 1 |-> IF i = 1 THEN names[1] ELSE f[i - 1] \o <<Slash>> \o names[i]]
  <2>3. ASSUME NEW i \in 1 .. k PROVE g[i] = f[i]
    <3>1. i \in 1 .. k + 1
      BY <2>1
    <3>2. f[i] = IF i = 1 THEN names[1] ELSE f[i - 1] \o <<Slash>> \o names[i]
      BY <2>2
    <3>3. QED
      BY <3>1, <3>2
  <2>4. ASSUME NEW i \in 1 .. k + 1
        PROVE  g[i] = IF i = 1 THEN names[1] ELSE g[i - 1] \o <<Slash>> \o names[i]
    <3>1. g[i] = IF i = 1 THEN names[1] ELSE f[i - 1] \o <<Slash>> \o names[i]
      OBVIOUS
    <3>2. CASE i = 1
      BY <3>1, <3>2
    <3>3. CASE i # 1
      <4>1. i - 1 \in 1 .. k
        BY <2>1, <3>3
      <4>2. g[i - 1] = f[i - 1]
        BY <2>3, <4>1
      <4>3. QED
        BY <3>1, <3>3, <4>2
    <3>4. QED
      BY <3>2, <3>3
  <2>5. g = [i \in 1 .. k + 1 |-> g[i]]
    OBVIOUS
  <2> HIDE DEF g
  <2>6. Joins(g, k + 1)
    BY <2>4, <2>5
  <2> HIDE DEF Joins
  <2>7. QED
    BY <2>1, <2>6
<1>3. P = Nat
  <2>1. P \in SUBSET Nat
    OBVIOUS
  <2> HIDE DEF P
  <2>2. QED
    BY <1>1, <1>2, <2>1, Induction
<1>4. Len(names) \in Nat
  OBVIOUS
<1>5. \E f : Joins(f, Len(names))
  BY <1>3, <1>4
<1>6. QED
  BY <1>5 DEF IsJoin

\* Joined as a recursive function of the number of names
Join(names) == CHOOSE f : IsJoin(f, names)

\* Joined is the last value of that solution.
LEMMA JoinedDef ==
    ASSUME NEW names \in Seq(Text), names # <<>>
    PROVE  IsJoin(Join(names), names) /\ Joined(names) = Join(names)[Len(names)]
<1>1. IsJoin(Join(names), names)
  BY JoinExists DEF Join
<1>2. Joined(names) = Join(names)[Len(names)]
  BY DEF Joined, Join, IsJoin
<1>3. QED
  BY <1>1, <1>2

\* The equation itself, one name at a time.
LEMMA JoinAt ==
    ASSUME NEW names \in Seq(Text), names # <<>>, NEW i \in 1 .. Len(names)
    PROVE  Join(names)[i] = IF i = 1 THEN names[1] ELSE Join(names)[i - 1] \o <<Slash>> \o names[i]
<1> DEFINE f == Join(names)
<1>1. IsJoin(f, names)
  BY JoinedDef
<1> HIDE DEF f
<1>2. f[i] = IF i = 1 THEN names[1] ELSE f[i - 1] \o <<Slash>> \o names[i]
  BY <1>1 DEF IsJoin
<1>3. QED
  BY <1>2 DEF f

\* What is joined depends on the names up to there.
LEMMA JoinBegins ==
    ASSUME NEW s \in Seq(Text), s # <<>>, NEW x \in Text, NEW i \in 1 .. Len(s)
    PROVE  Join(Append(s, x))[i] = Join(s)[i]
<1> DEFINE t == Append(s, x)
           P == {k \in Nat : (k \in 1 .. Len(s)) => Join(t)[k] = Join(s)[k]}
<1>1. t \in Seq(Text) /\ t # <<>> /\ Len(t) = Len(s) + 1 /\ \A k \in 1 .. Len(s) : t[k] = s[k] /\ k \in 1 .. Len(t)
  OBVIOUS
<1> HIDE DEF t
<1>2. 0 \in P
  OBVIOUS
<1>3. ASSUME NEW k \in P PROVE k + 1 \in P
  <2> SUFFICES ASSUME k + 1 \in 1 .. Len(s) PROVE Join(t)[k + 1] = Join(s)[k + 1]
    OBVIOUS
  <2>1. /\ Join(t)[k + 1] = IF k + 1 = 1 THEN t[1] ELSE Join(t)[(k + 1) - 1] \o <<Slash>> \o t[k + 1]
        /\ Join(s)[k + 1] = IF k + 1 = 1 THEN s[1] ELSE Join(s)[(k + 1) - 1] \o <<Slash>> \o s[k + 1]
    BY <1>1, JoinAt
  <2>2. CASE k = 0
    BY <1>1, <2>1, <2>2
  <2>3. CASE k # 0
    <3>1. k \in 1 .. Len(s) /\ (k + 1) - 1 = k /\ k + 1 # 1
      BY <2>3
    <3>2. Join(t)[k] = Join(s)[k]
      BY <3>1
    <3>3. QED
      BY <1>1, <2>1, <3>1, <3>2
  <2>4. QED
    BY <2>2, <2>3
<1>4. P = Nat
  <2>1. P \in SUBSET Nat
    OBVIOUS
  <2> HIDE DEF P
  <2>2. QED
    BY <1>2, <1>3, <2>1, Induction
<1>5. QED
  BY <1>4 DEF t

\* One name, joined, is itself.
LEMMA JoinedOne ==
    ASSUME NEW x \in Text
    PROVE  Joined(<<x>>) = x
<1> DEFINE s == <<x>>
<1>1. s \in Seq(Text) /\ s # <<>> /\ Len(s) = 1 /\ s[1] = x
  OBVIOUS
<1> HIDE DEF s
<1>2. Joined(s) = Join(s)[1] /\ Join(s)[1] = s[1]
  BY <1>1, JoinedDef, JoinAt
<1>3. QED
  BY <1>1, <1>2 DEF s

\* Joining one name more appends a slash and the name.
LEMMA JoinedAppend ==
    ASSUME NEW s \in Seq(Text), s # <<>>, NEW x \in Text
    PROVE  Joined(Append(s, x)) = Joined(s) \o <<Slash>> \o x
<1> DEFINE t == Append(s, x)
           n == Len(s)
<1>1. t \in Seq(Text) /\ t # <<>> /\ Len(t) = n + 1 /\ t[n + 1] = x /\ n \in Nat /\ n >= 1
  <2>1. n # 0
    OBVIOUS
  <2>2. QED
    BY <2>1
<1>2. Join(t)[n] = Join(s)[n]
  BY <1>1, JoinBegins
<1> HIDE DEF t, n
<1>3. Joined(t) = Join(t)[n + 1]
  BY <1>1, JoinedDef
<1>4. Join(t)[n + 1] = Join(t)[n] \o <<Slash>> \o x
  <2>1. n + 1 \in 1 .. Len(t) /\ (n + 1) - 1 = n /\ n + 1 # 1
    BY <1>1
  <2>2. QED
    BY <1>1, <2>1, JoinAt
<1>5. Joined(s) = Join(s)[n]
  BY JoinedDef DEF n
<1>6. QED
  BY <1>2, <1>3, <1>4, <1>5 DEF t

\* A sequence that is not empty is another one with an element appended.
LEMMA LastOff ==
    ASSUME NEW S, NEW s \in Seq(S), NEW k \in Nat, Len(s) = k + 1
    PROVE  \E u \in Seq(S) : \E x \in S : s = Append(u, x) /\ Len(u) = k
<1> DEFINE u == SubSeq(s, 1, k)
<1>1. u \in Seq(S) /\ Len(u) = k /\ \A i \in 1 .. k : u[i] = s[i]
  OBVIOUS
<1>2. s[k + 1] \in S
  OBVIOUS
<1> HIDE DEF u
<1>3. s = Append(u, s[k + 1])
  BY <1>1, <1>2
<1>4. QED
  BY <1>1, <1>2, <1>3

\* Joined names are a text.
LEMMA JoinedType ==
    ASSUME NEW s \in Seq(Text), s # <<>>
    PROVE  Joined(s) \in Text
<1> DEFINE P == {k \in Nat : \A v \in Seq(Text) : Len(v) = k + 1 => Joined(v) \in Text}
<1>1. 0 \in P
  <2>1. ASSUME NEW v \in Seq(Text), Len(v) = 0 + 1 PROVE Joined(v) \in Text
    <3>0. Len(v) = 1
      BY <2>1
    <3>1. v = <<v[1]>> /\ v[1] \in Text
      <4>1. v[1] \in Text
        BY <3>0
      <4>2. v = [i \in 1 .. 1 |-> v[i]]
        BY <3>0
      <4>3. QED
        BY <4>1, <4>2
    <3>2. QED
      BY <3>1, JoinedOne
  <2>2. QED
    BY <2>1
<1>2. ASSUME NEW k \in P PROVE k + 1 \in P
  <2>1. ASSUME NEW v \in Seq(Text), Len(v) = (k + 1) + 1 PROVE Joined(v) \in Text
    <3>1. PICK u \in Seq(Text), x \in Text : v = Append(u, x) /\ Len(u) = k + 1
      <4>1. k + 1 \in Nat
        OBVIOUS
      <4>2. QED
        BY <2>1, <4>1, LastOff
    <3>2. Joined(u) \in Text /\ u # <<>>
      BY <3>1
    <3>3. Joined(v) = Joined(u) \o <<Slash>> \o x
      BY <3>1, <3>2, JoinedAppend
    <3>4. QED
      <4>1. <<Slash>> \in Text
        BY SlashChar
      <4>2. Joined(u) \o <<Slash>> \in Text
        BY <3>2, <4>1, ConcatProperties DEF Text
      <4>3. QED
        BY <3>1, <3>3, <4>2, ConcatProperties DEF Text
  <2>2. QED
    BY <2>1
<1>3. P = Nat
  <2>1. P \in SUBSET Nat
    OBVIOUS
  <2> HIDE DEF P
  <2>2. QED
    BY <1>1, <1>2, <2>1, Induction
<1>4. Len(s) - 1 \in Nat /\ Len(s) = (Len(s) - 1) + 1
  <2>1. Len(s) # 0 /\ Len(s) \in Nat
    OBVIOUS
  <2>2. QED
    BY <2>1
<1>5. QED
  BY <1>3, <1>4

-----------------------------------------------------------------------------
\* One text, a slash and another one
LEMMA Slashed ==
    ASSUME NEW x \in Text, NEW u \in Text
    PROVE  /\ x \o <<Slash>> \o u \in Text
           /\ Len(x) \in Nat /\ Len(u) \in Nat
           /\ Len(x \o <<Slash>> \o u) = Len(x) + 1 + Len(u)
           /\ \A i \in 1 .. Len(x) : (x \o <<Slash>> \o u)[i] = x[i]
           /\ (x \o <<Slash>> \o u)[Len(x) + 1] = Slash
           /\ \A i \in 1 .. Len(u) : (x \o <<Slash>> \o u)[Len(x) + 1 + i] = u[i]
<1> DEFINE y == x \o <<Slash>>
           z == y \o u
<1>1. Len(x) \in Nat /\ Len(u) \in Nat /\ <<Slash>> \in Text /\ Len(<<Slash>>) = 1 /\ <<Slash>>[1] = Slash
  BY SlashChar DEF Text
<1>2. y \in Text /\ Len(y) = Len(x) + 1 /\ \A i \in 1 .. Len(x) + 1 : y[i] = IF i <= Len(x) THEN x[i] ELSE <<Slash>>[i - Len(x)]
  BY <1>1, ConcatProperties DEF Text
<1>3. y[Len(x) + 1] = Slash /\ \A i \in 1 .. Len(x) : y[i] = x[i]
  <2>1. Len(x) + 1 \in 1 .. Len(x) + 1 /\ ~ (Len(x) + 1 <= Len(x)) /\ (Len(x) + 1) - Len(x) = 1
    BY <1>1
  <2>2. QED
    BY <1>1, <1>2, <2>1
<1> HIDE DEF y
<1>4. z \in Text /\ Len(z) = Len(y) + Len(u) /\ \A i \in 1 .. Len(y) + Len(u) : z[i] = IF i <= Len(y) THEN y[i] ELSE u[i - Len(y)]
  BY <1>2, ConcatProperties DEF Text
<1> HIDE DEF z
<1>5. /\ \A i \in 1 .. Len(x) : z[i] = x[i]
      /\ z[Len(x) + 1] = Slash
  BY <1>1, <1>2, <1>3, <1>4
<1>6. ASSUME NEW i \in 1 .. Len(u) PROVE z[Len(x) + 1 + i] = u[i]
  <2>1. Len(x) + 1 + i \in 1 .. Len(y) + Len(u) /\ ~ (Len(x) + 1 + i <= Len(y)) /\ (Len(x) + 1 + i) - Len(y) = i
    BY <1>1, <1>2
  <2>2. QED
    BY <1>4, <2>1
<1>7. Len(z) = Len(x) + 1 + Len(u)
  BY <1>2, <1>4
<1>8. QED
  BY <1>1, <1>4, <1>5, <1>6, <1>7 DEF z, y

Slashless == {x \in Text : \A k \in 1 .. Len(x) : x[k] # Slash}

\* Names are free of slashes: where one path begins with another, its first name is the other's.
LEMMA FirstName ==
    ASSUME NEW x \in Slashless, NEW y \in Slashless, NEW u \in Text, NEW v \in Text,
           StartsWith(x \o <<Slash>> \o u, y \o <<Slash>> \o v)
    PROVE  x = y /\ StartsWith(u, v)
<1> DEFINE a == x \o <<Slash>> \o u
           b == y \o <<Slash>> \o v
<1>1. x \in Text /\ y \in Text /\ (\A k \in 1 .. Len(x) : x[k] # Slash) /\ (\A k \in 1 .. Len(y) : y[k] # Slash)
  BY DEF Slashless
<1>2. /\ Len(x) \in Nat /\ Len(u) \in Nat /\ Len(a) = Len(x) + 1 + Len(u)
      /\ \A i \in 1 .. Len(x) : a[i] = x[i]
      /\ a[Len(x) + 1] = Slash
      /\ \A i \in 1 .. Len(u) : a[Len(x) + 1 + i] = u[i]
  BY <1>1, Slashed
<1>3. /\ Len(y) \in Nat /\ Len(v) \in Nat /\ Len(b) = Len(y) + 1 + Len(v)
      /\ \A i \in 1 .. Len(y) : b[i] = y[i]
      /\ b[Len(y) + 1] = Slash
      /\ \A i \in 1 .. Len(v) : b[Len(y) + 1 + i] = v[i]
  BY <1>1, Slashed
<1>4. Len(b) <= Len(a) /\ \A i \in 1 .. Len(b) : a[i] = b[i]
  BY DEF StartsWith
<1> HIDE DEF a, b
<1>5. ~ (Len(x) < Len(y))
  <2> SUFFICES ASSUME Len(x) < Len(y) PROVE FALSE
    OBVIOUS
  <2>1. Len(x) + 1 \in 1 .. Len(y) /\ Len(x) + 1 \in 1 .. Len(b)
    BY <1>2, <1>3
  <2>2. QED
    BY <1>1, <1>2, <1>3, <1>4, <2>1
<1>6. ~ (Len(y) < Len(x))
  <2> SUFFICES ASSUME Len(y) < Len(x) PROVE FALSE
    OBVIOUS
  <2>1. Len(y) + 1 \in 1 .. Len(x) /\ Len(y) + 1 \in 1 .. Len(b)
    BY <1>2, <1>3
  <2>2. QED
    BY <1>1, <1>2, <1>3, <1>4, <2>1
<1>7. Len(x) = Len(y)
  BY <1>2, <1>3, <1>5, <1>6
<1>8. ASSUME NEW i \in 1 .. Len(x) PROVE x[i] = y[i]
  <2>1. i \in 1 .. Len(y) /\ i \in 1 .. Len(b)
    BY <1>2, <1>3, <1>7
  <2>2. QED
    BY <1>2, <1>3, <1>4, <2>1
<1>9. x = y
  BY <1>1, <1>7, <1>8, SeqEqual DEF Text
<1>10. Len(v) <= Len(u)
  BY <1>2, <1>3, <1>4, <1>7
<1>11. ASSUME NEW i \in 1 .. Len(v) PROVE u[i] = v[i]
  <2>1. i \in 1 .. Len(u) /\ Len(y) + 1 + i \in 1 .. Len(b)
    BY <1>2, <1>3, <1>10
  <2>2. QED
    BY <1>2, <1>3, <1>4, <1>7, <2>1
<1>12. QED
  BY <1>9, <1>10, <1>11 DEF StartsWith

\* The path below the names, as is_authorized joins them
Full(names, path) == IF names = <<>> THEN path ELSE Joined(names) \o <<Slash>> \o path

\* A full path is a text.
LEMMA FullType ==
    ASSUME NEW s \in Seq(Text), NEW u \in Text
    PROVE  Full(s, u) \in Text
BY JoinedType, Slashed DEF Full

\* Joining has no parentheses.
Cat(x, y) == x \o y

\* Concatenation of texts is associative.
LEMMA Associative ==
    ASSUME NEW x \in Text, NEW y \in Text, NEW z \in Text
    PROVE  Cat(x, y) \in Text /\ Cat(Cat(x, y), z) = Cat(x, Cat(y, z))
BY ConcatAssociative, ConcatProperties DEF Text, Cat

\* The same, around the slashes of a path.
LEMMA Reassociate ==
    ASSUME NEW a \in Text, NEW b \in Text, NEW c \in Text
    PROVE  (a \o <<Slash>> \o b) \o <<Slash>> \o c = a \o <<Slash>> \o (b \o <<Slash>> \o c)
<1>1. ASSUME NEW s \in Text
      PROVE  Cat(Cat(Cat(Cat(a, s), b), s), c) = Cat(Cat(a, s), Cat(Cat(b, s), c))
  BY Associative
<1>2. <<Slash>> \in Text
  BY SlashChar
<1>3. QED
  BY <1>1, <1>2 DEF Cat

\* The last name of a namespace can be moved into the path.
LEMMA FullAppend ==
    ASSUME NEW s \in Seq(Text), NEW x \in Text, NEW u \in Text
    PROVE  Full(Append(s, x), u) = Full(s, x \o <<Slash>> \o u)
<1>1. Append(s, x) # <<>> /\ Full(Append(s, x), u) = Joined(Append(s, x)) \o <<Slash>> \o u
  BY DEF Full
<1>2. CASE s = <<>>
  <2>1. Append(s, x) = <<x>>
    BY <1>2
  <2>2. QED
    BY <1>1, <1>2, <2>1, JoinedOne DEF Full
<1>3. CASE s # <<>>
  <2>1. Joined(Append(s, x)) = Joined(s) \o <<Slash>> \o x
    BY <1>3, JoinedAppend
  <2>2. Joined(s) \in Text
    BY <1>3, JoinedType
  <2>3. (Joined(s) \o <<Slash>> \o x) \o <<Slash>> \o u = Joined(s) \o <<Slash>> \o (x \o <<Slash>> \o u)
    BY <2>2, Reassociate
  <2>4. QED
    BY <1>1, <1>3, <2>1, <2>3 DEF Full
<1>4. QED
  BY <1>2, <1>3

\* The names of a namespace can be split anywhere: the path below the first
\* part is the full path of the second.
LEMMA FullConcat ==
    ASSUME NEW s \in Seq(Text), NEW t \in Seq(Text), NEW u \in Text
    PROVE  Full(s \o t, u) = Full(s, Full(t, u))
<1> DEFINE P == {k \in Nat : \A w \in Seq(Text) : \A z \in Text :
                    Len(w) = k => Full(s \o w, z) = Full(s, Full(w, z))}
<1>1. 0 \in P
  <2>1. ASSUME NEW w \in Seq(Text), NEW z \in Text, Len(w) = 0
        PROVE  Full(s \o w, z) = Full(s, Full(w, z))
    <3>1. w = <<>> /\ s \o w = s
      BY <2>1
    <3>2. QED
      BY <3>1 DEF Full
  <2>2. QED
    BY <2>1
<1>2. ASSUME NEW k \in P PROVE k + 1 \in P
  <2>1. ASSUME NEW w \in Seq(Text), NEW z \in Text, Len(w) = k + 1
        PROVE  Full(s \o w, z) = Full(s, Full(w, z))
    <3>1. PICK q \in Seq(Text), x \in Text : w = Append(q, x) /\ Len(q) = k
      BY <2>1, LastOff
    <3>2. s \o w = Append(s \o q, x) /\ s \o q \in Seq(Text)
      BY <3>1
    <3>3. x \o <<Slash>> \o z \in Text
      BY Slashed
    <3>4. Full(s \o w, z) = Full(s \o q, x \o <<Slash>> \o z)
      <4> DEFINE r == s \o q
      <4>1. r \in Seq(Text) /\ s \o w = Append(r, x)
        BY <3>2
      <4> HIDE DEF r
      <4>2. Full(Append(r, x), z) = Full(r, x \o <<Slash>> \o z)
        BY <4>1, FullAppend
      <4>3. QED
        BY <4>1, <4>2 DEF r
    <3>5. Full(s \o q, x \o <<Slash>> \o z) = Full(s, Full(q, x \o <<Slash>> \o z))
      BY <3>1, <3>3
    <3>6. Full(q, x \o <<Slash>> \o z) = Full(w, z)
      BY <3>1, FullAppend
    <3>7. QED
      BY <3>4, <3>5, <3>6
  <2>2. QED
    BY <2>1
<1>3. P = Nat
  <2>1. P \in SUBSET Nat
    OBVIOUS
  <2> HIDE DEF P
  <2>2. QED
    BY <1>1, <1>2, <2>1, Induction
<1>4. Len(t) \in Nat
  OBVIOUS
<1>5. QED
  BY <1>3, <1>4

\* A name is a text without a slash, and not empty.
LEMMA NameText == Name \subseteq Text /\ Seq(Name) \subseteq Seq(Text) /\ Name \subseteq Slashless /\ <<>> \notin Name
<1>1. Name \subseteq Text /\ Name \subseteq Slashless /\ <<>> \notin Name
  BY DEF Name, Slashless, Text, Char
<1>2. QED
  BY <1>1, SeqMonotonic

\* Where a path below so many names begins with one below as many, the names are the same.
LEMMA SameNames ==
    ASSUME NEW s \in Seq(Name), NEW t \in Seq(Name), Len(s) = Len(t),
           NEW u \in Text, NEW v \in Text, StartsWith(Full(s, u), Full(t, v))
    PROVE  s = t /\ StartsWith(u, v)
<1> DEFINE P == {k \in Nat : \A p, q \in Seq(Name) : \A y, z \in Text :
                    (Len(p) = k /\ Len(q) = k /\ StartsWith(Full(p, y), Full(q, z)))
                      => (p = q /\ StartsWith(y, z))}
<1>1. 0 \in P
  <2>1. ASSUME NEW p \in Seq(Name), NEW q \in Seq(Name), NEW y \in Text, NEW z \in Text,
               Len(p) = 0, Len(q) = 0, StartsWith(Full(p, y), Full(q, z))
        PROVE  p = q /\ StartsWith(y, z)
    <3>1. p = <<>> /\ q = <<>>
      BY <2>1
    <3>2. QED
      BY <2>1, <3>1 DEF Full
  <2>2. QED
    BY <2>1
<1>2. ASSUME NEW k \in P PROVE k + 1 \in P
  <2>1. ASSUME NEW p \in Seq(Name), NEW q \in Seq(Name), NEW y \in Text, NEW z \in Text,
               Len(p) = k + 1, Len(q) = k + 1, StartsWith(Full(p, y), Full(q, z))
        PROVE  p = q /\ StartsWith(y, z)
    <3>1. PICK p1 \in Seq(Name), n \in Name : p = Append(p1, n) /\ Len(p1) = k
      BY <2>1, LastOff
    <3>2. PICK q1 \in Seq(Name), m \in Name : q = Append(q1, m) /\ Len(q1) = k
      BY <2>1, LastOff
    <3>3. n \in Text /\ m \in Text /\ p1 \in Seq(Text) /\ q1 \in Seq(Text)
      BY NameText
    <3>4. n \o <<Slash>> \o y \in Text /\ m \o <<Slash>> \o z \in Text
      BY <3>3, Slashed
    <3>5. StartsWith(Full(p1, n \o <<Slash>> \o y), Full(q1, m \o <<Slash>> \o z))
      BY <2>1, <3>1, <3>2, <3>3, FullAppend
    <3>6. p1 = q1 /\ StartsWith(n \o <<Slash>> \o y, m \o <<Slash>> \o z)
      BY <3>1, <3>2, <3>4, <3>5
    <3>7. n = m /\ StartsWith(y, z)
      BY <3>6, FirstName, NameText
    <3>8. QED
      BY <3>1, <3>2, <3>6, <3>7
  <2>2. QED
    BY <2>1
<1>3. P = Nat
  <2>1. P \in SUBSET Nat
    OBVIOUS
  <2> HIDE DEF P
  <2>2. QED
    BY <1>1, <1>2, <2>1, Induction
<1>4. Len(t) \in Nat
  OBVIOUS
<1>5. QED
  BY <1>3, <1>4

-----------------------------------------------------------------------------
\* A text without its last and without its first character
LEMMA Cut ==
    ASSUME NEW S, NEW w \in Seq(S), Len(w) > 0
    PROVE  /\ SubSeq(w, 1, Len(w) - 1) \in Seq(S) /\ SubSeq(w, 2, Len(w)) \in Seq(S)
           /\ Len(SubSeq(w, 1, Len(w) - 1)) = Len(w) - 1 /\ Len(SubSeq(w, 2, Len(w))) = Len(w) - 1
           /\ \A i \in 1 .. Len(w) - 1 : SubSeq(w, 1, Len(w) - 1)[i] = w[i] /\ SubSeq(w, 2, Len(w))[i] = w[i + 1]
<1>1. \A L \in Nat \ {0} : /\ 1 \in 1 .. L + 1 /\ 2 \in 1 .. L + 1 /\ L - 1 \in 1 - 1 .. L /\ L \in 2 - 1 .. L
                             /\ (L - 1) - 1 + 1 = L - 1 /\ L - 2 + 1 = L - 1
                             /\ \A i \in 1 .. L - 1 : 1 + i - 1 = i /\ 2 + i - 1 = i + 1
  OBVIOUS
<1>2. Len(w) \in Nat \ {0}
  OBVIOUS
<1> DEFINE L == Len(w)
<1> HIDE DEF L
<1>3. /\ 1 \in 1 .. L + 1 /\ 2 \in 1 .. L + 1 /\ L - 1 \in 1 - 1 .. L /\ L \in 2 - 1 .. L
      /\ (L - 1) - 1 + 1 = L - 1 /\ L - 2 + 1 = L - 1
      /\ \A i \in 1 .. L - 1 : 1 + i - 1 = i /\ 2 + i - 1 = i + 1
  BY <1>1, <1>2 DEF L
<1>4. /\ SubSeq(w, 1, L - 1) \in Seq(S) /\ Len(SubSeq(w, 1, L - 1)) = (L - 1) - 1 + 1
      /\ \A i \in 1 .. (L - 1) - 1 + 1 : SubSeq(w, 1, L - 1)[i] = w[1 + i - 1]
  BY <1>3, SubSeqProperties DEF L
<1>5. /\ SubSeq(w, 2, L) \in Seq(S) /\ Len(SubSeq(w, 2, L)) = L - 2 + 1
      /\ \A i \in 1 .. L - 2 + 1 : SubSeq(w, 2, L)[i] = w[2 + i - 1]
  BY <1>3, SubSeqProperties DEF L
<1>6. /\ SubSeq(w, 1, L - 1) \in Seq(S) /\ SubSeq(w, 2, L) \in Seq(S)
      /\ Len(SubSeq(w, 1, L - 1)) = L - 1 /\ Len(SubSeq(w, 2, L)) = L - 1
      /\ \A i \in 1 .. L - 1 : SubSeq(w, 1, L - 1)[i] = w[i] /\ SubSeq(w, 2, L)[i] = w[i + 1]
  BY <1>3, <1>4, <1>5
<1>7. QED
  BY <1>6 DEF L

\* Which paths a pattern matches
LEMMA StarMatch ==
    ASSUME NEW w \in Text, NEW u \in Text, EndsInStar(w)
    PROVE  Matches(w, u) <=> (Len(w) - 1 <= Len(u) /\ \A i \in 1 .. Len(w) - 1 : u[i] = w[i])
<1>1. Len(w) \in Nat /\ Len(w) > 0
  BY DEF EndsInStar, Text
<1>2. /\ WithoutStar(w) = SubSeq(w, 1, Len(w) - 1)
      /\ Len(WithoutStar(w)) = Len(w) - 1
      /\ \A i \in 1 .. Len(w) - 1 : WithoutStar(w)[i] = w[i]
  BY <1>1, Cut DEF WithoutStar, Text
<1>3. QED
  BY <1>2 DEF Matches, StartsWith

\* A slash is no star: only the end of what is below it can be one.
LEMMA StarBelow ==
    ASSUME NEW x \in Text, NEW w \in Text
    PROVE  EndsInStar(x \o <<Slash>> \o w) <=> EndsInStar(w)
<1> DEFINE a == x \o <<Slash>> \o w
<1>1. /\ Len(x) \in Nat /\ Len(w) \in Nat /\ Len(a) = Len(x) + 1 + Len(w)
      /\ a[Len(x) + 1] = Slash
      /\ \A i \in 1 .. Len(w) : a[Len(x) + 1 + i] = w[i]
  BY Slashed
<1> HIDE DEF a
<1>2. Slash # Star
  BY PipelineAssumption
<1>3. CASE Len(w) = 0
  <2>1. Len(a) = Len(x) + 1
    BY <1>1, <1>3
  <2>2. QED
    BY <1>1, <1>2, <1>3, <2>1 DEF EndsInStar, a
<1>4. CASE Len(w) # 0
  <2>1. Len(w) \in 1 .. Len(w) /\ Len(w) > 0 /\ Len(a) > 0
    BY <1>1, <1>4
  <2>2. a[Len(a)] = w[Len(w)]
    BY <1>1, <2>1
  <2>3. EndsInStar(a) <=> EndsInStar(w)
    BY <2>1, <2>2 DEF EndsInStar
  <2>4. QED
    BY <2>3 DEF a
<1>5. QED
  BY <1>3, <1>4

\* Putting one text and a slash before a pattern and before a path changes
\* nothing: the pattern matches as before.
LEMMA MatchBelowText ==
    ASSUME NEW x \in Text, NEW w \in Text, NEW u \in Text
    PROVE  Matches(x \o <<Slash>> \o w, x \o <<Slash>> \o u) <=> Matches(w, u)
<1> DEFINE a == x \o <<Slash>> \o w
           b == x \o <<Slash>> \o u
           d == Len(x) + 1
<1>1. /\ a \in Text /\ Len(x) \in Nat /\ Len(w) \in Nat /\ Len(a) = d + Len(w)
      /\ \A i \in 1 .. Len(x) : a[i] = x[i]
      /\ a[d] = Slash
      /\ \A i \in 1 .. Len(w) : a[d + i] = w[i]
  BY Slashed
<1>2. /\ b \in Text /\ Len(u) \in Nat /\ Len(b) = d + Len(u)
      /\ \A i \in 1 .. Len(x) : b[i] = x[i]
      /\ b[d] = Slash
      /\ \A i \in 1 .. Len(u) : b[d + i] = u[i]
  BY Slashed
<1>3. EndsInStar(a) <=> EndsInStar(w)
  BY StarBelow
<1>4. d \in Nat /\ d >= 1
  BY <1>1
<1>5. \A i \in 1 .. d : a[i] = b[i]
  <2>1. \A i \in 1 .. d : i \in 1 .. Len(x) \/ i = d
    BY <1>1
  <2>2. QED
    BY <1>1, <1>2, <2>1
<1> HIDE DEF a, b, d
\* Where the first n of what is below are the same
<1>6. ASSUME NEW n \in Nat, n <= Len(w), n <= Len(u)
      PROVE  (\A i \in 1 .. d + n : b[i] = a[i]) <=> (\A i \in 1 .. n : u[i] = w[i])
  <2>1. ASSUME \A i \in 1 .. d + n : b[i] = a[i], NEW i \in 1 .. n PROVE u[i] = w[i]
    <3>1. d + i \in 1 .. d + n /\ i \in 1 .. Len(w) /\ i \in 1 .. Len(u)
      BY <1>1, <1>2, <1>4, <1>6
    <3>2. QED
      BY <1>1, <1>2, <2>1, <3>1
  <2>2. ASSUME \A i \in 1 .. n : u[i] = w[i], NEW i \in 1 .. d + n PROVE b[i] = a[i]
    <3>1. CASE i \in 1 .. d
      BY <1>5, <3>1
    <3>2. CASE i \notin 1 .. d
      <4>1. i - d \in 1 .. n /\ i - d \in 1 .. Len(w) /\ i - d \in 1 .. Len(u) /\ d + (i - d) = i
        BY <1>1, <1>2, <1>4, <1>6, <3>2
      <4>2. b[i] = u[i - d] /\ a[i] = w[i - d]
        BY <1>1, <1>2, <4>1
      <4>3. QED
        BY <2>2, <4>1, <4>2
    <3>3. QED
      BY <3>1, <3>2
  <2>3. QED
    BY <2>1, <2>2
<1>7. CASE EndsInStar(w)
  <2>1. Len(w) > 0
    BY <1>7 DEF EndsInStar
  <2>2. Len(w) - 1 \in Nat /\ Len(a) - 1 = d + (Len(w) - 1) /\ Len(w) - 1 <= Len(w)
    BY <1>1, <1>4, <2>1
  <2>3. Len(a) - 1 <= Len(b) <=> Len(w) - 1 <= Len(u)
    BY <1>1, <1>2, <1>4, <2>1
  <2>4. Matches(a, b) <=> (Len(a) - 1 <= Len(b) /\ \A i \in 1 .. Len(a) - 1 : b[i] = a[i])
    BY <1>1, <1>2, <1>3, <1>7, StarMatch
  <2>5. Matches(w, u) <=> (Len(w) - 1 <= Len(u) /\ \A i \in 1 .. Len(w) - 1 : u[i] = w[i])
    BY <1>7, StarMatch
  <2>6. Len(w) - 1 <= Len(u) => ((\A i \in 1 .. Len(a) - 1 : b[i] = a[i]) <=> (\A i \in 1 .. Len(w) - 1 : u[i] = w[i]))
    BY <1>6, <2>2
  <2>7. Matches(a, b) <=> Matches(w, u)
    BY <2>3, <2>4, <2>5, <2>6
  <2>8. QED
    BY <2>7 DEF a, b
<1>8. CASE ~ EndsInStar(w)
  <2>1. Matches(a, b) <=> b = a
    BY <1>3, <1>8 DEF Matches
  <2>2. Matches(w, u) <=> u = w
    BY <1>8 DEF Matches
  <2>3. u = w => b = a
    BY DEF a, b
  <2>4. ASSUME b = a PROVE u = w
    <3>1. Len(u) = Len(w)
      BY <1>1, <1>2, <1>4, <2>4
    <3>2. \A i \in 1 .. Len(w) : u[i] = w[i]
      BY <1>1, <1>2, <2>4, <3>1
    <3>3. QED
      BY <3>1, <3>2, SeqEqual DEF Text
  <2>5. Matches(a, b) <=> Matches(w, u)
    BY <2>1, <2>2, <2>3, <2>4
  <2>6. QED
    BY <2>5 DEF a, b
<1>9. QED
  BY <1>7, <1>8

\* The same for the full path of a namespace.
LEMMA MatchBelow ==
    ASSUME NEW s \in Seq(Text), NEW w \in Text, NEW u \in Text
    PROVE  Matches(Full(s, w), Full(s, u)) <=> Matches(w, u)
<1>1. CASE s = <<>>
  BY <1>1 DEF Full
<1>2. CASE s # <<>>
  <2>1. Joined(s) \in Text
    BY <1>2, JoinedType
  <2>2. QED
    BY <1>2, <2>1, MatchBelowText DEF Full
<1>3. QED
  BY <1>1, <1>2

\* What every path that a pattern matches begins with
Stem(w) == IF EndsInStar(w) THEN WithoutStar(w) ELSE w

\* What is left of a pattern without its star is a text.
LEMMA StemType ==
    ASSUME NEW w \in Text
    PROVE  Stem(w) \in Text
<1>1. WithoutStar(w) = SubSeq(w, 1, Len(w) - 1)
  BY DEF WithoutStar
<1>2. EndsInStar(w) => WithoutStar(w) \in Text
  BY <1>1 DEF EndsInStar, Text
<1>3. QED
  BY <1>2 DEF Stem

\* A path that a pattern with a prefix matches begins with that prefix.
LEMMA MatchBegins ==
    ASSUME NEW x \in Text, NEW w \in Text, NEW u \in Text, Matches(x \o <<Slash>> \o w, u)
    PROVE  StartsWith(u, x \o <<Slash>> \o Stem(w))
<1> DEFINE a == x \o <<Slash>> \o w
           v == Stem(w)
           b == x \o <<Slash>> \o v
           d == Len(x) + 1
<1>0. v \in Text
  BY StemType
<1>1. /\ a \in Text /\ Len(x) \in Nat /\ Len(w) \in Nat /\ Len(a) = d + Len(w)
      /\ \A i \in 1 .. Len(x) : a[i] = x[i]
      /\ a[d] = Slash
      /\ \A i \in 1 .. Len(w) : a[d + i] = w[i]
  BY Slashed
<1> HIDE DEF v
<1>2. /\ Len(v) \in Nat /\ Len(b) = d + Len(v)
      /\ \A i \in 1 .. Len(x) : b[i] = x[i]
      /\ b[d] = Slash
      /\ \A i \in 1 .. Len(v) : b[d + i] = v[i]
  BY <1>0, Slashed
<1>3. EndsInStar(a) <=> EndsInStar(w)
  BY StarBelow
<1>4. d \in Nat /\ d >= 1
  BY <1>1
<1>5. CASE EndsInStar(w)
  <2>1. Len(w) > 0
    BY <1>5 DEF EndsInStar
  <2>2. v = SubSeq(w, 1, Len(w) - 1)
    BY <1>5 DEF v, Stem, WithoutStar
  <2>3. Len(v) = Len(w) - 1 /\ \A i \in 1 .. Len(w) - 1 : v[i] = w[i]
    BY <1>1, <2>1, <2>2 DEF Text
  <2>4. Len(a) - 1 <= Len(u) /\ \A i \in 1 .. Len(a) - 1 : u[i] = a[i]
    BY <1>1, <1>3, <1>5, StarMatch
  <2>5. Len(b) = Len(a) - 1
    <3> HIDE DEF a, b, d
    <3>1. QED
      BY <1>1, <1>2, <1>4, <2>1, <2>3
  <2>6. ASSUME NEW i \in 1 .. Len(b) PROVE b[i] = a[i]
    <3> HIDE DEF a, b
    <3>1. CASE i <= Len(x)
      BY <1>1, <1>2, <3>1
    <3>2. CASE i = d
      BY <1>1, <1>2, <3>2
    <3>3. CASE i > d
      <4> HIDE DEF d
      <4>1. i - d \in 1 .. Len(v) /\ i - d \in 1 .. Len(w) /\ d + (i - d) = i
        BY <1>1, <1>2, <1>4, <2>1, <2>3, <3>3
      <4>2. b[i] = v[i - d] /\ a[i] = w[i - d]
        BY <1>1, <1>2, <4>1
      <4>3. QED
        BY <2>3, <4>1, <4>2, <1>2
    <3>4. i <= Len(x) \/ i = d \/ i > d
      <4>1. i \in Nat
        BY <1>2, <1>4
      <4>2. QED
        BY <1>1, <4>1
    <3>5. QED
      BY <3>1, <3>2, <3>3, <3>4
  <2> HIDE DEF a, b
  <2>7. StartsWith(u, b)
    BY <2>4, <2>5, <2>6 DEF StartsWith
  <2>8. QED
    BY <2>7 DEF b, v
<1>6. CASE ~ EndsInStar(w)
  <2>1. v = w /\ u = a
    BY <1>3, <1>6 DEF v, Stem, Matches
  <2>2. Len(u) \in Nat
    BY DEF Text
  <2>3. StartsWith(u, u)
    BY <2>2 DEF StartsWith
  <2>4. QED
    BY <2>1, <2>3 DEF v
<1>7. QED
  BY <1>5, <1>6

\* What Prefixed puts before a pattern: the prefix, a slash, and the pattern
\* without a leading slash.
LEMMA PrefixedIs ==
    ASSUME NEW x \in Text, NEW w \in Text
    PROVE  Relative(w) \in Text /\ Prefixed(x, w) = x \o <<Slash>> \o Relative(w)
<1>1. CASE Len(w) > 0 /\ w[1] = Slash
  <2> DEFINE v == SubSeq(w, 2, Len(w))
  <2>1. Len(w) \in Nat /\ Relative(w) = v /\ Prefixed(x, w) = x \o w
    BY <1>1 DEF Relative, Prefixed, Text
  <2>2. v \in Text /\ Len(v) = Len(w) - 1 /\ \A i \in 1 .. Len(w) - 1 : v[i] = w[i + 1]
    BY <1>1, <2>1, Cut DEF Text
  <2> HIDE DEF v
  <2>3. /\ x \o <<Slash>> \o v \in Text
        /\ Len(x) \in Nat /\ Len(v) \in Nat
        /\ Len(x \o <<Slash>> \o v) = Len(x) + 1 + Len(v)
        /\ \A i \in 1 .. Len(x) : (x \o <<Slash>> \o v)[i] = x[i]
        /\ (x \o <<Slash>> \o v)[Len(x) + 1] = Slash
        /\ \A i \in 1 .. Len(v) : (x \o <<Slash>> \o v)[Len(x) + 1 + i] = v[i]
    BY <2>2, Slashed
  <2> DEFINE b == x \o <<Slash>> \o v
             a == x \o w
  <2>4. a \in Text /\ Len(a) = Len(x) + Len(w) /\ \A i \in 1 .. Len(x) + Len(w) : a[i] = IF i <= Len(x) THEN x[i] ELSE w[i - Len(x)]
    BY ConcatProperties DEF Text
  <2> HIDE DEF a
  <2>5. Len(a) = Len(b)
    <3>1. Len(b) = Len(x) + 1 + Len(v)
      BY <2>3
    <3> HIDE DEF b
    <3>2. QED
      BY <2>1, <2>2, <2>3, <2>4, <3>1
  <2>6. ASSUME NEW i \in 1 .. Len(a) PROVE a[i] = b[i]
    <3> HIDE DEF b
    <3>0. /\ \A j \in 1 .. Len(x) : b[j] = x[j]
          /\ b[Len(x) + 1] = Slash
          /\ \A j \in 1 .. Len(v) : b[Len(x) + 1 + j] = v[j]
      BY <2>3 DEF b
    <3>1. CASE i <= Len(x)
      BY <2>3, <2>4, <3>0, <3>1
    <3>2. CASE i = Len(x) + 1
      <4>1. a[i] = w[1]
        BY <1>1, <2>1, <2>3, <2>4, <3>2
      <4>2. QED
        BY <1>1, <3>0, <3>2, <4>1
    <3>3. CASE i > Len(x) + 1
      <4>1. i - Len(x) - 1 \in 1 .. Len(v) /\ Len(x) + 1 + (i - Len(x) - 1) = i /\ (i - Len(x) - 1) + 1 = i - Len(x)
        BY <2>1, <2>2, <2>3, <2>4, <3>3
      <4>2. b[i] = v[i - Len(x) - 1]
        BY <3>0, <4>1
      <4>3. v[i - Len(x) - 1] = w[i - Len(x)]
        BY <2>2, <4>1
      <4>4. a[i] = w[i - Len(x)]
        BY <2>1, <2>3, <2>4, <3>3
      <4>5. QED
        BY <4>2, <4>3, <4>4
    <3>4. i <= Len(x) \/ i = Len(x) + 1 \/ i > Len(x) + 1
      <4>1. i \in Nat
        BY <2>1, <2>3, <2>4
      <4>2. QED
        BY <2>3, <4>1
    <3>5. QED
      BY <3>1, <3>2, <3>3, <3>4
  <2>7. b \in Text
    BY <2>3
  <2> HIDE DEF b
  <2>8. a = b
    BY <2>4, <2>5, <2>6, <2>7, SeqEqual DEF Text
  <2>9. QED
    BY <2>1, <2>2, <2>8 DEF a, b
<1>2. CASE ~ (Len(w) > 0 /\ w[1] = Slash)
  BY <1>2 DEF Relative, Prefixed
<1>3. QED
  BY <1>1, <1>2

-----------------------------------------------------------------------------
\* A sequence is the concatenation of its two halves, wherever it is cut.
LEMMA Halves ==
    ASSUME NEW S, NEW s \in Seq(S), NEW k \in Nat, k <= Len(s)
    PROVE  /\ SubSeq(s, 1, k) \in Seq(S) /\ SubSeq(s, k + 1, Len(s)) \in Seq(S)
           /\ Len(SubSeq(s, 1, k)) = k /\ Len(SubSeq(s, k + 1, Len(s))) = Len(s) - k
           /\ \A i \in 1 .. k : SubSeq(s, 1, k)[i] = s[i]
           /\ \A i \in 1 .. Len(s) - k : SubSeq(s, k + 1, Len(s))[i] = s[k + i]
           /\ s = SubSeq(s, 1, k) \o SubSeq(s, k + 1, Len(s))
<1> DEFINE n == Len(s)
           a == SubSeq(s, 1, k)
           b == SubSeq(s, k + 1, n)
<1>1. n \in Nat /\ \A i \in 1 .. n : s[i] \in S
  OBVIOUS
<1> HIDE DEF n
<1>2. /\ k <= n /\ (\A i \in 1 .. k : s[i] \in S) /\ (\A i \in k + 1 .. n : s[i] \in S)
      /\ \A i \in 1 .. k : 1 + i - 1 = i
      /\ \A i \in 1 .. n - k : (k + 1) + i - 1 = k + i
  BY <1>1 DEF n
<1>3. a \in Seq(S) /\ Len(a) = k /\ \A i \in 1 .. k : a[i] = s[i]
  <2>1. /\ a \in Seq(S) /\ Len(a) = IF 1 <= k THEN k - 1 + 1 ELSE 0
        /\ \A i \in 1 .. k - 1 + 1 : a[i] = s[1 + i - 1]
    BY <1>1, <1>2, SubSeqProperties
  <2> HIDE DEF a
  <2>2. QED
    BY <1>2, <2>1
<1>4. b \in Seq(S) /\ Len(b) = n - k /\ \A i \in 1 .. n - k : b[i] = s[k + i]
  <2>1. /\ b \in Seq(S) /\ Len(b) = IF k + 1 <= n THEN n - (k + 1) + 1 ELSE 0
        /\ \A i \in 1 .. n - (k + 1) + 1 : b[i] = s[(k + 1) + i - 1]
    BY <1>1, <1>2, SubSeqProperties
  <2> HIDE DEF b
  <2>2. n - (k + 1) + 1 = n - k /\ (~ (k + 1 <= n) => n - k = 0)
    BY <1>1, <1>2
  <2>3. QED
    BY <1>2, <2>1, <2>2
<1> HIDE DEF a, b
<1>5. a \o b \in Seq(S) /\ Len(a \o b) = n /\ \A i \in 1 .. n : (a \o b)[i] = IF i <= k THEN a[i] ELSE b[i - k]
  <2>1. /\ a \o b \in Seq(S) /\ Len(a \o b) = Len(a) + Len(b)
        /\ \A i \in 1 .. Len(a) + Len(b) : (a \o b)[i] = IF i <= Len(a) THEN a[i] ELSE b[i - Len(a)]
    BY <1>3, <1>4, ConcatProperties
  <2>2. Len(a) = k /\ Len(a) + Len(b) = n
    BY <1>1, <1>3, <1>4
  <2>3. QED
    BY <2>1, <2>2
<1>6. ASSUME NEW i \in 1 .. n PROVE s[i] = (a \o b)[i]
  <2>1. CASE i <= k
    BY <1>1, <1>3, <1>5, <2>1
  <2>2. CASE ~ (i <= k)
    <3>1. i - k \in 1 .. n - k /\ k + (i - k) = i
      BY <1>1, <1>2, <2>2
    <3>2. b[i - k] = s[i]
      BY <1>4, <3>1
    <3>3. QED
      BY <1>5, <2>2, <3>2
  <2>3. QED
    BY <2>1, <2>2
<1>7. Len(s) = n
  BY DEF n
<1>8. s = a \o b
  BY <1>5, <1>6, <1>7, SeqEqual
<1>9. QED
  BY <1>3, <1>4, <1>8 DEF a, b, n

\* What begins with a text begins with any shorter beginning of it.
LEMMA BeginsShorter ==
    ASSUME NEW x \in Text, NEW u \in Text, NEW z, StartsWith(z, x \o <<Slash>> \o u)
    PROVE  StartsWith(z, x \o <<Slash>>)
<1> DEFINE a == x \o <<Slash>> \o u
           b == x \o <<Slash>>
<1>1. /\ Len(x) \in Nat /\ Len(u) \in Nat /\ Len(a) = Len(x) + 1 + Len(u)
      /\ \A i \in 1 .. Len(x) : a[i] = x[i]
      /\ a[Len(x) + 1] = Slash
  BY Slashed
<1>2. Len(a) <= Len(z) /\ \A i \in 1 .. Len(a) : z[i] = a[i]
  BY DEF StartsWith
<1>3. Len(b) = Len(x) + 1 /\ (\A i \in 1 .. Len(x) : b[i] = x[i]) /\ b[Len(x) + 1] = Slash
  BY SlashChar DEF Text
<1> HIDE DEF a, b
<1>4. ASSUME NEW i \in 1 .. Len(b) PROVE z[i] = b[i]
  <2>1. i \in 1 .. Len(x) \/ i = Len(x) + 1
    BY <1>1, <1>3
  <2>2. i \in 1 .. Len(a)
    BY <1>1, <1>3
  <2>3. QED
    BY <1>1, <1>2, <1>3, <2>1, <2>2
<1>5. Len(b) <= Len(z)
  <2>1. Len(z) >= Len(x) + 1 + Len(u)
    BY <1>1, <1>2
  <2>2. QED
    BY <1>1, <1>3, <2>1
<1>6. StartsWith(z, b)
  BY <1>4, <1>5 DEF StartsWith
<1>7. QED
  BY <1>6 DEF b

\* The names of a lineage and of its parts
LEMMA NamesType ==
    ASSUME NEW L \in Seq(Namespace)
    PROVE  NamesOf(L) \in Seq(Name) /\ Len(NamesOf(L)) = Len(L) /\ \A i \in 1 .. Len(L) : NamesOf(L)[i] = NameOf[L[i]]
<1>1. Len(L) \in Nat /\ \A i \in 1 .. Len(L) : L[i] \in Namespace
  OBVIOUS
<1>2. \A i \in 1 .. Len(L) : NameOf[L[i]] \in Name
  BY <1>1, PipelineAssumption
<1>3. NamesOf(L) = [i \in 1 .. Len(L) |-> NameOf[L[i]]]
  BY DEF NamesOf
<1>4. QED
  BY <1>1, <1>2, <1>3

\* The names of a lineage, cut anywhere, are the names of its two halves.
LEMMA NamesHalves ==
    ASSUME NEW L \in Seq(Namespace), NEW k \in Nat, k <= Len(L)
    PROVE  /\ NamesOf(SubSeq(L, 1, k)) \in Seq(Name) /\ Len(NamesOf(SubSeq(L, 1, k))) = k
           /\ \A i \in 1 .. k : NamesOf(SubSeq(L, 1, k))[i] = NameOf[L[i]]
           /\ NamesOf(SubSeq(L, k + 1, Len(L))) \in Seq(Name) /\ Len(NamesOf(SubSeq(L, k + 1, Len(L)))) = Len(L) - k
           /\ \A i \in 1 .. Len(L) - k : NamesOf(SubSeq(L, k + 1, Len(L)))[i] = NameOf[L[k + i]]
           /\ NamesOf(L) = NamesOf(SubSeq(L, 1, k)) \o NamesOf(SubSeq(L, k + 1, Len(L)))
<1> DEFINE A == SubSeq(L, 1, k)
           B == SubSeq(L, k + 1, Len(L))
           a == NamesOf(A)
           b == NamesOf(B)
           n == NamesOf(L)
<1>1. /\ A \in Seq(Namespace) /\ Len(A) = k /\ \A i \in 1 .. k : A[i] = L[i]
      /\ B \in Seq(Namespace) /\ Len(B) = Len(L) - k /\ \A i \in 1 .. Len(L) - k : B[i] = L[k + i]
  BY Halves
<1>2. Len(L) \in Nat
  OBVIOUS
<1> HIDE DEF A, B
<1>3. a \in Seq(Name) /\ Len(a) = k /\ \A i \in 1 .. k : a[i] = NameOf[L[i]]
  <2>1. a \in Seq(Name) /\ Len(a) = Len(A) /\ \A i \in 1 .. Len(A) : a[i] = NameOf[A[i]]
    BY <1>1, NamesType
  <2> HIDE DEF a
  <2>2. QED
    BY <1>1, <2>1
<1>4. b \in Seq(Name) /\ Len(b) = Len(L) - k /\ \A i \in 1 .. Len(L) - k : b[i] = NameOf[L[k + i]]
  BY <1>1, NamesType
<1>5. n \in Seq(Name) /\ Len(n) = Len(L) /\ \A i \in 1 .. Len(L) : n[i] = NameOf[L[i]]
  BY NamesType
<1> HIDE DEF a, b, n
<1>6. a \o b \in Seq(Name) /\ Len(a \o b) = Len(L) /\ \A i \in 1 .. Len(L) : (a \o b)[i] = IF i <= k THEN a[i] ELSE b[i - k]
  <2>1. /\ a \o b \in Seq(Name) /\ Len(a \o b) = Len(a) + Len(b)
        /\ \A i \in 1 .. Len(a) + Len(b) : (a \o b)[i] = IF i <= Len(a) THEN a[i] ELSE b[i - Len(a)]
    BY <1>3, <1>4, ConcatProperties
  <2>2. Len(a) = k /\ Len(a) + Len(b) = Len(L)
    BY <1>2, <1>3, <1>4
  <2>3. QED
    BY <2>1, <2>2
<1>7. ASSUME NEW i \in 1 .. Len(L) PROVE n[i] = (a \o b)[i]
  <2>1. CASE i <= k
    BY <1>2, <1>3, <1>5, <1>6, <2>1
  <2>2. CASE ~ (i <= k)
    <3>1. i - k \in 1 .. Len(L) - k /\ k + (i - k) = i
      BY <1>2, <2>2
    <3>2. b[i - k] = NameOf[L[i]]
      BY <1>4, <3>1
    <3>3. QED
      BY <1>5, <1>6, <2>2, <3>2
  <2>3. QED
    BY <2>1, <2>2
<1>8. n = a \o b
  BY <1>5, <1>6, <1>7, SeqEqual
<1>9. QED
  BY <1>3, <1>4, <1>8 DEF a, b, n, A, B

\* A path as seen from an ancestor is the rest of its full path.
LEMMA RelativeFull ==
    ASSUME NEW n \in Namespace, NEW k \in 1 .. Depth(n), NEW z \in Text
    PROVE  /\ Depth(Lineage[n][k]) = k
           /\ RelativePath(Lineage[n][k], n, z) = Full(NamesOf(SubSeq(Lineage[n], k + 1, Depth(n))), z)
<1> DEFINE L == Lineage[n]
           m == L[k]
           b == NamesOf(SubSeq(L, k + 1, Len(L)))
<1>1. WellBorn(n)
  BY Lineages
<1>2. /\ L \in Seq(Namespace) /\ Len(L) \in Nat /\ Len(L) >= 1 /\ k \in 1 .. Len(L) /\ k \in Nat /\ k <= Len(L)
      /\ Lineage[m] = SubSeq(L, 1, k) /\ L[Len(L)] = n
  BY <1>1 DEF WellBorn, Depth
<1>3. Depth(m) = k
  BY <1>2, Halves DEF Depth
<1>4. Len(b) = Len(L) - k /\ b \in Seq(Name)
  BY <1>2, NamesHalves
<1>5. RelativePath(m, n, z) = IF m = n THEN z ELSE Joined(b) \o <<Slash>> \o z
  BY <1>3 DEF RelativePath, Depth
<1>6. m = n <=> k = Len(L)
  <2>1. m = n => k = Len(L)
    BY <1>3 DEF Depth
  <2>2. k = Len(L) => m = n
    BY <1>2
  <2>3. QED
    BY <2>1, <2>2
<1> HIDE DEF b
<1>7. b = <<>> <=> k = Len(L)
  <2>1. b = <<>> <=> Len(b) = 0
    BY <1>4
  <2> HIDE DEF L
  <2>2. QED
    BY <1>2, <1>4, <2>1
<1>8. RelativePath(m, n, z) = Full(b, z)
  BY <1>5, <1>6, <1>7 DEF Full
<1>9. QED
  BY <1>3, <1>8 DEF b, Depth

\* What the policies found for a token allow: by the model's reference, and by is_authorized, which puts the
\* names of a lineage before the patterns and those of the request's namespace before its path
Allows(found, n, path, op) ==
    \E p \in found :
        /\ PolicySpace[p] \in Ancestors(n)
        /\ \E rule \in RulesOf[p] :
              op \in rule.ops /\ Matches(Relative(rule.path), RelativePath(PolicySpace[p], n, path))

Grants(found, lineage, names, path, op) ==
    \E p \in found : \E rule \in RulesOf[p] :
        /\ op \in rule.ops
        /\ Matches(Prefixed(Joined(NamesOf(lineage)), rule.path), Joined(names) \o <<Slash>> \o path)

\* The full pattern matches the full path: either the namespace of the policies is an ancestor, or the path is
\* read as one in a child.
LEMMA GrantedFrom ==
    ASSUME NEW n \in Namespace, NEW m \in Namespace, Apart(n, m), NEW w \in Text, NEW z \in Text,
           Matches(Full(NamesOf(Lineage[m]), w), Full(NamesOf(Lineage[n]), z))
    PROVE  \/ m \in Ancestors(n) /\ Matches(w, RelativePath(m, n, z))
           \/ ReadsAsChild(n, z, m)
<1> DEFINE L == Lineage[n]
           M == Lineage[m]
           d == Len(L)
           e == Len(M)
           v == Stem(w)
<1>1. /\ L \in Seq(Namespace) /\ d \in Nat /\ d >= 1 /\ L[d] = n
      /\ M \in Seq(Namespace) /\ e \in Nat /\ e >= 1 /\ M[e] = m
      /\ \A k \in 2 .. e : ParentOf[M[k]] = M[k - 1]
  BY Lineages DEF WellBorn, Depth
<1>2. v \in Text
  BY StemType
<1>3. NamesOf(L) \in Seq(Name) /\ Len(NamesOf(L)) = d /\ \A i \in 1 .. d : NamesOf(L)[i] = NameOf[L[i]]
  BY <1>1, NamesType
<1>4. NamesOf(M) \in Seq(Name) /\ Len(NamesOf(M)) = e /\ \A i \in 1 .. e : NamesOf(M)[i] = NameOf[M[i]]
  BY <1>1, NamesType
<1>5. StartsWith(Full(NamesOf(L), z), Full(NamesOf(M), v))
  <2>1. NamesOf(M) # <<>> /\ NamesOf(M) \in Seq(Text)
    BY <1>1, <1>4, NameText
  <2>2. Joined(NamesOf(M)) \in Text /\ Full(NamesOf(L), z) \in Text
    BY <1>3, <2>1, JoinedType, FullType, NameText
  <2>3. QED
    BY <2>1, <2>2, MatchBegins DEF Full
<1>6. CASE e <= d
  <2> DEFINE a == NamesOf(SubSeq(L, 1, e))
             b == NamesOf(SubSeq(L, e + 1, d))
  <2>1. /\ a \in Seq(Name) /\ Len(a) = e /\ \A i \in 1 .. e : a[i] = NameOf[L[i]]
        /\ b \in Seq(Name) /\ NamesOf(L) = a \o b
    BY <1>1, <1>6, NamesHalves
  <2> HIDE DEF a, b
  <2>2. a \in Seq(Text) /\ b \in Seq(Text) /\ Full(b, z) \in Text
    BY <2>1, NameText, FullType
  <2>3. Full(NamesOf(L), z) = Full(a, Full(b, z))
    BY <2>1, <2>2, FullConcat
  <2>4. a = NamesOf(M)
    BY <1>2, <1>4, <1>5, <2>1, <2>2, <2>3, SameNames
  <2>5. \A j \in 1 .. e : NameOf[L[j]] = NameOf[M[j]]
    BY <1>4, <2>1, <2>4
  <2>6. L[e] = M[e] /\ e \in 1 .. d
    BY <1>1, <1>6, <2>5 DEF Apart, Depth
  <2>7. L[e] = m /\ m \in Ancestors(n)
    BY <1>1, <2>6 DEF Ancestors, Depth
  <2>8. RelativePath(m, n, z) = Full(b, z)
    BY <2>6, <2>7, RelativeFull DEF b, Depth
  <2>9. Matches(w, Full(b, z))
    BY <2>2, <2>3, <2>4, MatchBelow
  <2>10. QED
    BY <2>7, <2>8, <2>9
<1>7. CASE d < e
  <2> DEFINE a == NamesOf(SubSeq(M, 1, d))
             b == NamesOf(SubSeq(M, d + 1, e))
  <2>1. /\ a \in Seq(Name) /\ Len(a) = d /\ \A i \in 1 .. d : a[i] = NameOf[M[i]]
        /\ b \in Seq(Name) /\ Len(b) = e - d /\ \A i \in 1 .. e - d : b[i] = NameOf[M[d + i]]
        /\ NamesOf(M) = a \o b
    <3>1. d \in Nat /\ d <= Len(M) /\ M \in Seq(Namespace)
      BY <1>1, <1>7
    <3> HIDE DEF d, M
    <3>2. /\ NamesOf(SubSeq(M, 1, d)) \in Seq(Name) /\ Len(NamesOf(SubSeq(M, 1, d))) = d
          /\ \A i \in 1 .. d : NamesOf(SubSeq(M, 1, d))[i] = NameOf[M[i]]
          /\ NamesOf(SubSeq(M, d + 1, Len(M))) \in Seq(Name) /\ Len(NamesOf(SubSeq(M, d + 1, Len(M)))) = Len(M) - d
          /\ \A i \in 1 .. Len(M) - d : NamesOf(SubSeq(M, d + 1, Len(M)))[i] = NameOf[M[d + i]]
          /\ NamesOf(M) = NamesOf(SubSeq(M, 1, d)) \o NamesOf(SubSeq(M, d + 1, Len(M)))
      BY <3>1, NamesHalves
    <3>3. QED
      BY <3>2
  <2> HIDE DEF a, b
  <2>2. a \in Seq(Text) /\ b \in Seq(Text) /\ Full(b, v) \in Text
    BY <1>2, <2>1, NameText, FullType
  <2>3. Full(NamesOf(M), v) = Full(a, Full(b, v))
    BY <1>2, <2>1, <2>2, FullConcat
  <2>4. NamesOf(L) = a /\ StartsWith(z, Full(b, v))
    BY <1>3, <1>5, <2>1, <2>2, <2>3, SameNames
  <2>5. \A j \in 1 .. d : NameOf[L[j]] = NameOf[M[j]]
    BY <1>3, <2>1, <2>4
  <2>6. L[d] = M[d]
    BY <1>1, <1>7, <2>5 DEF Apart, Depth
  <2> DEFINE c == M[d + 1]
  <2>7. d + 1 \in 2 .. e /\ d + 1 \in 1 .. e /\ (d + 1) - 1 = d
    BY <1>1, <1>7
  <2>8. ParentOf[c] = n /\ c \in Ancestors(m) /\ c \in Namespace
    BY <1>1, <2>6, <2>7 DEF Ancestors, Depth
  <2>9. StartsWith(z, NameOf[c] \o <<Slash>>)
    <3>1. 1 \in 1 .. e - d /\ 1 <= Len(b) /\ b # <<>>
      BY <1>1, <1>7, <2>1
    <3>2. b[1] = NameOf[c]
      BY <2>1, <3>1
    <3> DEFINE x == SubSeq(b, 1, 1)
               y == SubSeq(b, 2, Len(b))
    <3>3. x \in Seq(Text) /\ y \in Seq(Text) /\ Len(x) = 1 /\ x[1] = b[1] /\ b = x \o y
      <4>1. /\ SubSeq(b, 1, 1) \in Seq(Text) /\ SubSeq(b, 1 + 1, Len(b)) \in Seq(Text)
            /\ Len(SubSeq(b, 1, 1)) = 1
            /\ \A i \in 1 .. 1 : SubSeq(b, 1, 1)[i] = b[i]
            /\ b = SubSeq(b, 1, 1) \o SubSeq(b, 1 + 1, Len(b))
        BY <2>2, <3>1, Halves
      <4>2. QED
        BY <4>1
    <3> HIDE DEF x, y
    <3>4. NameOf[c] \in Text /\ Full(y, v) \in Text
      BY <1>2, <2>8, <3>3, FullType, NameText, PipelineAssumption
    <3>5. x = <<NameOf[c]>>
      <4>1. x = [i \in 1 .. 1 |-> x[i]]
        BY <3>3
      <4>2. x[1] = NameOf[c]
        BY <3>2, <3>3
      <4>3. QED
        BY <4>1, <4>2
    <3>6. Full(x, Full(y, v)) = NameOf[c] \o <<Slash>> \o Full(y, v)
      BY <3>4, <3>5, JoinedOne DEF Full
    <3>7. StartsWith(z, NameOf[c] \o <<Slash>> \o Full(y, v))
      BY <1>2, <2>4, <3>3, <3>6, FullConcat
    <3>8. QED
      BY <3>4, <3>7, BeginsShorter
  <2>10. QED
    BY <2>8, <2>9 DEF ReadsAsChild
<1>8. QED
  BY <1>1, <1>6, <1>7

\* What the policy of an ancestor grants relative to that ancestor, it grants
\* on full paths: relative_path and namespace prefixes agree.
LEMMA GrantedTo ==
    ASSUME NEW n \in Namespace, NEW m \in Ancestors(n), NEW w \in Text, NEW z \in Text,
           Matches(w, RelativePath(m, n, z))
    PROVE  Matches(Full(NamesOf(Lineage[m]), w), Full(NamesOf(Lineage[n]), z))
<1> DEFINE L == Lineage[n]
           d == Len(L)
<1>1. /\ L \in Seq(Namespace) /\ d \in Nat
      /\ \A k \in 1 .. d : Lineage[L[k]] = SubSeq(L, 1, k)
  BY Lineages DEF WellBorn, Depth
<1>2. PICK k \in 1 .. d : m = L[k]
  BY DEF Ancestors, Depth
<1> DEFINE a == NamesOf(SubSeq(L, 1, k))
           b == NamesOf(SubSeq(L, k + 1, d))
<1>3. a \in Seq(Name) /\ b \in Seq(Name) /\ NamesOf(L) = a \o b
  <2>1. k \in Nat /\ k <= Len(L)
    BY <1>1
  <2>2. QED
    BY <1>1, <2>1, NamesHalves
<1>4. NamesOf(Lineage[m]) = a
  BY <1>1, <1>2
<1>5. RelativePath(m, n, z) = Full(b, z)
  BY <1>2, RelativeFull DEF Depth
<1> HIDE DEF a, b
<1>6. a \in Seq(Text) /\ b \in Seq(Text) /\ Full(b, z) \in Text
  BY <1>3, NameText, FullType
<1>7. Full(NamesOf(L), z) = Full(a, Full(b, z))
  BY <1>3, <1>6, FullConcat
<1>8. Matches(Full(a, w), Full(a, Full(b, z)))
  BY <1>5, <1>6, MatchBelow
<1>9. QED
  BY <1>4, <1>7, <1>8

\* A sequence of names that is not empty begins with one.
LEMMA FirstOff ==
    ASSUME NEW s \in Seq(Name), s # <<>>, NEW z \in Text
    PROVE  s[1] \in Name /\ \E u \in Text : Full(s, z) = s[1] \o <<Slash>> \o u
<1> DEFINE x == SubSeq(s, 1, 1)
           y == SubSeq(s, 2, Len(s))
<1>1. 1 <= Len(s) /\ s[1] \in Name
  OBVIOUS
<1>2. x \in Seq(Name) /\ y \in Seq(Name) /\ Len(x) = 1 /\ x[1] = s[1] /\ s = x \o y
  <2>1. /\ SubSeq(s, 1, 1) \in Seq(Name) /\ SubSeq(s, 1 + 1, Len(s)) \in Seq(Name)
        /\ Len(SubSeq(s, 1, 1)) = 1
        /\ \A i \in 1 .. 1 : SubSeq(s, 1, 1)[i] = s[i]
        /\ s = SubSeq(s, 1, 1) \o SubSeq(s, 1 + 1, Len(s))
    BY <1>1, Halves
  <2>2. QED
    BY <2>1
<1> HIDE DEF x, y
<1>3. x = <<s[1]>>
  <2>1. x = [i \in 1 .. 1 |-> x[i]]
    BY <1>2
  <2>2. QED
    BY <1>2, <2>1
<1>4. s[1] \in Text /\ x \in Seq(Text) /\ y \in Seq(Text) /\ Full(y, z) \in Text
  BY <1>1, <1>2, FullType, NameText
<1>5. Full(x, Full(y, z)) = s[1] \o <<Slash>> \o Full(y, z)
  BY <1>3, <1>4, JoinedOne DEF Full
<1>6. Full(s, z) = Full(x, Full(y, z))
  BY <1>2, <1>4, FullConcat
<1>7. QED
  BY <1>1, <1>4, <1>5, <1>6

\* A prefix that does not begin at the root matches no request.
LEMMA CutOff ==
    ASSUME NEW n \in Namespace, NEW s \in Seq(Name), NEW w \in Text, NEW z \in Text,
           s # <<>> => s[1] # NameOf[Root]
    PROVE  ~ Matches(Joined(s) \o <<Slash>> \o w, Full(NamesOf(Lineage[n]), z))
<1> SUFFICES ASSUME Matches(Joined(s) \o <<Slash>> \o w, Full(NamesOf(Lineage[n]), z))
             PROVE  FALSE
  OBVIOUS
<1> DEFINE q == NamesOf(Lineage[n])
           v == Stem(w)
<1>1. q \in Seq(Name) /\ q # <<>> /\ q[1] = NameOf[Root]
  <2>1. /\ Lineage[n] \in Seq(Namespace) /\ Len(Lineage[n]) \in Nat /\ Len(Lineage[n]) >= 1
        /\ Lineage[n][1] = Root
    BY Lineages DEF WellBorn, Depth
  <2>2. q \in Seq(Name) /\ Len(q) = Len(Lineage[n]) /\ \A i \in 1 .. Len(Lineage[n]) : q[i] = NameOf[Lineage[n][i]]
    BY <2>1, NamesType
  <2> HIDE DEF q
  <2>3. QED
    BY <2>1, <2>2
<1>2. v \in Text
  BY StemType
<1> HIDE DEF q, v
<1>3. PICK u \in Text : Full(q, z) = q[1] \o <<Slash>> \o u
  BY <1>1, FirstOff
<1>4. q[1] \in Slashless /\ q[1] # <<>> /\ Full(q, z) \in Text
  BY <1>1, NameText, FullType
<1>5. CASE s = <<>>
  <2>1. Joined(s) = <<>> /\ <<>> \in Slashless
    BY <1>5, EmptySeq DEF Joined, Slashless, Text
  <2> DEFINE x == Joined(s)
  <2>2. x \in Slashless /\ x \in Text
    BY <2>1 DEF Slashless
  <2> HIDE DEF x
  <2>3. StartsWith(Full(q, z), x \o <<Slash>> \o v)
    BY <1>4, <2>2, MatchBegins DEF q, v, x
  <2>4. q[1] = x
    BY <1>2, <1>3, <1>4, <2>2, <2>3, FirstName
  <2>5. QED
    BY <1>4, <2>1, <2>4 DEF x
<1>6. CASE s # <<>>
  <2>1. PICK t \in Text : Full(s, v) = s[1] \o <<Slash>> \o t
    BY <1>2, <1>6, FirstOff
  <2>2. Joined(s) \in Text /\ s[1] \in Slashless
    BY <1>6, JoinedType, NameText
  <2>3. StartsWith(Full(q, z), Full(s, v))
    BY <1>4, <1>6, <2>2, MatchBegins DEF q, v, Full
  <2>4. q[1] = s[1]
    BY <1>3, <1>4, <2>1, <2>2, <2>3, FirstName
  <2>5. QED
    BY <1>1, <1>6, <2>4
<1>7. QED
  BY <1>5, <1>6

-----------------------------------------------------------------------------
\* What the properties say of one request
Justified(h) ==
    \/ h.allowed \/ h.gone
    \/ h.input.names[1] # NameOf[Root]
    \/ ReadsAsChild(h.ns, h.input.path, h.of)

Excused(h, F) ==
    \/ h.input.names[1] # NameOf[Root]
    \/ Ancestors(h.of) \cap F # {}

\* Namespaces are found by their names, ...
Placed(h) ==
    (h.pc \in {"policies", "walk", "path"} /\ h.seen = "unsealed") =>
        /\ Depth(h.ns) = Len(h.input.names)
        /\ \A k \in 2 .. Len(h.input.names) : NameOf[Lineage[h.ns][k]] = h.input.names[k]

\* ... and the lineage of the policies' namespace is walked from its end, up to the root or to a member that is
\* gone.
Climbed(h, F) ==
    \E k \in 0 .. Depth(h.of) :
        /\ h.walked = SubSeq(Lineage[h.of], k + 1, Depth(h.of))
        /\ k \in 1 .. Depth(h.of) - 1 => NameOf[Lineage[h.of][k + 1]] # NameOf[Root]
        /\ h.pc = "walk" => k # 0 /\ h.at = Lineage[h.of][k]
        /\ h.pc = "path" => k = 0 \/ Lineage[h.of][k] \in F

Walking(h, S, F) ==
    h.pc \in {"walk", "path"} =>
        /\ h.seen = "unsealed"
        /\ \A p \in h.found : PolicySpace[p] = h.of
        /\ h.allowed = Allows(h.found, h.ns, h.input.path, h.input.op)
        /\ h.gone \/ Apart(h.ns, h.of)
        /\ Ancestors(h.of) \subseteq S \cup F
        /\ Climbed(h, F)

\* What is noted before and after the decision, and answered
Decided(h, F) ==
    /\ h.pc \in {"idle", "namespace", "policies"} => ~ h.allowed /\ h.walked = <<>>
    /\ h.pc \in {"mount", "backend", "route"} =>
          /\ h.allowed => h.ns # None
          /\ h.authed => Justified(h)
          /\ h.allowed /\ ~ h.authed => Excused(h, F)
    /\ h.status = 200 /\ h.input.endpoint \in {"system", "secret"} => Justified(h)
    /\ h.status = 401 /\ h.allowed => Excused(h, F)

InOrder(h, S, F) == Placed(h) /\ Walking(h, S, F) /\ Decided(h, F)

\* The inductive invariant
PipelineInv ==
    /\ TypeOK
    /\ \A n, k \in spaces : Distinct(n, k)
    /\ \A r \in Request : InOrder(req[r], spaces, former)

-----------------------------------------------------------------------------
\* The parts of a request have their types.
LEMMA InputType ==
    ASSUME NEW i \in Input
    PROVE  i.path \in Text /\ i.names \in Seq(Name) /\ i.names \in Seq(Text)
<1>1. i.path \in Text /\ i.names \in Seq(Text) /\ \A k \in DOMAIN i.names : i.names[k] \in Name
  BY PipelineAssumption DEF Text, Char
<1>2. i.names \in Seq(Name)
  <2> DEFINE s == i.names
  <2>1. s = [k \in 1 .. Len(s) |-> s[k]] /\ DOMAIN s = 1 .. Len(s) /\ Len(s) \in Nat
    BY <1>1
  <2>2. \A k \in 1 .. Len(s) : s[k] \in Name
    BY <1>1, <2>1
  <2> HIDE DEF s
  <2>3. s \in Seq(Name)
    BY <2>1, <2>2
  <2>4. QED
    BY <2>3 DEF s
<1>3. QED
  BY <1>1, <1>2

\* A rule of a policy is a pattern with a set of operations.
LEMMA RuleType ==
    ASSUME NEW p \in Policy, NEW rule \in RulesOf[p]
    PROVE  rule \in [path : Text, ops : SUBSET Operations]
BY PipelineAssumption DEF Text, Char

\* What is said of a request stays true when more namespaces are known and more of them are gone.
LEMMA InOrderStays ==
    ASSUME NEW h, NEW S, NEW F, NEW S2, NEW F2, InOrder(h, S, F),
           F \subseteq F2, S \cup F \subseteq S2 \cup F2
    PROVE  InOrder(h, S2, F2)
<1>1. Placed(h) /\ Walking(h, S, F) /\ Decided(h, F)
  BY DEF InOrder
<1>2. Climbed(h, F) => Climbed(h, F2)
  BY DEF Climbed
<1>3. Walking(h, S2, F2)
  BY <1>1, <1>2 DEF Walking
<1>4. Excused(h, F) => Excused(h, F2)
  BY DEF Excused
<1>5. Decided(h, F2)
  BY <1>1, <1>4 DEF Decided
<1>6. QED
  BY <1>1, <1>3, <1>5 DEF InOrder

\* A step of one request that leaves the tables alone keeps the invariant if
\* it keeps that request in order.
LEMMA StepInv ==
    ASSUME PipelineInv, TypeOK', NEW r \in Request, NEW h, InOrder(h, spaces, former), Update(r, h),
           UNCHANGED <<storage, tables, router, changes>>
    PROVE  PipelineInv'
<1>1. spaces' = spaces /\ former' = former
  BY DEF tables
<1>2. req \in [Request -> Handler] /\ \A q \in Request : InOrder(req[q], spaces, former)
  BY DEF PipelineInv, TypeOK
<1>3. \A q \in Request : InOrder(req'[q], spaces, former)
  BY <1>2 DEF Update
<1>4. \A q \in Request : InOrder(req'[q], spaces', former')
  BY <1>1, <1>3
<1>5. \A n, k \in spaces' : Distinct(n, k)
  BY <1>1 DEF PipelineInv
<1>6. QED
  BY <1>4, <1>5 DEF PipelineInv

\* The server starts with the invariant: no request is in progress.
LEMMA InitInv == Init => PipelineInv
<1> SUFFICES ASSUME Init PROVE PipelineInv
  OBVIOUS
<1>1. TypeOK
  BY InitOK
<1>2. \A n, k \in spaces : Distinct(n, k)
  BY PipelineAssumption DEF Init
<1>3. InOrder(Idle, spaces, former)
  BY PipelineAssumption DEF InOrder, Placed, Walking, Decided, Idle, Statuses
<1>4. \A r \in Request : req[r] = Idle
  BY DEF Init
<1>5. QED
  BY <1>1, <1>2, <1>3, <1>4 DEF PipelineInv

\* A request arrives and has looked up nothing yet.
LEMMA ArriveInv ==
    ASSUME PipelineInv, TypeOK', NEW r \in Request, NEW i \in Input, Arrive(r, i)
    PROVE  PipelineInv'
<1> DEFINE h == [Idle EXCEPT !.pc = "namespace", !.input = i, !.seen = storage]
<1>1. h.pc = "namespace" /\ h.status = None /\ ~ h.allowed /\ h.walked = <<>>
  BY DEF Idle
<1> HIDE DEF h
<1>2. InOrder(h, spaces, former)
  BY <1>1, PipelineAssumption DEF InOrder, Placed, Walking, Decided, Statuses
<1>3. QED
  BY <1>2, StepInv DEF Arrive, h

\* An answer is in order when it is one that the properties say nothing of.
LEMMA AnswerInv ==
    ASSUME PipelineInv, TypeOK', NEW r \in Request, NEW code, code \notin {200, 401}, Answer(r, code),
           UNCHANGED <<storage, tables, router, changes>>
    PROVE  PipelineInv'
<1> DEFINE h == [req[r] EXCEPT !.pc = "done", !.status = code]
<1>1. req[r] \in Handler
  BY OfRequest DEF PipelineInv
<1>2. h.pc = "done" /\ h.status = code
  BY <1>1 DEF Handler
<1> HIDE DEF h
<1>3. InOrder(h, spaces, former)
  BY <1>2 DEF InOrder, Placed, Walking, Decided
<1>4. QED
  BY <1>3, StepInv DEF Answer, h

\* A failed query ends the request with an error.
LEMMA QueryFailsInv ==
    ASSUME PipelineInv, TypeOK', NEW r \in Request, QueryFails(r)
    PROVE  PipelineInv'
BY AnswerInv DEF QueryFails

\* Before the policies are looked up, nothing is decided.
LEMMA EarlyInOrder ==
    ASSUME NEW h, NEW S, NEW F, h.pc \in {"namespace", "policies"}, ~ h.allowed, h.walked = <<>>, h.status = None,
           Placed(h)
    PROVE  InOrder(h, S, F)
BY PipelineAssumption DEF InOrder, Walking, Decided, Statuses

\* What the invariant says of one request that is not answered yet.
LEMMA Waiting ==
    ASSUME PipelineInv, NEW r \in Request
    PROVE  /\ req[r] \in Handler /\ HandlerOK(req[r]) /\ InOrder(req[r], spaces, former)
           /\ req[r].pc # "done" => req[r].status = None
           /\ req[r].pc \in {"namespace", "policies"} => ~ req[r].allowed /\ req[r].walked = <<>>
<1>1. HandlerOK(req[r]) /\ InOrder(req[r], spaces, former)
  BY OfRequest DEF PipelineInv
<1>2. QED
  BY <1>1 DEF HandlerOK, InOrder, Decided

\* The namespace found is the one of that path at this instant, and the only
\* one.
LEMMA FindNamespaceInv ==
    ASSUME PipelineInv, TypeOK', NEW r \in Request, FindNamespace(r)
    PROVE  PipelineInv'
<1> DEFINE old == req[r]
<1>1. old \in Handler /\ old.pc = "namespace" /\ ~ old.allowed /\ old.walked = <<>> /\ old.status = None
  BY Waiting DEF FindNamespace
<1>2. UNCHANGED <<storage, tables, router, changes>>
  BY DEF FindNamespace
<1>3. CASE old.seen # "unsealed" /\ Update(r, [old EXCEPT !.pc = "policies"])
  <2> DEFINE h == [old EXCEPT !.pc = "policies"]
  <2>1. h.pc = "policies" /\ ~ h.allowed /\ h.walked = <<>> /\ h.status = None /\ h.seen # "unsealed"
    BY <1>1, <1>3 DEF Handler
  <2>2. Update(r, h)
    BY <1>3
  <2> HIDE DEF h
  <2>3. InOrder(h, spaces, former)
    BY <2>1, EarlyInOrder DEF Placed
  <2>4. QED
    BY <1>2, <2>2, <2>3, StepInv
<1>4. ASSUME old.seen = "unsealed", NEW n \in Namespace, Found(n, old.input.names),
             Update(r, [old EXCEPT !.pc = "policies", !.ns = n])
      PROVE  PipelineInv'
  <2> DEFINE h == [old EXCEPT !.pc = "policies", !.ns = n]
  <2>1. h.pc = "policies" /\ ~ h.allowed /\ h.walked = <<>> /\ h.status = None /\ h.ns = n /\ h.input = old.input
    BY <1>1 DEF Handler
  <2>2. Update(r, h)
    BY <1>4
  <2> HIDE DEF h
  <2>3. Placed(h)
    BY <1>4, <2>1 DEF Placed, Found
  <2>4. InOrder(h, spaces, former)
    BY <2>1, <2>3, EarlyInOrder
  <2>5. QED
    BY <1>2, <2>2, <2>4, StepInv
<1>5. CASE Answer(r, 400)
  BY <1>2, <1>5, AnswerInv
<1>6. QED
  BY <1>3, <1>4, <1>5 DEF FindNamespace

\* The namespaces of the policies found are one, the token's.
LEMMA OneSpace ==
    ASSUME TypeOK, NEW t, NEW p \in TokenPolicies(t)
    PROVE  p \in Policy /\ PolicySpace[p] = TokenSpace[t] /\ PolicySpace[p] \in spaces
<1>1. <<t, p>> \in Attached /\ p \in policies
  BY DEF TokenPolicies, TypeOK
<1>2. QED
  BY <1>1, PipelineAssumption DEF TypeOK

\* Nothing is granted by policies that are not found.
LEMMA FoundAllows ==
    ASSUME NEW t, NEW n, NEW path, NEW op
    PROVE  MayCall(t, n, path, op) = Allows(TokenPolicies(t), n, path, op)
BY DEF MayCall, Allows, TokenPolicies

\* The policies found are those the token holds at this instant; their
\* namespace and that of the request have different paths, unless the latter
\* is gone.
LEMMA FindPoliciesInv ==
    ASSUME PipelineInv, TypeOK', NEW r \in Request, FindPolicies(r)
    PROVE  PipelineInv'
<1> DEFINE old == req[r]
           i == old.input
           found == TokenPolicies(i.token)
           allowed == MayCall(i.token, old.ns, i.path, i.op)
           then == [old EXCEPT !.found = found, !.allowed = allowed, !.gone = old.ns \notin spaces]
<1>1. /\ old \in Handler /\ old.pc = "policies" /\ ~ old.allowed /\ old.walked = <<>> /\ old.status = None
      /\ HandlerOK(old) /\ InOrder(old, spaces, former)
  BY Waiting DEF FindPolicies
<1>2. UNCHANGED <<storage, tables, router, changes>>
  BY DEF FindPolicies
<1>3. allowed = Allows(found, old.ns, i.path, i.op)
  BY FoundAllows
<1> HIDE DEF found, allowed
<1>4. CASE Update(r, Authorized(old, FALSE))
  <2> DEFINE h == Authorized(old, FALSE)
  <2>1. h.pc = "mount" /\ ~ h.allowed /\ ~ h.authed /\ h.status = None
    BY <1>1 DEF Handler, Authorized
  <2> HIDE DEF h
  <2>2. InOrder(h, spaces, former)
    BY <2>1, PipelineAssumption DEF InOrder, Placed, Walking, Decided, Statuses
  <2>3. QED
    BY <1>2, <1>4, <2>2, StepInv DEF h
<1>5. CASE found = {} /\ Update(r, Authorized(then, FALSE))
  <2> DEFINE h == Authorized(then, FALSE)
  <2>1. ~ allowed
    BY <1>3, <1>5 DEF Allows
  <2>2. h.pc = "mount" /\ h.allowed = allowed /\ ~ h.authed /\ h.status = None
    BY <1>1 DEF Handler, Authorized
  <2> HIDE DEF h
  <2>3. InOrder(h, spaces, former)
    BY <2>1, <2>2, PipelineAssumption DEF InOrder, Placed, Walking, Decided, Statuses
  <2>4. QED
    BY <1>2, <1>5, <2>3, StepInv DEF h
<1>6. ASSUME old.seen = "unsealed", NEW p \in found,
             Update(r, [then EXCEPT !.pc = "walk", !.of = PolicySpace[p], !.at = PolicySpace[p]])
      PROVE  PipelineInv'
  <2> DEFINE m == PolicySpace[p]
             h == [then EXCEPT !.pc = "walk", !.of = m, !.at = m]
             d == Depth(m)
  <2>1. TypeOK /\ \A n, k \in spaces : Distinct(n, k)
    BY DEF PipelineInv
  <2>2. m \in spaces /\ m \in Namespace /\ \A q \in found : PolicySpace[q] = m
    BY <2>1, OneSpace DEF found, TypeOK
  <2>3. /\ h.pc = "walk" /\ h.seen = "unsealed" /\ h.found = found /\ h.of = m /\ h.at = m
        /\ h.allowed = allowed /\ h.gone = (old.ns \notin spaces) /\ h.walked = <<>> /\ h.status = None
        /\ h.ns = old.ns /\ h.input = i
    BY <1>1, <1>6 DEF Handler
  <2>4. Update(r, h)
    BY <1>6
  <2> HIDE DEF h
  <2>5. Placed(old) /\ Placed(h)
    BY <1>1, <1>6, <2>3 DEF InOrder, Placed
  <2>6. \A n \in spaces : ParentOf[n] \in spaces \cup {None}
    BY <2>1 DEF TypeOK
  <2>7. spaces \in SUBSET Namespace
    BY <2>1 DEF TypeOK
  <2>8. h.gone \/ Apart(h.ns, h.of)
    BY <2>1, <2>2, <2>3, <2>6, <2>7, LivingApart
  <2>9. Ancestors(h.of) \subseteq spaces \cup former
    BY <2>2, <2>3, <2>6, <2>7, LineageWithin DEF Ancestors
  <2>10. Climbed(h, former)
    <3>1. Lineage[m] \in Seq(Namespace) /\ d \in Nat /\ d >= 1 /\ Lineage[m][d] = m
      BY <2>2, Lineages DEF WellBorn
    <3>2. SubSeq(Lineage[m], d + 1, d) = <<>>
      BY <3>1, SubSeqEmpty
    <3>3. d \in 0 .. d /\ d # 0 /\ d \notin 1 .. d - 1
      BY <3>1
    <3> HIDE DEF d
    <3>4. QED
      BY <2>3, <3>1, <3>2, <3>3 DEF Climbed, d
  <2>11. Walking(h, spaces, former)
    BY <1>3, <2>2, <2>3, <2>8, <2>9, <2>10 DEF Walking
  <2>12. Decided(h, former)
    BY <2>3, PipelineAssumption DEF Decided, Statuses
  <2>13. QED
    BY <1>2, <2>4, <2>5, <2>11, <2>12, StepInv DEF InOrder
<1>7. QED
  <2>1. \/ Update(r, Authorized(old, FALSE))
        \/ found = {} /\ Update(r, Authorized(then, FALSE))
        \/ /\ old.seen = "unsealed"
           /\ \E p \in found : Update(r, [then EXCEPT !.pc = "walk", !.of = PolicySpace[p], !.at = PolicySpace[p]])
    BY DEF FindPolicies, found, allowed
  <2>2. QED
    BY <1>4, <1>5, <1>6, <2>1

\* One member more at the front of what was walked
LEMMA OneMore ==
    ASSUME NEW S, NEW L \in Seq(S), NEW k \in 1 .. Len(L)
    PROVE  <<L[k]>> \o SubSeq(L, k + 1, Len(L)) = SubSeq(L, k, Len(L))
BY SubSeqRecursiveFirst

\* The walk up from the namespace of the policies collects its lineage, one
\* namespace at a time, and stops short only at one that is gone.
LEMMA WalkInv ==
    ASSUME PipelineInv, TypeOK', NEW r \in Request, Walk(r)
    PROVE  PipelineInv'
<1> DEFINE old == req[r]
           n == old.at
           next == IF n \in spaces THEN ParentOf[n] ELSE None
           h == [old EXCEPT !.walked = IF n \in spaces THEN <<n>> \o @ ELSE @,
                            !.at = next,
                            !.pc = IF next = None THEN "path" ELSE "walk"]
           m == old.of
           L == Lineage[m]
           d == Len(L)
<1>1. /\ old \in Handler /\ old.pc = "walk" /\ old.status = None
      /\ HandlerOK(old) /\ InOrder(old, spaces, former)
  BY Waiting DEF Walk
<1>2. UNCHANGED <<storage, tables, router, changes>> /\ Update(r, h)
  BY DEF Walk
<1>3. m \in Namespace
  BY <1>1 DEF HandlerOK
<1>4. /\ h.pc = (IF next = None THEN "path" ELSE "walk") /\ h.at = next
      /\ h.walked = (IF n \in spaces THEN <<n>> \o old.walked ELSE old.walked)
      /\ h.seen = old.seen /\ h.found = old.found /\ h.of = m /\ h.status = None
      /\ h.allowed = old.allowed /\ h.gone = old.gone /\ h.ns = old.ns /\ h.input = old.input
  BY <1>1 DEF Handler
<1> HIDE DEF h
<1>5. L \in Seq(Namespace) /\ d \in Nat /\ d >= 1 /\ L[1] = Root
      /\ \A k \in 2 .. d : ParentOf[L[k]] = L[k - 1]
  BY <1>3, Lineages DEF WellBorn, Depth
<1>6. /\ old.seen = "unsealed" /\ \A p \in old.found : PolicySpace[p] = m
      /\ old.allowed = Allows(old.found, old.ns, old.input.path, old.input.op)
      /\ old.gone \/ Apart(old.ns, m)
      /\ Ancestors(m) \subseteq spaces \cup former
      /\ Climbed(old, former)
  BY <1>1 DEF InOrder, Walking
<1>7. PICK k \in 0 .. d :
        /\ old.walked = SubSeq(L, k + 1, d)
        /\ k \in 1 .. d - 1 => NameOf[L[k + 1]] # NameOf[Root]
        /\ k # 0 /\ n = L[k]
  BY <1>1, <1>6 DEF Climbed, Depth
<1>8. n \in Ancestors(m) /\ n \in Namespace
  BY <1>5, <1>7 DEF Ancestors, Depth
<1>9. Climbed(h, former)
  <2>1. CASE n \notin spaces
    <3>1. n \in former
      BY <1>6, <1>8, <2>1
    <3>2. h.pc = "path" /\ h.walked = SubSeq(L, k + 1, d)
      BY <1>4, <1>7, <2>1
    <3> HIDE DEF n, next, L, d
    <3>3. Lineage[h.of] = L /\ Depth(h.of) = d
      BY <1>4 DEF L, d, Depth
    <3>4. QED
      BY <1>7, <3>1, <3>2, <3>3 DEF Climbed
  <2>2. CASE n \in spaces /\ k = 1
    <3>1. n = Root /\ ParentOf[n] = None
      BY <1>5, <1>7, <2>2, PipelineAssumption
    <3>2. h.pc = "path" /\ h.walked = <<n>> \o old.walked
      BY <1>4, <2>2, <3>1
    <3>3. h.walked = SubSeq(L, 1, d)
      BY <1>5, <1>7, <2>2, <3>2, OneMore
    <3>4. 0 \in 0 .. d /\ 0 + 1 = 1 /\ 0 \notin 1 .. d - 1
      BY <1>5
    <3> HIDE DEF n, next, L, d
    <3>5. Lineage[h.of] = L /\ Depth(h.of) = d
      BY <1>4 DEF L, d, Depth
    <3>6. QED
      BY <3>2, <3>3, <3>4, <3>5 DEF Climbed
  <2>3. CASE n \in spaces /\ k # 1
    <3>1. k \in 2 .. d /\ k - 1 \in 0 .. d /\ k - 1 # 0 /\ (k - 1) + 1 = k /\ k \in 1 .. d
      BY <1>5, <1>7, <2>3
    <3>2. ParentOf[n] = L[k - 1] /\ ParentOf[n] \in Namespace
      BY <1>5, <1>7, <3>1
    <3>3. next = L[k - 1] /\ next # None /\ n # Root
      BY <1>8, <2>3, <3>2, PipelineAssumption
    <3>4. NameOf[L[k]] # NameOf[Root]
      BY <1>7, <2>3, <3>3 DEF PipelineInv, Distinct
    <3>5. h.pc = "walk" /\ h.at = L[k - 1] /\ h.walked = <<n>> \o old.walked
      BY <1>4, <2>3, <3>3
    <3>6. h.walked = SubSeq(L, k, d)
      BY <1>5, <1>7, <3>1, <3>5, OneMore
    <3> HIDE DEF n, next, L, d
    <3>7. Lineage[h.of] = L /\ Depth(h.of) = d
      BY <1>4 DEF L, d, Depth
    <3>8. QED
      BY <3>1, <3>4, <3>5, <3>6, <3>7 DEF Climbed
  <2>4. QED
    BY <2>1, <2>2, <2>3
<1>10. Walking(h, spaces, former)
  BY <1>4, <1>6, <1>9 DEF Walking
<1>11. Placed(h)
  BY <1>1, <1>4 DEF InOrder, Placed
<1>12. Decided(h, former)
  BY <1>4, PipelineAssumption DEF Decided, Statuses
<1>13. QED
  BY <1>2, <1>10, <1>11, <1>12, StepInv DEF InOrder

\* What the walk up to the root grants is what the reference allows, or a path read as one in a child ...
LEMMA WholeWalkGrants ==
    ASSUME NEW n \in Namespace, NEW m \in Namespace, NEW found \in SUBSET Policy,
           \A p \in found : PolicySpace[p] = m, NEW path \in Text, NEW op
    PROVE  /\ (Apart(n, m) /\ Grants(found, Lineage[m], NamesOf(Lineage[n]), path, op))
                  => Allows(found, n, path, op) \/ ReadsAsChild(n, path, m)
           /\ Allows(found, n, path, op) => Grants(found, Lineage[m], NamesOf(Lineage[n]), path, op)
<1> DEFINE a == NamesOf(Lineage[m])
           b == NamesOf(Lineage[n])
<1>1. a \in Seq(Text) /\ a # <<>> /\ b \in Seq(Text) /\ b # <<>>
  <2>1. /\ Lineage[m] \in Seq(Namespace) /\ Len(Lineage[m]) >= 1
        /\ Lineage[n] \in Seq(Namespace) /\ Len(Lineage[n]) >= 1
    BY Lineages DEF WellBorn, Depth
  <2>2. a \in Seq(Name) /\ Len(a) = Len(Lineage[m]) /\ b \in Seq(Name) /\ Len(b) = Len(Lineage[n])
    BY <2>1, NamesType
  <2> HIDE DEF a, b
  <2>3. QED
    BY <2>1, <2>2, NameText
<1>2. ASSUME NEW p \in found, NEW rule \in RulesOf[p]
      PROVE  /\ Relative(rule.path) \in Text
             /\ Matches(Prefixed(Joined(a), rule.path), Joined(b) \o <<Slash>> \o path)
                   <=> Matches(Full(a, Relative(rule.path)), Full(b, path))
  <2>1. rule.path \in Text /\ Joined(a) \in Text
    BY <1>1, RuleType, JoinedType
  <2>2. Relative(rule.path) \in Text /\ Prefixed(Joined(a), rule.path) = Joined(a) \o <<Slash>> \o Relative(rule.path)
    BY <2>1, PrefixedIs
  <2>3. QED
    BY <1>1, <2>2 DEF Full
<1>3. ASSUME Apart(n, m), Grants(found, Lineage[m], b, path, op)
      PROVE  Allows(found, n, path, op) \/ ReadsAsChild(n, path, m)
  <2>0. PICK p \in found : \E rule \in RulesOf[p] :
           op \in rule.ops /\ Matches(Prefixed(Joined(a), rule.path), Joined(b) \o <<Slash>> \o path)
    BY <1>3 DEF Grants
  <2>1. PICK rule \in RulesOf[p] :
           op \in rule.ops /\ Matches(Prefixed(Joined(a), rule.path), Joined(b) \o <<Slash>> \o path)
    BY <2>0
  <2>2. Matches(Full(a, Relative(rule.path)), Full(b, path)) /\ Relative(rule.path) \in Text
    BY <1>2, <2>1
  <2>3. \/ m \in Ancestors(n) /\ Matches(Relative(rule.path), RelativePath(m, n, path))
        \/ ReadsAsChild(n, path, m)
    BY <1>3, <2>2, GrantedFrom
  <2>4. QED
    BY <2>1, <2>3 DEF Allows
<1>4. ASSUME Allows(found, n, path, op) PROVE Grants(found, Lineage[m], b, path, op)
  <2>0. PICK p \in found :
           /\ m \in Ancestors(n)
           /\ \E rule \in RulesOf[p] : op \in rule.ops /\ Matches(Relative(rule.path), RelativePath(m, n, path))
    BY <1>4 DEF Allows
  <2>1. PICK rule \in RulesOf[p] : op \in rule.ops /\ Matches(Relative(rule.path), RelativePath(m, n, path))
    BY <2>0
  <2>2. Relative(rule.path) \in Text
    BY <1>2, <2>1
  <2>3. Matches(Full(a, Relative(rule.path)), Full(b, path))
    BY <2>0, <2>1, <2>2, GrantedTo
  <2>4. QED
    BY <1>2, <2>1, <2>3 DEF Grants
<1>5. QED
  BY <1>3, <1>4

\* ... and a walk that was cut grants nothing.
LEMMA CutWalkGrants ==
    ASSUME NEW n \in Namespace, NEW found \in SUBSET Policy, NEW lineage \in Seq(Namespace),
           lineage # <<>> => NameOf[lineage[1]] # NameOf[Root], NEW path \in Text, NEW op
    PROVE  ~ Grants(found, lineage, NamesOf(Lineage[n]), path, op)
<1> DEFINE a == NamesOf(lineage)
           b == NamesOf(Lineage[n])
<1>1. b \in Seq(Text) /\ b # <<>>
  <2>1. Lineage[n] \in Seq(Namespace) /\ Len(Lineage[n]) >= 1
    BY Lineages DEF WellBorn, Depth
  <2>2. b \in Seq(Name) /\ Len(b) = Len(Lineage[n])
    BY <2>1, NamesType
  <2> HIDE DEF b
  <2>3. QED
    BY <2>1, <2>2, NameText
<1>2. a \in Seq(Name) /\ (a # <<>> => a[1] # NameOf[Root])
  <2>1. a \in Seq(Name) /\ Len(a) = Len(lineage) /\ \A k \in 1 .. Len(lineage) : a[k] = NameOf[lineage[k]]
    BY NamesType
  <2> HIDE DEF a
  <2>2. a # <<>> => lineage # <<>> /\ 1 \in 1 .. Len(lineage)
    BY <2>1
  <2>3. QED
    BY <2>1, <2>2
<1>3. Joined(a) \in Text
  <2>1. CASE a = <<>>
    BY <2>1, EmptySeq DEF Joined, Text
  <2>2. CASE a # <<>>
    BY <1>2, <2>2, JoinedType, NameText
  <2>3. QED
    BY <2>1, <2>2
<1>4. ASSUME NEW p \in found, NEW rule \in RulesOf[p]
      PROVE  ~ Matches(Prefixed(Joined(a), rule.path), Joined(b) \o <<Slash>> \o path)
  <2>1. rule.path \in Text
    BY RuleType
  <2>2. Relative(rule.path) \in Text /\ Prefixed(Joined(a), rule.path) = Joined(a) \o <<Slash>> \o Relative(rule.path)
    BY <1>3, <2>1, PrefixedIs
  <2>3. Full(b, path) = Joined(b) \o <<Slash>> \o path
    BY <1>1 DEF Full
  <2> HIDE DEF a
  <2>4. ~ Matches(Joined(a) \o <<Slash>> \o Relative(rule.path), Full(b, path))
    BY <1>2, <2>2, CutOff
  <2>5. QED
    BY <2>2, <2>3, <2>4
<1>5. QED
  BY <1>4 DEF Grants

\* The rules that is_authorized derives from those of the policies grant what Grants says.
LEMMA RulesGrant ==
    ASSUME NEW found \in SUBSET Policy, NEW prefix, NEW path, NEW op
    PROVE  (\E rule \in {[q EXCEPT !.path = Prefixed(prefix, q.path)] : q \in UNION {RulesOf[p] : p \in found}} :
                RuleAuthorizes(rule, path, {op}))
             <=> \E p \in found : \E rule \in RulesOf[p] :
                    op \in rule.ops /\ Matches(Prefixed(prefix, rule.path), path)
<1>1. ASSUME NEW p \in found, NEW q \in RulesOf[p]
      PROVE  RuleAuthorizes([q EXCEPT !.path = Prefixed(prefix, q.path)], path, {op})
               <=> op \in q.ops /\ Matches(Prefixed(prefix, q.path), path)
  <2>1. q \in [path : Text, ops : SUBSET Operations]
    BY RuleType
  <2> DEFINE rule == [q EXCEPT !.path = Prefixed(prefix, q.path)]
  <2>2. rule.path = Prefixed(prefix, q.path) /\ rule.ops = q.ops
    BY <2>1
  <2> HIDE DEF rule
  <2>3. RuleAuthorizes(rule, path, {op}) <=> op \in q.ops /\ Matches(Prefixed(prefix, q.path), path)
    BY <2>2 DEF RuleAuthorizes
  <2>4. QED
    BY <2>3 DEF rule
<1> DEFINE Derived(q) == [q EXCEPT !.path = Prefixed(prefix, q.path)]
           rules == {Derived(q) : q \in UNION {RulesOf[p] : p \in found}}
<1>2. \A p \in found : \A q \in RulesOf[p] :
         RuleAuthorizes(Derived(q), path, {op}) <=> op \in q.ops /\ Matches(Prefixed(prefix, q.path), path)
  BY <1>1
<1> HIDE DEF Derived
<1>3. ASSUME NEW rule \in rules, RuleAuthorizes(rule, path, {op})
      PROVE  \E p \in found : \E q \in RulesOf[p] : op \in q.ops /\ Matches(Prefixed(prefix, q.path), path)
  <2>1. PICK p \in found : \E q \in RulesOf[p] : rule = Derived(q)
    OBVIOUS
  <2>2. PICK q \in RulesOf[p] : rule = Derived(q)
    BY <2>1
  <2>3. QED
    BY <1>2, <1>3, <2>2
<1>4. ASSUME NEW p \in found, NEW q \in RulesOf[p], op \in q.ops, Matches(Prefixed(prefix, q.path), path)
      PROVE  \E rule \in rules : RuleAuthorizes(rule, path, {op})
  <2>1. Derived(q) \in rules
    OBVIOUS
  <2>2. RuleAuthorizes(Derived(q), path, {op})
    BY <1>2, <1>4
  <2>3. QED
    BY <2>1, <2>2
<1>5. (\E rule \in rules : RuleAuthorizes(rule, path, {op}))
        <=> \E p \in found : \E rule \in RulesOf[p] :
               op \in rule.ops /\ Matches(Prefixed(prefix, rule.path), path)
  BY <1>3, <1>4
<1>6. QED
  BY <1>5 DEF Derived

\* The decision: the patterns of the token's policies, prefixed by the names
\* walked, match exactly what HandledOnlyIfAllowed asks of a policy that the
\* token held since the request arrived.
LEMMA AuthorizeInv ==
    ASSUME PipelineInv, TypeOK', NEW r \in Request, Authorize(r)
    PROVE  PipelineInv'
<1> DEFINE old == req[r]
           i == old.input
           n == old.ns
           m == old.of
           L == Lineage[m]
           d == Len(L)
           prefix == Joined(NamesOf(old.walked))
           path == Joined(i.names) \o <<Slash>> \o i.path
           found == {p \in old.found : PolicySpace[p] = m}
           rules == {[q EXCEPT !.path = Prefixed(prefix, q.path)] : q \in UNION {RulesOf[p] : p \in found}}
           answer == \E rule \in rules : RuleAuthorizes(rule, path, {i.op})
           h == Authorized(old, answer)
<1>1. /\ old \in Handler /\ old.pc = "path" /\ old.status = None
      /\ HandlerOK(old) /\ InOrder(old, spaces, former)
  BY Waiting DEF Authorize
<1>2. UNCHANGED <<storage, tables, router, changes>> /\ Update(r, h)
  BY DEF Authorize
<1>3. /\ old.seen = "unsealed" /\ \A p \in old.found : PolicySpace[p] = m
      /\ old.allowed = Allows(old.found, n, i.path, i.op)
      /\ old.gone \/ Apart(n, m)
      /\ Ancestors(m) \subseteq spaces \cup former
      /\ Climbed(old, former)
  BY <1>1 DEF InOrder, Walking
<1>4. n \in Namespace /\ m \in Namespace /\ i \in Input /\ old.found \in SUBSET Policy
  BY <1>1, <1>3 DEF HandlerOK, Handler
<1>5. i.path \in Text /\ i.names \in Seq(Name) /\ i.names \in Seq(Text)
  BY <1>4, InputType
<1>6. found = old.found
  BY <1>3
<1>7. answer = Grants(old.found, old.walked, i.names, i.path, i.op)
  <2>1. answer <=> \E p \in found : \E rule \in RulesOf[p] :
                      i.op \in rule.ops /\ Matches(Prefixed(prefix, rule.path), path)
    BY <1>4, RulesGrant
  <2> HIDE DEF found
  <2>2. QED
    BY <1>6, <2>1 DEF Grants
<1> HIDE DEF answer
<1>8. answer \in BOOLEAN
  BY <1>7 DEF Grants
<1>9. /\ h.pc = "mount" /\ h.authed = answer /\ h.status = None /\ h.allowed = old.allowed
      /\ h.gone = old.gone /\ h.input = i /\ h.ns = n /\ h.of = m
  BY <1>1 DEF Handler, Authorized
<1> HIDE DEF h
<1>10. L \in Seq(Namespace) /\ d \in Nat /\ d >= 1
  BY <1>4, Lineages DEF WellBorn, Depth
<1>11. PICK k \in 0 .. d :
        /\ old.walked = SubSeq(L, k + 1, d)
        /\ k \in 1 .. d - 1 => NameOf[L[k + 1]] # NameOf[Root]
        /\ k = 0 \/ L[k] \in former
  BY <1>1, <1>3 DEF Climbed, Depth
<1>12. i.names[1] = NameOf[Root] => i.names = NamesOf(Lineage[n])
  <2> DEFINE K == Lineage[n]
             b == NamesOf(K)
  <2>1. K \in Seq(Namespace) /\ Len(K) \in Nat /\ Len(K) >= 1 /\ K[1] = Root
    BY <1>4, Lineages DEF WellBorn, Depth
  <2>2. b \in Seq(Name) /\ Len(b) = Len(K) /\ \A j \in 1 .. Len(K) : b[j] = NameOf[K[j]]
    BY <2>1, NamesType
  <2>3. Len(K) = Len(i.names) /\ \A j \in 2 .. Len(i.names) : NameOf[K[j]] = i.names[j]
    BY <1>1, <1>3 DEF InOrder, Placed, Depth
  <2> HIDE DEF K, b, i
  <2>4. ASSUME i.names[1] = NameOf[Root], NEW j \in 1 .. Len(K) PROVE i.names[j] = b[j]
    <3>1. CASE j = 1
      BY <2>1, <2>2, <2>4, <3>1
    <3>2. CASE j # 1
      <4>1. j \in 2 .. Len(i.names)
        BY <2>1, <2>3, <3>2
      <4>2. QED
        BY <2>2, <2>3, <4>1
    <3>3. QED
      BY <3>1, <3>2
  <2>5. i.names[1] = NameOf[Root] => i.names = b
    BY <1>5, <2>2, <2>3, <2>4
  <2>6. QED
    BY <2>5 DEF b, K
<1>13. CASE i.names[1] # NameOf[Root]
  <2>1. Justified(h) /\ Excused(h, former)
    BY <1>9, <1>13 DEF Justified, Excused
  <2>2. h.allowed => h.ns # None
    BY <1>4, <1>9, PipelineAssumption
  <2>3. InOrder(h, spaces, former)
    BY <1>9, <2>1, <2>2, PipelineAssumption DEF InOrder, Placed, Walking, Decided, Statuses
  <2>4. QED
    BY <1>2, <2>3, StepInv
<1>14. CASE i.names[1] = NameOf[Root] /\ k = 0
  <2>1. old.walked = L
    <3>1. old.walked = SubSeq(L, 1, Len(L))
      BY <1>11, <1>14
    <3>2. QED
      BY <1>10, <3>1, SubSeqFull
  <2>2. answer = Grants(old.found, L, NamesOf(Lineage[n]), i.path, i.op)
    BY <1>7, <1>12, <1>14, <2>1
  <2>3. /\ (Apart(n, m) /\ answer) => Allows(old.found, n, i.path, i.op) \/ ReadsAsChild(n, i.path, m)
        /\ Allows(old.found, n, i.path, i.op) => answer
    BY <1>3, <1>4, <1>5, <2>2, WholeWalkGrants
  <2>4. (answer => Justified(h)) /\ (h.allowed => answer)
    BY <1>3, <1>9, <2>3 DEF Justified
  <2>5. h.allowed => h.ns # None
    BY <1>4, <1>9, PipelineAssumption
  <2>6. InOrder(h, spaces, former)
    BY <1>9, <2>4, <2>5, PipelineAssumption DEF InOrder, Placed, Walking, Decided, Statuses
  <2>7. QED
    BY <1>2, <2>6, StepInv
<1>15. CASE i.names[1] = NameOf[Root] /\ k # 0
  <2>1. old.walked \in Seq(Namespace) /\ (old.walked # <<>> => NameOf[old.walked[1]] # NameOf[Root])
    <3> DEFINE w == SubSeq(L, k + 1, d)
    <3>1. /\ w \in Seq(Namespace) /\ Len(w) = d - k
          /\ \A j \in 1 .. d - k : w[j] = L[k + j]
      <4>1. k \in Nat /\ k <= Len(L)
        BY <1>10
      <4>2. QED
        BY <1>10, <4>1, Halves
    <3> HIDE DEF w
    <3>2. ASSUME w # <<>> PROVE NameOf[w[1]] # NameOf[Root]
      <4>1. k \in 1 .. d - 1 /\ 1 \in 1 .. d - k
        BY <1>10, <1>15, <3>1, <3>2
      <4>2. QED
        BY <1>11, <3>1, <4>1
    <3>3. old.walked = w
      BY <1>11 DEF w
    <3>4. QED
      BY <3>1, <3>2, <3>3
  <2>2. ~ answer
    BY <1>4, <1>5, <1>7, <1>12, <1>15, <2>1, CutWalkGrants
  <2>3. Excused(h, former)
    <3>1. k \in 1 .. d /\ L[k] \in former
      BY <1>10, <1>11, <1>15
    <3>2. L[k] \in Ancestors(m)
      BY <3>1 DEF Ancestors, Depth
    <3>3. QED
      BY <1>9, <3>1, <3>2 DEF Excused
  <2>4. h.allowed => h.ns # None
    BY <1>4, <1>9, PipelineAssumption
  <2>5. InOrder(h, spaces, former)
    BY <1>9, <2>2, <2>3, <2>4, PipelineAssumption DEF InOrder, Placed, Walking, Decided, Statuses
  <2>6. QED
    BY <1>2, <2>5, StepInv
<1>16. QED
  BY <1>13, <1>14, <1>15

\* What was decided stays decided on the way to the route.
LEMMA OnwardInv ==
    ASSUME PipelineInv, TypeOK', NEW r \in Request, NEW h, req[r].pc \in {"mount", "backend"},
           h.pc \in {"backend", "route"}, h.status = None, h.allowed = req[r].allowed, h.authed = req[r].authed,
           h.gone = req[r].gone, h.input = req[r].input, h.ns = req[r].ns, h.of = req[r].of,
           Update(r, h), UNCHANGED <<storage, tables, router, changes>>
    PROVE  PipelineInv'
<1> DEFINE old == req[r]
<1>1. Decided(old, former)
  BY Waiting DEF InOrder
<1> HIDE DEF old
<1>2. /\ old.allowed => old.ns # None
      /\ old.authed => Justified(old)
      /\ old.allowed /\ ~ old.authed => Excused(old, former)
  BY <1>1 DEF Decided, old
<1>3. Justified(old) => Justified(h)
  BY DEF Justified, old
<1>4. Excused(old, former) => Excused(h, former)
  BY DEF Excused, old
<1>5. InOrder(h, spaces, former)
  BY <1>2, <1>3, <1>4, PipelineAssumption DEF InOrder, Placed, Walking, Decided, Statuses, old
<1>6. QED
  BY <1>5, StepInv

\* An answer is in order when the decision stands behind it.
LEMMA DecidedAnswerInv ==
    ASSUME PipelineInv, TypeOK', NEW r \in Request, NEW code, req[r].pc \in {"mount", "backend", "route"},
           code = 200 /\ req[r].input.endpoint \in {"system", "secret"} => req[r].authed,
           code = 401 => ~ req[r].authed \/ ~ req[r].allowed,
           Answer(r, code), UNCHANGED <<storage, tables, router, changes>>
    PROVE  PipelineInv'
<1> DEFINE old == req[r]
           h == [old EXCEPT !.pc = "done", !.status = code]
<1>1. old \in Handler /\ Decided(old, former)
  BY Waiting DEF InOrder
<1>2. /\ h.pc = "done" /\ h.status = code /\ h.allowed = old.allowed
      /\ h.gone = old.gone /\ h.input = old.input /\ h.ns = old.ns /\ h.of = old.of
  BY <1>1 DEF Handler
<1>3. Update(r, h)
  BY DEF Answer
<1> HIDE DEF h
<1>4. /\ old.authed => Justified(old)
      /\ old.allowed /\ ~ old.authed => Excused(old, former)
  BY <1>1 DEF Decided
<1>5. Justified(old) => Justified(h)
  BY <1>2 DEF Justified
<1>6. Excused(old, former) => Excused(h, former)
  BY <1>2 DEF Excused
<1>7. InOrder(h, spaces, former)
  BY <1>2, <1>4, <1>5, <1>6 DEF InOrder, Placed, Walking, Decided
<1>8. QED
  BY <1>3, <1>7, StepInv

\* The mount is looked up after the decision, which stands.
LEMMA FindMountInv ==
    ASSUME PipelineInv, TypeOK', NEW r \in Request, FindMount(r)
    PROVE  PipelineInv'
<1> DEFINE old == req[r]
<1>1. old \in Handler /\ old.pc = "mount" /\ old.status = None /\ Decided(old, former)
  BY Waiting DEF FindMount, InOrder
<1>2. UNCHANGED <<storage, tables, router, changes>>
  BY DEF FindMount
<1>3. CASE Update(r, [old EXCEPT !.pc = "route"])
  <2> DEFINE h == [old EXCEPT !.pc = "route"]
  <2>1. /\ h.pc = "route" /\ h.status = None /\ h.allowed = old.allowed /\ h.authed = old.authed
        /\ h.gone = old.gone /\ h.input = old.input /\ h.ns = old.ns /\ h.of = old.of
    BY <1>1 DEF Handler
  <2>2. Update(r, h)
    BY <1>3
  <2> HIDE DEF h
  <2>3. QED
    BY <1>1, <1>2, <2>1, <2>2, OnwardInv
<1>4. ASSUME NEW m \in Mount, Update(r, [old EXCEPT !.pc = "backend", !.mount = m]) PROVE PipelineInv'
  <2> DEFINE h == [old EXCEPT !.pc = "backend", !.mount = m]
  <2>1. /\ h.pc = "backend" /\ h.status = None /\ h.allowed = old.allowed /\ h.authed = old.authed
        /\ h.gone = old.gone /\ h.input = old.input /\ h.ns = old.ns /\ h.of = old.of
    BY <1>1 DEF Handler
  <2>2. Update(r, h)
    BY <1>4
  <2> HIDE DEF h
  <2>3. QED
    BY <1>1, <1>2, <2>1, <2>2, OnwardInv
<1>5. CASE old.ns = None /\ Answer(r, 401)
  <2>1. ~ old.allowed
    BY <1>1, <1>5 DEF Decided
  <2>2. QED
    BY <1>1, <1>2, <1>5, <2>1, DecidedAnswerInv
<1>6. CASE Answer(r, 404) \/ Answer(r, 500)
  BY <1>2, <1>6, AnswerInv
<1>7. QED
  BY <1>3, <1>4, <1>5, <1>6 DEF FindMount

\* The backend is looked up after the decision, which stands.
LEMMA FindBackendInv ==
    ASSUME PipelineInv, TypeOK', NEW r \in Request, FindBackend(r)
    PROVE  PipelineInv'
<1> DEFINE old == req[r]
<1>1. old \in Handler /\ old.pc = "backend" /\ old.status = None
  BY Waiting DEF FindBackend
<1>2. UNCHANGED <<storage, tables, router, changes>>
  BY DEF FindBackend
<1>3. CASE Update(r, [old EXCEPT !.pc = "route"])
  <2> DEFINE h == [old EXCEPT !.pc = "route"]
  <2>1. /\ h.pc = "route" /\ h.status = None /\ h.allowed = old.allowed /\ h.authed = old.authed
        /\ h.gone = old.gone /\ h.input = old.input /\ h.ns = old.ns /\ h.of = old.of
    BY <1>1 DEF Handler
  <2>2. Update(r, h)
    BY <1>3
  <2> HIDE DEF h
  <2>3. QED
    BY <1>1, <1>2, <2>1, <2>2, OnwardInv
<1>4. CASE Answer(r, 500)
  BY <1>2, <1>4, AnswerInv
<1>5. QED
  BY <1>3, <1>4 DEF FindBackend

\* Only who is authorized gets through to the handlers of the system and of secrets, and nobody else is refused.
LEMMA RefusalIs ==
    ASSUME NEW h, NEW e
    PROVE  /\ Refusal(h, ConfigOf(e)) \in {200, 401, 403}
           /\ e \in {"system", "secret"} /\ Refusal(h, ConfigOf(e)) = 200 => h.authed
           /\ Refusal(h, ConfigOf(e)) = 401 => ~ h.authed
BY DEF Refusal, ConfigOf, DefaultConfig, Unauthenticated

\* The route compares what it requires with what the authentication layer
\* noted: only an authorized request passes.
LEMMA CallRouteInv ==
    ASSUME PipelineInv, TypeOK', NEW r \in Request, CallRoute(r)
    PROVE  PipelineInv'
<1> DEFINE old == req[r]
           e == old.input.endpoint
           status == Refusal(old, ConfigOf(e))
           code == IF old.input.op \notin OperationsOf(e) THEN 404
                   ELSE IF e = "seal" /\ status = 200 /\ ParentOf[old.ns] # None THEN 403 ELSE status
<1>1. old.pc = "route" /\ Answer(r, code) /\ UNCHANGED <<storage, tables, router, changes>>
  BY DEF CallRoute
<1>2. /\ status \in {200, 401, 403}
      /\ e \in {"system", "secret"} /\ status = 200 => old.authed
      /\ status = 401 => ~ old.authed
  BY RefusalIs
<1> HIDE DEF status
<1>3. code \in {403, 404, status}
  OBVIOUS
<1> HIDE DEF code
<1>4. /\ code = 200 /\ e \in {"system", "secret"} => old.authed
      /\ code = 401 => ~ old.authed
  BY <1>2, <1>3
<1>5. QED
  BY <1>1, <1>4, DecidedAnswerInv

\* The answer goes out and the request is forgotten.
LEMMA ReplyInv ==
    ASSUME PipelineInv, TypeOK', NEW r \in Request, Reply(r)
    PROVE  PipelineInv'
<1>1. InOrder(Idle, spaces, former)
  BY PipelineAssumption DEF InOrder, Placed, Walking, Decided, Idle, Statuses
<1>2. QED
  BY <1>1, StepInv DEF Reply

-----------------------------------------------------------------------------
\* The environment: what is known of a namespace is not forgotten.
LEMMA ChangeInv ==
    ASSUME PipelineInv, TypeOK', UNCHANGED req, former \subseteq former', spaces \cup former \subseteq spaces' \cup former',
           \A n, k \in spaces' : Distinct(n, k)
    PROVE  PipelineInv'
<1>1. \A r \in Request : InOrder(req[r], spaces', former')
  BY InOrderStays DEF PipelineInv
<1>2. QED
  BY <1>1 DEF PipelineInv

\* Namespaces, tokens, policies and mounts are created and deleted under a
\* request in progress: former remembers what was.
LEMMA EnvironmentInv ==
    ASSUME PipelineInv, TypeOK', Environment
    PROVE  PipelineInv'
<1>0. UNCHANGED req /\ \A n, k \in spaces : Distinct(n, k)
  BY DEF PipelineInv, Environment, Change, CreateToken, EndToken, Attach, CreatePolicy, DeletePolicy,
         CreateNamespace, DeleteNamespace, ChangeMount, ChangeState, ClearMounts
<1>1. CASE spaces' = spaces /\ former \subseteq former'
  <2>1. spaces \cup former \subseteq spaces' \cup former'
    BY <1>1
  <2>2. \A n, k \in spaces' : Distinct(n, k)
    BY <1>0, <1>1
  <2>3. QED
    BY <1>0, <1>1, <2>1, <2>2, ChangeInv
<1>2. ASSUME NEW n \in Namespace, CreateNamespace(n) PROVE PipelineInv'
  <2>1. spaces' = spaces \cup {n} /\ former' = former /\ ParentOf[n] \in spaces
    BY <1>2 DEF CreateNamespace, MayAdd
  <2>2. \A k \in spaces : Distinct(n, k) /\ Distinct(k, k)
    BY <1>0, <1>2 DEF CreateNamespace, MayAdd
  <2>3. \A k \in spaces : Distinct(k, n)
    BY <2>2 DEF Distinct
  <2>4. Distinct(n, n)
    BY <2>1, <2>2 DEF Distinct
  <2>5. \A k, l \in spaces' : Distinct(k, l)
    BY <1>0, <2>1, <2>2, <2>3, <2>4
  <2>6. former \subseteq former' /\ spaces \cup former \subseteq spaces' \cup former'
    BY <2>1
  <2>7. QED
    BY <1>0, <2>5, <2>6, ChangeInv
<1>3. ASSUME NEW n \in Namespace, DeleteNamespace(n) PROVE PipelineInv'
  <2>1. spaces' = spaces \ {n} /\ former \cup {n} \subseteq former'
    BY <1>3 DEF DeleteNamespace
  <2>2. \A k, l \in spaces' : Distinct(k, l)
    BY <1>0, <2>1
  <2>3. former \subseteq former' /\ spaces \cup former \subseteq spaces' \cup former'
    BY <2>1
  <2>4. QED
    BY <1>0, <2>2, <2>3, ChangeInv
<1>4. QED
  BY <1>1, <1>2, <1>3
     DEF Environment, CreateToken, EndToken, Attach, CreatePolicy, DeletePolicy, ChangeMount, ChangeState,
         ClearMounts, tables

\* Every step keeps the invariant: one lemma per step above.
LEMMA NextInv ==
    ASSUME PipelineInv, Next
    PROVE  PipelineInv'
<1>1. TypeOK'
  BY NextOK DEF PipelineInv
<1>2. QED
  BY <1>1, ArriveInv, QueryFailsInv, FindNamespaceInv, FindPoliciesInv, WalkInv, AuthorizeInv, FindMountInv,
     FindBackendInv, CallRouteInv, ReplyInv, EnvironmentInv DEF Next, Step

\* A stuttering step keeps the invariant.
LEMMA StutterInv ==
    ASSUME PipelineInv, UNCHANGED vars
    PROVE  PipelineInv'
BY DEF PipelineInv, TypeOK, vars, tables, router

\* The invariant, in all that can happen
LEMMA PipelineInvariant == Spec => []PipelineInv
<1>1. PipelineInv /\ [Next]_vars => PipelineInv'
  BY NextInv, StutterInv
<1>2. QED
  BY <1>1, InitInv, PTL DEF Spec

\* Whatever namespaces, policies and requests there are, a handler of the system or of a secret runs only for a
\* token that was allowed to call it when its policies were looked up, with the exceptions that
\* HandledOnlyIfAllowed names (AuthService::is_authorized and the checks of Route::call).
THEOREM Authorization == Spec => []HandledOnlyIfAllowed
<1>1. PipelineInv => HandledOnlyIfAllowed
  BY DEF PipelineInv, InOrder, Decided, Justified, HandledOnlyIfAllowed
<1>2. QED
  BY <1>1, PipelineInvariant, PTL

\* And whoever is refused was not allowed to call it, or a namespace on the way from the policies' one to the root
\* was deleted while find_parents walked up, or the root was called by another name.
THEOREM NoneRefused == Spec => []RefusedOnlyIfNotAllowed
<1>1. PipelineInv => RefusedOnlyIfNotAllowed
  BY DEF PipelineInv, InOrder, Decided, Excused, RefusedOnlyIfNotAllowed
<1>2. QED
  BY <1>1, PipelineInvariant, PTL

-----------------------------------------------------------------------------
(***************************************************************************)
(* A theorem on Policies alone: what batch_is_authorized lets pass.        *)
(***************************************************************************)
\* Patterns, and policies whose patterns have the wildcard at the end only
PatternOf(Letter) == {p \in Seq(Letter) : WellFormed(p)}
PolicyRow(Label, Letter, Op) == [name : Label, paths : SUBSET [path : PatternOf(Letter), ops : SUBSET Op]]

\* A pattern without its star is one character shorter and otherwise the same.
LEMMA WithoutStarFacts ==
    ASSUME NEW Letter, NEW p \in Seq(Letter), EndsInStar(p)
    PROVE  /\ Len(p) \in Nat /\ Len(p) > 0 /\ p[Len(p)] = Star
           /\ Len(WithoutStar(p)) = Len(p) - 1
           /\ \A i \in 1 .. Len(p) - 1 : WithoutStar(p)[i] = p[i]
<1> DEFINE n == Len(p)
<1>1. n \in Nat /\ n > 0 /\ p[n] = Star /\ \A i \in 1 .. n : p[i] \in Letter
  BY DEF EndsInStar
<1>2. WithoutStar(p) = SubSeq(p, 1, n - 1)
  BY DEF WithoutStar
<1> HIDE DEF n
<1>3. 1 \in Int /\ n - 1 \in Int /\ (\A i \in 1 .. n - 1 : p[i] \in Letter) /\ (n - 1) - 1 + 1 = n - 1
  BY <1>1
<1>4. /\ Len(SubSeq(p, 1, n - 1)) = IF 1 <= n - 1 THEN (n - 1) - 1 + 1 ELSE 0
      /\ \A i \in 1 .. (n - 1) - 1 + 1 : SubSeq(p, 1, n - 1)[i] = p[1 + i - 1]
  BY <1>3, SubSeqProperties
<1>5. \A i \in 1 .. n - 1 : 1 + i - 1 = i
  BY <1>1
<1>6. Len(SubSeq(p, 1, n - 1)) = n - 1
  BY <1>1, <1>3, <1>4
<1>7. \A i \in 1 .. n - 1 : SubSeq(p, 1, n - 1)[i] = p[i]
  BY <1>3, <1>4, <1>5
<1>8. QED
  BY <1>1, <1>2, <1>6, <1>7 DEF n

\* A pattern matched by another one, as if it were a path, covers fewer paths.
LEMMA CoveredMatchesLess ==
    ASSUME NEW Letter, NEW outer \in PatternOf(Letter), NEW inner \in PatternOf(Letter), Matches(outer, inner),
           NEW path \in Seq(Letter), Matches(inner, path)
    PROVE  Matches(outer, path)
<1> DEFINE m == Len(outer)
           n == Len(inner)
<1>1. m \in Nat /\ n \in Nat /\ Len(path) \in Nat
  BY DEF PatternOf
<1>2. CASE ~ EndsInStar(outer)
  BY <1>2 DEF Matches
<1>3. CASE EndsInStar(outer) /\ ~ EndsInStar(inner)
  BY <1>3 DEF Matches
<1>4. CASE EndsInStar(outer) /\ EndsInStar(inner)
  <2>1. /\ m > 0 /\ outer[m] = Star
        /\ n > 0 /\ inner[n] = Star
    BY <1>4, WithoutStarFacts DEF PatternOf
  <2>2. /\ Len(WithoutStar(outer)) = m - 1
        /\ \A i \in 1 .. m - 1 : WithoutStar(outer)[i] = outer[i]
        /\ Len(WithoutStar(inner)) = n - 1
        /\ \A i \in 1 .. n - 1 : WithoutStar(inner)[i] = inner[i]
    BY <1>4, WithoutStarFacts DEF PatternOf
  <2>3. m - 1 <= n /\ \A i \in 1 .. m - 1 : inner[i] = outer[i]
    BY <1>4, <2>2 DEF Matches, StartsWith
  <2>4. m - 1 <= n - 1
    <3>1. ASSUME m - 1 = n PROVE FALSE
      <4>1. outer[n] = Star
        BY <2>1, <2>3, <3>1, <1>1
      <4>2. n \in 1 .. m - 1
        BY <2>1, <3>1, <1>1
      <4>3. QED
        BY <4>1, <4>2 DEF PatternOf, WellFormed
    <3>2. QED
      BY <2>3, <3>1, <1>1
  <2>5. n - 1 <= Len(path) /\ \A i \in 1 .. n - 1 : path[i] = inner[i]
    BY <1>4, <2>2 DEF Matches, StartsWith
  <2>6. StartsWith(path, WithoutStar(outer))
    BY <1>1, <2>2, <2>3, <2>4, <2>5 DEF StartsWith
  <2>7. QED
    BY <1>4, <2>6 DEF Matches
<1>5. QED
  BY <1>2, <1>3, <1>4

\* Policies that batch_is_authorized accepts allow nothing that the existing
\* ones do not, unless one of these has the same name, where every wildcard
\* stands at the end (Policy::batch_is_authorized looks a pattern up as if it
\* were a path).
THEOREM BatchGrantsNoMore ==
    ASSUME NEW Label, NEW Letter, NEW Op,
           NEW existing \in SUBSET PolicyRow(Label, Letter, Op),
           NEW derived \in SUBSET PolicyRow(Label, Letter, Op),
           NEW path \in Seq(Letter), NEW ops \in SUBSET Op
    PROVE  GrantsNoMore(existing, derived, path, ops)
<1> SUFFICES ASSUME BatchAuthorizes(existing, derived),
                    NEW d \in derived, \A p \in existing : p.name # d.name,
                    PolicyAuthorizes(d, path, ops)
             PROVE  \E p \in existing : PolicyAuthorizes(p, path, ops)
  BY DEF GrantsNoMore
<1>1. PICK rule \in d.paths : RuleAuthorizes(rule, path, ops)
  BY DEF PolicyAuthorizes
<1>2. PICK p \in existing : PolicyAuthorizes(p, rule.path, rule.ops)
  BY DEF BatchAuthorizes
<1>3. PICK outer \in p.paths : RuleAuthorizes(outer, rule.path, rule.ops)
  BY <1>2 DEF PolicyAuthorizes
<1>4. rule.path \in PatternOf(Letter) /\ outer.path \in PatternOf(Letter)
  BY DEF PolicyRow
<1>5. Matches(outer.path, path) /\ ops \subseteq outer.ops
  BY <1>1, <1>3, <1>4, CoveredMatchesLess DEF RuleAuthorizes
<1>6. QED
  BY <1>5 DEF PolicyAuthorizes, RuleAuthorizes
=============================================================================
