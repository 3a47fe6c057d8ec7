---------------------------- MODULE MountProofs -----------------------------
(***************************************************************************)
(* Theorems about Mounts, for every value of its constants.                *)
(***************************************************************************)
EXTENDS Mounts, SequenceTheorems, TLAPS

-----------------------------------------------------------------------------
(***************************************************************************)
(* The inductive invariant                                                 *)
(***************************************************************************)

\* The steps at which a request knows the id of a mount
HasMount == {"insert", "migrate", "route", "issue", "register",
             "list", "revoke", "delete", "drop"}

\* A handler knows the mount it works on, and inside delete_namespace the
\* call that it is in.
HandlersOK ==
    \A r \in Request :
        /\ req[r].pc \in {"children", "mounts"} => req[r].calls # << >>
        /\ req[r].pc \in HasMount \cup {"find"} => req[r].at \in Place
        /\ req[r].pc \in HasMount => req[r].id \in MountId

TypeInv == TypeOK /\ HandlersOK

-----------------------------------------------------------------------------
(***************************************************************************)
(* Type correctness                                                        *)
(***************************************************************************)

LEMMA IdleType ==
    /\ Idle \in Handler
    /\ Idle.pc = "idle" /\ Idle.at = None /\ Idle.id = None /\ Idle.todo = {}
BY DEF Idle, Handler

LEMMA CallsType ==
    ASSUME NEW calls \in Seq(Frame), NEW f \in Frame
    PROVE  /\ <<f>> \in Seq(Frame) /\ <<f>> # << >>
           /\ calls # << >> => Head(calls) \in Frame /\ Tail(calls) \in Seq(Frame)
           /\ <<f>> \o calls \in Seq(Frame) /\ <<f>> \o calls # << >>
           /\ calls # << >> => <<f>> \o Tail(calls) \in Seq(Frame) /\ <<f>> \o Tail(calls) # << >>
<1>1. <<f>> \in Seq(Frame) /\ Len(<<f>>) = 1
  OBVIOUS
<1>2. calls # << >> => Head(calls) \in Frame /\ Tail(calls) \in Seq(Frame)
  BY HeadTailProperties
<1>3. ASSUME NEW s \in Seq(Frame) PROVE <<f>> \o s \in Seq(Frame) /\ <<f>> \o s # << >>
  <2>1. <<f>> \o s \in Seq(Frame) /\ Len(<<f>> \o s) = 1 + Len(s)
    BY <1>1, <1>3, ConcatProperties
  <2> QED
    BY <2>1, <1>3, EmptySeq, LenProperties
<1> QED
  BY <1>1, <1>2, <1>3

\* How a step of request r changes the requests.
Becomes(r, pc, at, id, todo) ==
    /\ req' \in [Request -> Handler]
    /\ \A q \in Request : q # r => req'[q] = req[q]
    /\ req'[r].pc = pc
    /\ req'[r].at = at
    /\ req'[r].id = id
    /\ req'[r].todo = todo
    /\ pc \in {"children", "mounts"} => req'[r].calls # << >>

LEMMA SetReqEffect ==
    ASSUME req \in [Request -> Handler], NEW r \in Request, NEW h \in Handler, SetReq(r, h),
           h.pc \in {"children", "mounts"} => h.calls # << >>
    PROVE  Becomes(r, h.pc, h.at, h.id, h.todo)
BY DEF SetReq, Becomes

LEMMA FrameType ==
    ASSUME TypeInv, NEW n \in Namespace
    PROVE  Call(n) \in Frame
BY DEF Call, Frame, Children, TypeInv, TypeOK

LEMMA TopType ==
    ASSUME TypeInv, NEW r \in Request, req[r].pc \in {"children", "mounts"}
    PROVE  /\ Top(r) \in Frame
           /\ req[r].calls \in Seq(Frame)
           /\ Tail(req[r].calls) \in Seq(Frame)
           /\ Len(req[r].calls) # 1 => Tail(req[r].calls) # << >>
<1>1. req[r].calls \in Seq(Frame) /\ req[r].calls # << >>
  BY DEF TypeInv, TypeOK, HandlersOK, Handler
<1>2. /\ Head(req[r].calls) \in Frame /\ Tail(req[r].calls) \in Seq(Frame)
      /\ Len(Tail(req[r].calls)) = Len(req[r].calls) - 1
  BY <1>1, HeadTailProperties
<1>3. Len(req[r].calls) # 1 => Tail(req[r].calls) # << >>
  <2>1. Len(req[r].calls) \in Nat /\ Len(<< >>) = 0
    BY <1>1, LenProperties
  <2>2. ASSUME Tail(req[r].calls) = << >> PROVE Len(Tail(req[r].calls)) = 0
    BY <2>1, <2>2
  <2>3. \A k \in Nat : k - 1 = 0 => k = 1
    OBVIOUS
  <2> QED
    BY <1>2, <2>1, <2>2, <2>3, Zenon
<1> QED
  BY <1>1, <1>2, <1>3 DEF Top

-----------------------------------------------------------------------------
(***************************************************************************)
(* What each step does to the request that takes it                        *)
(***************************************************************************)

LEMMA GotoEffect ==
    ASSUME TypeInv, NEW r \in Request, NEW pc, Goto(r, pc),
           pc \in {"migrate", "issue", "delete", "drop"}
    PROVE  Becomes(r, pc, req[r].at, req[r].id, req[r].todo)
<1> DEFINE h == [req[r] EXCEPT !.pc = pc]
<1>1. h \in Handler /\ h.pc = pc /\ h.at = req[r].at /\ h.id = req[r].id /\ h.todo = req[r].todo
  BY DEF TypeInv, TypeOK, Handler
<1>2. SetReq(r, h)
  BY DEF Goto
<1> HIDE DEF h
<1> QED
  BY <1>1, <1>2, SetReqEffect DEF TypeInv, TypeOK

LEMMA DoneEffect ==
    ASSUME TypeInv, NEW r \in Request, Done(r)
    PROVE  Becomes(r, "idle", None, None, {})
BY IdleType, SetReqEffect DEF Done, TypeInv, TypeOK

LEMMA BeginMountEffect ==
    ASSUME TypeInv, NEW r \in Request, NEW at \in Place, NEW id \in MountId,
           BeginMount(r, at, id)
    PROVE  Becomes(r, "insert", at, id, {})
<1> DEFINE h == [Idle EXCEPT !.pc = "insert", !.at = at, !.id = id]
<1>1. h \in Handler /\ h.pc = "insert" /\ h.at = at /\ h.id = id /\ h.todo = {}
  BY IdleType DEF Handler
<1>2. SetReq(r, h)
  BY DEF BeginMount
<1> HIDE DEF h
<1> QED
  BY <1>1, <1>2, SetReqEffect DEF TypeInv, TypeOK

LEMMA BeginIssueEffect ==
    ASSUME TypeInv, NEW r \in Request, NEW n \in Namespace, NEW p \in Path,
           BeginIssue(r, n, p)
    PROVE  \E m \in mounts : Becomes(r, "route", m.at, m.id, {})
<1>1. PICK m \in mounts : SetReq(r, [Idle EXCEPT !.pc = "route", !.at = m.at, !.id = m.id])
  BY DEF BeginIssue
<1> DEFINE h == [Idle EXCEPT !.pc = "route", !.at = m.at, !.id = m.id]
<1>2. m.at \in Place /\ m.id \in MountId
  BY DEF TypeInv, TypeOK
<1>3. h \in Handler /\ h.pc = "route" /\ h.at = m.at /\ h.id = m.id /\ h.todo = {}
  BY <1>2, IdleType DEF Handler
<1>4. SetReq(r, h)
  BY <1>1
<1> HIDE DEF h
<1> QED
  BY <1>3, <1>4, SetReqEffect DEF TypeInv, TypeOK

LEMMA BeginDisableEffect ==
    ASSUME TypeInv, NEW r \in Request, NEW at \in Place, BeginDisable(r, at)
    PROVE  Becomes(r, "find", at, None, {})
<1> DEFINE h == [Idle EXCEPT !.pc = "find", !.at = at]
<1>1. h \in Handler /\ h.pc = "find" /\ h.at = at /\ h.id = None /\ h.todo = {}
  BY IdleType DEF Handler
<1>2. SetReq(r, h)
  BY DEF BeginDisable
<1> HIDE DEF h
<1> QED
  BY <1>1, <1>2, SetReqEffect DEF TypeInv, TypeOK

\* The request creates a secret and will register its lease.
Issues(r, s) ==
    /\ owner[s] = None
    /\ owner' = [owner EXCEPT ![s] = req[r].id]
    /\ live' = live \cup {s}
    /\ Becomes(r, "register", req[r].at, req[r].id, {[secret |-> s, at |-> req[r].at]})

LEMMA IssueEffect ==
    ASSUME TypeInv, NEW r \in Request, Issue(r)
    PROVE  \/ Becomes(r, "idle", None, None, {}) /\ UNCHANGED backend
           \/ \E s \in Secret : Issues(r, s)
<1>1. CASE Done(r) /\ UNCHANGED backend
  BY <1>1, DoneEffect
<1>2. ASSUME NEW s \in Secret, owner[s] = None,
             owner' = [owner EXCEPT ![s] = req[r].id], live' = live \cup {s},
             SetReq(r, [req[r] EXCEPT !.pc = "register",
                                      !.todo = {[secret |-> s, at |-> req[r].at]}])
      PROVE  Issues(r, s)
  <2> DEFINE h == [req[r] EXCEPT !.pc = "register", !.todo = {[secret |-> s, at |-> req[r].at]}]
  <2>0. req[r].at \in Place
    BY DEF TypeInv, HandlersOK, HasMount, Issue
  <2>1. {[secret |-> s, at |-> req[r].at]} \in SUBSET Lease
    BY <2>0 DEF Lease
  <2>2. /\ h \in Handler /\ h.pc = "register" /\ h.at = req[r].at /\ h.id = req[r].id
        /\ h.todo = {[secret |-> s, at |-> req[r].at]}
    BY <2>1 DEF TypeInv, TypeOK, Handler
  <2>3. SetReq(r, h)
    BY <1>2
  <2> HIDE DEF h
  <2>4. Becomes(r, "register", req[r].at, req[r].id, {[secret |-> s, at |-> req[r].at]})
    BY <2>2, <2>3, SetReqEffect DEF TypeInv, TypeOK
  <2> QED
    BY <1>2, <2>4 DEF Issues
<1> QED
  BY <1>1, <1>2 DEF Issue

LEMMA FindMountEffect ==
    ASSUME TypeInv, NEW r \in Request, FindMount(r)
    PROVE  \/ Becomes(r, "idle", None, None, {})
           \/ \E m \in mounts :
                 m.at = req[r].at /\ Becomes(r, "list", m.at, m.id, req[r].todo)
<1>1. CASE Done(r)
  BY <1>1, DoneEffect
<1>2. ASSUME NEW m \in mounts, m.at = req[r].at,
             SetReq(r, [req[r] EXCEPT !.pc = "list", !.id = m.id])
      PROVE  Becomes(r, "list", m.at, m.id, req[r].todo)
  <2> DEFINE h == [req[r] EXCEPT !.pc = "list", !.id = m.id]
  <2>1. m.id \in MountId
    BY DEF TypeInv, TypeOK
  <2>2. h \in Handler /\ h.pc = "list" /\ h.at = m.at /\ h.id = m.id /\ h.todo = req[r].todo
    BY <1>2, <2>1 DEF TypeInv, TypeOK, Handler
  <2>3. SetReq(r, h)
    BY <1>2
  <2> HIDE DEF h
  <2> QED
    BY <2>2, <2>3, SetReqEffect DEF TypeInv, TypeOK
<1> QED
  BY <1>1, <1>2 DEF FindMount

\* What ListLeases returns to the request
Listed(at) == {l \in leases : l.at.ns = at.ns /\ <<at.path, l.at.path>> \in Covers}

LEMMA ListLeasesEffect ==
    ASSUME TypeInv, NEW r \in Request, ListLeases(r)
    PROVE  Becomes(r, "revoke", req[r].at, req[r].id, Listed(req[r].at))
<1> DEFINE h == [req[r] EXCEPT !.pc = "revoke", !.todo = Listed(req[r].at)]
<1>1. Listed(req[r].at) \in SUBSET Lease
  BY DEF Listed, TypeInv, TypeOK
<1>2. /\ h \in Handler /\ h.pc = "revoke" /\ h.at = req[r].at /\ h.id = req[r].id
      /\ h.todo = Listed(req[r].at)
  BY <1>1 DEF TypeInv, TypeOK, Handler
<1>3. SetReq(r, h)
  BY DEF ListLeases, Listed
<1> HIDE DEF h
<1> QED
  BY <1>2, <1>3, SetReqEffect DEF TypeInv, TypeOK

LEMMA RevokeListedEffect ==
    ASSUME TypeInv, NEW r \in Request, NEW l \in Lease, RevokeListed(r, l)
    PROVE  Becomes(r, "revoke", req[r].at, req[r].id, req[r].todo \ {l})
<1> DEFINE h == [req[r] EXCEPT !.todo = req[r].todo \ {l}]
<1>1. /\ h \in Handler /\ h.pc = "revoke" /\ h.at = req[r].at /\ h.id = req[r].id
      /\ h.todo = req[r].todo \ {l}
  BY DEF RevokeListed, TypeInv, TypeOK, Handler
<1>2. SetReq(r, h)
  BY DEF RevokeListed
<1> HIDE DEF h
<1> QED
  BY <1>1, <1>2, SetReqEffect DEF TypeInv, TypeOK

LEMMA DropTablesEffect ==
    ASSUME TypeInv, NEW r \in Request, DropTables(r)
    PROVE  \E pc \in {"idle", "mounts"} : Becomes(r, pc, None, None, {})
<1>1. CASE Done(r)
  BY <1>1, DoneEffect
<1>2. CASE req[r].calls # << >> /\ SetReq(r, [Idle EXCEPT !.pc = "mounts", !.calls = req[r].calls])
  <2> DEFINE h == [Idle EXCEPT !.pc = "mounts", !.calls = req[r].calls]
  <2>1. req[r].calls \in Seq(Frame)
    BY DEF TypeInv, TypeOK, Handler
  <2>2. /\ h \in Handler /\ h.pc = "mounts" /\ h.at = None /\ h.id = None /\ h.todo = {}
        /\ h.calls # << >>
    BY <1>2, <2>1, IdleType DEF Handler
  <2>3. SetReq(r, h)
    BY <1>2
  <2> HIDE DEF h
  <2> QED
    BY <2>2, <2>3, SetReqEffect DEF TypeInv, TypeOK
<1> QED
  BY <1>1, <1>2 DEF DropTables

\* The steps of delete_namespace that only move from one call to another
\* leave the request without a mount, but for RemoveNext.
LEMMA BeginDeleteNamespaceEffect ==
    ASSUME TypeInv, NEW r \in Request, NEW n \in Namespace, BeginDeleteNamespace(r, n)
    PROVE  Becomes(r, "children", None, None, {})
<1> DEFINE h == [Idle EXCEPT !.pc = "children", !.calls = <<Call(n)>>]
<1>1. <<Call(n)>> \in Seq(Frame) /\ <<Call(n)>> # << >>
  BY FrameType, CallsType DEF TypeInv, TypeOK, Handler
<1>2. /\ h \in Handler /\ h.pc = "children" /\ h.at = None /\ h.id = None /\ h.todo = {}
      /\ h.calls # << >>
  BY <1>1, IdleType DEF Handler
<1>3. SetReq(r, h)
  BY DEF BeginDeleteNamespace
<1> HIDE DEF h
<1> QED
  BY <1>2, <1>3, SetReqEffect DEF TypeInv, TypeOK

LEMMA DeleteChildEffect ==
    ASSUME TypeInv, NEW r \in Request, NEW c \in Namespace, DeleteChild(r, c)
    PROVE  Becomes(r, "children", req[r].at, req[r].id, req[r].todo)
<1> DEFINE top == [Top(r) EXCEPT !.children = Top(r).children \ {c}]
           calls == <<Call(c), top>> \o Tail(req[r].calls)
           h == [req[r] EXCEPT !.calls = calls]
<1>0. req[r].pc = "children"
  BY DEF DeleteChild
<1>1. top \in Frame
  BY <1>0, TopType DEF Frame
<1>2. Call(c) \in Frame /\ Tail(req[r].calls) \in Seq(Frame)
  BY <1>0, FrameType, TopType
<1>3. calls \in Seq(Frame) /\ calls # << >>
  <2> HIDE DEF top
  <2>1. <<Call(c), top>> \in Seq(Frame) /\ Len(<<Call(c), top>>) = 2
    BY <1>1, <1>2
  <2>2. calls \in Seq(Frame) /\ Len(calls) = 2 + Len(Tail(req[r].calls))
    BY <1>2, <2>1, ConcatProperties
  <2>3. Len(Tail(req[r].calls)) \in Nat
    BY <1>2, LenProperties
  <2> QED
    BY <2>2, <2>3, EmptySeq
<1> HIDE DEF calls
<1>4. /\ h \in Handler /\ h.pc = "children" /\ h.at = req[r].at /\ h.id = req[r].id
      /\ h.todo = req[r].todo /\ h.calls # << >>
  BY <1>0, <1>3 DEF TypeInv, TypeOK, Handler
<1>5. SetReq(r, h)
  BY DEF DeleteChild, calls
<1> HIDE DEF h
<1> QED
  BY <1>4, <1>5, SetReqEffect DEF TypeInv, TypeOK

LEMMA ListMountsEffect ==
    ASSUME TypeInv, NEW r \in Request, ListMounts(r)
    PROVE  Becomes(r, "mounts", req[r].at, req[r].id, req[r].todo)
<1> DEFINE top == [Top(r) EXCEPT !.paths = {m.at.path : m \in MountsIn(Top(r).ns)}]
           calls == <<top>> \o Tail(req[r].calls)
           h == [req[r] EXCEPT !.pc = "mounts", !.calls = calls]
<1>0. req[r].pc = "children"
  BY DEF ListMounts
<1>1. {m.at.path : m \in MountsIn(Top(r).ns)} \in SUBSET Path
  BY DEF MountsIn, TypeInv, TypeOK, Place
<1>2. top \in Frame
  BY <1>0, <1>1, TopType DEF Frame
<1>3. calls \in Seq(Frame) /\ calls # << >>
  BY <1>0, <1>2, TopType, CallsType
<1> HIDE DEF calls
<1>4. /\ h \in Handler /\ h.pc = "mounts" /\ h.at = req[r].at /\ h.id = req[r].id
      /\ h.todo = req[r].todo /\ h.calls # << >>
  BY <1>0, <1>3 DEF TypeInv, TypeOK, Handler
<1>5. SetReq(r, h)
  BY DEF ListMounts, Replace, calls
<1> HIDE DEF h
<1> QED
  BY <1>4, <1>5, SetReqEffect DEF TypeInv, TypeOK

LEMMA RemoveNextEffect ==
    ASSUME TypeInv, NEW r \in Request, NEW p \in Path, RemoveNext(r, p)
    PROVE  \E at \in Place : Becomes(r, "find", at, req[r].id, req[r].todo)
<1> DEFINE top == [Top(r) EXCEPT !.paths = Top(r).paths \ {p}]
           at == [ns |-> top.ns, path |-> p]
           calls == <<top>> \o Tail(req[r].calls)
           h == [req[r] EXCEPT !.pc = "find", !.at = at, !.calls = calls]
<1>0. req[r].pc = "mounts"
  BY DEF RemoveNext
<1>1. at \in Place /\ top \in Frame
  BY <1>0, TopType DEF Frame, Place
<1>2. calls \in Seq(Frame)
  BY <1>0, <1>1, TopType, CallsType
<1> HIDE DEF calls, at
<1>3. /\ h \in Handler /\ h.pc = "find" /\ h.at = at /\ h.id = req[r].id /\ h.todo = req[r].todo
  BY <1>0, <1>1, <1>2 DEF TypeInv, TypeOK, Handler
<1>4. SetReq(r, h)
  BY DEF RemoveNext, calls, at
<1> HIDE DEF h
<1>5. Becomes(r, "find", at, req[r].id, req[r].todo)
  BY <1>3, <1>4, SetReqEffect DEF TypeInv, TypeOK
<1> QED
  BY <1>1, <1>5

LEMMA DeleteNamespaceEffect ==
    ASSUME TypeInv, NEW r \in Request, DeleteNamespace(r)
    PROVE  \/ Becomes(r, "idle", None, None, {})
           \/ Becomes(r, "children", req[r].at, req[r].id, req[r].todo)
<1>1. CASE Done(r)
  BY <1>1, DoneEffect
<1>2. CASE /\ Len(req[r].calls) # 1
           /\ SetReq(r, [req[r] EXCEPT !.pc = "children", !.calls = Tail(req[r].calls)])
  <2> DEFINE h == [req[r] EXCEPT !.pc = "children", !.calls = Tail(req[r].calls)]
  <2>1. Tail(req[r].calls) \in Seq(Frame) /\ Tail(req[r].calls) # << >>
    BY <1>2, TopType DEF DeleteNamespace
  <2>2. /\ h \in Handler /\ h.pc = "children" /\ h.at = req[r].at /\ h.id = req[r].id
        /\ h.todo = req[r].todo /\ h.calls # << >>
    BY <2>1 DEF TypeInv, TypeOK, Handler
  <2>3. SetReq(r, h)
    BY <1>2
  <2> HIDE DEF h
  <2> QED
    BY <2>2, <2>3, SetReqEffect DEF TypeInv, TypeOK
<1> QED
  BY <1>1, <1>2 DEF DeleteNamespace

-----------------------------------------------------------------------------
(***************************************************************************)
(* Type correctness                                                        *)
(***************************************************************************)

LEMMA HandlersKept ==
    ASSUME TypeInv, NEW r \in Request, NEW pc, NEW at, NEW id, NEW todo,
           Becomes(r, pc, at, id, todo),
           pc \in HasMount \cup {"find"} => at \in Place,
           pc \in HasMount => id \in MountId
    PROVE  req' \in [Request -> Handler] /\ HandlersOK'
BY DEF TypeInv, HandlersOK, Becomes

LEMMA HandlersIdle ==
    ASSUME TypeInv, NEW r \in Request, Becomes(r, "idle", None, None, {})
    PROVE  req' \in [Request -> Handler] /\ HandlersOK'
BY HandlersKept DEF HasMount

LEMMA BeginType ==
    ASSUME TypeInv, NEW r \in Request, Begin(r)
    PROVE  TypeInv'
<1>1. ASSUME NEW at \in Place, NEW id \in MountId, BeginMount(r, at, id)
      PROVE  TypeInv'
  <2>1. req' \in [Request -> Handler] /\ HandlersOK'
    BY <1>1, BeginMountEffect, HandlersKept
  <2> QED
    BY <1>1, <2>1 DEF BeginMount, TypeInv, TypeOK, disk, backend
<1>2. ASSUME NEW n \in Namespace, NEW p \in Path, BeginIssue(r, n, p)
      PROVE  TypeInv'
  <2>1. PICK m \in mounts : Becomes(r, "route", m.at, m.id, {})
    BY <1>2, BeginIssueEffect
  <2>2. m.at \in Place /\ m.id \in MountId
    BY DEF TypeInv, TypeOK
  <2>3. req' \in [Request -> Handler] /\ HandlersOK'
    BY <2>1, <2>2, HandlersKept
  <2> QED
    BY <1>2, <2>3 DEF BeginIssue, TypeInv, TypeOK, disk, backend, history
<1>3. ASSUME NEW at \in Place, BeginDisable(r, at)
      PROVE  TypeInv'
  <2>1. req' \in [Request -> Handler] /\ HandlersOK'
    BY <1>3, BeginDisableEffect, HandlersKept DEF HasMount
  <2> QED
    BY <1>3, <2>1 DEF BeginDisable, TypeInv, TypeOK, disk, backend, history
<1>4. ASSUME NEW n \in Namespace, BeginDeleteNamespace(r, n)
      PROVE  TypeInv'
  <2>1. req' \in [Request -> Handler] /\ HandlersOK'
    BY <1>4, BeginDeleteNamespaceEffect, HandlersKept DEF HasMount
  <2> QED
    BY <1>4, <2>1 DEF BeginDeleteNamespace, TypeInv, TypeOK, disk, backend, history
<1> QED
  BY <1>1, <1>2, <1>3, <1>4 DEF Begin

\* A handler that goes on with its mount
LEMMA GotoKept ==
    ASSUME TypeInv, NEW r \in Request, req[r].pc \in HasMount, NEW pc, Goto(r, pc),
           pc \in {"migrate", "issue", "delete", "drop"}
    PROVE  req' \in [Request -> Handler] /\ HandlersOK'
BY GotoEffect, HandlersKept DEF TypeInv, HandlersOK

LEMMA DoneKept ==
    ASSUME TypeInv, NEW r \in Request, Done(r)
    PROVE  req' \in [Request -> Handler] /\ HandlersOK'
BY DoneEffect, HandlersIdle

LEMMA RevokeType ==
    ASSUME TypeInv, NEW l \in Lease, Revoke(l)
    PROVE  leases' \subseteq leases /\ live' \subseteq live /\ abandoned' \subseteq Secret
BY DEF Revoke, TypeInv, TypeOK, Lease

LEMMA MountStepsType ==
    ASSUME TypeInv, NEW r \in Request,
           InsertMount(r) \/ MigrateMount(r) \/ RouteRequest(r) \/ Issue(r) \/ Register(r)
    PROVE  TypeInv'
<1>0. req[r].pc \in HasMount => req[r].at \in Place /\ req[r].id \in MountId
  BY DEF TypeInv, HandlersOK
<1>1. CASE InsertMount(r)
  <2>1. req' \in [Request -> Handler] /\ HandlersOK'
    BY <1>1, GotoKept, DoneKept DEF InsertMount, HasMount
  <2>2. mounts' \subseteq [id : MountId, at : Place]
    BY <1>0, <1>1 DEF InsertMount, HasMount, TypeInv, TypeOK
  <2> QED
    BY <1>1, <2>1, <2>2 DEF InsertMount, TypeInv, TypeOK, backend, history
<1>2. CASE MigrateMount(r)
  <2>1. req' \in [Request -> Handler] /\ HandlersOK'
    BY <1>2, DoneKept DEF MigrateMount
  <2> QED
    BY <1>0, <1>2, <2>1 DEF MigrateMount, HasMount, TypeInv, TypeOK, backend
<1>3. CASE RouteRequest(r)
  <2>1. req' \in [Request -> Handler] /\ HandlersOK'
    BY <1>3, GotoKept, DoneKept DEF RouteRequest, HasMount
  <2> QED
    BY <1>3, <2>1 DEF RouteRequest, TypeInv, TypeOK, disk, backend, history
<1>4. CASE Issue(r)
  <2>1. CASE Becomes(r, "idle", None, None, {}) /\ UNCHANGED backend
    BY <1>4, <2>1, HandlersIdle DEF Issue, TypeInv, TypeOK, disk, backend, history
  <2>2. ASSUME NEW s \in Secret, Issues(r, s)
        PROVE  TypeInv'
    <3>1. req[r].pc = "issue" /\ req[r].id \in MountId /\ req[r].at \in Place
      BY <1>0, <1>4 DEF Issue, HasMount
    <3>2. req' \in [Request -> Handler] /\ HandlersOK'
      BY <2>2, <3>1, HandlersKept DEF Issues
    <3> QED
      BY <1>4, <2>2, <3>1, <3>2 DEF Issue, Issues, TypeInv, TypeOK, disk, history
  <2> QED
    BY <1>4, <2>1, <2>2, IssueEffect
<1>5. CASE Register(r)
  <2>1. req' \in [Request -> Handler] /\ HandlersOK'
    BY <1>5, DoneKept DEF Register
  <2>2. req[r].todo \subseteq Lease
    BY DEF TypeInv, TypeOK, Handler
  <2>3. leases' \subseteq Lease /\ registered' \subseteq Secret
    BY <1>5, <2>2 DEF Register, TypeInv, TypeOK, Lease
  <2> QED
    BY <1>5, <2>1, <2>3 DEF Register, TypeInv, TypeOK, backend
<1> QED
  BY <1>1, <1>2, <1>3, <1>4, <1>5

LEMMA RemovalStepsType ==
    ASSUME TypeInv, NEW r \in Request,
           \/ FindMount(r) \/ ListLeases(r) \/ (\E l \in Lease : RevokeListed(r, l))
           \/ Unroute(r) \/ DeleteMount(r) \/ DropTables(r)
    PROVE  TypeInv'
<1>0. req[r].pc \in HasMount => req[r].at \in Place /\ req[r].id \in MountId
  BY DEF TypeInv, HandlersOK
<1>1. CASE FindMount(r)
  <2>1. \A m \in mounts : m.at \in Place /\ m.id \in MountId
    BY DEF TypeInv, TypeOK
  <2>2. req' \in [Request -> Handler] /\ HandlersOK'
    BY <1>1, <2>1, FindMountEffect, HandlersIdle, HandlersKept
  <2> QED
    BY <1>1, <2>2 DEF FindMount, TypeInv, TypeOK, disk, backend, history
<1>2. CASE ListLeases(r)
  <2>1. req' \in [Request -> Handler] /\ HandlersOK'
    BY <1>0, <1>2, ListLeasesEffect, HandlersKept DEF ListLeases, HasMount
  <2> QED
    BY <1>2, <2>1 DEF ListLeases, TypeInv, TypeOK, disk, backend, history
<1>3. ASSUME NEW l \in Lease, RevokeListed(r, l)
      PROVE  TypeInv'
  <2>1. req' \in [Request -> Handler] /\ HandlersOK'
    BY <1>0, <1>3, RevokeListedEffect, HandlersKept DEF RevokeListed, HasMount
  <2>2. leases' \subseteq leases /\ live' \subseteq live /\ abandoned' \subseteq Secret
    BY <1>3, RevokeType DEF RevokeListed
  <2> QED
    BY <1>3, <2>1, <2>2 DEF RevokeListed, TypeInv, TypeOK
<1>4. CASE Unroute(r)
  <2>1. req' \in [Request -> Handler] /\ HandlersOK'
    BY <1>4, GotoKept, DoneKept DEF Unroute, HasMount
  <2> QED
    BY <1>4, <2>1 DEF Unroute, TypeInv, TypeOK, disk, backend, history
<1>5. CASE DeleteMount(r)
  <2>1. req' \in [Request -> Handler] /\ HandlersOK'
    BY <1>5, GotoKept, DoneKept DEF DeleteMount, HasMount
  <2>2. mounts' \subseteq mounts /\ stuck' \subseteq MountId
    BY <1>0, <1>5 DEF DeleteMount, HasMount, TypeInv, TypeOK
  <2> QED
    BY <1>5, <2>1, <2>2 DEF DeleteMount, TypeInv, TypeOK, backend
<1>6. CASE DropTables(r)
  <2>1. req' \in [Request -> Handler] /\ HandlersOK'
    BY <1>6, DropTablesEffect, HandlersKept DEF HasMount
  <2> QED
    BY <1>6, <2>1 DEF DropTables, TypeInv, TypeOK, backend, history
<1> QED
  BY <1>1, <1>2, <1>3, <1>4, <1>5, <1>6

LEMMA NamespaceStepsType ==
    ASSUME TypeInv, NEW r \in Request,
           \/ (\E c \in Namespace : DeleteChild(r, c)) \/ ListMounts(r)
           \/ (\E p \in Path : RemoveNext(r, p)) \/ DeleteNamespace(r)
    PROVE  TypeInv'
<1>1. ASSUME NEW c \in Namespace, DeleteChild(r, c)
      PROVE  TypeInv'
  <2>1. req' \in [Request -> Handler] /\ HandlersOK'
    BY <1>1, DeleteChildEffect, HandlersKept DEF HasMount
  <2> QED
    BY <1>1, <2>1 DEF DeleteChild, TypeInv, TypeOK, disk, backend, history
<1>2. CASE ListMounts(r)
  <2>1. req' \in [Request -> Handler] /\ HandlersOK'
    BY <1>2, ListMountsEffect, HandlersKept DEF HasMount
  <2> QED
    BY <1>2, <2>1 DEF ListMounts, TypeInv, TypeOK, disk, backend, history
<1>3. ASSUME NEW p \in Path, RemoveNext(r, p)
      PROVE  TypeInv'
  <2>1. req' \in [Request -> Handler] /\ HandlersOK'
    BY <1>3, RemoveNextEffect, HandlersKept DEF HasMount
  <2> QED
    BY <1>3, <2>1 DEF RemoveNext, TypeInv, TypeOK, disk, backend, history
<1>4. CASE DeleteNamespace(r)
  <2>1. req' \in [Request -> Handler] /\ HandlersOK'
    BY <1>4, DeleteNamespaceEffect, HandlersIdle, HandlersKept DEF HasMount
  <2>2. namespaces' \subseteq namespaces
    BY <1>4 DEF DeleteNamespace
  <2> QED
    BY <1>4, <2>1, <2>2 DEF DeleteNamespace, TypeInv, TypeOK, backend, history
<1> QED
  BY <1>1, <1>2, <1>3, <1>4

LEMMA TypeStep ==
    ASSUME TypeInv, [Next]_vars
    PROVE  TypeInv'
<1>1. ASSUME NEW r \in Request, Begin(r) \/ HandlerStep(r)
      PROVE  TypeInv'
  BY <1>1, BeginType, MountStepsType, RemovalStepsType, NamespaceStepsType DEF HandlerStep
<1>2. ASSUME NEW r \in Request, Cancel(r)
      PROVE  TypeInv'
  <2>1. req' \in [Request -> Handler] /\ HandlersOK'
    BY <1>2, DoneKept DEF Cancel
  <2>2. stuck' \subseteq MountId
    BY <1>2 DEF Cancel, TypeInv, TypeOK, HandlersOK, HasMount
  <2>3. faults' \in Nat
    BY <1>2 DEF Cancel, Fault, TypeInv, TypeOK
  <2> QED
    BY <1>2, <2>1, <2>2, <2>3 DEF Cancel, TypeInv, TypeOK, disk, backend
<1>3. ASSUME NEW n \in Namespace, NEW p \in Namespace, CreateNamespace(n, p)
      PROVE  TypeInv'
  BY <1>3 DEF CreateNamespace, TypeInv, TypeOK, HandlersOK, backend
<1>4. CASE RevokeLease
  <2>1. leases' \subseteq leases /\ live' \subseteq live /\ abandoned' \subseteq Secret
    BY <1>4, RevokeType DEF RevokeLease, TypeInv, TypeOK
  <2> QED
    BY <1>4, <2>1 DEF RevokeLease, TypeInv, TypeOK, HandlersOK
<1>5. CASE Reopen
  <2>1. req' \in [Request -> Handler] /\ HandlersOK'
    BY <1>5, IdleType DEF Reopen, HandlersOK, HasMount
  <2>2. routes' \subseteq MountId /\ stuck' \subseteq MountId
    BY <1>5 DEF Reopen, MountsIn, TypeInv, TypeOK
  <2>3. faults' \in Nat
    BY <1>5 DEF Reopen, Fault, TypeInv, TypeOK
  <2> QED
    BY <1>5, <2>1, <2>2, <2>3 DEF Reopen, TypeInv, TypeOK, disk, backend
<1>6. CASE UNCHANGED vars
  BY <1>6 DEF vars, disk, backend, history, TypeInv, TypeOK, HandlersOK
<1> QED
  BY <1>1, <1>2, <1>3, <1>4, <1>5, <1>6 DEF Next

LEMMA TypeInit ==
    ASSUME Init
    PROVE  TypeInv
BY IdleType, MountsAssumption DEF Init, TypeInv, TypeOK, HandlersOK, HasMount

\* Every variable has its type, and every handler knows the mount, or the
\* call of delete_namespace, that its next step needs (remove_mount,
\* delete_namespace).
THEOREM TypeCorrect == Spec => [](TypeOK /\ HandlersOK)
<1>1. Init => TypeInv
  BY TypeInit
<1>2. TypeInv /\ [Next]_vars => TypeInv'
  BY TypeStep
<1> QED
  BY <1>1, <1>2, PTL DEF Spec, TypeInv

-----------------------------------------------------------------------------
(***************************************************************************)
(* Mounts and requests: which rows and routes a request may rely on        *)
(***************************************************************************)

StoredAt(id, at) == \E m \in mounts : m.id = id /\ m.at = at

\* id is the primary key of MOUNTS, and (namespace, path) is unique.
RowsDistinct == \A m, k \in mounts : m.id = k.id \/ m.at = k.at => m = k

\* Ids of mounts are never reused.
IdsUsed ==
    /\ Stored \cup routes \cup ready \subseteq used
    /\ \A r \in Request : req[r].pc \in HasMount => req[r].id \in used

\* A mount is known to nobody else before it is stored.
Inserting ==
    \A r \in Request : req[r].pc = "insert" =>
        /\ req[r].id \in routes
        /\ req[r].id \notin Stored \cup ready
        /\ \A q \in Request : q # r /\ req[q].pc \in HasMount => req[q].id # req[r].id

\* What a request that removes a mount read stays true as long as the mount is
\* routed, and when the request has unrouted it, until it deletes it.
Removing ==
    \A r \in Request :
        /\ req[r].pc \in {"list", "revoke"} =>
               StoredAt(req[r].id, req[r].at) \/ req[r].id \notin routes
        /\ req[r].pc = "delete" =>
               /\ StoredAt(req[r].id, req[r].at)
               /\ req[r].id \notin routes
               /\ \A q \in Request : req[q].pc = "delete" /\ req[q].id = req[r].id => q = r
        /\ req[r].pc = "drop" => req[r].id \notin Stored

MountInv == RowsDistinct /\ IdsUsed /\ Inserting /\ Removing

-----------------------------------------------------------------------------
(***************************************************************************)
(* Leases                                                                  *)
(***************************************************************************)

HasLease(s) == \E l \in leases : l.secret = s

\* The foreign key of LEASES
LeaseHasMount == \A l \in leases : \E m \in mounts : m.at = l.at

\* Every secret is issued once and has at most one lease.
LeasesDistinct ==
    /\ \A l, k \in leases : l.secret = k.secret => l = k
    /\ \A s \in Secret : HasLease(s) \/ s \in registered => owner[s] # None

\* A request that registers a lease has the secret that it just issued.
Registering ==
    \A r \in Request : req[r].pc = "register" =>
        \E s \in Secret :
            /\ req[r].todo = {[secret |-> s, at |-> req[r].at]}
            /\ owner[s] # None /\ s \notin registered /\ ~ HasLease(s)
            /\ \A q \in Request : q # r /\ req[q].pc = "register" =>
                   \A l \in req[q].todo : l.secret # s

\* A lease that was stored while its secret's mount was keeps the mount
\* stored until the secret is revoked or given up.
Protected ==
    \A s \in registered \cap live :
        s \notin abandoned =>
            \E l \in leases : l.secret = s /\ StoredAt(owner[s], l.at)

LeaseInv == LeaseHasMount /\ LeasesDistinct /\ Registering /\ Protected

-----------------------------------------------------------------------------
(***************************************************************************)
(* MountInv is inductive                                                   *)
(***************************************************************************)

\* A step that changes no row, no route and no history, after which its
\* request relies on what is true
LEMMA MountInvKept ==
    ASSUME TypeInv, MountInv, UNCHANGED <<mounts, routes, ready>>, used \subseteq used',
           NEW r \in Request, NEW pc, NEW at, NEW id, NEW todo,
           Becomes(r, pc, at, id, todo),
           pc \notin {"insert", "delete"},
           pc \in HasMount =>
               id \in used /\ \A q \in Request : q # r /\ req[q].pc = "insert" => req[q].id # id,
           pc \in {"list", "revoke"} => StoredAt(id, at) \/ id \notin routes,
           pc = "drop" => id \notin Stored
    PROVE  MountInv'
<1>1. RowsDistinct'
  BY DEF MountInv, RowsDistinct
<1>2. IdsUsed'
  BY DEF MountInv, IdsUsed, Becomes, Stored
<1>3. Inserting'
  BY DEF MountInv, Inserting, Becomes, Stored
<1>4. Removing'
  BY DEF MountInv, Removing, Becomes, Stored, StoredAt
<1> QED
  BY <1>1, <1>2, <1>3, <1>4 DEF MountInv

\* The request has no mount afterwards.
LEMMA NoMountKept ==
    ASSUME TypeInv, MountInv, UNCHANGED <<mounts, routes, ready>>, used \subseteq used',
           NEW r \in Request, NEW pc, NEW at, NEW id, NEW todo,
           Becomes(r, pc, at, id, todo), pc \notin HasMount
    PROVE  MountInv'
BY MountInvKept DEF HasMount

\* The request goes on with its mount.
LEMMA SameMountKept ==
    ASSUME TypeInv, MountInv, UNCHANGED <<mounts, routes, ready>>, used \subseteq used',
           NEW r \in Request, NEW pc, NEW todo,
           req[r].pc \in HasMount, pc \in HasMount \ {"insert", "delete", "drop"},
           pc \in {"list", "revoke"} => req[r].pc \in {"list", "revoke"},
           Becomes(r, pc, req[r].at, req[r].id, todo)
    PROVE  MountInv'
<1>1. req[r].id \in used
  BY DEF MountInv, IdsUsed
<1>2. \A q \in Request : q # r /\ req[q].pc = "insert" => req[q].id # req[r].id
  BY DEF MountInv, Inserting
<1>3. pc \in {"list", "revoke"} => StoredAt(req[r].id, req[r].at) \/ req[r].id \notin routes
  BY DEF MountInv, Removing
<1> QED
  BY <1>1, <1>2, <1>3, MountInvKept

LEMMA BeginMountInv ==
    ASSUME TypeInv, MountInv, NEW r \in Request, Begin(r)
    PROVE  MountInv'
<1>1. ASSUME NEW at \in Place, NEW id \in MountId, BeginMount(r, at, id)
      PROVE  MountInv'
  <2>1. Becomes(r, "insert", at, id, {})
    BY <1>1, BeginMountEffect
  <2>2. /\ id \notin used /\ used' = used \cup {id} /\ routes' = routes \cup {id}
        /\ UNCHANGED <<mounts, ready>>
    BY <1>1 DEF BeginMount, disk
  <2>3. RowsDistinct'
    BY <2>2 DEF MountInv, RowsDistinct
  <2>4. IdsUsed'
    BY <2>1, <2>2 DEF MountInv, IdsUsed, Becomes, Stored
  <2>5. Inserting'
    BY <2>1, <2>2 DEF MountInv, Inserting, IdsUsed, Becomes, Stored, HasMount
  <2>6. Removing'
    BY <2>1, <2>2 DEF MountInv, Removing, IdsUsed, Becomes, Stored, StoredAt, HasMount
  <2> QED
    BY <2>3, <2>4, <2>5, <2>6 DEF MountInv
<1>2. ASSUME NEW n \in Namespace, NEW p \in Path, BeginIssue(r, n, p)
      PROVE  MountInv'
  <2>1. PICK m \in mounts : Becomes(r, "route", m.at, m.id, {})
    BY <1>2, BeginIssueEffect
  <2>2. m.id \in used /\ \A q \in Request : req[q].pc = "insert" => req[q].id # m.id
    BY DEF MountInv, IdsUsed, Inserting, Stored
  <2>3. UNCHANGED <<mounts, routes, ready, used>>
    BY <1>2 DEF BeginIssue, disk, history
  <2> QED
    BY <2>1, <2>2, <2>3, MountInvKept
<1>3. ASSUME NEW at \in Place, BeginDisable(r, at)
      PROVE  MountInv'
  BY <1>3, BeginDisableEffect, NoMountKept DEF BeginDisable, HasMount, disk, history
<1>4. ASSUME NEW n \in Namespace, BeginDeleteNamespace(r, n)
      PROVE  MountInv'
  BY <1>4, BeginDeleteNamespaceEffect, NoMountKept DEF BeginDeleteNamespace, HasMount, disk, history
<1> QED
  BY <1>1, <1>2, <1>3, <1>4 DEF Begin

LEMMA MountStepsInv ==
    ASSUME TypeInv, MountInv, NEW r \in Request,
           InsertMount(r) \/ MigrateMount(r) \/ RouteRequest(r) \/ Issue(r) \/ Register(r)
    PROVE  MountInv'
<1>1. ASSUME InsertMount(r), UNCHANGED mounts, Done(r)
      PROVE  MountInv'
  BY <1>1, DoneEffect, NoMountKept DEF InsertMount, HasMount, history
<1>2. ASSUME InsertMount(r), Goto(r, "migrate"), \A m \in mounts : m.at # req[r].at,
             mounts' = mounts \cup {[id |-> req[r].id, at |-> req[r].at]}
      PROVE  MountInv'
  <2>1. Becomes(r, "migrate", req[r].at, req[r].id, req[r].todo)
    BY <1>2, GotoEffect
  <2>2. UNCHANGED <<routes, ready, used>> /\ req[r].pc = "insert" /\ req[r].id \notin Stored
    BY <1>2 DEF InsertMount, history, MountInv, Inserting
  <2>3. RowsDistinct'
    <3> DEFINE row == [id |-> req[r].id, at |-> req[r].at]
    <3>1. \A m \in mounts : m.id # row.id /\ m.at # row.at
      BY <1>2, <2>2 DEF Stored
    <3>2. mounts' = mounts \cup {row}
      BY <1>2
    <3> HIDE DEF row
    <3> QED
      BY <3>1, <3>2 DEF MountInv, RowsDistinct
  <2>4. Stored' = Stored \cup {req[r].id}
    <3> DEFINE row == [id |-> req[r].id, at |-> req[r].at]
    <3>1. mounts' = mounts \cup {row} /\ row.id = req[r].id
      BY <1>2
    <3> HIDE DEF row
    <3> QED
      BY <3>1 DEF Stored
  <2>5. IdsUsed'
    BY <2>1, <2>2, <2>4 DEF MountInv, IdsUsed, Becomes, HasMount
  <2>6. Inserting'
    BY <2>1, <2>2, <2>4 DEF MountInv, Inserting, Becomes, HasMount
  <2>7. Removing'
    <3>1. \A i, a : StoredAt(i, a) => StoredAt(i, a)'
      BY <1>2 DEF StoredAt
    <3>2. \A q \in Request : q # r /\ req[q].pc \in HasMount => req[q].id # req[r].id
      BY <2>2 DEF MountInv, Inserting
    <3> QED
      BY <2>1, <2>2, <2>4, <3>1, <3>2 DEF MountInv, Removing, Becomes, HasMount
  <2> QED
    BY <2>3, <2>5, <2>6, <2>7 DEF MountInv
<1>3. CASE MigrateMount(r)
  <2>1. Becomes(r, "idle", None, None, {})
    BY <1>3, DoneEffect DEF MigrateMount
  <2>2. /\ UNCHANGED <<mounts, routes, used>>
        /\ ready' \in {ready, ready \cup {req[r].id}}
        /\ req[r].pc = "migrate"
    BY <1>3 DEF MigrateMount
  <2>3. RowsDistinct'
    BY <2>2 DEF MountInv, RowsDistinct
  <2>4. IdsUsed'
    BY <2>1, <2>2 DEF MountInv, IdsUsed, Becomes, Stored, HasMount
  <2>5. Inserting'
    BY <2>1, <2>2 DEF MountInv, Inserting, Becomes, Stored, HasMount
  <2>6. Removing'
    BY <2>1, <2>2 DEF MountInv, Removing, Becomes, Stored, StoredAt
  <2> QED
    BY <2>3, <2>4, <2>5, <2>6 DEF MountInv
<1>4. CASE RouteRequest(r)
  <2>1. UNCHANGED <<mounts, routes, ready, used>> /\ req[r].pc = "route"
    BY <1>4 DEF RouteRequest, disk, history
  <2>2. CASE Goto(r, "issue")
    BY <2>1, <2>2, GotoEffect, SameMountKept DEF HasMount
  <2>3. CASE Done(r)
    BY <2>1, <2>3, DoneEffect, NoMountKept DEF HasMount
  <2> QED
    BY <1>4, <2>2, <2>3 DEF RouteRequest
<1>5. CASE Issue(r)
  <2>1. UNCHANGED <<mounts, routes, ready, used>> /\ req[r].pc = "issue"
    BY <1>5 DEF Issue, disk, history
  <2>2. CASE Becomes(r, "idle", None, None, {})
    BY <2>1, <2>2, NoMountKept DEF HasMount
  <2>3. ASSUME NEW s \in Secret, Issues(r, s)
        PROVE  MountInv'
    BY <2>1, <2>3, SameMountKept DEF Issues, HasMount
  <2> QED
    BY <1>5, <2>2, <2>3, IssueEffect
<1>6. CASE Register(r)
  BY <1>6, DoneEffect, NoMountKept DEF Register, HasMount
<1> QED
  BY <1>1, <1>2, <1>3, <1>4, <1>5, <1>6 DEF InsertMount

LEMMA RemovalStepsInv ==
    ASSUME TypeInv, MountInv, NEW r \in Request,
           \/ FindMount(r) \/ ListLeases(r) \/ (\E l \in Lease : RevokeListed(r, l))
           \/ Unroute(r) \/ DeleteMount(r) \/ DropTables(r)
    PROVE  MountInv'
<1>1. CASE FindMount(r)
  <2>1. UNCHANGED <<mounts, routes, ready, used>> /\ req[r].pc = "find"
    BY <1>1 DEF FindMount, disk, history
  <2>2. CASE Becomes(r, "idle", None, None, {})
    BY <2>1, <2>2, NoMountKept DEF HasMount
  <2>3. ASSUME NEW m \in mounts, Becomes(r, "list", m.at, m.id, req[r].todo)
        PROVE  MountInv'
    <3>1. m.id \in used /\ \A q \in Request : req[q].pc = "insert" => req[q].id # m.id
      BY DEF MountInv, IdsUsed, Inserting, Stored
    <3>2. StoredAt(m.id, m.at)
      BY DEF StoredAt
    <3> QED
      BY <2>1, <2>3, <3>1, <3>2, MountInvKept
  <2> QED
    BY <1>1, <2>2, <2>3, FindMountEffect
<1>2. CASE ListLeases(r)
  <2>1. UNCHANGED <<mounts, routes, ready, used>> /\ req[r].pc = "list"
    BY <1>2 DEF ListLeases, disk, history
  <2> QED
    BY <1>2, <2>1, ListLeasesEffect, SameMountKept DEF HasMount
<1>3. ASSUME NEW l \in Lease, RevokeListed(r, l)
      PROVE  MountInv'
  <2>1. UNCHANGED <<mounts, routes, ready, used>> /\ req[r].pc = "revoke"
    BY <1>3 DEF RevokeListed
  <2>2. Becomes(r, "revoke", req[r].at, req[r].id, req[r].todo \ {l})
    BY <1>3, RevokeListedEffect
  <2> QED
    BY <2>1, <2>2, SameMountKept DEF HasMount
<1>4. CASE Unroute(r)
  <2>1. UNCHANGED <<mounts, ready, used>> /\ req[r].pc = "revoke"
    BY <1>4 DEF Unroute, disk, history
  <2>2. CASE Done(r) /\ UNCHANGED routes
    BY <2>1, <2>2, DoneEffect, NoMountKept DEF HasMount
  <2>3. CASE req[r].id \in routes /\ routes' = routes \ {req[r].id} /\ Goto(r, "delete")
    <3>1. Becomes(r, "delete", req[r].at, req[r].id, req[r].todo)
      BY <2>3, GotoEffect
    <3>2. StoredAt(req[r].id, req[r].at)
      BY <2>1, <2>3 DEF MountInv, Removing
    <3>3. RowsDistinct' /\ IdsUsed'
      BY <2>1, <2>3, <3>1 DEF MountInv, RowsDistinct, IdsUsed, Becomes, Stored, HasMount
    <3>4. Inserting'
      BY <2>1, <2>3, <3>1 DEF MountInv, Inserting, Becomes, Stored, HasMount
    <3>5. Removing'
      BY <2>1, <2>3, <3>1, <3>2 DEF MountInv, Removing, Becomes, Stored, StoredAt
    <3> QED
      BY <3>3, <3>4, <3>5 DEF MountInv
  <2> QED
    BY <1>4, <2>2, <2>3 DEF Unroute
<1>5. CASE DeleteMount(r)
  <2>1. UNCHANGED <<routes, ready, used>> /\ req[r].pc = "delete"
    BY <1>5 DEF DeleteMount
  <2>2. CASE Done(r) /\ UNCHANGED mounts
    BY <2>1, <2>2, DoneEffect, NoMountKept DEF HasMount
  <2>3. CASE mounts' = {m \in mounts : m.at # req[r].at} /\ Goto(r, "drop")
    <3>1. Becomes(r, "drop", req[r].at, req[r].id, req[r].todo)
      BY <2>3, GotoEffect
    <3>2. StoredAt(req[r].id, req[r].at) /\ req[r].id \notin routes
      BY <2>1 DEF MountInv, Removing
    <3>3. \A m \in mounts : m.at = req[r].at <=> m.id = req[r].id
      BY <3>2 DEF MountInv, RowsDistinct, StoredAt
    <3>4. Stored' = Stored \ {req[r].id}
      BY <2>3, <3>3 DEF Stored
    <3>5. \A i, a : StoredAt(i, a) /\ i # req[r].id => StoredAt(i, a)'
      BY <2>3, <3>3 DEF StoredAt
    <3>6. RowsDistinct' /\ IdsUsed'
      BY <2>1, <2>3, <3>1, <3>4 DEF MountInv, RowsDistinct, IdsUsed, Becomes, HasMount
    <3>7. Inserting'
      BY <2>1, <3>1, <3>4 DEF MountInv, Inserting, Becomes, HasMount
    <3>8. Removing'
      BY <2>1, <3>1, <3>2, <3>4, <3>5 DEF MountInv, Removing, Becomes
    <3> QED
      BY <3>6, <3>7, <3>8 DEF MountInv
  <2> QED
    BY <1>5, <2>2, <2>3 DEF DeleteMount
<1>6. CASE DropTables(r)
  BY <1>6, DropTablesEffect, NoMountKept DEF DropTables, HasMount, history
<1> QED
  BY <1>1, <1>2, <1>3, <1>4, <1>5, <1>6

LEMMA NamespaceStepsInv ==
    ASSUME TypeInv, MountInv, NEW r \in Request,
           \/ (\E c \in Namespace : DeleteChild(r, c)) \/ ListMounts(r)
           \/ (\E p \in Path : RemoveNext(r, p)) \/ DeleteNamespace(r)
    PROVE  MountInv'
<1>1. UNCHANGED <<mounts, routes, ready, used>>
  BY DEF DeleteChild, ListMounts, RemoveNext, DeleteNamespace, disk, history
<1>2. \E pc \in {"idle", "children", "mounts", "find"} : \E at, id, todo : Becomes(r, pc, at, id, todo)
  BY DeleteChildEffect, ListMountsEffect, RemoveNextEffect, DeleteNamespaceEffect
<1> QED
  BY <1>1, <1>2, NoMountKept DEF HasMount

LEMMA MountInvStep ==
    ASSUME TypeInv, MountInv, [Next]_vars
    PROVE  MountInv'
<1>1. ASSUME NEW r \in Request, Begin(r) \/ HandlerStep(r)
      PROVE  MountInv'
  BY <1>1, BeginMountInv, MountStepsInv, RemovalStepsInv, NamespaceStepsInv DEF HandlerStep
<1>2. ASSUME NEW r \in Request, Cancel(r)
      PROVE  MountInv'
  BY <1>2, DoneEffect, NoMountKept DEF Cancel, HasMount, disk
<1>3. ASSUME UNCHANGED <<mounts, routes, ready, req>>, used \subseteq used'
      PROVE  MountInv'
  BY <1>3 DEF MountInv, RowsDistinct, IdsUsed, Inserting, Removing, Stored, StoredAt
<1>4. ASSUME NEW n \in Namespace, NEW p \in Namespace, CreateNamespace(n, p)
      PROVE  MountInv'
  BY <1>3, <1>4 DEF CreateNamespace
<1>5. CASE RevokeLease
  BY <1>3, <1>5 DEF RevokeLease
<1>6. CASE Reopen
  <2>1. UNCHANGED <<mounts, ready, used>> /\ \A r \in Request : req'[r].pc = "idle"
    BY <1>6, IdleType DEF Reopen, disk
  <2>2. routes' \subseteq Stored
    BY <1>6 DEF Reopen, MountsIn, Stored
  <2> QED
    BY <2>1, <2>2 DEF MountInv, RowsDistinct, IdsUsed, Inserting, Removing, Stored, HasMount
<1>7. CASE UNCHANGED vars
  BY <1>3, <1>7 DEF vars, disk, history
<1> QED
  BY <1>1, <1>2, <1>4, <1>5, <1>6, <1>7 DEF Next

LEMMA MountInvInit ==
    ASSUME Init
    PROVE  MountInv
BY IdleType DEF Init, MountInv, RowsDistinct, IdsUsed, Inserting, Removing, Stored, HasMount

-----------------------------------------------------------------------------
(***************************************************************************)
(* What a disable removes                                                  *)
(***************************************************************************)

LEMMA OnlyDeleteRemoves ==
    ASSUME TypeInv, [Next]_vars
    PROVE  \/ mounts \subseteq mounts'
           \/ \E r \in Request : DeleteMount(r) /\ mounts' = {m \in mounts : m.at # req[r].at}
BY DEF Next, Begin, HandlerStep, BeginMount, BeginIssue, BeginDisable, BeginDeleteNamespace,
       InsertMount, MigrateMount, RouteRequest, Issue, Register, FindMount, ListLeases,
       RevokeListed, Unroute, DeleteMount, DropTables, DeleteChild, ListMounts, RemoveNext,
       DeleteNamespace, Cancel, CreateNamespace, RevokeLease, Reopen, vars, disk

\* However many requests disable and create mounts at one path, a DELETE only
\* removes the mount that its request found and unrouted (remove_mount,
\* remove_by_path).
THEOREM DisableCorrect == Spec => DisableHitsItsMount
<1> DEFINE Hit == \A m \in mounts \ mounts' :
                     \E r \in Request : req[r].pc = "delete" /\ req[r].id = m.id
<1>1. Init => TypeInv /\ MountInv
  BY TypeInit, MountInvInit
<1>2. TypeInv /\ MountInv /\ [Next]_vars => (TypeInv /\ MountInv)'
  BY TypeStep, MountInvStep
<1>3. ASSUME TypeInv, MountInv, [Next]_vars
      PROVE  Hit
  <2>1. CASE mounts \subseteq mounts'
    BY <2>1
  <2>2. ASSUME NEW r \in Request, DeleteMount(r), mounts' = {m \in mounts : m.at # req[r].at}
        PROVE  Hit
    <3>1. req[r].pc = "delete" /\ StoredAt(req[r].id, req[r].at)
      BY <1>3, <2>2 DEF DeleteMount, MountInv, Removing
    <3>2. \A m \in mounts \ mounts' : m.id = req[r].id
      BY <1>3, <2>2, <3>1 DEF MountInv, RowsDistinct, StoredAt
    <3> QED
      BY <3>1, <3>2
  <2> QED
    BY <1>3, <2>1, <2>2, OnlyDeleteRemoves
<1>4. TypeInv /\ MountInv /\ [Next]_vars => [Hit]_vars
  BY <1>3
<1> QED
  BY <1>1, <1>2, <1>4, PTL DEF Spec, DisableHitsItsMount

\* Only an INSERT stores a mount, and it stores one that was never ready.
LEMMA StoredGrowth ==
    ASSUME TypeInv, MountInv, [Next]_vars
    PROVE  Stored' \cap ready \subseteq Stored
<1>1. CASE mounts' \subseteq mounts
  BY <1>1 DEF Stored
<1>2. ASSUME NEW r \in Request, InsertMount(r)
      PROVE  Stored' \cap ready \subseteq Stored
  <2>1. req[r].pc = "insert" /\ req[r].id \notin ready
    BY <1>2 DEF InsertMount, MountInv, Inserting
  <2> DEFINE row == [id |-> req[r].id, at |-> req[r].at]
  <2>2. mounts' \subseteq mounts \cup {row} /\ row.id = req[r].id
    BY <1>2 DEF InsertMount
  <2> HIDE DEF row
  <2> QED
    BY <2>1, <2>2 DEF Stored
<1>3. mounts' \subseteq mounts \/ \E r \in Request : InsertMount(r)
  BY DEF Next, Begin, HandlerStep, BeginMount, BeginIssue, BeginDisable, BeginDeleteNamespace,
         MigrateMount, RouteRequest, Issue, Register, FindMount, ListLeases,
         RevokeListed, Unroute, DeleteMount, DropTables, DeleteChild, ListMounts, RemoveNext,
         DeleteNamespace, Cancel, CreateNamespace, RevokeLease, Reopen, vars, disk
<1> QED
  BY <1>1, <1>2, <1>3

LEMMA StoredHasTablesStep ==
    ASSUME TypeInv, MountInv, StoredHasTables, [Next]_vars
    PROVE  StoredHasTables'
<1>1. Stored' \cap ready \subseteq Stored
  BY StoredGrowth
<1>2. CASE UNCHANGED <<tables, ready>>
  BY <1>1, <1>2 DEF StoredHasTables
<1>3. ASSUME NEW r \in Request, MigrateMount(r)
      PROVE  StoredHasTables'
  BY <1>1, <1>3 DEF MigrateMount, StoredHasTables
<1>4. ASSUME NEW r \in Request, DropTables(r)
      PROVE  StoredHasTables'
  BY <1>1, <1>4 DEF DropTables, StoredHasTables, MountInv, Removing, Stored, history
<1>5. \/ UNCHANGED <<tables, ready>>
      \/ \E r \in Request : MigrateMount(r) \/ DropTables(r)
  BY DEF Next, Begin, HandlerStep, BeginMount, BeginIssue, BeginDisable, BeginDeleteNamespace,
         InsertMount, RouteRequest, Issue, Register, FindMount, ListLeases,
         RevokeListed, Unroute, DeleteMount, DeleteChild, ListMounts, RemoveNext,
         DeleteNamespace, Cancel, CreateNamespace, RevokeLease, Reopen, vars, disk, history
<1> QED
  BY <1>2, <1>3, <1>4, <1>5

\* No disable drops the tables of a mount that can still be found
\* (remove_mount deletes the row before it drops the tables).
THEOREM TablesCorrect == Spec => []StoredHasTables
<1>1. Init => TypeInv /\ MountInv /\ StoredHasTables
  BY TypeInit, MountInvInit DEF Init, StoredHasTables
<1>2. TypeInv /\ MountInv /\ StoredHasTables /\ [Next]_vars => (TypeInv /\ MountInv /\ StoredHasTables)'
  BY TypeStep, MountInvStep, StoredHasTablesStep
<1> QED
  BY <1>1, <1>2, PTL DEF Spec

-----------------------------------------------------------------------------
(***************************************************************************)
(* Stored mounts are routed                                                *)
(***************************************************************************)

\* A step of a request that is not about to delete a mount
LEMMA RoutedKept ==
    ASSUME TypeInv, StoredIsRouted, NEW r \in Request, NEW h, SetReq(r, h),
           req[r].pc # "delete", mounts' \subseteq mounts,
           routes \subseteq routes', stuck \subseteq stuck'
    PROVE  StoredIsRouted'
BY DEF SetReq, StoredIsRouted, TypeInv, TypeOK

LEMMA RoutedStep ==
    ASSUME TypeInv, MountInv, StoredIsRouted, [Next]_vars
    PROVE  StoredIsRouted'
<1>1. ASSUME NEW r \in Request, Begin(r)
      PROVE  StoredIsRouted'
  BY <1>1, RoutedKept
     DEF Begin, MayBegin, BeginMount, BeginIssue, BeginDisable, BeginDeleteNamespace, disk, history
<1>2. ASSUME NEW r \in Request,
             MigrateMount(r) \/ RouteRequest(r) \/ Issue(r) \/ Register(r) \/ FindMount(r)
      PROVE  StoredIsRouted'
  BY <1>2, RoutedKept
     DEF MigrateMount, RouteRequest, Issue, Register, FindMount, Goto, Done, disk, history
<1>3. ASSUME NEW r \in Request, ListLeases(r) \/ (\E l \in Lease : RevokeListed(r, l)) \/ DropTables(r)
      PROVE  StoredIsRouted'
  BY <1>3, RoutedKept DEF ListLeases, RevokeListed, DropTables, Done, disk, history
<1>4. ASSUME NEW r \in Request,
             \/ (\E c \in Namespace : DeleteChild(r, c)) \/ ListMounts(r)
             \/ (\E p \in Path : RemoveNext(r, p)) \/ DeleteNamespace(r)
      PROVE  StoredIsRouted'
  BY <1>4, RoutedKept
     DEF DeleteChild, ListMounts, Replace, RemoveNext, DeleteNamespace, Done, disk, history
<1>5. ASSUME NEW r \in Request, InsertMount(r)
      PROVE  StoredIsRouted'
  <2>1. /\ req[r].pc = "insert" /\ req[r].id \in routes /\ UNCHANGED <<routes, stuck>>
        /\ \E h : SetReq(r, h)
    BY <1>5 DEF InsertMount, MountInv, Inserting, history, Goto, Done
  <2> DEFINE row == [id |-> req[r].id, at |-> req[r].at]
  <2>2. mounts' \subseteq mounts \cup {row} /\ row.id = req[r].id
    BY <1>5 DEF InsertMount
  <2> HIDE DEF row
  <2> QED
    BY <2>1, <2>2 DEF StoredIsRouted, SetReq, TypeInv, TypeOK
<1>6. ASSUME NEW r \in Request, Unroute(r)
      PROVE  StoredIsRouted'
  <2>1. CASE UNCHANGED routes
    BY <1>6, <2>1, RoutedKept DEF Unroute, Goto, Done, disk, history
  <2>2. CASE routes' = routes \ {req[r].id} /\ Goto(r, "delete")
    <3>1. Becomes(r, "delete", req[r].at, req[r].id, req[r].todo) /\ req[r].pc = "revoke"
      BY <1>6, <2>2, GotoEffect DEF Unroute
    <3> QED
      BY <1>6, <2>2, <3>1 DEF Unroute, StoredIsRouted, Becomes, disk, history
  <2> QED
    BY <1>6, <2>1, <2>2 DEF Unroute
<1>7. ASSUME NEW r \in Request, DeleteMount(r)
      PROVE  StoredIsRouted'
  <2>1. req[r].pc = "delete" /\ StoredAt(req[r].id, req[r].at) /\ UNCHANGED routes
    BY <1>7 DEF DeleteMount, MountInv, Removing
  <2>2. \A q \in Request : q # r => req'[q] = req[q]
    BY <1>7 DEF DeleteMount, Goto, Done, SetReq, TypeInv, TypeOK
  <2>3. CASE mounts' = {m \in mounts : m.at # req[r].at} /\ UNCHANGED stuck
    <3>1. \A m \in mounts' : m \in mounts /\ m.id # req[r].id
      BY <2>1, <2>3 DEF MountInv, RowsDistinct, StoredAt
    <3> QED
      BY <2>1, <2>2, <2>3, <3>1 DEF StoredIsRouted
  <2>4. CASE stuck' = stuck \cup {req[r].id} /\ UNCHANGED mounts
    BY <2>1, <2>2, <2>4 DEF StoredIsRouted
  <2> QED
    BY <1>7, <2>3, <2>4 DEF DeleteMount
<1>8. ASSUME NEW r \in Request, Cancel(r)
      PROVE  StoredIsRouted'
  <2>1. \A q \in Request : q # r => req'[q] = req[q]
    BY <1>8 DEF Cancel, Done, SetReq, TypeInv, TypeOK
  <2> QED
    BY <1>8, <2>1 DEF Cancel, StoredIsRouted, disk
<1>9. CASE Reopen
  BY <1>9 DEF Reopen, StoredIsRouted, disk
<1>10. CASE \/ \E n, p \in Namespace : CreateNamespace(n, p)
            \/ RevokeLease \/ UNCHANGED vars
  BY <1>10 DEF CreateNamespace, RevokeLease, vars, disk, history, StoredIsRouted
<1> QED
  BY <1>1, <1>2, <1>3, <1>4, <1>5, <1>6, <1>7, <1>8, <1>9, <1>10 DEF Next, HandlerStep

\* Every stored mount is reachable, but for those whose removal began and did
\* not end, and those of child namespaces after a restart (mount,
\* remove_mount, unseal).
THEOREM RoutesCorrect == Spec => []StoredIsRouted
<1>1. Init => TypeInv /\ MountInv /\ StoredIsRouted
  BY TypeInit, MountInvInit DEF Init, StoredIsRouted
<1>2. TypeInv /\ MountInv /\ StoredIsRouted /\ [Next]_vars => (TypeInv /\ MountInv /\ StoredIsRouted)'
  BY TypeStep, MountInvStep, RoutedStep
<1> QED
  BY <1>1, <1>2, PTL DEF Spec

-----------------------------------------------------------------------------
(***************************************************************************)
(* LeaseInv is inductive                                                   *)
(***************************************************************************)

\* A step that leaves leases and secrets alone and removes no mount, of a
\* request that has no lease to register afterwards
LEMMA LeaseInvKept ==
    ASSUME TypeInv, LeaseInv,
           UNCHANGED <<leases, owner, live, registered, abandoned>>, mounts \subseteq mounts',
           NEW r \in Request, NEW pc, NEW at, NEW id, NEW todo,
           Becomes(r, pc, at, id, todo), pc # "register"
    PROVE  LeaseInv'
<1>1. LeaseHasMount' /\ LeasesDistinct'
  BY DEF LeaseInv, LeaseHasMount, LeasesDistinct, HasLease
<1>2. Registering'
  BY DEF LeaseInv, Registering, HasLease, Becomes
<1>3. Protected'
  BY DEF LeaseInv, Protected, StoredAt
<1> QED
  BY <1>1, <1>2, <1>3 DEF LeaseInv

LEMMA IssueLeaseInv ==
    ASSUME TypeInv, LeaseInv, NEW r \in Request, NEW s \in Secret, Issue(r), Issues(r, s)
    PROVE  LeaseInv'
<1>1. /\ UNCHANGED <<leases, mounts, registered, abandoned>>
      /\ req[r].pc = "issue" /\ req[r].id \in MountId /\ req[r].at \in Place
  BY DEF Issue, disk, history, TypeInv, HandlersOK, HasMount
<1>2. /\ owner'[s] = req[r].id /\ owner'[s] # None
      /\ \A t \in Secret \ {s} : owner'[t] = owner[t]
      /\ live' = live \cup {s} /\ owner[s] = None
  BY <1>1, MountsAssumption DEF Issues, TypeInv, TypeOK
<1>3. s \notin registered /\ ~ HasLease(s)
  BY <1>2 DEF LeaseInv, LeasesDistinct
<1>4. LeaseHasMount' /\ LeasesDistinct'
  BY <1>1, <1>2 DEF LeaseInv, LeaseHasMount, LeasesDistinct, HasLease
<1>5. Registering'
  <2>1. ASSUME NEW q \in Request, req'[q].pc = "register", q # r
        PROVE  \E t \in Secret :
                  /\ req'[q].todo = {[secret |-> t, at |-> req'[q].at]}
                  /\ owner'[t] # None /\ t \notin registered' /\ ~ HasLease(t)'
                  /\ \A x \in Request : x # q /\ req'[x].pc = "register" =>
                         \A l \in req'[x].todo : l.secret # t
    <3>1. req'[q] = req[q]
      BY <2>1 DEF Issues, Becomes
    <3>2. PICK t \in Secret :
                  /\ req[q].todo = {[secret |-> t, at |-> req[q].at]}
                  /\ owner[t] # None /\ t \notin registered /\ ~ HasLease(t)
                  /\ \A x \in Request : x # q /\ req[x].pc = "register" =>
                         \A l \in req[x].todo : l.secret # t
      BY <2>1, <3>1 DEF LeaseInv, Registering
    <3>3. t # s
      BY <1>2, <3>2
    <3>4. \A l \in req'[r].todo : l.secret # t
      BY <3>3 DEF Issues, Becomes
    <3>5. \A x \in Request : x # r => req'[x] = req[x]
      BY DEF Issues, Becomes
    <3>6. owner'[t] # None /\ t \notin registered' /\ ~ HasLease(t)'
      BY <1>1, <1>2, <3>2, <3>3 DEF HasLease
    <3> QED
      BY <3>1, <3>2, <3>4, <3>5, <3>6
  <2>2. /\ req'[r].todo = {[secret |-> s, at |-> req'[r].at]}
        /\ owner'[s] # None /\ s \notin registered' /\ ~ HasLease(s)'
    BY <1>1, <1>2, <1>3 DEF Issues, Becomes, HasLease
  <2>3. ASSUME NEW x \in Request, x # r, req'[x].pc = "register", NEW l \in req'[x].todo
        PROVE  l.secret # s
    <3>1. req'[x] = req[x]
      BY <2>3 DEF Issues, Becomes
    <3>2. PICK t \in Secret : /\ req[x].todo = {[secret |-> t, at |-> req[x].at]}
                              /\ owner[t] # None
      BY <2>3, <3>1 DEF LeaseInv, Registering
    <3> QED
      BY <1>2, <2>3, <3>1, <3>2
  <2> QED
    BY <2>1, <2>2, <2>3 DEF Registering
<1>6. Protected'
  <2>1. \A t \in registered' \cap live' : t \in live /\ owner'[t] = owner[t]
    BY <1>1, <1>2, <1>3 DEF TypeInv, TypeOK
  <2> QED
    BY <1>1, <2>1 DEF LeaseInv, Protected, StoredAt
<1> QED
  BY <1>4, <1>5, <1>6 DEF LeaseInv

LEMMA RegisterLeaseInv ==
    ASSUME TypeInv, LeaseInv, NEW r \in Request, Register(r)
    PROVE  LeaseInv'
<1>1. Becomes(r, "idle", None, None, {}) /\ UNCHANGED <<mounts, owner, live, abandoned>>
  BY DoneEffect DEF Register, backend
<1>2. PICK s \in Secret :
            /\ req[r].todo = {[secret |-> s, at |-> req[r].at]}
            /\ owner[s] # None /\ s \notin registered /\ ~ HasLease(s)
            /\ \A q \in Request : q # r /\ req[q].pc = "register" =>
                   \A l \in req[q].todo : l.secret # s
  BY DEF Register, LeaseInv, Registering
<1> DEFINE lease == [secret |-> s, at |-> req[r].at]
<1>3. lease.secret = s /\ lease.at = req[r].at /\ req[r].todo = {lease}
  BY <1>2
<1> HIDE DEF lease
<1>4. \/ /\ leases' = leases \cup {lease}
         /\ \E m \in mounts : m.at = req[r].at
      \/ UNCHANGED leases
  BY <1>3 DEF Register
<1>5. \/ UNCHANGED registered
      \/ /\ registered' = registered \cup {s}
         /\ leases' = leases \cup {lease}
         /\ StoredAt(owner[s], lease.at)
  BY <1>3 DEF Register, StoredAt
<1>6. LeaseHasMount'
  BY <1>1, <1>3, <1>4 DEF LeaseInv, LeaseHasMount
<1>7. LeasesDistinct'
  BY <1>1, <1>2, <1>3, <1>4, <1>5 DEF LeaseInv, LeasesDistinct, HasLease
<1>8. Registering'
  <2>1. ASSUME NEW q \in Request, req'[q].pc = "register"
        PROVE  \E t \in Secret :
                  /\ req'[q].todo = {[secret |-> t, at |-> req'[q].at]}
                  /\ owner'[t] # None /\ t \notin registered' /\ ~ HasLease(t)'
                  /\ \A x \in Request : x # q /\ req'[x].pc = "register" =>
                         \A l \in req'[x].todo : l.secret # t
    <3>1. q # r /\ req'[q] = req[q]
      BY <1>1, <2>1 DEF Becomes
    <3>2. PICK t \in Secret :
                  /\ req[q].todo = {[secret |-> t, at |-> req[q].at]}
                  /\ owner[t] # None /\ t \notin registered /\ ~ HasLease(t)
                  /\ \A x \in Request : x # q /\ req[x].pc = "register" =>
                         \A l \in req[x].todo : l.secret # t
      BY <2>1, <3>1 DEF LeaseInv, Registering
    <3>3. t # s
      <4>1. \A l \in req[q].todo : l.secret # s
        BY <1>2, <2>1, <3>1
      <4> QED
        BY <3>2, <4>1
    <3>4. owner'[t] # None /\ t \notin registered' /\ ~ HasLease(t)'
      BY <1>1, <1>3, <1>4, <1>5, <3>2, <3>3 DEF HasLease
    <3>5. \A x \in Request : req'[x].pc = "register" => x # r /\ req'[x] = req[x]
      BY <1>1 DEF Becomes
    <3> QED
      BY <3>1, <3>2, <3>4, <3>5
  <2> QED
    BY <2>1 DEF Registering
<1>9. Protected'
  BY <1>1, <1>3, <1>4, <1>5 DEF LeaseInv, Protected, StoredAt
<1> QED
  BY <1>6, <1>7, <1>8, <1>9 DEF LeaseInv

\* A revocation: while a secret lives, its lease stays or is given up.
LEMMA RevokeLeaseInv ==
    ASSUME TypeInv, MountInv, LeaseInv, NEW l \in Lease, Revoke(l),
           UNCHANGED <<mounts, owner, registered>>
    PROVE  /\ leases' \subseteq leases
           /\ LeaseHasMount' /\ LeasesDistinct' /\ Protected'
<1>1. leases' \subseteq leases /\ live' \subseteq live
  BY RevokeType
<1>2. LeaseHasMount' /\ LeasesDistinct'
  BY <1>1 DEF LeaseInv, LeaseHasMount, LeasesDistinct, HasLease
<1>3. ASSUME NEW s \in registered \cap live', s \notin abandoned'
      PROVE  \E k \in leases' : k.secret = s /\ StoredAt(owner[s], k.at)
  <2>1. abandoned \subseteq abandoned'
    BY DEF Revoke
  <2>2. PICK k \in leases : k.secret = s /\ StoredAt(owner[s], k.at)
    BY <1>1, <1>3, <2>1 DEF LeaseInv, Protected
  <2>3. k # l \/ k \in leases'
    <3>1. ASSUME k = l, NEW m \in mounts, m.at = l.at,
                 live' = IF owner[l.secret] = m.id THEN live \ {l.secret} ELSE live
          PROVE  owner[s] # m.id
      BY <1>3, <2>2, <3>1
    <3>2. ASSUME k = l, NEW m \in mounts, m.at = l.at, owner[s] # m.id
          PROVE  FALSE
      BY <2>2, <3>2 DEF StoredAt, MountInv, RowsDistinct
    <3> QED
      BY <1>3, <2>2, <3>1, <3>2 DEF Revoke
  <2> QED
    BY <2>2, <2>3 DEF Revoke
<1>4. Protected'
  BY <1>3 DEF Protected, StoredAt
<1> QED
  BY <1>1, <1>2, <1>4

\* After a step that changes no secret's registration, whoever was to
\* register a lease still has a secret without one.
LEMMA RegisteringKept ==
    ASSUME LeaseInv, leases' \subseteq leases, UNCHANGED <<owner, registered>>,
           \A q \in Request : req'[q].pc = "register" => req'[q] = req[q]
    PROVE  Registering'
BY DEF LeaseInv, Registering, HasLease

LEMMA LeaseInvStep ==
    ASSUME TypeInv, MountInv, LeaseInv, [Next]_vars
    PROVE  LeaseInv'
<1>1. ASSUME NEW r \in Request, Begin(r)
      PROVE  LeaseInv'
  <2>1. \E pc \in {"insert", "route", "find", "children"} :
           \E at, id, todo : Becomes(r, pc, at, id, todo)
    BY <1>1, BeginMountEffect, BeginIssueEffect, BeginDisableEffect, BeginDeleteNamespaceEffect
       DEF Begin
  <2>2. UNCHANGED <<mounts, leases, owner, live, registered, abandoned>>
    BY <1>1 DEF Begin, BeginMount, BeginIssue, BeginDisable, BeginDeleteNamespace,
                disk, backend, history
  <2> QED
    BY <2>1, <2>2, LeaseInvKept
<1>2. ASSUME NEW r \in Request, InsertMount(r) \/ MigrateMount(r) \/ RouteRequest(r)
      PROVE  LeaseInv'
  <2>1. \E pc \in {"idle", "migrate", "issue"} : \E at, id, todo : Becomes(r, pc, at, id, todo)
    BY <1>2, DoneEffect, GotoEffect DEF InsertMount, MigrateMount, RouteRequest
  <2>2. mounts \subseteq mounts' /\ UNCHANGED <<leases, owner, live, registered, abandoned>>
    BY <1>2 DEF InsertMount, MigrateMount, RouteRequest, disk, backend, history
  <2> QED
    BY <2>1, <2>2, LeaseInvKept
<1>3. ASSUME NEW r \in Request, Issue(r)
      PROVE  LeaseInv'
  <2>1. CASE Becomes(r, "idle", None, None, {}) /\ UNCHANGED backend
    BY <1>3, <2>1, LeaseInvKept DEF Issue, disk, backend, history
  <2> QED
    BY <1>3, <2>1, IssueEffect, IssueLeaseInv
<1>4. ASSUME NEW r \in Request,
             \/ FindMount(r) \/ ListLeases(r) \/ DropTables(r)
             \/ (\E c \in Namespace : DeleteChild(r, c)) \/ ListMounts(r)
             \/ (\E p \in Path : RemoveNext(r, p)) \/ DeleteNamespace(r)
      PROVE  LeaseInv'
  <2>1. \E pc \in {"idle", "list", "revoke", "mounts", "children", "find"} :
           \E at, id, todo : Becomes(r, pc, at, id, todo)
    BY <1>4, FindMountEffect, ListLeasesEffect, DropTablesEffect, DeleteChildEffect,
       ListMountsEffect, RemoveNextEffect, DeleteNamespaceEffect
  <2>2. UNCHANGED <<mounts, leases, owner, live, registered, abandoned>>
    BY <1>4 DEF FindMount, ListLeases, DropTables, DeleteChild, ListMounts, RemoveNext,
                DeleteNamespace, disk, backend, history
  <2> QED
    BY <2>1, <2>2, LeaseInvKept
<1>5. ASSUME NEW r \in Request, NEW l \in Lease, RevokeListed(r, l)
      PROVE  LeaseInv'
  <2>1. /\ leases' \subseteq leases
        /\ LeaseHasMount' /\ LeasesDistinct' /\ Protected'
    BY <1>5, RevokeLeaseInv DEF RevokeListed
  <2>2. Becomes(r, "revoke", req[r].at, req[r].id, req[r].todo \ {l})
    BY <1>5, RevokeListedEffect
  <2>3. \A q \in Request : req'[q].pc = "register" => req'[q] = req[q]
    BY <2>2 DEF Becomes
  <2>4. Registering'
    BY <1>5, <2>1, <2>3, RegisteringKept DEF RevokeListed
  <2> QED
    BY <2>1, <2>4 DEF LeaseInv
<1>6. ASSUME NEW r \in Request, Unroute(r)
      PROVE  LeaseInv'
  <2>1. \E pc \in {"idle", "delete"} : \E at, id, todo : Becomes(r, pc, at, id, todo)
    BY <1>6, DoneEffect, GotoEffect DEF Unroute
  <2>2. UNCHANGED <<mounts, leases, owner, live, registered, abandoned>>
    BY <1>6 DEF Unroute, disk, backend, history
  <2> QED
    BY <2>1, <2>2, LeaseInvKept
<1>7. ASSUME NEW r \in Request, DeleteMount(r)
      PROVE  LeaseInv'
  <2>1. \E pc \in {"idle", "drop"} : \E at, id, todo : Becomes(r, pc, at, id, todo)
    BY <1>7, DoneEffect, GotoEffect DEF DeleteMount
  <2>2. UNCHANGED <<leases, owner, live, registered, abandoned>>
    BY <1>7 DEF DeleteMount, backend
  <2>3. CASE UNCHANGED mounts
    BY <2>1, <2>2, <2>3, LeaseInvKept
  <2>4. CASE /\ mounts' = {m \in mounts : m.at # req[r].at}
             /\ \A l \in leases : l.at # req[r].at
    <3>1. \A l \in leases, m \in mounts : m.at = l.at => m \in mounts'
      BY <2>4
    <3>2. LeaseHasMount' /\ LeasesDistinct'
      BY <2>2, <3>1 DEF LeaseInv, LeaseHasMount, LeasesDistinct, HasLease
    <3>3. Registering'
      BY <2>1, <2>2, RegisteringKept DEF Becomes
    <3>4. Protected'
      BY <2>2, <3>1 DEF LeaseInv, Protected, StoredAt
    <3> QED
      BY <3>2, <3>3, <3>4 DEF LeaseInv
  <2> QED
    BY <1>7, <2>3, <2>4 DEF DeleteMount
<1>8. ASSUME NEW r \in Request, Cancel(r)
      PROVE  LeaseInv'
  BY <1>8, DoneEffect, LeaseInvKept DEF Cancel, disk, backend
<1>9. CASE RevokeLease
  <2>1. PICK l \in leases : Revoke(l)
    BY <1>9 DEF RevokeLease
  <2>2. /\ leases' \subseteq leases
        /\ LeaseHasMount' /\ LeasesDistinct' /\ Protected'
    BY <1>9, <2>1, RevokeLeaseInv DEF RevokeLease, TypeInv, TypeOK
  <2>3. Registering'
    BY <1>9, <2>2, RegisteringKept DEF RevokeLease
  <2> QED
    BY <2>2, <2>3 DEF LeaseInv
<1>10. ASSUME UNCHANGED <<mounts, leases, owner, live, registered, abandoned>>,
              \A q \in Request : req'[q].pc = "register" => req'[q] = req[q]
       PROVE  LeaseInv'
  <2>1. Registering'
    BY <1>10, RegisteringKept
  <2> QED
    BY <1>10, <2>1
       DEF LeaseInv, LeaseHasMount, LeasesDistinct, HasLease, Protected, StoredAt
<1>11. CASE Reopen
  BY <1>10, <1>11, IdleType DEF Reopen, disk, backend
<1>12. CASE (\E n, p \in Namespace : CreateNamespace(n, p)) \/ UNCHANGED vars
  BY <1>10, <1>12 DEF CreateNamespace, vars, disk, backend, history
<1> QED
  BY <1>1, <1>2, <1>3, <1>4, <1>5, <1>6, <1>7, <1>8, <1>9, <1>11, <1>12, RegisterLeaseInv
     DEF Next, HandlerStep

\* A mount is gone only when every secret that had a lease on it is revoked or
\* was given up: the foreign key of LEASES refuses the DELETE otherwise
\* (lease_registration, remove_mount, revoke_lease_entry).
THEOREM LeasesCorrect == Spec => []LeasesRevokedFirst
<1>1. Init => TypeInv /\ MountInv /\ LeaseInv
  BY TypeInit, MountInvInit, IdleType
     DEF Init, LeaseInv, LeaseHasMount, LeasesDistinct, HasLease, Registering, Protected
<1>2. TypeInv /\ MountInv /\ LeaseInv /\ [Next]_vars => (TypeInv /\ MountInv /\ LeaseInv)'
  BY TypeStep, MountInvStep, LeaseInvStep
<1>3. LeaseInv => LeasesRevokedFirst
  BY DEF LeaseInv, Protected, LeasesRevokedFirst, StoredAt, Stored
<1> QED
  BY <1>1, <1>2, <1>3, PTL DEF Spec
=============================================================================
